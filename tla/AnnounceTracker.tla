---------------------------- MODULE AnnounceTracker ----------------------------
(***************************************************************************)
(* rnguard's AnnounceRateTracker as a state machine: packets and sweeps in *)
(* any order and at any times. Rnguard places it in the program's loop.    *)
(***************************************************************************)
EXTENDS AnnounceTable

CONSTANT MaxClock  \* bound on the clock

ASSUME TrackerAssumption == MaxClock \in Nat

VARIABLES
  clock,      \* Instant of the last call
  rates,      \* [history : stamps per destination, reported : flagged destinations]
  counted,    \* history variable: every stamp ever pushed, per destination
  lastAlarm,  \* history variable: time of the last report, per destination
  lastPacket  \* history variable: time of the last packet, per destination

trackerVars == <<clock, rates, counted, lastAlarm, lastPacket>>

ClockTime == 0 .. MaxClock

--------------------------------------------------------------------------------
TrackerInit ==
  /\ clock = 0
  /\ rates = EmptyTracker
  /\ counted = [d \in Dest |-> {}]
  /\ lastAlarm = [d \in Dest |-> Never]
  /\ lastPacket = [d \in Dest |-> Never]

\* The history variables of a packet for d at t.
Observe(d, t) ==
  /\ counted' = IF FanOut(Live(rates.history[d], t), t)
                THEN counted
                ELSE [counted EXCEPT ![d] = @ \cup {t}]
  /\ lastAlarm' = IF Reports(rates, d, t)
                  THEN [lastAlarm EXCEPT ![d] = t]
                  ELSE lastAlarm
  /\ lastPacket' = [lastPacket EXCEPT ![d] = t]

Record(d, t) ==
  /\ clock' = t
  /\ rates' = Recorded(rates, d, t)
  /\ Observe(d, t)

Prune(t) ==
  /\ clock' = t
  /\ rates' = Pruned(rates, t)
  /\ UNCHANGED <<counted, lastAlarm, lastPacket>>

TrackerNext ==
  \E t \in clock .. MaxClock :
    \/ \E d \in Dest : Record(d, t)
    \/ Prune(t)

TrackerSpec == TrackerInit /\ [][TrackerNext]_trackerVars

--------------------------------------------------------------------------------
TrackerTypeOK ==
  /\ clock \in ClockTime
  /\ rates \in [history : [Dest -> SUBSET ClockTime], reported : SUBSET Dest]
  /\ counted \in [Dest -> SUBSET ClockTime]
  /\ lastAlarm \in [Dest -> ClockTime \cup {Never}]
  /\ lastPacket \in [Dest -> ClockTime \cup {Never}]

\* Ageing stamps out lazily, in record and prune only, never loses or keeps a
\* stamp that decides a count: the live part of the table is exactly the set of
\* announces counted in the last window.
WindowExact ==
  \A d \in Dest :
    {s \in rates.history[d] : s + Window > clock} = {s \in counted[d] : s + Window > clock}

\* A destination whose table entry is over the threshold carries the reported
\* flag: no order of record and prune lets a flood run on unreported.
FloodFlagged ==
  \A d \in Dest : Cardinality(rates.history[d]) > Threshold => d \in rates.reported

\* Coalescing bounds what one destination can be counted for: n live stamps span
\* (n - 1) * Coalesce. With Threshold * Coalesce >= Window no flood, however
\* fast, is ever reported.
CoalesceCeiling ==
  \A d \in Dest :
    Cardinality(Live(rates.history[d], clock)) * Coalesce < Window + Coalesce

\* The doc comment of record(): packets arriving within `coalesce` of this
\* destination's previous packet are discarded without counting.
QuietBeforeCount ==
  [][\A d \in Dest :
       counted'[d] # counted[d] /\ lastPacket[d] # Never
         => clock' - lastPacket[d] >= Coalesce]_trackerVars

\* The table implements the sliding-window alarm: it reports when the exact
\* count passes the threshold, and again only after a full window of silence.
Alarm == INSTANCE RateAlarm WITH now <- clock, announces <- counted, MaxTime <- MaxClock

AlarmSpec == Alarm!Spec
================================================================================
