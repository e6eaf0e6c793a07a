------------------------- MODULE AnnounceTracker_proofs -------------------------
(***************************************************************************)
(* Proofs about AnnounceTracker for every set of destinations, window,     *)
(* threshold, coalescing interval and clock bound: the run's invariants,   *)
(* and that the table implements RateAlarm.                                *)
(***************************************************************************)
EXTENDS AnnounceTracker, FiniteSetTheorems, TLAPS

--------------------------------------------------------------------------------
(* The inductive invariant.                                                *)

\* No stamp lies in the future, and the table holds only stamps that counted.
Past ==
  \A d \in Dest :
    /\ rates.history[d] \subseteq counted[d]
    /\ \A s \in counted[d] : s <= clock

\* Stamps of one destination are at least Coalesce apart.
Spaced ==
  \A d \in Dest : \A r, s \in rates.history[d] : r < s => s - r >= Coalesce

\* A flagged destination was reported; one that was reported and is no longer
\* flagged has been silent for a full window since.
FlagMeansAlarm ==
  \A d \in Dest :
    /\ lastAlarm[d] # Never => lastAlarm[d] <= clock
    /\ d \in rates.reported => lastAlarm[d] # Never
    /\ d \notin rates.reported => Alarm!Rearmed(d, clock)

TrackerInv ==
  /\ TrackerTypeOK
  /\ Past
  /\ WindowExact
  /\ Spaced
  /\ FloodFlagged
  /\ FlagMeansAlarm

--------------------------------------------------------------------------------
\* Every set of stamps is finite.
LEMMA StampsFinite ==
  ASSUME NEW S \in SUBSET ClockTime
  PROVE  IsFiniteSet(S) /\ Cardinality(S) \in Nat
<1>1. IsFiniteSet(ClockTime)
  BY FS_Interval, TableAssumption, TrackerAssumption DEF ClockTime
<1>2. IsFiniteSet(S)
  BY <1>1, FS_Subset
<1> QED BY <1>2, FS_CardinalityType

\* Ageing a set of stamps keeps its type and does not raise its count.
LEMMA LiveShrinks ==
  ASSUME NEW S \in SUBSET ClockTime, NEW t
  PROVE  /\ Live(S, t) \in SUBSET S
         /\ Live(S, t) \in SUBSET ClockTime
         /\ Cardinality(Live(S, t)) <= Cardinality(S)
<1>1. Live(S, t) \in SUBSET S
  BY DEF Live
<1>2. IsFiniteSet(S)
  BY StampsFinite
<1> QED BY <1>1, <1>2, FS_Subset

\* What a packet and a sweep do to each destination's stamps.
LEMMA RecordedStamps ==
  ASSUME TrackerTypeOK, NEW d \in Dest, NEW t \in ClockTime
  PROVE  /\ Recorded(rates, d, t) \in [history : [Dest -> SUBSET ClockTime],
                                         reported : SUBSET Dest]
         /\ \A e \in Dest \ {d} :
              Recorded(rates, d, t).history[e] = rates.history[e]
         /\ FanOut(Live(rates.history[d], t), t) =>
              /\ Recorded(rates, d, t).history[d] = Live(rates.history[d], t)
              /\ Recorded(rates, d, t).reported = rates.reported
         /\ ~FanOut(Live(rates.history[d], t), t) =>
              /\ Recorded(rates, d, t).history[d] = Live(rates.history[d], t) \cup {t}
              /\ Recorded(rates, d, t).reported =
                   IF Cardinality(Live(rates.history[d], t) \cup {t}) > Threshold
                   THEN rates.reported \cup {d} ELSE rates.reported
<1> DEFINE live == Live(rates.history[d], t)
<1>1. live \in SUBSET ClockTime
  BY LiveShrinks DEF TrackerTypeOK
<1> HIDE DEF live
<1>2. CASE FanOut(live, t)
  BY <1>1, <1>2 DEF Recorded, TrackerTypeOK, live
<1>3. CASE ~FanOut(live, t)
  BY <1>1, <1>3 DEF Recorded, TrackerTypeOK, live
<1> QED BY <1>2, <1>3 DEF live

LEMMA PrunedStamps ==
  ASSUME TrackerTypeOK, NEW t \in ClockTime
  PROVE  /\ Pruned(rates, t) \in [history : [Dest -> SUBSET ClockTime],
                                    reported : SUBSET Dest]
         /\ \A d \in Dest : Pruned(rates, t).history[d] = Live(rates.history[d], t)
         /\ \A d \in Dest : d \in Pruned(rates, t).reported <=>
              d \in rates.reported /\ Live(rates.history[d], t) # {}
         /\ Pruned(rates, t).reported \subseteq rates.reported
<1>1. \A d \in Dest : Live(rates.history[d], t) \in SUBSET ClockTime
  BY LiveShrinks DEF TrackerTypeOK
<1> QED BY <1>1 DEF Pruned, TrackerTypeOK

\* What a packet does to the history variables.
LEMMA Observed ==
  ASSUME TrackerTypeOK, NEW d \in Dest, NEW t \in ClockTime, Observe(d, t)
  PROVE  /\ counted' \in [Dest -> SUBSET ClockTime]
         /\ lastAlarm' \in [Dest -> ClockTime \cup {Never}]
         /\ lastPacket' \in [Dest -> ClockTime \cup {Never}]
         /\ \A e \in Dest \ {d} : counted'[e] = counted[e] /\ lastAlarm'[e] = lastAlarm[e]
         /\ counted'[d] = IF FanOut(Live(rates.history[d], t), t)
                          THEN counted[d] ELSE counted[d] \cup {t}
         /\ lastAlarm'[d] = IF Reports(rates, d, t) THEN t ELSE lastAlarm[d]
<1> DEFINE fan == FanOut(Live(rates.history[d], t), t)
           rep == Reports(rates, d, t)
<1>1. /\ counted' = IF fan THEN counted ELSE [counted EXCEPT ![d] = @ \cup {t}]
      /\ lastAlarm' = IF rep THEN [lastAlarm EXCEPT ![d] = t] ELSE lastAlarm
      /\ lastPacket' = [lastPacket EXCEPT ![d] = t]
  BY DEF Observe
<1> HIDE DEF fan, rep
<1>2. /\ counted' \in [Dest -> SUBSET ClockTime]
      /\ \A e \in Dest \ {d} : counted'[e] = counted[e]
      /\ counted'[d] = IF fan THEN counted[d] ELSE counted[d] \cup {t}
  BY <1>1 DEF TrackerTypeOK
<1>3. /\ lastAlarm' \in [Dest -> ClockTime \cup {Never}]
      /\ \A e \in Dest \ {d} : lastAlarm'[e] = lastAlarm[e]
      /\ lastAlarm'[d] = IF rep THEN t ELSE lastAlarm[d]
  BY <1>1 DEF TrackerTypeOK
<1>4. lastPacket' \in [Dest -> ClockTime \cup {Never}]
  BY <1>1 DEF TrackerTypeOK
<1> QED BY <1>2, <1>3, <1>4 DEF fan, rep

--------------------------------------------------------------------------------
LEMMA InitInv == TrackerInit => TrackerInv
<1> SUFFICES ASSUME TrackerInit PROVE TrackerInv
  OBVIOUS
<1>1. \A d \in Dest : rates.history[d] = {} /\ counted[d] = {} /\ lastAlarm[d] = Never
  BY DEF TrackerInit, EmptyTracker
<1>2. rates.reported = {}
  BY DEF TrackerInit, EmptyTracker
<1>3. TrackerTypeOK
  BY TableAssumption, TrackerAssumption DEF TrackerInit, EmptyTracker, TrackerTypeOK, ClockTime
<1>4. Past /\ WindowExact /\ Spaced
  BY <1>1 DEF Past, WindowExact, Spaced
<1>5. FloodFlagged
  <2>1. Cardinality({}) = 0 /\ ~(0 > Threshold)
    BY FS_EmptySet, TableAssumption
  <2> QED BY <1>1, <2>1 DEF FloodFlagged
<1>6. FlagMeansAlarm
  BY <1>1, <1>2 DEF FlagMeansAlarm, Alarm!Rearmed, Alarm!Never, Never
<1> QED BY <1>3, <1>4, <1>5, <1>6 DEF TrackerInv

\* A packet keeps the invariant.
LEMMA RecordInv ==
  ASSUME TrackerInv, NEW d \in Dest, NEW t \in clock .. MaxClock, Record(d, t)
  PROVE  TrackerInv'
<1> DEFINE live == Live(rates.history[d], t)
           fan == FanOut(live, t)
<1>1. /\ TrackerTypeOK /\ Past /\ WindowExact /\ Spaced /\ FloodFlagged /\ FlagMeansAlarm
      /\ clock \in ClockTime /\ t \in ClockTime /\ clock <= t /\ clock' = t
      /\ rates.history[d] \in SUBSET ClockTime /\ counted[d] \in SUBSET ClockTime
  BY TableAssumption, TrackerAssumption DEF TrackerInv, TrackerTypeOK, Record, ClockTime
<1>2. rates' = Recorded(rates, d, t) /\ Observe(d, t)
  BY DEF Record
<1>3. live \in SUBSET ClockTime /\ live \subseteq rates.history[d]
  BY <1>1, LiveShrinks
<1>4. fan => /\ rates'.history[d] = live
             /\ rates'.reported = rates.reported
             /\ counted'[d] = counted[d]
             /\ lastAlarm'[d] = lastAlarm[d]
  <2>1. fan => ~Reports(rates, d, t)
    BY DEF Reports
  <2> QED BY <1>1, <1>2, <2>1, RecordedStamps, Observed
<1>5. ~fan => /\ rates'.history[d] = live \cup {t}
              /\ rates'.reported = IF Cardinality(live \cup {t}) > Threshold
                                     THEN rates.reported \cup {d} ELSE rates.reported
              /\ counted'[d] = counted[d] \cup {t}
              /\ lastAlarm'[d] =
                   IF Cardinality(live \cup {t}) > Threshold /\ d \notin rates.reported
                   THEN t ELSE lastAlarm[d]
  <2>1. ~fan => (Reports(rates, d, t) <=>
                   Cardinality(live \cup {t}) > Threshold /\ d \notin rates.reported)
    BY DEF Reports
  <2> HIDE DEF fan, live
  <2>2. ~fan => /\ rates'.history[d] = live \cup {t}
                /\ rates'.reported = IF Cardinality(live \cup {t}) > Threshold
                                       THEN rates.reported \cup {d} ELSE rates.reported
    BY <1>1, <1>2, RecordedStamps DEF fan, live
  <2>3. ~fan => counted'[d] = counted[d] \cup {t}
    BY <1>1, <1>2, Observed DEF fan, live
  <2>4. lastAlarm'[d] = IF Reports(rates, d, t) THEN t ELSE lastAlarm[d]
    BY <1>1, <1>2, Observed
  <2> QED BY <2>1, <2>2, <2>3, <2>4
<1> HIDE DEF fan, live
<1>a. /\ \A e \in Dest \ {d} : rates'.history[e] = rates.history[e]
      /\ \A e \in Dest \ {d} : counted'[e] = counted[e] /\ lastAlarm'[e] = lastAlarm[e]
      /\ rates' \in [history : [Dest -> SUBSET ClockTime], reported : SUBSET Dest]
  BY <1>1, <1>2, RecordedStamps, Observed
<1>b. \A e \in Dest \ {d} : e \in rates'.reported <=> e \in rates.reported
  BY <1>4, <1>5
<1>6. TrackerTypeOK'
  BY <1>1, <1>2, <1>a, Observed DEF TrackerTypeOK
<1>7. Past'
  <2>1. ASSUME NEW e \in Dest, e # d
        PROVE  /\ rates'.history[e] \subseteq counted'[e]
               /\ \A s \in counted'[e] : s <= clock'
    <3>1. counted[e] \in SUBSET ClockTime
      BY <1>1 DEF TrackerTypeOK
    <3> QED BY <1>1, <1>a, <2>1, <3>1 DEF Past, ClockTime
  <2>2. /\ rates'.history[d] \subseteq counted'[d]
        /\ \A s \in counted'[d] : s <= clock'
    <3>1. /\ live \subseteq counted[d]
          /\ \A s \in counted[d] : s <= clock
          /\ counted[d] \subseteq Int /\ clock \in Int /\ t \in Int /\ clock <= t
      BY <1>1, <1>3, TableAssumption, TrackerAssumption DEF Past, ClockTime
    <3>2. CASE fan
      BY <1>1, <1>4, <3>1, <3>2
    <3>3. CASE ~fan
      BY <1>1, <1>5, <3>1, <3>3
    <3> QED BY <3>2, <3>3
  <2> QED BY <2>1, <2>2 DEF Past
<1>8. WindowExact'
  <2>1. ASSUME NEW e \in Dest, e # d
        PROVE  {s \in rates'.history[e] : s + Window > clock'}
               = {s \in counted'[e] : s + Window > clock'}
    <3>1. counted[e] \in SUBSET ClockTime /\ rates.history[e] \in SUBSET ClockTime
      BY <1>1 DEF TrackerTypeOK
    <3> QED BY <1>1, <1>a, <2>1, <3>1, TableAssumption, TrackerAssumption DEF WindowExact, ClockTime
  <2>2. {s \in live : s + Window > t} = {s \in counted[d] : s + Window > t}
    BY <1>1, TableAssumption, TrackerAssumption DEF WindowExact, Live, ClockTime, live
  <2>3. {s \in rates'.history[d] : s + Window > clock'}
        = {s \in counted'[d] : s + Window > clock'}
    <3>1. CASE fan
      BY <1>1, <1>4, <2>2, <3>1
    <3>2. CASE ~fan
      BY <1>1, <1>5, <2>2, <3>2
    <3> QED BY <3>1, <3>2
  <2> QED BY <2>1, <2>3 DEF WindowExact
<1>9. Spaced'
  <2>1. ASSUME NEW r \in rates'.history[d], NEW s \in rates'.history[d], r < s
        PROVE  s - r >= Coalesce
    <3>1. CASE fan
      <4>1. \A x, y \in rates.history[d] : x < y => y - x >= Coalesce
        BY <1>1 DEF Spaced
      <4> QED BY <1>3, <1>4, <2>1, <3>1, <4>1
    <3>2. CASE ~fan
      <4>1. \A x \in live : x \in Int /\ t - x >= Coalesce
        BY <1>1, <1>3, <3>2, TableAssumption, TrackerAssumption DEF FanOut, ClockTime, fan
      <4>2. r \in live \cup {t} /\ s \in live \cup {t} /\ t \in Int
        BY <1>1, <1>5, <3>2 DEF ClockTime
      <4>a. \A x, y \in rates.history[d] : x < y => y - x >= Coalesce
        BY <1>1 DEF Spaced
      <4>3. CASE r \in live /\ s \in live
        BY <1>3, <2>1, <4>a, <4>3
      <4>4. CASE r = t \/ s = t
        BY <2>1, <4>1, <4>2, <4>4, TableAssumption, TrackerAssumption
      <4> QED BY <4>2, <4>3, <4>4
    <3> QED BY <3>1, <3>2
  <2> QED BY <1>1, <1>a, <2>1 DEF Spaced
<1>10. FloodFlagged'
  <2>1. fan => (Cardinality(live) > Threshold => d \in rates.reported)
    <3>1. Cardinality(live) <= Cardinality(rates.history[d])
      BY <1>1, LiveShrinks DEF live
    <3>2. Cardinality(live) \in Nat /\ Cardinality(rates.history[d]) \in Nat
      BY <1>1, <1>3, StampsFinite
    <3> QED BY <1>1, <3>1, <3>2, TableAssumption, TrackerAssumption DEF FloodFlagged
  <2>2. Cardinality(rates'.history[d]) > Threshold => d \in rates'.reported
    BY <1>4, <1>5, <2>1
  <2> QED BY <1>1, <1>a, <1>b, <2>2 DEF FloodFlagged
<1>11. FlagMeansAlarm'
  <2>1. ASSUME NEW e \in Dest, e # d
        PROVE  /\ lastAlarm'[e] # Never => lastAlarm'[e] <= clock'
               /\ e \in rates'.reported => lastAlarm'[e] # Never
               /\ e \notin rates'.reported => Alarm!Rearmed(e, clock)'
    <3>1. lastAlarm[e] \in ClockTime \cup {Never}
      BY <1>1 DEF TrackerTypeOK
    <3>2. Alarm!Rearmed(e, clock) => Alarm!Rearmed(e, clock)'
      BY <1>1, <1>a, <2>1, <3>1 DEF Alarm!Rearmed, Alarm!Silent, Alarm!Never, Never, ClockTime
    <3> QED BY <1>1, <1>a, <1>b, <2>1, <3>1, <3>2 DEF FlagMeansAlarm, Never, ClockTime
  <2>2. lastAlarm'[d] # Never => lastAlarm'[d] <= clock'
    <3>1. lastAlarm[d] \in ClockTime \cup {Never}
      BY <1>1 DEF TrackerTypeOK
    <3> QED BY <1>1, <1>4, <1>5, <3>1 DEF FlagMeansAlarm, Never, ClockTime
  <2>3. d \in rates'.reported => lastAlarm'[d] # Never
    BY <1>1, <1>4, <1>5 DEF FlagMeansAlarm, Never, ClockTime
  <2>4. d \notin rates'.reported => Alarm!Rearmed(d, clock)'
    <3>1. SUFFICES ASSUME d \notin rates'.reported PROVE Alarm!Rearmed(d, clock)'
      OBVIOUS
    <3>2. d \notin rates.reported /\ lastAlarm'[d] = lastAlarm[d]
      BY <1>4, <1>5, <3>1
    <3>3. Alarm!Rearmed(d, clock) /\ lastAlarm[d] \in ClockTime \cup {Never}
      BY <1>1, <3>2 DEF FlagMeansAlarm, TrackerTypeOK
    <3>4. counted'[d] \subseteq counted[d] \cup {t}
      BY <1>4, <1>5
    <3> QED BY <1>1, <3>2, <3>3, <3>4 DEF Alarm!Rearmed, Alarm!Silent, Alarm!Never, Never, ClockTime
  <2> QED BY <2>1, <2>2, <2>3, <2>4 DEF FlagMeansAlarm
<1> QED BY <1>6, <1>7, <1>8, <1>9, <1>10, <1>11 DEF TrackerInv

\* A sweep keeps the invariant.
LEMMA PruneInv ==
  ASSUME TrackerInv, NEW t \in clock .. MaxClock, Prune(t)
  PROVE  TrackerInv'
<1>1. /\ TrackerTypeOK /\ Past /\ WindowExact /\ Spaced /\ FloodFlagged /\ FlagMeansAlarm
      /\ clock \in ClockTime /\ t \in ClockTime /\ clock <= t /\ clock' = t
      /\ counted' = counted /\ lastAlarm' = lastAlarm /\ lastPacket' = lastPacket
  BY TableAssumption, TrackerAssumption DEF TrackerInv, TrackerTypeOK, Prune, ClockTime
<1>2. /\ rates' \in [history : [Dest -> SUBSET ClockTime], reported : SUBSET Dest]
      /\ \A d \in Dest : rates'.history[d] = Live(rates.history[d], t)
      /\ \A d \in Dest : d \in rates'.reported <=>
           d \in rates.reported /\ rates'.history[d] # {}
  BY <1>1, PrunedStamps DEF Prune
<1>3. \A d \in Dest : /\ rates.history[d] \in SUBSET ClockTime
                      /\ counted[d] \in SUBSET ClockTime
                      /\ lastAlarm[d] \in ClockTime \cup {Never}
                      /\ rates'.history[d] \in SUBSET rates.history[d]
                      /\ Cardinality(rates'.history[d]) <= Cardinality(rates.history[d])
                      /\ Cardinality(rates.history[d]) \in Nat
                      /\ Cardinality(rates'.history[d]) \in Nat
  <2> SUFFICES ASSUME NEW d \in Dest
      PROVE  /\ rates.history[d] \in SUBSET ClockTime
             /\ counted[d] \in SUBSET ClockTime
             /\ lastAlarm[d] \in ClockTime \cup {Never}
             /\ rates'.history[d] \in SUBSET rates.history[d]
             /\ Cardinality(rates'.history[d]) <= Cardinality(rates.history[d])
             /\ Cardinality(rates.history[d]) \in Nat
             /\ Cardinality(rates'.history[d]) \in Nat
    OBVIOUS
  <2>1. /\ rates.history[d] \in SUBSET ClockTime
        /\ counted[d] \in SUBSET ClockTime
        /\ lastAlarm[d] \in ClockTime \cup {Never}
    BY <1>1 DEF TrackerTypeOK
  <2>2. /\ rates'.history[d] \in SUBSET rates.history[d]
        /\ Cardinality(rates'.history[d]) <= Cardinality(rates.history[d])
    <3>1. /\ Live(rates.history[d], t) \in SUBSET rates.history[d]
          /\ Cardinality(Live(rates.history[d], t)) <= Cardinality(rates.history[d])
      BY <2>1, LiveShrinks
    <3>2. rates'.history[d] = Live(rates.history[d], t)
      BY <1>2
    <3> QED BY <3>1, <3>2
  <2>3. rates'.history[d] \in SUBSET ClockTime
    BY <2>1, <2>2
  <2> QED BY <2>1, <2>2, <2>3, StampsFinite
<1>4. TrackerTypeOK'
  BY <1>1, <1>2 DEF TrackerTypeOK
<1>c. Window \in Nat \ {0} /\ Threshold \in Nat \ {0} /\ ClockTime \subseteq Int
  BY TableAssumption, TrackerAssumption DEF ClockTime
<1>d. clock \in Int /\ t \in Int /\ clock <= t /\ \A d \in Dest : lastAlarm[d] \in Int
  <2>1. \A d \in Dest : lastAlarm[d] \in ClockTime \/ lastAlarm[d] = -1
    BY <1>1 DEF TrackerTypeOK, Never
  <2>2. ASSUME NEW d \in Dest PROVE lastAlarm[d] \in Int
    BY <2>1, TableAssumption, TrackerAssumption DEF ClockTime
  <2>3. clock \in Int /\ t \in Int /\ clock <= t
    BY <1>1, <1>c
  <2> QED BY <2>2, <2>3
<1>5. Past'
  <2>1. ASSUME NEW d \in Dest
        PROVE  rates'.history[d] \subseteq counted[d] /\ \A s \in counted[d] : s <= t
    <3>1. rates.history[d] \subseteq counted[d] /\ \A s \in counted[d] : s <= clock
      BY <1>1 DEF Past
    <3>2. counted[d] \subseteq Int /\ rates'.history[d] \subseteq rates.history[d]
      BY <1>3, <1>c
    <3>3. clock \in Int /\ t \in Int /\ clock <= t
      BY <1>1, <1>c
    <3> QED BY <3>1, <3>2, <3>3
  <2> QED BY <1>1, <2>1 DEF Past
<1>6. WindowExact'
  <2>1. ASSUME NEW d \in Dest
        PROVE  {s \in rates'.history[d] : s + Window > t} = {s \in counted[d] : s + Window > t}
    <3>1. {s \in rates.history[d] : s + Window > clock} = {s \in counted[d] : s + Window > clock}
      BY <1>1 DEF WindowExact
    <3>2. rates.history[d] \subseteq Int /\ counted[d] \subseteq Int
      BY <1>3, <1>c
    <3>3. clock \in Int /\ t \in Int /\ clock <= t
      BY <1>1, <1>c
    <3>4. rates'.history[d] = {s \in rates.history[d] : s > t - Window}
      BY <1>2 DEF Live
    <3> QED BY <1>c, <3>1, <3>2, <3>3, <3>4
  <2> QED BY <1>1, <2>1 DEF WindowExact
<1>7. Spaced'
  BY <1>1, <1>3 DEF Spaced
<1>8. FloodFlagged'
  <2>1. ASSUME NEW d \in Dest, Cardinality(rates'.history[d]) > Threshold
        PROVE  d \in rates'.reported
    <3>1. Cardinality(rates.history[d]) > Threshold
      <4>1. /\ Cardinality(rates'.history[d]) <= Cardinality(rates.history[d])
            /\ Cardinality(rates.history[d]) \in Nat
            /\ Cardinality(rates'.history[d]) \in Nat
        BY <1>3
      <4> QED BY <1>c, <2>1, <4>1
    <3>2. rates'.history[d] # {}
      BY <2>1, FS_EmptySet, TableAssumption, TrackerAssumption
    <3> QED BY <1>1, <1>2, <3>1, <3>2 DEF FloodFlagged
  <2> QED BY <2>1 DEF FloodFlagged
<1>9. FlagMeansAlarm'
  <2>1. ASSUME NEW d \in Dest, d \notin rates'.reported
        PROVE  Alarm!Rearmed(d, clock)'
    <3>1. CASE d \in rates.reported
      <4>1. Live(rates.history[d], t) = {}
        BY <1>2, <2>1, <3>1
      <4>2. \A s \in counted[d] : s <= t - Window
        <5>1. {s \in rates.history[d] : s + Window > clock}
              = {s \in counted[d] : s + Window > clock}
          BY <1>1 DEF WindowExact
        <5>2. \A s \in rates.history[d] : ~(s > t - Window)
          BY <4>1 DEF Live
        <5>3. counted[d] \subseteq Int /\ clock \in Int /\ t \in Int /\ clock <= t
          BY <1>1, <1>3, <1>c
        <5> QED BY <1>c, <5>1, <5>2, <5>3
      <4>3. lastAlarm[d] \in ClockTime /\ lastAlarm[d] <= clock
        BY <1>1, <1>3, <3>1 DEF FlagMeansAlarm
      <4>4. t \in lastAlarm[d] .. t
        BY <1>d, <4>3
      <4>5. Alarm!Silent(d, t)'
        BY <1>1, <4>2 DEF Alarm!Silent
      <4> QED BY <1>1, <4>4, <4>5 DEF Alarm!Rearmed, Alarm!Silent
    <3>2. CASE d \notin rates.reported
      <4>1. Alarm!Rearmed(d, clock)
        BY <1>1, <3>2 DEF FlagMeansAlarm
      <4>2. lastAlarm[d] \in Int /\ clock \in Int /\ t \in Int /\ clock <= t
        BY <1>d
      <4>3. CASE lastAlarm[d] = Never
        BY <1>1, <4>3 DEF Alarm!Rearmed, Alarm!Never, Never
      <4>4. CASE \E p \in lastAlarm[d] .. clock : Alarm!Silent(d, p)
        <5>1. PICK p \in lastAlarm[d] .. clock : Alarm!Silent(d, p)
          BY <4>4
        <5>2. p \in lastAlarm[d] .. t
          BY <4>2, <5>1
        <5>3. Alarm!Silent(d, p)'
          BY <1>1, <5>1 DEF Alarm!Silent
        <5> QED BY <1>1, <5>2, <5>3 DEF Alarm!Rearmed, Alarm!Silent
      <4> QED BY <4>1, <4>3, <4>4 DEF Alarm!Rearmed, Alarm!Never, Never
    <3> QED BY <3>1, <3>2
  <2>2. ASSUME NEW d \in Dest
        PROVE  /\ lastAlarm'[d] # Never => lastAlarm'[d] <= clock'
               /\ d \in rates'.reported => lastAlarm'[d] # Never
    <3>1. /\ lastAlarm[d] # Never => lastAlarm[d] <= clock
          /\ d \in rates.reported => lastAlarm[d] # Never
      BY <1>1 DEF FlagMeansAlarm
    <3>2. lastAlarm[d] \in Int /\ clock \in Int /\ t \in Int /\ clock <= t
      BY <1>d
    <3>3. d \in rates'.reported => d \in rates.reported
      BY <1>2
    <3> QED BY <1>1, <3>1, <3>2, <3>3
  <2> QED BY <2>1, <2>2 DEF FlagMeansAlarm
<1> QED BY <1>4, <1>5, <1>6, <1>7, <1>8, <1>9 DEF TrackerInv

\* A step that changes nothing keeps the invariant.
LEMMA StutterInv == TrackerInv /\ UNCHANGED trackerVars => TrackerInv'
  BY DEF TrackerInv, trackerVars, TrackerTypeOK, Past, WindowExact, Spaced,
         FloodFlagged, FlagMeansAlarm, Alarm!Rearmed, Alarm!Silent

\* The invariant holds in every reachable state.
THEOREM TrackerCorrect == TrackerSpec => []TrackerInv
<1>1. TrackerInit => TrackerInv
  BY InitInv
<1>2. TrackerInv /\ [TrackerNext]_trackerVars => TrackerInv'
  BY RecordInv, PruneInv, StutterInv DEF TrackerNext
<1> QED BY <1>1, <1>2, PTL DEF TrackerSpec

\* The variables keep their types (TrackerTypeOK): the table only ever holds
\* stamps of the clock, whatever record and prune do.
THEOREM TypeCorrect == TrackerSpec => []TrackerTypeOK
<1>1. TrackerInv => TrackerTypeOK
  BY DEF TrackerInv
<1> QED BY <1>1, TrackerCorrect, PTL

\* The lazily aged table is the exact sliding window (WindowExact).
THEOREM WindowIsExact == TrackerSpec => []WindowExact
<1>1. TrackerInv => WindowExact
  BY DEF TrackerInv
<1> QED BY <1>1, TrackerCorrect, PTL

\* No destination is over the threshold in the table without its flag, so
\* without having been reported (FloodFlagged).
THEOREM FloodIsFlagged == TrackerSpec => []FloodFlagged
<1>1. TrackerInv => FloodFlagged
  BY DEF TrackerInv
<1> QED BY <1>1, TrackerCorrect, PTL

--------------------------------------------------------------------------------
(* The table implements the alarm.                                         *)

\* The live part of the table at t is the abstract window that ends at t.
LEMMA LiveIsWindow ==
  ASSUME TrackerInv, NEW d \in Dest, NEW t \in clock .. MaxClock
  PROVE  Live(rates.history[d], t) = Alarm!InWindow(d, t)
<1>1. /\ {s \in rates.history[d] : s + Window > clock} = {s \in counted[d] : s + Window > clock}
      /\ \A s \in counted[d] : s <= clock
      /\ rates.history[d] \subseteq counted[d]
  BY DEF TrackerInv, WindowExact, Past
<1>2. counted[d] \subseteq Int /\ clock \in Int /\ t \in Int /\ clock <= t
  BY TableAssumption, TrackerAssumption DEF TrackerInv, TrackerTypeOK, ClockTime
<1>3. Window \in Nat
  BY TableAssumption, TrackerAssumption
<1> QED BY <1>1, <1>2, <1>3 DEF Live, Alarm!InWindow

LEMMA InitRefines == TrackerInit => Alarm!Init
  BY DEF TrackerInit, Alarm!Init, Never, Alarm!Never

\* The instance's cardinality is the cardinality.
LEMMA SameCardinality == \A S : Alarm!Cardinality(S) = Cardinality(S)
  BY DEF Cardinality, Alarm!Cardinality

\* A packet is a repeated or a counted announce of the alarm.
LEMMA RecordRefines ==
  ASSUME TrackerInv, NEW d \in Dest, NEW t \in clock .. MaxClock, Record(d, t)
  PROVE  Alarm!Repeat(d, t) \/ Alarm!Count(d, t)
<1> DEFINE live == Live(rates.history[d], t)
           fan == FanOut(live, t)
           over == Cardinality(live \cup {t}) > Threshold
<1>1. live = Alarm!InWindow(d, t)
  BY LiveIsWindow
<1>2. fan <=> Alarm!Repeats(d, t)
  BY <1>1 DEF FanOut, Alarm!Repeats
<1>3. over <=> Alarm!Cardinality(Alarm!InWindow(d, t) \cup {t}) > Threshold
  BY <1>1, SameCardinality
<1>4. /\ clock' = t
      /\ counted' = IF fan THEN counted ELSE [counted EXCEPT ![d] = @ \cup {t}]
      /\ lastAlarm' = IF ~fan /\ over /\ d \notin rates.reported
                      THEN [lastAlarm EXCEPT ![d] = t] ELSE lastAlarm
  BY DEF Record, Observe, Reports
<1>5. d \in rates.reported => lastAlarm[d] # Alarm!Never
  BY DEF TrackerInv, FlagMeansAlarm, Never, Alarm!Never
<1>6. d \notin rates.reported => Alarm!Rearmed(d, t)
  <2>1. SUFFICES ASSUME d \notin rates.reported PROVE Alarm!Rearmed(d, t)
    OBVIOUS
  <2>2. Alarm!Rearmed(d, clock)
    BY <2>1 DEF TrackerInv, FlagMeansAlarm
  <2>3. lastAlarm[d] \in ClockTime \/ lastAlarm[d] = -1
    BY DEF TrackerInv, TrackerTypeOK, Never
  <2>4. lastAlarm[d] \in Int /\ clock \in Int /\ t \in Int /\ clock <= t
    BY <2>3, TableAssumption, TrackerAssumption DEF TrackerInv, TrackerTypeOK, ClockTime
  <2>5. lastAlarm[d] .. clock \subseteq lastAlarm[d] .. t
    BY <2>4
  <2> QED BY <2>2, <2>5 DEF Alarm!Rearmed
<1> HIDE DEF live, fan, over
<1>7. CASE fan
  BY <1>2, <1>4, <1>7 DEF Alarm!Repeat
<1>8. CASE ~fan
  <2>0. /\ ~Alarm!Repeats(d, t)
        /\ clock' = t
        /\ counted' = [counted EXCEPT ![d] = @ \cup {t}]
    BY <1>2, <1>4, <1>8
  <2>1. CASE over /\ d \notin rates.reported
    <3>1. Alarm!Cardinality(Alarm!InWindow(d, t) \cup {t}) > Threshold /\ Alarm!Rearmed(d, t)
      BY <1>3, <1>6, <2>1
    <3>2. lastAlarm' = [lastAlarm EXCEPT ![d] = t]
      BY <1>4, <1>8, <2>1
    <3> QED BY <2>0, <3>1, <3>2 DEF Alarm!Count
  <2>2. CASE ~over \/ d \in rates.reported
    <3>1. \/ ~(Alarm!Cardinality(Alarm!InWindow(d, t) \cup {t}) > Threshold)
          \/ lastAlarm[d] # Alarm!Never
      BY <1>3, <1>5, <2>2
    <3>2. lastAlarm' = lastAlarm
      BY <1>4, <2>2
    <3> QED BY <2>0, <3>1, <3>2 DEF Alarm!Count
  <2> QED BY <2>1, <2>2
<1> QED BY <1>7, <1>8

\* The aged, pruned and flagged table implements the exact sliding-window alarm
\* (AlarmSpec): it reports on the first announce over the threshold, and again
\* only when a full window of silence lies between the two reports.
THEOREM TrackerImplementsAlarm == TrackerSpec => AlarmSpec
<1>1. TrackerInit => Alarm!Init
  BY InitRefines
<1>2. TrackerInv /\ [TrackerNext]_trackerVars => [Alarm!Next]_(Alarm!vars)
  <2>1. SUFFICES ASSUME TrackerInv, [TrackerNext]_trackerVars PROVE [Alarm!Next]_(Alarm!vars)
    OBVIOUS
  <2>2. ASSUME NEW t \in clock .. MaxClock, NEW d \in Dest, Record(d, t) PROVE Alarm!Next
    BY <2>1, <2>2, RecordRefines DEF Alarm!Next
  <2>3. ASSUME NEW t \in clock .. MaxClock, Prune(t) PROVE Alarm!Next
    BY <2>3 DEF Alarm!Next, Alarm!Pass, Prune
  <2>4. CASE UNCHANGED trackerVars
    BY <2>4 DEF trackerVars, Alarm!vars
  <2> QED BY <2>1, <2>2, <2>3, <2>4 DEF TrackerNext
<1> QED BY <1>1, <1>2, TrackerCorrect, PTL DEF TrackerSpec, AlarmSpec, Alarm!Spec

--------------------------------------------------------------------------------
(* What coalescing bounds.                                                 *)

\* Division rounds down.
LEMMA DivisionBounds ==
  ASSUME NEW a \in Nat, NEW b \in Nat \ {0}
  PROVE  /\ a \div b \in Nat
         /\ (a \div b) * b <= a
         /\ a < (a \div b) * b + b
  OBVIOUS

\* Integers at least c apart inside an interval of length w number at most
\* (w - 1) \div c + 1: the pigeonhole principle on the quotients.
LEMMA SpacedCount ==
  ASSUME NEW base \in Int, NEW w \in Nat \ {0}, NEW c \in Nat \ {0},
         NEW S \in SUBSET (base .. base + w - 1),
         \A r, s \in S : r < s => s - r >= c
  PROVE  Cardinality(S) \in Nat /\ Cardinality(S) * c < w + c
<1> DEFINE q(s) == (s - base) \div c
           top == (w - 1) \div c
           f == [s \in S |-> q(s)]
<1>1. top \in Nat /\ top * c <= w - 1
  BY DivisionBounds
<1>2. ASSUME NEW s \in S
      PROVE  /\ s \in Int /\ s - base \in Nat /\ s - base <= w - 1
             /\ q(s) \in Nat /\ q(s) * c <= s - base /\ s - base < q(s) * c + c
  <2>1. s \in Int /\ s - base \in Nat /\ s - base <= w - 1
    OBVIOUS
  <2> QED BY <2>1, DivisionBounds
<1>3. ASSUME NEW s \in S PROVE q(s) \in 0 .. top
  <2>1. q(s) * c <= w - 1 /\ w - 1 < top * c + c
    BY <1>2, DivisionBounds
  <2>2. q(s) * c < (top + 1) * c
    BY <1>1, <1>2, <2>1
  <2>3. q(s) < top + 1
    BY <1>1, <1>2, <2>2
  <2> QED BY <1>1, <1>2, <2>3
<1>4. ASSUME NEW r \in S, NEW s \in S, r < s PROVE q(r) # q(s)
  BY <1>2, <1>4
<1>5. f \in Injection(S, 0 .. top)
  <2>1. f \in [S -> 0 .. top]
    BY <1>3
  <2>2. ASSUME NEW r \in S, NEW s \in S, f[r] = f[s] PROVE r = s
    BY <1>2, <1>4, <2>2
  <2> QED BY <2>1, <2>2 DEF Injection, IsInjective
<1>6. IsFiniteSet(0 .. top) /\ Cardinality(0 .. top) = top + 1
  BY <1>1, FS_Interval
<1>7. IsFiniteSet(S) /\ Cardinality(S) <= top + 1
  BY <1>5, <1>6, FS_Injection
<1>8. Cardinality(S) \in Nat
  BY <1>7, FS_CardinalityType
<1>9. Cardinality(S) * c <= (top + 1) * c
  BY <1>1, <1>7, <1>8
<1> QED BY <1>1, <1>8, <1>9

\* However fast a destination announces, coalescing keeps its live count below
\* Window / Coalesce + 1 (CoalesceCeiling).
THEOREM CoalescingCeiling == TrackerSpec => []CoalesceCeiling
<1>1. TrackerInv => CoalesceCeiling
  <2>1. SUFFICES ASSUME TrackerInv, NEW d \in Dest
                 PROVE  Cardinality(Live(rates.history[d], clock)) * Coalesce
                          < Window + Coalesce
    BY DEF CoalesceCeiling
  <2> DEFINE live == Live(rates.history[d], clock)
             base == clock - Window + 1
  <2>2. /\ clock \in Int /\ Window \in Nat \ {0} /\ Coalesce \in Nat \ {0}
        /\ rates.history[d] \subseteq Int
        /\ \A s \in rates.history[d] : s <= clock
    BY <2>1, TableAssumption, TrackerAssumption DEF TrackerInv, TrackerTypeOK, Past, ClockTime
  <2>3. live \in SUBSET (base .. base + Window - 1)
    <3>1. ASSUME NEW s \in live PROVE s \in base .. base + Window - 1
      <4>1. s \in rates.history[d] /\ s > clock - Window
        BY <3>1 DEF Live
      <4>2. s \in Int /\ s <= clock
        BY <2>2, <4>1
      <4> QED BY <2>2, <4>1, <4>2
    <3> QED BY <3>1
  <2>4. \A r, s \in live : r < s => s - r >= Coalesce
    <3>1. \A r, s \in rates.history[d] : r < s => s - r >= Coalesce
      BY <2>1 DEF TrackerInv, Spaced
    <3>2. live \subseteq rates.history[d]
      BY DEF Live
    <3> HIDE DEF live
    <3> QED BY <3>1, <3>2
  <2>5. base \in Int
    BY <2>2
  <2> HIDE DEF live, base
  <2>6. Cardinality(live) * Coalesce < Window + Coalesce
    BY <2>2, <2>3, <2>4, <2>5, SpacedCount
  <2> QED BY <2>6 DEF live
<1> QED BY <1>1, TrackerCorrect, PTL

\* A configuration with Threshold * Coalesce >= Window switches the watchdog
\* off: no sequence of announces is ever reported.
THEOREM UnreachableThreshold ==
  ASSUME Threshold * Coalesce >= Window
  PROVE  TrackerSpec => [](rates.reported = {})
<1> DEFINE Off == rates.reported = {}
<1>1. TrackerInit => Off
  BY DEF TrackerInit, EmptyTracker
<1>2. ASSUME TrackerInv, TrackerInv', CoalesceCeiling', Off,
             NEW t \in clock .. MaxClock, NEW d \in Dest, Record(d, t)
      PROVE  Off'
  <2> DEFINE live == Live(rates.history[d], t)
             n == Cardinality(live \cup {t})
  <2>1. t \in ClockTime /\ clock' = t /\ TrackerTypeOK /\ rates' = Recorded(rates, d, t)
    BY <1>2, TableAssumption, TrackerAssumption DEF TrackerInv, TrackerTypeOK, Record, ClockTime
  <2>2. live \in SUBSET ClockTime
    BY <2>1, LiveShrinks DEF TrackerTypeOK
  <2>3. n \in Nat
    BY <2>1, <2>2, StampsFinite
  <2>4. CASE FanOut(live, t)
    BY <1>2, <2>1, <2>4, RecordedStamps
  <2>5. CASE ~FanOut(live, t)
    <3>1. rates'.history[d] = live \cup {t}
      BY <2>1, <2>5, RecordedStamps
    <3>2. live \cup {t} = Live(live \cup {t}, t)
      <4>1. t \in Int /\ Window \in Nat \ {0}
        BY <2>1, TableAssumption, TrackerAssumption DEF ClockTime
      <4> QED BY <4>1 DEF Live
    <3>3. n * Coalesce < Window + Coalesce
      BY <1>2, <2>1, <3>1, <3>2 DEF CoalesceCeiling
    <3>4. ~(n > Threshold)
      <4> HIDE DEF n
      <4>1. Threshold \in Nat /\ Coalesce \in Nat \ {0} /\ Window \in Nat
        BY TableAssumption, TrackerAssumption
      <4>2. n > Threshold => n * Coalesce >= Threshold * Coalesce + Coalesce
        BY <2>3, <4>1
      <4> QED BY <2>3, <3>3, <4>1, <4>2
    <3> QED BY <1>2, <2>1, <2>5, <3>4, RecordedStamps
  <2> QED BY <2>4, <2>5
<1>3. ASSUME Off, NEW t, Prune(t) PROVE Off'
  BY <1>3 DEF Prune, Pruned
<1>4. Off /\ UNCHANGED trackerVars => Off'
  BY DEF trackerVars
<1>5. /\ TrackerInv /\ TrackerInv' /\ CoalesceCeiling' /\ Off /\ [TrackerNext]_trackerVars => Off'
  BY <1>2, <1>3, <1>4 DEF TrackerNext
<1> QED BY <1>1, <1>5, TrackerCorrect, CoalescingCeiling, PTL DEF TrackerSpec

================================================================================
