------------------------------- MODULE RateAlarm -------------------------------
(***************************************************************************)
(* What rnguard's announce accounting promises, without the table that     *)
(* implements it: an exact sliding-window counter per destination that     *)
(* never forgets, and an alarm that is raised when the count passes the    *)
(* threshold and is re-armed only by a full window of silence.             *)
(* AnnounceTracker, which ages, prunes and flags, implements this module.  *)
(***************************************************************************)
EXTENDS Integers, FiniteSets

CONSTANTS
  Dest,       \* the destinations that announce
  Window,     \* length of the counting window
  Threshold,  \* announces per window tolerated
  Coalesce,   \* minimum spacing of two announces that both count
  MaxTime     \* bound on the clock

VARIABLES
  now,        \* time of the last event
  announces,  \* announces[d]: the times of every logical announce of d so far
  lastAlarm   \* lastAlarm[d]: when d's last alarm was raised, Never if it was not

vars == <<now, announces, lastAlarm>>

Never == -1

\* The logical announces of d inside the window that ends at t.
InWindow(d, t) == {s \in announces[d] : t - Window < s /\ s <= t}

\* A packet at t repeats a logical announce that already counts.
Repeats(d, t) == \E s \in InWindow(d, t) : t - s < Coalesce

\* No announce of d in the full window before p.
Silent(d, p) == \A s \in announces[d] : s <= p - Window \/ p <= s

\* d was silent for a full window at some moment between its last alarm and t.
Rearmed(d, t) ==
  \/ lastAlarm[d] = Never
  \/ \E p \in lastAlarm[d] .. t : Silent(d, p)

Init ==
  /\ now = 0
  /\ announces = [d \in Dest |-> {}]
  /\ lastAlarm = [d \in Dest |-> Never]

Repeat(d, t) ==
  /\ Repeats(d, t)
  /\ now' = t
  /\ UNCHANGED <<announces, lastAlarm>>

Count(d, t) ==
  /\ ~Repeats(d, t)
  /\ now' = t
  /\ announces' = [announces EXCEPT ![d] = @ \cup {t}]
  /\ LET exceeded == Cardinality(InWindow(d, t) \cup {t}) > Threshold IN
     \/ /\ exceeded
        /\ Rearmed(d, t)
        /\ lastAlarm' = [lastAlarm EXCEPT ![d] = t]
     \/ /\ ~exceeded \/ lastAlarm[d] # Never
        /\ UNCHANGED lastAlarm

Pass(t) == now' = t /\ UNCHANGED <<announces, lastAlarm>>

Next ==
  \E t \in now .. MaxTime :
    \/ \E d \in Dest : Repeat(d, t) \/ Count(d, t)
    \/ Pass(t)

Spec == Init /\ [][Next]_vars
================================================================================
