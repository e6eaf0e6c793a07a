----------------------------- MODULE AnnounceTable -----------------------------
(***************************************************************************)
(* The data of rnguard's AnnounceRateTracker (src/bin/rnguard.rs) and what *)
(* its methods do to it: the rolling per-destination announce counter      *)
(* behind the blackhole decision.                                          *)
(*                                                                         *)
(* Time is a natural number and stands for Instant. A destination's Vec of *)
(* stamps is the set of its elements: stamps are pushed in order and two   *)
(* of them are at least Coalesce > 0 apart, so no element occurs twice and *)
(* last() is the greatest one. A destination is in the HashMap exactly     *)
(* when its set is not empty: record() always leaves a live stamp behind.  *)
(***************************************************************************)
EXTENDS Integers, FiniteSets

CONSTANTS
  Dest,       \* destination hashes
  Window,     \* --window
  Threshold,  \* --threshold
  Coalesce    \* --coalesce

ASSUME TableAssumption ==
  /\ Window \in Nat \ {0}       \* parse_args refuses 0
  /\ Threshold \in Nat \ {0}    \* parse_args refuses 0
  /\ Coalesce \in Nat \ {0}     \* `-c 0` is left out, see above

--------------------------------------------------------------------------------
\* stamps.retain(|stamp| *stamp > cutoff), cutoff = now - window. An Instant can
\* lie before the first one the program saw, so the cutoff may be negative.
Live(stamps, t) == {s \in stamps : s > t - Window}

\* (faulty variant: no packet is ever taken for a repeat)
FanOutNever(stamps, t) == \E s \in stamps : t - s < 0

\* now.duration_since(*last) < self.coalesce for the last stamp, if there is one.
FanOut(stamps, t) == \E s \in stamps : t - s < Coalesce

\* (faulty variant: the cutoff is pushed in place of the stamp)
RecordedCutoff(tr, d, t) ==
  [tr EXCEPT !.history[d] = Live(@, t) \cup {t - Window}]

\* AnnounceRateTracker::record: the table after a packet for d at time t.
Recorded(tr, d, t) ==
  LET live == Live(tr.history[d], t) IN
  IF FanOut(live, t)
  THEN [tr EXCEPT !.history[d] = live]
  ELSE [history  |-> [tr.history EXCEPT ![d] = live \cup {t}],
        reported |-> IF Cardinality(live \cup {t}) > Threshold
                     THEN tr.reported \cup {d}
                     ELSE tr.reported]

\* (faulty variant: the `reported` set is not consulted)
ReportsAgain(tr, d, t) ==
  LET live == Live(tr.history[d], t) IN
  /\ ~FanOut(live, t)
  /\ Cardinality(live \cup {t}) > Threshold

\* record() returns Some(count): the packet counts, the count is over the
\* threshold and the insertion into `reported` is new.
Reports(tr, d, t) ==
  LET live == Live(tr.history[d], t) IN
  /\ ~FanOut(live, t)
  /\ Cardinality(live \cup {t}) > Threshold
  /\ d \notin tr.reported

\* (faulty variant: a sweep clears every flag)
PrunedUnflagsAll(tr, t) ==
  [history |-> [d \in Dest |-> Live(tr.history[d], t)], reported |-> {}]

\* (faulty variant: a destination goes with its oldest stamp)
PrunedByOldest(tr, t) ==
  LET fresh == {d \in Dest : Live(tr.history[d], t) = tr.history[d]} IN
  [history  |-> [d \in Dest |-> IF d \in fresh THEN tr.history[d] ELSE {}],
   reported |-> tr.reported \cap fresh]

\* AnnounceRateTracker::prune: the table after a sweep at time t.
Pruned(tr, t) ==
  LET live == [d \in Dest |-> Live(tr.history[d], t)] IN
  [history |-> live, reported |-> {d \in tr.reported : live[d] # {}}]

\* A time that has not come.
Never == -1

EmptyTracker == [history |-> [d \in Dest |-> {}], reported |-> {}]
================================================================================
