----------------------------- MODULE Rnguard_proofs -----------------------------
(***************************************************************************)
(* Proofs about Rnguard for any destinations, window, threshold, coalescing*)
(* and prune intervals, --once, size of the stream and clock bound: what   *)
(* the table and the limit keep through outages, blocked calls and sweeps. *)
(***************************************************************************)
EXTENDS Rnguard, SequenceTheorems, TLAPS

--------------------------------------------------------------------------------
(* The inductive invariant.                                                *)

Table == [history : [Dest -> SUBSET Time], reported : SUBSET Dest]

\* Table tr at time t: no stamp is of the future.
Past(tr, t) == tr \in Table /\ \A d \in Dest : \A s \in tr.history[d] : s <= t

\* Aged at time p: what is in the table, or flagged, has a stamp that was live then.
Aged(tr, p) ==
  \A d \in Dest :
    tr.history[d] # {} \/ d \in tr.reported => \E s \in tr.history[d] : s > p - Window

\* Table tr at time t, when the destinations were last reported at the times of filed: the
\* last stamp of a flagged destination is of its report or later, and one that is not
\* flagged any more has been silent for a window.
Flagged(tr, filed, t) ==
  \A d \in Dest :
    /\ d \in tr.reported =>
         /\ filed[d] # Never
         /\ \E s \in tr.history[d] : s >= filed[d] /\ \A r \in tr.history[d] : r <= s
    /\ d \notin tr.reported /\ filed[d] # Never => t - filed[d] >= Window

\* Prunes are due in time; the limit is reached when it says so, and a loop that goes on
\* has not pruned since.
LimitKept ==
  /\ lastPrune <= now /\ swept <= now /\ limitAt <= now
  /\ swept - lastPrune < PruneInterval
  /\ limitAt # Never => Limited /\ blackholes >= Once
  /\ limitAt # Never /\ pc # "exit" => lastPrune <= limitAt

RnguardInv ==
  /\ RnguardTypeOK
  /\ pc = "file" => filing \in Dest
  /\ Past(tracker, now)
  /\ Aged(tracker, lastPrune)
  /\ Flagged(tracker, lastFiled, now)
  /\ LimitKept

--------------------------------------------------------------------------------
(* The table's operations.                                                 *)

FiledType == [Dest -> Time \cup {Never}]

LEMMA Bounds ==
  /\ \A t \in Time : t \in Nat /\ t \in Int
  /\ Window \in Nat \ {0} /\ PruneInterval \in Nat \ {0} /\ MaxTime \in Nat
BY TableAssumption, RnguardAssumption DEF Time

LEMMA FiledTimes ==
  ASSUME NEW filed \in FiledType
  PROVE  \A d \in Dest : filed[d] \in Int /\ (filed[d] # Never => filed[d] \in Nat)
<1>1. ASSUME NEW d \in Dest PROVE filed[d] \in Time \/ filed[d] = -1
  BY DEF FiledType, Never
<1>2. QED
  BY <1>1, Bounds DEF Never

\* What a packet for d does to the table.
LEMMA RecordedIs ==
  ASSUME NEW tr \in Table, NEW d \in Dest, NEW t \in Time
  PROVE  LET new == Recorded(tr, d, t) IN
         /\ new \in Table
         /\ \A e \in Dest \ {d} :
              new.history[e] = tr.history[e] /\ (e \in new.reported <=> e \in tr.reported)
         /\ \/ /\ new.history[d] = Live(tr.history[d], t)
               /\ FanOut(Live(tr.history[d], t), t)
               /\ ~Reports(tr, d, t)
            \/ new.history[d] = Live(tr.history[d], t) \cup {t}
         /\ d \in new.reported <=> d \in tr.reported \/ Reports(tr, d, t)
<1> DEFINE live == Live(tr.history[d], t)
<1>1. live \in SUBSET Time
  BY DEF Live, Table
<1> HIDE DEF live
<1>2. CASE FanOut(live, t)
  <2>1. /\ Recorded(tr, d, t) = [tr EXCEPT !.history[d] = live]
        /\ ~Reports(tr, d, t)
    BY <1>2 DEF Recorded, Reports, live
  <2>2. QED
    BY <1>1, <1>2, <2>1 DEF Table, live
<1>3. CASE ~FanOut(live, t)
  <2>1. /\ Recorded(tr, d, t) =
              [history  |-> [tr.history EXCEPT ![d] = live \cup {t}],
               reported |-> IF Cardinality(live \cup {t}) > Threshold
                            THEN tr.reported \cup {d} ELSE tr.reported]
        /\ Reports(tr, d, t) <=> Cardinality(live \cup {t}) > Threshold /\ d \notin tr.reported
    BY <1>3 DEF Recorded, Reports, live
  <2>2. QED
    BY <1>1, <2>1 DEF Table, live
<1>4. QED
  BY <1>2, <1>3

LEMMA PrunedIs ==
  ASSUME NEW tr \in Table, NEW t \in Time
  PROVE  LET new == Pruned(tr, t) IN
         /\ new \in Table
         /\ \A d \in Dest :
              /\ new.history[d] = Live(tr.history[d], t)
              /\ d \in new.reported <=> d \in tr.reported /\ Live(tr.history[d], t) # {}
BY DEF Pruned, Live, Table

\* As time passes the table stays as good as it is.
LEMMA TimePasses ==
  ASSUME NEW tr, NEW n \in Time, NEW t \in Time, n <= t, NEW filed \in FiledType,
         Past(tr, n), Flagged(tr, filed, n)
  PROVE  Past(tr, t) /\ Flagged(tr, filed, t)
<1>1. Past(tr, t)
  BY Bounds DEF Past, Table
<1>2. \A d \in Dest : filed[d] \in Int
  BY FiledTimes
<1>3. Flagged(tr, filed, t)
  BY <1>2, Bounds DEF Flagged
<1>4. QED
  BY <1>1, <1>3

\* A packet's table at its time t. The report, if it makes one, is filed at t.
LEMMA RecordHolds ==
  ASSUME NEW tr, NEW n \in Time, NEW t \in Time, n <= t, NEW p \in Time, p <= n,
         NEW filed \in FiledType, NEW d \in Dest,
         Past(tr, n), Aged(tr, p), Flagged(tr, filed, n)
  PROVE  LET new == Recorded(tr, d, t)
             then == IF Reports(tr, d, t) THEN [filed EXCEPT ![d] = t] ELSE filed IN
         Past(new, t) /\ Aged(new, p) /\ Flagged(new, then, t)
<1> DEFINE new == Recorded(tr, d, t)
           then == IF Reports(tr, d, t) THEN [filed EXCEPT ![d] = t] ELSE filed
           live == Live(tr.history[d], t)
<1>1. /\ new \in Table
      /\ \A e \in Dest \ {d} :
           new.history[e] = tr.history[e] /\ (e \in new.reported <=> e \in tr.reported)
      /\ \/ new.history[d] = live /\ FanOut(live, t) /\ ~Reports(tr, d, t)
         \/ new.history[d] = live \cup {t}
      /\ d \in new.reported <=> d \in tr.reported \/ Reports(tr, d, t)
  <2>1. tr \in Table
    BY DEF Past
  <2>2. QED
    BY <2>1, RecordedIs
<1>2. /\ \A e \in Dest \ {d} : then[e] = filed[e]
      /\ then[d] = IF Reports(tr, d, t) THEN t ELSE filed[d]
      /\ \A e \in Dest : filed[e] \in Int
  BY FiledTimes DEF FiledType
<1>3. live = {s \in tr.history[d] : s > t - Window} /\ \A e \in Dest : tr.history[e] \subseteq Time
  BY DEF Live, Past, Table
<1>4. FanOut(live, t) => live # {}
  BY DEF FanOut
<1> HIDE DEF new, then, live
<1>5. Past(new, t)
  <2>1. SUFFICES ASSUME NEW e \in Dest, NEW s \in new.history[e] PROVE s <= t
    BY <1>1 DEF Past
  <2>2. s = t \/ s \in tr.history[e]
    BY <1>1, <1>3
  <2>3. s \in tr.history[e] => s <= n /\ s \in Nat
    BY <1>3, Bounds DEF Past
  <2>4. QED
    BY <2>2, <2>3, Bounds
<1>6. Aged(new, p)
  <2>1. SUFFICES ASSUME NEW e \in Dest, new.history[e] # {} \/ e \in new.reported
                 PROVE  \E s \in new.history[e] : s > p - Window
    BY DEF Aged
  <2>2. CASE e # d
    BY <1>1, <2>1, <2>2 DEF Aged
  <2>3. CASE e = d /\ new.history[d] = live /\ FanOut(live, t)
    <3>1. PICK s \in live : TRUE
      BY <1>4, <2>3
    <3>2. s \in Nat /\ s > t - Window
      BY <1>3, <3>1, Bounds
    <3>3. s > p - Window
      BY <3>2, Bounds
    <3>4. QED
      BY <2>3, <3>1, <3>3
  <2>4. CASE e = d /\ new.history[d] = live \cup {t}
    <3>1. t > p - Window
      BY Bounds
    <3>2. QED
      BY <2>4, <3>1
  <2>5. QED
    BY <1>1, <2>2, <2>3, <2>4
<1>7. Flagged(new, then, t)
  <2>1. SUFFICES ASSUME NEW e \in Dest
                 PROVE  /\ e \in new.reported =>
                             /\ then[e] # Never
                             /\ \E s \in new.history[e] :
                                  s >= then[e] /\ \A r \in new.history[e] : r <= s
                        /\ e \notin new.reported /\ then[e] # Never => t - then[e] >= Window
    BY DEF Flagged
  <2>2. Flagged(tr, filed, t)
    BY TimePasses
  <2>3. CASE e # d
    BY <1>1, <1>2, <2>2, <2>3 DEF Flagged
  <2>4. CASE e = d /\ d \notin new.reported
    BY <1>1, <1>2, <2>2, <2>4 DEF Flagged
  <2>5. CASE e = d /\ d \in new.reported /\ new.history[d] = live \cup {t}
    <3>1. \A r \in new.history[d] : r <= t
      BY <1>5 DEF Past
    <3>2. then[d] # Never /\ t >= then[d]
      <4>1. CASE Reports(tr, d, t)
        BY <1>2, <4>1, Bounds DEF Never
      <4>2. CASE ~Reports(tr, d, t)
        <5>1. d \in tr.reported /\ then[d] = filed[d]
          BY <1>1, <1>2, <2>5, <4>2
        <5>2. filed[d] # Never /\ \E s \in tr.history[d] : s >= filed[d]
          BY <5>1 DEF Flagged
        <5>3. \A s \in tr.history[d] : s <= n /\ s \in Nat
          BY <1>3, Bounds DEF Past
        <5>4. QED
          BY <1>2, <5>1, <5>2, <5>3, Bounds
      <4>3. QED
        BY <4>1, <4>2
    <3>3. QED
      BY <2>5, <3>1, <3>2
  <2>6. CASE e = d /\ d \in new.reported /\ new.history[d] = live /\ FanOut(live, t) /\ ~Reports(tr, d, t)
    <3>1. d \in tr.reported /\ then[d] = filed[d]
      BY <1>1, <1>2, <2>6
    <3>2. filed[d] # Never
      BY <3>1 DEF Flagged
    <3>3. PICK s \in tr.history[d] : s >= filed[d] /\ \A r \in tr.history[d] : r <= s
      BY <3>1 DEF Flagged
    <3>4. s \in live
      <4>1. PICK r \in live : TRUE
        BY <1>4, <2>6
      <4>2. r \in tr.history[d] /\ r > t - Window /\ r \in Nat /\ s \in Nat
        BY <1>3, Bounds
      <4>3. r <= s
        BY <3>3, <4>2
      <4>4. QED
        BY <1>3, <4>2, <4>3, Bounds
    <3>5. live \subseteq tr.history[d]
      BY <1>3
    <3>6. QED
      BY <2>6, <3>1, <3>2, <3>3, <3>4, <3>5
  <2>7. QED
    BY <1>1, <2>3, <2>4, <2>5, <2>6
<1>8. QED
  BY <1>5, <1>6, <1>7 DEF new, then

\* A sweep at t ages the table at t; a flag goes when its destination has been silent.
LEMMA PruneHolds ==
  ASSUME NEW tr, NEW t \in Time, NEW filed \in FiledType, Past(tr, t), Flagged(tr, filed, t)
  PROVE  LET new == Pruned(tr, t) IN Past(new, t) /\ Aged(new, t) /\ Flagged(new, filed, t)
<1> DEFINE new == Pruned(tr, t)
<1>1. tr \in Table /\ \A d \in Dest : tr.history[d] \subseteq Nat
  BY Bounds DEF Past, Table
<1>2. /\ new \in Table
      /\ \A d \in Dest :
           /\ new.history[d] = {s \in tr.history[d] : s > t - Window}
           /\ d \in new.reported <=> d \in tr.reported /\ new.history[d] # {}
  BY <1>1, PrunedIs DEF Live
<1>3. \A d \in Dest : filed[d] \in Int
  BY FiledTimes
<1> HIDE DEF new
<1>4. Past(new, t)
  BY <1>2 DEF Past
<1>5. Aged(new, t)
  BY <1>2 DEF Aged
<1>6. Flagged(new, filed, t)
  <2>1. SUFFICES ASSUME NEW d \in Dest
                 PROVE  /\ d \in new.reported =>
                             /\ filed[d] # Never
                             /\ \E s \in new.history[d] :
                                  s >= filed[d] /\ \A r \in new.history[d] : r <= s
                        /\ d \notin new.reported /\ filed[d] # Never => t - filed[d] >= Window
    BY DEF Flagged
  <2>2. CASE d \notin tr.reported
    BY <1>2, <2>2 DEF Flagged
  <2>3. CASE d \in tr.reported
    <3>1. filed[d] # Never
      BY <2>3 DEF Flagged
    <3>2. PICK s \in tr.history[d] : s >= filed[d] /\ \A r \in tr.history[d] : r <= s
      BY <2>3 DEF Flagged
    <3>3. CASE s > t - Window
      <4>1. s \in new.history[d] /\ new.history[d] \subseteq tr.history[d]
        BY <1>2, <3>2, <3>3
      <4>2. d \in new.reported
        BY <1>2, <2>3, <4>1
      <4>3. QED
        BY <3>1, <3>2, <4>1, <4>2
    <3>4. CASE ~(s > t - Window)
      <4>1. new.history[d] = {}
        BY <1>1, <1>2, <3>2, <3>4, Bounds
      <4>2. s \in Nat /\ t - filed[d] >= Window
        BY <1>1, <1>3, <3>2, <3>4, Bounds
      <4>3. QED
        BY <1>2, <4>1, <4>2
    <3>5. QED
      BY <3>3, <3>4
  <2>4. QED
    BY <2>2, <2>3
<1>7. QED
  BY <1>4, <1>5, <1>6 DEF new

--------------------------------------------------------------------------------
(* The stream, and the types.                                              *)

Frame == Dest \cup {Noise}
StreamOK == stream \in Seq(Frame) /\ Len(stream) <= StreamCap

ScalarsOK ==
  /\ now \in Time
  /\ pc \in {"start", "connect", "listen", "read", "file", "exit", "failed"}
  /\ filing \in Dest \cup {Nobody} /\ (pc = "file" => filing \in Dest)
  /\ blackholes \in Nat
  /\ lastPrune \in Time
  /\ blackholed \in SUBSET Dest
  /\ lastFiled \in FiledType
  /\ swept \in Time
  /\ limitAt \in Time \cup {Never}

TableOK == Past(tracker, now) /\ Aged(tracker, lastPrune) /\ Flagged(tracker, lastFiled, now)

\* The invariant is made of these four.
LEMMA InvParts == RnguardInv <=> StreamOK /\ ScalarsOK /\ TableOK /\ LimitKept
BY DEF RnguardInv, RnguardTypeOK, StreamOK, Frame, ScalarsOK, FiledType, TableOK, Past, Table

LEMMA StreamStep == StreamOK /\ [RnguardNext]_rnguardVars => StreamOK'
<1>1. SUFFICES ASSUME StreamOK, [RnguardNext]_rnguardVars PROVE StreamOK'
  OBVIOUS
<1>2. StreamCap \in Nat \ {0} /\ Len(stream) \in Nat
  BY <1>1, RnguardAssumption, LenProperties DEF StreamOK
<1>3. ASSUME stream' = <<>> PROVE StreamOK'
  BY <1>2, <1>3 DEF StreamOK
<1>4. ASSUME stream # <<>>, stream' = Tail(stream) PROVE StreamOK'
  <2>1. stream' \in Seq(Frame) /\ Len(stream') = Len(stream) - 1
    BY <1>1, <1>4, HeadTailProperties DEF StreamOK
  <2>2. QED
    BY <1>1, <1>2, <2>1 DEF StreamOK
<1>5. ASSUME stream' = stream PROVE StreamOK'
  BY <1>1, <1>5 DEF StreamOK
<1>6. ASSUME NEW f \in Frame, Push(f) PROVE StreamOK'
  <2> DEFINE old == IF Len(stream) < StreamCap THEN stream ELSE Tail(stream)
  <2>1. stream' = Append(old, f)
    BY <1>6 DEF Push
  <2>2. old \in Seq(Frame) /\ Len(old) < StreamCap
    <3>1. CASE Len(stream) < StreamCap
      BY <1>1, <3>1 DEF StreamOK
    <3>2. CASE ~(Len(stream) < StreamCap)
      <4>1. stream # <<>>
        BY <1>2, <3>2
      <4>2. Tail(stream) \in Seq(Frame) /\ Len(Tail(stream)) = Len(stream) - 1
        BY <1>1, <4>1, HeadTailProperties DEF StreamOK
      <4>3. QED
        BY <1>1, <1>2, <3>2, <4>2 DEF StreamOK
    <3>3. QED
      BY <3>1, <3>2
  <2> HIDE DEF old
  <2>3. stream' \in Seq(Frame) /\ Len(stream') = Len(old) + 1 /\ Len(old) \in Nat
    BY <2>1, <2>2, AppendProperties, LenProperties
  <2>4. QED
    BY <1>2, <2>2, <2>3 DEF StreamOK
<1>7. ASSUME NEW t \in now .. MaxTime, Thread(t) PROVE StreamOK'
  BY <1>3, <1>4, <1>5, <1>7 DEF Thread, ConnectFails, ListenFails, Idle, HandleQuietly, HandleReport,
                                Filed, Resubscribe
<1>8. CASE Start \/ ConnectOk \/ ListenOk \/ Ended
  BY <1>3, <1>5, <1>8 DEF Start, ConnectOk, ListenOk, Ended, rnguardVars
<1>9. CASE UNCHANGED rnguardVars
  BY <1>5, <1>9 DEF rnguardVars
<1>10. QED
  BY <1>1, <1>6, <1>7, <1>8, <1>9 DEF RnguardNext, Frame

--------------------------------------------------------------------------------
(* The loop.                                                               *)

\* An iteration that ends at t with the table tr and the count n leaves an aged table; past
\* its limit the loop goes on only if nothing has been pruned.
LEMMA SweepHolds ==
  ASSUME NEW t \in now .. MaxTime, NEW tr, NEW n, Sweep(tr, n, t), now' = t, blackholes' = n,
         ScalarsOK, LimitKept, lastFiled' \in FiledType,
         Past(tr, t), Aged(tr, lastPrune), Flagged(tr, lastFiled', t),
         limitAt' # Never => Limited /\ n >= Once, limitAt' \in Time \cup {Never},
         limitAt' # Never => lastPrune <= limitAt' /\ limitAt' <= t
  PROVE  /\ pc' \in {"read", "exit"} /\ now' \in Time /\ swept' \in Time /\ lastPrune' \in Time
         /\ TableOK' /\ LimitKept'
<1>1. /\ t \in Time /\ now <= t /\ now \in Nat /\ t \in Nat
      /\ swept' = t /\ swept \in Nat /\ lastPrune \in Nat /\ PruneInterval \in Nat \ {0}
  BY Bounds DEF ScalarsOK, Time, Sweep
<1>2. lastPrune <= t /\ limitAt' <= t
  BY <1>1 DEF LimitKept, Never
<1>3. CASE t - lastPrune < PruneInterval
  <2>1. tracker' = tr /\ pc' = "read" /\ lastPrune' = lastPrune
    BY <1>3 DEF Sweep
  <2>2. Past(tracker', now') /\ Aged(tracker', lastPrune') /\ Flagged(tracker', lastFiled', now')
    BY <2>1
  <2>3. QED
    BY <1>1, <1>2, <1>3, <2>1, <2>2 DEF ScalarsOK, TableOK, Past, Aged, Flagged, Table, LimitKept
<1>4. CASE ~(t - lastPrune < PruneInterval)
  <2>1. /\ tracker' = Pruned(tr, t) /\ lastPrune' = t
        /\ pc' = IF Limited /\ n >= Once THEN "exit" ELSE "read"
    BY <1>4 DEF Sweep
  <2>2. Past(tracker', now') /\ Aged(tracker', lastPrune') /\ Flagged(tracker', lastFiled', now')
    BY <1>1, <2>1, PruneHolds
  <2>3. TableOK'
    BY <2>2 DEF TableOK, Past, Aged, Flagged, Table
  <2>4. limitAt' # Never => pc' = "exit"
    BY <2>1
  <2>5. t - t < PruneInterval
    BY <1>1
  <2>6. QED
    BY <1>1, <1>2, <2>1, <2>3, <2>4, <2>5 DEF LimitKept
<1>5. QED
  BY <1>3, <1>4

Loop == ScalarsOK /\ TableOK /\ LimitKept

\* A step of the thread that neither counts nor sweeps, at the time now' it takes.
LEMMA Waits ==
  ASSUME Loop, now' \in Time, now <= now',
         UNCHANGED <<tracker, filing, blackholes, lastPrune, blackholed, lastFiled, swept, limitAt>>,
         pc' \in {"start", "connect", "listen", "read", "exit", "failed"} \/ pc' = pc,
         pc = "exit" => pc' = "exit"
  PROVE  Loop'
<1>1. ScalarsOK'
  BY DEF Loop, ScalarsOK
<1>2. Past(tracker, now') /\ Flagged(tracker, lastFiled, now')
  BY TimePasses DEF Loop, TableOK, ScalarsOK
<1>3. TableOK'
  BY <1>2 DEF Loop, TableOK, Past, Aged, Flagged, Table
<1>4. /\ now \in Nat /\ now' \in Nat /\ lastPrune \in Nat /\ swept \in Nat
      /\ limitAt \in Nat \/ limitAt = -1
  BY Bounds DEF Loop, ScalarsOK, Never
<1>5. LimitKept'
  BY <1>4 DEF Loop, LimitKept
<1>6. QED
  BY <1>1, <1>3, <1>5 DEF Loop

LEMMA IdleHolds == ASSUME Loop, StreamOK, NEW t \in now .. MaxTime, Idle(t) PROVE Loop'
<1>1. /\ now' = t /\ Sweep(tracker, blackholes, t)
      /\ UNCHANGED <<stream, filing, blackholes, blackholed, lastFiled, limitAt>>
  BY DEF Idle
<1>2. t \in Time /\ now \in Time /\ now <= t /\ now \in Nat /\ t \in Nat
  BY Bounds DEF Loop, ScalarsOK, Time
<1>3. limitAt \in Nat \/ limitAt = -1
  BY Bounds DEF Loop, ScalarsOK, Never
<1>4. limitAt # Never => lastPrune <= limitAt /\ limitAt <= t
  BY <1>2, <1>3 DEF Loop, LimitKept, Idle
<1>5. Past(tracker, t) /\ Flagged(tracker, lastFiled, t)
  BY <1>2, TimePasses DEF Loop, TableOK, ScalarsOK
<1>6. /\ pc' \in {"read", "exit"} /\ now' \in Time /\ swept' \in Time /\ lastPrune' \in Time
      /\ TableOK' /\ LimitKept'
  BY <1>1, <1>4, <1>5, SweepHolds DEF Loop, TableOK, ScalarsOK, LimitKept
<1>7. QED
  BY <1>1, <1>6 DEF Loop, ScalarsOK

LEMMA FiledHolds == ASSUME Loop, StreamOK, NEW t \in now .. MaxTime, Filed(t) PROVE Loop'
<1>1. /\ now' = t /\ Sweep(tracker, blackholes, t) /\ filing' = Nobody
      /\ blackholed' \in {blackholed, blackholed \cup {filing}}
      /\ UNCHANGED <<stream, blackholes, lastFiled, limitAt>>
  BY DEF Filed
<1>2. t \in Time /\ now \in Time /\ now <= t /\ now \in Nat /\ t \in Nat
  BY Bounds DEF Loop, ScalarsOK, Time
<1>3. limitAt \in Nat \/ limitAt = -1
  BY Bounds DEF Loop, ScalarsOK, Never
<1>4. limitAt # Never => lastPrune <= limitAt /\ limitAt <= t
  BY <1>2, <1>3 DEF Loop, LimitKept, Filed
<1>5. Past(tracker, t) /\ Flagged(tracker, lastFiled, t)
  BY <1>2, TimePasses DEF Loop, TableOK, ScalarsOK
<1>6. /\ pc' \in {"read", "exit"} /\ now' \in Time /\ swept' \in Time /\ lastPrune' \in Time
      /\ TableOK' /\ LimitKept'
  BY <1>1, <1>4, <1>5, SweepHolds DEF Loop, TableOK, ScalarsOK, LimitKept
<1>7. blackholed' \in SUBSET Dest
  BY <1>1 DEF Filed, Loop, ScalarsOK
<1>8. QED
  BY <1>1, <1>6, <1>7 DEF Loop, ScalarsOK

LEMMA QuietHolds == ASSUME Loop, StreamOK, NEW t \in now .. MaxTime, HandleQuietly(t) PROVE Loop'
<1> DEFINE f == Head(stream)
           tr == IF f \in Dest THEN Recorded(tracker, f, t) ELSE tracker
<1>1. /\ now' = t /\ Sweep(tr, blackholes, t) /\ (f \in Dest => ~Reports(tracker, f, t))
      /\ UNCHANGED <<filing, blackholes, blackholed, lastFiled, limitAt>>
  BY DEF HandleQuietly
<1>2. t \in Time /\ now \in Time /\ now <= t /\ now \in Nat /\ t \in Nat /\ lastPrune <= now
  BY Bounds DEF Loop, ScalarsOK, Time, LimitKept
<1>3. limitAt \in Nat \/ limitAt = -1
  BY Bounds DEF Loop, ScalarsOK, Never
<1>4. limitAt # Never => lastPrune <= limitAt /\ limitAt <= t
  BY <1>2, <1>3 DEF Loop, LimitKept, HandleQuietly
<1>5. Past(tr, t) /\ Aged(tr, lastPrune) /\ Flagged(tr, lastFiled, t)
  <2>1. CASE f \in Dest
    <3>1. LET then == IF Reports(tracker, f, t) THEN [lastFiled EXCEPT ![f] = t] ELSE lastFiled IN
          Past(tr, t) /\ Aged(tr, lastPrune) /\ Flagged(tr, then, t)
      BY <1>2, <2>1, RecordHolds DEF Loop, TableOK, ScalarsOK
    <3>2. QED
      BY <1>1, <2>1, <3>1
  <2>2. CASE f \notin Dest
    <3>1. tr = tracker
      BY <2>2
    <3>2. QED
      BY <1>2, <3>1, TimePasses DEF Loop, TableOK, ScalarsOK
  <2>3. QED
    BY <2>1, <2>2
<1> HIDE DEF f, tr
<1>6. /\ pc' \in {"read", "exit"} /\ now' \in Time /\ swept' \in Time /\ lastPrune' \in Time
      /\ TableOK' /\ LimitKept'
  BY <1>1, <1>4, <1>5, SweepHolds DEF Loop, TableOK, ScalarsOK, LimitKept
<1>7. QED
  BY <1>1, <1>6 DEF Loop, ScalarsOK

\* A report raises the count; the limit, once reached, stays where it was reached.
LEMMA ReportHolds == ASSUME Loop, StreamOK, NEW t \in now .. MaxTime, HandleReport(t) PROVE Loop'
<1> DEFINE d == Head(stream)
           tr == Recorded(tracker, d, t)
<1>1. /\ pc = "read" /\ now' = t /\ d \in Dest /\ Reports(tracker, d, t) /\ blackholes' = blackholes + 1
      /\ lastFiled' = [lastFiled EXCEPT ![d] = t] /\ blackholed' = blackholed
      /\ limitAt' = IF limitAt = Never /\ Limited /\ Once # 0 /\ blackholes + 1 >= Once THEN t ELSE limitAt
      /\ IF DryRun
         THEN Sweep(tr, blackholes + 1, t) /\ UNCHANGED filing
         ELSE tracker' = tr /\ filing' = d /\ pc' = "file" /\ UNCHANGED <<lastPrune, swept>>
  BY DEF HandleReport
<1>2. /\ t \in Time /\ now \in Time /\ now <= t /\ now \in Nat /\ t \in Nat /\ lastPrune <= now
      /\ lastPrune \in Nat /\ swept \in Nat /\ blackholes \in Nat
  BY Bounds DEF Loop, ScalarsOK, Time, LimitKept
<1>3. limitAt \in Nat \/ limitAt = -1
  BY Bounds DEF Loop, ScalarsOK, Never
<1>4. limitAt' \in Time \cup {Never} /\ lastFiled' \in FiledType /\ blackholes' \in Nat
  BY <1>1, <1>2 DEF Loop, ScalarsOK, FiledType
<1>5. limitAt' # Never => lastPrune <= limitAt' /\ limitAt' <= t
  BY <1>1, <1>2, <1>3 DEF Loop, LimitKept
<1>6. limitAt' # Never => Limited /\ blackholes + 1 >= Once
  <2>1. Limited => Once \in Nat
    BY RnguardAssumption DEF Limited
  <2>2. QED
    BY <1>1, <1>2, <2>1 DEF Loop, LimitKept
<1>7. Past(tr, t) /\ Aged(tr, lastPrune) /\ Flagged(tr, lastFiled', t)
  <2>1. LET then == IF Reports(tracker, d, t) THEN [lastFiled EXCEPT ![d] = t] ELSE lastFiled IN
        Past(tr, t) /\ Aged(tr, lastPrune) /\ Flagged(tr, then, t)
    BY <1>1, <1>2, RecordHolds DEF Loop, TableOK, ScalarsOK
  <2>2. QED
    BY <1>1, <2>1
<1> HIDE DEF d, tr
<1>8. CASE DryRun
  <2>1. /\ pc' \in {"read", "exit"} /\ now' \in Time /\ swept' \in Time /\ lastPrune' \in Time
        /\ TableOK' /\ LimitKept'
    BY <1>1, <1>4, <1>5, <1>6, <1>7, <1>8, SweepHolds DEF Loop, ScalarsOK
  <2>2. QED
    BY <1>1, <1>4, <1>8, <2>1 DEF Loop, ScalarsOK
<1>9. CASE ~DryRun
  <2>1. tracker' = tr /\ filing' = d /\ pc' = "file" /\ lastPrune' = lastPrune /\ swept' = swept
    BY <1>1, <1>9
  <2>2. TableOK'
    BY <1>1, <1>7, <2>1 DEF TableOK, Past, Aged, Flagged, Table
  <2>3. LimitKept'
    BY <1>1, <1>2, <1>3, <1>5, <1>6, <2>1 DEF Loop, LimitKept, Never
  <2>4. QED
    BY <1>1, <1>2, <1>4, <2>1, <2>2, <2>3 DEF Loop, ScalarsOK
<1>10. QED
  BY <1>8, <1>9

LEMMA LoopStep == Loop /\ StreamOK /\ [RnguardNext]_rnguardVars => Loop'
<1>1. SUFFICES ASSUME Loop, StreamOK, [RnguardNext]_rnguardVars PROVE Loop'
  OBVIOUS
<1>2. now \in Time /\ now \in Nat /\ MaxTime \in Nat
  BY <1>1, Bounds DEF Loop, ScalarsOK
<1>3. CASE Start \/ ConnectOk \/ ListenOk \/ \E f \in Dest \cup {Noise} : Push(f)
  BY <1>1, <1>2, <1>3, Waits DEF Start, ConnectOk, ListenOk, Push
<1>4. CASE Ended \/ UNCHANGED rnguardVars
  BY <1>1, <1>2, <1>4, Waits DEF Ended, rnguardVars
<1>5. ASSUME NEW t \in now .. MaxTime, Thread(t) PROVE Loop'
  <2>1. t \in Time /\ now <= t
    BY <1>2, <1>5 DEF Time
  <2>2. CASE ConnectFails(t) \/ ListenFails(t) \/ Resubscribe(t)
    BY <1>1, <2>1, <2>2, Waits DEF ConnectFails, ListenFails, Resubscribe
  <2>3. QED
    BY <1>1, <1>5, <2>2, IdleHolds, QuietHolds, ReportHolds, FiledHolds DEF Thread
<1>6. QED
  BY <1>1, <1>3, <1>4, <1>5 DEF RnguardNext

--------------------------------------------------------------------------------
(* The theorems.                                                           *)

LEMMA RnguardInitHolds == RnguardInit => RnguardInv
<1>1. SUFFICES ASSUME RnguardInit PROVE RnguardInv
  OBVIOUS
<1>2. 0 \in Time /\ StreamCap \in Nat \ {0} /\ PruneInterval \in Nat \ {0} /\ Limited => Once \in Nat
  BY RnguardAssumption DEF Time, Limited
<1>3. StreamOK
  <2>1. Len(stream) = 0 /\ stream \in Seq(Frame)
    BY <1>1 DEF RnguardInit
  <2>2. QED
    BY <2>1, RnguardAssumption DEF StreamOK
<1>4. ScalarsOK
  BY <1>1, RnguardAssumption DEF RnguardInit, ScalarsOK, FiledType, Time
<1>5. TableOK
  BY <1>1, RnguardAssumption DEF RnguardInit, EmptyTracker, TableOK, Past, Aged, Flagged, Table
<1>6. LimitKept
  BY <1>1, RnguardAssumption DEF RnguardInit, LimitKept, Never, Limited
<1>7. QED
  BY <1>3, <1>4, <1>5, <1>6, InvParts

LEMMA RnguardStep == RnguardInv /\ [RnguardNext]_rnguardVars => RnguardInv'
<1>1. SUFFICES ASSUME RnguardInv, [RnguardNext]_rnguardVars PROVE RnguardInv'
  OBVIOUS
<1>2. StreamOK' /\ Loop'
  BY <1>1, InvParts, StreamStep, LoopStep DEF Loop
<1>3. QED
  BY <1>2, InvParts, PTL DEF Loop

\* The loop's variables keep their types and the stream its bound (RnguardTypeOK).
THEOREM RnguardTyped == RnguardSpec => []RnguardTypeOK
<1>1. RnguardInv => RnguardTypeOK
  BY DEF RnguardInv
<1>2. QED
  BY RnguardInitHolds, RnguardStep, <1>1, PTL DEF RnguardSpec

\* However busy the stream, and whatever outages and blocked calls lie between: after an
\* iteration no destination is in the table, or flagged, that has been silent for longer
\* than Window + PruneInterval (TableFresh).
THEOREM TableStaysFresh == RnguardSpec => []TableFresh
<1>1. RnguardInv => TableFresh
  <2>1. SUFFICES ASSUME RnguardInv, NEW d \in Dest,
                        tracker.history[d] # {} \/ d \in tracker.reported
                 PROVE  \E s \in tracker.history[d] : s > swept - Window - PruneInterval
    BY DEF TableFresh
  <2>2. PICK s \in tracker.history[d] : s > lastPrune - Window
    BY <2>1 DEF RnguardInv, Aged
  <2>3. s \in Nat /\ lastPrune \in Nat /\ swept \in Nat
    <3>1. s \in Time /\ lastPrune \in Time /\ swept \in Time
      BY <2>1, <2>2 DEF RnguardInv, RnguardTypeOK
    <3>2. QED
      BY <3>1, Bounds
  <2>4. s > swept - Window - PruneInterval
    BY <2>1, <2>2, <2>3, Bounds DEF RnguardInv, LimitKept
  <2>5. QED
    BY <2>4
<1>2. QED
  BY RnguardInitHolds, RnguardStep, <1>1, PTL DEF RnguardSpec

\* A loop that goes on is less than PruneInterval past the report that reached --once
\* (OnceSoon).
THEOREM LimitIsSeenSoon == RnguardSpec => []OnceSoon
<1>1. RnguardInv => OnceSoon
  <2>1. SUFFICES ASSUME RnguardInv, pc = "read", limitAt # Never
                 PROVE  swept < limitAt + PruneInterval
    BY DEF OnceSoon
  <2>2. limitAt \in Nat /\ lastPrune \in Nat /\ swept \in Nat
    BY <2>1, Bounds DEF RnguardInv, RnguardTypeOK
  <2>3. QED
    BY <2>1, <2>2, Bounds DEF RnguardInv, LimitKept
<1>2. QED
  BY RnguardInitHolds, RnguardStep, <1>1, PTL DEF RnguardSpec

\* A destination that was reported is not reported again before it has been silent for a
\* window, across outages and new subscriptions (ReportsApart).
THEOREM ReportsFarApart == RnguardSpec => ReportsApart
<1>1. RnguardInv /\ [RnguardNext]_rnguardVars
        => [\A d \in Dest :
              lastFiled'[d] # lastFiled[d] /\ lastFiled[d] # Never
                => lastFiled'[d] - lastFiled[d] >= Window]_rnguardVars
  <2>1. SUFFICES ASSUME RnguardInv, RnguardNext, NEW d \in Dest,
                        lastFiled'[d] # lastFiled[d], lastFiled[d] # Never
                 PROVE  lastFiled'[d] - lastFiled[d] >= Window
    OBVIOUS
  <2>2. PICK t \in now .. MaxTime : HandleReport(t)
    BY <2>1 DEF RnguardNext, Start, ConnectOk, ListenOk, Thread, ConnectFails, ListenFails, Idle,
                HandleQuietly, Filed, Resubscribe, Push, Ended, rnguardVars
  <2>3. lastFiled' = [lastFiled EXCEPT ![Head(stream)] = t] /\ Reports(tracker, Head(stream), t)
    BY <2>2 DEF HandleReport
  <2>4. lastFiled \in FiledType /\ now \in Time
    BY <2>1 DEF RnguardInv, RnguardTypeOK, FiledType
  <2>5. d = Head(stream) /\ lastFiled'[d] = t
    BY <2>1, <2>3, <2>4 DEF FiledType
  <2>6. d \notin tracker.reported
    BY <2>3, <2>5 DEF Reports
  <2>7. now - lastFiled[d] >= Window
    BY <2>1, <2>6 DEF RnguardInv, Flagged
  <2>8. now \in Nat /\ lastFiled[d] \in Nat
    BY <2>1, <2>4, Bounds, FiledTimes
  <2>9. QED
    BY <2>2, <2>5, <2>7, <2>8, Bounds
<1>2. QED
  BY RnguardInitHolds, RnguardStep, <1>1, PTL DEF RnguardSpec, ReportsApart
================================================================================
