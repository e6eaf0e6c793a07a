-------------------------------- MODULE Rnguard --------------------------------
(***************************************************************************)
(* rnguard's main loop (src/bin/rnguard.rs): connect to the instance's     *)
(* control port, subscribe to its packet events, count announces, file a   *)
(* blackhole for a destination over the threshold, sweep, reconnect.       *)
(*                                                                         *)
(* The program is one thread: an iteration of the inner loop is one action *)
(* unless it blocks in the blackhole call (pc = "file"), when the instance *)
(* goes on pushing events into the stream. Times are those Instant::now()  *)
(* returns in the step; any amount of time may pass in a step.             *)
(***************************************************************************)
EXTENDS AnnounceTable, Sequences

CONSTANTS
  Once,           \* --once, or NoLimit
  NoLimit,
  DryRun,         \* --dry-run
  PruneInterval,  \* PRUNE_INTERVAL
  StreamCap,      \* bound on the events the instance buffers for a subscriber
  Noise,          \* a frame that is no announce: data, "lagged", malformed
  MaxTime         \* bound on the clock

ASSUME RnguardAssumption ==
  /\ Once \in Nat \cup {NoLimit}
  /\ DryRun \in BOOLEAN
  /\ PruneInterval \in Nat \ {0}
  /\ StreamCap \in Nat \ {0}
  /\ Noise \notin Dest
  /\ MaxTime \in Nat

VARIABLES
  now,         \* Instant of the last step
  pc,          \* where the thread is
  tracker,     \* the AnnounceRateTracker
  stream,      \* events pushed by the instance and not read yet
  filing,      \* the destination whose blackhole call is under way
  blackholes,  \* Stats::blackholes
  lastPrune,   \* Stats::last_prune
  blackholed,  \* the instance's blackhole list
  lastFiled,   \* history variable: when d was last reported
  swept,       \* history variable: when the last iteration of the loop ended
  limitAt      \* history variable: when a --once limit above 0 was reached

rnguardVars == <<now, pc, tracker, stream, filing, blackholes, lastPrune, blackholed,
               lastFiled, swept, limitAt>>

Nobody == Noise
Time == 0 .. MaxTime
Limited == Once # NoLimit

RnguardInit ==
  /\ now = 0
  /\ pc = "start"
  /\ tracker = EmptyTracker
  /\ stream = <<>>
  /\ filing = Nobody
  /\ blackholes = 0
  /\ lastPrune = 0
  /\ blackholed = {}
  /\ lastFiled = [d \in Dest |-> Never]
  /\ swept = 0
  /\ limitAt = Never

--------------------------------------------------------------------------------
(* The thread.                                                             *)

\* The connection made before the loop: a failure ends the program.
Start ==
  /\ pc = "start"
  /\ pc' \in {"connect", "failed"}
  /\ UNCHANGED <<now, tracker, stream, filing, blackholes, lastPrune, blackholed,
                 lastFiled, swept, limitAt>>

\* connect_rpc at the head of the outer loop; a failure sleeps and continues.
ConnectOk ==
  /\ pc = "connect"
  /\ pc' = "listen"
  /\ UNCHANGED <<now, tracker, stream, filing, blackholes, lastPrune, blackholed,
                 lastFiled, swept, limitAt>>

ConnectFails(t) ==
  /\ pc = "connect"
  /\ now' = t
  /\ UNCHANGED <<pc, tracker, stream, filing, blackholes, lastPrune, blackholed,
                 lastFiled, swept, limitAt>>

\* subscribe(): a fresh stream, and a fresh FrameReader.
ListenOk ==
  /\ pc = "listen"
  /\ pc' = "read"
  /\ stream' = <<>>
  /\ UNCHANGED <<now, tracker, filing, blackholes, lastPrune, blackholed, lastFiled, swept, limitAt>>

\* (faulty variant: a refused subscription ends the program)
ListenFailsForGood(t) ==
  /\ pc = "listen"
  /\ pc' = "failed"
  /\ now' = t
  /\ UNCHANGED <<tracker, stream, filing, blackholes, lastPrune, blackholed, lastFiled, swept, limitAt>>

ListenFails(t) ==
  /\ pc = "listen"
  /\ pc' = "connect"
  /\ now' = t
  /\ UNCHANGED <<tracker, stream, filing, blackholes, lastPrune, blackholed, lastFiled, swept, limitAt>>

\* (faulty variant: the table is aged on idle ticks only)
SweepWhenIdle(tr, n, t) ==
  /\ swept' = t
  /\ IF t - lastPrune < PruneInterval \/ stream # <<>>
     THEN tracker' = tr /\ pc' = "read" /\ UNCHANGED lastPrune
     ELSE /\ lastPrune' = t
          /\ tracker' = Pruned(tr, t)
          /\ pc' = IF Limited /\ n >= Once THEN "exit" ELSE "read"

\* (faulty variant: the limit must be exceeded)
SweepPastLimit(tr, n, t) ==
  /\ swept' = t
  /\ IF t - lastPrune < PruneInterval
     THEN tracker' = tr /\ pc' = "read" /\ UNCHANGED lastPrune
     ELSE /\ lastPrune' = t
          /\ tracker' = Pruned(tr, t)
          /\ pc' = IF Limited /\ n > Once THEN "exit" ELSE "read"

\* sweep() at the end of an iteration, on table tr and count n.
Sweep(tr, n, t) ==
  /\ swept' = t
  /\ IF t - lastPrune < PruneInterval
     THEN tracker' = tr /\ pc' = "read" /\ UNCHANGED lastPrune
     ELSE /\ lastPrune' = t
          /\ tracker' = Pruned(tr, t)
          /\ pc' = IF Limited /\ n >= Once THEN "exit" ELSE "read"

\* next_frame() timed out with nothing buffered: an idle tick.
Idle(t) ==
  /\ pc = "read"
  /\ stream = <<>>
  /\ now' = t
  /\ Sweep(tracker, blackholes, t)
  /\ UNCHANGED <<stream, filing, blackholes, blackholed, lastFiled, limitAt>>

\* A frame handle_frame() returns from without reporting: noise, a repeat, an
\* announce below the threshold or of a destination already reported.
HandleQuietly(t) ==
  /\ pc = "read"
  /\ stream # <<>>
  /\ LET f == Head(stream) IN
     /\ f \in Dest => ~Reports(tracker, f, t)
     /\ Sweep(IF f \in Dest THEN Recorded(tracker, f, t) ELSE tracker, blackholes, t)
  /\ now' = t
  /\ stream' = Tail(stream)
  /\ UNCHANGED <<filing, blackholes, blackholed, lastFiled, limitAt>>

\* A frame that is reported. A dry run goes on to the sweep, otherwise the
\* thread calls Control::blackhole and blocks.
HandleReport(t) ==
  /\ pc = "read"
  /\ stream # <<>>
  /\ LET d == Head(stream) IN
     /\ d \in Dest
     /\ Reports(tracker, d, t)
     /\ blackholes' = blackholes + 1
     /\ lastFiled' = [lastFiled EXCEPT ![d] = t]
     /\ limitAt' = IF limitAt = Never /\ Limited /\ Once # 0 /\ blackholes + 1 >= Once
                   THEN t ELSE limitAt
     /\ IF DryRun
        THEN Sweep(Recorded(tracker, d, t), blackholes + 1, t) /\ UNCHANGED filing
        ELSE /\ tracker' = Recorded(tracker, d, t)
             /\ filing' = d
             /\ pc' = "file"
             /\ UNCHANGED <<lastPrune, swept>>
  /\ now' = t
  /\ stream' = Tail(stream)
  /\ UNCHANGED blackholed

\* Control::blackhole returns, the instance having added the entry or not; an
\* error is only logged. Then the sweep.
Filed(t) ==
  /\ pc = "file"
  /\ blackholed' \in {blackholed, blackholed \cup {filing}}
  /\ filing' = Nobody
  /\ now' = t
  /\ Sweep(tracker, blackholes, t)
  /\ UNCHANGED <<stream, blackholes, lastFiled, limitAt>>

\* (faulty variant: the accounting starts afresh with the subscription)
ResubscribeForgets(t) ==
  /\ pc = "read"
  /\ pc' = "connect"
  /\ stream' = <<>>
  /\ now' = t
  /\ tracker' = EmptyTracker
  /\ UNCHANGED <<filing, blackholes, lastPrune, blackholed, lastFiled, swept, limitAt>>

\* next_frame() fails: closed, reset, a timeout inside a frame, an oversized or
\* invalid length. What was not read is lost; the loop sleeps and reconnects.
Resubscribe(t) ==
  /\ pc = "read"
  /\ pc' = "connect"
  /\ stream' = <<>>
  /\ now' = t
  /\ UNCHANGED <<tracker, filing, blackholes, lastPrune, blackholed, lastFiled, swept, limitAt>>

--------------------------------------------------------------------------------
(* The instance.                                                           *)

\* It pushes a packet event to a subscriber; one that lags loses the oldest.
Push(f) ==
  /\ pc \in {"read", "file"}
  /\ stream' = Append(IF Len(stream) < StreamCap THEN stream ELSE Tail(stream), f)
  /\ UNCHANGED <<now, pc, tracker, filing, blackholes, lastPrune, blackholed, lastFiled, swept, limitAt>>

\* The program has ended.
Ended == pc \in {"exit", "failed"} /\ UNCHANGED rnguardVars

Thread(t) ==
  \/ ConnectFails(t) \/ ListenFails(t)
  \/ Idle(t) \/ HandleQuietly(t) \/ HandleReport(t) \/ Filed(t) \/ Resubscribe(t)

RnguardNext ==
  \/ Start \/ ConnectOk \/ ListenOk
  \/ \E t \in now .. MaxTime : Thread(t)
  \/ \E f \in Dest \cup {Noise} : Push(f)
  \/ Ended

\* The thread runs, and an instance that is asked again and again answers.
Fairness ==
  /\ SF_rnguardVars(ConnectOk)
  /\ SF_rnguardVars(ListenOk)
  /\ WF_rnguardVars(Filed(now))

RnguardSpec == RnguardInit /\ [][RnguardNext]_rnguardVars /\ Fairness

--------------------------------------------------------------------------------
RnguardTypeOK ==
  /\ now \in Time
  /\ pc \in {"start", "connect", "listen", "read", "file", "exit", "failed"}
  /\ tracker \in [history : [Dest -> SUBSET Time], reported : SUBSET Dest]
  /\ stream \in Seq(Dest \cup {Noise}) /\ Len(stream) <= StreamCap
  /\ filing \in Dest \cup {Nobody}
  /\ blackholes \in Nat
  /\ lastPrune \in Time
  /\ blackholed \in SUBSET Dest
  /\ lastFiled \in [Dest -> Time \cup {Never}]
  /\ swept \in Time
  /\ limitAt \in Time \cup {Never}

\* "Swept on both ticks and frames, so a busy announce stream still ages silent
\* destinations out": after an iteration no destination is in the table, or
\* flagged, whose last counted announce is older than Window + PruneInterval.
TableFresh ==
  \A d \in Dest :
    (tracker.history[d] # {} \/ d \in tracker.reported)
      => \E s \in tracker.history[d] : s > swept - Window - PruneInterval

\* A destination is reported again only after a full window of silence, whatever
\* outages, resubscriptions and blocked calls lie in between.
ReportsApart ==
  [][\A d \in Dest :
       lastFiled'[d] # lastFiled[d] /\ lastFiled[d] # Never
         => lastFiled'[d] - lastFiled[d] >= Window]_rnguardVars

\* --once n, n > 0, is looked at in the sweep alone, and only when a prune is
\* due: a loop that goes on is never PruneInterval or more past the moment of its
\* last permitted report, however the reports and the prunes interleave.
OnceSoon ==
  pc = "read" /\ limitAt # Never => swept < limitAt + PruneInterval

\* "Any failure on that socket is recoverable": a lost subscription is
\* eventually made again.
StreamRecovers == pc = "connect" ~> pc = "read"

\* "Exit after this many blackhole actions (0 = run forever)": with --once 0 the
\* program never ends because of its limit.
ZeroRunsForever == Once = 0 => pc # "exit"

\* The program's promise: it "blackholes any destination that exceeds the
\* threshold". Each announce that is counted while its destination exceeds the
\* threshold finds it on the instance's list or has it filed.
CeilingEnforced ==
  [][\A d \in Dest :
       (/\ stream # <<>> /\ Head(stream) = d
        /\ now' \in tracker'.history[d] \ tracker.history[d]
        /\ Cardinality(tracker'.history[d]) > Threshold)
         => d \in blackholed \/ filing' = d]_rnguardVars
================================================================================
