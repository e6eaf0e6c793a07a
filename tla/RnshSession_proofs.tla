--------------------------- MODULE RnshSession_proofs ---------------------------
(***************************************************************************)
(* Proofs about RnshSession for any exit codes, size of the event channel, *)
(* output and number of events: the types, the descriptor of the pty, the  *)
(* code that is reported and the child that is waited for.                 *)
(***************************************************************************)
EXTENDS RnshSession, SequenceTheorems, TLAPS

--------------------------------------------------------------------------------
(* The inductive invariant.                                                *)

\* No output is made up: what is in the pty, in frames and on the link was written.
Conserved == ptyOut + frames + delivered <= written

\* Until the cleanup the flag says whether the descriptor is open, and nothing is done
\* to it when it is not.
MasterTracked ==
  /\ ~misused
  /\ task # "done" => masterOpen = ~masterClosed
  /\ task = "done" => ~masterOpen

\* There is a code iff child_exited is set: that of the child if it was waited for, zero
\* if not, when the loop was cut off. It does not change once the loop is left.
VerdictTrue ==
  /\ childExited = (childCode # NoCode)
  /\ child = "reaped" => childExited /\ childCode = Wexitstatus(status)
  /\ child # "reaped" => childCode \in {0, NoCode}
  /\ childExited => cut \/ child = "reaped"
  /\ task # "loop" => childExited
  /\ reported # NoCode => task \in {"kill", "done"} /\ reported = childCode

SessionInv ==
  /\ SessionTypeOK
  /\ Conserved
  /\ MasterTracked
  /\ VerdictTrue

--------------------------------------------------------------------------------
(* The event channel, and the types.                                       *)

ChannelOK ==
  /\ events \in Seq(Event) /\ Len(events) <= Slots
  /\ behind \in BOOLEAN /\ pushed \in 0 .. MaxEvents

ScalarsOK ==
  /\ task \in {"loop", "flush", "kill", "done"} /\ up \in BOOLEAN
  /\ child \in {"running", "zombie", "reaped"}
  /\ status \in ExitCode \cup {Signal, NoCode} /\ (child = "running") = (status = NoCode)
  /\ thread \in {"reading", "ended"} /\ finished \in BOOLEAN
  /\ masterOpen \in BOOLEAN /\ masterClosed \in BOOLEAN /\ misused \in BOOLEAN
  /\ childExited \in BOOLEAN /\ late \in BOOLEAN /\ cut \in BOOLEAN
  /\ childCode \in ExitCode \cup {0, NoCode}
  /\ reported \in ExitCode \cup {0, NoCode}

CountsOK ==
  /\ written \in 0 .. MaxOutput /\ ptyOut \in Nat /\ frames \in Nat /\ delivered \in Nat
  /\ Conserved

\* The type invariant is made of these three.
LEMMA TypeParts == ChannelOK /\ ScalarsOK /\ CountsOK <=> SessionTypeOK /\ Conserved
<1>1. ASSUME CountsOK
      PROVE  ptyOut \in 0 .. written /\ frames \in 0 .. written /\ delivered \in 0 .. written
  BY <1>1, SessionAssumption DEF CountsOK, Conserved
<1>2. ASSUME SessionTypeOK PROVE ptyOut \in Nat /\ frames \in Nat /\ delivered \in Nat
  BY <1>2, SessionAssumption DEF SessionTypeOK
<1>3. QED
  BY <1>1, <1>2 DEF ChannelOK, ScalarsOK, CountsOK, SessionTypeOK

\* The channel overwrites its oldest event when it is full.
LEMMA PublishKeeps == ASSUME ChannelOK, NEW e \in Event, PostEvent(e) PROVE ChannelOK'
<1> DEFINE old == IF Len(events) < Slots THEN events ELSE Tail(events)
<1>1. /\ events \in Seq(Event) /\ Len(events) <= Slots /\ Slots \in Nat \ {0}
      /\ Len(events) \in Nat
  BY SessionAssumption, LenProperties DEF ChannelOK
<1>2. old \in Seq(Event) /\ Len(old) < Slots
  <2>1. CASE Len(events) < Slots
    BY <1>1, <2>1
  <2>2. CASE ~(Len(events) < Slots)
    <3>1. events # <<>>
      BY <1>1, <2>2
    <3>2. Tail(events) \in Seq(Event) /\ Len(Tail(events)) = Len(events) - 1
      BY <1>1, <3>1, HeadTailProperties
    <3>3. QED
      BY <1>1, <2>2, <3>2
  <2>3. QED
    BY <2>1, <2>2
<1>3. events' = Append(old, e)
  BY DEF PostEvent
<1> HIDE DEF old
<1>4. events' \in Seq(Event) /\ Len(events') = Len(old) + 1 /\ Len(old) \in Nat
  BY <1>2, <1>3, AppendProperties, LenProperties
<1>5. pushed' \in 0 .. MaxEvents /\ behind' \in BOOLEAN
  BY SessionAssumption DEF PostEvent, ChannelOK
<1>6. QED
  BY <1>1, <1>2, <1>4, <1>5 DEF ChannelOK

LEMMA TakeKeeps == ASSUME ChannelOK, NEW e, TakeEvent(e), pushed' = pushed PROVE ChannelOK'
<1>1. events # <<>> /\ events' = Tail(events) /\ behind' = behind
  BY DEF TakeEvent
<1>2. events' \in Seq(Event) /\ Len(events') = Len(events) - 1 /\ Len(events) \in Nat
  BY <1>1, HeadTailProperties, LenProperties DEF ChannelOK
<1>3. QED
  BY <1>1, <1>2, SessionAssumption DEF ChannelOK

LEMMA ChannelStep == ChannelOK /\ [SessionNext]_sessionVars => ChannelOK'
<1>1. SUFFICES ASSUME ChannelOK, [SessionNext]_sessionVars PROVE ChannelOK'
  OBVIOUS
<1>2. CASE \E e \in Event : Receive(e)
  BY <1>1, <1>2, PublishKeeps DEF Receive
<1>3. CASE LinkDown
  BY <1>1, <1>3, PublishKeeps DEF LinkDown, Event
<1>4. CASE Stdin \/ StdinEof \/ Ignored \/ Closed
  BY <1>1, <1>4, TakeKeeps DEF Stdin, StdinEof, Ignored, Closed
<1>5. CASE Lagged
  BY <1>1, <1>5 DEF Lagged, ChannelOK
<1>6. CASE Write \/ (\E s \in ExitCode \cup {Signal} : Exit(s)) \/ ReadPty \/ SendFrame \/ Elapse
  BY <1>1, <1>6 DEF Write, Exit, ReadPty, SendFrame, Elapse, ChannelOK
<1>7. CASE Poll \/ Leave \/ ReportExit \/ CleanUp
  BY <1>1, <1>7 DEF Poll, Leave, ReportExit, CleanUp, ChannelOK
<1>8. CASE UNCHANGED sessionVars
  BY <1>1, <1>8 DEF sessionVars, ChannelOK
<1>9. QED
  BY <1>1, <1>2, <1>3, <1>4, <1>5, <1>6, <1>7, <1>8 DEF SessionNext, Session

\* Output moves from the child to the pty, to a frame, to the link, or is lost.
LEMMA CountsStep == CountsOK /\ [SessionNext]_sessionVars => CountsOK'
<1>1. SUFFICES ASSUME CountsOK, [SessionNext]_sessionVars PROVE CountsOK'
  OBVIOUS
<1>2. MaxOutput \in Nat
  BY SessionAssumption
<1>3. CASE Write
  BY <1>1, <1>2, <1>3 DEF Write, output, CountsOK, Conserved
<1>4. CASE ReadPty
  BY <1>1, <1>2, <1>4 DEF ReadPty, CountsOK, Conserved
<1>5. CASE SendFrame
  BY <1>1, <1>2, <1>5 DEF SendFrame, kernel, CountsOK, Conserved
<1>6. CASE Elapse \/ LinkDown \/ (\E e \in Event : Receive(e)) \/ \E s \in ExitCode \cup {Signal} : Exit(s)
  BY <1>1, <1>6 DEF Elapse, LinkDown, Receive, Exit, kernel, output, CountsOK, Conserved
<1>7. CASE Session
  BY <1>1, <1>7 DEF Session, Stdin, StdinEof, Ignored, Closed, Lagged, Poll, Leave, ReportExit, CleanUp,
                    kernel, output, CountsOK, Conserved
<1>8. CASE UNCHANGED sessionVars
  BY <1>1, <1>8 DEF sessionVars, kernel, output, CountsOK, Conserved
<1>9. QED
  BY <1>1, <1>3, <1>4, <1>5, <1>6, <1>7, <1>8 DEF SessionNext

\* What waitpid() says of a child that has ended is an exit code.
LEMMA CodeOfStatus ==
  ASSUME NEW s \in ExitCode \cup {Signal, NoCode}, s # NoCode
  PROVE  Wexitstatus(s) \in ExitCode \cup {0} /\ Wexitstatus(s) >= 0 /\ Wexitstatus(s) # NoCode
BY SessionAssumption DEF Wexitstatus, Signal, NoCode

LEMMA ScalarsStep == ScalarsOK /\ [SessionNext]_sessionVars => ScalarsOK'
<1>1. SUFFICES ASSUME ScalarsOK, [SessionNext]_sessionVars PROVE ScalarsOK'
  OBVIOUS
<1>2. CASE Write \/ ReadPty \/ SendFrame \/ Elapse \/ LinkDown \/ \E e \in Event : Receive(e)
  BY ZenonT(40), <1>1, <1>2 DEF Write, ReadPty, SendFrame, Elapse, LinkDown, Receive,
                    kernel, output, verdict, ScalarsOK
<1>3. CASE \E s \in ExitCode \cup {Signal} : Exit(s)
  <2>1. PICK s \in ExitCode \cup {Signal} : Exit(s)
    BY <1>3
  <2>2. s # NoCode
    BY SessionAssumption DEF Signal, NoCode
  <2>3. QED
    BY <1>1, <2>1, <2>2 DEF Exit, output, verdict, ScalarsOK
<1>4. CASE Stdin \/ StdinEof \/ Ignored
  BY <1>1, <1>4 DEF Stdin, StdinEof, Ignored, kernel, output, verdict, ScalarsOK
<1>5. CASE Closed \/ Lagged
  BY <1>1, <1>5 DEF Closed, Lagged, GiveUp, kernel, output, ScalarsOK
<1>6. CASE Poll
  <2>1. Wexitstatus(status) \in ExitCode \cup {0}
    BY <1>1, <1>6, CodeOfStatus DEF Poll, ScalarsOK
  <2>2. QED
    BY ZenonT(40), <1>1, <1>6, <2>1 DEF Poll, output, ScalarsOK
<1>7. CASE Leave
  BY <1>1, <1>7 DEF Leave, kernel, output, verdict, ScalarsOK
<1>8. CASE ReportExit
  <2>1. (IF childCode > 0 THEN childCode ELSE 0) \in ExitCode \cup {0}
    BY <1>1 DEF ScalarsOK, NoCode
  <2>2. QED
    BY <1>1, <1>8, <2>1 DEF ReportExit, kernel, output, verdict, ScalarsOK
<1>9. CASE CleanUp
  <2>1. Signal # NoCode
    BY DEF Signal, NoCode
  <2>2. QED
    BY ZenonT(40), <1>1, <1>9, <2>1 DEF CleanUp, output, verdict, ScalarsOK
<1>10. CASE UNCHANGED sessionVars
  BY <1>1, <1>10 DEF sessionVars, kernel, output, verdict, ScalarsOK
<1>11. QED
  BY <1>1, <1>2, <1>3, <1>4, <1>5, <1>6, <1>7, <1>8, <1>9, <1>10 DEF SessionNext, Session

--------------------------------------------------------------------------------
(* The descriptor and the verdict.                                         *)

LEMMA MasterStep == ScalarsOK /\ MasterTracked /\ [SessionNext]_sessionVars => MasterTracked'
<1>1. SUFFICES ASSUME ScalarsOK, MasterTracked, [SessionNext]_sessionVars PROVE MasterTracked'
  OBVIOUS
<1>2. CASE Stdin \/ StdinEof
  BY <1>1, <1>2 DEF Stdin, StdinEof, TakeEvent, Looping, ScalarsOK, MasterTracked
<1>3. CASE CleanUp
  BY <1>1, <1>3 DEF CleanUp, ScalarsOK, MasterTracked
<1>4. CASE Leave \/ ReportExit
  BY <1>1, <1>4 DEF Leave, ReportExit, kernel, MasterTracked
<1>5. CASE Ignored \/ Closed \/ Lagged \/ Poll
  BY <1>1, <1>5 DEF Ignored, Closed, Lagged, Poll, kernel, MasterTracked
<1>6. CASE \/ Write \/ ReadPty \/ SendFrame \/ Elapse \/ LinkDown
           \/ (\E e \in Event : Receive(e)) \/ \E s \in ExitCode \cup {Signal} : Exit(s)
  BY <1>1, <1>6 DEF Write, ReadPty, SendFrame, Elapse, LinkDown, Receive, Exit, kernel, MasterTracked
<1>7. CASE UNCHANGED sessionVars
  BY <1>1, <1>7 DEF sessionVars, kernel, MasterTracked
<1>8. QED
  BY <1>1, <1>2, <1>3, <1>4, <1>5, <1>6, <1>7 DEF SessionNext, Session

\* Being cut off gives a code to a child that has none, and no other.
LEMMA GiveUpHolds ==
  ASSUME ScalarsOK, VerdictTrue, task = "loop", GiveUp, UNCHANGED <<task, child, status, reported>>
  PROVE  VerdictTrue'
<1>1. childExited' /\ cut' /\ childCode' = IF childCode < 0 THEN 0 ELSE childCode
  BY DEF GiveUp
<1>2. childCode \in ExitCode \cup {0, NoCode} /\ ExitCode \subseteq Nat
  BY SessionAssumption DEF ScalarsOK
<1>3. childCode' # NoCode
  BY <1>1, <1>2 DEF NoCode
<1>4. child = "reaped" => childCode' = Wexitstatus(status)
  <2>1. SUFFICES ASSUME child = "reaped" PROVE ~(childCode < 0)
    BY <1>1 DEF VerdictTrue
  <2>2. childCode # NoCode
    BY <2>1 DEF VerdictTrue
  <2>3. QED
    BY <1>2, <2>2 DEF NoCode
<1>5. child # "reaped" => childCode' = 0
  BY <1>1 DEF VerdictTrue, NoCode
<1>6. reported = NoCode
  BY DEF VerdictTrue
<1>7. childExited' = TRUE
  BY DEF GiveUp
<1>8. QED
  BY <1>1, <1>3, <1>4, <1>5, <1>6, <1>7 DEF VerdictTrue

\* A step that leaves the verdict alone.
LEMMA VerdictStays ==
  ASSUME ScalarsOK, VerdictTrue, child' = "reaped" <=> child = "reaped",
         child = "reaped" => status' = status,
         UNCHANGED <<childExited, childCode, cut, reported>>,
         \/ task' = task
         \/ task' # "loop" /\ childExited /\ (reported # NoCode => task' \in {"kill", "done"})
  PROVE  VerdictTrue'
BY DEF VerdictTrue

LEMMA VerdictStep == ScalarsOK /\ VerdictTrue /\ [SessionNext]_sessionVars => VerdictTrue'
<1>1. SUFFICES ASSUME ScalarsOK, VerdictTrue, [SessionNext]_sessionVars PROVE VerdictTrue'
  OBVIOUS
<1>2. CASE Closed \/ Lagged
  BY <1>1, <1>2, GiveUpHolds DEF Closed, Lagged, TakeEvent, Looping, kernel
<1>3. CASE Poll
  <2>1. /\ task = "loop" /\ task' = task /\ child' = "reaped" /\ status' = status /\ reported' = reported
        /\ childCode' = Wexitstatus(status) /\ childExited' = TRUE
    BY <1>3 DEF Poll, Looping
  <2>2. Wexitstatus(status) # NoCode
    BY <1>1, <1>3, CodeOfStatus DEF Poll, ScalarsOK
  <2>3. QED
    BY <1>1, <2>1, <2>2 DEF VerdictTrue
<1>4. CASE ReportExit
  <2>1. /\ task = "flush" /\ task' = "kill"
        /\ UNCHANGED <<child, status, childExited, childCode, cut>>
        /\ reported' = IF up THEN (IF childCode > 0 THEN childCode ELSE 0) ELSE reported
    BY <1>4 DEF ReportExit, kernel, verdict
  <2>2. childCode \in Nat
    <3>1. childCode # NoCode /\ childCode \in ExitCode \cup {0, NoCode}
      BY <1>1, <2>1 DEF VerdictTrue, ScalarsOK
    <3>2. QED
      BY <3>1, SessionAssumption
  <2>3. (IF childCode > 0 THEN childCode ELSE 0) = childCode
    BY <2>2
  <2>4. QED
    BY <1>1, <2>1, <2>3 DEF VerdictTrue
<1>5. CASE Leave
  BY <1>1, <1>5, VerdictStays DEF Leave, LoopOver, kernel, verdict, VerdictTrue
<1>6. CASE CleanUp
  BY <1>1, <1>6, VerdictStays DEF CleanUp, verdict, VerdictTrue
<1>7. CASE Stdin \/ StdinEof \/ Ignored
  BY <1>1, <1>7, VerdictStays DEF Stdin, StdinEof, Ignored, kernel, verdict
<1>8. CASE Write \/ ReadPty \/ SendFrame \/ Elapse \/ LinkDown \/ \E e \in Event : Receive(e)
  BY <1>1, <1>8, VerdictStays DEF Write, ReadPty, SendFrame, Elapse, LinkDown, Receive, kernel, verdict
<1>9. CASE \E s \in ExitCode \cup {Signal} : Exit(s)
  BY <1>1, <1>9, VerdictStays DEF Exit, verdict
<1>10. CASE UNCHANGED sessionVars
  BY <1>1, <1>10, VerdictStays DEF sessionVars, kernel, verdict
<1>11. QED
  BY <1>1, <1>2, <1>3, <1>4, <1>5, <1>6, <1>7, <1>8, <1>9, <1>10 DEF SessionNext, Session

--------------------------------------------------------------------------------
(* The theorems.                                                           *)

LEMMA SessionInitHolds == SessionInit => SessionInv
<1>1. SUFFICES ASSUME SessionInit PROVE SessionInv
  OBVIOUS
<1>2. ChannelOK
  <2>1. Len(events) = 0 /\ events \in Seq(Event)
    BY <1>1 DEF SessionInit
  <2>2. Slots \in Nat /\ MaxEvents \in Nat
    BY SessionAssumption
  <2>3. Len(events) <= Slots /\ 0 \in 0 .. MaxEvents
    BY <2>1, <2>2
  <2>4. QED
    BY <1>1, <2>1, <2>3 DEF SessionInit, ChannelOK
<1>3. ScalarsOK
  BY <1>1 DEF SessionInit, ScalarsOK
<1>4. CountsOK
  BY <1>1, SessionAssumption DEF SessionInit, CountsOK, Conserved
<1>5. MasterTracked /\ VerdictTrue
  BY <1>1 DEF SessionInit, MasterTracked, VerdictTrue
<1>6. QED
  BY <1>2, <1>3, <1>4, <1>5, TypeParts DEF SessionInv

LEMMA SessionStep == SessionInv /\ [SessionNext]_sessionVars => SessionInv'
<1>1. SUFFICES ASSUME SessionInv, [SessionNext]_sessionVars PROVE SessionInv'
  OBVIOUS
<1>2. ChannelOK /\ ScalarsOK /\ CountsOK
  BY <1>1, TypeParts DEF SessionInv
<1>3. ChannelOK' /\ ScalarsOK' /\ CountsOK'
  BY <1>1, <1>2, ChannelStep, ScalarsStep, CountsStep
<1>4. SessionTypeOK' /\ Conserved'
  BY <1>3, TypeParts, PTL
<1>5. MasterTracked' /\ VerdictTrue'
  BY <1>1, <1>2, MasterStep, VerdictStep DEF SessionInv
<1>6. QED
  BY <1>4, <1>5 DEF SessionInv

\* The session's variables keep their types (SessionTypeOK), and no output is delivered
\* that the child has not written.
THEOREM SessionTyped == SessionSpec => []SessionTypeOK
<1>1. SessionInv => SessionTypeOK
  BY DEF SessionInv
<1>2. QED
  BY SessionInitHolds, SessionStep, <1>1, PTL DEF SessionSpec

\* The pty's descriptor is closed once, and not used after (MasterClosedOnce): by the
\* peer's end of input or by the cleanup of handle_link().
THEOREM DescriptorClosedOnce == SessionSpec => []MasterClosedOnce
<1>1. SessionInv => MasterClosedOnce
  BY DEF SessionInv, MasterTracked, MasterClosedOnce
<1>2. QED
  BY SessionInitHolds, SessionStep, <1>1, PTL DEF SessionSpec

\* CMD_EXITED carries the code of the child that was waited for, and zero for one that
\* was not (ExitTruthful).
THEOREM ReportedCodeIsTrue == SessionSpec => []ExitTruthful
<1>1. SessionInv => ExitTruthful
  BY DEF SessionInv, VerdictTrue, ExitTruthful
<1>2. QED
  BY SessionInitHolds, SessionStep, <1>1, PTL DEF SessionSpec

\* A session that was not cut off has waited for its child (NoZombie).
THEOREM ChildIsReaped == SessionSpec => []NoZombie
<1>1. SessionInv => NoZombie
  BY DEF SessionInv, VerdictTrue, NoZombie
<1>2. QED
  BY SessionInitHolds, SessionStep, <1>1, PTL DEF SessionSpec
================================================================================
