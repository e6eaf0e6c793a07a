------------------------------- MODULE RnshSession -------------------------------
(***************************************************************************)
(* One session of the rnsh listener (src/bin/rnsh.rs: handle_link): the    *)
(* task that reads link events and watches the child, the thread that      *)
(* reads the pty, the task that sends its frames, the child, and the peer. *)
(*                                                                         *)
(* The parent keeps its descriptor of the pty's slave side, so a read of   *)
(* the master never meets an end of file: with nothing to read it returns  *)
(* EAGAIN, and the thread sleeps and tries again (no step here).           *)
(***************************************************************************)
EXTENDS Integers, Sequences

CONSTANTS
  ExitCode,   \* exit codes of the child
  Slots,      \* slots of the broadcast channel (external)
  MaxOutput,  \* bound on the chunks the child writes
  MaxEvents   \* bound on the link events of a session, other links' included

ASSUME SessionAssumption ==
  /\ ExitCode \subseteq Nat
  /\ Slots \in Nat \ {0}
  /\ MaxOutput \in Nat /\ MaxEvents \in Nat

VARIABLES
  task,         \* the session task: "loop", "flush", "kill" or "done"
  up,           \* the link is established
  events,       \* link events the session's receiver has not taken
  behind,       \* the receiver has lost events and has not been told
  pushed,       \* number of events so far
  child,        \* "running", "zombie" or "reaped"
  status,       \* how the child ended: a code, Signal, or NoCode
  written,      \* chunks of output the child has written
  ptyOut,       \* chunks of output in the pty
  thread,       \* the reader thread: "reading" or "ended" (thread_fd closed)
  frames,       \* frames in the mpsc channel from the thread to pty_reader
  finished,     \* pty_reader.is_finished()
  delivered,    \* stdout frames put on the link
  masterOpen,   \* master_fd is an open descriptor of this session
  masterClosed, \* the flag master_closed
  misused,      \* history variable: master_fd was used when not open
  childExited, childCode,  \* child_exited, child_code
  late,         \* child_detect.elapsed() > 3 s
  reported,     \* the code of the CMD_EXITED that was sent, or NoCode
  cut           \* history variable: the loop saw Closed or an Err from recv()

kernel == <<child, status, written, ptyOut, masterOpen, misused>>
output == <<thread, frames, finished, delivered>>
verdict == <<childExited, childCode, late, cut>>
sessionVars == <<task, up, events, behind, pushed, kernel, output, masterClosed,
                 verdict, reported>>

NoCode == -1    \* also child_code before there is one
Signal == -2

Event == {"stdin", "stdin eof", "ignored", "closed"}

SessionInit ==
  /\ task = "loop" /\ up = TRUE
  /\ events = <<>> /\ behind = FALSE /\ pushed = 0
  /\ child = "running" /\ status = NoCode /\ written = 0 /\ ptyOut = 0
  /\ thread = "reading" /\ frames = 0 /\ finished = FALSE /\ delivered = 0
  /\ masterOpen = TRUE /\ masterClosed = FALSE /\ misused = FALSE
  /\ childExited = FALSE /\ childCode = NoCode /\ late = FALSE
  /\ reported = NoCode /\ cut = FALSE

--------------------------------------------------------------------------------
(* The peer, other links, and the link.                                    *)

\* The broadcast channel overwrites its oldest event when it is full.
PostEvent(e) ==
  /\ pushed < MaxEvents
  /\ pushed' = pushed + 1
  /\ events' = Append(IF Len(events) < Slots THEN events ELSE Tail(events), e)
  /\ behind' = (behind \/ Len(events) = Slots)

\* "ignored": a window size or other message of this link, a frame whose header
\* does not decode, any event of another link.
Receive(e) ==
  /\ task # "done"
  /\ up \/ e = "ignored"
  /\ e # "closed"
  /\ PostEvent(e)
  /\ UNCHANGED <<task, up, kernel, output, masterClosed, verdict, reported>>

LinkDown ==
  /\ up
  /\ up' = FALSE
  /\ PostEvent("closed")
  /\ UNCHANGED <<task, kernel, output, masterClosed, verdict, reported>>

--------------------------------------------------------------------------------
(* The child.                                                              *)

Write ==
  /\ child = "running"
  /\ written < MaxOutput
  /\ written' = written + 1
  /\ ptyOut' = ptyOut + 1
  /\ UNCHANGED <<task, up, events, behind, pushed, child, status, masterOpen, misused,
                 output, masterClosed, verdict, reported>>

Exit(s) ==
  /\ child = "running"
  /\ child' = "zombie"
  /\ status' = s
  /\ UNCHANGED <<task, up, events, behind, pushed, written, ptyOut, masterOpen, misused,
                 output, masterClosed, verdict, reported>>

--------------------------------------------------------------------------------
(* The thread that reads the pty, and the task pty_reader.                 *)

\* A read returns all there is. The send fails, and the thread closes thread_fd
\* and ends, when pty_reader has dropped its end.
ReadPty ==
  /\ thread = "reading"
  /\ ptyOut > 0
  /\ ptyOut' = 0
  /\ IF finished THEN thread' = "ended" /\ UNCHANGED frames
                 ELSE frames' = frames + ptyOut /\ UNCHANGED thread
  /\ UNCHANGED <<task, up, events, behind, pushed, child, status, written, masterOpen,
                 misused, finished, delivered, masterClosed, verdict, reported>>

\* send_channel fails on a link that is not up, and ends the task.
SendFrame ==
  /\ ~finished
  /\ frames > 0
  /\ IF up THEN frames' = frames - 1 /\ delivered' = delivered + 1 /\ UNCHANGED finished
               ELSE finished' = TRUE /\ frames' = 0 /\ UNCHANGED delivered
  /\ UNCHANGED <<task, up, events, behind, pushed, kernel, thread, masterClosed, verdict,
                 reported>>

--------------------------------------------------------------------------------
(* The session task.                                                       *)

\* Three seconds have passed since child_detect.
Elapse ==
  /\ ~late
  /\ task = "loop"
  /\ late' = TRUE
  /\ UNCHANGED <<task, up, events, behind, pushed, kernel, output, masterClosed,
                 childExited, childCode, cut, reported>>

\* (faulty variant: the drain is waited for without a limit)
LoopOverDrained == childExited /\ finished

\* The loop's condition and its two breaks.
LoopOver == childExited /\ (finished \/ late)

Looping == task = "loop" /\ ~LoopOver

TakeEvent(e) ==
  /\ Looping
  /\ ~behind
  /\ events # <<>> /\ Head(events) = e
  /\ events' = Tail(events)
  /\ UNCHANGED behind

\* libc::write into the pty; how much it takes is not looked at.
Stdin ==
  /\ TakeEvent("stdin")
  /\ misused' = (misused \/ (~masterClosed /\ ~masterOpen))
  /\ UNCHANGED <<task, up, pushed, child, status, written, ptyOut, masterOpen, output,
                 masterClosed, verdict, reported>>

\* (faulty variant: the flag stays down)
StdinEofUnmarked ==
  /\ TakeEvent("stdin eof")
  /\ masterOpen' = FALSE
  /\ misused' = (misused \/ (~masterClosed /\ ~masterOpen))
  /\ UNCHANGED <<task, up, pushed, child, status, written, ptyOut, output, masterClosed,
                 verdict, reported>>

\* The end of the peer's input: master_fd is closed unless it was before.
StdinEof ==
  /\ TakeEvent("stdin eof")
  /\ IF masterClosed
     THEN UNCHANGED <<masterClosed, masterOpen, misused>>
     ELSE /\ masterClosed' = TRUE
          /\ masterOpen' = FALSE
          /\ misused' = (misused \/ ~masterOpen)
  /\ UNCHANGED <<task, up, pushed, child, status, written, ptyOut, output, verdict, reported>>

Ignored ==
  /\ TakeEvent("ignored")
  /\ UNCHANGED <<task, up, pushed, kernel, output, masterClosed, verdict, reported>>

\* (faulty variant: the code is set to zero whether there is one or not)
GiveUpResets ==
  /\ childExited' = TRUE
  /\ childCode' = 0
  /\ cut' = TRUE
  /\ UNCHANGED late

\* child_exited is set as well when the link is gone; the code is then zero,
\* unless there is one already.
GiveUp ==
  /\ childExited' = TRUE
  /\ childCode' = IF childCode < 0 THEN 0 ELSE childCode
  /\ cut' = TRUE
  /\ UNCHANGED late

Closed ==
  /\ TakeEvent("closed")
  /\ GiveUp
  /\ UNCHANGED <<task, up, pushed, kernel, output, masterClosed, reported>>

\* recv() returns Lagged, which is taken for the end of the link.
Lagged ==
  /\ Looping
  /\ behind
  /\ behind' = FALSE
  /\ GiveUp
  /\ UNCHANGED <<task, up, events, pushed, kernel, output, masterClosed, reported>>

\* (faulty variant: the status of a child that died of a signal is taken as it is)
WexitstatusRaw(s) == s

\* WEXITSTATUS of a child that died of a signal is zero.
Wexitstatus(s) == IF s = Signal THEN 0 ELSE s

\* (faulty variant: an exit is taken note of but not waited for)
PollPeeks ==
  /\ Looping
  /\ ~behind /\ events = <<>>
  /\ child = "zombie" /\ ~childExited
  /\ childCode' = Wexitstatus(status)
  /\ childExited' = TRUE
  /\ late' = FALSE
  /\ UNCHANGED <<task, up, events, behind, pushed, kernel, output, masterClosed, cut, reported>>

\* No event for 50 ms: waitpid(WNOHANG). Without an exited child nothing changes.
Poll ==
  /\ Looping
  /\ ~behind /\ events = <<>>
  /\ child = "zombie"
  /\ child' = "reaped"
  /\ childCode' = Wexitstatus(status)
  /\ childExited' = TRUE
  /\ late' = FALSE
  /\ UNCHANGED <<task, up, events, behind, pushed, status, written, ptyOut, masterOpen,
                 misused, output, masterClosed, cut, reported>>

Leave ==
  /\ task = "loop"
  /\ LoopOver
  /\ task' = "flush"
  /\ UNCHANGED <<up, events, behind, pushed, kernel, output, masterClosed, verdict, reported>>

\* After 100 ms CMD_EXITED is sent; an error of send_channel is ignored.
ReportExit ==
  /\ task = "flush"
  /\ task' = "kill"
  /\ reported' = IF up THEN (IF childCode > 0 THEN childCode ELSE 0) ELSE reported
  /\ UNCHANGED <<up, events, behind, pushed, kernel, output, masterClosed, verdict>>

\* kill(SIGKILL), master_fd, link_close.
CleanUp ==
  /\ task = "kill"
  /\ task' = "done"
  /\ up' = FALSE
  /\ IF child = "running" THEN child' = "zombie" /\ status' = Signal
                          ELSE UNCHANGED <<child, status>>
  /\ IF masterClosed
     THEN UNCHANGED <<masterOpen, misused>>
     ELSE masterOpen' = FALSE /\ misused' = (misused \/ ~masterOpen)
  /\ UNCHANGED <<events, behind, pushed, written, ptyOut, output, masterClosed, verdict, reported>>

Session ==
  \/ Stdin \/ StdinEof \/ Ignored \/ Closed \/ Lagged \/ Poll
  \/ Leave \/ ReportExit \/ CleanUp

SessionNext ==
  \/ \E e \in Event : Receive(e)
  \/ LinkDown
  \/ Write \/ \E s \in ExitCode \cup {Signal} : Exit(s)
  \/ ReadPty \/ SendFrame \/ Elapse \/ Session

\* The task is scheduled and time passes; no more is assumed of the child, the
\* peer, the thread or pty_reader.
SessionSpec ==
  /\ SessionInit /\ [][SessionNext]_sessionVars
  /\ WF_sessionVars(Session) /\ WF_sessionVars(Elapse)

--------------------------------------------------------------------------------
SessionTypeOK ==
  /\ task \in {"loop", "flush", "kill", "done"}
  /\ events \in Seq(Event) /\ Len(events) <= Slots
  /\ up \in BOOLEAN /\ behind \in BOOLEAN /\ pushed \in 0 .. MaxEvents
  /\ child \in {"running", "zombie", "reaped"}
  /\ status \in ExitCode \cup {Signal, NoCode} /\ (child = "running") = (status = NoCode)
  /\ written \in 0 .. MaxOutput /\ ptyOut \in 0 .. written
  /\ frames \in 0 .. written /\ delivered \in 0 .. written
  /\ thread \in {"reading", "ended"} /\ finished \in BOOLEAN
  /\ masterOpen \in BOOLEAN /\ masterClosed \in BOOLEAN /\ misused \in BOOLEAN
  /\ childExited \in BOOLEAN /\ late \in BOOLEAN /\ cut \in BOOLEAN
  /\ childCode \in ExitCode \cup {0, NoCode}
  /\ reported \in ExitCode \cup {0, NoCode}

\* "The master fd is closed exactly once": by the peer's end of input or in the
\* cleanup, and it is not written to or closed when it is no longer open.
MasterClosedOnce == ~misused /\ (task = "done" => ~masterOpen)

\* The code the peer is given is that of the child that was waited for, whether
\* the link's end, a lag or the child's exit was seen first.
ExitTruthful ==
  reported # NoCode =>
    reported = IF child = "reaped" THEN Wexitstatus(status) ELSE 0

\* A session that was not cut off leaves no zombie behind and kills no child
\* that could have gone on.
NoZombie == task = "done" /\ ~cut => child = "reaped"

\* Whatever the child does, a session whose link is gone or whose child has
\* exited comes to its end, also when pty_reader never finishes.
SessionEnds == (~up \/ child # "running") ~> task = "done"
================================================================================
