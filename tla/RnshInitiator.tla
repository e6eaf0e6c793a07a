----------------------------- MODULE RnshInitiator -----------------------------
(***************************************************************************)
(* The initiator of rnsh (src/bin/rnsh.rs): it finds the listener, brings  *)
(* up a link, shakes hands and then runs two tasks. One reads the standard *)
(* input, looks for escapes and sends the rest in frames; the other shows  *)
(* what the listener sends until its command has exited. The listener is *)
(* RnshListener and RnshSession; here it is a peer that may say anything.  *)
(*                                                                         *)
(* Bytes are classes of bytes. Window sizes, which the listener ignores,   *)
(* are left out. The loops before the session wake up every 100 ms to look *)
(* at the deadline, which may pass at any time.                            *)
(***************************************************************************)
EXTENDS Integers, Sequences, SequencesExt

CONSTANTS
  Input,       \* bytes that are typed, of the classes below
  MaxFrame,    \* data bytes in a frame
  MinPress,    \* least bytes that are worth compressing (32)
  Codes,       \* exit codes of the command
  EventRoom,   \* events the broadcast channel keeps for a receiver
  MaxRead,     \* bound on the bytes of one read (4096)
  MaxTyped,    \* bound on the bytes that are typed
  MaxSaid      \* bound on the blocks of output of the listener

\* newline: CR or LF. erase: BS or DEL. control: a byte that flushes the line.
Bytes == {"newline", "~", ".", "?", "L", "letter", "erase", "control"}
Reads == SeqOf(Input, MaxRead) \ {<<>>}

ASSUME InitiatorAssumption ==
  /\ Input \subseteq Bytes
  /\ MaxFrame \in Nat \ {0} /\ MinPress \in Nat \ {0}
  /\ Codes \subseteq Nat /\ MaxRead \in Nat \ {0}
  /\ EventRoom \in Nat \ {0} /\ MaxTyped \in Nat /\ MaxSaid \in Nat

VARIABLES
  late,        \* what the program was at when the one deadline of all that comes before
               \* the session passed, "no" if it has not
  phase,       \* what the program is at
  identity,    \* where the listener's identity comes from: "none", "announce", "file"
  up,          \* the link: "none", "requested", "up" or "closed"
  events,      \* events the program has not taken
  lagged,      \* an event was overwritten before it was taken
  escape,      \* the EscapeHandler
  stdin,       \* the input task: "off", "read", "send", "eof" or "gone"
  output,      \* bytes the input task still has to send
  wire,        \* bytes it has sent
  disconnect,  \* the flag set by ~.
  status,      \* exit status of the program, -1 while it runs
  said, shown, \* blocks of output: that have arrived, shown here
  owed,        \* history variable: said when the exit of the command arrived, -1 before
  typed,       \* history variable: the bytes of all reads but one that disconnects
  last         \* history variable: the read that disconnected

initiatorVars == <<late, phase, identity, up, events, lagged, escape, stdin, output, wire,
                   disconnect, status, said, shown, owed, typed, last>>

LinkSays(kind, n) == [kind |-> kind, n |-> n]

NewEscape == [newline |-> FALSE, tilde |-> FALSE, mode |-> FALSE, line |-> <<>>, blind |-> 0]

InitiatorInit ==
  /\ late = "no"
  /\ phase = "identity" /\ identity = "none" /\ up = "none"
  /\ events = <<>> /\ lagged = FALSE
  /\ escape = NewEscape /\ stdin = "off" /\ output = <<>> /\ wire = <<>>
  /\ disconnect = FALSE /\ status = -1
  /\ said = 0 /\ shown = <<>> /\ owed = -1
  /\ typed = <<>> /\ last = <<>>

--------------------------------------------------------------------------------
(* EscapeHandler.                                                          *)

Step(h, out, action) == [handler |-> h, out |-> out, action |-> action]

\* flush_line(): the line is sent again, and what was sent of it before is wiped out.
FlushLine(h) ==
  Step([h EXCEPT !.line = <<>>, !.blind = 0],
       h.line \o [k \in 1 .. h.blind |-> "wipe"], "none")

LineByte(h, b) ==
  CASE b = "erase" /\ h.line = <<>> -> Step(h, <<>>, "none")
    [] b = "erase" /\ h.line # <<>> ->
         Step([h EXCEPT !.line = Front(@), !.blind = IF @ = 0 THEN 0 ELSE @ - 1], <<"wipe">>, "none")
    [] b = "control" -> FlushLine([h EXCEPT !.line = Append(@, b)])
    [] OTHER -> Step([h EXCEPT !.line = Append(@, b), !.blind = @ + 1], <<b>>, "none")

\* The byte after an escape's tilde.
EscapeByte(h, b) ==
  CASE b = "." -> Step(h, <<>>, "disconnect")
    [] b = "?" -> Step(h, <<>>, "help")
    [] b = "L" -> Step([h EXCEPT !.mode = ~@], <<>>, "mode")
    [] b = "~" -> Step(h, <<"~">>, "none")
    [] OTHER -> Step(h, <<"~", b>>, "none")

\* (faulty variant: the newline before is forgotten only by a tilde)
ProcessByteSticky(h, b) ==
  IF b = "newline" THEN Step([h EXCEPT !.newline = TRUE], <<b>>, "none")
  ELSE IF h.newline /\ b = "~" THEN Step([h EXCEPT !.newline = FALSE, !.tilde = TRUE], <<>>, "none")
  ELSE IF h.tilde THEN EscapeByte([h EXCEPT !.tilde = FALSE], b)
  ELSE IF h.mode THEN LineByte(h, b)
  ELSE Step(h, <<b>>, "none")

\* process_byte(): a newline is looked at before a tilde that waits is.
ProcessByte(h, b) ==
  IF b = "newline"
  THEN Step([h EXCEPT !.newline = TRUE, !.line = <<>>, !.blind = 0], <<b>>, "none")
  ELSE IF h.newline /\ b = "~" THEN Step([h EXCEPT !.newline = FALSE, !.tilde = TRUE], <<>>, "none")
  ELSE IF h.tilde THEN EscapeByte([h EXCEPT !.tilde = FALSE, !.newline = FALSE], b)
  ELSE IF h.mode THEN LineByte([h EXCEPT !.newline = FALSE], b)
  ELSE Step([h EXCEPT !.newline = FALSE], <<b>>, "none")

\* Nothing is looked at after a disconnect.
NextByte(a, b) ==
  IF a.action = "disconnect" THEN a
  ELSE LET s == ProcessByte(a.handler, b) IN [s EXCEPT !.out = a.out \o @]

\* What each byte of a read leaves, and what all of them do.
AfterBytes(h, read) ==
  LET after[k \in 0 .. Len(read)] ==
        IF k = 0 THEN Step(h, <<>>, "none") ELSE NextByte(after[k - 1], read[k])
  IN after
ProcessRead(h, read) == AfterBytes(h, read)[Len(read)]

--------------------------------------------------------------------------------
(* Finding the listener and shaking hands.                                 *)

Input0 == UNCHANGED <<escape, stdin, output, wire, disconnect, typed, last>>
Peer0 == UNCHANGED <<late, said, owed>>

\* The deadline of 30 s.
DeadlinePasses ==
  /\ phase \in {"identity", "link", "subscribe", "activation", "version"}
  /\ late = "no" /\ late' = phase
  /\ Input0 /\ UNCHANGED <<phase, identity, up, events, lagged, status, said, shown, owed>>

\* The identity is the announce's, or at the deadline the one of the own file; with
\* that one the link is asked for and not waited for, as it is too late for it.
ResolveListenerIdentity ==
  /\ phase = "identity"
  /\ identity' \in {"announce"} \cup (IF late # "no" THEN {"file"} ELSE {})
  /\ phase' = "link"
  /\ Input0 /\ Peer0 /\ UNCHANGED <<up, events, lagged, status, shown>>

\* transport.link(); the events are subscribed to afterwards.
InitiatorLink ==
  /\ phase = "link"
  /\ phase' = "subscribe" /\ up' = "requested"
  /\ Input0 /\ Peer0 /\ UNCHANGED <<identity, events, lagged, status, shown>>

SubscribeEvents ==
  /\ phase = "subscribe"
  /\ phase' = "activation"
  /\ Input0 /\ Peer0 /\ UNCHANGED <<identity, up, events, lagged, status, shown>>

Take(at) ==
  /\ phase = at
  /\ ~lagged /\ events # <<>>
  /\ events' = Tail(events)
  /\ Input0 /\ Peer0 /\ UNCHANGED <<identity, up, lagged>>

\* A bail before the input task was started: an error, and status 1.
Fail == phase' = "over" /\ status' = 1 /\ UNCHANGED shown

\* (faulty variant: the input is read as soon as the link is up)
LinkActivatedReads ==
  /\ phase = "activation" /\ late = "no" /\ ~lagged /\ events # <<>>
  /\ Head(events).kind = "activated"
  /\ events' = Tail(events) /\ phase' = "version" /\ stdin' = "read"
  /\ Peer0 /\ UNCHANGED <<identity, up, lagged, status, shown, escape, output, wire,
                          disconnect, typed, last>>

\* The identity and the version are sent.
LinkActivated ==
  /\ Take("activation") /\ late = "no"
  /\ IF Head(events).kind = "activated" THEN phase' = "version" /\ UNCHANGED <<status, shown>> ELSE Fail

\* Any version will do. The command is sent, the terminal made raw, the input read.
VersionReceived ==
  /\ phase = "version" /\ late = "no" /\ ~lagged /\ events # <<>>
  /\ events' = Tail(events)
  /\ \/ /\ Head(events).kind = "version"
        /\ phase' = "session" /\ stdin' = "read" /\ UNCHANGED <<status, shown>>
     \/ Head(events).kind \in {"error", "closed"} /\ Fail /\ UNCHANGED stdin
     \/ Head(events).kind \notin {"version", "error", "closed"} /\ UNCHANGED <<phase, status, shown, stdin>>
  /\ Peer0 /\ UNCHANGED <<identity, up, lagged, escape, output, wire, disconnect, typed, last>>

\* The deadline, or a receiver that has lagged.
HandshakeFails ==
  /\ phase \in {"activation", "version"}
  /\ late # "no" \/ lagged
  /\ Fail
  /\ Input0 /\ Peer0 /\ UNCHANGED <<identity, up, events, lagged>>

--------------------------------------------------------------------------------
(* The input task.                                                         *)

Stdin(at) ==
  /\ stdin = at /\ phase = "session"
  /\ Peer0 /\ UNCHANGED <<phase, identity, up, events, lagged, status, shown>>

\* A read from the terminal or a pipe. What was typed before ~. in the same read is
\* not sent.
Read(read) ==
  /\ Stdin("read")
  /\ Len(typed) + Len(read) <= MaxTyped
  /\ LET s == ProcessRead(escape, read) IN
     IF s.action = "disconnect"
     THEN /\ disconnect' = TRUE /\ stdin' = "gone" /\ last' = read
          /\ UNCHANGED <<escape, output, typed>>
     ELSE /\ escape' = s.handler /\ output' = s.out
          /\ stdin' = IF s.out = <<>> THEN "read" ELSE "send"
          /\ typed' = typed \o read
          /\ UNCHANGED <<disconnect, last>>
  /\ UNCHANGED wire

\* compress(): of the whole, a half, a third or a quarter of the bytes, some that fit
\* when compressed, or as many as fit as they are.
FrameBytes(n) ==
  {IF n <= MaxFrame THEN n ELSE MaxFrame} \cup {n \div t : t \in {u \in 1 .. 4 : n \div u >= MinPress}}

\* stream_frames() and send_channel(): the next frame.
SendFrame ==
  /\ Stdin("send")
  /\ up = "up"
  /\ \E n \in FrameBytes(Len(output)) :
       /\ wire' = wire \o SubSeq(output, 1, n)
       /\ output' = SubSeq(output, n + 1, Len(output))
       /\ stdin' = IF n = Len(output) THEN "read" ELSE "send"
  /\ UNCHANGED <<escape, disconnect, typed, last>>

\* The link is closed, or the input has ended: the end of the input is sent.
StopReading ==
  /\ Stdin(stdin)
  /\ stdin = "read" \/ (stdin = "send" /\ up = "closed")
  /\ stdin' = IF up = "up" THEN "eof" ELSE "gone"
  /\ UNCHANGED <<escape, output, wire, disconnect, typed, last>>

--------------------------------------------------------------------------------
(* The other task.                                                         *)

Exit(code) == phase' = "over" /\ status' = code

\* The flag is looked at before every event.
Session ==
  /\ ~disconnect
  /\ Take("session")
  /\ LET e == Head(events) IN
     \/ e.kind = "output" /\ shown' = Append(shown, e.n) /\ UNCHANGED <<phase, status>>
     \/ e.kind = "exit" /\ Exit(e.n) /\ UNCHANGED shown
     \/ e.kind \in {"error", "closed"} /\ Exit(0) /\ UNCHANGED shown
     \/ e.kind = "version" /\ UNCHANGED <<phase, status, shown>>

Disconnected ==
  /\ phase = "session" /\ disconnect
  /\ Exit(0)
  /\ Input0 /\ Peer0 /\ UNCHANGED <<identity, up, events, lagged, shown>>

\* (faulty variant: what was lost is passed over, as rnperf does)
LaggedGoesOn ==
  /\ phase = "session" /\ lagged
  /\ lagged' = FALSE
  /\ Input0 /\ Peer0 /\ UNCHANGED <<phase, status, identity, up, events, shown>>

\* An event was lost: the session is given up.
Lagged ==
  /\ phase = "session" /\ lagged
  /\ Exit(0)
  /\ Input0 /\ Peer0 /\ UNCHANGED <<identity, up, events, lagged, shown>>

--------------------------------------------------------------------------------
(* The listener and the link.                                              *)

Program0 == UNCHANGED <<late, phase, identity, status, shown>> /\ Input0

\* The event is posted; a channel that is full loses its oldest.
PostEvent(e) ==
  IF phase \in {"link", "subscribe", "over"} THEN UNCHANGED <<events, lagged>>
  ELSE /\ events' = Append(IF Len(events) = EventRoom THEN Tail(events) ELSE events, e)
       /\ lagged' = (lagged \/ Len(events) = EventRoom)

LinkUp ==
  /\ up = "requested" /\ phase \in {"subscribe", "activation"}
  /\ up' = "up" /\ PostEvent(LinkSays("activated", 0))
  /\ Program0 /\ UNCHANGED <<said, owed>>

LinkClosed ==
  /\ up \in {"requested", "up"}
  /\ up' = "closed" /\ PostEvent(LinkSays("closed", 0))
  /\ Program0 /\ UNCHANGED <<said, owed>>

Say(e) ==
  /\ up = "up" /\ PostEvent(e)
  /\ Program0 /\ UNCHANGED up

\* The listener has shaken hands, or has given up.
SayVersion == phase = "version" /\ Say(LinkSays("version", 0)) /\ UNCHANGED <<said, owed>>
SayError == phase # "activation" /\ Say(LinkSays("error", 0)) /\ UNCHANGED <<said, owed>>

\* Its command runs: the output, some of which may come after the exit.
SayOutput ==
  /\ phase = "session" /\ said < MaxSaid
  /\ said' = said + 1
  /\ Say(LinkSays("output", said'))
  /\ UNCHANGED owed

SayExit(code) ==
  /\ phase = "session" /\ owed = -1
  /\ owed' = said
  /\ Say(LinkSays("exit", code))
  /\ UNCHANGED said

--------------------------------------------------------------------------------
InitiatorNext ==
  \/ DeadlinePasses \/ ResolveListenerIdentity \/ InitiatorLink \/ SubscribeEvents
  \/ LinkActivated \/ VersionReceived \/ HandshakeFails
  \/ \E read \in Reads : Read(read)
  \/ SendFrame \/ StopReading
  \/ Session \/ Disconnected \/ Lagged
  \/ LinkUp \/ LinkClosed
  \/ SayVersion \/ SayError \/ SayOutput \/ \E code \in Codes : SayExit(code)

InitiatorSpec == InitiatorInit /\ [][InitiatorNext]_initiatorVars

--------------------------------------------------------------------------------
InitiatorTypeOK ==
  /\ phase \in {"identity", "link", "subscribe", "activation", "version", "session", "over"}
  /\ identity \in {"none", "announce", "file"}
  /\ up \in {"none", "requested", "up", "closed"}
  /\ Len(events) <= EventRoom
  /\ stdin \in {"off", "read", "send", "eof", "gone"}
  /\ phase \in {"identity", "link", "subscribe", "activation", "version"} => stdin = "off"
  /\ phase = "session" => stdin # "off"
  /\ (stdin = "send") => (output # <<>>)
  /\ escape.blind <= Len(escape.line)
  /\ (phase = "over") <=> (status # -1)
  /\ late \in {"no", "identity", "link", "subscribe", "activation", "version"}

\* What is typed, by the convention of such escapes: a tilde after a newline waits for
\* the next byte; before . ? and L the two are a command and are not sent, before
\* another tilde one is sent, and otherwise it is sent as it is.
Tilde(s, k) == s[k] = "~" /\ k > 1 /\ s[k - 1] = "newline"
Dropped(s, k) ==
  \/ Tilde(s, k) /\ (k = Len(s) \/ s[k + 1] \in {".", "?", "L", "~"})
  \/ k > 1 /\ Tilde(s, k - 1) /\ s[k] \in {".", "?", "L"}

FilteredTo(s) ==
  LET sent[k \in 0 .. Len(s)] ==
        IF k = 0 THEN <<>> ELSE IF Dropped(s, k) THEN sent[k - 1] ELSE Append(sent[k - 1], s[k])
  IN sent
Filtered(s) == FilteredTo(s)[Len(s)]

Quits(s) == \E k \in 1 .. Len(s) - 1 : Tilde(s, k) /\ s[k + 1] = "."

\* Neither line mode nor a newline right after an escape's tilde.
Simple(s) == \A k \in 1 .. Len(s) - 1 : Tilde(s, k) => s[k + 1] \notin {"L", "newline"}

\* However the input falls into reads and the output into frames, the listener gets
\* what was typed without the escapes, in order and once; and the session is given up
\* by an escape ~. and by that only. (process_byte() keeps its state across reads.)
InputFiltered ==
  Simple(typed \o last) =>
    /\ wire \o output = Filtered(typed)
    /\ ~Quits(typed)
    /\ disconnect => Quits(typed \o last)

\* The output that is shown has no gap, even if the program is slower than the output
\* and the event channel overwrites some; and a status the command has returned means
\* that all it had put out by then was shown.
OutputGapFree ==
  /\ shown = [k \in 1 .. Len(shown) |-> k]
  /\ (status \in Codes \ {0, 1}) => (owed # -1 /\ Len(shown) >= owed)

\* "On same-host setups ... we fall back to loading the identity from the local identity
\* file (same file = same keys)": a program that fell back gives up a link that has come
\* up only for what has happened since it was asked for. (The link shares the deadline
\* that must have passed before the file is looked at.)
FallbackServed ==
  [][identity = "file" /\ up = "up" /\ phase \in {"activation", "version"} /\ phase' = "over"
       => \/ lagged \/ late \in {"subscribe", "activation", "version"}
          \/ \E k \in DOMAIN events : events[k].kind \in {"error", "closed"}]_initiatorVars
================================================================================
