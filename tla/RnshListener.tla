------------------------------ MODULE RnshListener ------------------------------
(***************************************************************************)
(* The listening side of rnsh (src/bin/rnsh.rs: listener,                  *)
(* do_version_handshake, auth_required, handshake_complete and the command *)
(* choice at the head of handle_link), with the peers that link to it.     *)
(*                                                                         *)
(* All links share one broadcast channel of link events. The listener is   *)
(* one task: it takes an Activated event and runs that link's handshake    *)
(* inline on the same receiver, so the events of every other link go by    *)
(* while it does. RnshSession models what happens after the handshake.     *)
(***************************************************************************)
EXTENDS Integers, Sequences, FiniteSets

CONSTANTS
  Link,        \* inbound links
  Identity,    \* identities a peer can present
  Cmd,         \* commands a peer can ask for; NoCmd among them
  NoCmd,       \* an empty command
  Allowed,     \* allowed_set(): identities on the allow list
  NoAuth,      \* --no-auth
  LocalCmd,    \* the command on the listener's own command line, or NoCmd
  Shell,       \* $SHELL
  NoRemoteCmd, \* --no-remote-command
  Capacity,    \* slots of the broadcast channel (external)
  Honest,      \* links whose peer is an rnsh initiator with an allowed identity
  MaxMessages, \* bound on the different messages of a peer
  Repeats      \* kinds of message a peer that is not honest sends more than once

ASSUME ListenerAssumption ==
  /\ Allowed \subseteq Identity
  /\ NoAuth \in BOOLEAN /\ NoRemoteCmd \in BOOLEAN
  /\ NoCmd \in Cmd /\ LocalCmd \in Cmd
  /\ Shell # NoCmd
  /\ Capacity \in Nat \ {0}
  /\ Honest \subseteq Link
  /\ MaxMessages \in Nat
  /\ "no link" \notin Link
  /\ Honest # {} => Allowed # {}

VARIABLES
  pc,        \* "accept", "handshake" or "ended" (the process returns)
  queue,     \* events the listener's receiver has not taken yet
  lagged,    \* the receiver has lost events and has not been told yet
  current,   \* the link of the handshake under way
  hs,        \* locals of do_version_handshake: [ver, exec, authed, cmd]
  expired,   \* the 30 s of the handshake under way are over
  session,   \* what each link's session executes, None before there is one
  replied,   \* links the listener sent its VersionInfo to
  refused,   \* links the listener sent an Error to
  linkUp,    \* links that are established
  sent,      \* history variable: events each link has given rise to
  tried      \* history variable: links a handshake was begun for

listenerVars == <<pc, queue, lagged, current, hs, expired, session, replied, refused,
                  linkUp, sent, tried>>

None == "none"
NoLink == "no link"

\* LinkEventData: the link, the kind of LinkEvent, and what it carries.
Ev(l, k, a) == [link |-> l, kind |-> k, arg |-> a]

Payloads ==
  {<<"activated", None>>, <<"version", None>>, <<"otherVersion", None>>,
   <<"error", None>>, <<"closed", None>>}
    \cup {<<"identified", i>> : i \in Identity}
    \cup {<<"exec", c>> : c \in Cmd}

AuthRequired == ~NoAuth /\ Allowed # {}

Fresh == [ver |-> FALSE, exec |-> FALSE, authed |-> ~AuthRequired, cmd |-> NoCmd]

\* (faulty variant: the command completes the handshake, authorized or not)
CompleteUnauthed(h) == h.ver /\ h.exec

\* handshake_complete()
Complete(h) == h.ver /\ h.exec /\ h.authed

\* handle_link's choice of the command (--remote-cmd-as-args appends and is left out).
Chosen(c) ==
  IF NoRemoteCmd /\ LocalCmd # NoCmd THEN LocalCmd
  ELSE IF c # NoCmd THEN c
  ELSE IF LocalCmd # NoCmd THEN LocalCmd
  ELSE Shell

ListenerInit ==
  /\ pc = "accept"
  /\ queue = <<>>
  /\ lagged = FALSE
  /\ current = NoLink
  /\ hs = Fresh
  /\ expired = FALSE
  /\ session = [l \in Link |-> None]
  /\ replied = {}
  /\ refused = {}
  /\ linkUp = {}
  /\ sent = [l \in Link |-> {}]
  /\ tried = {}

--------------------------------------------------------------------------------
(* The peers and the transport: events enter the broadcast channel, which  *)
(* overwrites the oldest one when it is full. The transport is the         *)
(* listener's own and ends with the process.                               *)

Publish(l, k, a) ==
  /\ pc # "ended"
  /\ queue' = Append(IF Len(queue) < Capacity THEN queue ELSE Tail(queue), Ev(l, k, a))
  /\ lagged' = (lagged \/ Len(queue) = Capacity)
  /\ sent' = [sent EXCEPT ![l] = @ \cup {<<k, a>>}]

Activate(l) ==
  /\ sent[l] = {}
  /\ linkUp' = linkUp \cup {l}
  /\ Publish(l, "activated", None)
  /\ UNCHANGED <<pc, current, hs, expired, session, replied, refused, tried>>

\* What the initiator sends next: identity and version, then, once it has the
\* listener's version, its command.
Due(l, k, a) ==
  \/ k = "identified" /\ a \in Allowed /\ sent[l] = {<<"activated", None>>}
  \/ k = "version" /\ \E i \in Allowed : <<"identified", i>> \in sent[l]
  \/ k = "exec" /\ l \in replied /\ \A c \in Cmd : <<"exec", c>> \notin sent[l]

\* A message of a peer; one that is not honest sends anything in any order, and
\* messages of the kinds Repeats again and again.
Send(l, k, a) ==
  /\ l \in linkUp
  /\ k \notin {"activated", "closed"}
  /\ <<k, a>> \in Payloads
  /\ Cardinality(sent[l] \cup {<<k, a>>}) <= MaxMessages + 1
  /\ <<k, a>> \in sent[l] => l \notin Honest /\ k \in Repeats
  /\ l \in Honest => Due(l, k, a)
  /\ Publish(l, k, a)
  /\ UNCHANGED <<pc, current, hs, expired, session, replied, refused, linkUp, tried>>

\* The peer leaves or the link times out.
Close(l) ==
  /\ l \in linkUp
  /\ linkUp' = linkUp \ {l}
  /\ Publish(l, "closed", None)
  /\ UNCHANGED <<pc, current, hs, expired, session, replied, refused, tried>>

--------------------------------------------------------------------------------
(* The listener's task.                                                    *)

\* recv() takes the next event.
Take == ~lagged /\ queue # <<>> /\ queue' = Tail(queue) /\ UNCHANGED lagged

\* recv() returns Lagged, and goes on from the oldest event still there.
TakeLag == lagged /\ lagged' = FALSE /\ UNCHANGED queue

\* The accept loop takes any Err from recv() for the end.
AcceptLagged ==
  /\ pc = "accept"
  /\ TakeLag
  /\ pc' = "ended"
  /\ UNCHANGED <<current, hs, expired, session, replied, refused, linkUp, sent, tried>>

\* get_link() fails for a link that has gone; the handshake is then over.
Accept ==
  /\ pc = "accept"
  /\ Take
  /\ LET e == Head(queue) IN
     /\ e.kind = "activated"
     /\ tried' = tried \cup {e.link}
     /\ IF e.link \in linkUp
        THEN pc' = "handshake" /\ current' = e.link /\ hs' = Fresh
        ELSE UNCHANGED <<pc, current, hs>>
  /\ expired' = FALSE
  /\ UNCHANGED <<session, replied, refused, linkUp, sent>>

AcceptSkips ==
  /\ pc = "accept"
  /\ Take
  /\ Head(queue).kind # "activated"
  /\ UNCHANGED <<pc, current, hs, expired, session, replied, refused, linkUp, sent, tried>>

\* (faulty variant: the deadline of this handshake is left to the next one)
AbandonLate ==
  /\ pc' = "accept" /\ current' = NoLink /\ hs' = Fresh
  /\ UNCHANGED <<expired, session>>

\* An error return of the handshake: logged, and the loop accepts again.
Abandon ==
  /\ pc' = "accept" /\ current' = NoLink /\ hs' = Fresh /\ expired' = FALSE
  /\ UNCHANGED session

\* The end of an iteration of the handshake's loop. A complete handshake, late or
\* not, hands the link to a session task and the loop accepts again. Otherwise the
\* head of the loop looks at the deadline; what is missing decides the message only.
Continue(h) ==
  \/ /\ Complete(h)
     /\ session' = [session EXCEPT ![current] = Chosen(h.cmd)]
     /\ pc' = "accept" /\ current' = NoLink /\ hs' = Fresh /\ expired' = FALSE
  \/ ~Complete(h) /\ expired /\ Abandon
  \/ ~Complete(h) /\ ~expired /\ hs' = h /\ UNCHANGED <<pc, current, expired, session>>

\* An Error message, which send_channel cannot send on a link that has gone.
Refuse == refused' = refused \cup ({current} \cap linkUp)

\* (faulty variant: any link's event counts)
MineAny(k) == pc = "handshake" /\ Take /\ Head(queue).kind = k

\* The handshake takes an event of its own link.
Mine(k) ==
  pc = "handshake" /\ Take /\ Head(queue).kind = k /\ Head(queue).link = current

Identified ==
  /\ Mine("identified")
  /\ IF AuthRequired /\ Head(queue).arg \notin Allowed
     THEN Refuse /\ Abandon
     ELSE Continue([hs EXCEPT !.authed = TRUE]) /\ UNCHANGED refused
  /\ UNCHANGED <<replied, linkUp, sent, tried>>

\* The peer's VersionInfo is answered; send_channel fails on a link that has gone.
Version ==
  /\ Mine("version")
  /\ IF current \in linkUp
     THEN Continue([hs EXCEPT !.ver = TRUE]) /\ replied' = replied \cup {current}
     ELSE Abandon /\ UNCHANGED replied
  /\ UNCHANGED <<refused, linkUp, sent, tried>>

OtherVersion ==
  /\ Mine("otherVersion")
  /\ Refuse /\ Abandon
  /\ UNCHANGED <<replied, linkUp, sent, tried>>

Exec ==
  /\ Mine("exec")
  /\ Continue([hs EXCEPT !.exec = TRUE, !.cmd = Head(queue).arg])
  /\ UNCHANGED <<replied, refused, linkUp, sent, tried>>

\* The peer's Error, a VersionInfo or ExecCmd that does not decode (the same
\* kind here), or the end of the link.
Broken ==
  /\ Mine("error") \/ Mine("closed")
  /\ Abandon
  /\ UNCHANGED <<replied, refused, linkUp, sent, tried>>

\* (faulty variant: the receiver is drained of other links' events before the deadline
\* is looked at)
DiscardAll ==
  /\ pc = "handshake"
  /\ Take
  /\ Head(queue).link # current
  /\ UNCHANGED <<pc, current, hs, expired, session, replied, refused, linkUp, sent, tried>>

\* Another link's event is taken from the channel, and dropped.
Discard ==
  /\ pc = "handshake"
  /\ Take
  /\ Head(queue).link # current
  /\ Continue(hs)
  /\ UNCHANGED <<replied, refused, linkUp, sent, tried>>

HandshakeLagged ==
  /\ pc = "handshake"
  /\ TakeLag
  /\ Abandon
  /\ UNCHANGED <<replied, refused, linkUp, sent, tried>>

\* recv() has found nothing for 500 ms: the iteration ends with what there is.
Tick ==
  /\ pc = "handshake"
  /\ queue = <<>> /\ ~lagged
  /\ expired
  /\ Continue(hs)
  /\ UNCHANGED <<queue, lagged, replied, refused, linkUp, sent, tried>>

\* The 30 s of the handshake go by, wherever its loop is.
Expire ==
  /\ pc = "handshake" /\ ~expired
  /\ expired' = TRUE
  /\ UNCHANGED <<pc, queue, lagged, current, hs, session, replied, refused, linkUp, sent, tried>>

Listen ==
  \/ AcceptLagged \/ Accept \/ AcceptSkips
  \/ Identified \/ Version \/ OtherVersion \/ Exec \/ Broken \/ Discard
  \/ HandshakeLagged \/ Tick

ListenerNext ==
  \/ \E l \in Link : Activate(l) \/ Close(l)
  \/ \E l \in Link, p \in Payloads : Send(l, p[1], p[2])
  \/ Listen
  \/ Expire

\* The listener's task is scheduled and time passes. Nothing says that the channel is
\* ever empty.
ListenerSpec ==
  /\ ListenerInit /\ [][ListenerNext]_listenerVars
  /\ WF_listenerVars(Listen) /\ WF_listenerVars(Expire)

--------------------------------------------------------------------------------
ListenerTypeOK ==
  /\ pc \in {"accept", "handshake", "ended"}
  /\ queue \in Seq([link : Link, kind : {p[1] : p \in Payloads}, arg : {p[2] : p \in Payloads}])
  /\ Len(queue) <= Capacity
  /\ lagged \in BOOLEAN
  /\ current \in Link \cup {NoLink}
  /\ (pc = "handshake") = (current # NoLink)
  /\ expired \in BOOLEAN /\ (expired => pc = "handshake")
  /\ hs \in [ver : BOOLEAN, exec : BOOLEAN, authed : BOOLEAN, cmd : Cmd]
  /\ session \in [Link -> Cmd \cup {Shell, None}]
  /\ replied \subseteq Link /\ refused \subseteq Link /\ linkUp \subseteq Link
  /\ sent \in [Link -> SUBSET Payloads]
  /\ tried \subseteq Link

\* With an allow list no command runs for a link whose own peer has not proved
\* an identity on it, whatever other links identify as while its handshake runs
\* ("`authed` is a full gate, not a hint"). And a peer that was sent an Error gets no
\* session later on: an allowed identity does not make up for one that is not, nor a
\* second version for a first.
AuthGate ==
  \A l \in Link :
    session[l] # None =>
      /\ AuthRequired => \E i \in Allowed : <<"identified", i>> \in sent[l]
      /\ l \notin refused

\* A session executes what its own peer asked for, as the listener's command
\* line overrides it, after a version exchange on that very link.
OwnCommand ==
  \A l \in Link :
    session[l] # None =>
      /\ l \in replied /\ <<"version", None>> \in sent[l]
      /\ \E c \in Cmd : <<"exec", c>> \in sent[l] /\ session[l] = Chosen(c)

\* The deadline is looked at between events only, on a channel that other links may
\* keep full for ever: still every handshake ends and the listener accepts again.
HandshakeEnds == pc = "handshake" ~> pc # "handshake"

\* README: rnsh "listens for connections": every link that comes up is taken by
\* the listener while it lasts.
EveryLinkTried ==
  \A l \in Link : l \in linkUp ~> (l \in tried \/ l \notin linkUp \/ pc = "ended")
================================================================================
