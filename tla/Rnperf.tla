--------------------------------- MODULE Rnperf ---------------------------------
(***************************************************************************)
(* rnperf (src/bin/rnperf.rs): initiators that measure the way to one      *)
(* listener, each over a link of its own. The listener's main loop starts  *)
(* a session for each link; all of them read one lossy broadcast channel   *)
(* of link events, each from the place at which it subscribed. Packets of  *)
(* further tests come in on other links; their sessions are not followed.  *)
(*                                                                         *)
(* A channel message is delivered in order or lost. Time is left out: a    *)
(* deadline may have passed whenever the code looks at it.                 *)
(***************************************************************************)
EXTENDS Integers, Sequences, FiniteSets

CONSTANTS
  Initiator,   \* initiators, and their links
  Others,      \* links of further tests
  Capacity,    \* of a receiver's share of the event channel
  MaxPackets,  \* bound on the data packets of a test
  MaxAsks,     \* bound on the requests for the result (20 in 60 s)
  MaxLosses,   \* bound on the messages that are lost, and links that fail
  MaxForeign   \* bound on the messages of other links

Main == "main loop"

ASSUME PerfAssumption ==
  /\ Main \notin Initiator
  /\ Others \cap Initiator = {} /\ MaxForeign \in Nat
  /\ Capacity \in Nat \ {0} /\ MaxPackets \in Nat /\ MaxAsks \in Nat \ {0} /\ MaxLosses \in Nat

VARIABLES
  tester,    \* the initiators: below
  link,      \* "none", "requested", "up" or "closed"
  outgoing,  \* messages on their way to the listener, per link
  incoming,  \* events the initiator has not taken, per link
  queue,     \* events of the listener's side not yet taken, per receiver
  session,   \* the listener's sessions: below
  losses, foreign,
  hurt       \* history variable: links something was lost on, on the way or by a lag

perfVars == <<tester, link, outgoing, incoming, queue, session, losses, foreign, hurt>>

\* outdated: of another protocol version. at: where the program waits. sent, asks:
\* packets and requests so far.
NewTester(old) == [outdated |-> old, at |-> "start", sent |-> 0, asks |-> 0, result |-> "none",
                   packets |-> 0]

\* at: "none", "hello" (handshake), "test" or "over". count: packets_received.
NewSession == [at |-> "none", version |-> FALSE, config |-> FALSE, count |-> 0, answered |-> FALSE]

Message(kind, n) == [kind |-> kind, n |-> n]
Plain(kind) == Message(kind, 0)

PerfInit ==
  /\ tester \in [Initiator -> {NewTester(old) : old \in BOOLEAN}]
  /\ link = [i \in Initiator |-> "none"]
  /\ outgoing = [i \in Initiator |-> <<>>]
  /\ incoming = [i \in Initiator |-> <<>>]
  /\ queue = [r \in Initiator \cup {Main} |-> <<>>]
  /\ session = [i \in Initiator |-> NewSession]
  /\ losses = 0 /\ foreign = 0
  /\ hurt = {}

--------------------------------------------------------------------------------
(* Links and event channels.                                               *)

\* Receivers of the listener's side: the main loop, and sessions that run.
Receiving == {Main} \cup {i \in Initiator : session[i].at \in {"hello", "test"}}

Full(r) == r \in Receiving /\ Len(queue[r]) = Capacity

\* The event is posted to every receiver; one that is behind loses its oldest.
Post(i, m) ==
  /\ queue' = [r \in DOMAIN queue |->
                 IF r \notin Receiving THEN queue[r]
                 ELSE Append(IF Full(r) THEN Tail(queue[r]) ELSE queue[r], [link |-> i, msg |-> m])]
  /\ hurt' = hurt \cup {Head(queue[r]).link : r \in {s \in Receiving : Full(s)}}

\* The link comes up. An initiator that has not subscribed does not see it.
Establish(i) ==
  /\ link[i] = "requested"
  /\ link' = [link EXCEPT ![i] = "up"]
  /\ Post(i, Plain("activated"))
  /\ incoming' = IF tester[i].at = "subscribe" THEN incoming
                 ELSE [incoming EXCEPT ![i] = Append(@, Plain("activated"))]
  /\ UNCHANGED <<tester, outgoing, session, losses, foreign>>

Deliver(i) ==
  /\ outgoing[i] # <<>>
  /\ outgoing' = [outgoing EXCEPT ![i] = Tail(@)]
  /\ Post(i, Head(outgoing[i]))
  /\ UNCHANGED <<tester, link, incoming, session, losses, foreign>>

\* A message of another test.
Foreign(l, kind) ==
  /\ foreign < MaxForeign /\ foreign' = foreign + 1
  /\ Post(l, Plain(kind))
  /\ UNCHANGED <<tester, link, outgoing, incoming, session, losses>>

\* A message in either direction is lost.
Lose(i) ==
  /\ losses < MaxLosses /\ losses' = losses + 1
  /\ hurt' = hurt \cup {i}
  /\ \/ outgoing[i] # <<>> /\ outgoing' = [outgoing EXCEPT ![i] = Tail(@)] /\ UNCHANGED incoming
     \/ incoming[i] # <<>> /\ incoming' = [incoming EXCEPT ![i] = Tail(@)] /\ UNCHANGED outgoing
  /\ UNCHANGED <<tester, link, queue, session, foreign>>

\* The link of an initiator that is gone, or one that has failed, is closed.
Close(i) ==
  /\ link[i] = "up"
  /\ tester[i].at = "over" \/ losses < MaxLosses
  /\ link' = [link EXCEPT ![i] = "closed"]
  /\ Post(i, Plain("closed"))
  /\ incoming' = [incoming EXCEPT ![i] = Append(@, Plain("closed"))]
  /\ losses' = IF tester[i].at = "over" THEN losses ELSE losses + 1
  /\ UNCHANGED <<tester, outgoing, session, foreign>>

--------------------------------------------------------------------------------
(* The initiator.                                                          *)

Send(i, msgs) == outgoing' = [outgoing EXCEPT ![i] = @ \o msgs]
Goto(i, at) == tester' = [tester EXCEPT ![i].at = at]
Over(i, result) == tester' = [tester EXCEPT ![i].at = "over", ![i].result = result]
ListenerIdle == UNCHANGED <<queue, session, losses, foreign, hurt>>

\* The link is asked for before its events are subscribed to.
RequestLink(i) ==
  /\ tester[i].at = "start"
  /\ Goto(i, "subscribe")
  /\ link' = [link EXCEPT ![i] = "requested"]
  /\ ListenerIdle /\ UNCHANGED <<outgoing, incoming>>

Subscribe(i) ==
  /\ tester[i].at = "subscribe"
  /\ Goto(i, "activation")
  /\ ListenerIdle /\ UNCHANGED <<link, outgoing, incoming>>

TakeEvent(i, at) ==
  /\ tester[i].at = at
  /\ incoming[i] # <<>>
  /\ incoming' = [incoming EXCEPT ![i] = Tail(@)]
  /\ ListenerIdle /\ UNCHANGED link

Event(i) == Head(incoming[i]).kind

\* The handshake's deadlines are looked at only after an event: one that is passed
\* over, a proof of a packet say, comes when they have passed.
HandshakeLate(i) ==
  /\ tester[i].at \in {"activation", "version"}
  /\ Over(i, "timed out")
  /\ ListenerIdle /\ UNCHANGED <<link, outgoing, incoming>>

Activated(i) ==
  /\ TakeEvent(i, "activation")
  /\ \/ Event(i) = "activated" /\ Goto(i, "version") /\ Send(i, <<Plain("version")>>)
     \/ Event(i) = "closed" /\ Over(i, "closed") /\ UNCHANGED outgoing

\* The configuration of the test follows the listener's version; an event of
\* another kind is passed over.
Version(i) ==
  /\ TakeEvent(i, "version")
  /\ \/ Event(i) = "version" /\ Goto(i, "data") /\ Send(i, <<Plain("config")>>)
     \/ Event(i) \in {"error", "closed"} /\ Over(i, Event(i)) /\ UNCHANGED outgoing

SendData(i) ==
  /\ tester[i].at = "data" /\ link[i] = "up"
  /\ tester[i].sent < MaxPackets
  /\ tester' = [tester EXCEPT ![i].sent = @ + 1]
  /\ Send(i, <<Plain("data")>>)
  /\ ListenerIdle /\ UNCHANGED <<link, incoming>>

\* The time is up: drain_out_link_events(), and the result is asked for.
AskResult(i) ==
  /\ tester[i].at = "data" /\ link[i] = "up"
  /\ tester' = [tester EXCEPT ![i].at = "result", ![i].asks = 1]
  /\ incoming' = [incoming EXCEPT ![i] = <<>>]
  /\ Send(i, <<Plain("request")>>)
  /\ ListenerIdle /\ UNCHANGED link

AskAgain(i) ==
  /\ tester[i].at = "result" /\ link[i] = "up" /\ tester[i].asks < MaxAsks
  /\ tester' = [tester EXCEPT ![i].asks = @ + 1]
  /\ Send(i, <<Plain("request")>>)
  /\ ListenerIdle /\ UNCHANGED <<link, incoming>>

Result(i) ==
  /\ TakeEvent(i, "result")
  /\ \/ /\ Event(i) = "result"
        /\ tester' = [tester EXCEPT ![i].at = "over", ![i].result = "result",
                                    ![i].packets = Head(incoming[i]).n]
     \/ Event(i) \in {"error", "closed"} /\ Over(i, "no result")
  /\ UNCHANGED outgoing

\* A message cannot be sent on a link that is closed; drained events do not tell.
SendFails(i) ==
  /\ tester[i].at \in {"data", "result"} /\ link[i] = "closed"
  /\ Over(i, "send failed")
  /\ ListenerIdle /\ UNCHANGED <<link, outgoing, incoming>>

\* The ticks of the retries let the deadline be seen.
NoResult(i) ==
  /\ tester[i].at = "result"
  /\ Over(i, "no result")
  /\ ListenerIdle /\ UNCHANGED <<link, outgoing, incoming>>

--------------------------------------------------------------------------------
(* The listener.                                                           *)

TesterIdle == UNCHANGED <<tester, link, outgoing, losses, foreign, hurt>>

\* Main loop: a session gets a receiver of its own, from the end of the channel on.
Accept ==
  /\ queue[Main] # <<>>
  /\ LET e == Head(queue[Main]) IN
     IF e.msg.kind = "activated"
     THEN /\ session' = [session EXCEPT ![e.link].at = IF link[e.link] = "up" THEN "hello" ELSE "over"]
          /\ hurt' = hurt \cup {queue[Main][k].link : k \in 2 .. Len(queue[Main])}
     ELSE UNCHANGED <<session, hurt>>
  /\ queue' = [queue EXCEPT ![Main] = Tail(@)]
  /\ UNCHANGED <<tester, link, outgoing, incoming, losses, foreign>>

\* (faulty variant: packets of every link are counted)
TakesAny(i, e) == TRUE

\* Events of other links are passed over.
Takes(i, e) == e.link = i

Outdated(l) == l \in Initiator /\ tester[l].outdated
Reply(i, m) == incoming' = [incoming EXCEPT ![i] = Append(@, m)]
Ended(s) == [s EXCEPT !.at = "over"]

\* handle_session(), handshake: version and configuration in either order. A peer
\* of another version is told, and the session ends without closing the link. When
\* the deadline is seen to have passed, the session ends too.
Hello(i) ==
  /\ session[i].at = "hello" /\ queue[i] # <<>>
  /\ queue' = [queue EXCEPT ![i] = Tail(@)]
  /\ LET e == Head(queue[i])
         s == session[i]
         kind == IF Takes(i, e) THEN e.msg.kind ELSE "other"
         next == CASE kind = "version" -> [s EXCEPT !.version = TRUE]
                   [] kind = "config" -> [s EXCEPT !.config = TRUE]
                   [] OTHER -> s IN
     \/ /\ kind = "version" /\ Outdated(e.link)
        /\ session' = [session EXCEPT ![i] = Ended(s)] /\ Reply(i, Plain("error"))
     \/ kind = "closed" /\ session' = [session EXCEPT ![i] = Ended(s)] /\ UNCHANGED incoming
     \/ /\ kind # "closed" /\ ~(kind = "version" /\ Outdated(e.link))
        /\ IF next.version /\ next.config
           THEN session' = [session EXCEPT ![i] = [next EXCEPT !.at = "test"]]
           ELSE session' \in {[session EXCEPT ![i] = next], [session EXCEPT ![i] = Ended(next)]}
        /\ IF kind = "version" THEN Reply(i, Plain("version")) ELSE UNCHANGED incoming
  /\ TesterIdle

\* handle_session(), test: packets are counted, every request is answered.
Count(i) ==
  /\ session[i].at = "test" /\ queue[i] # <<>>
  /\ queue' = [queue EXCEPT ![i] = Tail(@)]
  /\ LET e == Head(queue[i])
         s == session[i]
         kind == IF Takes(i, e) THEN e.msg.kind ELSE "other" IN
     \/ kind = "data" /\ session' = [session EXCEPT ![i].count = @ + 1] /\ UNCHANGED incoming
     \/ /\ kind = "request"
        /\ session' = [session EXCEPT ![i].answered = TRUE]
        /\ Reply(i, Message("result", s.count))
     \/ kind = "closed" /\ session' = [session EXCEPT ![i] = Ended(s)] /\ UNCHANGED incoming
     \/ kind \notin {"data", "request", "closed"} /\ UNCHANGED <<session, incoming>>
  /\ TesterIdle

\* The session's time is up: a result nobody asked for, and the link is closed. What
\* is still on its way is lost.
SessionLate(i) ==
  /\ session[i].at = "test"
  /\ tester[i].at \in {"result", "over"}
  /\ session' = [session EXCEPT ![i] = Ended(@)]
  /\ incoming' = [incoming EXCEPT ![i] =
                    @ \o (IF ~session[i].answered /\ session[i].count > 0
                          THEN <<Message("result", session[i].count)>> ELSE <<>>)
                      \o <<Plain("closed")>>]
  /\ link' = [link EXCEPT ![i] = "closed"]
  /\ hurt' = IF outgoing[i] = <<>> /\ queue[i] = <<>> THEN hurt ELSE hurt \cup {i}
  /\ UNCHANGED <<tester, outgoing, queue, losses, foreign>>

--------------------------------------------------------------------------------
Tester(i) ==
  \/ RequestLink(i) \/ Subscribe(i) \/ HandshakeLate(i) \/ Activated(i) \/ Version(i)
  \/ SendData(i) \/ AskResult(i) \/ AskAgain(i) \/ Result(i) \/ SendFails(i) \/ NoResult(i)

PerfNext ==
  \/ \E i \in Initiator :
       \/ Establish(i) \/ Deliver(i) \/ Lose(i) \/ Close(i)
       \/ Tester(i) \/ Hello(i) \/ Count(i) \/ SessionLate(i)
  \/ \E l \in Others, k \in {"version", "data", "request"} : Foreign(l, k)
  \/ Accept

PerfSpec == PerfInit /\ [][PerfNext]_perfVars

--------------------------------------------------------------------------------
PerfTypeOK ==
  /\ \A i \in Initiator :
       /\ tester[i].at \in {"start", "subscribe", "activation", "version", "data", "result", "over"}
       /\ tester[i].sent \in 0 .. MaxPackets /\ tester[i].asks \in 0 .. MaxAsks
       /\ link[i] \in {"none", "requested", "up", "closed"}
       /\ session[i].at \in {"none", "hello", "test", "over"}
  /\ \A r \in Initiator \cup {Main} : Len(queue[r]) <= Capacity
  /\ losses \in 0 .. MaxLosses /\ foreign \in 0 .. MaxForeign
  /\ hurt \subseteq Initiator \cup Others

\* A result an initiator reports counts packets of its own test and no others, and
\* if nothing was lost on its link and no event by a lag, every one of them:
\* however the tests of other initiators and repeated requests come in between.
ResultHonest ==
  \A i \in Initiator :
    tester[i].result = "result" =>
      /\ tester[i].packets <= tester[i].sent
      /\ i \notin hurt => tester[i].packets = tester[i].sent
================================================================================
