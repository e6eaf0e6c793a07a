------------------------------ MODULE RngitTransfer ------------------------------
(***************************************************************************)
(* Requests and responses of rngit over one Reticulum link: the client     *)
(* (src/bin/rngit/client.rs), which the rngit and git-remote-rns commands  *)
(* share, the server (src/bin/rngit/server.rs) and the packets both build  *)
(* (src/bin/rngit/transfer.rs).                                            *)
(*                                                                         *)
(* What does not fit a packet travels as a resource: it is advertised, its *)
(* receiver asks for parts, a Window at a time, and proves the whole. An   *)
(* advertisement is repeated while no part was asked for; nothing else is. *)
(* A resource is <<r, n>>: the request r itself for n = 0, the response of *)
(* the n-th execution of r else. Its parts are few enough for their hashes *)
(* to fit the advertisement, so that no hashmap update is needed.          *)
(***************************************************************************)
EXTENDS Integers, Sequences, FiniteSets

CONSTANTS
  Nets,             \* kinds of network to consider
  MaxRequests,      \* bound on the requests of the client
  MaxUnordered,     \* the same on an unordered network
  Parts,            \* parts of a resource
  Window,           \* parts a receiver has outstanding (external)
  ClientAdvRetries, \* MAX_ADV_RETRIES of the library (external)
  ServerAdvRetries  \* MAX_ADV_RETRIES of server.rs

ASSUME TransferAssumption ==
  /\ Nets \subseteq {"reliable", "lossy", "unordered"}
  /\ MaxRequests \in Nat \ {0} /\ MaxUnordered \in 0 .. MaxRequests
  /\ Parts \in Nat \ {0} /\ Window \in Nat \ {0}
  /\ ClientAdvRetries \in Nat /\ ServerAdvRetries \in Nat

VARIABLES
  net,        \* the network: in order and lossless, in order, or neither
  c2s, s2c,   \* packets in flight to the server, to the client
  cur,        \* the request the client waits in, 0 if none
  made,       \* requests the client has made
  answered,   \* the execution whose answer request() returned, 0 if none
  failed,     \* why request() failed, if it did
  cOut, cIn,  \* Client::outbound, Client::inbound
  responses,  \* Client::responses: the execution a request's resource comes from
  sOut, sIn,  \* LinkState::outbound, LinkState::inbound
  routing,    \* the request the server has whole and is about to route, 0 if none
  executed,   \* number of times the server has executed a request
  silent      \* history variable: requests the server gave no response to

clientVars == <<cur, made, answered, failed, cOut, cIn, responses>>
serverVars == <<sOut, sIn, routing, executed, silent>>
transferVars == <<net, c2s, s2c, clientVars, serverVars>>

RequestId == 1 .. MaxRequests
No == "no"
Failure == {No, "timed out", "lagged", "no outbound resource"}

Packet(t, res, p) == [type |-> t, res |-> res, parts |-> p]

--------------------------------------------------------------------------------
(* The library's Resource (external), as far as rngit relies on it.        *)

\* Resource::new on the sending side.
Outbound == [sent |-> FALSE, retries |-> 0]

\* The first n of the parts in S.
First(n, S) == {i \in S : Cardinality({j \in S : j < i}) < n}

\* start_receive(): the first window of parts is asked for.
Inbound == [got |-> {}, asked |-> First(Window, 1 .. Parts)]

\* build_request(): parts not yet asked for, as many as the window has room for.
NextParts(in) ==
  First(Window - Cardinality(in.asked \ in.got), (1 .. Parts) \ (in.asked \cup in.got))

Got(in, i) == [in EXCEPT !.got = @ \cup {i}]

Done(in) == in.got = 1 .. Parts

\* handle_request(): the packets that carry the parts p of a resource.
PartPackets(res, p) ==
  [k \in 1 .. Cardinality(p) |->
     Packet("part", res, {CHOOSE i \in p : Cardinality({j \in p : j < i}) = k - 1})]

\* HashMap::insert and remove.
With(f, x, v) == [y \in DOMAIN f \cup {x} |-> IF y = x THEN v ELSE f[y]]
Without(f, x) == [y \in DOMAIN f \ {x} |-> f[y]]

TransferInit ==
  /\ net \in Nets
  /\ c2s = <<>> /\ s2c = <<>>
  /\ cur = 0 /\ made = 0
  /\ answered = [r \in RequestId |-> 0]
  /\ failed = [r \in RequestId |-> No]
  /\ cOut = <<>> /\ cIn = <<>> /\ responses = <<>>
  /\ sOut = <<>> /\ sIn = <<>> /\ routing = 0
  /\ executed = [r \in RequestId |-> 0]
  /\ silent = {}

--------------------------------------------------------------------------------
(* The network.                                                            *)

\* Positions of the packets that may arrive next.
Arriving(chan) == IF net = "unordered" THEN DOMAIN chan ELSE DOMAIN chan \cap {1}

Minus(chan, k) == SubSeq(chan, 1, k - 1) \o SubSeq(chan, k + 1, Len(chan))

Lose ==
  /\ net # "reliable"
  /\ \/ \E k \in Arriving(c2s) : c2s' = Minus(c2s, k) /\ UNCHANGED s2c
     \/ \E k \in Arriving(s2c) : s2c' = Minus(s2c, k) /\ UNCHANGED c2s
  /\ UNCHANGED <<net, clientVars, serverVars>>

--------------------------------------------------------------------------------
(* The client. It reads its link events in request() only, and looks for a *)
(* response resource before each.                                          *)

Return(n) ==
  /\ answered' = [answered EXCEPT ![cur] = n]
  /\ cur' = 0
  /\ UNCHANGED failed

Fail(why) ==
  /\ failed' = [failed EXCEPT ![cur] = why]
  /\ cur' = 0
  /\ UNCHANGED answered

Waiting == UNCHANGED <<cur, answered, failed>>

\* request(): inline if it fits a packet, as a resource if not.
Send(inline) ==
  /\ cur = 0
  /\ made < IF net = "unordered" THEN MaxUnordered ELSE MaxRequests
  /\ LET r == made + 1 IN
     /\ cur' = r /\ made' = r
     /\ IF inline
        THEN c2s' = Append(c2s, Packet("request", <<r, 0>>, {})) /\ UNCHANGED cOut
        ELSE /\ c2s' = Append(c2s, Packet("adv", <<r, 0>>, {}))
             /\ cOut' = With(cOut, <<r, 0>>, Outbound)
  /\ UNCHANGED <<net, s2c, answered, failed, cIn, responses, serverVars>>

\* (faulty variant: parts already asked for do not stop the advertising)
DueForced(out, max) == {h \in DOMAIN out : out[h].retries < max}

\* (faulty variant: there is no end to the retries)
DueForever(out, max) == {h \in DOMAIN out : ~out[h].sent}

\* Resources to advertise again: no part was asked for, and retries are left.
Due(out, max) == {h \in DOMAIN out : ~out[h].sent /\ out[h].retries < max}

Retried(out, due) == [h \in DOMAIN out |-> IF h \in due THEN [out[h] EXCEPT !.retries = @ + 1] ELSE out[h]]

\* A sequence of the advertisements of the resources in hs, in some order.
Advs(hs) ==
  CHOOSE s \in [1 .. Cardinality(hs) -> {Packet("adv", h, {}) : h \in hs}] :
    \A h \in hs : \E k \in DOMAIN s : s[k].res = h

\* retry_advertisements(), every two seconds: also for requests that timed out.
RetryAdvertisements ==
  /\ cur # 0
  /\ LET due == Due(cOut, ClientAdvRetries) IN
     /\ due # {}
     /\ cOut' = Retried(cOut, due)
     /\ c2s' = c2s \o Advs(due)
  /\ UNCHANGED <<net, s2c, cur, made, answered, failed, cIn, responses, serverVars>>

\* A response resource is there.
TakeResponse ==
  /\ cur \in DOMAIN responses
  /\ Return(responses[cur])
  /\ responses' = Without(responses, cur)
  /\ UNCHANGED <<net, c2s, s2c, made, cOut, cIn, serverVars>>

\* The next link event is a packet of type t.
ToClient(k, t) ==
  /\ cur # 0 /\ cur \notin DOMAIN responses
  /\ k \in Arriving(s2c) /\ s2c[k].type = t
  /\ s2c' = Minus(s2c, k)
  /\ UNCHANGED <<net, made, serverVars>>

\* (faulty variant: a response is taken whatever request it answers)
ClientResponseAny(k) ==
  /\ ToClient(k, "response")
  /\ Return(s2c[k].res[2])
  /\ UNCHANGED <<c2s, cOut, cIn, responses>>

ClientResponse(k) ==
  /\ ToClient(k, "response")
  /\ IF s2c[k].res[1] = cur THEN Return(s2c[k].res[2]) ELSE Waiting
  /\ UNCHANGED <<c2s, cOut, cIn, responses>>

\* start_inbound() replaces an inbound resource of the same hash.
ClientAdv(k) ==
  /\ ToClient(k, "adv")
  /\ cIn' = With(cIn, s2c[k].res, Inbound)
  /\ c2s' = Append(c2s, Packet("ask", s2c[k].res, Inbound.asked))
  /\ Waiting
  /\ UNCHANGED <<cOut, responses>>

\* (faulty variant: the resource is taken out of the map and not put back)
ClientAskTakes(k) ==
  /\ ToClient(k, "ask")
  /\ LET h == s2c[k].res IN
     IF h \in DOMAIN cOut
     THEN /\ cOut' = Without(cOut, h)
          /\ c2s' = c2s \o PartPackets(h, s2c[k].parts)
          /\ Waiting
     ELSE Fail("no outbound resource") /\ UNCHANGED <<cOut, c2s>>
  /\ UNCHANGED <<cIn, responses>>

\* process_part_request(), and the error that ends the request if there is no
\* such resource (any more).
ClientAsk(k) ==
  /\ ToClient(k, "ask")
  /\ LET h == s2c[k].res IN
     IF h \in DOMAIN cOut
     THEN /\ cOut' = [cOut EXCEPT ![h].sent = TRUE]
          /\ c2s' = c2s \o PartPackets(h, s2c[k].parts)
          /\ Waiting
     ELSE Fail("no outbound resource") /\ UNCHANGED <<cOut, c2s>>
  /\ UNCHANGED <<cIn, responses>>

\* What a receiver with map in does with part i of h: nothing if it is of no use;
\* if it is the last one, the resource goes and a proof is due; else the next
\* parts are asked for, if the window has room.
Accepts(in, h, i) == h \in DOMAIN in /\ i \notin in[h].got

Completes(in, h, i) == Accepts(in, h, i) /\ Done(Got(in[h], i))

\* (faulty variant: no part is asked for after the first window)
FollowUpNever(in, h, i) == [in EXCEPT ![h] = Got(@, i)]

FollowUp(in, h, i) ==
  LET g == Got(in[h], i) IN
  [in EXCEPT ![h] = [g EXCEPT !.asked = @ \cup NextParts(g)]]

\* The part request that goes with FollowUp.
Asks(in, h, i) ==
  LET p == FollowUp(in, h, i)[h].asked \ in[h].asked IN
  IF p = {} THEN <<>> ELSE <<Packet("ask", h, p)>>

ClientPart(k) ==
  /\ ToClient(k, "part")
  /\ LET h == s2c[k].res
         i == CHOOSE i \in s2c[k].parts : TRUE IN
     IF Completes(cIn, h, i)
     THEN /\ cIn' = Without(cIn, h)
          /\ c2s' = Append(c2s, Packet("proof", h, {}))
          /\ responses' = With(responses, h[1], h[2])
     ELSE /\ IF Accepts(cIn, h, i)
             THEN cIn' = FollowUp(cIn, h, i) /\ c2s' = c2s \o Asks(cIn, h, i)
             ELSE UNCHANGED <<cIn, c2s>>
          /\ UNCHANGED responses
  /\ Waiting
  /\ UNCHANGED cOut

ClientProof(k) ==
  /\ ToClient(k, "proof")
  /\ cOut' = Without(cOut, s2c[k].res)
  /\ Waiting
  /\ UNCHANGED <<c2s, cIn, responses>>

\* Nothing moves any more: all that was sent has arrived and been dealt with.
Quiet ==
  /\ c2s = <<>> /\ s2c = <<>> /\ routing = 0
  /\ cur \notin DOMAIN responses /\ Due(cOut, ClientAdvRetries) = {}

\* The request's deadline. On the reliable network it is long after all that the
\* request has set off. The resource stays in the map.
Timeout ==
  /\ cur # 0
  /\ net = "reliable" => Quiet
  /\ Fail("timed out")
  /\ UNCHANGED <<net, c2s, s2c, made, cOut, cIn, responses, serverVars>>

\* The receiver of link events lags behind.
Lag ==
  /\ net # "reliable"
  /\ cur # 0
  /\ s2c # <<>>
  /\ s2c' = Tail(s2c)
  /\ Fail("lagged")
  /\ UNCHANGED <<net, c2s, made, cOut, cIn, responses, serverVars>>

--------------------------------------------------------------------------------
(* The server: one task for all links, an event or a tick at a time.       *)

ToServer(k, t) ==
  /\ routing = 0
  /\ k \in Arriving(c2s) /\ c2s[k].type = t
  /\ c2s' = Minus(c2s, k)
  /\ UNCHANGED <<net, clientVars, executed, silent>>

\* A request that comes inline is whole.
ServerRequest(k) ==
  /\ ToServer(k, "request")
  /\ routing' = c2s[k].res[1]
  /\ UNCHANGED <<s2c, sOut, sIn>>

\* A request that does not decode, or has an unknown path: no handler runs.
Reject ==
  /\ silent' = silent \cup {routing}
  /\ UNCHANGED <<s2c, sOut, executed>>

\* A handler runs. Its response goes into a packet or a resource, or there is none:
\* the link is busy, the response too long for its packet.
Execute ==
  LET n == executed[routing] + 1 IN
  /\ executed' = [executed EXCEPT ![routing] = n]
  /\ \/ s2c' = Append(s2c, Packet("response", <<routing, n>>, {})) /\ UNCHANGED <<sOut, silent>>
     \/ /\ s2c' = Append(s2c, Packet("adv", <<routing, n>>, {}))
        /\ sOut' = With(sOut, <<routing, n>>, Outbound)
        /\ UNCHANGED silent
     \/ silent' = silent \cup {routing} /\ UNCHANGED <<s2c, sOut>>

\* The rest of the handler of the event that made the request whole.
Route ==
  /\ routing # 0
  /\ Reject \/ Execute
  /\ routing' = 0
  /\ UNCHANGED <<net, c2s, clientVars, sIn>>

ServerAdv(k) ==
  /\ ToServer(k, "adv")
  /\ sIn' = With(sIn, c2s[k].res, Inbound)
  /\ s2c' = Append(s2c, Packet("ask", c2s[k].res, Inbound.asked))
  /\ UNCHANGED <<sOut, routing>>

\* Without such a resource an error is logged.
ServerAsk(k) ==
  /\ ToServer(k, "ask")
  /\ LET h == c2s[k].res IN
     IF h \in DOMAIN sOut
     THEN /\ sOut' = [sOut EXCEPT ![h].sent = TRUE]
          /\ s2c' = s2c \o PartPackets(h, c2s[k].parts)
     ELSE UNCHANGED <<sOut, s2c>>
  /\ UNCHANGED <<sIn, routing>>

\* assemble_and_prove() sends the proof before the request is looked at.
ServerPart(k) ==
  /\ ToServer(k, "part")
  /\ LET h == c2s[k].res
         i == CHOOSE i \in c2s[k].parts : TRUE IN
     IF Completes(sIn, h, i)
     THEN /\ sIn' = Without(sIn, h)
          /\ s2c' = Append(s2c, Packet("proof", h, {}))
          /\ routing' = h[1]
     ELSE /\ IF Accepts(sIn, h, i)
             THEN sIn' = FollowUp(sIn, h, i) /\ s2c' = s2c \o Asks(sIn, h, i)
             ELSE UNCHANGED <<sIn, s2c>>
          /\ UNCHANGED routing
  /\ UNCHANGED sOut

ServerProof(k) ==
  /\ ToServer(k, "proof")
  /\ sOut' = Without(sOut, c2s[k].res)
  /\ UNCHANGED <<s2c, sIn, routing>>

\* tick(): what nobody asks for is advertised again and at last dropped.
Tick ==
  /\ routing = 0
  /\ LET due == Due(sOut, ServerAdvRetries)
         over == {h \in DOMAIN sOut : ~sOut[h].sent} \ due
         kept == Retried(sOut, due) IN
     /\ due \cup over # {}
     /\ over # {} => net # "reliable" \/ Quiet
     /\ sOut' = [h \in DOMAIN sOut \ over |-> kept[h]]
     /\ s2c' = s2c \o Advs(due)
  /\ UNCHANGED <<net, c2s, clientVars, sIn, routing, executed, silent>>

--------------------------------------------------------------------------------
ClientStep ==
  \/ TakeResponse
  \/ \E k \in DOMAIN s2c :
       \/ ClientResponse(k) \/ ClientAdv(k) \/ ClientAsk(k)
       \/ ClientPart(k) \/ ClientProof(k)

ServerStep ==
  \/ Route
  \/ \E k \in DOMAIN c2s :
       \/ ServerRequest(k) \/ ServerAdv(k) \/ ServerAsk(k)
       \/ ServerPart(k) \/ ServerProof(k)

TransferNext ==
  \/ \E inline \in BOOLEAN : Send(inline)
  \/ ClientStep \/ RetryAdvertisements \/ Timeout \/ Lag
  \/ ServerStep \/ Tick
  \/ Lose

\* Both tasks are scheduled, and the deadline comes.
TransferSpec ==
  /\ TransferInit /\ [][TransferNext]_transferVars
  /\ WF_transferVars(ClientStep) /\ WF_transferVars(ServerStep) /\ WF_transferVars(Timeout)

--------------------------------------------------------------------------------
Resource == RequestId \X Nat
Inbounds == [got : SUBSET (1 .. Parts), asked : SUBSET (1 .. Parts)]

TransferTypeOK ==
  /\ net \in Nets
  /\ cur \in 0 .. made /\ made \in 0 .. MaxRequests
  /\ answered \in [RequestId -> Nat] /\ failed \in [RequestId -> Failure]
  /\ \A h \in DOMAIN cOut : h \in RequestId \X {0} /\ cOut[h].retries \in 0 .. ClientAdvRetries
  /\ \A h \in DOMAIN sOut : h \in Resource /\ sOut[h].retries \in 0 .. ServerAdvRetries
  /\ \A h \in DOMAIN cIn : h \in Resource /\ cIn[h] \in Inbounds /\ ~Done(cIn[h])
  /\ \A h \in DOMAIN sIn : h \in RequestId \X {0} /\ sIn[h] \in Inbounds /\ ~Done(sIn[h])
  /\ DOMAIN responses \subseteq RequestId
  /\ routing \in 0 .. made
  /\ executed \in [RequestId -> Nat]
  /\ silent \in SUBSET RequestId

\* A request is executed once although its advertisement may be sent and taken
\* several times, losses included: an advertisement is not repeated once a part
\* was asked for. Nor does a request fail for a part request of a resource that is
\* proved. That the network keeps the order of packets is needed for both.
ExecutedOnce ==
  net # "unordered" =>
    \A r \in RequestId : executed[r] <= 1 /\ failed[r] # "no outbound resource"

\* The server has had the whole of r: it is about to route it, or has executed it, or
\* has rejected it.
HadWhole(r) == routing = r \/ executed[r] > 0 \/ r \in silent

\* In any order of packets, timeouts and all, the client lets go of a request
\* resource only when the server has had the whole of it. (The proof that tells the
\* client so is sent before the request is executed, if it ever is.)
KeptUntilWhole ==
  [][\A h \in DOMAIN cOut \ DOMAIN cOut' : HadWhole(h[1])]_transferVars

\* The commands above see calls: each is executed, answered or given up as RemoteCalls
\* says, whatever becomes of the packets.
Calls == INSTANCE RemoteCalls
         WITH Call <- RequestId, ordered <- net # "unordered", begun <- made, current <- cur,
              executions <- executed, answer <- answered,
              givenUp <- {r \in RequestId : failed[r] # No}

\* What request() returns is an answer to that very request, made by one of its own
\* executions and never by that of one that timed out before; and where packets keep
\* their order, no repeated advertisement and no late part makes the server execute a
\* request again, even one that the client has given up.
CallsSpec == Calls!Spec

\* What request() returns answers this request, never one that timed out before.
AnswerIsMine == \A r \in RequestId : answered[r] <= executed[r]

\* On a network that loses nothing a request is answered, however often its resources
\* are advertised; it fails only by its deadline, and only if the server has had the
\* whole of it and gave no response.
ReliableAnswers ==
  \A r \in RequestId :
    (net = "reliable" /\ cur = r)
      ~> (answered[r] > 0 \/ (failed[r] = "timed out" /\ r \in silent))
================================================================================
