------------------------------ MODULE InstanceRpc ------------------------------
(***************************************************************************)
(* The clients of the shared instance's RPC port: rnpath, the MCP server   *)
(* rnmcp and rnguard's blackholing (src/bin/rnpath.rs, rnmcp.rs,           *)
(* rnguard.rs). The instance serves one request per authenticated          *)
(* connection, so every call dials afresh. A call that is not answered in  *)
(* 30 s is given up, and the instance may still do what it was asked for.  *)
(* The instance is the SDK's: it is modelled from what the clients ask.    *)
(*                                                                         *)
(* A reply is the set of destinations it names; a plain yes is {Asked}.    *)
(* The other contents of the tables and how they are shown are left out.   *)
(***************************************************************************)
EXTENDS Integers, Sequences, FiniteSetsExt

CONSTANTS
  Dest,      \* destinations
  Asked,     \* the one the operations are about
  Clients,   \* the programs, among those below
  Ports,     \* what may listen at the port, see Dial
  MaxJobs,   \* bound on the jobs of all programs: commands, lines, blackholings
  MaxTraffic   \* bound on what the network does to the instance's tables

ASSUME RpcAssumption ==
  /\ Asked \in Dest /\ IsFiniteSet(Dest)
  /\ Clients \subseteq {"rnpath", "rnmcp", "rnguard"}
  /\ Ports \subseteq {"instance", "other key", "no key"}
  /\ MaxJobs \in Nat /\ MaxTraffic \in Nat

VARIABLES
  port,              \* what listens at the port
  paths, blackholed, \* the instance's tables
  flight,            \* requests that are written and not served
  client,            \* what each program is at
  jobs, traffic,
  lines, responses,  \* history variables: what rnmcp has read and said
  outcomes,          \* history variable: what the programs have said they did
  deeds              \* history variable: what the instance did for them

rpcVars == <<port, paths, blackholed, flight, client, jobs, traffic, lines, responses, outcomes,
             deeds>>

\* n: the job, or 0; todo: calls still to make; made: calls made so far.
\* waits: a reply is waited for; reply: <<>>, or what has come.
Idle == [n |-> 0, todo |-> <<>>, made |-> 0, waits |-> FALSE,
         reply |-> <<>>, verdict |-> "none"]

RpcInit ==
  /\ port \in Ports
  /\ paths \in SUBSET Dest /\ blackholed \in SUBSET {Asked}
  /\ flight = {} /\ client = [p \in Clients |-> Idle]
  /\ jobs = 0 /\ traffic = 0 /\ lines = <<>> /\ responses = <<>>
  /\ outcomes = {} /\ deeds = {}

--------------------------------------------------------------------------------
(* The operations: the calls they start with, and the calls a reply leads  *)
(* to. The failure of a call they need is their own; that of another one   *)
(* counts as an empty reply.                                               *)

\* then: the function the reply is handed to, if it leads to further calls.
Call(ask, needed, then) == <<[ask |-> ask, needed |-> needed, then |-> then]>>
Need(ask) == Call(ask, TRUE, "none")
Try(ask) == Call(ask, FALSE, "none")

\* fetch_snr, fetch_rssi
Signal == Try("packet_snr") \o Try("packet_rssi")
PathShown == Try("interfaces") \o Signal

do_table(v) == IF v = {} THEN <<>>
               ELSE Try("interfaces") \o [k \in 1 .. 2 * Cardinality(v) |-> Signal[1 + ((k - 1) % 2)]]
do_rates == Need("rate_table")
do_drop == Need("drop_path")
do_drop_announces == Need("drop_announces")
do_drop_via == Need("drop_via")
do_blackholed == Need("blackholed_identities")
do_blackhole == Need("blackhole_identity")
do_unblackhole == Need("unblackhole_identity")
lookup_path_entry == Call("path_table", FALSE, "do_path_info")
do_path_info(v) == IF Asked \in v THEN PathShown ELSE Call("request_path", TRUE, "path_shown")

\* run(): one operation; validate_args() refuses two, and one without its destination.
Rnpath == [table |-> Call("path_table", TRUE, "do_table"), table_json |-> Need("path_table"), rates |-> do_rates,
           drop |-> do_drop, drop_announces |-> do_drop_announces, drop_via |-> do_drop_via,
           blackholed |-> do_blackholed, blackhole |-> do_blackhole,
           unblackhole |-> do_unblackhole, path_info |-> lookup_path_entry]

get_path_table == Need("path_table")
get_path_info(v) == IF Asked \in v THEN Signal ELSE <<>>
get_rate_table == Need("rate_table")
get_signal_info == Need("packet_snr") \o Need("packet_rssi")
list_blackholed == Need("blackholed_identities")
blackhole_identity == Need("blackhole_identity")
unblackhole_identity == Need("unblackhole_identity")
drop_path == Need("drop_path")
get_metrics == Need("path_table") \o Need("rate_table") \o list_blackholed \o get_signal_info
get_interfaces == Need("interfaces")
sniff_packets == Need("listen")

\* call_tool()
Tools == [get_path_table |-> get_path_table, get_path_info |-> Call("request_path", TRUE, "get_path_info"),
          get_rate_table |-> get_rate_table, get_signal_info |-> get_signal_info,
          list_blackholed |-> list_blackholed, blackhole_identity |-> blackhole_identity,
          unblackhole_identity |-> unblackhole_identity, drop_path |-> drop_path,
          drop_announces |-> Need("drop_announces"), get_metrics |-> get_metrics,
          get_interfaces |-> get_interfaces, sniff_packets |-> sniff_packets]

\* handle_message(): the methods that are answered with a result.
Handled == {"initialize", "tools/list"}

Changes == {"drop_path", "drop_announces", "drop_via", "blackhole_identity", "unblackhole_identity"}

Further(call, v) ==
  CASE call.then = "do_table" -> do_table(v)
    [] call.then = "do_path_info" -> do_path_info(v)
    [] call.then = "path_shown" /\ Asked \in v -> PathShown
    [] call.then = "get_path_info" -> get_path_info(v)
    [] OTHER -> <<>>

Verdict(old, call, v) ==
  CASE call.ask \in Changes -> IF v = {} THEN "not done" ELSE "done"
    [] call.then \in {"do_path_info", "path_shown", "get_path_info"} ->
         IF Asked \in v THEN "found" ELSE "not found"
    [] OTHER -> IF old = "none" THEN "shown" ELSE old

--------------------------------------------------------------------------------
(* Connections.                                                            *)

\* connect_rpc(): the port's owner rejects another key than its own, and has to answer
\* a challenge itself before it is asked for anything.
\* (faulty variant: it is not challenged)
Accepts == port # "other key"
Proves == port = "instance"
ConnectUnproved == Accepts
Connect == Accepts /\ Proves

Instance0 == UNCHANGED <<port, paths, blackholed, traffic, deeds>>
JobEnded(p, c, verdict) ==
  /\ outcomes' = outcomes \cup {[p |-> p, n |-> c.n, verdict |-> verdict]}
  /\ client' = [client EXCEPT ![p] = Idle]
  /\ responses' = IF p = "rnmcp"
                  THEN Append(responses, [n |-> c.n, id |-> TRUE, error |-> verdict = "error"])
                  ELSE responses

\* The call has failed: so has the job if it needs it (the server goes on), else the
\* reply counts as empty.
CallFailed(p) ==
  LET c == client[p] call == Head(c.todo) IN
  IF call.needed THEN JobEnded(p, c, "error")
  ELSE /\ client' = [client EXCEPT ![p].todo = Tail(@) \o Further(call, {}),
                                   ![p].waits = FALSE, ![p].reply = <<>>]
       /\ UNCHANGED <<outcomes, responses>>

\* A fresh connection for the next call, and the request on it.
Dial(p) ==
  LET c == client[p] IN
  /\ c.todo # <<>> /\ ~c.waits
  /\ Connect
  /\ client' = [client EXCEPT ![p].waits = TRUE, ![p].made = @ + 1]
  /\ flight' = flight \cup {[p |-> p, n |-> c.n, call |-> c.made + 1, ask |-> Head(c.todo).ask]}
  /\ Instance0 /\ UNCHANGED <<jobs, lines, responses, outcomes>>

\* Nobody listens, or not the instance; or the connection fails on the way.
DialFails(p) ==
  /\ client[p].todo # <<>> /\ ~client[p].waits
  /\ CallFailed(p)
  /\ Instance0 /\ UNCHANGED <<jobs, lines, flight>>

Answered(p) ==
  LET call == Head(client[p].todo) v == Head(client[p].reply) IN
  /\ client[p].reply # <<>>
  /\ client' = [client EXCEPT ![p].todo = Tail(@) \o Further(call, v), ![p].waits = FALSE,
                              ![p].reply = <<>>, ![p].verdict = Verdict(@, call, v)]
  /\ Instance0 /\ UNCHANGED <<jobs, flight, lines, responses, outcomes>>

\* (faulty variant: the call is made once more)
UnansweredRetried(p) ==
  /\ client[p].waits /\ client[p].made < 3
  /\ client' = [client EXCEPT ![p].waits = FALSE, ![p].reply = <<>>]
  /\ Instance0 /\ UNCHANGED <<jobs, flight, lines, responses, outcomes>>

\* 30 s have passed, the connection was closed, or the reply is not to be read. What
\* would change nothing need not be followed further.
CallUnanswered(p) ==
  /\ client[p].waits
  /\ CallFailed(p)
  /\ flight' = {r \in flight : r.p = p /\ r.call = client[p].made => r.ask \in Changes}
  /\ Instance0 /\ UNCHANGED <<jobs, lines>>

Done(p) ==
  /\ client[p].n > 0 /\ client[p].todo = <<>>
  /\ JobEnded(p, client[p], client[p].verdict)
  /\ Instance0 /\ UNCHANGED <<jobs, lines, flight>>

--------------------------------------------------------------------------------
(* Jobs.                                                                   *)

Job(p, todo) ==
  /\ jobs < MaxJobs /\ jobs' = jobs + 1
  /\ client[p].n = 0
  /\ client' = [client EXCEPT ![p] = [Idle EXCEPT !.n = jobs', !.todo = todo]]
  /\ Instance0 /\ UNCHANGED <<flight, responses, outcomes>>

\* rnpath: a first connection only finds out whether the key is good (resolve_rpc_key).
StartRnpath(op) ==
  /\ "rnpath" \in Clients
  /\ Connect
  /\ Job("rnpath", Rnpath[op])
  /\ UNCHANGED lines

\* Control.blackhole()
StartRnguard ==
  /\ "rnguard" \in Clients
  /\ Job("rnguard", Need("blackhole_identity"))
  /\ UNCHANGED lines

\* handle_message(): a tool is called.
CallTool(tool) ==
  /\ "rnmcp" \in Clients
  /\ Job("rnmcp", Tools[tool])
  /\ lines' = Append(lines, [n |-> jobs', id |-> TRUE, kind |-> "tools/call"])

\* What a client of rnmcp may write: requests have an id, notifications have none.
OtherLines ==
  ((Handled \cup {"other method", "bad call"}) \X {TRUE})
  \cup ({"notifications/initialized", "other method"} \X {FALSE})

\* A line that needs no call: answered with a result, with an error, or not at all.
\* "bad call": without its parameters, of an unknown tool or with bad arguments.
AnswerLine(kind, id) ==
  /\ "rnmcp" \in Clients /\ client["rnmcp"].n = 0
  /\ jobs < MaxJobs /\ jobs' = jobs + 1
  /\ lines' = Append(lines, [n |-> jobs', id |-> id, kind |-> kind])
  /\ responses' = IF kind = "notifications/initialized" THEN responses
                  ELSE Append(responses, [n |-> jobs', id |-> id, error |-> kind \notin Handled])
  /\ Instance0 /\ UNCHANGED <<flight, client, outcomes>>

--------------------------------------------------------------------------------
(* The instance.                                                           *)

InstanceReply(r) ==
  CASE r.ask = "path_table" -> paths
    [] r.ask \in {"request_path", "drop_path"} -> paths \cap {Asked}
    [] r.ask = "drop_announces" -> {Asked}
    [] r.ask = "blackhole_identity" -> {Asked} \ blackholed
    [] r.ask = "unblackhole_identity" -> blackholed
    [] OTHER -> {}

\* What a request changes.
Change(r, v) ==
  /\ paths' = IF r.ask \in {"drop_path", "drop_via"} THEN paths \ v ELSE paths
  /\ blackholed' = CASE r.ask = "blackhole_identity" -> blackholed \cup v
                     [] r.ask = "unblackhole_identity" -> blackholed \ v
                     [] OTHER -> blackholed
  /\ deeds' = IF r.ask \in Changes
              THEN deeds \cup {[p |-> r.p, n |-> r.n, call |-> r.call, changed |-> v # {}]}
              ELSE deeds

\* The requests are served in any order, those of clients that have given up among
\* them. Whoever is not the instance says what it likes.
ServeRequest(r) ==
  /\ r \in flight /\ flight' = flight \ {r}
  /\ \E v \in (IF port # "instance" \/ r.ask = "drop_via" THEN SUBSET Dest ELSE {InstanceReply(r)}) :
       /\ IF port = "instance" THEN v \subseteq paths \cup blackholed \cup {Asked} /\ Change(r, v)
          ELSE UNCHANGED <<paths, blackholed, deeds>>
       /\ client' = IF client[r.p].n = r.n /\ client[r.p].waits /\ client[r.p].made = r.call
                    THEN [client EXCEPT ![r.p].reply = <<v>>] ELSE client
  /\ UNCHANGED <<port, jobs, traffic, lines, responses, outcomes>>

\* An announce brings a path, or one expires; a blackhole expires.
Network ==
  /\ traffic < MaxTraffic /\ traffic' = traffic + 1
  /\ \/ \E d \in Dest : paths' = SymDiff(paths, {d}) /\ UNCHANGED blackholed
     \/ blackholed # {} /\ blackholed' = {} /\ UNCHANGED paths
  /\ UNCHANGED <<port, flight, client, jobs, lines, responses, outcomes, deeds>>

--------------------------------------------------------------------------------
ClientStep(p) == Dial(p) \/ DialFails(p) \/ Answered(p) \/ CallUnanswered(p) \/ Done(p)

RpcNext ==
  \/ \E op \in DOMAIN Rnpath : StartRnpath(op)
  \/ StartRnguard
  \/ \E tool \in DOMAIN Tools : CallTool(tool)
  \/ \E l \in OtherLines : AnswerLine(l[1], l[2])
  \/ \E p \in Clients : ClientStep(p)
  \/ \E r \in flight : ServeRequest(r)
  \/ Network

RpcSpec == RpcInit /\ [][RpcNext]_rpcVars

--------------------------------------------------------------------------------
RpcTypeOK ==
  /\ port \in Ports /\ paths \subseteq Dest /\ blackholed \subseteq {Asked}
  /\ \A p \in Clients :
       /\ client[p].n \in 0 .. jobs
       /\ client[p].waits => client[p].todo # <<>>
       /\ client[p].reply # <<>> => client[p].waits
  /\ \A r \in flight : r.p \in Clients /\ r.n \in 1 .. jobs

\* The jobs that ask something, or that an answer is to.
Asking(s) == {s[k].n : k \in {j \in DOMAIN s : s[j].id}}

\* rnmcp answers every line that asks something, once and in the order of the lines
\* (which are numbered), whatever becomes of the calls.
AnsweredInOrder ==
  "rnmcp" \in Clients =>
    /\ \A j, k \in DOMAIN responses : j < k => responses[j].n < responses[k].n
    /\ Asking(responses) = Asking(lines) \ {client["rnmcp"].n}

\* What a program says it did, or could not do, is what the instance did for it in that
\* job, and nothing was done twice: whatever times out, comes late, is done by another
\* program in between, or listens at the port in the instance's place. And the answers
\* of rnmcp are those of the lines they are taken for.
OutcomeTruthful ==
  /\ \A o \in outcomes :
       /\ o.verdict = "done" => \E d \in deeds : d.p = o.p /\ d.n = o.n /\ d.changed
       /\ o.verdict = "not done" => \E d \in deeds : d.p = o.p /\ d.n = o.n /\ ~d.changed
  /\ \A d, e \in deeds : d.p = e.p /\ d.n = e.n => d = e
  /\ AnsweredInOrder
================================================================================
