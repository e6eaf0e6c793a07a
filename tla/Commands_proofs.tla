---------------------------- MODULE Commands_proofs ----------------------------
(***************************************************************************)
(* The clients of the instance's RPC port, for any programs, destinations, *)
(* ports, jobs and traffic: that what a program says it did was done,      *)
(* once, and that rnmcp answers its lines in order. The files that rnid    *)
(* reads and writes, for any identities, texts, runs, edits and deaths,    *)
(* and the identity file of all programs, for any number of programs,      *)
(* identities and deaths. And all programs run from a command line         *)
(* together, with what RemoteCommands_proofs proves of the others.         *)
(***************************************************************************)
EXTENDS MCCommands, RemoteCommands_proofs

--------------------------------------------------------------------------------
(* The clients of the RPC port: the inductive invariant.                   *)

Asks == Changes \cup
        {"path_table", "rate_table", "blackholed_identities", "interfaces", "request_path",
         "packet_snr", "packet_rssi", "listen"}
Thens == {"none", "do_table", "do_path_info", "path_shown", "get_path_info"}
Verdicts == {"none", "shown", "found", "not found", "done", "not done", "error"}
Kinds == Handled \cup {"tools/call", "other method", "bad call", "notifications/initialized"}
Calls == [ask : Asks, needed : BOOLEAN, then : Thens]

\* Calls that change nothing, and those that change the instance. A job is made of calls
\* of the first kind, or of one of the second that leads to nothing more.
Queries == {c \in Calls : c.ask \notin Changes}
Orders == {c \in Calls : c.ask \in Changes /\ c.needed /\ c.then = "none"}
Todos == Seq(Queries) \cup {<<c>> : c \in Orders}

ClientType ==
  [n : Nat, todo : Todos, made : Nat, waits : BOOLEAN,
   reply : {<<>>} \cup {<<v>> : v \in SUBSET Dest}, verdict : Verdicts]

\* A client waits for the reply to its next call, and an order is made once.
ClientOK(c) ==
  /\ c \in ClientType
  /\ c.n = 0 => c.todo = <<>>
  /\ c.waits => c.todo # <<>>
  /\ c.reply # <<>> => c.waits
  /\ c.todo # <<>> /\ Head(c.todo).ask \in Changes => c.made = IF c.waits THEN 1 ELSE 0

StateOK ==
  /\ port \in Ports /\ paths \in SUBSET Dest /\ blackholed \in SUBSET {Asked} /\ jobs \in Nat
  /\ client = [p \in Clients |-> client[p]]
  /\ \A p \in Clients : ClientOK(client[p]) /\ client[p].n <= jobs

\* A request in flight is one of those its client has made in that job. The one that is
\* waited for is the client's next call.
RequestOK(r, c) ==
  r.n = c.n => r.call <= c.made /\ (c.waits /\ r.call = c.made => r.ask = Head(c.todo).ask)

FlightOK ==
  \A r \in flight :
    /\ r \in [p : Clients, n : 1 .. jobs, call : Nat \ {0}, ask : Asks]
    /\ port = "instance"
    /\ RequestOK(r, client[r.p])

DeedsOK ==
  \A d \in deeds :
    /\ d \in [p : Clients, n : 1 .. jobs, call : Nat, changed : BOOLEAN]
    /\ d.n = client[d.p].n => client[d.p].made > 0

SameJob(r, d) == r.p = d.p /\ r.n = d.n

\* Of a job there is one order, in flight or done.
OneOrder ==
  /\ \A r, s \in flight : SameJob(r, s) /\ r.ask \in Changes /\ s.ask \in Changes => r = s
  /\ \A r \in flight, d \in deeds : r.ask \in Changes => ~SameJob(r, d)
  /\ \A d, e \in deeds : SameJob(d, e) => d = e

\* The instance has done it for p in job n, and it changed something or not.
Did(p, n, changed) == \E d \in deeds : d.p = p /\ d.n = n /\ d.changed = changed

\* What a verdict means.
Means(p, n, verdict) ==
  /\ verdict = "done" => Did(p, n, TRUE)
  /\ verdict = "not done" => Did(p, n, FALSE)

\* What a client was told, and what it makes of it, is true.
ToldTrue(p, c) ==
  /\ c.reply # <<>> /\ Head(c.todo).ask \in Changes => Did(p, c.n, Head(c.reply) # {})
  /\ Means(p, c.n, c.verdict)

Truthful ==
  /\ \A p \in Clients : ToldTrue(p, client[p])
  /\ \A o \in outcomes : Means(o.p, o.n, o.verdict)

CallsInv == StateOK /\ FlightOK /\ DeedsOK /\ OneOrder /\ Truthful

LineSet(max) == [n : 1 .. max, id : BOOLEAN, kind : Kinds]
AnswerSet(max) == [n : 1 .. max, id : BOOLEAN, error : BOOLEAN]

\* The line rnmcp is at comes after all it has answered.
LinesInv ==
  "rnmcp" \in Clients =>
    /\ lines \in Seq(LineSet(jobs))
    /\ responses \in Seq(AnswerSet(jobs))
    /\ client["rnmcp"].n # 0 =>
         /\ client["rnmcp"].n \in Asking(lines)
         /\ \A k \in DOMAIN responses : responses[k].n < client["rnmcp"].n
    /\ AnsweredInOrder

RpcInv == CallsInv /\ LinesInv

--------------------------------------------------------------------------------
(* The operations.                                                         *)

LEMMA Query ==
  ASSUME NEW ask \in Asks, ask \notin Changes, NEW needed \in BOOLEAN, NEW then \in Thens
  PROVE  Call(ask, needed, then) \in Seq(Queries)
<1>1. [ask |-> ask, needed |-> needed, then |-> then] \in Queries
  BY DEF Queries, Calls
<1>2. QED
  BY <1>1 DEF Call

LEMMA Order ==
  ASSUME NEW ask \in Changes
  PROVE  Need(ask) \in Todos
<1>1. [ask |-> ask, needed |-> TRUE, then |-> "none"] \in Orders
  BY DEF Orders, Calls, Changes, Asks, Thens
<1>2. QED
  BY <1>1 DEF Need, Call, Todos

\* The calls of each operation.
LEMMA RnpathOK == ASSUME NEW op \in DOMAIN Rnpath PROVE Rnpath[op] \in Todos
<1>1. /\ do_rates \in Seq(Queries) /\ do_blackholed \in Seq(Queries)
      /\ lookup_path_entry \in Seq(Queries) /\ Need("path_table") \in Seq(Queries)
      /\ Call("path_table", TRUE, "do_table") \in Seq(Queries)
  BY Query DEF do_rates, do_blackholed, lookup_path_entry, Need, Changes, Asks, Thens
<1>2. /\ do_drop \in Todos /\ do_drop_announces \in Todos /\ do_drop_via \in Todos
      /\ do_blackhole \in Todos /\ do_unblackhole \in Todos
  BY Order DEF do_drop, do_drop_announces, do_drop_via, do_blackhole, do_unblackhole, Changes
<1>3. /\ do_rates \in Todos /\ do_blackholed \in Todos /\ lookup_path_entry \in Todos
      /\ Need("path_table") \in Todos /\ Call("path_table", TRUE, "do_table") \in Todos
  BY <1>1 DEF Todos
<1>4. op \in {"table", "table_json", "rates", "drop", "drop_announces", "drop_via",
            "blackholed", "blackhole", "unblackhole", "path_info"}
  BY DEF Rnpath
<1>5. /\ Rnpath.table \in Todos /\ Rnpath.table_json \in Todos /\ Rnpath.rates \in Todos
      /\ Rnpath.drop \in Todos /\ Rnpath.drop_announces \in Todos /\ Rnpath.drop_via \in Todos
      /\ Rnpath.blackholed \in Todos /\ Rnpath.blackhole \in Todos /\ Rnpath.unblackhole \in Todos
      /\ Rnpath.path_info \in Todos
  BY <1>2, <1>3 DEF Rnpath
<1>6. QED
  BY <1>4, <1>5

LEMMA SignalOK == Signal \in Seq(Queries) /\ PathShown \in Seq(Queries) /\ Len(Signal) = 2
<1>1. Try("packet_snr") \in Seq(Queries) /\ Try("packet_rssi") \in Seq(Queries)
      /\ Try("interfaces") \in Seq(Queries)
  BY Query DEF Try, Changes, Asks, Thens
<1>2. Len(Try("packet_snr")) = 1 /\ Len(Try("packet_rssi")) = 1
  BY DEF Try, Call
<1>3. QED
  BY SMTT(20), <1>1, <1>2, ConcatProperties DEF Signal, PathShown

LEMMA ToolsOK == ASSUME NEW tool \in DOMAIN Tools PROVE Tools[tool] \in Todos
<1>1. /\ get_path_table \in Seq(Queries) /\ get_rate_table \in Seq(Queries)
      /\ list_blackholed \in Seq(Queries) /\ get_interfaces \in Seq(Queries)
      /\ sniff_packets \in Seq(Queries) /\ Call("request_path", TRUE, "get_path_info") \in Seq(Queries)
      /\ Need("path_table") \in Seq(Queries) /\ Need("rate_table") \in Seq(Queries)
      /\ Need("packet_snr") \in Seq(Queries) /\ Need("packet_rssi") \in Seq(Queries)
  BY Query DEF get_path_table, get_rate_table, list_blackholed, get_interfaces, sniff_packets,
               Need, Changes, Asks, Thens
<1>2. get_signal_info \in Seq(Queries)
  BY <1>1, ConcatProperties DEF get_signal_info
<1>3. get_metrics \in Seq(Queries)
  BY <1>1, <1>2, ConcatProperties DEF get_metrics
<1>4. /\ drop_path \in Todos /\ Need("drop_announces") \in Todos
      /\ blackhole_identity \in Todos /\ unblackhole_identity \in Todos
  BY Order DEF drop_path, blackhole_identity, unblackhole_identity, Changes
<1>5. /\ get_path_table \in Todos /\ get_rate_table \in Todos /\ get_signal_info \in Todos
      /\ list_blackholed \in Todos /\ get_interfaces \in Todos /\ sniff_packets \in Todos
      /\ get_metrics \in Todos /\ Call("request_path", TRUE, "get_path_info") \in Todos
  BY <1>1, <1>2, <1>3 DEF Todos
<1>6. tool \in {"get_path_table", "get_path_info", "get_rate_table", "get_signal_info",
              "list_blackholed", "blackhole_identity", "unblackhole_identity", "drop_path",
              "drop_announces", "get_metrics", "get_interfaces", "sniff_packets"}
  BY DEF Tools
<1>7. /\ Tools.get_path_table \in Todos /\ Tools.get_path_info \in Todos /\ Tools.get_rate_table \in Todos
      /\ Tools.get_signal_info \in Todos /\ Tools.list_blackholed \in Todos /\ Tools.blackhole_identity \in Todos
      /\ Tools.unblackhole_identity \in Todos /\ Tools.drop_path \in Todos /\ Tools.drop_announces \in Todos
      /\ Tools.get_metrics \in Todos /\ Tools.get_interfaces \in Todos /\ Tools.sniff_packets \in Todos
  BY <1>4, <1>5 DEF Tools
<1>8. QED
  BY <1>6, <1>7

\* The calls that a reply leads to.
LEMMA FurtherOK ==
  ASSUME NEW call, NEW v \in SUBSET Dest
  PROVE  Further(call, v) \in Seq(Queries)
<1>1. do_table(v) \in Seq(Queries)
  <2>1. CASE v = {}
    BY <2>1 DEF do_table
  <2>2. CASE v # {}
    <3>1. Cardinality(v) \in Nat
      BY RpcAssumption, FS_Subset, FS_CardinalityType DEF RpcAssumption
    <3>2. \A k \in 1 .. 2 * Cardinality(v) : Signal[1 + ((k - 1) % 2)] \in Queries
      <4>1. \A k \in 1 .. 2 * Cardinality(v) : 1 + ((k - 1) % 2) \in 1 .. 2
        BY <3>1
      <4>2. QED
        BY <4>1, SignalOK, ElementOfSeq
    <3>3. [k \in 1 .. 2 * Cardinality(v) |-> Signal[1 + ((k - 1) % 2)]] \in Seq(Queries)
      BY <3>1, <3>2, SeqDef
    <3>4. Try("interfaces") \in Seq(Queries)
      BY Query DEF Try, Changes, Asks, Thens
    <3>5. QED
      BY <2>2, <3>3, <3>4, ConcatProperties DEF do_table
  <2>3. QED
    BY <2>1, <2>2
<1>2. do_path_info(v) \in Seq(Queries) /\ get_path_info(v) \in Seq(Queries)
  <2>1. Call("request_path", TRUE, "path_shown") \in Seq(Queries)
    BY Query DEF Changes, Asks, Thens
  <2>2. QED
    BY <2>1, SignalOK, EmptySeq DEF do_path_info, get_path_info
<1>3. QED
  BY <1>1, <1>2, SignalOK, EmptySeq DEF Further

\* A job makes queries, or is left with one order.
LEMMA TodoIs ==
  ASSUME NEW todo \in Todos, todo # <<>>
  PROVE  /\ Tail(todo) \in Seq(Queries)
         /\ Head(todo).ask \in Asks /\ Head(todo).needed \in BOOLEAN
         /\ Head(todo).ask \in Changes => Head(todo).needed
<1>1. CASE todo \in Seq(Queries)
  BY <1>1, HeadTailProperties DEF Queries, Calls
<1>2. CASE \E c \in Orders : todo = <<c>>
  <2>1. PICK c \in Orders : todo = <<c>>
    BY <1>2
  <2>2. Head(todo) = c /\ Tail(todo) = <<>>
    BY <2>1
  <2>3. QED
    BY <2>2, EmptySeq DEF Orders, Calls
<1>3. QED
  BY <1>1, <1>2 DEF Todos

LEMMA FurtherQueries ==
  ASSUME NEW todo \in Todos, todo # <<>>, NEW v \in SUBSET Dest
  PROVE  Tail(todo) \o Further(Head(todo), v) \in Seq(Queries)
BY TodoIs, FurtherOK, ConcatProperties

LEMMA QueriesOnly ==
  ASSUME NEW todo \in Seq(Queries)
  PROVE  todo \in Todos /\ (todo # <<>> => Head(todo).ask \notin Changes)
BY HeadTailProperties DEF Todos, Queries

--------------------------------------------------------------------------------
(* Steps of one client.                                                    *)

\* What was done stays done.
LEMMA StaysTrue ==
  ASSUME deeds \subseteq deeds'
  PROVE  /\ \A p, n, changed : Did(p, n, changed) => Did(p, n, changed)'
         /\ \A p, n, verdict : Means(p, n, verdict) => Means(p, n, verdict)'
BY DEF Did, Means

LEMMA IdleOK ==
  /\ ClientOK(Idle) /\ Idle.n = 0 /\ Idle.made = 0 /\ ~Idle.waits /\ Idle.reply = <<>>
  /\ Idle.verdict = "none"
<1>1. <<>> \in Todos
  BY EmptySeq, QueriesOnly
<1>2. Idle \in ClientType
  BY <1>1 DEF Idle, ClientType, Verdicts
<1>3. QED
  BY <1>2 DEF Idle, ClientOK

LEMMA ClientUpdates ==
  ASSUME NEW c \in ClientType, NEW n \in Nat, NEW todo \in Todos
  PROVE  /\ [c EXCEPT !.waits = TRUE, !.made = n] \in ClientType
         /\ [c EXCEPT !.n = n, !.todo = todo] \in ClientType
BY DEF ClientType

\* A client that does not wait any more, in the same job or in none; it may have said
\* what it did.
LEMMA NoMoreWaiting ==
  ASSUME CallsInv, NEW p \in Clients, NEW c, ClientOK(c), ~c.waits, c.n <= jobs,
         c.n = 0 \/ (c.n = client[p].n /\ c.made = client[p].made),
         Means(p, c.n, c.verdict), client' = [client EXCEPT ![p] = c],
         UNCHANGED <<port, paths, blackholed, deeds, jobs>>, flight' \subseteq flight,
         \A o \in outcomes' : o \in outcomes \/ Means(o.p, o.n, o.verdict)
  PROVE  CallsInv'
<1>1. /\ StateOK /\ FlightOK /\ DeedsOK /\ OneOrder /\ Truthful
      /\ client'[p] = c /\ \A q \in Clients : q # p => client'[q] = client[q]
  BY DEF CallsInv, StateOK
<1>2. StateOK'
  BY <1>1 DEF StateOK, ClientOK
<1>3. FlightOK'
  <2>1. ASSUME NEW r \in flight' PROVE RequestOK(r, client[r.p])'
    BY <1>1, <2>1 DEF FlightOK, RequestOK
  <2>2. QED
    BY <1>1, <2>1 DEF FlightOK
<1>4. DeedsOK'
  BY <1>1 DEF DeedsOK
<1>5. OneOrder'
  BY <1>1 DEF OneOrder, SameJob
<1>6. Truthful'
  <2>1. c.reply = <<>>
    BY DEF ClientOK
  <2>2. ASSUME NEW q \in Clients PROVE ToldTrue(q, client[q])'
    BY <1>1, <2>1, StaysTrue DEF Truthful, ToldTrue
  <2>3. QED
    BY <1>1, <2>2, StaysTrue DEF Truthful
<1>7. QED
  BY <1>2, <1>3, <1>4, <1>5, <1>6 DEF CallsInv

LEMMA JobIsOver ==
  ASSUME CallsInv, NEW p \in Clients, NEW verdict, Means(p, client[p].n, verdict),
         JobEnded(p, client[p], verdict),
         UNCHANGED <<port, paths, blackholed, deeds, jobs>>, flight' \subseteq flight
  PROVE  CallsInv'
<1>1. \A o \in outcomes' : o \in outcomes \/ Means(o.p, o.n, o.verdict)
  BY DEF JobEnded
<1>2. Means(p, Idle.n, Idle.verdict)
  BY IdleOK DEF Means
<1>3. Idle.n <= jobs
  BY IdleOK DEF CallsInv, StateOK
<1>4. QED
  BY <1>1, <1>2, <1>3, IdleOK, NoMoreWaiting DEF JobEnded

\* The job goes on with the calls that are left.
LEMMA GoesOn ==
  ASSUME CallsInv, NEW p \in Clients, client[p].todo # <<>>, NEW v \in SUBSET Dest,
         NEW verdict \in Verdicts, Means(p, client[p].n, verdict),
         client' = [client EXCEPT ![p] =
                      [client[p] EXCEPT !.todo = Tail(@) \o Further(Head(client[p].todo), v),
                                        !.waits = FALSE, !.reply = <<>>, !.verdict = verdict]],
         UNCHANGED <<port, paths, blackholed, deeds, jobs, outcomes>>, flight' \subseteq flight
  PROVE  CallsInv'
<1> DEFINE todo == Tail(client[p].todo) \o Further(Head(client[p].todo), v)
<1>1. ClientOK(client[p]) /\ client[p].n <= jobs /\ client[p].n # 0
  BY DEF CallsInv, StateOK, ClientOK
<1>2. todo \in Seq(Queries)
  BY <1>1, FurtherQueries DEF ClientOK, ClientType
<1>3. todo \in Todos /\ (todo # <<>> => Head(todo).ask \notin Changes)
  BY <1>2, QueriesOnly
<1> HIDE DEF todo
<1> DEFINE c == [client[p] EXCEPT !.todo = todo, !.waits = FALSE, !.reply = <<>>, !.verdict = verdict]
<1>4. /\ c \in ClientType /\ c.n = client[p].n /\ c.made = client[p].made /\ ~c.waits
      /\ c.reply = <<>> /\ c.todo = todo /\ c.verdict = verdict
  BY <1>1, <1>3 DEF ClientOK, ClientType
<1>5. client' = [client EXCEPT ![p] = c]
  BY DEF todo
<1> HIDE DEF c
<1>6. ClientOK(c)
  BY <1>1, <1>3, <1>4 DEF ClientOK
<1>7. QED
  BY <1>1, <1>4, <1>5, <1>6, NoMoreWaiting

LEMMA Failed ==
  ASSUME CallsInv, NEW p \in Clients, client[p].todo # <<>>, CallFailed(p),
         UNCHANGED <<port, paths, blackholed, deeds, jobs>>, flight' \subseteq flight
  PROVE  CallsInv'
<1>1. CASE Head(client[p].todo).needed
  <2>1. JobEnded(p, client[p], "error")
    BY <1>1 DEF CallFailed
  <2>2. Means(p, client[p].n, "error")
    BY DEF Means
  <2>3. QED
    BY <2>1, <2>2, JobIsOver
<1>2. CASE ~Head(client[p].todo).needed
  <2>1. client[p].verdict \in Verdicts /\ Means(p, client[p].n, client[p].verdict)
    BY DEF CallsInv, StateOK, ClientOK, ClientType, Truthful, ToldTrue
  <2>2. client[p] \in ClientType /\ client = [q \in Clients |-> client[q]]
    BY DEF CallsInv, StateOK, ClientOK
  <2>3. /\ UNCHANGED outcomes
        /\ client' = [client EXCEPT ![p] =
             [client[p] EXCEPT !.todo = Tail(@) \o Further(Head(client[p].todo), {}),
                               !.waits = FALSE, !.reply = <<>>]]
    BY <1>2, <2>2 DEF CallFailed, ClientType
  <2>4. client' = [client EXCEPT ![p] =
          [client[p] EXCEPT !.todo = Tail(@) \o Further(Head(client[p].todo), {}),
                            !.waits = FALSE, !.reply = <<>>, !.verdict = client[p].verdict]]
    BY <2>2, <2>3 DEF ClientType
  <2>5. QED
    BY <2>1, <2>3, <2>4, GoesOn
<1>3. QED
  BY <1>1, <1>2

LEMMA AnsweredStep ==
  ASSUME CallsInv, NEW p \in Clients, Answered(p)
  PROVE  CallsInv'
<1> DEFINE call == Head(client[p].todo)
           v == Head(client[p].reply)
<1>1. ClientOK(client[p]) /\ client[p].reply # <<>> /\ client[p].todo # <<>> /\ ToldTrue(p, client[p])
  BY DEF CallsInv, StateOK, ClientOK, Truthful, Answered
<1>2. v \in SUBSET Dest
  BY <1>1 DEF ClientOK, ClientType
<1>3. client[p] \in ClientType /\ client = [q \in Clients |-> client[q]]
  BY <1>1 DEF CallsInv, StateOK, ClientOK
<1>4. client' = [client EXCEPT ![p] =
        [client[p] EXCEPT !.todo = Tail(@) \o Further(call, v), !.waits = FALSE, !.reply = <<>>,
                          !.verdict = Verdict(client[p].verdict, call, v)]]
  BY <1>3 DEF Answered, ClientType
<1>5. Verdict(client[p].verdict, call, v) \in Verdicts
  BY <1>3 DEF ClientType, Verdict, Verdicts
<1>6. Means(p, client[p].n, Verdict(client[p].verdict, call, v))
  <2>1. CASE call.ask \in Changes
    <3>1. Did(p, client[p].n, v # {})
      BY <1>1, <2>1 DEF ToldTrue
    <3>2. QED
      BY <2>1, <3>1 DEF Verdict, Means, Did
  <2>2. CASE call.ask \notin Changes
    BY <1>1, <2>2 DEF Verdict, Means, ToldTrue
  <2>3. QED
    BY <2>1, <2>2
<1>7. UNCHANGED <<port, paths, blackholed, deeds, jobs, outcomes, flight>>
  BY DEF Answered, Instance0
<1>8. QED
  BY <1>1, <1>2, <1>4, <1>5, <1>6, <1>7, GoesOn

\* A new job has a number that no request and no deed has.
LEMMA Started ==
  ASSUME CallsInv, NEW p \in Clients, NEW todo \in Todos, Job(p, todo)
  PROVE  CallsInv'
<1>1. StateOK /\ FlightOK /\ DeedsOK /\ OneOrder /\ Truthful /\ jobs \in Nat /\ jobs' = jobs + 1
  BY DEF CallsInv, StateOK, Job
<1>2. UNCHANGED <<port, paths, blackholed, deeds, flight, outcomes>>
  BY DEF Job, Instance0
<1> DEFINE c == [Idle EXCEPT !.n = jobs', !.todo = todo]
<1>a. Idle \in ClientType /\ jobs' \in Nat
  BY <1>1, IdleOK DEF ClientOK
<1>b. c \in ClientType
  BY <1>a, ClientUpdates
<1>3. /\ c \in ClientType /\ c.n = jobs' /\ ~c.waits /\ c.reply = <<>> /\ c.made = 0
      /\ c.verdict = "none" /\ c.todo = todo
  BY <1>a, <1>b, IdleOK DEF ClientType
<1>4. client' = [client EXCEPT ![p] = c]
  BY DEF Job
<1> HIDE DEF c
<1>5. client'[p] = c /\ \A q \in Clients : q # p => client'[q] = client[q]
  BY <1>1, <1>4 DEF StateOK
<1>6. StateOK'
  <2>1. ClientOK(c)
    BY <1>1, <1>3 DEF ClientOK
  <2>2. ASSUME NEW q \in Clients PROVE ClientOK(client[q])' /\ client'[q].n <= jobs'
    <3>1. CASE q = p
      BY <1>1, <1>3, <1>5, <2>1, <3>1
    <3>2. CASE q # p
      BY <1>1, <1>5, <3>2 DEF StateOK, ClientOK, ClientType
    <3>3. QED
      BY <3>1, <3>2
  <2>3. QED
    BY <1>1, <1>2, <1>4, <2>2 DEF StateOK
<1>7. FlightOK'
  <2>1. ASSUME NEW r \in flight PROVE RequestOK(r, client'[r.p])
    BY <1>1, <1>3, <1>5, <2>1 DEF FlightOK, RequestOK
  <2>2. QED
    BY <1>1, <1>2, <2>1 DEF FlightOK
<1>8. DeedsOK'
  BY <1>1, <1>2, <1>3, <1>5 DEF DeedsOK
<1>9. OneOrder'
  BY <1>1, <1>2 DEF OneOrder, SameJob
<1>10. Truthful'
  <2>1. ASSUME NEW q \in Clients PROVE ToldTrue(q, client[q])'
    <3>1. CASE q = p
      BY <1>3, <1>5, <3>1 DEF ToldTrue, Means
    <3>2. CASE q # p
      BY <1>1, <1>2, <1>5, <3>2, StaysTrue DEF Truthful, ToldTrue
    <3>3. QED
      BY <3>1, <3>2
  <2>2. QED
    BY <1>1, <1>2, <2>1, StaysTrue DEF Truthful
<1>11. QED
  BY <1>6, <1>7, <1>8, <1>9, <1>10 DEF CallsInv

\* The first request of a job that is an order has no other of its job before it.
LEMMA Dialled ==
  ASSUME CallsInv, NEW p \in Clients, Dial(p)
  PROVE  CallsInv'
<1>1. StateOK /\ FlightOK /\ DeedsOK /\ OneOrder /\ Truthful
  BY DEF CallsInv
<1>2. ClientOK(client[p]) /\ client[p].n \in 1 .. jobs /\ client[p].todo # <<>> /\ ~client[p].waits
  BY <1>1 DEF StateOK, Dial, ClientOK, ClientType
<1>a. client[p] \in ClientType /\ client[p].made \in Nat /\ client[p].reply = <<>>
  BY <1>2 DEF ClientOK, ClientType
<1> DEFINE c == [client[p] EXCEPT !.waits = TRUE, !.made = @ + 1]
           new == [p |-> p, n |-> client[p].n, call |-> client[p].made + 1,
                   ask |-> Head(client[p].todo).ask]
<1>3. /\ c \in ClientType /\ c.n = client[p].n /\ c.todo = client[p].todo /\ c.waits
      /\ c.made = client[p].made + 1 /\ c.reply = <<>> /\ c.verdict = client[p].verdict
  <2>1. c \in ClientType
    <3>1. client[p].made + 1 \in Nat
      BY <1>a
    <3>2. QED
      BY <1>a, <3>1, ClientUpdates DEF ClientType
  <2>2. QED
    BY <1>a, <2>1 DEF ClientType
<1>4. client' = [client EXCEPT ![p] = c] /\ flight' = flight \cup {new}
  <2>1. client = [q \in Clients |-> client[q]] /\ client[p] \in ClientType
    BY <1>1, <1>2 DEF StateOK, ClientOK
  <2>2. QED
    BY <2>1 DEF Dial, ClientType
<1>5. UNCHANGED <<port, paths, blackholed, deeds, jobs, outcomes>> /\ port = "instance"
  BY DEF Dial, Instance0, Connect, Proves
<1> HIDE DEF c
<1>6. client'[p] = c /\ \A q \in Clients : q # p => client'[q] = client[q]
  BY <1>1, <1>4 DEF StateOK
<1>7. new \in [p : Clients, n : 1 .. jobs, call : Nat \ {0}, ask : Asks]
  BY <1>2, TodoIs DEF ClientOK, ClientType
<1>8. /\ new.p = p /\ new.n = client[p].n /\ new.call = c.made
      /\ new.ask = Head(c.todo).ask
  BY <1>3
<1> HIDE DEF new
<1>9. new.ask \in Changes =>
        (\A r \in flight : ~SameJob(r, new)) /\ (\A d \in deeds : ~SameJob(d, new))
  <2>1. SUFFICES ASSUME new.ask \in Changes
                 PROVE  (\A r \in flight : ~SameJob(r, new)) /\ (\A d \in deeds : ~SameJob(d, new))
    OBVIOUS
  <2>2. client[p].made = 0
    BY <1>2, <1>3, <1>8, <2>1 DEF ClientOK
  <2>3. \A r \in flight : ~SameJob(r, new)
    BY <1>1, <1>8, <2>2 DEF FlightOK, RequestOK, SameJob
  <2>4. \A d \in deeds : ~SameJob(d, new)
    BY <1>1, <1>8, <2>2 DEF DeedsOK, SameJob
  <2>5. QED
    BY <2>3, <2>4
<1>10. StateOK'
  <2>1. ClientOK(c) /\ c.n <= jobs
    BY <1>2, <1>3 DEF ClientOK, ClientType
  <2>2. QED
    BY <1>1, <1>4, <1>5, <1>6, <2>1 DEF StateOK, ClientOK
<1>11. FlightOK'
  <2>1. RequestOK(new, c)
    BY <1>2, <1>3, <1>8 DEF RequestOK, ClientOK, ClientType
  <2>2. ASSUME NEW r \in flight, r.p = p PROVE RequestOK(r, c)
    BY <1>1, <1>2, <1>3, <2>2 DEF FlightOK, RequestOK, ClientOK, ClientType
  <2>3. QED
    BY <1>1, <1>4, <1>5, <1>6, <1>7, <1>8, <2>1, <2>2 DEF FlightOK
<1>12. DeedsOK'
  BY <1>1, <1>2, <1>3, <1>5, <1>6 DEF DeedsOK, ClientOK, ClientType
<1>13. OneOrder'
  BY <1>1, <1>4, <1>5, <1>9 DEF OneOrder, SameJob
<1>14. Truthful'
  <2>1. ASSUME NEW q \in Clients PROVE ToldTrue(q, client[q])'
    <3>1. CASE q = p
      BY <1>1, <1>3, <1>5, <1>6, <3>1, StaysTrue DEF Truthful, ToldTrue
    <3>2. CASE q # p
      BY <1>1, <1>5, <1>6, <3>2, StaysTrue DEF Truthful, ToldTrue
    <3>3. QED
      BY <3>1, <3>2
  <2>2. QED
    BY <1>1, <1>5, <2>1, StaysTrue DEF Truthful
<1>15. QED
  BY <1>10, <1>11, <1>12, <1>13, <1>14 DEF CallsInv

--------------------------------------------------------------------------------
(* Steps of the instance and of the network.                               *)

\* The instance does it, and tells the client if that still waits for it.
LEMMA Served ==
  ASSUME CallsInv, NEW r \in flight, ServeRequest(r)
  PROVE  CallsInv'
<1>1. /\ StateOK /\ FlightOK /\ DeedsOK /\ OneOrder /\ Truthful /\ port = "instance"
      /\ r \in [p : Clients, n : 1 .. jobs, call : Nat \ {0}, ask : Asks]
      /\ RequestOK(r, client[r.p])
  BY DEF CallsInv, FlightOK
<1>2. Asked \in Dest
  BY RpcAssumption DEF RpcAssumption
<1>3. PICK v \in SUBSET Dest :
        /\ Change(r, v) /\ (r.ask = "blackhole_identity" => v \subseteq {Asked})
        /\ client' = IF client[r.p].n = r.n /\ client[r.p].waits /\ client[r.p].made = r.call
                     THEN [client EXCEPT ![r.p].reply = <<v>>] ELSE client
  <2>1. InstanceReply(r) \in SUBSET Dest
    BY <1>1, <1>2 DEF InstanceReply, StateOK
  <2>2. r.ask = "blackhole_identity" => InstanceReply(r) \subseteq {Asked} /\ r.ask # "drop_via"
    BY DEF InstanceReply
  <2>3. QED
    BY <1>1, <2>1, <2>2 DEF ServeRequest
<1>4. flight' = flight \ {r} /\ UNCHANGED <<port, jobs, outcomes>>
  BY DEF ServeRequest
<1> DEFINE deed == [p |-> r.p, n |-> r.n, call |-> r.call, changed |-> v # {}]
           hears == client[r.p].n = r.n /\ client[r.p].waits /\ client[r.p].made = r.call
<1>c. PICK c : c = [client[r.p] EXCEPT !.reply = <<v>>]
  OBVIOUS
<1>5. deeds \subseteq deeds' /\ deeds' \subseteq deeds \cup {deed} /\ (r.ask \in Changes => deed \in deeds')
      /\ (r.ask \notin Changes => deeds' = deeds)
  BY <1>3 DEF Change
<1>6. /\ deed \in [p : Clients, n : 1 .. jobs, call : Nat, changed : BOOLEAN]
      /\ deed.p = r.p /\ deed.n = r.n /\ deed.changed = (v # {})
  BY <1>1
<1> HIDE DEF deed
<1>7. ClientOK(client[r.p]) /\ client[r.p].n <= jobs
  BY <1>1 DEF StateOK
<1>8. /\ c \in ClientType /\ c.n = client[r.p].n /\ c.todo = client[r.p].todo
      /\ c.made = client[r.p].made /\ c.waits = client[r.p].waits
      /\ c.verdict = client[r.p].verdict /\ c.reply = <<v>>
  BY <1>7, <1>c DEF ClientOK, ClientType
<1>9. client' = IF hears THEN [client EXCEPT ![r.p] = c] ELSE client
  <2>1. client = [q \in Clients |-> client[q]] /\ client[r.p] \in ClientType
    BY <1>1, <1>7 DEF StateOK, ClientOK
  <2>2. QED
    BY <1>3, <1>c, <2>1 DEF ClientType
<1>10. /\ \A q \in Clients : client'[q] = client[q] \/ (hears /\ q = r.p /\ client'[q] = c)
       /\ client' = [q \in Clients |-> client'[q]]
  BY <1>1, <1>9 DEF StateOK
<1>11. \A q \in Clients : /\ client'[q].n = client[q].n /\ client'[q].todo = client[q].todo
                          /\ client'[q].made = client[q].made /\ client'[q].waits = client[q].waits
                          /\ client'[q].verdict = client[q].verdict
  BY <1>8, <1>10
<1>12. StateOK'
  <2>1. hears => ClientOK(c)
    BY <1>7, <1>8 DEF ClientOK
  <2>2. paths' \in SUBSET Dest /\ blackholed' \in SUBSET {Asked}
    BY <1>1, <1>3 DEF Change, StateOK
  <2>3. QED
    BY <1>1, <1>4, <1>10, <1>11, <2>1, <2>2 DEF StateOK
<1>13. FlightOK'
  BY <1>1, <1>4, <1>11 DEF FlightOK, RequestOK
<1>14. DeedsOK'
  <2>1. deed.n = client[deed.p].n => client[deed.p].made > 0
    BY <1>1, <1>6, <1>7 DEF RequestOK, ClientOK, ClientType
  <2>2. QED
    BY <1>1, <1>4, <1>5, <1>6, <1>11, <2>1 DEF DeedsOK
<1>15. OneOrder'
  BY <1>1, <1>4, <1>5, <1>6 DEF OneOrder, SameJob
<1>16. Truthful'
  <2>1. ASSUME NEW q \in Clients PROVE ToldTrue(q, client[q])'
    <3>1. CASE client'[q] = client[q]
      BY <1>1, <1>5, <3>1, StaysTrue DEF Truthful, ToldTrue
    <3>2. CASE hears /\ q = r.p /\ client'[q] = c
      <4>1. Means(q, c.n, c.verdict)'
        BY <1>1, <1>5, <1>8, <3>2, StaysTrue DEF Truthful, ToldTrue
      <4>2. Head(c.todo).ask \in Changes => Did(q, c.n, v # {})'
        BY <1>1, <1>5, <1>6, <1>8, <3>2 DEF RequestOK, Did
      <4>3. QED
        BY <1>8, <3>2, <4>1, <4>2 DEF ToldTrue
    <3>3. QED
      BY <1>10, <3>1, <3>2
  <2>2. QED
    BY <1>1, <1>4, <1>5, <2>1, StaysTrue DEF Truthful
<1>17. QED
  BY <1>12, <1>13, <1>14, <1>15, <1>16 DEF CallsInv

\* What the calls rest on is left as it is.
LEMMA CallsKept ==
  ASSUME CallsInv, UNCHANGED <<port, flight, client, outcomes, deeds>>,
         paths' \in SUBSET Dest, blackholed' \in SUBSET {Asked}, jobs' \in Nat, jobs <= jobs'
  PROVE  CallsInv'
<1>1. StateOK /\ FlightOK /\ DeedsOK /\ OneOrder /\ Truthful /\ jobs \in Nat
  BY DEF CallsInv, StateOK
<1>2. StateOK'
  BY <1>1 DEF StateOK, ClientOK, ClientType
<1>3. FlightOK'
  BY <1>1 DEF FlightOK, RequestOK
<1>4. DeedsOK'
  BY <1>1 DEF DeedsOK
<1>5. OneOrder'
  BY <1>1 DEF OneOrder, SameJob
<1>6. Truthful'
  BY <1>1, StaysTrue DEF Truthful, ToldTrue
<1>7. QED
  BY <1>2, <1>3, <1>4, <1>5, <1>6 DEF CallsInv

LEMMA CallsInit == RpcInit => CallsInv
<1>1. SUFFICES ASSUME RpcInit PROVE CallsInv
  OBVIOUS
<1>2. StateOK
  <2>1. client = [p \in Clients |-> Idle] /\ jobs = 0 /\ Idle.n <= jobs
    BY <1>1, IdleOK DEF RpcInit
  <2>2. port \in Ports /\ paths \in SUBSET Dest /\ blackholed \in SUBSET {Asked}
    BY <1>1 DEF RpcInit
  <2>3. QED
    BY <2>1, <2>2, IdleOK DEF StateOK
<1>3. FlightOK /\ DeedsOK /\ OneOrder
  BY <1>1 DEF RpcInit, FlightOK, DeedsOK, OneOrder
<1>4. Truthful
  BY <1>1, IdleOK DEF RpcInit, Truthful, ToldTrue, Means
<1>5. QED
  BY <1>2, <1>3, <1>4 DEF CallsInv

\* One step for each action.
LEMMA CallsStep == ASSUME CallsInv, [RpcNext]_rpcVars PROVE CallsInv'
<1>0. /\ paths \in SUBSET Dest /\ blackholed \in SUBSET {Asked} /\ jobs \in Nat
      /\ client = [p \in Clients |-> client[p]]
      /\ \A p \in Clients : ClientOK(client[p]) /\ ToldTrue(p, client[p])
  BY DEF CallsInv, StateOK, Truthful
<1>1. CASE \E op \in DOMAIN Rnpath : StartRnpath(op)
  BY <1>1, RnpathOK, Started DEF StartRnpath
<1>2. CASE StartRnguard
  <2>1. Need("blackhole_identity") \in Todos
    BY Order DEF Changes
  <2>2. QED
    BY <1>2, <2>1, Started DEF StartRnguard
<1>3. CASE \E tool \in DOMAIN Tools : CallTool(tool)
  BY <1>3, ToolsOK, Started DEF CallTool
<1>4. CASE \E l \in OtherLines : AnswerLine(l[1], l[2])
  BY <1>0, <1>4, CallsKept DEF AnswerLine, Instance0
<1>5. ASSUME NEW p \in Clients, ClientStep(p) PROVE CallsInv'
  <2>1. CASE Dial(p)
    BY <2>1, Dialled
  <2>2. CASE DialFails(p)
    BY <2>2, Failed DEF DialFails, Instance0
  <2>3. CASE Answered(p)
    BY <2>3, AnsweredStep
  <2>4. CASE CallUnanswered(p)
    <3>1. client[p].todo # <<>>
      BY <1>0, <2>4 DEF CallUnanswered, ClientOK
    <3>2. QED
      BY <2>4, <3>1, Failed DEF CallUnanswered, Instance0
  <2>5. CASE Done(p)
    <3>1. Means(p, client[p].n, client[p].verdict)
      BY <1>0 DEF ToldTrue
    <3>2. QED
      BY <2>5, <3>1, JobIsOver DEF Done, Instance0
  <2>6. QED
    BY <1>5, <2>1, <2>2, <2>3, <2>4, <2>5 DEF ClientStep
<1>6. CASE \E r \in flight : ServeRequest(r)
  BY <1>6, Served
<1>7. CASE Network
  <2>1. paths' \in SUBSET Dest /\ blackholed' \in SUBSET {Asked}
    BY <1>0, <1>7 DEF Network, SymDiff
  <2>2. QED
    BY <1>0, <1>7, <2>1, CallsKept DEF Network
<1>8. CASE UNCHANGED rpcVars
  BY <1>0, <1>8, CallsKept DEF rpcVars
<1>9. QED
  BY <1>1, <1>2, <1>3, <1>4, <1>5, <1>6, <1>7, <1>8 DEF RpcNext

--------------------------------------------------------------------------------
(* The lines of rnmcp.                                                     *)

LEMMA AskingOf ==
  ASSUME NEW S, NEW s \in Seq(S), NEW e
  PROVE  Asking(Append(s, e)) = IF e.id THEN Asking(s) \cup {e.n} ELSE Asking(s)
<1>1. /\ DOMAIN Append(s, e) = DOMAIN s \cup {Len(s) + 1} /\ Len(s) + 1 \notin DOMAIN s
      /\ Append(s, e)[Len(s) + 1] = e /\ \A k \in DOMAIN s : Append(s, e)[k] = s[k]
  OBVIOUS
<1>2. QED
  BY <1>1 DEF Asking

\* What is said last has the highest number.
LEMMA Rising ==
  ASSUME NEW S, NEW s \in Seq(S), NEW e, \A k \in DOMAIN s : s[k].n < e.n,
         \A j, k \in DOMAIN s : j < k => s[j].n < s[k].n
  PROVE  \A j, k \in DOMAIN Append(s, e) : j < k => Append(s, e)[j].n < Append(s, e)[k].n
<1>1. /\ DOMAIN Append(s, e) = DOMAIN s \cup {Len(s) + 1} /\ DOMAIN s = 1 .. Len(s) /\ Len(s) \in Nat
      /\ Append(s, e)[Len(s) + 1] = e /\ \A k \in DOMAIN s : Append(s, e)[k] = s[k]
  OBVIOUS
<1>2. QED
  BY <1>1

\* What has been read and said stays so when the jobs become more.
LEMMA Widened ==
  ASSUME NEW m \in Nat, NEW n \in Nat, m <= n
  PROVE  /\ \A s \in Seq(LineSet(m)) : s \in Seq(LineSet(n))
         /\ \A s \in Seq(AnswerSet(m)) : s \in Seq(AnswerSet(n))
<1>1. LineSet(m) \subseteq LineSet(n) /\ AnswerSet(m) \subseteq AnswerSet(n)
  BY DEF LineSet, AnswerSet
<1>2. QED
  BY <1>1, SeqMonotonic

\* The numbers of what was read and said are those of jobs there have been.
LEMMA AskingBounds ==
  ASSUME LinesInv, "rnmcp" \in Clients, jobs \in Nat
  PROVE  /\ \A n \in Asking(lines) \cup Asking(responses) : n \in 1 .. jobs
         /\ \A k \in DOMAIN responses : responses[k].n \in 1 .. jobs
<1>1. lines \in Seq(LineSet(jobs)) /\ responses \in Seq(AnswerSet(jobs))
  BY DEF LinesInv
<1>2. \A k \in DOMAIN lines : lines[k].n \in 1 .. jobs
  <2>1. \A k \in DOMAIN lines : lines[k] \in LineSet(jobs)
    BY <1>1, ElementOfSeq
  <2>2. QED
    BY <2>1 DEF LineSet
<1>3. \A k \in DOMAIN responses : responses[k].n \in 1 .. jobs
  <2>1. \A k \in DOMAIN responses : responses[k] \in AnswerSet(jobs)
    BY <1>1, ElementOfSeq
  <2>2. QED
    BY <2>1 DEF AnswerSet
<1>4. QED
  BY <1>2, <1>3 DEF Asking

\* Nothing is read or said, and rnmcp stays at the line it is at.
LEMMA NothingSaid ==
  ASSUME LinesInv, jobs \in Nat, jobs' \in Nat, jobs <= jobs', UNCHANGED <<lines, responses>>,
         "rnmcp" \in Clients => client'["rnmcp"].n = client["rnmcp"].n
  PROVE  LinesInv'
<1>1. SUFFICES ASSUME "rnmcp" \in Clients PROVE LinesInv'
  BY DEF LinesInv
<1>2. lines' \in Seq(LineSet(jobs')) /\ responses' \in Seq(AnswerSet(jobs'))
  BY <1>1, Widened DEF LinesInv
<1>3. Asking(lines)' = Asking(lines) /\ Asking(responses)' = Asking(responses)
  BY DEF Asking
<1>4. AnsweredInOrder'
  BY <1>1, <1>3 DEF LinesInv, AnsweredInOrder
<1>5. QED
  BY <1>1, <1>2, <1>3, <1>4 DEF LinesInv

\* A line is answered: it is the last that was read.
LEMMA LineAnswered ==
  ASSUME LinesInv, jobs \in Nat, "rnmcp" \in Clients, client["rnmcp"].n # 0, client'["rnmcp"].n = 0,
         NEW error \in BOOLEAN, UNCHANGED <<lines, jobs>>,
         responses' = Append(responses, [n |-> client["rnmcp"].n, id |-> TRUE, error |-> error])
  PROVE  LinesInv'
<1> DEFINE answer == [n |-> client["rnmcp"].n, id |-> TRUE, error |-> error]
<1>1. client["rnmcp"].n \in 1 .. jobs
  BY AskingBounds DEF LinesInv
<1>2. answer \in AnswerSet(jobs) /\ answer.n = client["rnmcp"].n /\ answer.id
  BY <1>1 DEF AnswerSet
<1>3. responses \in Seq(AnswerSet(jobs)) /\ responses' = Append(responses, answer)
  BY DEF LinesInv
<1> HIDE DEF answer
<1>4. Asking(responses') = Asking(responses) \cup {client["rnmcp"].n}
  BY <1>2, <1>3, AskingOf
<1>5. Asking(responses') = Asking(lines) \ {0}
  <2>1. client["rnmcp"].n \in Asking(lines) /\ 0 \notin Asking(lines)
    BY <1>1, AskingBounds DEF LinesInv
  <2>2. Asking(responses) = Asking(lines) \ {client["rnmcp"].n}
    BY DEF LinesInv, AnsweredInOrder
  <2>3. QED
    BY <1>4, <2>1, <2>2
<1>6. \A j, k \in DOMAIN responses' : j < k => responses'[j].n < responses'[k].n
  BY <1>2, <1>3, Rising DEF LinesInv, AnsweredInOrder
<1>7. responses' \in Seq(AnswerSet(jobs))
  BY <1>2, <1>3
<1>8. AnsweredInOrder'
  BY <1>5, <1>6 DEF AnsweredInOrder, Asking
<1>9. QED
  BY <1>7, <1>8 DEF LinesInv

\* A program ends its job, and rnmcp says so.
LEMMA JobSaid ==
  ASSUME LinesInv, StateOK, NEW p \in Clients, client[p].n # 0, NEW verdict,
         JobEnded(p, client[p], verdict), UNCHANGED <<lines, jobs>>
  PROVE  LinesInv'
<1>1. client' = [client EXCEPT ![p] = Idle] /\ client = [q \in Clients |-> client[q]] /\ jobs \in Nat
  BY DEF JobEnded, StateOK
<1>2. CASE p = "rnmcp"
  <2>1. client'["rnmcp"].n = 0 /\ (verdict = "error") \in BOOLEAN
    BY <1>1, <1>2, IdleOK
  <2>2. QED
    BY <1>1, <1>2, <2>1, LineAnswered DEF JobEnded
<1>3. CASE p # "rnmcp"
  BY <1>1, <1>3, NothingSaid DEF JobEnded
<1>4. QED
  BY <1>2, <1>3

\* A call fails: the job ends or goes on.
LEMMA FailureSaid ==
  ASSUME LinesInv, StateOK, NEW p \in Clients, client[p].todo # <<>>, CallFailed(p),
         UNCHANGED <<lines, jobs>>
  PROVE  LinesInv'
<1>1. client[p].n # 0 /\ jobs \in Nat /\ client = [q \in Clients |-> client[q]] /\ client[p] \in ClientType
  BY DEF StateOK, ClientOK
<1>2. CASE Head(client[p].todo).needed
  BY <1>1, <1>2, JobSaid DEF CallFailed
<1>3. CASE ~Head(client[p].todo).needed
  <2>1. UNCHANGED responses /\ \A q \in Clients : client'[q].n = client[q].n
    <3>1. /\ UNCHANGED responses
          /\ client' = [client EXCEPT ![p].todo = Tail(@) \o Further(Head(client[p].todo), {}),
                                      ![p].waits = FALSE, ![p].reply = <<>>]
      BY <1>3 DEF CallFailed
    <3>2. QED
      BY <1>1, <3>1 DEF ClientType
  <2>2. QED
    BY <1>1, <2>1, NothingSaid
<1>4. QED
  BY <1>2, <1>3

\* A line is read. What rnmcp answers at once it is not at afterwards.
LEMMA LineRead ==
  ASSUME LinesInv, jobs \in Nat, jobs' = jobs + 1, "rnmcp" \in Clients, client["rnmcp"].n = 0,
         NEW id \in BOOLEAN, NEW kind \in Kinds,
         lines' = Append(lines, [n |-> jobs', id |-> id, kind |-> kind]),
         \/ /\ client'["rnmcp"].n = jobs' /\ id /\ responses' = responses
         \/ /\ client'["rnmcp"].n = 0 /\ ~id /\ responses' = responses
         \/ /\ client'["rnmcp"].n = 0
            /\ \E error \in BOOLEAN :
                 responses' = Append(responses, [n |-> jobs', id |-> id, error |-> error])
  PROVE  LinesInv'
<1>1. PICK line : line = [n |-> jobs', id |-> id, kind |-> kind]
  OBVIOUS
<1>2. line \in LineSet(jobs') /\ line.n = jobs' /\ line.id = id
  BY <1>1 DEF LineSet
<1>3. /\ lines \in Seq(LineSet(jobs))
      /\ responses \in Seq(AnswerSet(jobs))
  BY DEF LinesInv
<1>5. lines \in Seq(LineSet(jobs')) /\ responses \in Seq(AnswerSet(jobs'))
  BY <1>3, Widened
<1>6. lines' \in Seq(LineSet(jobs'))
  BY <1>1, <1>2, <1>5
<1>7. Asking(lines') = IF id THEN Asking(lines) \cup {jobs'} ELSE Asking(lines)
  BY ZenonT(40), <1>1, <1>2, <1>3, AskingOf
<1>8. Asking(responses) = Asking(lines) /\ jobs' \notin Asking(lines) /\ 0 \notin Asking(lines')
  <2>1. \A n \in Asking(lines) : n \in 1 .. jobs
    BY AskingBounds
  <2>2. Asking(responses) = Asking(lines) \ {0}
    BY DEF LinesInv, AnsweredInOrder
  <2>3. QED
    BY <1>7, <2>1, <2>2
<1>9. \A k \in DOMAIN responses : responses[k].n < jobs'
  BY AskingBounds
<1>10. CASE /\ UNCHANGED responses
            /\ \/ client'["rnmcp"].n = jobs' /\ id
               \/ client'["rnmcp"].n = 0 /\ ~id
  <2>1. AnsweredInOrder' /\ (client'["rnmcp"].n # 0 => client'["rnmcp"].n \in Asking(lines)')
    <3>1. Asking(responses)' = Asking(responses) /\ Asking(lines)' = Asking(lines')
      BY <1>10 DEF Asking
    <3>2. Asking(responses)' = Asking(lines)' \ {client'["rnmcp"].n}
      <4>1. CASE client'["rnmcp"].n = jobs' /\ id
        BY <1>7, <1>8, <3>1, <4>1
      <4>2. CASE client'["rnmcp"].n = 0 /\ ~id
        BY <1>7, <1>8, <3>1, <4>2
      <4>3. QED
        BY <1>10, <4>1, <4>2
    <3>3. QED
      BY <1>7, <1>10, <3>1, <3>2 DEF LinesInv, AnsweredInOrder
  <2>2. QED
    BY <1>5, <1>6, <1>9, <1>10, <2>1 DEF LinesInv
<1>11. CASE client'["rnmcp"].n = 0 /\ \E error \in BOOLEAN :
              responses' = Append(responses, [n |-> jobs', id |-> id, error |-> error])
  <2>1. PICK answer : /\ answer \in AnswerSet(jobs')
                      /\ answer.n = jobs' /\ answer.id = id
                      /\ responses' = Append(responses, answer)
    BY <1>11 DEF AnswerSet
  <2>2. responses' \in Seq(AnswerSet(jobs'))
    BY <1>5, <2>1
  <2>3. Asking(responses') = Asking(lines')
    <3>1. Asking(responses') = IF id THEN Asking(responses) \cup {jobs'} ELSE Asking(responses)
      BY <1>3, <2>1, AskingOf
    <3>2. QED
      BY <1>7, <1>8, <3>1
  <2>4. \A j, k \in DOMAIN responses' : j < k => responses'[j].n < responses'[k].n
    BY <1>3, <1>9, <2>1, Rising DEF LinesInv, AnsweredInOrder
  <2>5. AnsweredInOrder'
    BY ZenonT(40), <1>8, <1>11, <2>3, <2>4 DEF AnsweredInOrder, Asking
  <2>6. QED
    BY <1>6, <1>11, <2>2, <2>5 DEF LinesInv
<1>12. QED
  BY <1>10, <1>11

LEMMA LinesInit == RpcInit => LinesInv
BY IdleOK, EmptySeq DEF RpcInit, LinesInv, AnsweredInOrder, Asking

LEMMA LinesStep == ASSUME CallsInv, LinesInv, [RpcNext]_rpcVars PROVE LinesInv'
<1>0. /\ StateOK /\ jobs \in Nat /\ client = [p \in Clients |-> client[p]]
      /\ \A p \in Clients : ClientOK(client[p]) /\ client[p] \in ClientType
  BY DEF CallsInv, StateOK, ClientOK
<1>1. CASE (\E op \in DOMAIN Rnpath : StartRnpath(op)) \/ StartRnguard
  <2>1. PICK p, todo : p \in {"rnpath", "rnguard"} /\ Job(p, todo) /\ UNCHANGED lines
    BY <1>1 DEF StartRnpath, StartRnguard
  <2>2. "rnmcp" \in Clients => client'["rnmcp"] = client["rnmcp"]
    BY <1>0, <2>1 DEF Job
  <2>3. QED
    BY <1>0, <2>1, <2>2, NothingSaid DEF Job
<1>2. CASE \E tool \in DOMAIN Tools : CallTool(tool)
  <2>1. PICK tool \in DOMAIN Tools : CallTool(tool)
    BY <1>2
  <2>2. client'["rnmcp"].n = jobs'
    <3>1. client'["rnmcp"] = [Idle EXCEPT !.n = jobs', !.todo = Tools[tool]]
      BY <1>0, <2>1 DEF CallTool, Job
    <3>2. QED
      BY <3>1, IdleOK DEF ClientOK, ClientType
  <2>3. "tools/call" \in Kinds /\ TRUE \in BOOLEAN
    BY DEF Kinds
  <2>4. QED
    BY <1>0, <2>1, <2>2, <2>3, LineRead DEF CallTool, Job
<1>3. CASE \E l \in OtherLines : AnswerLine(l[1], l[2])
  <2>1. PICK kind, id : /\ kind \in Kinds /\ id \in BOOLEAN /\ AnswerLine(kind, id)
                        /\ kind = "notifications/initialized" => ~id
    BY <1>3 DEF OtherLines, Kinds, Handled
  <2>2. (kind \notin Handled) \in BOOLEAN
    OBVIOUS
  <2>3. QED
    BY <1>0, <2>1, <2>2, LineRead DEF AnswerLine
<1>4. ASSUME NEW p \in Clients, ClientStep(p) PROVE LinesInv'
  <2>1. CASE Dial(p)
    <3>1. \A q \in Clients : client'[q].n = client[q].n
      BY <1>0, <2>1 DEF Dial, ClientType
    <3>2. QED
      BY <1>0, <2>1, <3>1, NothingSaid DEF Dial
  <2>2. CASE DialFails(p)
    BY <1>0, <2>2, FailureSaid DEF DialFails
  <2>3. CASE Answered(p)
    <3>1. \A q \in Clients : client'[q].n = client[q].n
      BY <1>0, <2>3 DEF Answered, ClientType
    <3>2. UNCHANGED <<jobs, lines, responses>>
      BY <2>3 DEF Answered
    <3>3. jobs \in Nat /\ jobs' \in Nat /\ jobs <= jobs'
      BY <1>0, <3>2
    <3>4. QED
      BY <1>0, <3>1, <3>2, <3>3, NothingSaid
  <2>4. CASE CallUnanswered(p)
    BY <1>0, <2>4, FailureSaid DEF CallUnanswered, ClientOK
  <2>5. CASE Done(p)
    <3>1. client[p].n # 0
      BY <2>5 DEF Done
    <3>2. QED
      BY <1>0, <2>5, <3>1, JobSaid DEF Done
  <2>6. QED
    BY <1>4, <2>1, <2>2, <2>3, <2>4, <2>5 DEF ClientStep
<1>5. CASE \E r \in flight : ServeRequest(r)
  <2>1. PICK r \in flight : ServeRequest(r)
    BY <1>5
  <2>2. \A q \in Clients : client'[q].n = client[q].n
    BY <1>0, <2>1 DEF ServeRequest, ClientType
  <2>3. QED
    BY <1>0, <2>1, <2>2, NothingSaid DEF ServeRequest
<1>6. CASE Network
  BY <1>0, <1>6, NothingSaid DEF Network
<1>7. CASE UNCHANGED rpcVars
  BY <1>0, <1>7, NothingSaid DEF rpcVars
<1>8. QED
  BY <1>1, <1>2, <1>3, <1>4, <1>5, <1>6, <1>7 DEF RpcNext

--------------------------------------------------------------------------------
LEMMA RpcStep == RpcInv /\ [RpcNext]_rpcVars => RpcInv'
BY CallsStep, LinesStep DEF RpcInv

\* The clients' state has its type: a client waits for a call it has still to make, and
\* what is in flight is of jobs there have been.
THEOREM RpcTyped == RpcSpec => []RpcTypeOK
<1>1. RpcInit => RpcInv
  BY CallsInit, LinesInit DEF RpcInv
<1>2. RpcInv => RpcTypeOK
  BY DEF RpcInv, CallsInv, StateOK, ClientOK, ClientType, FlightOK, RpcTypeOK
<1>3. QED
  BY <1>1, <1>2, RpcStep, PTL DEF RpcSpec

\* What rnpath, rnmcp and rnguard say they did is what the instance did for them, once,
\* and rnmcp answers its lines in order: whatever is given up, comes late or is done by
\* another program in between.
THEOREM OutcomesAreTrue == RpcSpec => []OutcomeTruthful
<1>1. RpcInit => RpcInv
  BY CallsInit, LinesInit DEF RpcInv
<1>2. RpcInv => OutcomeTruthful
  <2>1. SUFFICES ASSUME RpcInv PROVE OutcomeTruthful
    OBVIOUS
  <2>2. AnsweredInOrder
    BY <2>1 DEF RpcInv, LinesInv, AnsweredInOrder
  <2>3. QED
    BY <2>1, <2>2 DEF RpcInv, CallsInv, Truthful, Means, Did, OneOrder, SameJob, OutcomeTruthful
<1>3. QED
  BY <1>1, <1>2, RpcStep, PTL DEF RpcSpec

--------------------------------------------------------------------------------
(* What rnid calls validly signed was signed. ValidMeansSigned alone is    *)
(* not inductive: what is said of the files, and of the contents an open   *)
(* file is about to get, must be known too. Nothing is forgotten of what   *)
(* was signed.                                                             *)

\* Contents that a validation may accept.
IsSignature(file) == file.kind \in {"sig", "raw", "msg"}

\* A signature, wherever it is, was made.
Made(file) == IsSignature(file) => <<file.by, file.of>> \in signed

IsRun(r) == r = [at |-> r.at, args |-> r.args, id |-> r.id, path |-> r.path, to |-> r.to]

Shape == files = [p \in Path |-> files[p]] /\ IsRun(rnid)

SignedInv ==
  /\ Shape
  /\ \A p \in Path : Made(files[p])
  /\ Made(rnid.to)
  /\ ValidMeansSigned

\* What is not a signature need not have been made.
LEMMA NoSignature ==
  /\ ~IsSignature(Bytes0) /\ ~IsSignature(Absent)
  /\ \A k, b, t : k \notin {"sig", "raw", "msg"} => ~IsSignature(File(k, b, t))
BY DEF IsSignature, Bytes0, Absent, File

\* At the end of a run, and before the identity is written, nothing is under way.
LEMMA RunOver ==
  ASSUME IsRun(rnid)
  PROVE  /\ IsRun(NoRnid) /\ NoRnid.to = Bytes0
         /\ IsRun(AfterOp) /\ AfterOp.to = Bytes0
<1>1. IsRun(NoRnid) /\ NoRnid.to = Bytes0
  BY DEF NoRnid, IsRun
<1>2. CASE rnid.args.write
  <2>1. AfterOp = [rnid EXCEPT !.at = "write", !.to = Bytes0]
    BY <1>2 DEF AfterOp
  <2>2. AfterOp = [at |-> "write", args |-> rnid.args, id |-> rnid.id, path |-> rnid.path,
                   to |-> Bytes0]
    BY <2>1 DEF IsRun
  <2>3. QED
    BY <1>1, <2>2 DEF IsRun
<1>3. CASE ~rnid.args.write
  BY <1>1, <1>3 DEF AfterOp
<1>4. QED
  BY <1>1, <1>2, <1>3

\* Writing a file leaves the others.
LEMMA Written ==
  ASSUME Shape, NEW p, NEW file, files' = [files EXCEPT ![p] = file]
  PROVE  /\ files' = [q \in Path |-> files'[q]]
         /\ \A q \in Path : files'[q] = IF q = p THEN file ELSE files[q]
BY DEF Shape

\* What has been signed stays signed, so that only new contents and a new claim matter.
LEMMA Kept ==
  ASSUME SignedInv, Shape', signed \subseteq signed',
         \A p \in Path : files'[p] = files[p] \/ Made(files[p])',
         Made(rnid.to)', claim' = claim \/ claim' = NoClaim
  PROVE  SignedInv'
<1>1. \A p \in Path : Made(files[p])'
  BY DEF SignedInv, Made
<1>2. ValidMeansSigned'
  BY DEF SignedInv, ValidMeansSigned
<1>3. QED
  BY <1>1, <1>2 DEF SignedInv

\* The end of an operation, with what it has written.
LEMMA OperationEnded ==
  ASSUME SignedInv, rnid' \in {NoRnid, AfterOp}, signed' = signed, claim' = claim,
         NEW p, NEW file, Made(file),
         files' = files \/ files' = [files EXCEPT ![p] = file]
  PROVE  SignedInv'
<1>1. Shape
  BY DEF SignedInv
<1>2. IsRun(rnid') /\ rnid'.to = Bytes0
  BY <1>1, RunOver DEF Shape
<1>3. Shape'
  BY <1>1, <1>2, Written DEF Shape, IsRun
<1>4. Made(rnid.to)'
  BY <1>2, NoSignature DEF Made
<1>5. \A q \in Path : files'[q] = files[q] \/ Made(files[q])'
  BY <1>1, Written DEF Made
<1>6. QED
  BY <1>3, <1>4, <1>5, Kept

\* A file is opened for contents that have been signed if they are a signature.
LEMMA Opened ==
  ASSUME SignedInv, NEW p, NEW to, Open(p, to), Made(to)', signed \subseteq signed', claim' = claim
  PROVE  SignedInv'
<1>1. Shape
  BY DEF SignedInv
<1>2. rnid' = [rnid EXCEPT !.at = "fill", !.path = p, !.to = to]
  BY DEF Open
<1>3. rnid' = [at |-> "fill", args |-> rnid.args, id |-> rnid.id, path |-> p, to |-> to]
  BY <1>1, <1>2 DEF Shape, IsRun
<1>4. IsRun(rnid') /\ rnid'.to = to
  BY <1>3 DEF IsRun
<1>5. files' = [files EXCEPT ![p] = Bytes0]
  BY DEF Open
<1>6. Shape'
  BY <1>1, <1>4, <1>5, Written DEF Shape, IsRun
<1>7. \A q \in Path : files'[q] = files[q] \/ Made(files[q])'
  BY <1>1, <1>5, Written, NoSignature DEF Made
<1>8. Made(rnid.to)'
  BY <1>4
<1>9. QED
  BY <1>6, <1>7, <1>8, Kept

\* At first there are no signatures.
LEMMA FilesInitHolds == FilesInit => SignedInv
<1>1. SUFFICES ASSUME FilesInit PROVE SignedInv
  OBVIOUS
<1>2. PICK t \in Text : files = [p \in Path |-> IF p = "f" THEN File("text", "none", t) ELSE Absent]
  BY <1>1 DEF FilesInit
<1>3. \A p \in Path : ~IsSignature(files[p])
  BY <1>2, NoSignature
<1>4. rnid = NoRnid /\ claim = NoClaim
  BY <1>1 DEF FilesInit
<1>5. IsRun(rnid) /\ rnid.to = Bytes0
  BY <1>4 DEF IsRun, NoRnid
<1>6. QED
  BY <1>2, <1>3, <1>4, <1>5, NoSignature DEF SignedInv, Shape, Made, ValidMeansSigned

\* A run that fails, or only prints, writes nothing.
LEMMA NothingWritten ==
  ASSUME SignedInv, rnid' \in {NoRnid, AfterOp}, UNCHANGED <<files, signed, claim>>
  PROVE  SignedInv'
<1>1. Made(Bytes0)
  BY NoSignature DEF Made
<1>2. QED
  BY <1>1, OperationEnded

\* What was signed may be printed instead.
LEMMA PrintedHolds ==
  ASSUME SignedInv, Printed, signed \subseteq signed', claim' = claim
  PROVE  SignedInv'
<1>1. Shape' /\ Made(rnid.to)'
  BY RunOver, NoSignature DEF SignedInv, Shape, Printed, Made, IsRun
<1>2. \A p \in Path : files'[p] = files[p]
  BY DEF Printed
<1>3. QED
  BY <1>1, <1>2, Kept

\* The identity is read, or made up and written: no signature, and no claim yet.
LEMMA GetIdentityHolds == ASSUME SignedInv, GetIdentity PROVE SignedInv'
<1>1. claim' = NoClaim /\ signed' = signed /\ Shape
  BY DEF GetIdentity, SignedInv
<1>2. PICK args, id :
        /\ \/ rnid' = NoRnid
           \/ rnid' = [at |-> "op", args |-> args, id |-> id, path |-> "none", to |-> Bytes0]
        /\ files' = files \/ files' = [files EXCEPT !["id"] = File("prv", args.key, "none")]
  BY DEF GetIdentity
<1>3. IsRun(rnid') /\ rnid'.to = Bytes0
  <2>1. CASE rnid' = NoRnid
    BY <2>1 DEF IsRun, NoRnid
  <2>2. CASE rnid' # NoRnid
    BY <1>2, <2>2 DEF IsRun
  <2>3. QED
    BY <2>1, <2>2
<1>4. Shape'
  BY <1>1, <1>2, <1>3, Written DEF Shape, IsRun
<1>5. \A p \in Path : files'[p] = files[p] \/ Made(files[p])'
  <2>1. ~IsSignature(File("prv", args.key, "none"))
    BY NoSignature
  <2>2. \A p \in Path : files'[p] \in {files[p], File("prv", args.key, "none")}
    <3>1. CASE files' = files
      BY <3>1
    <3>2. CASE files' = [files EXCEPT !["id"] = File("prv", args.key, "none")]
      BY <1>1, <3>2, Written
    <3>3. QED
      BY <1>2, <3>1, <3>2
  <2>3. QED
    BY <2>1, <2>2 DEF Made
<1>6. Made(rnid.to)'
  BY <1>3, NoSignature DEF Made
<1>7. QED
  BY <1>1, <1>4, <1>5, <1>6, Kept

\* What is signed is what is to be written, in a file of its own or in print.
LEMMA SignHolds == ASSUME SignedInv, Sign PROVE SignedInv'
<1>1. PICK sig : \/ Fails
                 \/ /\ signed' = signed \cup {<<sig.by, sig.of>>} /\ claim' = claim
                    /\ Open("f.rsg", sig) \/ Printed
  BY DEF Sign
<1>2. CASE Fails
  BY <1>2, NothingWritten DEF Fails
<1>3. CASE signed' = signed \cup {<<sig.by, sig.of>>} /\ claim' = claim /\ Open("f.rsg", sig)
  BY <1>3, Opened DEF Made
<1>4. CASE signed' = signed \cup {<<sig.by, sig.of>>} /\ claim' = claim /\ Printed
  BY <1>4, PrintedHolds
<1>5. QED
  BY <1>1, <1>2, <1>3, <1>4

LEMMA SignMessageHolds == ASSUME SignedInv, NEW t, SignMessage(t) PROVE SignedInv'
<1>1. CASE Fails
  BY <1>1, NothingWritten DEF Fails
<1>2. CASE ~Fails
  <2>1. signed' = signed \cup {<<rnid.id.by, t>>} /\ claim' = claim
    BY <1>2 DEF SignMessage
  <2>2. CASE Open("out.rsm", File("msg", rnid.id.by, t))
    BY <2>1, <2>2, Opened DEF Made, File
  <2>3. CASE Printed
    BY <2>1, <2>3, PrintedHolds
  <2>4. QED
    BY <1>2, <2>2, <2>3 DEF SignMessage
<1>3. QED
  BY <1>1, <1>2

\* A validation accepts what is in a file, which has been made.
LEMMA ValidateHolds ==
  ASSUME SignedInv, NEW p \in Path, NEW of, Valid(files[p], of),
         Report(files[p].by, of), Printed, signed' = signed
  PROVE  SignedInv'
<1>1. <<files[p].by, of>> \in signed
  BY DEF SignedInv, Made, IsSignature, Valid
<1>2. claim'.by = files[p].by /\ claim'.of = of
  BY DEF Report
<1>3. ValidMeansSigned'
  BY <1>1, <1>2 DEF ValidMeansSigned
<1>4. Shape' /\ Made(rnid.to)'
  BY RunOver, NoSignature DEF SignedInv, Shape, Printed, Made, IsRun
<1>5. \A q \in Path : Made(files[q])'
  BY DEF SignedInv, Made, Printed
<1>6. QED
  BY <1>3, <1>4, <1>5 DEF SignedInv

\* What is written into the open file: no signature, or the one that was made.
LEMMA FillHolds == ASSUME SignedInv, Fill PROVE SignedInv'
<1>1. CASE Fails
  BY <1>1, NothingWritten DEF Fails
<1>2. CASE ~Fails
  <2>1. /\ files' = [files EXCEPT ![rnid.path] = Filling]
        /\ rnid' = AfterOp /\ signed' = signed /\ claim' = claim
    BY <1>2 DEF Fill
  <2>2. Made(Filling)
    BY NoSignature DEF Filling, SignedInv, Made
  <2>3. QED
    BY <2>1, <2>2, OperationEnded
<1>3. QED
  BY <1>1, <1>2

LEMMA WriteIdentityHolds == ASSUME SignedInv, WriteIdentity PROVE SignedInv'
<1>1. CASE Fails
  BY <1>1, NothingWritten DEF Fails
<1>2. CASE ~Fails
  <2>1. PICK p, k : /\ k \in {"prv", "pub"}
                    /\ files' = [files EXCEPT ![p] = File(k, rnid.id.by, "none")]
                    /\ rnid' = NoRnid /\ signed' = signed /\ claim' = claim
    BY <1>2 DEF WriteIdentity
  <2>2. Made(File(k, rnid.id.by, "none"))
    BY <2>1, NoSignature DEF Made
  <2>3. QED
    BY <2>1, <2>2, OperationEnded
<1>3. QED
  BY <1>1, <1>2

\* The user's file is text.
LEMMA EditHolds == ASSUME SignedInv, NEW t, Edit(t) PROVE SignedInv'
<1>1. /\ files' = [files EXCEPT !["f"] = File("text", "none", t)]
      /\ rnid' = rnid /\ signed' = signed /\ claim' = claim /\ Shape
  BY DEF Edit, SignedInv
<1>2. Shape'
  BY <1>1, Written DEF Shape, IsRun
<1>3. \A p \in Path : files'[p] = files[p] \/ Made(files[p])'
  BY <1>1, Written, NoSignature DEF Made
<1>4. Made(rnid.to)'
  BY <1>1 DEF SignedInv, Made
<1>5. QED
  BY <1>1, <1>2, <1>3, <1>4, Kept

\* One step for each of rnid's operations and of the user's.
LEMMA FilesStepHolds == SignedInv /\ [FilesNext]_filesVars => SignedInv'
<1>1. SUFFICES ASSUME SignedInv, [FilesNext]_filesVars PROVE SignedInv'
  OBVIOUS
<1>2. CASE GetIdentity
  BY <1>1, <1>2, GetIdentityHolds
<1>3. CASE NoOperation
  BY <1>1, <1>3, NothingWritten DEF NoOperation, Printed
<1>4. CASE Sign
  BY <1>1, <1>4, SignHolds
<1>5. CASE \E t \in Text : SignMessage(t)
  BY <1>1, <1>5, SignMessageHolds
<1>6. CASE ValidateFile
  <2>1. CASE Fails
    BY <1>1, <2>1, NothingWritten DEF Fails
  <2>2. CASE ~Fails
    BY <1>1, <1>6, <2>2, ValidateHolds DEF ValidateFile, Path
  <2>3. QED
    BY <2>1, <2>2
<1>7. CASE ValidateMessage
  <2>1. CASE Fails
    BY <1>1, <2>1, NothingWritten DEF Fails
  <2>2. CASE ~Fails
    BY <1>1, <1>7, <2>2, ValidateHolds DEF ValidateMessage, Path
  <2>3. QED
    BY <2>1, <2>2
<1>8. CASE Encrypt \/ Decrypt
  <2>1. Made(Bytes0)'
    BY NoSignature DEF Made
  <2>2. CASE Fails
    BY <1>1, <2>2, NothingWritten DEF Fails
  <2>3. CASE ~Fails
    <3>1. PICK out : Open(out, Bytes0) /\ signed' = signed /\ claim' = claim
      BY <1>8, <2>3 DEF Encrypt, Decrypt
    <3>2. QED
      BY <1>1, <2>1, <3>1, Opened
  <2>4. QED
    BY <2>2, <2>3
<1>9. CASE Fill
  BY <1>1, <1>9, FillHolds
<1>10. CASE WriteIdentity
  BY <1>1, <1>10, WriteIdentityHolds
<1>11. CASE RnidDies
  BY <1>1, <1>11, NothingWritten DEF RnidDies, Fails
<1>12. CASE \E t \in Text : Edit(t)
  BY <1>1, <1>12, EditHolds
<1>13. CASE UNCHANGED filesVars
  BY <1>1, <1>13 DEF filesVars, SignedInv, Shape, IsRun, Made, ValidMeansSigned
<1>14. QED
  BY <1>1, <1>2, <1>3, <1>4, <1>5, <1>6, <1>7, <1>8, <1>9, <1>10, <1>11, <1>12, <1>13
  DEF FilesNext

\* What rnid calls validly signed was signed, as it is, by the key it reports: in every
\* run, whatever was edited, overwritten or left half-written.
THEOREM ValidIsSigned == FilesSpec => []ValidMeansSigned
<1>1. SignedInv => ValidMeansSigned
  BY DEF SignedInv
<1>2. QED
  BY FilesInitHolds, FilesStepHolds, <1>1, PTL DEF FilesSpec

--------------------------------------------------------------------------------
(* What is there stays without --force. Where rnid may write is settled    *)
(* when the file is opened; the run's start must be remembered until then. *)

\* A run that may overwrite has nothing to keep.
Exempt == rnid.args.force \/ (rnid.args.raw /\ ~rnid.args.bin)

KeptInv ==
  /\ Shape /\ before = [p \in Path |-> before[p]]
  /\ FilesKept
  /\ rnid.at # "over" /\ Exempt => \A p \in Path : before[p] = Absent
  /\ rnid.at = "fill" => rnid.path \in Path /\ before[rnid.path] = Absent

\* A path that is not taken has nothing to keep.
LEMMA FreeIs ==
  ASSUME KeptInv, rnid.at # "over", NEW p \in Path, ~Taken(p)
  PROVE  before[p] = Absent
BY DEF KeptInv, FilesKept, Taken, Exempt

\* A step of rnid that writes at most where there is nothing to keep.
LEMMA WritesFree ==
  ASSUME KeptInv, before' = before, NEW p, NEW file, p \in Path => before[p] = Absent,
         files' = files \/ files' = [files EXCEPT ![p] = file],
         IsRun(rnid'), rnid'.at # "over" => rnid.at # "over" /\ rnid'.args = rnid.args,
         rnid'.at = "fill" => rnid'.path \in Path /\ before[rnid'.path] = Absent
  PROVE  KeptInv'
<1>1. Shape /\ FilesKept
  BY DEF KeptInv
<1>2. Shape'
  BY <1>1, Written DEF Shape, IsRun
<1>3. FilesKept'
  BY <1>1, Written DEF FilesKept
<1>4. rnid'.at # "over" /\ Exempt' => \A q \in Path : before'[q] = Absent
  BY DEF KeptInv, Exempt
<1>5. QED
  BY <1>2, <1>3, <1>4 DEF KeptInv

\* Where the operation, or the run, ends.
LEMMA EndsFree ==
  ASSUME KeptInv, before' = before, rnid.at # "over", rnid' \in {NoRnid, AfterOp},
         NEW p, NEW file, p \in Path => before[p] = Absent,
         files' = files \/ files' = [files EXCEPT ![p] = file]
  PROVE  KeptInv'
<1>1. IsRun(rnid)
  BY DEF KeptInv, Shape
<1>2. IsRun(rnid')
  BY <1>1, RunOver
<1>3. CASE rnid' = NoRnid
  <2>1. rnid'.at = "over"
    BY <1>3 DEF NoRnid
  <2>2. QED
    BY <1>2, <2>1, WritesFree
<1>4. CASE rnid' = AfterOp /\ rnid' # NoRnid
  <2>1. rnid' = [rnid EXCEPT !.at = "write", !.to = Bytes0]
    BY <1>4 DEF AfterOp
  <2>2. rnid'.at = "write" /\ rnid'.args = rnid.args
    BY <1>1, <2>1 DEF IsRun
  <2>3. QED
    BY <1>2, <2>2, WritesFree
<1>5. QED
  BY <1>3, <1>4

LEMMA OpensFree ==
  ASSUME KeptInv, before' = before, rnid.at # "over", NEW p \in Path, before[p] = Absent,
         NEW to, Open(p, to)
  PROVE  KeptInv'
<1>1. IsRun(rnid)
  BY DEF KeptInv, Shape
<1>2. files' = [files EXCEPT ![p] = Bytes0] /\ rnid' = [rnid EXCEPT !.at = "fill", !.path = p, !.to = to]
  BY DEF Open
<1>3. rnid' = [at |-> "fill", args |-> rnid.args, id |-> rnid.id, path |-> p, to |-> to]
  BY <1>1, <1>2 DEF IsRun
<1>4. IsRun(rnid') /\ rnid'.args = rnid.args /\ rnid'.path = p /\ rnid'.at = "fill"
  BY <1>3 DEF IsRun
<1>5. QED
  BY <1>2, <1>4, WritesFree

\* Nothing is written.
LEMMA StaysFree ==
  ASSUME KeptInv, before' = before, rnid.at # "over", Fails \/ Printed
  PROVE  KeptInv'
<1>1. rnid' \in {NoRnid, AfterOp} /\ files' = files
  BY DEF Fails, Printed
<1>2. "none" \notin Path
  BY DEF Path
<1>3. QED
  BY <1>1, <1>2, EndsFree

LEMMA KeptInit == FilesInit => KeptInv
<1>1. SUFFICES ASSUME FilesInit PROVE KeptInv
  OBVIOUS
<1>2. Shape /\ rnid.at = "over"
  BY <1>1, FilesInitHolds DEF SignedInv, FilesInit, NoRnid
<1>3. before = files
  BY <1>1 DEF FilesInit
<1>4. QED
  BY <1>2, <1>3 DEF KeptInv, FilesKept, Shape

\* A run starts from what is there; what it makes up goes to a free path.
LEMMA GetIdentityFree == ASSUME KeptInv, GetIdentity PROVE KeptInv'
<1>1. Shape
  BY DEF KeptInv
<1>2. PICK args, id :
        /\ \/ rnid' = NoRnid
           \/ rnid' = [at |-> "op", args |-> args, id |-> id, path |-> "none", to |-> Bytes0]
        /\ before' = IF args.force \/ (args.raw /\ ~args.bin) THEN [p \in Path |-> Absent] ELSE files
        /\ \/ files' = files
           \/ /\ files["id"] = Absent \/ args.force
              /\ files' = [files EXCEPT !["id"] = File("prv", args.key, "none")]
  BY DEF GetIdentity
<1>3. /\ IsRun(rnid') /\ rnid'.at # "fill"
      /\ rnid'.at # "over" => rnid'.args = args
  BY <1>2 DEF IsRun, NoRnid
<1>4. Shape'
  BY <1>1, <1>2, <1>3, Written DEF Shape, IsRun
<1>5. before' = [p \in Path |-> before'[p]]
  BY <1>1, <1>2 DEF Shape
<1>6. FilesKept'
  <2>1. CASE args.force \/ (args.raw /\ ~args.bin)
    BY <1>2, <2>1 DEF FilesKept
  <2>2. CASE ~(args.force \/ (args.raw /\ ~args.bin))
    BY <1>1, <1>2, <2>2, Written DEF FilesKept
  <2>3. QED
    BY <2>1, <2>2
<1>7. rnid'.at # "over" /\ Exempt' => \A p \in Path : before'[p] = Absent
  BY <1>2, <1>3 DEF Exempt
<1>8. QED
  BY <1>3, <1>4, <1>5, <1>6, <1>7 DEF KeptInv

\* One step for each of rnid's operations and of the user's.
LEMMA KeptStep == ASSUME KeptInv, [FilesNext]_filesVars PROVE KeptInv'
<1>1. CASE GetIdentity
  BY <1>1, GetIdentityFree
<1>2. CASE NoOperation
  BY <1>2, StaysFree DEF NoOperation, Op
<1>3. CASE Sign
  <2>1. rnid.at # "over" /\ before' = before
    BY <1>3 DEF Sign, Op
  <2>2. CASE Fails \/ Printed
    BY <2>1, <2>2, StaysFree
  <2>3. CASE ~(Fails \/ Printed)
    <3>1. PICK sig : Open("f.rsg", sig) /\ (rnid.args.raw \/ rnid.args.bin)
                     /\ (rnid.args.bin => ~Taken("f.rsg"))
      BY <1>3, <2>3 DEF Sign
    <3>2. "f.rsg" \in Path
      BY DEF Path
    <3>3. before["f.rsg"] = Absent
      <4>1. CASE rnid.args.bin
        BY <2>1, <3>1, <3>2, <4>1, FreeIs
      <4>2. CASE ~rnid.args.bin
        BY <2>1, <3>1, <3>2, <4>2 DEF KeptInv, Exempt
      <4>3. QED
        BY <4>1, <4>2
    <3>4. QED
      BY <2>1, <3>1, <3>2, <3>3, OpensFree
  <2>4. QED
    BY <2>2, <2>3
<1>4. CASE \E t \in Text : SignMessage(t)
  <2>1. PICK t \in Text : SignMessage(t)
    BY <1>4
  <2>2. rnid.at # "over" /\ before' = before
    BY <2>1 DEF SignMessage, Op
  <2>3. CASE Fails \/ Printed
    BY <2>2, <2>3, StaysFree
  <2>4. CASE ~(Fails \/ Printed)
    <3>1. PICK msg : Open("out.rsm", msg) /\ ~Taken("out.rsm")
      BY <2>1, <2>4 DEF SignMessage
    <3>2. "out.rsm" \in Path
      BY DEF Path
    <3>3. QED
      BY <2>2, <3>1, <3>2, FreeIs, OpensFree
  <2>5. QED
    BY <2>3, <2>4
<1>5. CASE ValidateFile \/ ValidateMessage
  BY <1>5, StaysFree DEF ValidateFile, ValidateMessage, Op
<1>6. CASE Encrypt \/ Decrypt
  <2>1. rnid.at # "over" /\ before' = before
    BY <1>6 DEF Encrypt, Decrypt, Op
  <2>2. CASE Fails
    BY <2>1, <2>2, StaysFree
  <2>3. CASE ~Fails
    <3>1. PICK out \in Path : Open(out, Bytes0) /\ ~Taken(out)
      <4>1. "f" \in Path /\ "f.rfe" \in Path /\ "out" \in Path
        BY DEF Path
      <4>2. QED
        BY <1>6, <2>3, <4>1 DEF Encrypt, Decrypt
    <3>2. QED
      BY <2>1, <3>1, FreeIs, OpensFree
  <2>4. QED
    BY <2>2, <2>3
<1>7. CASE Fill
  <2>1. rnid.at = "fill" /\ before' = before /\ before[rnid.path] = Absent
    BY <1>7 DEF Fill, KeptInv
  <2>2. CASE Fails
    BY <2>1, <2>2, StaysFree
  <2>3. CASE ~Fails
    <3>1. files' = [files EXCEPT ![rnid.path] = Filling] /\ rnid' = AfterOp
      BY <1>7, <2>3 DEF Fill
    <3>2. QED
      BY <2>1, <3>1, EndsFree
  <2>4. QED
    BY <2>2, <2>3
<1>8. CASE WriteIdentity
  <2>1. rnid.at = "write" /\ before' = before
    BY <1>8 DEF WriteIdentity
  <2>2. CASE Fails
    BY <2>1, <2>2, StaysFree
  <2>3. CASE ~Fails
    <3>1. PICK p, id : p \in Path /\ files' = [files EXCEPT ![p] = id] /\ rnid' = NoRnid /\ ~Taken(p)
      <4>1. "out" \in Path /\ "out.pub" \in Path
        BY DEF Path
      <4>2. QED
        BY <1>8, <2>3, <4>1 DEF WriteIdentity
    <3>2. before[p] = Absent
      BY <2>1, <3>1, FreeIs
    <3>3. QED
      BY <2>1, <3>1, <3>2, EndsFree
  <2>4. QED
    BY <2>2, <2>3
<1>9. CASE RnidDies
  BY <1>9, StaysFree DEF RnidDies
<1>10. CASE \E t \in Text : Edit(t)
  <2>1. PICK t \in Text : Edit(t)
    BY <1>10
  <2>2. /\ files' = [files EXCEPT !["f"] = File("text", "none", t)] /\ rnid' = rnid
        /\ before' = [before EXCEPT !["f"] = IF @ = Absent THEN @ ELSE files'["f"]]
    BY <2>1 DEF Edit
  <2>3. Shape /\ FilesKept /\ before = [p \in Path |-> before[p]]
    BY DEF KeptInv
  <2>4. Shape'
    BY <2>2, <2>3, Written DEF Shape, IsRun
  <2>5. /\ before' = [p \in Path |-> before'[p]]
        /\ \A p \in Path : before[p] = Absent => before'[p] = Absent
    BY <2>2, <2>3
  <2>6. FilesKept'
    BY <2>2, <2>3, Written DEF FilesKept
  <2>7. QED
    BY <2>2, <2>4, <2>5, <2>6 DEF KeptInv, Exempt
<1>11. CASE UNCHANGED filesVars
  BY <1>11 DEF filesVars, KeptInv, Shape, IsRun, FilesKept, Exempt
<1>12. QED
  BY <1>1, <1>2, <1>3, <1>4, <1>5, <1>6, <1>7, <1>8, <1>9, <1>10, <1>11 DEF FilesNext

\* Without --force every file stays as the run found it or the user changed it, however
\* many files rnid writes and wherever it dies; a raw signature with an encoding of text
\* is exempt (get_operating_identity(), create_file(), write_identity()).
THEOREM NothingOverwritten == FilesSpec => []FilesKept
<1>1. KeptInv => FilesKept
  BY DEF KeptInv
<1>2. KeptInv /\ [FilesNext]_filesVars => KeptInv'
  BY KeptStep
<1>3. QED
  BY KeptInit, <1>1, <1>2, PTL DEF FilesSpec

--------------------------------------------------------------------------------
(* What each file may hold. FilesTypeOK alone is not inductive: what is    *)
(* about to be written into an open file must fit its path, too.           *)

\* The contents that some paths only take.
Fits(p, kind) ==
  /\ p = "f" => kind \in {"text", "empty"}
  /\ p = "f.rsg" => kind \in {"absent", "empty", "sig", "raw"}
  /\ p = "f.rfe" => kind \in {"absent", "empty", "enc"}
  /\ p = "id" => kind \in {"absent", "prv"}

\* An open file is one that the operation writes, and it is empty but for the user's.
Opening ==
  /\ rnid.path \in Path \ {"id"}
  /\ files[rnid.path] = Bytes0 \/ rnid.path = "f"
  /\ Fits(rnid.path, rnid.to.kind)
  /\ rnid.args.op = "encrypt" => rnid.path \in {"out", "f.rfe"}
  /\ rnid.args.op = "decrypt" => rnid.path \in {"out", "f"}

KindsInv ==
  /\ Shape
  /\ \A p \in Path : Fits(p, files[p].kind)
  /\ rnid.at = "fill" => Opening

\* An empty file fits wherever rnid opens one.
LEMMA EmptyFits ==
  /\ \A p \in Path \ {"id"} : Fits(p, Bytes0.kind)
  /\ \A p \in Path \ {"f"} : Fits(p, Absent.kind)
BY DEF Fits, Bytes0, Absent, Path

\* A step that leaves no file open.
LEMMA ClosedFits ==
  ASSUME KindsInv, IsRun(rnid'), rnid'.at # "fill",
         NEW p, NEW file, p \in Path => Fits(p, file.kind),
         files' = files \/ files' = [files EXCEPT ![p] = file]
  PROVE  KindsInv'
<1>1. Shape
  BY DEF KindsInv
<1>2. Shape'
  BY <1>1, Written DEF Shape, IsRun
<1>3. \A q \in Path : Fits(q, files'[q].kind)
  BY <1>1, Written DEF KindsInv
<1>4. QED
  BY <1>2, <1>3 DEF KindsInv

\* The end of an operation, with what it has written.
LEMMA EndFits ==
  ASSUME KindsInv, rnid' \in {NoRnid, AfterOp},
         NEW p, NEW file, p \in Path => Fits(p, file.kind),
         files' = files \/ files' = [files EXCEPT ![p] = file]
  PROVE  KindsInv'
<1>1. IsRun(rnid)
  BY DEF KindsInv, Shape
<1>2. IsRun(rnid')
  BY <1>1, RunOver
<1>3. rnid'.at # "fill"
  <2>1. CASE rnid' = NoRnid
    BY <2>1 DEF NoRnid
  <2>2. CASE rnid' = AfterOp /\ rnid' # NoRnid
    <3>1. rnid' = [rnid EXCEPT !.at = "write", !.to = Bytes0]
      BY <2>2 DEF AfterOp
    <3>2. QED
      BY <1>1, <3>1 DEF IsRun
  <2>3. QED
    BY <2>1, <2>2
<1>4. QED
  BY <1>2, <1>3, ClosedFits

LEMMA NothingFits ==
  ASSUME KindsInv, Fails \/ Printed
  PROVE  KindsInv'
<1>1. rnid' \in {NoRnid, AfterOp} /\ files' = files
  BY DEF Fails, Printed
<1>2. "none" \notin Path
  BY DEF Path
<1>3. QED
  BY <1>1, <1>2, EndFits

\* A file is opened for what fits it.
LEMMA OpenFits ==
  ASSUME KindsInv, NEW p \in Path \ {"id"}, NEW to, Open(p, to), Fits(p, to.kind),
         rnid.args.op = "encrypt" => p \in {"out", "f.rfe"},
         rnid.args.op = "decrypt" => p \in {"out", "f"}
  PROVE  KindsInv'
<1>1. Shape
  BY DEF KindsInv
<1>2. /\ files' = [files EXCEPT ![p] = Bytes0]
      /\ rnid' = [rnid EXCEPT !.at = "fill", !.path = p, !.to = to]
  BY DEF Open
<1>3. rnid' = [at |-> "fill", args |-> rnid.args, id |-> rnid.id, path |-> p, to |-> to]
  BY <1>1, <1>2 DEF Shape, IsRun
<1>4. IsRun(rnid') /\ rnid'.args = rnid.args /\ rnid'.path = p /\ rnid'.to = to
  BY <1>3 DEF IsRun
<1>5. Shape'
  BY <1>1, <1>2, <1>4, Written DEF Shape, IsRun
<1>6. \A q \in Path : files'[q] = IF q = p THEN Bytes0 ELSE files[q]
  BY <1>1, <1>2, Written
<1>7. \A q \in Path : Fits(q, files'[q].kind)
  BY <1>6, EmptyFits DEF KindsInv
<1>8. Opening'
  BY <1>4, <1>6 DEF Opening
<1>9. QED
  BY <1>5, <1>7, <1>8 DEF KindsInv

LEMMA KindsInit == FilesInit => KindsInv
<1>1. SUFFICES ASSUME FilesInit PROVE KindsInv
  OBVIOUS
<1>2. PICK t \in Text : files = [p \in Path |-> IF p = "f" THEN File("text", "none", t) ELSE Absent]
  BY <1>1 DEF FilesInit
<1>3. Shape /\ rnid.at = "over"
  BY <1>1, FilesInitHolds DEF SignedInv, FilesInit, NoRnid
<1>4. ASSUME NEW p \in Path PROVE Fits(p, files[p].kind)
  <2>1. CASE p = "f"
    BY <1>2, <2>1 DEF Fits, File
  <2>2. CASE p # "f"
    BY <1>2, <2>2, EmptyFits
  <2>3. QED
    BY <2>1, <2>2
<1>5. QED
  BY <1>3, <1>4 DEF KindsInv

LEMMA GetIdentityFits == ASSUME KindsInv, GetIdentity PROVE KindsInv'
<1>1. PICK args, id :
        /\ \/ rnid' = NoRnid
           \/ rnid' = [at |-> "op", args |-> args, id |-> id, path |-> "none", to |-> Bytes0]
        /\ files' = files \/ files' = [files EXCEPT !["id"] = File("prv", args.key, "none")]
  BY DEF GetIdentity
<1>2. IsRun(rnid') /\ rnid'.at # "fill"
  BY <1>1 DEF IsRun, NoRnid
<1>3. Fits("id", File("prv", args.key, "none").kind)
  BY DEF Fits, File
<1>4. QED
  BY <1>1, <1>2, <1>3, ClosedFits

LEMMA SignFits == ASSUME KindsInv, Sign PROVE KindsInv'
<1>1. CASE Fails \/ Printed
  BY <1>1, NothingFits
<1>2. CASE ~(Fails \/ Printed)
  <2>1. PICK k \in {"raw", "sig"} : Open("f.rsg", File(k, rnid.id.by, files["f"].of))
    BY <1>2 DEF Sign
  <2>2. Fits("f.rsg", File(k, rnid.id.by, files["f"].of).kind)
    BY <2>1 DEF Fits, File
  <2>3. "f.rsg" \in Path \ {"id"} /\ rnid.args.op = "sign"
    BY DEF Path, Sign, Op
  <2>4. QED
    BY <2>1, <2>2, <2>3, OpenFits
<1>3. QED
  BY <1>1, <1>2

LEMMA SignMessageFits == ASSUME KindsInv, NEW t, SignMessage(t) PROVE KindsInv'
<1>1. CASE Fails \/ Printed
  BY <1>1, NothingFits
<1>2. CASE ~(Fails \/ Printed)
  <2>1. Open("out.rsm", File("msg", rnid.id.by, t))
    BY <1>2 DEF SignMessage
  <2>2. Fits("out.rsm", File("msg", rnid.id.by, t).kind)
    BY DEF Fits
  <2>3. "out.rsm" \in Path \ {"id"} /\ rnid.args.op = "message"
    BY DEF Path, SignMessage, Op
  <2>4. QED
    BY <2>1, <2>2, <2>3, OpenFits
<1>3. QED
  BY <1>1, <1>2

\* Encryption opens its own output, or that of -w; decryption the user's file, or that.
LEMMA CryptFits == ASSUME KindsInv, Encrypt \/ Decrypt PROVE KindsInv'
<1>1. CASE Fails
  BY <1>1, NothingFits
<1>2. CASE ~Fails
  <2>1. "out" \in Path \ {"id"} /\ "f.rfe" \in Path \ {"id"} /\ "f" \in Path \ {"id"}
    BY DEF Path
  <2>2. CASE Encrypt
    <3>1. PICK p \in {"out", "f.rfe"} : Open(p, Bytes0)
      BY <1>2, <2>2 DEF Encrypt
    <3>2. rnid.args.op = "encrypt"
      BY <2>2 DEF Encrypt, Op
    <3>3. QED
      BY <2>1, <3>1, <3>2, EmptyFits, OpenFits
  <2>3. CASE Decrypt
    <3>1. PICK p \in {"out", "f"} : Open(p, Bytes0)
      BY <1>2, <2>3 DEF Decrypt
    <3>2. rnid.args.op = "decrypt"
      BY <2>3 DEF Decrypt, Op
    <3>3. QED
      BY <2>1, <3>1, <3>2, EmptyFits, OpenFits
  <2>4. QED
    BY <2>2, <2>3
<1>3. QED
  BY <1>1, <1>2

LEMMA FillFits == ASSUME KindsInv, Fill PROVE KindsInv'
<1>1. CASE Fails
  BY <1>1, NothingFits
<1>2. CASE ~Fails
  <2>1. files' = [files EXCEPT ![rnid.path] = Filling] /\ rnid' = AfterOp
    BY <1>2 DEF Fill
  <2>2. Opening
    BY DEF Fill, KindsInv
  <2>3. Fits(rnid.path, Filling.kind)
    <3>1. CASE Filling = rnid.to
      BY <2>2, <3>1 DEF Opening
    <3>2. CASE Filling # rnid.to
      <4>1. \/ rnid.args.op = "encrypt" /\ Filling.kind = "enc"
            \/ rnid.args.op = "decrypt" /\ Filling.kind = "text"
        BY <3>2 DEF Filling, File
      <4>2. QED
        BY <2>2, <4>1 DEF Opening, Fits
    <3>3. QED
      BY <3>1, <3>2
  <2>4. QED
    BY <2>1, <2>3, EndFits
<1>3. QED
  BY <1>1, <1>2

LEMMA WriteIdentityFits == ASSUME KindsInv, WriteIdentity PROVE KindsInv'
<1>1. CASE Fails
  BY <1>1, NothingFits
<1>2. CASE ~Fails
  <2>1. PICK p, file : /\ p \in {"out", "out.pub"}
                       /\ files' = [files EXCEPT ![p] = file] /\ rnid' = NoRnid
    BY <1>2 DEF WriteIdentity
  <2>2. Fits(p, file.kind)
    BY <2>1 DEF Fits
  <2>3. QED
    BY <2>1, <2>2, EndFits
<1>3. QED
  BY <1>1, <1>2

\* The user writes text, whether the file is open or not.
LEMMA EditFits == ASSUME KindsInv, NEW t, Edit(t) PROVE KindsInv'
<1>1. files' = [files EXCEPT !["f"] = File("text", "none", t)] /\ rnid' = rnid /\ Shape
  BY DEF Edit, KindsInv
<1>2. /\ files' = [q \in Path |-> files'[q]]
      /\ \A q \in Path : files'[q] = IF q = "f" THEN File("text", "none", t) ELSE files[q]
  BY <1>1, Written
<1>3. Fits("f", File("text", "none", t).kind)
  BY DEF Fits, File
<1>4. \A q \in Path : Fits(q, files'[q].kind)
  BY <1>2, <1>3 DEF KindsInv
<1>5. Shape'
  BY <1>1, <1>2 DEF Shape, IsRun
<1>6. Opening => Opening'
  BY <1>1, <1>2 DEF Opening
<1>7. QED
  BY <1>1, <1>4, <1>5, <1>6 DEF KindsInv

\* One step for each of rnid's operations and of the user's.
LEMMA KindsStep == ASSUME KindsInv, [FilesNext]_filesVars PROVE KindsInv'
<1>1. CASE GetIdentity
  BY <1>1, GetIdentityFits
<1>2. CASE NoOperation \/ ValidateFile \/ ValidateMessage \/ RnidDies
  BY <1>2, NothingFits DEF NoOperation, ValidateFile, ValidateMessage, RnidDies
<1>3. CASE Sign \/ \E t \in Text : SignMessage(t)
  BY <1>3, SignFits, SignMessageFits
<1>4. CASE Encrypt \/ Decrypt
  BY <1>4, CryptFits
<1>5. CASE Fill \/ WriteIdentity
  BY <1>5, FillFits, WriteIdentityFits
<1>6. CASE \E t \in Text : Edit(t)
  BY <1>6, EditFits
<1>7. CASE UNCHANGED filesVars
  BY <1>7 DEF filesVars, KindsInv, Shape, IsRun, Opening
<1>8. QED
  BY <1>1, <1>2, <1>3, <1>4, <1>5, <1>6, <1>7 DEF FilesNext

\* Wherever a run dies and whatever is edited between the runs, the signature's path
\* holds a signature or nothing, that of the encrypted form such a form or nothing, the
\* user's file text or nothing, and rnid's identity file a private identity: no operation
\* writes where another one's output belongs (create_file(), write_identity()).
THEOREM FilesTypeCorrect == FilesSpec => []FilesTypeOK
<1>1. KindsInv => FilesTypeOK
  <2>1. {"f", "f.rsg", "f.rfe", "id"} \subseteq Path
    BY DEF Path
  <2>2. QED
    BY <2>1 DEF KindsInv, Opening, Fits, FilesTypeOK
<1>2. KindsInv /\ [FilesNext]_filesVars => KindsInv'
  BY KindsStep
<1>3. QED
  BY KindsInit, <1>1, <1>2, PTL DEF FilesSpec

--------------------------------------------------------------------------------
(* The identity file. RunningIsStored alone is not inductive: a program    *)
(* that is about to save must be known to be the only one, on a file that  *)
(* is still empty. That is what create_new gives it.                       *)

\* The program that has created the file is alone with it until it has written it.
OneSaves ==
  \A r \in Runner :
    runner[r].at = "save" =>
      /\ stored = EmptyFile
      /\ \A q \in Runner : runner[q].at = "save" => q = r

IdentityInv == IdentityTypeOK /\ OneSaves /\ RunningIsStored

\* The contents of the file are told apart.
LEMMA Contents ==
  /\ NoFile # EmptyFile
  /\ \A k \in Identity : <<k>> # NoFile /\ <<k>> # EmptyFile /\ <<k>>[1] = k
<1>1. NoFile # EmptyFile
  BY DEF NoFile, EmptyFile
<1>2. ASSUME NEW k \in Identity
      PROVE <<k>> # NoFile /\ <<k>> # EmptyFile /\ <<k>>[1] = k
  <2>1. k # "none"
    BY IdentityAssumption DEF IdentityAssumption
  <2>2. QED
    BY <2>1 DEF NoFile, EmptyFile
<1>3. QED
  BY <1>1, <1>2

\* A step of one program, from what it was at to what it is at.
LEMMA Moved ==
  ASSUME IdentityTypeOK, NEW r \in Runner,
         NEW a \in {"off", "create", "save", "runs"}, NEW k \in Identity \cup {"none"},
         (a = "off") <=> (k = "none"), At(r, a, k)
  PROVE  /\ runner' \in [Runner -> [at : {"off", "create", "save", "runs"},
                                     key : Identity \cup {"none"}]]
         /\ \A q \in Runner : (runner'[q].at = "off") <=> (runner'[q].key = "none")
         /\ runner'[r] = [at |-> a, key |-> k]
         /\ \A q \in Runner \ {r} : runner'[q] = runner[q]
<1>1. runner \in [Runner -> [at : {"off", "create", "save", "runs"}, key : Identity \cup {"none"}]]
  BY DEF IdentityTypeOK
<1>2. runner' = [runner EXCEPT ![r] = [at |-> a, key |-> k]]
  BY DEF At
<1>3. runner'[r] = [at |-> a, key |-> k] /\ \A q \in Runner \ {r} : runner'[q] = runner[q]
  BY <1>1, <1>2
<1>4. [at |-> a, key |-> k] \in [at : {"off", "create", "save", "runs"}, key : Identity \cup {"none"}]
  OBVIOUS
<1>5. runner' \in [Runner -> [at : {"off", "create", "save", "runs"}, key : Identity \cup {"none"}]]
  BY <1>1, <1>2, <1>4
<1>6. \A q \in Runner : (runner'[q].at = "off") <=> (runner'[q].key = "none")
  BY <1>3 DEF IdentityTypeOK
<1>7. QED
  BY <1>3, <1>5, <1>6

\* No program runs when there is no file yet.
LEMMA InitHolds == IdentityInit => IdentityInv
<1>1. SUFFICES ASSUME IdentityInit PROVE IdentityInv
  OBVIOUS
<1>2. \A r \in Runner : runner[r] = [at |-> "off", key |-> "none"]
  BY <1>1 DEF IdentityInit
<1>3. IdentityTypeOK
  <2>1. MaxDies \in Nat
    BY IdentityAssumption DEF IdentityAssumption
  <2>2. QED
    BY <1>1, <1>2, <2>1 DEF IdentityInit, IdentityTypeOK
<1>4. OneSaves /\ RunningIsStored
  BY <1>2 DEF OneSaves, RunningIsStored
<1>5. QED
  BY <1>3, <1>4 DEF IdentityInv

\* One step for each thing a program does with the file.
LEMMA StepHolds == IdentityInv /\ [IdentityNext]_identityVars => IdentityInv'
<1>1. SUFFICES ASSUME IdentityInv, [IdentityNext]_identityVars PROVE IdentityInv'
  OBVIOUS
<1>2. IdentityTypeOK /\ OneSaves /\ RunningIsStored
  BY <1>1 DEF IdentityInv
<1>3. ASSUME NEW r \in Runner, LoadIdentity(r) PROVE IdentityInv'
  <2>1. stored' = stored /\ dies' = dies /\ stored # NoFile /\ runner[r].at = "off"
    BY <1>3 DEF LoadIdentity
  <2>2. CASE stored = EmptyFile
    BY <1>2, <1>3, <2>1, <2>2
    DEF LoadIdentity, IdentityInv, IdentityTypeOK, OneSaves, RunningIsStored
  <2>3. CASE stored # EmptyFile
    <3>1. PICK k \in Identity : stored = <<k>>
      BY <1>2, <2>1, <2>3 DEF IdentityTypeOK
    <3>2. At(r, "runs", k) /\ k # "none"
      BY <1>3, <2>3, <3>1, Contents, IdentityAssumption DEF LoadIdentity, IdentityAssumption
    <3>3. IdentityTypeOK'
      BY <1>2, <2>1, <3>2, Moved DEF IdentityTypeOK
    <3>4. \A q \in Runner : runner'[q] = IF q = r THEN [at |-> "runs", key |-> k] ELSE runner[q]
      BY <1>2, <3>2, Moved
    <3>5. OneSaves'
      BY <1>2, <2>1, <3>4 DEF OneSaves
    <3>6. RunningIsStored'
      BY <1>2, <2>1, <3>1, <3>4 DEF RunningIsStored
    <3>7. QED
      BY <3>3, <3>5, <3>6 DEF IdentityInv
  <2>4. QED
    BY <2>2, <2>3
<1>4. ASSUME NEW r \in Runner, GenerateIdentity(r) PROVE IdentityInv'
  <2>1. PICK k \in Identity : At(r, "create", k) /\ stored' = stored /\ dies' = dies
    BY <1>4 DEF GenerateIdentity
  <2>2. k # "none"
    BY IdentityAssumption DEF IdentityAssumption
  <2>3. IdentityTypeOK'
    BY <1>2, <2>1, <2>2, Moved DEF IdentityTypeOK
  <2>4. \A q \in Runner : runner'[q] = IF q = r THEN [at |-> "create", key |-> k] ELSE runner[q]
    BY <1>2, <2>1, <2>2, Moved
  <2>5. OneSaves' /\ RunningIsStored'
    BY <1>2, <2>1, <2>4 DEF OneSaves, RunningIsStored
  <2>6. QED
    BY <2>3, <2>5 DEF IdentityInv
<1>5. ASSUME NEW r \in Runner, CreateIdentity(r) PROVE IdentityInv'
  <2>1. runner[r].at = "create" /\ dies' = dies
    BY <1>5 DEF CreateIdentity
  <2>2. runner[r].key \in Identity \cup {"none"} /\ runner[r].key # "none"
    BY <1>2, <2>1 DEF IdentityTypeOK
  <2>3. CASE stored = NoFile
    <3>1. stored' = EmptyFile /\ At(r, "save", runner[r].key)
      BY <1>5, <2>3 DEF CreateIdentity
    <3>2. IdentityTypeOK'
      BY <1>2, <2>1, <2>2, <3>1, Moved DEF IdentityTypeOK
    <3>3. \A q \in Runner : runner'[q] = IF q = r THEN [at |-> "save", key |-> runner[r].key]
                                         ELSE runner[q]
      BY <1>2, <2>2, <3>1, Moved
    <3>4. \A q \in Runner : runner[q].at # "save"
      BY <1>2, <2>3, Contents DEF OneSaves
    <3>5. \A q \in Runner : runner[q].at # "runs"
      BY <1>2, <2>3 DEF RunningIsStored, NoFile
    <3>6. OneSaves' /\ RunningIsStored'
      BY <3>1, <3>3, <3>4, <3>5 DEF OneSaves, RunningIsStored
    <3>7. QED
      BY <3>2, <3>6 DEF IdentityInv
  <2>4. CASE stored # NoFile
    <3>1. stored' = stored /\ At(r, "off", "none")
      BY <1>5, <2>4 DEF CreateIdentity
    <3>2. IdentityTypeOK'
      BY <1>2, <2>1, <3>1, Moved DEF IdentityTypeOK
    <3>3. \A q \in Runner : runner'[q] = IF q = r THEN [at |-> "off", key |-> "none"] ELSE runner[q]
      BY <1>2, <3>1, Moved
    <3>4. OneSaves' /\ RunningIsStored'
      BY <1>2, <3>1, <3>3 DEF OneSaves, RunningIsStored
    <3>5. QED
      BY <3>2, <3>4 DEF IdentityInv
  <2>5. QED
    BY <2>3, <2>4
<1>6. ASSUME NEW r \in Runner, SaveIdentity(r) PROVE IdentityInv'
  <2>1. /\ runner[r].at = "save" /\ stored' = <<runner[r].key>> /\ dies' = dies
        /\ At(r, "runs", runner[r].key)
    BY <1>6 DEF SaveIdentity
  <2>2. runner[r].key \in Identity /\ runner[r].key # "none"
    BY <1>2, <2>1 DEF IdentityTypeOK
  <2>3. IdentityTypeOK'
    BY <1>2, <2>1, <2>2, Moved DEF IdentityTypeOK
  <2>4. \A q \in Runner : runner'[q] = IF q = r THEN [at |-> "runs", key |-> runner[r].key]
                                       ELSE runner[q]
    BY <1>2, <2>1, <2>2, Moved
  <2>5. \A q \in Runner \ {r} : runner[q].at # "save"
    BY <1>2, <2>1 DEF OneSaves
  <2>6. \A q \in Runner : runner[q].at # "runs"
    <3>1. SUFFICES ASSUME NEW q \in Runner, runner[q].at = "runs" PROVE FALSE
      OBVIOUS
    <3>2. stored = EmptyFile /\ stored = <<runner[q].key>>
      BY <1>2, <2>1, <3>1 DEF OneSaves, RunningIsStored
    <3>3. runner[q].key \in Identity
      BY <1>2, <3>1 DEF IdentityTypeOK
    <3>4. QED
      BY <3>2, <3>3, Contents
  <2>7. OneSaves' /\ RunningIsStored'
    BY <2>1, <2>4, <2>5, <2>6 DEF OneSaves, RunningIsStored
  <2>8. QED
    BY <2>3, <2>7 DEF IdentityInv
<1>7. ASSUME NEW r \in Runner, RunnerDies(r) PROVE IdentityInv'
  <2>1. At(r, "off", "none") /\ stored' = stored /\ dies < MaxDies /\ dies' = dies + 1
    BY <1>7 DEF RunnerDies
  <2>2. dies' \in 0 .. MaxDies
    BY <1>2, <2>1, IdentityAssumption DEF IdentityTypeOK, IdentityAssumption
  <2>3. IdentityTypeOK'
    BY <1>2, <2>1, <2>2, Moved DEF IdentityTypeOK
  <2>4. \A q \in Runner : runner'[q] = IF q = r THEN [at |-> "off", key |-> "none"] ELSE runner[q]
    BY <1>2, <2>1, Moved
  <2>5. OneSaves' /\ RunningIsStored'
    BY <1>2, <2>1, <2>4 DEF OneSaves, RunningIsStored
  <2>6. QED
    BY <2>3, <2>5 DEF IdentityInv
<1>8. CASE UNCHANGED identityVars
  BY <1>2, <1>8 DEF identityVars, IdentityInv, IdentityTypeOK, OneSaves, RunningIsStored
<1>9. QED
  BY <1>1, <1>3, <1>4, <1>5, <1>6, <1>7, <1>8 DEF IdentityNext

\* Every program is at a step of load_or_create_identity, with an identity of its own as
\* soon as it has one, and the file holds nothing but an identity.
THEOREM IdentityTypeCorrect == IdentitySpec => []IdentityTypeOK
<1>1. IdentityInv => IdentityTypeOK
  BY DEF IdentityInv
<1>2. QED
  BY InitHolds, StepHolds, <1>1, PTL DEF IdentitySpec

\* For any number of programs that start and die on one file at any time: whoever runs
\* with an identity finds it in the file (load_or_create_identity).
THEOREM RunningIdentityIsStored == IdentitySpec => []RunningIsStored
<1>1. IdentityInv => RunningIsStored
  BY DEF IdentityInv
<1>2. QED
  BY InitHolds, StepHolds, <1>1, PTL DEF IdentitySpec

\* An identity that is in the file is never replaced: no start, race or crash takes it
\* away from the destinations that were announced with it.
THEOREM StoredIdentityStays ==
  IdentitySpec => [][stored \notin {NoFile, EmptyFile} => stored' = stored]_identityVars
<1>1. IdentityInv /\ [IdentityNext]_identityVars
        => [stored \notin {NoFile, EmptyFile} => stored' = stored]_identityVars
  <2>1. SUFFICES ASSUME IdentityInv, IdentityNext, stored \notin {NoFile, EmptyFile}
                 PROVE stored' = stored
    OBVIOUS
  <2>2. PICK r \in Runner : \/ LoadIdentity(r) \/ GenerateIdentity(r) \/ CreateIdentity(r)
                            \/ SaveIdentity(r) \/ RunnerDies(r)
    BY <2>1 DEF IdentityNext
  <2>3. ~SaveIdentity(r)
    BY <2>1 DEF SaveIdentity, IdentityInv, OneSaves
  <2>4. QED
    BY <2>1, <2>2, <2>3 DEF LoadIdentity, GenerateIdentity, CreateIdentity, RunnerDies
<1>2. QED
  BY InitHolds, StepHolds, <1>1, PTL DEF IdentitySpec

--------------------------------------------------------------------------------
(* The programs together. They have no state in common: a behaviour of all *)
(* of them is, seen from each, one of its own or one where it stands       *)
(* still, so that what is proved of each holds of all.                     *)

\* A step of one program is a stutter of the others.
LEMMA StepOfEach ==
  ASSUME [CommandsNext]_commandsVars
  PROVE  /\ [FetchNext]_fetchVars /\ [PerfNext]_perfVars /\ [InitiatorNext]_initiatorVars
         /\ [RpcNext]_rpcVars /\ [FilesNext]_filesVars /\ [IdentityNext]_identityVars
<1>1. CASE Fetching
  BY <1>1 DEF Fetching
<1>2. CASE Measuring
  BY <1>2 DEF Measuring
<1>3. CASE RemoteShell
  BY <1>3 DEF RemoteShell
<1>4. CASE Calling
  BY <1>4 DEF Calling
<1>5. CASE Signing
  BY <1>5 DEF Signing
<1>6. CASE Identifying
  BY <1>6 DEF Identifying
<1>7. CASE UNCHANGED commandsVars
  BY <1>7 DEF commandsVars
<1>8. QED
  BY <1>1, <1>2, <1>3, <1>4, <1>5, <1>6, <1>7 DEF CommandsNext

\* The programs run from a command line do not disturb each other: together they
\* implement the specification of each, git and rngit, rnperf, the initiator of rnsh, the
\* clients of the RPC port, rnid, and the identity file.
THEOREM EachProgramIsItself ==
  CommandsSpec => /\ FetchSpec /\ PerfSpec /\ InitiatorSpec
                  /\ RpcSpec /\ FilesSpec /\ IdentitySpec
<1>1. CommandsInit => /\ FetchInit /\ PerfInit /\ InitiatorInit
                      /\ RpcInit /\ FilesInit /\ IdentityInit
  BY DEF CommandsInit
<1>2. [CommandsNext]_commandsVars =>
        /\ [FetchNext]_fetchVars /\ [PerfNext]_perfVars /\ [InitiatorNext]_initiatorVars
        /\ [RpcNext]_rpcVars /\ [FilesNext]_filesVars /\ [IdentityNext]_identityVars
  BY StepOfEach
<1>3. QED
  BY <1>1, <1>2, PTL
  DEF CommandsSpec, FetchSpec, PerfSpec, InitiatorSpec, RpcSpec, FilesSpec, IdentitySpec

\* Whatever is run, the state of every program keeps its types.
THEOREM CommandsTypeCorrect == CommandsSpec => []CommandsTypeOK
<1>1. FetchTypeOK /\ PerfTypeOK /\ InitiatorTypeOK /\ RpcTypeOK /\ FilesTypeOK /\ IdentityTypeOK
        => CommandsTypeOK
  BY DEF CommandsTypeOK
<1>2. QED
  BY <1>1, EachProgramIsItself, FetchTypeCorrect, PerfTypeCorrect, InitiatorTypeCorrect, RpcTyped,
     FilesTypeCorrect, IdentityTypeCorrect, PTL

\* What the run of the programs checks of each of them holds of all of them together.
THEOREM CommandsCorrect ==
  CommandsSpec => [](/\ CloneFaithful /\ ResultHonest /\ InputFiltered /\ OutputGapFree
                     /\ OutcomeTruthful /\ RunningIsStored /\ FilesKept /\ ValidMeansSigned)
<1>1. QED
  BY EachProgramIsItself, ClonesAreFaithful, ResultsAreHonest, InputIsFiltered, OutputIsGapFree,
     OutcomesAreTrue, RunningIdentityIsStored, NothingOverwritten, ValidIsSigned, PTL
================================================================================
