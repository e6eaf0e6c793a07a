------------------------- MODULE RngitRepository_proofs -------------------------
(***************************************************************************)
(* Proofs about RngitRepository for any peers, lists, branches, commits,   *)
(* working repositories and bounds: who may move a branch and how, whose   *)
(* the repository is, and that what a peer reports is what it has pushed.  *)
(***************************************************************************)
EXTENDS RngitRepository, FiniteSetTheorems, TLAPS

--------------------------------------------------------------------------------
(* The inductive invariant.                                                *)

Kind == {"list", "push", "delete", "create", "update"}
Tree == SUBSET Change

RequestType ==
  [peer : Peer, kind : Kind, refs : SUBSET Ref, commit : Tree, prereqs : SUBSET Commit,
   objects : SUBSET Commit, carries : BOOLEAN, force : BOOLEAN, base : Tree, live : BOOLEAN]

ClientType ==
  [at : {"idle", "list", "push", "other"}, force : BOOLEAN, local : Locals,
   view : [Ref -> Tree], todo : SUBSET Ref, cur : SUBSET Ref, ok : SUBSET Ref,
   bad : BOOLEAN, result : Results]

AnswerType == {NoAnswer, Refused} \cup {Ok(v) : v \in [Ref -> Tree]}

StoreOK ==
  /\ repo \in {"missing", "made", "bare"}
  /\ acl \in Peer \cup {NoPeer}
  /\ refs \in [Ref -> Tree] /\ objects \in SUBSET Commit
  /\ wrote \in SUBSET (Peer \X Ref \X Tree)
  /\ crashes \in Nat

QueuesOK ==
  /\ inbox \in SUBSET RequestType
  /\ job = {} \/ \E q \in RequestType : job = {q} /\ q.kind \in {"push", "update", "create"}

PeersOK ==
  /\ answer \in [Peer -> AnswerType]
  /\ client \in [Peer -> ClientType]
  /\ disturbed \in [Peer -> BOOLEAN]

\* Until create_repository() is through there is no owner and there are no branches.
BornEmpty == repo # "bare" \/ job # {} => acl = NoPeer /\ refs = NoRefs

\* The repository has whatever is in the history of what it has, of its branches, and of
\* what peers were shown of them.
AllStored ==
  /\ \A c \in objects : History(c) \subseteq objects
  /\ \A r \in Ref : History(refs[r]) \subseteq objects
  /\ \A p \in Peer : \A r \in Ref :
       History(client[p].view[r]) \cup History(answer[p].refs[r]) \subseteq objects

\* A push brings the history of what it sets, above commits the server has. To force a
\* branch is git's choice, or rngit's that was shown where the branch is.
PushOK(q) ==
  /\ q.force => q.peer \in Helpers \/ q.base # NoCommit
  /\ q.prereqs \subseteq objects
  /\ q.refs # {} => q.commit # NoCommit /\ History(q.commit) \subseteq q.objects
  /\ \A c \in q.objects : History(c) \subseteq q.objects

PushesOK == \A q \in inbox \cup job : q.kind = "push" => PushOK(q)

\* The request a peer waits for is the one its command has made last.
Asks(c, q) ==
  \/ c.at = "list" /\ q.kind = "list"
  \/ /\ c.at = "push" /\ q.kind = "push" /\ q.refs = c.cur /\ c.cur # {}
     /\ \A r \in c.cur : /\ q.commit = c.local.tips[r]
                         /\ q.carries <=> Carried(c, r)
                         /\ q.force <=> OpForce(q.peer, c, r)
  \/ c.at = "other" /\ q.kind \notin {"list", "push"}

\* A peer waits for one request at most, and for none whose answer has come.
OneAsked ==
  /\ \A q \in inbox \cup job : q.live => answer[q.peer] = NoAnswer /\ Asks(client[q.peer], q)
  /\ \A q, o \in inbox \cup job : q.live /\ o.live /\ q.peer = o.peer => q = o
  /\ \A q \in inbox \cap job : ~q.live
  /\ \A p \in Peer : client[p].at = "idle" => answer[p] = NoAnswer

\* An answer that the branch was pushed is of a request that set it.
OkIsWritten ==
  \A p \in Peer : client[p].at = "push" /\ answer[p].kind = "ok" =>
    \A r \in client[p].cur : <<p, r, client[p].local.tips[r]>> \in wrote

\* Why a push cannot have all its way.
Explained(c) ==
  \E r \in Outdated(c) :
    \/ ~c.force /\ ~FastForward(c, r)
    \/ \E s \in Ref : c.local.tips[r] \subseteq c.view[s]

\* Peer p may write, or the repository will be or is being made for it.
MayPush(p) == Creates(p) \/ (repo = "bare" /\ MayWrite(p))
Access(p) ==
  \/ job = {} /\ MayPush(p)
  \/ \E q \in job : q.live /\ q.peer = p

\* What command c of p has pushed so far, with an answer of kind k to look at. Branches that
\* are still to be pushed are where the list showed them, the others where they should be,
\* or there is a reason.
Progress(p, c, k) ==
  /\ Access(p)
  /\ c.todo \cap c.cur = {}
  /\ \A r \in Ref : \/ c.local.tips[r] = NoCommit \/ r \in c.todo \cup c.cur
                    \/ c.bad \/ refs[r] = c.local.tips[r]
  /\ \A r \in c.todo : refs[r] = c.view[r]
  /\ \A r \in c.cur : refs[r] = IF k = "ok" THEN c.local.tips[r] ELSE c.view[r]
  /\ c.bad \/ k = "refused" => Explained(c)

\* While the server does nothing else.
Undisturbed ==
  \A p \in Peer : ~disturbed[p] =>
    /\ client[p].at = "list" /\ answer[p].kind = "ok" => answer[p].refs = refs /\ Access(p)
    /\ client[p].at = "push" => Progress(p, client[p], answer[p].kind)

\* A repository is made for one: the others' lists are out of date, or they have none.
MadeForOne ==
  \A q \in job, p \in Peer : ~(q.live /\ q.peer = p) /\ ~disturbed[p] =>
    client[p].at # "push" /\ client[p].result # "pushed" /\ answer[p] = NoAnswer

\* A command that goes on has no result, and pushes only what differs.
Running ==
  \A p \in Peer :
    /\ client[p].at # "idle" => client[p].result = "none"
    /\ client[p].at = "push" => client[p].todo \cup client[p].cur \subseteq Outdated(client[p])

RepositoryInv ==
  /\ StoreOK /\ QueuesOK /\ PeersOK
  /\ BornEmpty /\ OwnedOrGone /\ WritersOnly
  /\ AllStored /\ PushesOK
  /\ OneAsked /\ OkIsWritten /\ ReportedIsWritten
  /\ Undisturbed /\ MadeForOne /\ Running /\ PushComplete /\ RefusalExplained

--------------------------------------------------------------------------------
(* Commits, requests and commands.                                         *)

LEMMA Trees ==
  /\ Tree = Commit \cup {NoCommit} /\ NoCommit \in Tree
  /\ NoRefs \in [Ref -> Tree]
  /\ \A c \in Tree : History(c) \in SUBSET Commit
<1>1. Tree = Commit \cup {NoCommit} /\ NoCommit \in Tree
  BY DEF Tree, Commit, NoCommit
<1>2. NoRefs \in [Ref -> Tree]
  BY <1>1 DEF NoRefs
<1>3. \A c \in Tree : History(c) \in SUBSET Commit
  BY DEF History, Tree, Commit
<1>4. QED
  BY <1>1, <1>2, <1>3

LEMMA LocalTypes ==
  /\ \A l \in Locals : l.tips \in [Ref -> Tree] /\ l.objects \in SUBSET Commit
  /\ (CHOOSE l \in Locals : TRUE) \in Locals
BY RepositoryAssumption, Trees

LEMMA IdleType ==
  /\ Idle \in ClientType /\ Idle.at = "idle" /\ Idle.ok = {} /\ Idle.result = "none"
  /\ Idle.view = NoRefs
<1>1. (CHOOSE l \in Locals : TRUE) \in Locals
  BY LocalTypes
<1>2. QED
  BY <1>1, Trees DEF Idle, ClientType, Results

LEMMA AnswerTypes ==
  /\ NoAnswer \in AnswerType /\ Refused \in AnswerType
  /\ NoAnswer.kind = "none" /\ NoAnswer.refs = NoRefs /\ Refused.kind = "refused" /\ Refused.refs = NoRefs
  /\ \A v \in [Ref -> Tree] :
       Ok(v) \in AnswerType /\ Ok(v).kind = "ok" /\ Ok(v).refs = v
  /\ \A a \in AnswerType :
       /\ a.kind \in {"none", "ok", "refused"} /\ a.refs \in [Ref -> Tree]
       /\ a.kind = "none" <=> a = NoAnswer
       /\ a.kind # "ok" => a.refs = NoRefs
<1>1. NoAnswer \in AnswerType /\ Refused \in AnswerType /\ \A v \in [Ref -> Tree] : Ok(v) \in AnswerType
  BY DEF AnswerType
<1>2. /\ NoAnswer.kind = "none" /\ NoAnswer.refs = NoRefs
      /\ Refused.kind = "refused" /\ Refused.refs = NoRefs
      /\ \A v : Ok(v).kind = "ok" /\ Ok(v).refs = v
  BY DEF NoAnswer, Refused, Ok
<1>3. ASSUME NEW a \in AnswerType PROVE a = NoAnswer \/ a = Refused \/ \E v \in [Ref -> Tree] : a = Ok(v)
  BY <1>3 DEF AnswerType
<1>4. QED
  BY <1>1, <1>2, <1>3, Trees

LEMMA RequestTypes ==
  ASSUME NEW p \in Peer, NEW k \in Kind, NEW R \in SUBSET Ref
  PROVE  /\ Request(p, k, R) \in RequestType
         /\ Request(p, k, R).peer = p /\ Request(p, k, R).kind = k /\ Request(p, k, R).refs = R
         /\ Request(p, k, R).live
BY Trees DEF Request, RequestType

LEMMA OtherTypes ==
  ASSUME NEW p \in Peer, NEW q \in Others(p)
  PROVE  q \in RequestType /\ q.peer = p /\ q.live /\ q.kind \notin {"list", "push"}
<1>1. CASE q = Request(p, "create", {}) \/ \E r \in Ref : q = Request(p, "delete", {r})
  <2>1. PICK R \in SUBSET Ref, k \in {"create", "delete"} : q = Request(p, k, R)
    BY <1>1
  <2>2. k \in Kind /\ k \notin {"list", "push"}
    BY DEF Kind
  <2>3. QED
    BY <2>1, <2>2, RequestTypes
<1>2. CASE \E R \in (SUBSET Ref) \ {{}}, c \in Commit, f \in BOOLEAN : q = UpdateRequest(p, R, c, f)
  <2>1. PICK R \in (SUBSET Ref) \ {{}}, c \in Commit, f \in BOOLEAN : q = UpdateRequest(p, R, c, f)
    BY <1>2
  <2> DEFINE req == Request(p, "update", R)
  <2>2. /\ req \in RequestType /\ req.peer = p /\ req.kind = "update" /\ req.live
        /\ q = [req EXCEPT !.commit = c, !.force = f] /\ c \in Tree
    BY <2>1, RequestTypes, Trees DEF Kind, UpdateRequest
  <2> HIDE DEF req
  <2>3. q \in RequestType /\ q.peer = req.peer /\ q.kind = req.kind /\ q.live = req.live
    BY <2>2 DEF RequestType
  <2>4. QED
    BY <2>2, <2>3
<1>3. QED
  BY SMTT(20), <1>1, <1>2 DEF Others

LEMMA Histories ==
  /\ History(NoCommit) = {}
  /\ \A c : NoCommit \notin History(c)
  /\ \A c, d : d \in History(c) => History(d) \subseteq History(c)
  /\ \A c \in Commit : c \in History(c)
BY DEF History, NoCommit, Commit

\* What goes into a push of a branch that command c is to push, by what c was shown.
LEMMA PushTypes ==
  ASSUME NEW p \in Peer, NEW c \in ClientType, NEW r \in c.todo
  PROVE  LET q == PushRequest(p, c, r) IN
         /\ q \in RequestType /\ q.peer = p /\ q.kind = "push" /\ q.refs = {r} /\ q.live
         /\ q.commit = c.local.tips[r] /\ (q.carries <=> Carried(c, r))
         /\ q.force <=> OpForce(p, c, r)
         /\ (\A t \in Ref : History(c.view[t]) \subseteq objects) /\ q.commit # NoCommit => PushOK(q)
<1>1. /\ c.local \in Locals /\ c.local.tips \in [Ref -> Tree] /\ c.view \in [Ref -> Tree]
      /\ c.todo \in SUBSET Ref /\ c.ok \in SUBSET Ref /\ c.force \in BOOLEAN /\ r \in Ref
  BY LocalTypes DEF ClientType
<1>2. \A t \in Ref : Excluded(c, t) \in SUBSET Commit /\ History(c.local.tips[t]) \in SUBSET Commit
  BY <1>1, Trees DEF Excluded
<1> DEFINE bundle == IF p \in Helpers THEN {r} ELSE c.todo \cup c.ok
           pre == UNION {Excluded(c, t) : t \in bundle}
           obj == UNION {History(c.local.tips[t]) : t \in bundle}
           req == Request(p, "push", {r})
           q == PushRequest(p, c, r)
<1>3. bundle \in SUBSET Ref /\ r \in bundle
  BY <1>1
<1>4. pre \in SUBSET Commit /\ obj \in SUBSET Commit
  BY <1>2, <1>3
<1>5. Carried(c, r) \in BOOLEAN /\ OpForce(p, c, r) \in BOOLEAN
  BY <1>1 DEF Carried, OpForce
<1>6. OpForce(p, c, r) => p \in Helpers \/ c.view[r] # NoCommit
  BY DEF OpForce
<1>7. ASSUME \A t \in Ref : History(c.view[t]) \subseteq objects PROVE pre \subseteq objects
  <2>1. SUFFICES ASSUME NEW t \in bundle, NEW e \in Excluded(c, t) PROVE e \in objects
    OBVIOUS
  <2>2. PICK d \in Prereqs(c) : e \subseteq d
    BY DEF Excluded
  <2>3. PICK u \in Ref : d = c.view[u]
    BY DEF Prereqs
  <2>4. e \in History(d)
    BY <2>2 DEF Excluded, History
  <2>5. QED
    BY <1>7, <2>3, <2>4
<1>8. History(c.local.tips[r]) \subseteq obj /\ \A d \in obj : History(d) \subseteq obj
  <2>1. ASSUME NEW d \in obj PROVE History(d) \subseteq obj
    <3>1. PICK t \in bundle : d \in History(c.local.tips[t])
      OBVIOUS
    <3>2. History(d) \subseteq History(c.local.tips[t])
      BY <3>1, Histories
    <3>3. QED
      BY <3>2
  <2>2. QED
    BY <1>3, <2>1
<1>9. /\ req \in RequestType /\ req.peer = p /\ req.kind = "push" /\ req.refs = {r} /\ req.live
  BY <1>1, RequestTypes DEF Kind
<1>10. q = [req EXCEPT !.commit = c.local.tips[r], !.prereqs = pre, !.objects = obj,
                       !.carries = Carried(c, r), !.force = OpForce(p, c, r), !.base = c.view[r]]
  BY DEF PushRequest
<1> HIDE DEF bundle, pre, obj, req, q
<1>11. c.local.tips[r] \in Tree /\ c.view[r] \in Tree
  BY <1>1
<1>12. /\ q.peer = req.peer /\ q.kind = req.kind /\ q.refs = req.refs /\ q.live = req.live
       /\ q.commit = c.local.tips[r] /\ q.base = c.view[r] /\ q.prereqs = pre /\ q.objects = obj
       /\ q.force = OpForce(p, c, r) /\ q.carries = Carried(c, r)
  BY <1>9, <1>10 DEF RequestType
<1>13. q \in RequestType
  BY <1>4, <1>5, <1>9, <1>10, <1>11 DEF RequestType
<1>14. ASSUME \A t \in Ref : History(c.view[t]) \subseteq objects, q.commit # NoCommit PROVE PushOK(q)
  BY <1>6, <1>7, <1>8, <1>9, <1>12, <1>14 DEF PushOK
<1>15. QED
  BY <1>5, <1>9, <1>12, <1>13, <1>14 DEF q

--------------------------------------------------------------------------------
(* The server's steps.                                                     *)

\* Why the server refuses push q.
Reason(q) ==
  \/ repo # "missing" /\ ~Applies(q)
  \/ job = {} /\ ~MayWrite(q.peer) /\ ~Creates(q.peer)
  \/ disturbed' = [p \in Peer |-> TRUE]

\* Request q is answered: it sets branches R to commit c if it may, and its peer is told.
\* A push sets what it says, or nothing and there is a reason. A list is true.
Served(q) ==
  \E R \in SUBSET q.refs, c \in Tree, a \in AnswerType \ {NoAnswer} :
    /\ SetRefs(R, c, q.peer) /\ Answer(q, a) /\ a.refs \in {NoRefs, refs}
    /\ R # {} => /\ repo = "bare" /\ (q.peer \in Writers \/ acl' = q.peer)
                 /\ q.kind \in {"push", "update", "delete"} /\ History(c) \subseteq objects'
    /\ \A r \in R : q.kind = "delete" \/ q.force \/ refs[r] \subseteq c
    /\ q.kind = "push" /\ a.kind = "ok" => R = q.refs /\ c = q.commit
    /\ q.kind = "push" /\ a.kind = "refused" => R = {} /\ Reason(q)
    /\ q.kind = "list" =>
         R = {} /\ (a.kind = "ok" => a.refs = refs /\ MayPush(q.peer))

\* What the repository has only grows, and whole histories at a time.
ObjectsGrow ==
  /\ objects' \in SUBSET Commit /\ objects \subseteq objects'
  /\ \A c \in objects' : History(c) \subseteq objects'

\* It is off the queues then.
Leaves(q) ==
  \/ q \in inbox /\ job = {} /\ job' = {} /\ inbox' = inbox \ {q}
  \/ job = {q} /\ job' = {} /\ inbox' = inbox

LEMMA NothingSet ==
  ASSUME StoreOK, NEW p, NEW c, UNCHANGED <<refs, wrote>>
  PROVE  SetRefs({}, c, p)
BY DEF StoreOK, SetRefs

LEMMA Unchanged == ASSUME StoreOK, AllStored, objects' = objects PROVE ObjectsGrow
BY DEF StoreOK, AllStored, ObjectsGrow

\* A request that is refused, a list that is given, a repository that is made.
LEMMA ToldIsServed ==
  ASSUME StoreOK, NEW q \in RequestType, NEW a \in AnswerType \ {NoAnswer}, Answer(q, a),
         a.refs \in {NoRefs, refs}, UNCHANGED <<refs, wrote>>,
         q.kind = "push" => a.kind = "refused" /\ Reason(q),
         q.kind = "list" =>
           (a.kind = "ok" => a.refs = refs /\ MayPush(q.peer))
  PROVE  Served(q)
<1>1. {} \in SUBSET q.refs /\ NoCommit \in Tree /\ SetRefs({}, NoCommit, q.peer)
  BY NothingSet, Trees
<1>2. QED
  BY <1>1 DEF Served

LEMMA PerformIsServed ==
  ASSUME StoreOK, AllStored, NEW q \in RequestType, q.kind \in {"push", "update"}, Perform(q),
         q.kind = "push" => PushOK(q), q.peer \in Writers \/ acl' = q.peer, repo # "missing"
  PROVE  Served(q) /\ ObjectsGrow
<1>1. /\ Ok(NoRefs) \in AnswerType \ {NoAnswer} /\ Refused \in AnswerType \ {NoAnswer}
      /\ Ok(NoRefs).kind = "ok" /\ Refused.kind = "refused"
      /\ Ok(NoRefs).refs = NoRefs /\ Refused.refs = NoRefs
  BY AnswerTypes, Trees
<1>2. q.commit \in Tree /\ q.refs \in SUBSET Ref /\ q.objects \in SUBSET Commit
  BY DEF RequestType
<1>3. CASE q.kind = "push"
  <2>1. Apply(q)
    BY <1>3 DEF Perform
  <2>2. objects' = IF repo = "bare" /\ q.prereqs \subseteq objects THEN objects \cup q.objects ELSE objects
    BY <2>1 DEF Apply
  <2>3. \A c \in q.objects : History(c) \subseteq q.objects
    BY <1>3 DEF PushOK
  <2>4. ObjectsGrow
    BY <1>2, <2>2, <2>3 DEF ObjectsGrow, AllStored, StoreOK
  <2>5. CASE Applies(q)
    <3>1. /\ SetRefs(q.refs, q.commit, q.peer) /\ Answer(q, Ok(NoRefs)) /\ repo = "bare"
          /\ \A r \in q.refs : q.force \/ refs[r] \subseteq q.commit
          /\ objects' = objects \cup q.objects
      BY <2>1, <2>5 DEF Apply, Applies
    <3>2. q.refs # {} => History(q.commit) \subseteq objects'
      BY <1>3, <3>1 DEF PushOK
    <3>3. Served(q)
      BY <1>1, <1>2, <1>3, <3>1, <3>2 DEF Served
    <3>4. QED
      BY <2>4, <3>3
  <2>6. CASE ~Applies(q)
    <3>1. UNCHANGED <<refs, wrote>> /\ Answer(q, Refused)
      BY <2>1, <2>6 DEF Apply
    <3>2. Served(q)
      BY <1>1, <1>3, <2>6, <3>1, ToldIsServed DEF Reason
    <3>3. QED
      BY <2>4, <3>2
  <2>7. QED
    BY <2>5, <2>6
<1>4. CASE q.kind = "update"
  <2>1. ApplyOperations(q)
    BY <1>4 DEF Perform
  <2> DEFINE good == {r \in q.refs : Moves(q, r)}
  <2>2. \A r \in good : /\ repo = "bare" /\ (q.force \/ refs[r] \subseteq q.commit)
                        /\ History(q.commit) \subseteq objects
    BY DEF Moves, NoCommit, AllStored
  <2>3. objects' = objects /\ ObjectsGrow
    BY <2>1, Unchanged DEF ApplyOperations
  <2>4. PICK R \in SUBSET good, a \in {Ok(NoRefs), Refused} :
          SetRefs(R, q.commit, q.peer) /\ Answer(q, a)
    BY <2>1 DEF ApplyOperations
  <2>5. R \in SUBSET q.refs
    OBVIOUS
  <2>6. R # {} => repo = "bare" /\ History(q.commit) \subseteq objects'
    BY <2>2, <2>3
  <2>7. \A r \in R : q.force \/ refs[r] \subseteq q.commit
    BY <2>2
  <2> HIDE DEF good
  <2>8. Served(q)
    BY <1>1, <1>2, <1>4, <2>4, <2>5, <2>6, <2>7 DEF Served
  <2>9. QED
    BY <2>3, <2>8
<1>5. QED
  BY <1>3, <1>4

\* A request is taken and answered, with nothing made.
Handled(q) ==
  /\ q \in inbox /\ job = {} /\ job' = {} /\ inbox' = inbox \ {q} /\ Served(q) /\ ObjectsGrow
  /\ UNCHANGED <<repo, acl, client, crashes>>
  /\ IF q.kind = "list"
     THEN disturbed' = IF q.live THEN [disturbed EXCEPT ![q.peer] = FALSE] ELSE disturbed
     ELSE Note(q)

\* A request is taken for which the repository is to be made.
Accepted(q) ==
  /\ q \in inbox /\ job = {} /\ job' = {q} /\ inbox' = inbox \ {q} /\ Creates(q.peer) /\ Note(q)
  /\ q.kind \in {"push", "update", "create"}
  /\ UNCHANGED <<repo, acl, refs, objects, answer, client, crashes, wrote>>

LEMMA Takes ==
  ASSUME StoreOK, QueuesOK, BornEmpty, AllStored, PushesOK,
         NEW q \in inbox, List(q) \/ Push(q) \/ Delete(q) \/ Create(q)
  PROVE  Handled(q) \/ Accepted(q)
<1>1. /\ q \in RequestType /\ q.peer \in Peer
      /\ Ok(NoRefs) \in AnswerType \ {NoAnswer} /\ Refused \in AnswerType \ {NoAnswer}
      /\ Ok(NoRefs).kind = "ok" /\ Refused.kind = "refused"
      /\ Ok(NoRefs).refs = NoRefs /\ Refused.refs = NoRefs
  BY AnswerTypes, Trees DEF QueuesOK, RequestType
<1>2. CASE List(q)
  <2>1. /\ q.kind = "list" /\ job = {} /\ inbox' = inbox \ {q} /\ job' = job
        /\ UNCHANGED <<client, crashes, repo, acl, refs, objects, wrote>>
        /\ disturbed' = IF q.live THEN [disturbed EXCEPT ![q.peer] = FALSE] ELSE disturbed
    BY <1>2 DEF List, Take, store
  <2>2. PICK a \in {Ok(refs), Refused} :
          Answer(q, a) /\ (a = Refused \/ MayPush(q.peer))
    <3>1. Answer(q, IF MayWrite(q.peer) THEN (IF repo = "bare" THEN Ok(refs) ELSE Refused)
                    ELSE IF Creates(q.peer) THEN Ok(NoRefs) ELSE Refused)
      BY <1>2 DEF List
    <3>2. Creates(q.peer) => Ok(NoRefs) = Ok(refs)
      BY DEF Creates, BornEmpty
    <3>3. QED
      BY <3>1, <3>2 DEF MayPush
  <2>3. Ok(refs) \in AnswerType \ {NoAnswer} /\ Ok(refs).kind = "ok" /\ Ok(refs).refs = refs
    BY AnswerTypes DEF StoreOK
  <2>4. Served(q)
    BY <1>1, <2>1, <2>2, <2>3, ToldIsServed
  <2>5. QED
    BY <2>1, <2>4, Unchanged DEF Handled
<1>3. CASE Push(q)
  <2>1. /\ q.kind \in {"push", "update"} /\ job = {} /\ inbox' = inbox \ {q} /\ Note(q)
        /\ UNCHANGED <<client, crashes>> /\ (q.kind = "push" => PushOK(q))
    BY <1>3 DEF Push, Take, PushesOK
  <2>2. CASE MayWrite(q.peer) /\ Perform(q) /\ UNCHANGED <<repo, acl, job>>
    <3>1. Served(q) /\ ObjectsGrow
      BY <1>1, <2>1, <2>2, PerformIsServed DEF MayWrite
    <3>2. QED
      BY <2>1, <2>2, <3>1 DEF Handled
  <2>3. CASE Creates(q.peer) /\ job' = job \cup {q} /\ UNCHANGED <<store, answer, wrote>>
    BY <2>1, <2>3 DEF Accepted, store
  <2>4. CASE /\ ~MayWrite(q.peer) /\ ~Creates(q.peer)
             /\ Answer(q, Refused) /\ UNCHANGED <<store, job, wrote>>
    <3>1. Served(q)
      BY <1>1, <2>1, <2>4, ToldIsServed DEF store, Reason
    <3>2. QED
      BY <2>1, <2>4, <3>1, Unchanged DEF Handled, store
  <2>5. QED
    BY <1>3, <2>2, <2>3, <2>4 DEF Push
<1>4. CASE Delete(q)
  <2>1. /\ q.kind = "delete" /\ job = {} /\ inbox' = inbox \ {q} /\ Note(q)
        /\ UNCHANGED <<client, crashes, repo, acl, objects, job>>
    BY <1>4 DEF Delete, Take
  <2>2. CASE MayWrite(q.peer) /\ \A r \in q.refs : refs[r] # NoCommit
    <3>1. SetRefs(q.refs, NoCommit, q.peer) /\ Answer(q, Ok(NoRefs))
      BY <1>4, <2>2 DEF Delete
    <3>2. q.refs # {} => repo = "bare"
      BY <1>1, <2>2 DEF BornEmpty, NoRefs, RequestType
    <3>3. History(NoCommit) \subseteq objects'
      BY Histories
    <3>4. Served(q)
      BY <1>1, <2>1, <2>2, <3>1, <3>2, <3>3, Trees DEF Served, MayWrite
    <3>5. QED
      BY <2>1, <3>4, Unchanged DEF Handled
  <2>3. CASE UNCHANGED <<refs, wrote>> /\ Answer(q, Refused)
    <3>1. Served(q)
      BY <1>1, <2>1, <2>3, ToldIsServed
    <3>2. QED
      BY <2>1, <3>1, Unchanged DEF Handled
  <2>4. QED
    BY <1>4, <2>2, <2>3 DEF Delete
<1>5. CASE Create(q)
  <2>1. /\ q.kind = "create" /\ job = {} /\ inbox' = inbox \ {q} /\ Note(q)
        /\ UNCHANGED <<client, crashes, repo, acl, refs, objects, wrote>>
    BY <1>5 DEF Create, Take, store
  <2>2. CASE Creates(q.peer) /\ job' = job \cup {q} /\ UNCHANGED answer
    BY <2>1, <2>2 DEF Accepted
  <2>3. CASE Answer(q, Refused) /\ UNCHANGED job
    <3>1. Served(q)
      BY <1>1, <2>1, <2>3, ToldIsServed
    <3>2. QED
      BY <2>1, <2>3, <3>1, Unchanged DEF Handled
  <2>4. QED
    BY <1>5, <2>2, <2>3 DEF Create
<1>6. QED
  BY <1>2, <1>3, <1>4, <1>5

\* The request the repository was made for is answered; its peer owns the repository.
Owned(q) ==
  /\ job = {q} /\ job' = {} /\ inbox' = inbox /\ Served(q) /\ ObjectsGrow
  /\ repo = "bare" /\ acl' = q.peer /\ UNCHANGED <<repo, client, crashes, disturbed>>

LEMMA OwnedIsServed ==
  ASSUME StoreOK, QueuesOK, AllStored, PushesOK, NEW q \in job, WriteAcl(q)
  PROVE  Owned(q)
<1>1. /\ q \in RequestType /\ job = {q} /\ (q.kind = "push" => PushOK(q))
      /\ q.kind \in {"push", "update", "create"}
  BY DEF QueuesOK, PushesOK
<1>2. /\ job' = {} /\ inbox' = inbox /\ repo = "bare" /\ acl' = q.peer
      /\ UNCHANGED <<repo, client, crashes, disturbed>>
  BY DEF WriteAcl
<1>3. CASE q.kind = "create"
  <2>1. Answer(q, Ok(NoRefs)) /\ UNCHANGED <<refs, objects, wrote>>
    BY <1>3 DEF WriteAcl
  <2>2. Ok(NoRefs) \in AnswerType \ {NoAnswer} /\ Ok(NoRefs).refs = NoRefs
    BY AnswerTypes, Trees
  <2>3. Served(q) /\ ObjectsGrow
    BY <1>1, <1>3, <2>1, <2>2, ToldIsServed, Unchanged
  <2>4. QED
    BY <1>1, <1>2, <2>3 DEF Owned
<1>4. CASE q.kind # "create"
  <2>1. Perform(q)
    BY <1>4 DEF WriteAcl
  <2>2. Served(q) /\ ObjectsGrow
    BY <1>1, <1>2, <1>4, <2>1, PerformIsServed
  <2>3. QED
    BY <1>1, <1>2, <2>2 DEF Owned
<1>5. QED
  BY <1>3, <1>4

\* The repository is not made: what there was of it is gone.
Failed(q) ==
  /\ job = {q} /\ job' = {} /\ inbox' = inbox /\ Served(q) /\ ObjectsGrow /\ repo' = "missing"
  /\ disturbed' = [p \in Peer |-> TRUE] /\ UNCHANGED <<acl, refs, client, crashes, wrote>>

LEMMA FailedIsServed ==
  ASSUME StoreOK, QueuesOK, AllStored, NEW q \in job, CreateFails(q) PROVE Failed(q)
<1>1. q \in RequestType /\ job = {q}
  BY DEF QueuesOK
<1>2. /\ job' = {} /\ inbox' = inbox /\ repo' = "missing" /\ Answer(q, Refused)
      /\ disturbed' = [p \in Peer |-> TRUE] /\ UNCHANGED <<acl, refs, client, crashes, wrote, objects>>
  BY DEF CreateFails
<1>3. Refused \in AnswerType \ {NoAnswer} /\ Refused.kind = "refused" /\ Refused.refs = NoRefs
  BY AnswerTypes
<1>4. Served(q) /\ ObjectsGrow
  BY <1>1, <1>2, <1>3, ToldIsServed, Unchanged DEF Reason
<1>5. QED
  BY <1>1, <1>2, <1>4 DEF Failed

--------------------------------------------------------------------------------
(* The peers' steps.                                                       *)

\* Every branch here is there.
Landed(c) == \A r \in Ref : c.local.tips[r] # NoCommit => refs[r] = c.local.tips[r]

\* Peer p, which waits for nothing, goes on with its command as c: it makes a request or
\* ends. It has reported what it has pushed.
GoesOn(p, c) ==
  /\ c \in ClientType /\ client' = [client EXCEPT ![p] = c]
  /\ answer' = [answer EXCEPT ![p] = NoAnswer]
  /\ \A q \in inbox \cup job : q.live => q.peer # p
  /\ \A r \in c.ok : <<p, r, c.local.tips[r]>> \in wrote
  /\ \A r \in Ref : History(c.view[r]) \subseteq objects
  /\ c.at # "idle" => c.result = "none"
  /\ c.at = "push" => c.todo \cup c.cur \subseteq Outdated(c)
  /\ \/ inbox' = inbox /\ c.at = "idle"
     \/ \E q \in RequestType :
          /\ inbox' = inbox \cup {q} /\ q.peer = p /\ q.live /\ Asks(c, q) /\ c.at # "idle"
          /\ q.kind = "push" => PushOK(q)
  /\ answer[p] # NoAnswer \/ c.at \in {"list", "other"}
  /\ ~disturbed[p] => /\ c.at = "push" => Progress(p, c, "none")
                      /\ c.result = "pushed" => Landed(c)
                      /\ c.result \in {"refused", "empty bundle"} => Explained(c)
  /\ UNCHANGED <<repo, acl, refs, objects, job, crashes, wrote, disturbed>>

\* Who is idle or has an answer waits for nothing.
LEMMA WaitsForNothing ==
  ASSUME PeersOK, OneAsked, NEW p \in Peer, client[p].at = "idle" \/ answer[p] # NoAnswer
  PROVE  \A q \in inbox \cup job : q.live => q.peer # p
BY DEF OneAsked, Asks

LEMMA StartGoesOn ==
  ASSUME QueuesOK, PeersOK, OneAsked, NEW p \in Peer,
         \/ \E l \in Locals, f \in BOOLEAN : StartPush(p, l, f)
         \/ \E q \in Others(p) : StartOther(p, q)
  PROVE  \E c \in ClientType : GoesOn(p, c)
<1>1. /\ client[p].at = "idle" /\ answer[p] = NoAnswer /\ answer' = answer
      /\ UNCHANGED <<repo, acl, refs, objects, job, crashes, wrote, disturbed>>
  BY DEF StartPush, StartOther, Start, store, OneAsked
<1>2. /\ \A q \in inbox \cup job : q.live => q.peer # p
      /\ answer' = [answer EXCEPT ![p] = NoAnswer]
  BY <1>1, WaitsForNothing DEF PeersOK
<1>3. \A r \in Ref : History(NoRefs[r]) \subseteq objects
  BY Histories DEF NoRefs
<1>4. ASSUME NEW c \in ClientType, c.at \in {"list", "other"}, c.ok = {}, c.result = "none",
             c.view = NoRefs, client' = [client EXCEPT ![p] = c],
             NEW q \in RequestType, q.peer = p, q.live, Asks(c, q), q.kind # "push",
             inbox' = inbox \cup {q}
      PROVE  GoesOn(p, c)
  BY <1>1, <1>2, <1>3, <1>4 DEF GoesOn
<1>5. ASSUME NEW l \in Locals, NEW f \in BOOLEAN, StartPush(p, l, f)
      PROVE  \E c \in ClientType : GoesOn(p, c)
  <2> DEFINE c == [Idle EXCEPT !.at = "list", !.local = l, !.force = f]
             q == Request(p, "list", {})
  <2>1. c \in ClientType /\ c.at = "list" /\ c.ok = {} /\ c.result = "none" /\ c.view = NoRefs
    BY IdleType DEF ClientType
  <2>2. q \in RequestType /\ q.peer = p /\ q.kind = "list" /\ q.live
    BY RequestTypes DEF Kind
  <2>3. client' = [client EXCEPT ![p] = c] /\ inbox' = inbox \cup {q}
    BY <1>5 DEF StartPush
  <2> HIDE DEF c, q
  <2>4. Asks(c, q)
    BY <2>1, <2>2 DEF Asks
  <2>5. QED
    BY <1>4, <2>1, <2>2, <2>3, <2>4
<1>6. ASSUME NEW q \in Others(p), StartOther(p, q) PROVE \E c \in ClientType : GoesOn(p, c)
  <2> DEFINE c == [Idle EXCEPT !.at = "other"]
  <2>1. c \in ClientType /\ c.at = "other" /\ c.ok = {} /\ c.result = "none" /\ c.view = NoRefs
    BY IdleType DEF ClientType
  <2>2. q \in RequestType /\ q.peer = p /\ q.kind \notin {"list", "push"} /\ q.live
    BY OtherTypes
  <2>3. client' = [client EXCEPT ![p] = c] /\ inbox' = inbox \cup {q}
    BY <1>6 DEF StartOther
  <2> HIDE DEF c
  <2>4. Asks(c, q)
    BY <2>1, <2>2 DEF Asks
  <2>5. QED
    BY <1>4, <2>1, <2>2, <2>3, <2>4
<1>7. QED
  BY <1>5, <1>6

\* What a peer has heard, before it goes on.
Heard(p) ==
  /\ answer[p] # NoAnswer /\ answer' = [answer EXCEPT ![p] = NoAnswer]
  /\ \A q \in inbox \cup job : q.live => q.peer # p
  /\ UNCHANGED <<repo, acl, refs, objects, job, crashes, wrote, disturbed>>

LEMMA HearIsHeard ==
  ASSUME PeersOK, OneAsked, NEW p \in Peer, NEW at, Hear(p, at)
  PROVE  Heard(p)
BY WaitsForNothing DEF Heard, Hear, store

\* What differs, and why a push of it fails, is a matter of what is here and what was shown.
LEMMA SameReasons ==
  ASSUME NEW c, NEW e, c.local = e.local, c.view = e.view, c.force = e.force
  PROVE  /\ Outdated(c) = Outdated(e) /\ (Explained(c) <=> Explained(e))
         /\ \A r \in Ref : (Carried(c, r) <=> Carried(e, r)) /\ (FastForward(c, r) <=> FastForward(e, r))
BY DEF Outdated, Explained, Carried, Excluded, Prereqs, FastForward

LEMMA EndType ==
  ASSUME NEW c \in ClientType, NEW res \in Results
  PROVE  LET e == Ended(c, res) IN
         /\ e \in ClientType /\ e.at = "idle" /\ e.ok = c.ok /\ e.local = c.local
         /\ e.result = res /\ e.force = c.force /\ e.view = c.view
BY DEF Ended, ClientType

\* The command as it pushes branch r.
Pushing(c, r) == [c EXCEPT !.at = "push", !.todo = @ \ {r}, !.cur = {r}]

LEMMA PushingType ==
  ASSUME NEW c \in ClientType, NEW r \in c.todo
  PROVE  LET e == Pushing(c, r) IN
         /\ e \in ClientType /\ e.at = "push" /\ e.ok = c.ok /\ e.local = c.local /\ e.cur = {r}
         /\ e.todo = c.todo \ {r} /\ e.force = c.force /\ e.view = c.view /\ e.bad = c.bad
         /\ e.result = c.result
BY DEF Pushing, ClientType

\* A command knows what it is about.
Knows(p, c) ==
  /\ c \in ClientType
  /\ \A r \in c.ok : <<p, r, c.local.tips[r]>> \in wrote
  /\ \A r \in Ref : History(c.view[r]) \subseteq objects

LEMMA EndGoesOn ==
  ASSUME NEW p \in Peer, Heard(p), NEW c, Knows(p, c), NEW res \in Results, End(p, c, res),
         ~disturbed[p] => /\ res = "pushed" => Landed(c)
                          /\ res \in {"refused", "empty bundle"} => Explained(c)
  PROVE  GoesOn(p, Ended(c, res))
<1> DEFINE e == Ended(c, res)
<1>1. /\ e \in ClientType /\ e.at = "idle" /\ e.ok = c.ok /\ e.local = c.local
      /\ e.result = res /\ e.force = c.force /\ e.view = c.view
  BY EndType DEF Knows
<1>2. client' = [client EXCEPT ![p] = e] /\ inbox' = inbox
  BY DEF End
<1> HIDE DEF e
<1>3. (Landed(c) <=> Landed(e)) /\ (Explained(c) <=> Explained(e))
  BY <1>1, SameReasons DEF Landed
<1>4. GoesOn(p, e)
  BY <1>1, <1>2, <1>3 DEF Heard, GoesOn, Knows
<1>5. QED
  BY <1>4 DEF e

\* Command c may push the next branch.
Ready(p, c) ==
  /\ Knows(p, c) /\ c.result = "none" /\ c.todo \subseteq Outdated(c)
  /\ ~disturbed[p] =>
       /\ Access(p)
       /\ \A r \in Ref : c.local.tips[r] = NoCommit \/ r \in c.todo \/ c.bad \/ refs[r] = c.local.tips[r]
       /\ \A r \in c.todo : refs[r] = c.view[r]
       /\ c.bad => Explained(c)

LEMMA ContinueGoesOn ==
  ASSUME NEW p \in Peer, Heard(p), NEW c, Ready(p, c), Continue(p, c)
  PROVE  \E e \in ClientType : GoesOn(p, e)
<1>1. c \in ClientType
  BY DEF Ready, Knows
<1>2. CASE c.todo = {}
  <2>1. End(p, c, IF c.bad THEN "refused" ELSE "pushed")
    BY <1>2 DEF Continue
  <2>2. ~disturbed[p] => (IF c.bad THEN Explained(c) ELSE Landed(c))
    BY <1>2 DEF Ready, Landed
  <2>3. "refused" \in Results /\ "pushed" \in Results
    BY DEF Results
  <2>4. GoesOn(p, Ended(c, IF c.bad THEN "refused" ELSE "pushed"))
    BY <2>1, <2>2, <2>3, EndGoesOn DEF Ready
  <2>5. QED
    BY <1>1, <2>3, <2>4, EndType
<1>3. CASE c.todo # {}
  <2>1. PICK r \in c.todo : /\ client' = [client EXCEPT ![p] = Pushing(c, r)]
                            /\ inbox' = inbox \cup {PushRequest(p, c, r)}
    BY <1>3 DEF Continue, Pushing
  <2> DEFINE e == Pushing(c, r)
             q == PushRequest(p, c, r)
  <2>2. /\ e \in ClientType /\ e.at = "push" /\ e.ok = c.ok /\ e.local = c.local /\ e.cur = {r}
        /\ e.todo = c.todo \ {r} /\ e.force = c.force /\ e.view = c.view /\ e.bad = c.bad
        /\ e.result = c.result
    BY <1>1, PushingType
  <2>3. r \in Ref /\ r \in Outdated(c) /\ c.local.tips[r] # NoCommit
    BY DEF Ready, Outdated
  <2>4. /\ q \in RequestType /\ q.peer = p /\ q.kind = "push" /\ q.refs = {r} /\ q.live
        /\ q.commit = c.local.tips[r] /\ (q.carries <=> Carried(c, r))
        /\ q.force <=> OpForce(p, c, r)
        /\ PushOK(q)
    BY <1>1, <2>3, PushTypes DEF Ready, Knows
  <2>5. client' = [client EXCEPT ![p] = e] /\ inbox' = inbox \cup {q}
    BY <2>1
  <2> HIDE DEF e, q
  <2>6. (Carried(c, r) <=> Carried(e, r)) /\ (OpForce(p, c, r) <=> OpForce(p, e, r))
    BY <2>2, <2>3, SameReasons DEF OpForce
  <2>7. Asks(e, q)
    BY <2>2, <2>4, <2>6 DEF Asks
  <2>8. Outdated(e) = Outdated(c) /\ (Explained(e) <=> Explained(c))
    BY <2>2, SameReasons
  <2>9. ~disturbed[p] => Progress(p, e, "none")
    BY <2>2, <2>8 DEF Ready, Progress
  <2>10. GoesOn(p, e)
    BY <2>2, <2>3, <2>4, <2>5, <2>7, <2>8, <2>9 DEF Heard, GoesOn, Ready, Knows
  <2>11. QED
    BY <2>2, <2>10
<1>4. QED
  BY <1>2, <1>3

\* git leaves out of a bundle only what the other side is known to have.
LEMMA NotCarried ==
  ASSUME NEW c, NEW r \in Ref, ~Carried(c, r)
  PROVE  \E u \in Ref : c.local.tips[r] \subseteq c.view[u]
BY DEF Carried, Excluded, Prereqs

LEMMA ListedGoesOn ==
  ASSUME PeersOK, OneAsked, AllStored, ReportedIsWritten, Undisturbed, Running,
         NEW p \in Peer, Listed(p)
  PROVE  \E e \in ClientType : GoesOn(p, e)
<1> DEFINE a == answer[p]
           c == [client[p] EXCEPT !.view = a.refs]
           todo == ToPush(p, c)
           b == p \in Helpers /\ todo # Outdated(c)
           d == [c EXCEPT !.todo = todo, !.bad = b]
<1>1. Heard(p) /\ client[p].at = "list"
  BY HearIsHeard DEF Listed, Hear
<1>2. /\ client[p] \in ClientType /\ a \in AnswerType /\ a.refs \in [Ref -> Tree]
      /\ client[p].result = "none"
  BY <1>1, AnswerTypes DEF PeersOK, Running
<1>3. /\ c \in ClientType /\ c.ok = client[p].ok /\ c.local = client[p].local /\ c.view = a.refs
      /\ c.result = "none" /\ c.force = client[p].force
  BY <1>2 DEF ClientType
<1>4. Knows(p, c)
  <2>1. \A r \in c.ok : <<p, r, c.local.tips[r]>> \in wrote
    BY <1>3 DEF ReportedIsWritten
  <2>2. \A r \in Ref : History(c.view[r]) \subseteq objects
    BY <1>3 DEF AllStored
  <2>3. QED
    BY <1>3, <2>1, <2>2 DEF Knows
<1>5. /\ todo \subseteq Outdated(c) /\ todo \in SUBSET Ref /\ b \in BOOLEAN
      /\ p \notin Helpers => todo = Outdated(c)
      /\ p \in Helpers => todo = {r \in Outdated(c) : Carried(c, r) /\ (c.force \/ FastForward(c, r))}
  BY DEF ToPush, Outdated
<1>6. a.kind = "ok" /\ ~disturbed[p] => a.refs = refs /\ Access(p)
  BY <1>1 DEF Undisturbed
<1>7. \/ End(p, c, "no list") \/ End(p, c, "no fast-forward")
      \/ /\ p \notin Helpers /\ todo # {} /\ \A r \in todo : ~Carried(c, r)
         /\ End(p, c, "empty bundle")
      \/ a.kind = "ok" /\ Continue(p, d)
  BY DEF Listed
<1> HIDE DEF a, c, todo, b
<1>8. CASE End(p, c, "no list") \/ End(p, c, "no fast-forward")
  <2>1. PICK res \in {"no list", "no fast-forward"} : End(p, c, res)
    BY <1>8
  <2>2. res \in Results /\ res # "pushed" /\ res \notin {"refused", "empty bundle"}
    BY DEF Results
  <2>3. GoesOn(p, Ended(c, res))
    BY <1>1, <1>4, <2>1, <2>2, EndGoesOn
  <2>4. QED
    BY <1>3, <2>2, <2>3, EndType
<1>9. CASE p \notin Helpers /\ todo # {} /\ (\A r \in todo : ~Carried(c, r)) /\ End(p, c, "empty bundle")
  <2>1. PICK r \in Outdated(c) : ~Carried(c, r)
    BY <1>5, <1>9
  <2>2. Explained(c)
    BY <2>1, NotCarried DEF Explained, Outdated
  <2>3. "empty bundle" \in Results
    BY DEF Results
  <2>4. GoesOn(p, Ended(c, "empty bundle"))
    BY <1>1, <1>4, <1>9, <2>2, <2>3, EndGoesOn
  <2>5. QED
    BY <1>3, <2>3, <2>4, EndType
<1>10. CASE a.kind = "ok" /\ Continue(p, d)
  <2>1. /\ d \in ClientType /\ d.ok = c.ok /\ d.local = c.local /\ d.view = c.view
        /\ d.result = c.result /\ d.force = c.force /\ d.todo = todo /\ d.bad = b
    BY <1>3, <1>5 DEF ClientType
  <2> HIDE DEF d
  <2>2. Outdated(d) = Outdated(c) /\ (Explained(d) <=> Explained(c))
    BY <2>1, SameReasons
  <2>3. Knows(p, d)
    BY <1>4, <2>1 DEF Knows
  <2>4. ASSUME d.bad PROVE Explained(c)
    <3>1. PICK r \in Outdated(c) : ~Carried(c, r) \/ (~c.force /\ ~FastForward(c, r))
      BY <1>5, <2>1, <2>4 DEF b
    <3>2. QED
      BY <3>1, NotCarried DEF Explained, Outdated
  <2>5. ASSUME ~disturbed[p], NEW r \in Ref, r \notin todo, ~d.bad, c.local.tips[r] # NoCommit
        PROVE  refs[r] = c.local.tips[r]
    <3>1. todo = Outdated(c)
      BY <1>5, <2>1, <2>5 DEF b
    <3>2. c.local.tips[r] = c.view[r]
      BY <2>5, <3>1 DEF Outdated
    <3>3. QED
      BY <1>3, <1>6, <1>10, <2>5, <3>2
  <2>6. Ready(p, d)
    BY <1>3, <1>5, <1>6, <1>10, <2>1, <2>2, <2>3, <2>4, <2>5 DEF Ready, Outdated
  <2>7. QED
    BY <1>1, <1>10, <2>6, ContinueGoesOn
<1>11. QED
  BY <1>7, <1>8, <1>9, <1>10

LEMMA PushedGoesOn ==
  ASSUME PeersOK, OneAsked, AllStored, ReportedIsWritten, OkIsWritten, Undisturbed, Running,
         NEW p \in Peer, Pushed(p)
  PROVE  \E e \in ClientType : GoesOn(p, e)
<1> DEFINE c == client[p]
<1>1. Heard(p) /\ c.at = "push"
  BY HearIsHeard DEF Pushed, Hear
<1>2. /\ c \in ClientType /\ answer[p] \in AnswerType /\ c.result = "none"
      /\ c.todo \cup c.cur \subseteq Outdated(c)
  BY <1>1 DEF PeersOK, Running
<1>3. Knows(p, c)
  BY <1>2 DEF Knows, ReportedIsWritten, AllStored
<1>4. ~disturbed[p] => Progress(p, c, answer[p].kind)
  BY <1>1 DEF Undisturbed
<1>5. \/ answer[p].kind = "ok" /\ Continue(p, [c EXCEPT !.ok = @ \cup c.cur])
      \/ answer[p].kind # "ok" /\ Continue(p, [c EXCEPT !.bad = TRUE])
      \/ answer[p].kind # "ok" /\ End(p, c, "refused")
  BY DEF Pushed
<1>6. answer[p].kind # "ok" => answer[p].kind = "refused"
  BY <1>1, <1>2, AnswerTypes DEF Heard
<1>7. CASE answer[p].kind = "ok" /\ Continue(p, [c EXCEPT !.ok = @ \cup c.cur])
  <2> DEFINE d == [c EXCEPT !.ok = @ \cup c.cur]
  <2>1. /\ d \in ClientType /\ d.ok = c.ok \cup c.cur /\ d.local = c.local /\ d.view = c.view
        /\ d.result = c.result /\ d.force = c.force /\ d.todo = c.todo /\ d.bad = c.bad
    BY <1>2 DEF ClientType
  <2>2. \A r \in c.cur : <<p, r, c.local.tips[r]>> \in wrote
    BY <1>1, <1>7 DEF OkIsWritten
  <2> HIDE DEF d
  <2>3. Outdated(d) = Outdated(c) /\ (Explained(d) <=> Explained(c))
    BY <2>1, SameReasons
  <2>4. Knows(p, d)
    BY <1>3, <2>1, <2>2 DEF Knows
  <2>5. Ready(p, d)
    BY <1>2, <1>4, <1>7, <2>1, <2>3, <2>4 DEF Ready, Progress
  <2>6. QED
    BY <1>1, <1>7, <2>5, ContinueGoesOn DEF d
<1>8. CASE answer[p].kind # "ok" /\ Continue(p, [c EXCEPT !.bad = TRUE])
  <2> DEFINE d == [c EXCEPT !.bad = TRUE]
  <2>1. /\ d \in ClientType /\ d.ok = c.ok /\ d.local = c.local /\ d.view = c.view
        /\ d.result = c.result /\ d.force = c.force /\ d.todo = c.todo /\ d.bad
    BY <1>2 DEF ClientType
  <2> HIDE DEF d
  <2>2. Outdated(d) = Outdated(c) /\ (Explained(d) <=> Explained(c))
    BY <2>1, SameReasons
  <2>3. Knows(p, d)
    BY <1>3, <2>1 DEF Knows
  <2>4. Ready(p, d)
    BY <1>2, <1>4, <1>6, <1>8, <2>1, <2>2, <2>3 DEF Ready, Progress
  <2>5. QED
    BY <1>1, <1>8, <2>4, ContinueGoesOn DEF d
<1>9. CASE answer[p].kind # "ok" /\ End(p, c, "refused")
  <2>1. "refused" \in Results /\ (~disturbed[p] => Explained(c))
    BY <1>4, <1>6, <1>9 DEF Results, Progress
  <2>2. GoesOn(p, Ended(c, "refused"))
    BY <1>1, <1>3, <1>9, <2>1, EndGoesOn
  <2>3. QED
    BY <1>2, <2>1, <2>2, EndType
<1>10. QED
  BY <1>5, <1>7, <1>8, <1>9

LEMMA OtherGoesOn ==
  ASSUME PeersOK, OneAsked, AllStored, ReportedIsWritten, NEW p \in Peer, OtherDone(p)
  PROVE  \E e \in ClientType : GoesOn(p, e)
<1>1. Heard(p) /\ End(p, client[p], "other") /\ client[p] \in ClientType
  BY HearIsHeard DEF OtherDone, PeersOK
<1>2. Knows(p, client[p])
  BY <1>1 DEF Knows, ReportedIsWritten, AllStored
<1>3. "other" \in Results
  BY DEF Results
<1>4. GoesOn(p, Ended(client[p], "other"))
  BY <1>1, <1>2, <1>3, EndGoesOn
<1>5. QED
  BY <1>1, <1>3, <1>4, EndType

--------------------------------------------------------------------------------
(* The repository.                                                         *)

LEMMA Answered ==
  ASSUME PeersOK, NEW q \in RequestType, NEW a \in AnswerType, Answer(q, a)
  PROVE  /\ answer' \in [Peer -> AnswerType]
         /\ \A p \in Peer : answer'[p] = IF q.live /\ q.peer = p THEN a ELSE answer[p]
<1>1. q.peer \in Peer
  BY DEF RequestType
<1>2. QED
  BY <1>1 DEF PeersOK, Answer

\* What becomes of the branches.
LEMMA ServedBranches ==
  ASSUME StoreOK, AllStored, NEW q \in RequestType, Served(q), ObjectsGrow
  PROVE  /\ refs' \in [Ref -> Tree] /\ wrote' \in SUBSET (Peer \X Ref \X Tree) /\ wrote \subseteq wrote'
         /\ \A w \in wrote' : w \in wrote \/ (w[1] = q.peer /\ (q.peer \in Writers \/ acl' = q.peer))
         /\ repo # "bare" => refs' = refs
         /\ \A r \in Ref : History(refs'[r]) \subseteq objects'
<1>1. PICK R \in SUBSET q.refs, c \in Tree, a \in AnswerType \ {NoAnswer} :
        /\ SetRefs(R, c, q.peer) /\ Answer(q, a)
        /\ R # {} => /\ repo = "bare" /\ (q.peer \in Writers \/ acl' = q.peer)
                     /\ q.kind \in {"push", "update", "delete"} /\ History(c) \subseteq objects'
  BY DEF Served
<1>2. q.peer \in Peer /\ R \in SUBSET Ref
  BY <1>1 DEF RequestType
<1>3. /\ refs' = [r \in Ref |-> IF r \in R THEN c ELSE refs[r]]
      /\ wrote' = wrote \cup {<<q.peer, r, c>> : r \in R}
  BY <1>1 DEF SetRefs
<1>4. refs' \in [Ref -> Tree] /\ (repo # "bare" => refs' = refs)
  BY <1>1, <1>2, <1>3 DEF StoreOK
<1>5. \A w \in wrote' : w \in wrote \/ \E r \in R : w = <<q.peer, r, c>>
  BY <1>3
<1>6. \A r \in R : <<q.peer, r, c>> \in Peer \X Ref \X Tree
  BY <1>1, <1>2
<1>7. wrote' \in SUBSET (Peer \X Ref \X Tree) /\ wrote \subseteq wrote'
  BY <1>3, <1>5, <1>6 DEF StoreOK
<1>8. \A w \in wrote' : w \in wrote \/ (w[1] = q.peer /\ (q.peer \in Writers \/ acl' = q.peer))
  BY <1>1, <1>5
<1>9. \A r \in Ref : History(refs'[r]) \subseteq objects'
  BY <1>1, <1>3 DEF ObjectsGrow, AllStored
<1>10. QED
  BY <1>4, <1>7, <1>8, <1>9

RepoOK == StoreOK /\ QueuesOK /\ BornEmpty /\ OwnedOrGone /\ WritersOnly

\* Where only the writers have been, a peer that becomes the owner changes nothing.
LEMMA WritersOfNobodys ==
  ASSUME StoreOK, WritersOnly, acl = NoPeer
  PROVE  \A w \in wrote : w[1] \in Writers
BY RepositoryAssumption DEF StoreOK, WritersOnly

LEMMA HandledRepo ==
  ASSUME RepoOK, AllStored, NEW q, Handled(q) PROVE StoreOK' /\ BornEmpty' /\ OwnedOrGone' /\ WritersOnly'
<1>1. /\ q \in RequestType /\ Served(q) /\ ObjectsGrow /\ job = {} /\ job' = {}
      /\ UNCHANGED <<repo, acl, crashes>>
  BY DEF Handled, RepoOK, QueuesOK
<1>2. /\ refs' \in [Ref -> Tree] /\ wrote' \in SUBSET (Peer \X Ref \X Tree)
      /\ \A w \in wrote' : w \in wrote \/ (w[1] = q.peer /\ (q.peer \in Writers \/ acl' = q.peer))
      /\ repo # "bare" => refs' = refs
  BY <1>1, ServedBranches DEF RepoOK
<1>3. StoreOK'
  BY <1>1, <1>2 DEF RepoOK, StoreOK, ObjectsGrow
<1>4. BornEmpty' /\ OwnedOrGone'
  BY <1>1, <1>2 DEF RepoOK, BornEmpty, OwnedOrGone
<1>5. WritersOnly'
  BY <1>1, <1>2 DEF RepoOK, WritersOnly
<1>6. QED
  BY <1>3, <1>4, <1>5

LEMMA OwnedRepo ==
  ASSUME RepoOK, AllStored, NEW q, Owned(q) PROVE StoreOK' /\ BornEmpty' /\ OwnedOrGone' /\ WritersOnly'
<1>1. /\ q \in RequestType /\ Served(q) /\ ObjectsGrow /\ job # {} /\ job' = {}
      /\ repo = "bare" /\ acl' = q.peer /\ UNCHANGED <<repo, crashes>> /\ acl = NoPeer
  BY DEF Owned, RepoOK, QueuesOK, BornEmpty
<1>2. /\ refs' \in [Ref -> Tree] /\ wrote' \in SUBSET (Peer \X Ref \X Tree)
      /\ \A w \in wrote' : w \in wrote \/ (w[1] = q.peer /\ (q.peer \in Writers \/ acl' = q.peer))
  BY <1>1, ServedBranches DEF RepoOK
<1>3. q.peer \in Peer /\ q.peer # NoPeer
  BY <1>1, RepositoryAssumption DEF RequestType
<1>4. StoreOK'
  BY <1>1, <1>2, <1>3 DEF RepoOK, StoreOK, ObjectsGrow
<1>5. BornEmpty' /\ OwnedOrGone'
  BY <1>1, <1>3 DEF BornEmpty, OwnedOrGone
<1>6. WritersOnly'
  BY <1>1, <1>2, WritersOfNobodys DEF RepoOK, WritersOnly
<1>7. QED
  BY <1>4, <1>5, <1>6

LEMMA FailedRepo ==
  ASSUME RepoOK, AllStored, NEW q, Failed(q) PROVE StoreOK' /\ BornEmpty' /\ OwnedOrGone' /\ WritersOnly'
<1>1. /\ job # {} /\ job' = {} /\ repo' = "missing" /\ UNCHANGED <<acl, refs, crashes, wrote>>
      /\ acl = NoPeer /\ refs = NoRefs /\ objects' \in SUBSET Commit
  BY DEF Failed, RepoOK, BornEmpty, ObjectsGrow
<1>2. QED
  BY <1>1 DEF RepoOK, StoreOK, BornEmpty, OwnedOrGone, WritersOnly

\* mkdir and git init.
Making ==
  /\ job # {} /\ repo # "bare" /\ repo' \in {"made", "bare"}
  /\ UNCHANGED <<acl, refs, objects, job, inbox, answer, client, crashes, wrote, disturbed>>

LEMMA OtherRepo ==
  ASSUME RepoOK, Making \/ Crash \/ \E q : Accepted(q)
  PROVE  StoreOK' /\ BornEmpty' /\ OwnedOrGone' /\ WritersOnly'
<1>1. CASE Making
  BY <1>1 DEF Making, RepoOK, StoreOK, BornEmpty, OwnedOrGone, WritersOnly
<1>2. CASE Crash
  <2>1. crashes' # 0
    BY <1>2 DEF Crash, RepoOK, StoreOK
  <2>2. QED
    BY <1>2, <2>1 DEF Crash, store, RepoOK, StoreOK, BornEmpty, OwnedOrGone, WritersOnly
<1>3. CASE \E q : Accepted(q)
  BY <1>3 DEF Accepted, Creates, RepoOK, StoreOK, BornEmpty, OwnedOrGone, WritersOnly
<1>4. QED
  BY <1>1, <1>2, <1>3

\* The peers leave it alone.
LEMMA PeersRepo ==
  ASSUME RepoOK, UNCHANGED <<repo, acl, refs, objects, crashes, wrote>>, job' = {} <=> job = {}
  PROVE  StoreOK' /\ BornEmpty' /\ OwnedOrGone' /\ WritersOnly'
BY DEF RepoOK, StoreOK, BornEmpty, OwnedOrGone, WritersOnly

--------------------------------------------------------------------------------
(* What is stored.                                                         *)

LEMMA ServedStored ==
  ASSUME StoreOK, PeersOK, AllStored, NEW q \in RequestType, Served(q), ObjectsGrow, client' = client
  PROVE  AllStored'
<1>1. \A r \in Ref : History(refs'[r]) \subseteq objects'
  BY ServedBranches
<1>2. objects \subseteq objects' /\ \A c \in objects' : History(c) \subseteq objects'
  BY DEF ObjectsGrow
<1>3. PICK a \in AnswerType : Answer(q, a) /\ a.refs \in {NoRefs, refs}
  BY DEF Served
<1>4. \A p \in Peer : answer'[p] = IF q.live /\ q.peer = p THEN a ELSE answer[p]
  BY <1>3, Answered
<1>5. \A r \in Ref : History(a.refs[r]) \subseteq objects
  BY <1>3, Histories DEF AllStored, NoRefs
<1>6. ASSUME NEW p \in Peer, NEW r \in Ref
      PROVE  History(client'[p].view[r]) \cup History(answer'[p].refs[r]) \subseteq objects'
  <2>1. History(client[p].view[r]) \cup History(answer[p].refs[r]) \subseteq objects
    BY DEF AllStored
  <2>2. QED
    BY <1>2, <1>4, <1>5, <2>1
<1>7. QED
  BY <1>1, <1>2, <1>6 DEF AllStored

\* Requests that were there are as good as before.
LEMMA ServedPushes ==
  ASSUME PushesOK, ObjectsGrow, inbox' \cup job' \subseteq inbox \cup job
  PROVE  PushesOK'
BY DEF PushesOK, PushOK, ObjectsGrow

LEMMA SameStored ==
  ASSUME AllStored, PushesOK, UNCHANGED <<objects, refs, answer, client>>,
         inbox' \cup job' \subseteq inbox \cup job
  PROVE  AllStored' /\ PushesOK'
BY DEF AllStored, PushesOK, PushOK

LEMMA PeerStored ==
  ASSUME PeersOK, AllStored, PushesOK, NEW p \in Peer, NEW c, GoesOn(p, c)
  PROVE  AllStored' /\ PushesOK'
<1>1. /\ UNCHANGED <<objects, refs, job>> /\ \A r \in Ref : History(c.view[r]) \subseteq objects
      /\ client' = [client EXCEPT ![p] = c] /\ answer' = [answer EXCEPT ![p] = NoAnswer]
      /\ \A q \in inbox' : q \in inbox \/ (q.kind = "push" => PushOK(q))
  BY DEF GoesOn
<1>2. \A r \in Ref : History(NoAnswer.refs[r]) \subseteq objects
  BY AnswerTypes, Histories DEF NoRefs
<1>3. AllStored'
  BY <1>1, <1>2 DEF PeersOK, AllStored
<1>4. PushesOK'
  BY <1>1 DEF PushesOK, PushOK
<1>5. QED
  BY <1>3, <1>4

--------------------------------------------------------------------------------
(* Requests and answers.                                                   *)

PeersAgree == QueuesOK /\ PeersOK /\ OneAsked /\ OkIsWritten /\ ReportedIsWritten /\ Running

\* The answer to the request a peer waits for is the one it looks at next.
LEMMA ServedAgrees ==
  ASSUME StoreOK, AllStored, PeersAgree, NEW q, Served(q), ObjectsGrow, client' = client,
         \/ q \in inbox /\ job = {} /\ job' = {} /\ inbox' = inbox \ {q}
         \/ job = {q} /\ job' = {} /\ inbox' = inbox,
         disturbed' \in [Peer -> BOOLEAN]
  PROVE  PeersAgree'
<1>1. q \in RequestType /\ q \in inbox \cup job
  BY DEF PeersAgree, QueuesOK
<1>2. PICK R \in SUBSET q.refs, c \in Tree, a \in AnswerType \ {NoAnswer} :
        /\ SetRefs(R, c, q.peer) /\ Answer(q, a)
        /\ q.kind = "push" /\ a.kind = "ok" => R = q.refs /\ c = q.commit
  BY DEF Served
<1>3. /\ answer' \in [Peer -> AnswerType]
      /\ \A p \in Peer : answer'[p] = IF q.live /\ q.peer = p THEN a ELSE answer[p]
  BY <1>1, <1>2, Answered DEF PeersAgree
<1>4. wrote' = wrote \cup {<<q.peer, r, c>> : r \in R} /\ wrote \subseteq wrote'
  BY <1>2 DEF SetRefs
<1>5. QueuesOK' /\ PeersOK'
  BY <1>3 DEF PeersAgree, QueuesOK, PeersOK
<1>6. \A o \in inbox' \cup job' : o \in inbox \cup job /\ (o.live /\ q.live => o.peer # q.peer)
  <2>1. SUFFICES ASSUME NEW o \in inbox' \cup job', o.live, q.live, o.peer = q.peer PROVE FALSE
    OBVIOUS
  <2>2. o \in inbox \cup job /\ o = q
    BY <1>1, <2>1 DEF PeersAgree, OneAsked
  <2>3. o \in inbox' /\ q \in job
    BY <2>1, <2>2
  <2>4. QED
    BY <2>1, <2>2, <2>3 DEF PeersAgree, OneAsked
<1>7. OneAsked'
  <2>1. ASSUME NEW o \in inbox' \cup job', o.live
        PROVE  answer'[o.peer] = NoAnswer /\ Asks(client'[o.peer], o)
    <3>1. o.peer \in Peer /\ o \in inbox \cup job
      BY <1>6, <2>1 DEF PeersAgree, QueuesOK, RequestType
    <3>2. answer'[o.peer] = answer[o.peer]
      BY <1>3, <1>6, <2>1, <3>1
    <3>3. QED
      BY <2>1, <3>1, <3>2 DEF PeersAgree, OneAsked
  <2>2. ASSUME NEW o \in inbox' \cup job', NEW n \in inbox' \cup job', o.live, n.live, o.peer = n.peer
        PROVE  o = n
    BY <1>6, <2>2 DEF PeersAgree, OneAsked
  <2>3. job' = {}
    OBVIOUS
  <2>4. ASSUME NEW p \in Peer, client'[p].at = "idle" PROVE answer'[p] = NoAnswer
    <3>1. answer[p] = NoAnswer
      BY <2>4 DEF PeersAgree, OneAsked
    <3>2. ~(q.live /\ q.peer = p)
      BY <1>1, <2>4 DEF PeersAgree, OneAsked, Asks
    <3>3. QED
      BY <1>3, <3>1, <3>2
  <2>5. QED
    BY <2>1, <2>2, <2>3, <2>4 DEF OneAsked
<1>8. OkIsWritten'
  <2>1. SUFFICES ASSUME NEW p \in Peer, client[p].at = "push", answer'[p].kind = "ok",
                        NEW r \in client[p].cur
                 PROVE  <<p, r, client[p].local.tips[r]>> \in wrote'
    BY DEF OkIsWritten
  <2>2. CASE q.live /\ q.peer = p
    <3>1. q.kind = "push" /\ q.refs = client[p].cur /\ q.commit = client[p].local.tips[r]
      BY <1>1, <2>1, <2>2 DEF PeersAgree, OneAsked, Asks
    <3>2. a.kind = "ok"
      BY <1>3, <2>1, <2>2
    <3>3. r \in R /\ c = client[p].local.tips[r]
      BY <1>2, <2>1, <3>1, <3>2
    <3>4. QED
      BY <1>4, <2>2, <3>3
  <2>3. CASE ~(q.live /\ q.peer = p)
    BY <1>3, <1>4, <2>1, <2>3 DEF PeersAgree, OkIsWritten
  <2>4. QED
    BY <2>2, <2>3
<1>9. ReportedIsWritten'
  BY <1>4 DEF PeersAgree, ReportedIsWritten
<1>10. Running'
  BY DEF PeersAgree, Running, Outdated
<1>11. QED
  BY <1>5, <1>7, <1>8, <1>9, <1>10 DEF PeersAgree

\* Nothing is lost or made up when a request goes from one queue to the other, or when the
\* queues are emptied.
LEMMA MovedAgrees ==
  ASSUME PeersAgree, UNCHANGED <<answer, client, wrote>>, disturbed' \in [Peer -> BOOLEAN],
         \/ \E q \in inbox : /\ job = {} /\ job' = {q} /\ inbox' = inbox \ {q}
                             /\ q.kind \in {"push", "update", "create"}
         \/ job' = {} /\ inbox' = {}
         \/ job' = job /\ inbox' = inbox
  PROVE  PeersAgree'
<1>1. inbox' \cup job' \subseteq inbox \cup job /\ inbox' \cap job' \subseteq inbox \cap job
  OBVIOUS
<1>2. QueuesOK'
  BY DEF PeersAgree, QueuesOK
<1>3. OneAsked'
  BY <1>1 DEF PeersAgree, OneAsked
<1>4. QED
  BY <1>2, <1>3 DEF PeersAgree, PeersOK, OkIsWritten, ReportedIsWritten, Running, Outdated

LEMMA PeerAgrees ==
  ASSUME PeersAgree, NEW p \in Peer, NEW c, GoesOn(p, c) PROVE PeersAgree'
<1>1. /\ c \in ClientType /\ client' = [client EXCEPT ![p] = c]
      /\ answer' = [answer EXCEPT ![p] = NoAnswer]
      /\ \A q \in inbox \cup job : q.live => q.peer # p
      /\ \A r \in c.ok : <<p, r, c.local.tips[r]>> \in wrote
      /\ c.at # "idle" => c.result = "none"
      /\ c.at = "push" => c.todo \cup c.cur \subseteq Outdated(c)
      /\ UNCHANGED <<job, wrote, disturbed>>
  BY DEF GoesOn
<1>2. \A o \in Peer : /\ client'[o] = IF o = p THEN c ELSE client[o]
                      /\ answer'[o] = IF o = p THEN NoAnswer ELSE answer[o]
  BY <1>1 DEF PeersAgree, PeersOK
<1>3. \/ inbox' = inbox /\ c.at = "idle"
      \/ \E q \in RequestType :
           inbox' = inbox \cup {q} /\ q.peer = p /\ q.live /\ Asks(c, q)
  BY DEF GoesOn
<1>4. QueuesOK'
  BY <1>1, <1>3 DEF PeersAgree, QueuesOK
<1>5. PeersOK'
  BY <1>1, AnswerTypes DEF PeersAgree, PeersOK
<1>6. \A q \in inbox \cup job : q.peer \in Peer
  BY DEF PeersAgree, QueuesOK, RequestType
<1>7. OneAsked'
  <2>1. CASE inbox' = inbox
    BY <1>1, <1>2, <1>6, <2>1 DEF PeersAgree, OneAsked
  <2>2. CASE \E q \in RequestType : inbox' = inbox \cup {q} /\ q.peer = p /\ q.live /\ Asks(c, q)
    <3>1. PICK q \in RequestType : inbox' = inbox \cup {q} /\ q.peer = p /\ q.live /\ Asks(c, q)
      BY <2>2
    <3>2. q \notin inbox \cup job
      BY <1>1, <3>1
    <3>3. ASSUME NEW o \in inbox' \cup job', o.live
          PROVE  answer'[o.peer] = NoAnswer /\ Asks(client'[o.peer], o)
      <4>1. CASE o = q
        BY <1>2, <3>1, <4>1
      <4>2. CASE o # q
        <5>1. o \in inbox \cup job /\ o.peer # p /\ o.peer \in Peer
          BY <1>1, <1>6, <3>1, <3>3, <4>2
        <5>2. QED
          BY <1>2, <3>3, <5>1 DEF PeersAgree, OneAsked
      <4>3. QED
        BY <4>1, <4>2
    <3>4. ASSUME NEW o \in inbox' \cup job', NEW n \in inbox' \cup job', o.live, n.live, o.peer = n.peer
          PROVE  o = n
      BY <1>1, <3>1, <3>4 DEF PeersAgree, OneAsked
    <3>5. \A o \in inbox' \cap job' : ~o.live
      BY <1>1, <3>1, <3>2 DEF PeersAgree, OneAsked
    <3>6. \A o \in Peer : client'[o].at = "idle" => answer'[o] = NoAnswer
      BY <1>2 DEF PeersAgree, OneAsked
    <3>7. QED
      BY <3>3, <3>4, <3>5, <3>6 DEF OneAsked
  <2>3. QED
    BY <1>3, <2>1, <2>2
<1>8. OkIsWritten'
  BY <1>1, <1>2, AnswerTypes DEF PeersAgree, OkIsWritten
<1>9. ReportedIsWritten'
  BY <1>1, <1>2 DEF PeersAgree, ReportedIsWritten
<1>10. Running'
  BY <1>1, <1>2 DEF PeersAgree, Running, Outdated
<1>11. QED
  BY <1>4, <1>5, <1>7, <1>8, <1>9, <1>10 DEF PeersAgree

--------------------------------------------------------------------------------
(* A peer gives up.                                                        *)

\* Request q when peer p does not wait for it any more.
Silenced(q, p) == IF q.peer = p THEN [q EXCEPT !.live = FALSE] ELSE q

LEMMA SilencedType ==
  ASSUME NEW q \in RequestType, NEW p
  PROVE  LET o == Silenced(q, p) IN
         /\ o \in RequestType /\ o.peer = q.peer /\ o.kind = q.kind
         /\ o.live => o = q /\ o.peer # p
         /\ q.live /\ q.peer # p => o.live
         /\ q.kind = "push" /\ PushOK(q) => PushOK(o)
<1>1. CASE q.peer = p
  <2> DEFINE o == [q EXCEPT !.live = FALSE]
  <2>1. /\ o \in RequestType /\ o.peer = q.peer /\ o.kind = q.kind /\ ~o.live
        /\ o.force = q.force /\ o.base = q.base /\ o.prereqs = q.prereqs
        /\ o.refs = q.refs /\ o.commit = q.commit /\ o.objects = q.objects
    BY DEF RequestType
  <2>2. Silenced(q, p) = o
    BY <1>1 DEF Silenced
  <2> HIDE DEF o
  <2>3. PushOK(q) => PushOK(o)
    BY <2>1 DEF PushOK
  <2>4. QED
    BY <1>1, <2>1, <2>2, <2>3
<1>2. CASE q.peer # p
  BY <1>2 DEF Silenced
<1>3. QED
  BY <1>1, <1>2

LEMMA TimedOutIs ==
  ASSUME PeersAgree, NEW p \in Peer, TimedOut(p)
  PROVE  LET c == Ended(client[p], "timed out") IN
         /\ c \in ClientType /\ c.at = "idle" /\ c.ok = client[p].ok /\ c.local = client[p].local
         /\ c.result = "timed out" /\ c.view = client[p].view
         /\ \A o \in Peer : /\ client'[o] = IF o = p THEN c ELSE client[o]
                            /\ answer'[o] = IF o = p THEN NoAnswer ELSE answer[o]
         /\ client' \in [Peer -> ClientType] /\ answer' \in [Peer -> AnswerType]
         /\ inbox' = {Silenced(q, p) : q \in inbox} /\ job' = {Silenced(q, p) : q \in job}
         /\ UNCHANGED <<repo, acl, refs, objects, crashes, wrote, disturbed>>
<1> DEFINE c == Ended(client[p], "timed out")
<1>1. client[p] \in ClientType /\ "timed out" \in Results
  BY DEF PeersAgree, PeersOK, Results
<1>2. /\ c \in ClientType /\ c.at = "idle" /\ c.ok = client[p].ok /\ c.local = client[p].local
      /\ c.result = "timed out" /\ c.view = client[p].view
  BY <1>1, EndType
<1>3. /\ client' = [client EXCEPT ![p] = c] /\ answer' = [answer EXCEPT ![p] = NoAnswer]
      /\ UNCHANGED <<repo, acl, refs, objects, crashes, wrote, disturbed>>
  BY DEF TimedOut, store
<1>4. inbox' = {Silenced(q, p) : q \in inbox} /\ job' = {Silenced(q, p) : q \in job}
  BY DEF TimedOut, Silenced
<1> HIDE DEF c
<1>5. /\ \A o \in Peer : /\ client'[o] = IF o = p THEN c ELSE client[o]
                         /\ answer'[o] = IF o = p THEN NoAnswer ELSE answer[o]
      /\ client' \in [Peer -> ClientType] /\ answer' \in [Peer -> AnswerType]
  BY <1>2, <1>3, AnswerTypes DEF PeersAgree, PeersOK
<1>6. QED
  BY <1>2, <1>3, <1>4, <1>5 DEF c

\* Requests that are live after it were there before, of other peers.
LEMMA LiveAfter ==
  ASSUME PeersAgree, NEW p \in Peer, TimedOut(p)
  PROVE  /\ \A o \in inbox' : o \in RequestType /\ (o.live => o \in inbox /\ o.peer # p)
         /\ \A o \in job' : o \in RequestType /\ (o.live => o \in job /\ o.peer # p)
         /\ \A o \in inbox' \cup job' : \E q \in inbox \cup job : o = Silenced(q, p)
         /\ \A q \in job : q.live /\ q.peer # p => q \in job'
         /\ job' = {} <=> job = {}
         /\ \A q \in job : job = {q} => job' = {Silenced(q, p)}
<1>1. inbox' = {Silenced(q, p) : q \in inbox} /\ job' = {Silenced(q, p) : q \in job}
  BY TimedOutIs
<1>2. \A q \in inbox \cup job : q \in RequestType
  BY DEF PeersAgree, QueuesOK
<1>3. \A q \in inbox \cup job : /\ Silenced(q, p) \in RequestType
                                /\ Silenced(q, p).live => Silenced(q, p) = q /\ q.peer # p
  BY <1>2, SilencedType
<1>4. \A q \in job : q.peer # p => Silenced(q, p) = q
  BY DEF Silenced
<1>5. QED
  BY <1>1, <1>3, <1>4

LEMMA TimedOutAgrees ==
  ASSUME PeersAgree, NEW p \in Peer, TimedOut(p) PROVE PeersAgree'
<1> DEFINE c == Ended(client[p], "timed out")
<1>1. /\ c \in ClientType /\ c.at = "idle" /\ c.ok = client[p].ok /\ c.local = client[p].local
      /\ \A o \in Peer : /\ client'[o] = IF o = p THEN c ELSE client[o]
                         /\ answer'[o] = IF o = p THEN NoAnswer ELSE answer[o]
      /\ client' \in [Peer -> ClientType] /\ answer' \in [Peer -> AnswerType]
      /\ UNCHANGED <<wrote, disturbed>>
  BY TimedOutIs
<1> HIDE DEF c
<1>2. QueuesOK'
  <2>1. inbox' \in SUBSET RequestType
    BY LiveAfter
  <2>2. CASE job = {}
    BY <2>1, <2>2, LiveAfter DEF QueuesOK
  <2>3. CASE job # {}
    <3>1. PICK q \in RequestType : job = {q} /\ q.kind \in {"push", "update", "create"}
      BY <2>3 DEF PeersAgree, QueuesOK
    <3>2. job' = {Silenced(q, p)} /\ Silenced(q, p) \in RequestType /\ Silenced(q, p).kind = q.kind
      BY <3>1, LiveAfter, SilencedType
    <3>3. QED
      BY <2>1, <3>1, <3>2 DEF QueuesOK
  <2>4. QED
    BY <2>2, <2>3
<1>3. OneAsked'
  <2>1. ASSUME NEW o \in inbox' \cup job', o.live
        PROVE  /\ o \in inbox \cup job /\ o.peer # p /\ o.peer \in Peer
               /\ answer'[o.peer] = answer[o.peer] /\ client'[o.peer] = client[o.peer]
    <3>1. o \in inbox \cup job /\ o.peer # p /\ o.peer \in Peer
      BY <2>1, LiveAfter DEF RequestType
    <3>2. QED
      BY <1>1, <3>1
  <2>2. \A o \in inbox' \cap job' : ~o.live
    BY LiveAfter DEF PeersAgree, OneAsked
  <2>3. \A o \in Peer : client'[o].at = "idle" => answer'[o] = NoAnswer
    BY <1>1 DEF PeersAgree, OneAsked
  <2>4. QED
    BY <2>1, <2>2, <2>3 DEF PeersAgree, OneAsked
<1>4. PeersOK'
  BY <1>1 DEF PeersAgree, PeersOK
<1>5. OkIsWritten' /\ ReportedIsWritten' /\ Running'
  BY <1>1 DEF PeersAgree, OkIsWritten, ReportedIsWritten, Running, Outdated
<1>6. QED
  BY <1>2, <1>3, <1>4, <1>5 DEF PeersAgree

LEMMA TimedOutStored ==
  ASSUME PeersAgree, AllStored, PushesOK, NEW p \in Peer, TimedOut(p) PROVE AllStored' /\ PushesOK'
<1> DEFINE c == Ended(client[p], "timed out")
<1>1. /\ c.view = client[p].view /\ UNCHANGED <<refs, objects>>
      /\ \A o \in Peer : /\ client'[o] = IF o = p THEN c ELSE client[o]
                         /\ answer'[o] = IF o = p THEN NoAnswer ELSE answer[o]
  BY TimedOutIs
<1> HIDE DEF c
<1>2. \A r \in Ref : History(NoAnswer.refs[r]) \subseteq objects
  BY AnswerTypes, Histories DEF NoRefs
<1>3. AllStored'
  BY <1>1, <1>2 DEF AllStored
<1>4. ASSUME NEW o \in inbox' \cup job', o.kind = "push" PROVE PushOK(o)
  <2>1. PICK q \in inbox \cup job : o = Silenced(q, p)
    BY LiveAfter
  <2>2. q \in RequestType
    BY DEF PeersAgree, QueuesOK
  <2>3. q.kind = "push" /\ PushOK(q)
    BY <1>4, <2>1, <2>2, SilencedType DEF PushesOK
  <2>4. QED
    BY <2>1, <2>2, <2>3, SilencedType
<1>5. PushesOK'
  BY <1>1, <1>4 DEF PushesOK, PushOK
<1>6. QED
  BY <1>3, <1>5

--------------------------------------------------------------------------------
(* What a push has done.                                                   *)

Steady == Undisturbed /\ MadeForOne /\ PushComplete /\ RefusalExplained
Consistent == RepoOK /\ AllStored /\ PushesOK /\ PeersAgree

\* A push that the server may do and does not, with nothing else done, is explained.
LEMMA RefusedIsExplained ==
  ASSUME StoreOK, NEW q \in RequestType, NEW c \in ClientType, q.kind = "push", Asks(c, q), PushOK(q),
         c.cur \subseteq Outdated(c), \A r \in c.cur : refs[r] = c.view[r],
         repo = "bare", ~Applies(q)
  PROVE  Explained(c)
<1>1. /\ q.refs = c.cur /\ c.cur # {}
      /\ \A r \in c.cur : /\ q.commit = c.local.tips[r]
                          /\ q.carries <=> Carried(c, r)
                          /\ q.force <=> OpForce(q.peer, c, r)
  BY DEF Asks
<1>2. q.prereqs \subseteq objects
  BY DEF PushOK
<1>3. ~q.carries \/ \E r \in q.refs : ~q.force /\ ~(refs[r] \subseteq q.commit)
  BY <1>2 DEF Applies
<1>4. CASE ~q.carries
  <2>1. PICK r \in c.cur : ~Carried(c, r)
    BY <1>1, <1>4
  <2>2. r \in Outdated(c) /\ r \in Ref
    BY DEF Outdated
  <2>3. QED
    BY <2>1, <2>2, NotCarried DEF Explained
<1>5. CASE \E r \in q.refs : ~q.force /\ ~(refs[r] \subseteq q.commit)
  <2>1. PICK r \in c.cur : ~OpForce(q.peer, c, r) /\ ~(c.view[r] \subseteq c.local.tips[r])
    BY <1>1, <1>5
  <2>2. ~FastForward(c, r) /\ c.view[r] # NoCommit
    BY <2>1 DEF FastForward, NoCommit
  <2>3. ~c.force
    BY <2>1, <2>2 DEF OpForce
  <2>4. QED
    BY <2>2, <2>3 DEF Explained
<1>6. QED
  BY <1>3, <1>4, <1>5

\* A push makes progress with the answer to its own request.
LEMMA OwnPushServed ==
  ASSUME StoreOK, NEW q \in RequestType, NEW c \in ClientType, NEW a \in AnswerType \ {NoAnswer},
         NEW R \in SUBSET q.refs, NEW d \in Tree, SetRefs(R, d, q.peer),
         q.kind = "push" /\ a.kind = "ok" => R = q.refs /\ d = q.commit,
         q.kind = "push" /\ a.kind = "refused" => R = {} /\ Reason(q),
         c.at = "push", Asks(c, q), PushOK(q), c.cur \subseteq Outdated(c),
         job = {} \/ repo = "bare", Progress(q.peer, c, "none"), Access(q.peer)',
         disturbed' # [p \in Peer |-> TRUE]
  PROVE  Progress(q.peer, c, a.kind)'
<1>1. /\ q.kind = "push" /\ q.refs = c.cur /\ \A r \in c.cur : q.commit = c.local.tips[r]
      /\ a.kind \in {"ok", "refused"} /\ c.cur \subseteq Ref /\ c.todo \subseteq Ref
  BY AnswerTypes DEF Asks, ClientType
<1>2. refs' = [r \in Ref |-> IF r \in R THEN d ELSE refs[r]]
  BY DEF SetRefs
<1>3. CASE a.kind = "ok"
  <2>1. \A r \in Ref : refs'[r] = IF r \in c.cur THEN c.local.tips[r] ELSE refs[r]
    BY <1>1, <1>2, <1>3
  <2>2. QED
    BY <1>1, <1>3, <2>1 DEF Progress
<1>4. CASE a.kind = "refused"
  <2>1. \A r \in Ref : refs'[r] = refs[r]
    BY <1>1, <1>2, <1>4
  <2>2. repo = "bare" /\ ~Applies(q)
    <3>1. job = {} => repo = "missing" \/ repo = "bare"
      BY DEF Progress, Access, MayPush, Creates
    <3>2. job = {} => MayWrite(q.peer) \/ Creates(q.peer)
      BY DEF Progress, Access, MayPush
    <3>3. QED
      BY <1>1, <1>4, <3>1, <3>2 DEF Reason
  <2>3. \A r \in c.cur : refs[r] = c.view[r]
    BY DEF Progress
  <2>4. Explained(c)
    BY <1>1, <2>2, <2>3, RefusedIsExplained
  <2>5. QED
    BY <1>1, <1>4, <2>1, <2>4 DEF Progress
<1>5. QED
  BY <1>1, <1>3, <1>4

\* What an undisturbed peer relies on, one peer at a time.
SteadyFor(p) ==
  /\ client[p].at = "list" /\ answer[p].kind = "ok" => answer[p].refs = refs /\ Access(p)
  /\ client[p].at = "push" => Progress(p, client[p], answer[p].kind)
  /\ client[p].result = "pushed" => Landed(client[p])
  /\ client[p].result \in {"refused", "empty bundle"} => Explained(client[p])
  /\ \A q \in job : ~(q.live /\ q.peer = p) =>
       client[p].at # "push" /\ client[p].result # "pushed" /\ answer[p] = NoAnswer

LEMMA SteadyForAll == Steady <=> \A p \in Peer : ~disturbed[p] => SteadyFor(p)
BY DEF Steady, SteadyFor, Undisturbed, MadeForOne, PushComplete, RefusalExplained, Landed, Explained

LEMMA SteadyForAllNext == Steady' <=> \A p \in Peer : ~disturbed'[p] => SteadyFor(p)'
BY DEF Steady, SteadyFor, Undisturbed, MadeForOne, PushComplete, RefusalExplained, Landed, Explained

\* A peer stays as it was while the branches, its answer and its part in the job do.
LEMMA Untouched ==
  ASSUME NEW p \in Peer, SteadyFor(p), UNCHANGED refs,
         client'[p] = client[p], answer'[p] = answer[p], Access(p) => Access(p)',
         \A q \in job' : ~(q.live /\ q.peer = p) => \E o \in job : ~(o.live /\ o.peer = p)
  PROVE  SteadyFor(p)'
<1> DEFINE c == client[p]
           k == answer[p].kind
<1>1. c' = c /\ k' = k
  OBVIOUS
<1>2. (Explained(c)' <=> Explained(c)) /\ (Landed(c)' <=> Landed(c))
  BY <1>1 DEF Explained, Landed, Outdated, FastForward
<1> HIDE DEF c, k
<1>3. Progress(p, c, k) => Progress(p, c, k)'
  BY <1>1, <1>2 DEF Progress
<1>4. QED
  BY <1>1, <1>2, <1>3 DEF SteadyFor, c, k

\* An undisturbed peer has the answer to its own request.
LEMMA OwnAnswer ==
  ASSUME Consistent, Steady, NEW q \in inbox \cup job, Served(q), q.live, q.kind # "list",
         ~disturbed[q.peer], ~disturbed'[q.peer], q.peer \in Peer,
         client' = client, job' = {}, job = {} \/ repo = "bare",
         Access(q.peer) => Access(q.peer)'
  PROVE  SteadyFor(q.peer)'
<1> DEFINE p == q.peer
           c == client[p]
<1>1. /\ q \in RequestType /\ q.peer \in Peer /\ (q.kind = "push" => PushOK(q))
  BY DEF Consistent, RepoOK, QueuesOK, RequestType, PushesOK
<1>2. PICK R \in SUBSET q.refs, d \in Tree, a \in AnswerType \ {NoAnswer} :
        /\ SetRefs(R, d, q.peer) /\ Answer(q, a)
        /\ q.kind = "push" /\ a.kind = "ok" => R = q.refs /\ d = q.commit
        /\ q.kind = "push" /\ a.kind = "refused" => R = {} /\ Reason(q)
  BY DEF Served
<1>3. answer'[p] = a
  BY <1>1, <1>2, Answered DEF Consistent, PeersAgree
<1>4. /\ Asks(c, q) /\ answer[p] = NoAnswer /\ c.result = "none" /\ c.at # "list" /\ c \in ClientType
      /\ c.at = "push" => c.todo \cup c.cur \subseteq Outdated(c)
  BY <1>1 DEF Consistent, PeersAgree, PeersOK, OneAsked, Running, Asks
<1>5. c' = c /\ SteadyFor(p)
  BY SteadyForAll
<1>6. ASSUME c.at = "push" PROVE Progress(p, c, a.kind)'
  <2>1. answer[p].kind = "none"
    BY <1>4, AnswerTypes
  <2>2. Progress(p, c, "none")
    BY <1>5, <1>6, <2>1 DEF SteadyFor
  <2>3. Access(p)'
    BY <2>2 DEF Progress
  <2>4. q.kind = "push" /\ PushOK(q) /\ c.cur \subseteq Outdated(c)
    BY <1>1, <1>4, <1>6 DEF Asks
  <2>5. disturbed' # [o \in Peer |-> TRUE]
    BY <1>1
  <2>6. PICK e \in ClientType : e = c
    BY <1>4
  <2>7. e.at = "push" /\ Asks(e, q) /\ e.cur \subseteq Outdated(e) /\ Progress(q.peer, e, "none")
    BY <1>4, <1>6, <2>2, <2>4, <2>6
  <2>8. Progress(q.peer, e, a.kind)'
    BY <1>1, <1>2, <2>3, <2>4, <2>5, <2>7, OwnPushServed DEF Consistent, RepoOK
  <2>9. QED
    BY <1>5, <2>6, <2>8
<1>7. QED
  BY <1>3, <1>4, <1>5, <1>6 DEF SteadyFor

LEMMA HandledSteady ==
  ASSUME Consistent, Steady, NEW q, Handled(q) PROVE Steady'
<1>1. /\ q \in RequestType /\ q \in inbox /\ q.peer \in Peer /\ job = {} /\ job' = {}
      /\ Served(q) /\ UNCHANGED <<repo, acl, client>> /\ disturbed \in [Peer -> BOOLEAN]
  BY DEF Handled, Consistent, RepoOK, PeersAgree, PeersOK, QueuesOK, RequestType
<1>2. \A p \in Peer : (Access(p) <=> MayPush(p)) /\ (Access(p)' <=> MayPush(p))
  BY <1>1 DEF Access, MayPush, Creates, MayWrite
<1>3. SUFFICES ASSUME NEW p \in Peer, ~disturbed'[p] PROVE SteadyFor(p)'
  BY SteadyForAllNext
<1>4. CASE q.kind = "list"
  <2>1. PICK a \in AnswerType \ {NoAnswer} :
          /\ SetRefs({}, NoCommit, q.peer) /\ Answer(q, a)
          /\ a.kind = "ok" => a.refs = refs /\ MayPush(q.peer)
    BY <1>4, <1>1 DEF Served, SetRefs
  <2>2. UNCHANGED refs /\ answer'[p] = IF q.live /\ q.peer = p THEN a ELSE answer[p]
    BY <1>1, <2>1, Answered DEF SetRefs, Consistent, RepoOK, PeersAgree, StoreOK
  <2>3. CASE q.live /\ q.peer = p
    <3>1. client[p].at = "list" /\ client[p].result = "none"
      BY <1>1, <1>4, <2>3 DEF Consistent, PeersAgree, OneAsked, Running, Asks
    <3>2. a.kind = "ok" => a.refs = refs /\ Access(p)'
      BY <1>2, <2>1, <2>3
    <3>3. QED
      BY <1>1, <2>2, <2>3, <3>1, <3>2 DEF SteadyFor
  <2>4. CASE ~(q.live /\ q.peer = p)
    <3>1. ~disturbed[p]
      BY <1>1, <1>3, <1>4, <2>4 DEF Handled
    <3>2. SteadyFor(p)
      BY <3>1, SteadyForAll
    <3>3. QED
      BY <1>1, <1>2, <2>2, <2>4, <3>2, Untouched
  <2>5. QED
    BY <2>3, <2>4
<1>5. CASE q.kind # "list"
  <2>1. q.live /\ q.peer = p /\ ~disturbed[p]
    BY <1>3, <1>5 DEF Handled, Note
  <2>2. QED
    BY <1>1, <1>2, <1>3, <1>5, <2>1, OwnAnswer
<1>6. QED
  BY <1>4, <1>5

LEMMA OwnedSteady ==
  ASSUME Consistent, Steady, NEW q, Owned(q) PROVE Steady'
<1>1. /\ q \in RequestType /\ q \in job /\ q.peer \in Peer /\ job' = {} /\ Served(q)
      /\ repo = "bare" /\ acl' = q.peer /\ UNCHANGED <<repo, client, disturbed>>
      /\ q.kind \in {"push", "update", "create"}
  BY DEF Owned, Consistent, RepoOK, QueuesOK, RequestType
<1>2. Access(q.peer)'
  BY <1>1 DEF Access, MayPush, MayWrite
<1>3. SUFFICES ASSUME NEW p \in Peer, ~disturbed'[p] PROVE SteadyFor(p)'
  BY SteadyForAllNext
<1>4. ~disturbed[p] /\ SteadyFor(p)
  BY <1>1, <1>3, SteadyForAll
<1>5. CASE q.live /\ q.peer = p
  BY <1>1, <1>2, <1>3, <1>4, <1>5, OwnAnswer
<1>6. CASE ~(q.live /\ q.peer = p)
  <2>1. client[p].at # "push" /\ client[p].result # "pushed" /\ answer[p] = NoAnswer
    BY <1>1, <1>4, <1>6 DEF SteadyFor
  <2>2. answer'[p] = NoAnswer
    BY <1>1, <1>6, <2>1, Answered DEF Served, Consistent, PeersAgree
  <2>3. NoAnswer.kind # "ok"
    BY AnswerTypes
  <2>4. client'[p] = client[p] /\ (Explained(client[p])' <=> Explained(client[p]))
    BY <1>1 DEF Explained, Outdated, FastForward
  <2>5. QED
    BY <1>1, <1>4, <2>1, <2>2, <2>3, <2>4 DEF SteadyFor
<1>7. QED
  BY <1>5, <1>6

\* The server begins to make the repository for an undisturbed peer.
LEMMA AcceptedSteady ==
  ASSUME Consistent, Steady, NEW q, Accepted(q) PROVE Steady'
<1>1. /\ q \in inbox /\ q \in RequestType /\ job' = {q} /\ Note(q)
      /\ q.kind \in {"push", "update", "create"} /\ UNCHANGED <<refs, answer, client>>
  BY DEF Accepted, Consistent, RepoOK, QueuesOK
<1>2. SUFFICES ASSUME NEW p \in Peer, ~disturbed'[p] PROVE SteadyFor(p)'
  BY SteadyForAllNext
<1>3. q.live /\ q.peer = p /\ ~disturbed[p] /\ SteadyFor(p)
  BY <1>1, <1>2, SteadyForAll DEF Note
<1> DEFINE c == client[p]
           k == answer[p].kind
<1>4. c.at # "list" /\ c.result = "none" /\ c' = c /\ k' = k
  BY <1>1, <1>3 DEF Consistent, PeersAgree, OneAsked, Running, Asks
<1>5. Access(p)'
  BY <1>1, <1>3 DEF Access
<1>6. c.at = "push" => Progress(p, c, k)
  BY <1>3 DEF SteadyFor
<1>7. Explained(c)' <=> Explained(c)
  BY <1>4 DEF Explained, Outdated, FastForward
<1> HIDE DEF c, k
<1>8. Progress(p, c, k) => Progress(p, c, k)'
  BY <1>1, <1>4, <1>5, <1>7 DEF Progress
<1>9. QED
  BY <1>1, <1>3, <1>4, <1>6, <1>8 DEF SteadyFor, c, k

LEMMA MakingSteady ==
  ASSUME Consistent, Steady, Making PROVE Steady'
<1>1. PICK q \in job : job = {q}
  BY DEF Making, Consistent, RepoOK, QueuesOK
<1>2. UNCHANGED <<refs, answer, client, disturbed, job>>
  BY DEF Making
<1>3. SUFFICES ASSUME NEW p \in Peer, ~disturbed'[p] PROVE SteadyFor(p)'
  BY SteadyForAllNext
<1>4. SteadyFor(p)
  BY <1>2, <1>3, SteadyForAll
<1>5. CASE q.live /\ q.peer = p
  <2>1. Access(p)'
    BY <1>1, <1>2, <1>5 DEF Access
  <2>2. QED
    BY <1>2, <1>4, <2>1, Untouched
<1>6. CASE ~(q.live /\ q.peer = p)
  <2>1. client[p].at # "push" /\ client[p].result # "pushed" /\ answer[p] = NoAnswer
    BY <1>4, <1>6 DEF SteadyFor
  <2>2. Explained(client[p])' <=> Explained(client[p])
    BY <1>2 DEF Explained, Outdated, FastForward
  <2>3. QED
    BY <1>2, <1>4, <2>1, <2>2, AnswerTypes DEF SteadyFor
<1>7. QED
  BY <1>5, <1>6

\* Whatever disturbs every peer.
LEMMA AllDisturbed ==
  ASSUME \A p \in Peer : disturbed'[p] PROVE Steady'
BY SteadyForAllNext

LEMMA PeerSteady ==
  ASSUME Consistent, Steady, NEW p \in Peer, NEW c, GoesOn(p, c) PROVE Steady'
<1>1. SUFFICES ASSUME NEW o \in Peer, ~disturbed'[o] PROVE SteadyFor(o)'
  BY SteadyForAllNext
<1>2. /\ UNCHANGED <<repo, acl, refs, job, disturbed>>
      /\ client'[o] = IF o = p THEN c ELSE client[o]
      /\ answer'[o] = IF o = p THEN NoAnswer ELSE answer[o]
  BY DEF GoesOn, Consistent, PeersAgree, PeersOK
<1>3. SteadyFor(o)
  BY <1>1, <1>2, SteadyForAll
<1>4. Access(o)' <=> Access(o)
  BY <1>2 DEF Access, MayPush, Creates, MayWrite
<1>5. CASE o # p
  BY <1>2, <1>3, <1>4, <1>5, Untouched
<1>6. CASE o = p
  <2>1. /\ c.at = "push" => Progress(p, c, "none")
        /\ c.result = "pushed" => Landed(c)
        /\ c.result \in {"refused", "empty bundle"} => Explained(c)
    BY <1>1, <1>2, <1>6 DEF GoesOn
  <2>2. job # {} => c.at # "push" /\ c.result # "pushed"
    <3>1. ASSUME NEW q \in job PROVE answer[p] = NoAnswer
      BY <1>3, <1>6 DEF GoesOn, SteadyFor
    <3>2. QED
      BY <3>1 DEF GoesOn
  <2>3. (Explained(c)' <=> Explained(c)) /\ (Landed(c)' <=> Landed(c))
    BY <1>2 DEF Explained, Landed, Outdated, FastForward
  <2>4. Progress(p, c, "none")' <=> Progress(p, c, "none")
    BY <1>2, <1>4, <1>6, <2>3 DEF Progress
  <2>5. client'[o] = c /\ answer'[o] = NoAnswer /\ NoAnswer.kind = "none"
    BY <1>2, <1>6, AnswerTypes
  <2>6. QED
    BY <1>2, <1>6, <2>1, <2>2, <2>3, <2>4, <2>5 DEF SteadyFor
<1>7. QED
  BY <1>5, <1>6

LEMMA TimedOutSteady ==
  ASSUME Consistent, Steady, NEW p \in Peer, TimedOut(p) PROVE Steady'
<1> DEFINE c == Ended(client[p], "timed out")
<1>1. /\ c.at = "idle" /\ c.result = "timed out"
      /\ \A o \in Peer : /\ client'[o] = IF o = p THEN c ELSE client[o]
                         /\ answer'[o] = IF o = p THEN NoAnswer ELSE answer[o]
      /\ job' = {Silenced(q, p) : q \in job} /\ UNCHANGED <<repo, acl, refs, disturbed>>
  BY TimedOutIs DEF Consistent
<1> HIDE DEF c
<1>2. SUFFICES ASSUME NEW o \in Peer, ~disturbed'[o] PROVE SteadyFor(o)'
  BY SteadyForAllNext
<1>3. SteadyFor(o)
  BY <1>1, <1>2, SteadyForAll
<1>4. CASE o = p
  BY <1>1, <1>4, AnswerTypes DEF SteadyFor
<1>5. CASE o # p
  <2>1. /\ job' = {} <=> job = {}
        /\ \A q \in job : q.live /\ q.peer # p => q \in job'
    BY LiveAfter DEF Consistent
  <2>2. Access(o) => Access(o)'
    BY <1>1, <1>5, <2>1 DEF Access, MayPush, Creates, MayWrite
  <2>3. ASSUME NEW q \in job, Silenced(q, p) \in job',
               ~(Silenced(q, p).live /\ Silenced(q, p).peer = o)
        PROVE  ~(q.live /\ q.peer = o)
    BY <1>5, <2>3 DEF Silenced
  <2>4. QED
    BY ZenonT(40), <1>1, <1>3, <1>5, <2>2, <2>3, Untouched
<1>6. QED
  BY <1>4, <1>5

--------------------------------------------------------------------------------
(* The theorems.                                                           *)

LEMMA InvIs == RepositoryInv <=> Consistent /\ Steady
BY DEF RepositoryInv, Consistent, RepoOK, PeersAgree, Steady

LEMMA InvIsNext == RepositoryInv' <=> Consistent' /\ Steady'
BY DEF RepositoryInv, Consistent, RepoOK, PeersAgree, Steady

LEMMA InitHolds == RepositoryInit => RepositoryInv
<1>1. SUFFICES ASSUME RepositoryInit PROVE RepositoryInv
  OBVIOUS
<1>2. /\ job = {} /\ inbox = {} /\ answer = [p \in Peer |-> NoAnswer] /\ client = [p \in Peer |-> Idle]
      /\ crashes = 0 /\ wrote = {} /\ disturbed = [p \in Peer |-> FALSE]
      /\ objects = UNION {History(refs[r]) : r \in Ref}
  BY <1>1 DEF RepositoryInit
<1>3. /\ refs \in [Ref -> Tree] /\ acl \in Peer \cup {NoPeer}
      /\ \/ repo = "missing" /\ refs = NoRefs /\ acl = NoPeer
         \/ repo = "bare" /\ acl # NoPeer
  BY <1>1, LocalTypes, Trees, RepositoryAssumption DEF RepositoryInit
<1>4. \A r \in Ref : History(refs[r]) \in SUBSET Commit /\ History(refs[r]) \subseteq objects
  BY <1>2, <1>3, Trees
<1>5. objects \in SUBSET Commit
  BY <1>2, <1>4
<1>6. \A c \in objects : History(c) \subseteq objects
  <2>1. SUFFICES ASSUME NEW c \in objects PROVE History(c) \subseteq objects
    OBVIOUS
  <2>2. PICK r \in Ref : c \in History(refs[r])
    BY <1>2
  <2>3. QED
    BY <1>4, <2>2, Histories
<1>7. StoreOK /\ QueuesOK
  BY <1>2, <1>3, <1>5 DEF StoreOK, QueuesOK
<1>8. PeersOK
  BY <1>2, IdleType, AnswerTypes DEF PeersOK
<1>9. BornEmpty /\ OwnedOrGone /\ WritersOnly
  BY <1>2, <1>3 DEF BornEmpty, OwnedOrGone, WritersOnly
<1>10. AllStored /\ PushesOK
  <2>1. \A r \in Ref : History(NoRefs[r]) = {}
    BY Histories DEF NoRefs
  <2>2. AllStored
    BY <1>2, <1>4, <1>6, <2>1, IdleType, AnswerTypes DEF AllStored
  <2>3. QED
    BY <1>2, <2>2 DEF PushesOK
<1>11. OneAsked /\ OkIsWritten /\ ReportedIsWritten /\ Running
  BY <1>2, IdleType DEF OneAsked, OkIsWritten, ReportedIsWritten, Running
<1>12. Steady
  BY <1>2, IdleType DEF Steady, Undisturbed, MadeForOne, PushComplete, RefusalExplained
<1>13. QED
  BY <1>7, <1>8, <1>9, <1>10, <1>11, <1>12, InvIs DEF Consistent, RepoOK, PeersAgree

\* The server's steps.
LEMMA ServerHolds == RepositoryInv /\ Server => RepositoryInv'
<1>1. SUFFICES ASSUME RepositoryInv, Server PROVE Consistent' /\ Steady'
  BY InvIsNext
<1>2. Consistent /\ Steady
  BY <1>1, InvIs
<1>3. StoreOK /\ QueuesOK /\ BornEmpty /\ AllStored /\ PushesOK /\ PeersOK /\ disturbed \in [Peer -> BOOLEAN]
  BY <1>2 DEF Consistent, RepoOK, PeersAgree, PeersOK
<1>4. \/ \E q \in inbox : Handled(q) \/ Accepted(q)
      \/ Making
      \/ \E q \in job : Owned(q) \/ Failed(q)
  <2>1. ASSUME NEW q \in inbox, List(q) \/ Push(q) \/ Delete(q) \/ Create(q)
        PROVE  Handled(q) \/ Accepted(q)
    BY <1>3, <2>1, Takes
  <2>2. ASSUME NEW q \in job, MakeDir(q) \/ InitBare(q) PROVE Making
    BY <2>2 DEF MakeDir, InitBare, Making
  <2>3. ASSUME NEW q \in job, WriteAcl(q) PROVE Owned(q)
    BY <1>3, <2>3, OwnedIsServed
  <2>4. ASSUME NEW q \in job, CreateFails(q) PROVE Failed(q)
    BY <1>3, <2>4, FailedIsServed
  <2>5. QED
    BY <1>1, <2>1, <2>2, <2>3, <2>4 DEF Server
<1>5. CASE \E q \in inbox : Handled(q)
  <2>1. PICK q \in inbox : Handled(q)
    BY <1>5
  <2>2. q \in RequestType /\ Served(q) /\ ObjectsGrow /\ client' = client
        /\ job = {} /\ job' = {} /\ inbox' = inbox \ {q}
    BY <1>3, <2>1 DEF QueuesOK, Handled
  <2>3. disturbed' \in [Peer -> BOOLEAN]
    BY <1>3, <2>1 DEF Handled, Note
  <2>4. PeersAgree'
    BY <1>2, <1>3, <2>2, <2>3, ServedAgrees DEF Consistent
  <2>5. RepoOK'
    BY <1>2, <1>3, <2>1, <2>4, HandledRepo DEF Consistent, RepoOK, PeersAgree
  <2>6. AllStored' /\ PushesOK'
    BY <1>3, <2>2, ServedStored, ServedPushes
  <2>7. QED
    BY <1>2, <2>1, <2>4, <2>5, <2>6, HandledSteady DEF Consistent
<1>6. CASE \E q \in inbox : Accepted(q)
  <2>1. PICK q \in inbox : Accepted(q)
    BY <1>6
  <2>2. /\ job = {} /\ job' = {q} /\ inbox' = inbox \ {q} /\ q.kind \in {"push", "update", "create"}
        /\ UNCHANGED <<refs, objects, answer, client, wrote>>
        /\ disturbed' \in [Peer -> BOOLEAN]
    BY <1>3, <2>1 DEF Accepted, Note
  <2>3. PeersAgree'
    BY <1>2, <2>2, MovedAgrees DEF Consistent
  <2>4. RepoOK'
    BY <1>2, <2>1, <2>3, OtherRepo DEF Consistent, RepoOK, PeersAgree
  <2>5. AllStored' /\ PushesOK'
    BY <1>3, <2>2, SameStored
  <2>6. QED
    BY <1>2, <2>1, <2>3, <2>4, <2>5, AcceptedSteady DEF Consistent
<1>7. CASE Making
  <2>1. UNCHANGED <<refs, objects, job, inbox, answer, client, wrote, disturbed>>
    BY <1>7 DEF Making
  <2>2. PeersAgree'
    BY <1>2, <1>3, <2>1, MovedAgrees DEF Consistent
  <2>3. RepoOK'
    BY <1>2, <1>7, <2>2, OtherRepo DEF Consistent, RepoOK, PeersAgree
  <2>4. AllStored' /\ PushesOK'
    BY <1>3, <2>1, SameStored
  <2>5. QED
    BY <1>2, <1>7, <2>2, <2>3, <2>4, MakingSteady DEF Consistent
<1>8. CASE \E q \in job : Owned(q)
  <2>1. PICK q \in job : Owned(q)
    BY <1>8
  <2>2. q \in RequestType /\ Served(q) /\ ObjectsGrow /\ UNCHANGED <<client, disturbed>>
        /\ job = {q} /\ job' = {} /\ inbox' = inbox
    BY <1>3, <2>1 DEF QueuesOK, Owned
  <2>3. PeersAgree'
    BY <1>2, <1>3, <2>2, ServedAgrees DEF Consistent
  <2>4. RepoOK'
    BY <1>2, <1>3, <2>1, <2>3, OwnedRepo DEF Consistent, RepoOK, PeersAgree
  <2>5. AllStored' /\ PushesOK'
    BY <1>3, <2>2, ServedStored, ServedPushes
  <2>6. QED
    BY <1>2, <2>1, <2>3, <2>4, <2>5, OwnedSteady DEF Consistent
<1>9. CASE \E q \in job : Failed(q)
  <2>1. PICK q \in job : Failed(q)
    BY <1>9
  <2>2. q \in RequestType /\ Served(q) /\ ObjectsGrow /\ client' = client
        /\ job = {q} /\ job' = {} /\ inbox' = inbox /\ disturbed' = [p \in Peer |-> TRUE]
    BY <1>3, <2>1 DEF QueuesOK, Failed
  <2>3. PeersAgree'
    BY <1>2, <1>3, <2>2, ServedAgrees DEF Consistent
  <2>4. RepoOK'
    BY <1>2, <1>3, <2>1, <2>3, FailedRepo DEF Consistent, RepoOK, PeersAgree
  <2>5. AllStored' /\ PushesOK'
    BY <1>3, <2>2, ServedStored, ServedPushes
  <2>6. QED
    BY <2>2, <2>3, <2>4, <2>5, AllDisturbed DEF Consistent
<1>10. QED
  BY <1>4, <1>5, <1>6, <1>7, <1>8, <1>9

LEMMA CrashHolds == RepositoryInv /\ Crash => RepositoryInv'
<1>1. SUFFICES ASSUME RepositoryInv, Crash PROVE Consistent' /\ Steady'
  BY InvIsNext
<1>2. Consistent
  BY <1>1, InvIs
<1>3. /\ UNCHANGED <<refs, objects, answer, client, wrote>> /\ job' = {} /\ inbox' = {}
      /\ disturbed' = [p \in Peer |-> TRUE]
  BY <1>1 DEF Crash, store
<1>4. PeersAgree'
  BY <1>2, <1>3, MovedAgrees DEF Consistent
<1>5. RepoOK'
  BY <1>1, <1>2, <1>4, OtherRepo DEF Consistent, RepoOK, PeersAgree
<1>6. AllStored' /\ PushesOK'
  BY <1>2, <1>3, SameStored DEF Consistent
<1>7. QED
  BY <1>3, <1>4, <1>5, <1>6, AllDisturbed DEF Consistent

\* The peers' steps.
LEMMA PeersHold ==
  ASSUME RepositoryInv, NEW p \in Peer,
         \/ \E l \in Locals, f \in BOOLEAN : StartPush(p, l, f)
         \/ \E q \in Others(p) : StartOther(p, q)
         \/ Listed(p) \/ Pushed(p) \/ OtherDone(p) \/ TimedOut(p)
  PROVE  RepositoryInv'
<1>1. Consistent /\ Steady
  BY InvIs
<1>2. QueuesOK /\ PeersOK /\ OneAsked /\ AllStored /\ PushesOK /\ ReportedIsWritten /\ OkIsWritten
      /\ Undisturbed /\ Running /\ PeersAgree
  BY <1>1 DEF Consistent, Steady, PeersAgree
<1>3. CASE TimedOut(p)
  <2>1. PeersAgree' /\ AllStored' /\ PushesOK' /\ Steady'
    BY <1>1, <1>2, <1>3, TimedOutAgrees, TimedOutStored, TimedOutSteady
  <2>2. /\ UNCHANGED <<repo, acl, refs, objects, crashes, wrote>>
        /\ job' = {Silenced(q, p) : q \in job}
    BY <1>2, <1>3, TimedOutIs
  <2>3. RepoOK'
    BY <1>1, <2>1, <2>2, PeersRepo DEF Consistent, RepoOK, PeersAgree
  <2>4. QED
    BY <2>1, <2>3, InvIsNext DEF Consistent
<1>4. CASE ~TimedOut(p)
  <2>1. PICK c \in ClientType : GoesOn(p, c)
    BY <1>2, <1>4, StartGoesOn, ListedGoesOn, PushedGoesOn, OtherGoesOn
  <2>2. PeersAgree' /\ AllStored' /\ PushesOK' /\ Steady'
    BY <1>1, <1>2, <2>1, PeerAgrees, PeerStored, PeerSteady
  <2>3. UNCHANGED <<repo, acl, refs, objects, job, crashes, wrote>>
    BY <2>1 DEF GoesOn
  <2>4. RepoOK'
    BY <1>1, <2>2, <2>3, PeersRepo DEF Consistent, RepoOK, PeersAgree
  <2>5. QED
    BY <2>2, <2>4, InvIsNext DEF Consistent
<1>5. QED
  BY <1>3, <1>4

LEMMA StepHolds == RepositoryInv /\ [RepositoryNext]_repositoryVars => RepositoryInv'
<1>1. SUFFICES ASSUME RepositoryInv, [RepositoryNext]_repositoryVars PROVE RepositoryInv'
  OBVIOUS
<1>2. CASE Server
  BY <1>1, <1>2, ServerHolds
<1>3. CASE Crash
  BY <1>1, <1>3, CrashHolds
<1>4. ASSUME NEW p \in Peer,
             \/ \E l \in Locals, f \in BOOLEAN : StartPush(p, l, f)
             \/ \E q \in Others(p) : StartOther(p, q)
             \/ Listed(p) \/ Pushed(p) \/ OtherDone(p) \/ TimedOut(p)
      PROVE  RepositoryInv'
  BY <1>1, <1>4, PeersHold
<1>5. CASE UNCHANGED repositoryVars
  <2>1. Consistent /\ Steady /\ UNCHANGED <<refs, objects, job, inbox, answer, client, wrote, disturbed,
                                            repo, acl, crashes>>
    BY <1>1, <1>5, InvIs DEF repositoryVars
  <2>2. PeersAgree'
    BY <2>1, MovedAgrees DEF Consistent, PeersAgree, PeersOK
  <2>3. RepoOK'
    BY <2>1, <2>2, PeersRepo DEF Consistent, RepoOK, PeersAgree
  <2>4. AllStored' /\ PushesOK'
    BY <2>1, SameStored DEF Consistent
  <2>5. Steady'
    <3>1. ASSUME NEW p \in Peer, SteadyFor(p) PROVE SteadyFor(p)'
      <4>1. Access(p) => Access(p)'
        BY <2>1 DEF Access, MayPush, Creates, MayWrite
      <4>2. QED
        BY <2>1, <3>1, <4>1, Untouched
    <3>2. QED
      BY <2>1, <3>1, SteadyForAll, SteadyForAllNext
  <2>6. QED
    BY <2>2, <2>3, <2>4, <2>5, InvIsNext DEF Consistent
<1>6. QED
  BY <1>1, <1>2, <1>3, <1>4, <1>5 DEF RepositoryNext

LEMMA InvHolds == RepositorySpec => []RepositoryInv
BY InitHolds, StepHolds, PTL DEF RepositorySpec

LEMMA TypeParts == StoreOK /\ QueuesOK /\ PeersOK => RepositoryTypeOK
<1>1. SUFFICES ASSUME StoreOK, QueuesOK, PeersOK PROVE RepositoryTypeOK
  OBVIOUS
<1>2. Tree = Commit \cup {NoCommit}
  BY Trees
<1>3. Cardinality(job) <= 1
  <2>1. CASE job = {}
    BY <2>1, FS_EmptySet
  <2>2. CASE \E q : job = {q}
    BY SMTT(20), <2>2, FS_Singleton
  <2>3. QED
    BY <1>1, <2>1, <2>2 DEF QueuesOK
<1>4. \A q \in job \cup inbox : q.peer \in Peer /\ q.refs \subseteq Ref
  BY <1>1 DEF QueuesOK, RequestType
<1>5. \A p \in Peer : answer[p].kind \in {"none", "ok", "refused"}
  BY <1>1, AnswerTypes DEF PeersOK
<1>6. ASSUME NEW p \in Peer
      PROVE  /\ client[p].at \in {"idle", "list", "push", "other"}
             /\ client[p].local \in Locals /\ client[p].result \in Results
             /\ client[p].todo \cup client[p].cur \cup client[p].ok \subseteq Ref
  BY <1>1 DEF PeersOK, ClientType
<1>7. QED
  BY <1>1, <1>2, <1>3, <1>4, <1>5, <1>6 DEF StoreOK, RepositoryTypeOK

\* Every variable stays in its set, and one repository at most is being made
\* (RepositoryTypeOK).
THEOREM RepositoryTyped == RepositorySpec => []RepositoryTypeOK
<1>1. RepositoryInv => RepositoryTypeOK
  BY TypeParts DEF RepositoryInv
<1>2. QED
  BY InvHolds, <1>1, PTL

\* Whoever has moved a branch was on the group's write list or owns the repository, also
\* when peers race to create it (WritersOnly; resolve_perm, create_repo_on_push).
THEOREM OnlyWritersWrite == RepositorySpec => []WritersOnly
<1>1. RepositoryInv => WritersOnly
  BY DEF RepositoryInv
<1>2. QED
  BY InvHolds, <1>1, PTL

\* Whatever step of create_repository() fails, without a crash the repository is there
\* with its owner or not at all (OwnedOrGone).
THEOREM MadeWithOwner == RepositorySpec => []OwnedOrGone
<1>1. RepositoryInv => OwnedOrGone
  BY DEF RepositoryInv
<1>2. QED
  BY InvHolds, <1>1, PTL

\* The repository has the whole history of every commit in it, of its branches, and of
\* what peers have been shown: no push leaves a gap (AllStored; apply_push_bundle).
THEOREM HistoryIsWhole == RepositorySpec => []AllStored
<1>1. RepositoryInv => AllStored
  BY DEF RepositoryInv
<1>2. QED
  BY InvHolds, <1>1, PTL

\* A branch a peer reports as pushed was set by a request of that peer
\* (ReportedIsWritten; cmd_push, do_push).
THEOREM ReportIsTrue == RepositorySpec => []ReportedIsWritten
<1>1. RepositoryInv => ReportedIsWritten
  BY DEF RepositoryInv
<1>2. QED
  BY InvHolds, <1>1, PTL

\* A push that succeeds undisturbed leaves every local branch on the server (PushComplete).
THEOREM SuccessIsComplete == RepositorySpec => []PushComplete
<1>1. RepositoryInv => PushComplete
  BY DEF RepositoryInv
<1>2. QED
  BY InvHolds, <1>1, PTL

\* A push fails undisturbed only for want of a fast-forward, or for a commit that another
\* of the server's branches has (RefusalExplained).
THEOREM FailureIsExplained == RepositorySpec => []RefusalExplained
<1>1. RepositoryInv => RefusalExplained
  BY DEF RepositoryInv
<1>2. QED
  BY InvHolds, <1>1, PTL

\* A branch is set back only on an explicit demand, and by rngit only where the pusher
\* was shown the branch (NoBlindForce; cmd_push's force, update_ref).
THEOREM ForceIsInformed == RepositorySpec => NoBlindForce
<1> DEFINE Demanded(q) ==
      \/ q.kind = "delete"
      \/ q.kind \in {"update", "push"} /\ q.force
           /\ (q.kind = "push" => q.peer \in Helpers \/ q.base # NoCommit)
<1>1. RepositoryInv /\ [RepositoryNext]_repositoryVars
        => [\A r \in Ref : ~(refs[r] \subseteq refs'[r]) => \E q \in inbox \ inbox' : Demanded(q)]_repositoryVars
  <2>1. SUFFICES ASSUME RepositoryInv, RepositoryNext, NEW r \in Ref, ~(refs[r] \subseteq refs'[r])
                 PROVE  \E q \in inbox \ inbox' : Demanded(q)
    OBVIOUS
  <2>2. StoreOK /\ QueuesOK /\ BornEmpty /\ AllStored /\ PushesOK /\ PeersOK /\ OneAsked
    BY <2>1 DEF RepositoryInv
  <2>3. refs' # refs
    BY <2>1
  <2>4. CASE \E q \in inbox : List(q) \/ Push(q) \/ Delete(q) \/ Create(q)
    <3>1. PICK q \in inbox : Handled(q) \/ Accepted(q)
      BY <2>2, <2>4, Takes
    <3>2. Handled(q)
      BY <2>3, <3>1 DEF Accepted
    <3>3. PICK R \in SUBSET q.refs, c \in Tree :
            /\ SetRefs(R, c, q.peer)
            /\ R # {} => q.kind \in {"push", "update", "delete"}
            /\ \A s \in R : q.kind = "delete" \/ q.force \/ refs[s] \subseteq c
      BY <3>2 DEF Handled, Served
    <3>4. r \in R /\ refs'[r] = c
      BY <2>1, <3>3 DEF SetRefs
    <3>5. q.kind = "delete" \/ (q.kind \in {"push", "update"} /\ q.force)
      BY <2>1, <3>3, <3>4
    <3>6. q.kind = "push" => q.peer \in Helpers \/ q.base # NoCommit
      BY <2>2, <3>5 DEF PushesOK, PushOK
    <3>7. q \in inbox \ inbox' /\ Demanded(q)
      BY <3>2, <3>5, <3>6 DEF Handled
    <3>8. QED
      BY <3>7
  <2>5. CASE \E q \in job : MakeDir(q) \/ InitBare(q) \/ CreateFails(q)
    BY <2>3, <2>5 DEF MakeDir, InitBare, CreateFails
  <2>6. CASE \E q \in job : WriteAcl(q)
    BY <2>1, <2>2, <2>6 DEF BornEmpty, NoRefs, NoCommit
  <2>7. CASE Crash
    BY <2>3, <2>7 DEF Crash, store
  <2>8. ASSUME NEW p \in Peer,
               \/ \E l \in Locals, f \in BOOLEAN : StartPush(p, l, f)
               \/ \E q \in Others(p) : StartOther(p, q)
               \/ Listed(p) \/ Pushed(p) \/ OtherDone(p) \/ TimedOut(p)
        PROVE  FALSE
    BY <2>3, <2>8 DEF StartPush, StartOther, Start, Listed, Pushed, OtherDone, Hear, TimedOut, store
  <2>9. QED
    BY <2>1, <2>4, <2>5, <2>6, <2>7, <2>8 DEF RepositoryNext, Server
<1>2. QED
  BY InvHolds, <1>1, PTL DEF NoBlindForce, RepositorySpec
================================================================================
