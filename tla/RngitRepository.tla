---------------------------- MODULE RngitRepository ----------------------------
(***************************************************************************)
(* One repository of an rngit server and the peers that push to it: the    *)
(* request handlers (src/bin/rngit/server.rs) with the git operations they *)
(* run (src/bin/rngit/gitutil.rs) and the permissions they ask for         *)
(* (src/bin/rngit/perms.rs), `rngit push` and `rngit delete`               *)
(* (src/bin/rngit.rs), and git's pushes through git-remote-rns             *)
(* (src/bin/git-remote-rns.rs).                                            *)
(*                                                                         *)
(* A commit is the set of the changes in its history: c is an ancestor of  *)
(* d iff c \subseteq d, and no commit is the empty set. Each request is    *)
(* executed once or not at all (RngitTransfer, while packets keep their    *)
(* order); the server is one task that may crash while it makes a          *)
(* repository.                                                             *)
(***************************************************************************)
EXTENDS Integers, FiniteSets

CONSTANTS
  Peer,         \* identified peers
  NoPeer,
  Helpers,      \* peers that push with git, the others use rngit
  Writers,      \* peers the group's lists let write, blocked ones left out
  Creators,     \* the same for create
  Ref,          \* branches
  Change,       \* what commits are made of
  Locals,       \* working repositories: branches and all the commits in them
  MaxCommands,  \* bound on the commands of all peers
  MaxCrashes    \* bound on the crashes of the server

NoCommit == {}
Commit == (SUBSET Change) \ {NoCommit}
History(c) == (SUBSET c) \ {NoCommit}
NoRefs == [r \in Ref |-> NoCommit]

ASSUME RepositoryAssumption ==
  /\ NoPeer \notin Peer
  /\ Helpers \subseteq Peer /\ Writers \subseteq Peer /\ Creators \subseteq Peer
  /\ Locals # {}
  /\ Locals \subseteq [tips : [Ref -> Commit \cup {NoCommit}], objects : SUBSET Commit]
  /\ \A l \in Locals : l.tips # NoRefs /\ \A r \in Ref : History(l.tips[r]) \subseteq l.objects
  /\ MaxCommands \in Nat /\ MaxCrashes \in Nat

VARIABLES
  repo,       \* "missing", "made" (a directory, not initialised) or "bare"
  acl,        \* the identity in the repository's .allowed, or NoPeer
  refs,       \* the branches of the repository
  objects,    \* the commits in it
  job,        \* requests whose create_repository() is under way (at most one)
  inbox,      \* requests the server has not taken
  answer,     \* the answer a peer has not looked at yet
  client,     \* the peers' commands, below
  commands,   \* number of commands so far
  crashes,    \* number of crashes so far
  wrote,      \* history variable: <<p, r, c>> if a request of p set r to c
  disturbed   \* history variable: the server did something else since p's list

repositoryVars == <<repo, acl, refs, objects, job, inbox, answer, client, commands,
                    crashes, wrote, disturbed>>
store == <<repo, acl, refs, objects>>

\* A command: what it is at, --force, the working repository, the list it was
\* given, the branches it still has to push and the one it is pushing, those it
\* has reported as pushed, and how it ended.
Idle == [at |-> "idle", force |-> FALSE, local |-> CHOOSE l \in Locals : TRUE,
         view |-> NoRefs, todo |-> {}, cur |-> {}, ok |-> {}, bad |-> FALSE, result |-> "none"]

NoAnswer == [kind |-> "none", refs |-> NoRefs]
Ok(v) == [kind |-> "ok", refs |-> v]
Refused == [kind |-> "refused", refs |-> NoRefs]

\* live: the peer waits for the answer. carries: the bundle holds the branch.
\* base: what the peer's list showed for it (used in properties only).
Request(p, k, R) ==
  [peer |-> p, kind |-> k, refs |-> R, commit |-> NoCommit, prereqs |-> {}, objects |-> {},
   carries |-> FALSE, force |-> FALSE, base |-> NoCommit, live |-> TRUE]

RepositoryInit ==
  /\ \/ repo = "missing" /\ refs = NoRefs /\ acl = NoPeer
     \/ repo = "bare" /\ refs \in {l.tips : l \in Locals} /\ acl \in Creators
  /\ objects = UNION {History(refs[r]) : r \in Ref}
  /\ job = {} /\ inbox = {}
  /\ answer = [p \in Peer |-> NoAnswer]
  /\ client = [p \in Peer |-> Idle]
  /\ commands = 0 /\ crashes = 0
  /\ wrote = {}
  /\ disturbed = [p \in Peer |-> FALSE]

--------------------------------------------------------------------------------
(* The server.                                                             *)

\* resolve_perm(): a repository there is, and the peer on the group's list or the
\* repository's administrator; its other lists are empty.
MayWrite(p) == repo # "missing" /\ (p \in Writers \/ acl = p)

\* (faulty variant: a repository somebody else has made will do)
CreatesForAny(p) == p \in Creators

\* repo_missing() and resolve_group_perm(): what create_repo_on_push() asks for.
Creates(p) == repo = "missing" /\ p \in Creators

\* (faulty variant: an answer goes to whatever the peer asks now)
AnswerAnyway(q, a) == answer' = [answer EXCEPT ![q.peer] = a]

\* The answer reaches the peer if it still waits for it.
Answer(q, a) == answer' = IF q.live THEN [answer EXCEPT ![q.peer] = a] ELSE answer

Note(q) == disturbed' = [p \in Peer |-> IF p = q.peer /\ q.live THEN disturbed[p] ELSE TRUE]

\* (faulty variant: also while a repository is being made)
TakeAnyTime(q, k) ==
  /\ q \in inbox /\ q.kind \in k
  /\ inbox' = inbox \ {q}
  /\ UNCHANGED <<client, commands, crashes>>

\* The server takes a request of one of the kinds k. It has one task: nothing is
\* taken before the request before it is done.
Take(q, k) ==
  /\ job = {}
  /\ q \in inbox /\ q.kind \in k
  /\ inbox' = inbox \ {q}
  /\ UNCHANGED <<client, commands, crashes>>

\* handle_list(), for_push. A missing repository has an empty list for a peer
\* that may create it; one that was not initialised has none.
List(q) ==
  /\ Take(q, {"list"})
  /\ Answer(q, IF MayWrite(q.peer) THEN (IF repo = "bare" THEN Ok(refs) ELSE Refused)
               ELSE IF Creates(q.peer) THEN Ok(NoRefs) ELSE Refused)
  /\ disturbed' = IF q.live THEN [disturbed EXCEPT ![q.peer] = FALSE] ELSE disturbed
  /\ UNCHANGED <<store, job, wrote>>

\* apply_push_bundle(): `git bundle verify`, then `git fetch` of the branch, which
\* wants a fast-forward unless it is forced.
Applies(q) ==
  /\ repo = "bare"
  /\ q.prereqs \subseteq objects
  /\ q.carries
  /\ \A r \in q.refs : q.force \/ refs[r] \subseteq q.commit

SetRefs(R, c, p) ==
  /\ refs' = [r \in Ref |-> IF r \in R THEN c ELSE refs[r]]
  /\ wrote' = wrote \cup {<<p, r, c>> : r \in R}

\* A push with a bundle. What the fetch unpacked stays when the branch is not
\* moved.
Apply(q) ==
  /\ IF Applies(q) THEN SetRefs(q.refs, q.commit, q.peer) /\ Answer(q, Ok(NoRefs))
                   ELSE UNCHANGED <<refs, wrote>> /\ Answer(q, Refused)
  /\ objects' = IF repo = "bare" /\ q.prereqs \subseteq objects
                THEN objects \cup q.objects ELSE objects

\* update_ref(): without force an existing branch stays where it is.
Moves(q, r) == repo = "bare" /\ q.commit \in objects /\ (q.force \/ refs[r] \in {NoCommit, q.commit})

\* A push with operations: one branch after the other, up to the first that fails.
ApplyOperations(q) ==
  /\ LET good == {r \in q.refs : Moves(q, r)} IN
     IF good = q.refs
     THEN SetRefs(q.refs, q.commit, q.peer) /\ Answer(q, Ok(NoRefs))
     ELSE (\E R \in SUBSET good : SetRefs(R, q.commit, q.peer)) /\ Answer(q, Refused)
  /\ UNCHANGED objects

\* handle_push() after the permissions.
Perform(q) == IF q.kind = "push" THEN Apply(q) ELSE ApplyOperations(q)

Push(q) ==
  /\ Take(q, {"push", "update"})
  /\ \/ /\ MayWrite(q.peer)
        /\ Perform(q)
        /\ UNCHANGED <<repo, acl, job>>
     \/ /\ ~MayWrite(q.peer) /\ Creates(q.peer)
        /\ job' = job \cup {q}
        /\ UNCHANGED <<store, answer, wrote>>
     \/ /\ ~MayWrite(q.peer) /\ ~Creates(q.peer)
        /\ Answer(q, Refused)
        /\ UNCHANGED <<store, job, wrote>>
  /\ Note(q)

Delete(q) ==
  /\ Take(q, {"delete"})
  /\ IF MayWrite(q.peer) /\ \A r \in q.refs : refs[r] # NoCommit
     THEN SetRefs(q.refs, NoCommit, q.peer) /\ Answer(q, Ok(NoRefs))
     ELSE UNCHANGED <<refs, wrote>> /\ Answer(q, Refused)
  /\ Note(q)
  /\ UNCHANGED <<repo, acl, objects, job>>

\* handle_create()
Create(q) ==
  /\ Take(q, {"create"})
  /\ IF Creates(q.peer) THEN job' = job \cup {q} /\ UNCHANGED answer
                        ELSE Answer(q, Refused) /\ UNCHANGED job
  /\ Note(q)
  /\ UNCHANGED <<store, wrote>>

\* create_repository(): the directory,
MakeDir(q) ==
  /\ q \in job /\ repo = "missing"
  /\ repo' = "made"
  /\ UNCHANGED <<acl, refs, objects, job, inbox, answer, client, commands, crashes, wrote, disturbed>>

\* git init --bare,
InitBare(q) ==
  /\ q \in job /\ repo = "made"
  /\ repo' = "bare"
  /\ UNCHANGED <<acl, refs, objects, job, inbox, answer, client, commands, crashes, wrote, disturbed>>

\* and the creator's access. The push that it was made for goes on.
WriteAcl(q) ==
  /\ q \in job /\ repo = "bare"
  /\ acl' = q.peer
  /\ job' = {}
  /\ IF q.kind = "create" THEN Answer(q, Ok(NoRefs)) /\ UNCHANGED <<refs, objects, wrote>>
                          ELSE Perform(q)
  /\ UNCHANGED <<repo, inbox, client, commands, crashes, disturbed>>

\* (faulty variant: what was made stays)
CreateFailsDirty(q) ==
  /\ q \in job
  /\ job' = {}
  /\ Answer(q, Refused)
  /\ disturbed' = [p \in Peer |-> TRUE]
  /\ UNCHANGED <<repo, acl, refs, objects, inbox, client, commands, crashes, wrote>>

\* A step of create_repository() fails: what was made is removed.
CreateFails(q) ==
  /\ q \in job
  /\ job' = {}
  /\ repo' = "missing"
  /\ Answer(q, Refused)
  /\ disturbed' = [p \in Peer |-> TRUE]
  /\ UNCHANGED <<acl, refs, objects, inbox, client, commands, crashes, wrote>>

\* The server goes down and starts again; its links, and what came over them, are
\* gone.
Crash ==
  /\ crashes < MaxCrashes
  /\ crashes' = crashes + 1
  /\ job' = {} /\ inbox' = {}
  /\ disturbed' = [p \in Peer |-> TRUE]
  /\ UNCHANGED <<store, answer, client, commands, wrote>>

--------------------------------------------------------------------------------
(* The peers.                                                              *)

Start(p) ==
  /\ client[p].at = "idle"
  /\ commands < MaxCommands
  /\ commands' = commands + 1
  /\ UNCHANGED <<store, job, answer, crashes, wrote, disturbed>>

\* cmd_push, or do_list for git: the server's branches are asked for first.
StartPush(p, l, force) ==
  /\ Start(p)
  /\ client' = [client EXCEPT ![p] = [Idle EXCEPT !.at = "list", !.local = l, !.force = force]]
  /\ inbox' = inbox \cup {Request(p, "list", {})}

\* cmd_delete, or a request of another client of the protocol.
StartOther(p, q) ==
  /\ Start(p)
  /\ client' = [client EXCEPT ![p] = [Idle EXCEPT !.at = "other"]]
  /\ inbox' = inbox \cup {q}

Ended(c, result) == [c EXCEPT !.at = "idle", !.todo = {}, !.cur = {}, !.result = result]

\* The command of p ends, and sends nothing.
End(p, c, result) ==
  /\ client' = [client EXCEPT ![p] = Ended(c, result)]
  /\ UNCHANGED inbox

\* (faulty variant: every commit here is taken for one the server has)
PrereqsLocal(c) == c.local.objects

\* Listed commits that are in the working repository.
Prereqs(c) == {c.view[r] : r \in Ref} \cap c.local.objects

\* The commits git leaves out of a bundle of branch r: it needs them there.
Excluded(c, r) == {b \in History(c.local.tips[r]) : \E d \in Prereqs(c) : b \subseteq d}

\* git leaves a branch out of a bundle whose commit the receiver has.
Carried(c, r) == c.local.tips[r] \notin Excluded(c, r)

\* (faulty variant: only branches the server does not have)
OutdatedNew(c) == {r \in Ref : c.local.tips[r] # NoCommit /\ c.view[r] = NoCommit}

\* Local branches the server has not, or elsewhere.
Outdated(c) == {r \in Ref : c.local.tips[r] \notin {NoCommit, c.view[r]}}

FastForward(c, r) == c.view[r] \subseteq c.local.tips[r]

\* What is pushed. git tells the helper only what it finds to be a fast-forward
\* or is forced to push; do_push fails without a request if the bundle is empty.
ToPush(p, c) ==
  IF p \in Helpers
  THEN {r \in Outdated(c) : Carried(c, r) /\ (c.force \/ FastForward(c, r))}
  ELSE Outdated(c)

\* (faulty variant: --force goes into every request)
OpForceAlways(p, c, r) == c.force

\* rngit forces what its list showed, the helper what git tells it to.
OpForce(p, c, r) == c.force /\ (p \in Helpers \/ c.view[r] # NoCommit)

\* The helper makes a bundle for each branch, rngit one for all of them.
PushRequest(p, c, r) ==
  LET bundle == IF p \in Helpers THEN {r} ELSE c.todo \cup c.ok IN
  [Request(p, "push", {r}) EXCEPT
     !.commit = c.local.tips[r],
     !.prereqs = UNION {Excluded(c, s) : s \in bundle},
     !.objects = UNION {History(c.local.tips[s]) : s \in bundle},
     !.carries = Carried(c, r), !.force = OpForce(p, c, r), !.base = c.view[r]]

\* The next branch is pushed, or there is none left.
Continue(p, c) ==
  IF c.todo = {}
  THEN End(p, c, IF c.bad THEN "refused" ELSE "pushed")
  ELSE \E r \in c.todo :
         /\ client' = [client EXCEPT ![p] = [c EXCEPT !.at = "push", !.todo = @ \ {r}, !.cur = {r}]]
         /\ inbox' = inbox \cup {PushRequest(p, c, r)}

Hear(p, at) ==
  /\ client[p].at = at
  /\ answer[p] # NoAnswer
  /\ answer' = [answer EXCEPT ![p] = NoAnswer]
  /\ UNCHANGED <<store, job, commands, crashes, wrote, disturbed>>

\* rngit refuses to begin when a branch is no fast-forward, and cannot begin when
\* there is nothing to put into the bundle.
Listed(p) ==
  /\ Hear(p, "list")
  /\ LET c == [client[p] EXCEPT !.view = answer[p].refs]
         todo == ToPush(p, c) IN
     \/ answer[p].kind # "ok" /\ End(p, c, "no list")
     \/ /\ answer[p].kind = "ok"
        /\ p \notin Helpers /\ ~c.force /\ \E r \in todo : ~FastForward(c, r)
        /\ End(p, c, "no fast-forward")
     \/ /\ answer[p].kind = "ok"
        /\ p \notin Helpers /\ (c.force \/ \A r \in todo : FastForward(c, r))
        /\ todo # {} /\ \A r \in todo : ~Carried(c, r)
        /\ End(p, c, "empty bundle")
     \/ /\ answer[p].kind = "ok"
        /\ \/ p \in Helpers \/ todo = {}
           \/ /\ c.force \/ \A r \in todo : FastForward(c, r)
              /\ \E r \in todo : Carried(c, r)
        /\ Continue(p, [c EXCEPT !.todo = todo,
                                 !.bad = p \in Helpers /\ todo # Outdated(c)])

\* A branch has been pushed, or refused: rngit then gives up the others, the
\* helper reports it and goes on.
Pushed(p) ==
  /\ Hear(p, "push")
  /\ LET c == client[p] IN
     \/ answer[p].kind = "ok" /\ Continue(p, [c EXCEPT !.ok = @ \cup c.cur])
     \/ /\ answer[p].kind # "ok"
        /\ IF p \in Helpers THEN Continue(p, [c EXCEPT !.bad = TRUE])
                            ELSE End(p, c, "refused")

OtherDone(p) ==
  /\ Hear(p, "other")
  /\ End(p, client[p], "other")

\* request() times out; the request may still be executed.
TimedOut(p) ==
  /\ client[p].at # "idle"
  /\ client' = [client EXCEPT ![p] = Ended(client[p], "timed out")]
  /\ inbox' = {IF q.peer = p THEN [q EXCEPT !.live = FALSE] ELSE q : q \in inbox}
  /\ job' = {IF q.peer = p THEN [q EXCEPT !.live = FALSE] ELSE q : q \in job}
  /\ answer' = [answer EXCEPT ![p] = NoAnswer]
  /\ UNCHANGED <<store, commands, crashes, wrote, disturbed>>

--------------------------------------------------------------------------------
\* `update` names a commit the server is to have, and whether to force it.
UpdateRequest(p, R, c, f) == [Request(p, "update", R) EXCEPT !.commit = c, !.force = f]

Others(p) ==
  {Request(p, "create", {})}
    \cup {Request(p, "delete", {r}) : r \in Ref}
    \cup {UpdateRequest(p, R, c, f) : R \in (SUBSET Ref) \ {{}}, c \in Commit, f \in BOOLEAN}

Server ==
  \/ \E q \in inbox : List(q) \/ Push(q) \/ Delete(q) \/ Create(q)
  \/ \E q \in job : MakeDir(q) \/ InitBare(q) \/ WriteAcl(q) \/ CreateFails(q)

RepositoryNext ==
  \/ Server \/ Crash
  \/ \E p \in Peer :
       \/ \E l \in Locals, f \in BOOLEAN : StartPush(p, l, f)
       \/ \E q \in Others(p) : StartOther(p, q)
       \/ Listed(p) \/ Pushed(p) \/ OtherDone(p) \/ TimedOut(p)

RepositorySpec == RepositoryInit /\ [][RepositoryNext]_repositoryVars

--------------------------------------------------------------------------------
Results == {"none", "no list", "no fast-forward", "empty bundle", "pushed", "refused",
            "other", "timed out"}

RepositoryTypeOK ==
  /\ repo \in {"missing", "made", "bare"}
  /\ acl \in Peer \cup {NoPeer}
  /\ refs \in [Ref -> Commit \cup {NoCommit}] /\ objects \subseteq Commit
  /\ Cardinality(job) <= 1
  /\ \A q \in job \cup inbox : q.peer \in Peer /\ q.refs \subseteq Ref
  /\ \A p \in Peer : answer[p].kind \in {"none", "ok", "refused"}
  /\ \A p \in Peer :
       /\ client[p].at \in {"idle", "list", "push", "other"}
       /\ client[p].local \in Locals /\ client[p].result \in Results
       /\ client[p].todo \cup client[p].cur \cup client[p].ok \subseteq Ref

\* A branch is set back or sideways only by a delete or an update that says so, or
\* by a forced push; and rngit's --force reaches only branches whose earlier place
\* the pusher was shown, however the server changes between list and push.
NoBlindForce ==
  [][\A r \in Ref :
       ~(refs[r] \subseteq refs'[r]) =>
         \E q \in inbox \ inbox' :
           \/ q.kind = "delete"
           \/ q.kind \in {"update", "push"} /\ q.force
                /\ (q.kind = "push" => q.peer \in Helpers \/ q.base # NoCommit)]_repositoryVars

\* Whatever a peer reports as pushed, a request of its own has set: no answer of
\* an earlier command that timed out is taken for one of this.
ReportedIsWritten ==
  \A p \in Peer : \A r \in client[p].ok : <<p, r, client[p].local.tips[r]>> \in wrote

\* Only a peer of the group's write list, or the one the repository was made for,
\* ever moves a branch, also when peers race to make the repository.
WritersOnly ==
  \A w \in wrote : w[1] \in Writers \/ w[1] = acl

\* A push that reports success, with nothing else done since its list, leaves
\* every local branch on the server.
PushComplete ==
  \A p \in Peer :
    client[p].result = "pushed" /\ ~disturbed[p] =>
      \A r \in Ref : client[p].local.tips[r] # NoCommit => refs[r] = client[p].local.tips[r]

\* With nothing else done since its list, a push fails only for a branch that is
\* no fast-forward and not forced, or whose commit is in a branch the server has.
RefusalExplained ==
  \A p \in Peer :
    client[p].result \in {"refused", "empty bundle"} /\ ~disturbed[p] =>
      \E r \in Outdated(client[p]) :
        \/ ~client[p].force /\ ~FastForward(client[p], r)
        \/ \E s \in Ref : client[p].local.tips[r] \subseteq client[p].view[s]

\* Whatever step of create_repository() fails, and whoever races to be the creator,
\* there is a repository iff there is a peer that owns it: as long as no crash
\* comes between its steps.
OwnedOrGone ==
  crashes = 0 /\ job = {} => repo # "made" /\ (repo = "missing" <=> acl = NoPeer)

\* "Push local refs to a remote repository": a push that gets a list, may set every
\* branch (fast-forward or forced) and is not disturbed, pushes them.
PushLands ==
  \A p \in Peer :
    LET c == client[p] IN
    ~disturbed[p] /\ (c.force \/ \A r \in Outdated(c) : FastForward(c, r))
      => c.result \notin {"refused", "empty bundle"}
================================================================================
