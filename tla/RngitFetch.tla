------------------------------- MODULE RngitFetch -------------------------------
(***************************************************************************)
(* Reading from an rngit server: the handlers of list, repos and fetch     *)
(* (src/bin/rngit/server.rs, src/bin/rngit/gitutil.rs), `rngit clone`,     *)
(* `rngit ls-remote` and `rngit ls-repos` (src/bin/rngit.rs), and git's    *)
(* fetches through git-remote-rns (src/bin/git-remote-rns.rs).             *)
(*                                                                         *)
(* All clones are into one directory: what they find there, and what they  *)
(* leave when a git command fails, is what one clone can do to another.    *)
(* The server answers one request at a time; meanwhile other peers move    *)
(* its branches (RngitRepository). A commit is the set of the changes in   *)
(* its history. The commits git already has are left out of a fetch: the   *)
(* server looks at them after the names, and never gets there.             *)
(***************************************************************************)
EXTENDS Integers, FiniteSets

CONSTANTS
  Command,     \* rngit commands: clone, ls-remote, ls-repos
  Git,         \* git, with its helper process
  Branch,      \* branches
  HeadBranch,  \* the branch the repository's HEAD names
  Garbled,     \* a name with a space in it
  Tip,         \* commits: nonempty sets of changes
  MaxStarts,   \* bound on the commands and helper processes
  MaxMoves,    \* bound on the moves of branches by other peers
  MaxFaults    \* bound on git commands that fail, and requests that time out

Unborn == {}
Branches == [Branch -> Tip \cup {Unborn}]
NoBranches == [r \in Branch |-> Unborn]
Caller == Command \cup {Git}

ASSUME FetchAssumption ==
  /\ Git \notin Command
  /\ HeadBranch \in Branch /\ Garbled \notin Branch
  /\ Unborn \notin Tip
  /\ MaxStarts \in Nat /\ MaxMoves \in Nat /\ MaxFaults \in Nat

VARIABLES
  repository,  \* "missing", "made" (a directory, not initialised) or "bare"
  readers,     \* callers with the read permission
  branches,    \* its branches
  asked,       \* the request of each caller the server has not taken
  told,        \* the answer a caller has not looked at
  command,     \* what each command is at: below
  helper,      \* git's helper process: below
  dir,         \* the directory of the clones
  moves, faults,
  moments,     \* history variable: what the branches were since a command's list
  entered      \* history variable: commands that have changed the directory

fetchVars == <<repository, readers, branches, asked, told, command, helper, dir, moves,
               faults, moments, entered>>
served == <<repository, readers, branches, moves, moments>>

Nothing == [kind |-> "nothing", names |-> {}]
Ask(kind, names) == [kind |-> kind, names |-> names]
Silence == [kind |-> "silence", refs |-> NoBranches]
ServerReply(kind, refs) == [kind |-> kind, refs |-> refs]
Denied == ServerReply("denied", NoBranches)

\* listed: the list it was given. bundle: the branches in its bundle.
NewCommand == [at |-> "idle", listed |-> NoBranches, bundle |-> NoBranches, result |-> "none"]

NoDir == [made |-> FALSE, remotes |-> NoBranches, origin |-> FALSE, checkedOut |-> Unborn]

FetchInit ==
  /\ repository \in {"missing", "made", "bare"}
  /\ readers \in {Caller, {}}
  /\ branches \in IF repository = "bare" THEN Branches ELSE {NoBranches}
  /\ asked = [p \in Caller |-> Nothing]
  /\ told = [p \in Caller |-> Silence]
  /\ command = [c \in Command |-> NewCommand]
  /\ helper = NewCommand
  /\ dir = NoDir
  /\ moves = 0 /\ faults = 0
  /\ moments = [c \in Command |-> {}]
  /\ entered = {}

--------------------------------------------------------------------------------
(* The server.                                                             *)

\* resolve_perm(): there is a directory, and the caller is on a list that reads.
MayRead(p) == repository # "missing" /\ p \in readers

\* handle_list() for reading. git has nothing to say about a plain directory.
ListReply(p) ==
  IF MayRead(p) /\ repository = "bare" THEN ServerReply("refs", branches) ELSE Denied

\* handle_repos(): initialised repositories the caller may read.
ReposReply(p) ==
  ServerReply(IF MayRead(p) /\ repository = "bare" THEN "shown" ELSE "hidden", NoBranches)

\* (faulty variant: the bundle is made from what the caller was shown)
BundleOfListed(p, names) ==
  [r \in Branch |-> IF r \notin names \/ branches[r] = Unborn THEN Unborn
                    ELSE IF p \in Command THEN command[p].listed[r] ELSE branches[r]]

\* create_fetch_bundle(): names without a branch are skipped.
FetchBundle(p, names) == [r \in Branch |-> IF r \in names THEN branches[r] ELSE Unborn]

\* handle_fetch(): every name is looked at before any is used.
FetchReply(p, names) ==
  IF ~MayRead(p) \/ ~(names \subseteq Branch) THEN Denied
  ELSE IF FetchBundle(p, names) = NoBranches THEN ServerReply("empty", NoBranches)
  ELSE ServerReply("bundle", FetchBundle(p, names))

Serve(p, kind, reply) ==
  /\ asked[p].kind = kind
  /\ asked' = [asked EXCEPT ![p] = Nothing]
  /\ told' = [told EXCEPT ![p] = reply]
  /\ UNCHANGED <<repository, readers, branches, command, helper, dir, moves, faults, entered>>

ServeList(p) ==
  /\ Serve(p, "list", ListReply(p))
  /\ moments' = [c \in Command |-> IF c = p THEN {branches} ELSE moments[c]]

ServeRepos(p) == Serve(p, "repos", ReposReply(p)) /\ UNCHANGED moments
ServeFetch(p) == Serve(p, "fetch", FetchReply(p, asked[p].names)) /\ UNCHANGED moments

\* Another peer pushes to a branch or deletes it.
Move(r, t) ==
  /\ repository = "bare"
  /\ moves < MaxMoves
  /\ moves' = moves + 1
  /\ branches' = [branches EXCEPT ![r] = t]
  /\ moments' = [c \in Command |-> moments[c] \cup {branches'}]
  /\ UNCHANGED <<repository, readers, asked, told, command, helper, dir, faults, entered>>

--------------------------------------------------------------------------------
(* `rngit clone` and the listings.                                         *)

Starts == Cardinality({c \in Command : command[c] # NewCommand})
            + (IF helper # NewCommand THEN 1 ELSE 0)

Request(p, a) == asked' = [asked EXCEPT ![p] = a]

\* cmd_clone(): the directory is looked at before the server is asked.
StartClone(c) ==
  /\ command[c] = NewCommand /\ Starts < MaxStarts
  /\ IF dir.made
     THEN command' = [command EXCEPT ![c].result = "exists"] /\ UNCHANGED asked
     ELSE command' = [command EXCEPT ![c].at = "list"] /\ Request(c, Ask("list", {}))
  /\ UNCHANGED <<served, told, helper, dir, faults, entered>>

\* cmd_ls_remote() and cmd_ls_repos()
StartListing(c, kind) ==
  /\ command[c] = NewCommand /\ Starts < MaxStarts
  /\ command' = [command EXCEPT ![c].at = "show"]
  /\ Request(c, Ask(kind, {}))
  /\ UNCHANGED <<served, told, helper, dir, faults, entered>>

\* The command looks at its answer and is then at `at`, or ends.
Hear(c, at) ==
  /\ command[c].at = at
  /\ told[c] # Silence
  /\ told' = [told EXCEPT ![c] = Silence]
  /\ UNCHANGED <<served, helper, dir, faults, entered>>

Finish(c, result) == command' = [command EXCEPT ![c].at = "idle", ![c].result = result]

Shown(c) == Hear(c, "show") /\ Finish(c, told[c].kind) /\ UNCHANGED asked

\* The fetch names every branch of the list.
Listed(c) ==
  /\ Hear(c, "list")
  /\ IF told[c].kind = "denied"
     THEN Finish(c, "denied") /\ UNCHANGED asked
     ELSE /\ command' = [command EXCEPT ![c].at = "fetch", ![c].listed = told[c].refs]
          /\ Request(c, Ask("fetch", {r \in Branch : told[c].refs[r] # Unborn}))

Fetched(c) ==
  /\ Hear(c, "fetch")
  /\ IF told[c].kind = "denied"
     THEN Finish(c, "denied")
     ELSE command' = [command EXCEPT ![c].at = "init", ![c].bundle = told[c].refs]
  /\ UNCHANGED asked

\* A git command on the directory, and what comes next.
Local(c, at, next) ==
  /\ command[c].at = at
  /\ command' = [command EXCEPT ![c].at = next]
  /\ entered' = entered \cup {c}
  /\ UNCHANGED <<served, asked, told, helper, faults>>

\* init_repository(): git init has nothing against a repository that is there. A
\* server that is empty has sent no bundle.
InitRepository(c) ==
  /\ Local(c, "init", IF command[c].bundle = NoBranches THEN "origin" ELSE "unpack")
  /\ dir' = [dir EXCEPT !.made = TRUE]

\* verify_bundle() and fetch_bundle(): branches the bundle has not are left alone.
Unpack(c) ==
  /\ Local(c, "unpack", "origin")
  /\ dir' = [dir EXCEPT !.remotes =
               [r \in Branch |-> IF command[c].bundle[r] = Unborn THEN @[r] ELSE command[c].bundle[r]]]

\* remote_add() fails if there is one.
AddRemote(c) ==
  /\ ~dir.origin
  /\ Local(c, "origin", "checkout")
  /\ dir' = [dir EXCEPT !.origin = TRUE]

RemoteThere(c) ==
  /\ command[c].at = "origin" /\ dir.origin
  /\ Finish(c, "failed")
  /\ UNCHANGED <<served, asked, told, helper, dir, faults, entered>>

\* checkout_branch(), with the settings around it: a local branch that is there,
\* or one made from origin's, or none.
Checkout(c) ==
  /\ command[c].at = "checkout"
  /\ Finish(c, "cloned")
  /\ dir' = [dir EXCEPT !.checkedOut = IF @ = Unborn THEN dir.remotes[HeadBranch] ELSE @]
  /\ entered' = entered \cup {c}
  /\ UNCHANGED <<served, asked, told, helper, faults>>

\* A git command fails; what the ones before it did stays.
LocalFails(c) ==
  /\ command[c].at \in {"init", "unpack", "origin", "checkout"}
  /\ faults < MaxFaults /\ faults' = faults + 1
  /\ Finish(c, "failed")
  /\ UNCHANGED <<served, asked, told, helper, dir, entered>>

\* No link to the server, no answer in time.
Unanswered(c) ==
  /\ command[c].at \in {"show", "list", "fetch"}
  /\ faults < MaxFaults /\ faults' = faults + 1
  /\ Finish(c, "timed out")
  /\ asked' = [asked EXCEPT ![c] = Nothing] /\ told' = [told EXCEPT ![c] = Silence]
  /\ UNCHANGED <<served, helper, dir, entered>>

--------------------------------------------------------------------------------
(* git's fetch: the helper reads git's lines and writes answers; an error  *)
(* ends the process.                                                       *)

HelperOnly == UNCHANGED <<served, command, dir, entered>>

\* `list`
HelperList ==
  /\ helper = NewCommand /\ Starts < MaxStarts
  /\ helper' = [helper EXCEPT !.at = "list"]
  /\ Request(Git, Ask("list", {}))
  /\ HelperOnly /\ UNCHANGED <<told, faults>>

HelperListed ==
  /\ helper.at = "list" /\ told[Git] # Silence
  /\ helper' = IF told[Git].kind = "denied"
               THEN [helper EXCEPT !.at = "ended", !.result = "no list"]
               ELSE [helper EXCEPT !.at = "lines", !.listed = told[Git].refs]
  /\ told' = [told EXCEPT ![Git] = Silence]
  /\ HelperOnly /\ UNCHANGED <<asked, faults>>

\* What parse_fetch_line() makes of the first line of a batch, from which the word
\* `fetch` was not taken off, and of the others.
FirstName(r) == Garbled
NextName(r) == r

\* A batch of `fetch` lines for branches of the list, first of all the one of r.
HelperFetch(r, others) ==
  /\ helper.at = "lines"
  /\ \A s \in {r} \cup others : helper.listed[s] # Unborn
  /\ helper' = [helper EXCEPT !.at = "fetch"]
  /\ Request(Git, Ask("fetch", {FirstName(r)} \cup {NextName(s) : s \in others \ {r}}))
  /\ HelperOnly /\ UNCHANGED <<told, faults>>

\* do_fetch(): the bundle's objects are git's; a refusal ends the process.
HelperFetched ==
  /\ helper.at = "fetch" /\ told[Git] # Silence
  /\ helper' = IF told[Git].kind = "denied"
               THEN [helper EXCEPT !.at = "ended", !.result = "fetch failed"]
               ELSE [helper EXCEPT !.at = "lines", !.bundle = told[Git].refs]
  /\ told' = [told EXCEPT ![Git] = Silence]
  /\ HelperOnly /\ UNCHANGED <<asked, faults>>

\* An empty line or the end of git's lines.
HelperEnd ==
  /\ helper.at = "lines"
  /\ helper' = [helper EXCEPT !.at = "ended", !.result = "done"]
  /\ HelperOnly /\ UNCHANGED <<asked, told, faults>>

HelperUnanswered ==
  /\ helper.at \in {"list", "fetch"}
  /\ faults < MaxFaults /\ faults' = faults + 1
  /\ helper' = [helper EXCEPT !.at = "ended", !.result = "timed out"]
  /\ asked' = [asked EXCEPT ![Git] = Nothing] /\ told' = [told EXCEPT ![Git] = Silence]
  /\ HelperOnly

--------------------------------------------------------------------------------
FetchNext ==
  \/ \E p \in Caller : ServeList(p) \/ ServeRepos(p) \/ ServeFetch(p)
  \/ \E r \in Branch, t \in Tip \cup {Unborn} : Move(r, t)
  \/ \E c \in Command :
       \/ StartClone(c) \/ (\E k \in {"list", "repos"} : StartListing(c, k))
       \/ Shown(c) \/ Listed(c) \/ Fetched(c)
       \/ InitRepository(c) \/ Unpack(c) \/ AddRemote(c) \/ RemoteThere(c) \/ Checkout(c)
       \/ LocalFails(c) \/ Unanswered(c)
  \/ HelperList \/ HelperListed \/ HelperFetched \/ HelperEnd \/ HelperUnanswered
  \/ \E r \in Branch, others \in SUBSET Branch : HelperFetch(r, others)

FetchSpec == FetchInit /\ [][FetchNext]_fetchVars

--------------------------------------------------------------------------------
FetchTypeOK ==
  /\ repository \in {"missing", "made", "bare"} /\ readers \subseteq Caller
  /\ branches \in Branches
  /\ \A p \in Caller :
       /\ asked[p].kind \in {"nothing", "list", "repos", "fetch"}
       /\ asked[p].names \subseteq Branch \cup {Garbled}
       /\ told[p].refs \in Branches
  /\ \A c \in Command :
       /\ command[c].at \in {"idle", "show", "list", "fetch", "init", "unpack", "origin", "checkout"}
       /\ command[c].bundle \in Branches
       /\ moments[c] \subseteq Branches
  /\ helper.at \in {"idle", "list", "lines", "fetch", "ended"}
  /\ dir.remotes \in Branches /\ dir.checkedOut \in Tip \cup {Unborn}
  /\ entered \subseteq Command

\* Of the clones that all found no directory, at most one reports that it cloned. One
\* that had the directory for itself holds the listed branches as they all were at one
\* moment between its list and its end, however other peers moved and deleted them
\* meanwhile, and has checked out HEAD's.
CloneFaithful ==
  /\ Cardinality({c \in Command : command[c].result = "cloned"}) <= 1
  /\ \A c \in Command :
       command[c].result = "cloned" /\ entered = {c} =>
         /\ \E m \in moments[c] :
              dir.remotes = [r \in Branch |-> IF command[c].listed[r] = Unborn THEN Unborn ELSE m[r]]
         /\ dir.checkedOut = dir.remotes[HeadBranch]

\* "git fetch rns://<hash>/<group>/<repo>" (usage of git-remote-rns): a fetch of
\* listed branches by a git that may read them, and that nobody moved, succeeds.
FetchLands == readers = Caller /\ moves = 0 => helper.result # "fetch failed"
================================================================================
