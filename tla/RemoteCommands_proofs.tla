------------------------- MODULE RemoteCommands_proofs -------------------------
(***************************************************************************)
(* The programs that work with a server at the other end of a link: git    *)
(* and rngit reading from a server, rnperf, and the initiator of rnsh. For *)
(* any numbers of commands, initiators, branches, packets, reads and       *)
(* losses: that a clone is faithful, a measured result honest, what is     *)
(* typed filtered and what is put out shown without a gap.                 *)
(***************************************************************************)
EXTENDS RngitFetch, Rnperf, RnshInitiator, FiniteSetTheorems, SequenceTheorems,
        WellFoundedInduction, TLAPS

--------------------------------------------------------------------------------
(* git and rngit reading from a server. CloneFaithful alone is not         *)
(* inductive: what a command has heard so far must be known at each of its *)
(* places, the branches of the bundle must be known to have been listed    *)
(* together at one moment, and what a clone that was alone has made of the *)
(* directory must be known step by step.                                   *)

\* The types of the state, in full.
CommandPlaces == {"idle", "show", "list", "fetch", "init", "unpack", "origin", "checkout"}
CommandRecord == [at : CommandPlaces, listed : Branches, bundle : Branches,
                  result : {"none", "exists", "denied", "timed out", "failed", "cloned",
                            "refs", "shown", "hidden"}]
RequestRecord == [kind : {"nothing", "list", "repos", "fetch"}, names : SUBSET (Branch \cup {Garbled})]
ReplyRecord == [kind : {"silence", "denied", "refs", "shown", "hidden", "empty", "bundle"}, refs : Branches]

HelperRecord == [at : {"idle", "list", "lines", "fetch", "ended"}, listed : Branches, bundle : Branches,
                 result : {"none", "no list", "fetch failed", "done", "timed out"}]
DirRecord == [made : BOOLEAN, remotes : Branches, origin : BOOLEAN, checkedOut : Tip \cup {Unborn}]

FetchShape ==
  /\ repository \in {"missing", "made", "bare"} /\ readers \subseteq Caller
  /\ branches \in Branches
  /\ asked \in [Caller -> RequestRecord]
  /\ told \in [Caller -> ReplyRecord]
  /\ command \in [Command -> CommandRecord]
  /\ helper \in HelperRecord
  /\ dir \in DirRecord
  /\ moments \in [Command -> SUBSET Branches]
  /\ moves \in Nat /\ faults \in Nat
  /\ entered \subseteq Command

\* The branches that were listed, as they all were at one moment.
AtOneMoment(c, refs) ==
  \E m \in moments[c] : refs = [r \in Branch |-> IF command[c].listed[r] = Unborn THEN Unborn ELSE m[r]]

\* Clones that have the bundle.
HasBundle == {"init", "unpack", "origin", "checkout"}

\* What a command has asked and heard, at each of its places: the branches it has been
\* told, and those of its bundle, were there at one moment since its list.
Told(c) ==
  /\ asked[c].kind \in CASE command[c].at = "show" -> {"nothing", "list", "repos"}
                         [] command[c].at = "list" -> {"nothing", "list"}
                         [] command[c].at = "fetch" -> {"nothing", "fetch"}
                         [] OTHER -> {"nothing"}
  /\ told[c].kind \in CASE command[c].at = "show" -> {"silence", "denied", "refs", "shown", "hidden"}
                         [] command[c].at = "list" -> {"silence", "denied", "refs"}
                         [] command[c].at = "fetch" -> {"silence", "denied", "empty", "bundle"}
                         [] OTHER -> {"silence"}
  /\ told[c].kind = "silence" => told[c] = Silence
  /\ told[c].kind # "silence" => asked[c].kind = "nothing"
  /\ command[c].at = "list" /\ told[c].kind = "refs" => told[c].refs \in moments[c] /\ branches \in moments[c]
  /\ command[c].at = "fetch" =>
       /\ branches \in moments[c]
       /\ asked[c].kind = "fetch" => asked[c].names = {r \in Branch : command[c].listed[r] # Unborn}
       /\ told[c].kind \in {"empty", "bundle"} => AtOneMoment(c, told[c].refs)
  /\ (command[c].at \in HasBundle \/ command[c].result = "cloned") => AtOneMoment(c, command[c].bundle)

\* What a clone that has the directory for itself has made of it.
Settled(c) == command[c].at = "checkout" \/ command[c].result = "cloned"
CloneMade(c) ==
  /\ c \in entered => command[c].at \in {"idle", "unpack", "origin", "checkout"}
  /\ command[c].at # "idle" => command[c].result = "none"
  /\ c \in entered /\ command[c].at = "idle" => command[c].result # "none"
  /\ command[c].at \in {"unpack", "origin", "checkout"} \/ command[c].result = "cloned" => c \in entered
  /\ entered = {c} =>
       /\ command[c].at = "unpack" => dir.remotes = NoBranches /\ dir.checkedOut = Unborn
       /\ command[c].at \in {"origin", "checkout"} =>
            dir.remotes = command[c].bundle /\ dir.checkedOut = Unborn
       /\ command[c].result = "cloned" =>
            dir.remotes = command[c].bundle /\ dir.checkedOut = dir.remotes[HeadBranch]

\* Of the clones that found no directory at most one gets past adding the remote.
CloneInv ==
  /\ \A c \in Command : Told(c) /\ CloneMade(c)
  /\ entered = {} => dir.remotes = NoBranches /\ dir.checkedOut = Unborn
  /\ \A c \in Command : Settled(c) => dir.origin
  /\ \A c, d \in Command : Settled(c) /\ Settled(d) => c = d

--------------------------------------------------------------------------------
(* Git and rngit: the types are kept.                                      *)

LEMMA ShapeIsTypes == FetchShape => FetchTypeOK
<1>1. ASSUME FetchShape PROVE FetchTypeOK
  <2>1. \A p \in Caller : asked[p] \in RequestRecord /\ told[p] \in ReplyRecord
    BY <1>1 DEF FetchShape
  <2>2. \A c \in Command : command[c] \in CommandRecord /\ moments[c] \subseteq Branches
    BY <1>1 DEF FetchShape
  <2>3. QED
    BY <1>1, <2>1, <2>2
       DEF FetchShape, FetchTypeOK, RequestRecord, ReplyRecord, CommandRecord, CommandPlaces, HelperRecord, DirRecord
<1>2. QED
  BY <1>1

LEMMA FetchConstants ==
  /\ NoBranches \in Branches /\ Nothing \in RequestRecord /\ Silence \in ReplyRecord /\ Denied \in ReplyRecord
  /\ \A refs \in Branches : \A kind \in {"refs", "shown", "hidden", "empty", "bundle", "denied"} :
       ServerReply(kind, refs) \in ReplyRecord
  /\ NewCommand \in CommandRecord /\ NewCommand \in HelperRecord /\ NoDir \in DirRecord
  /\ Command \subseteq Caller /\ Git \in Caller
BY DEF NoBranches, Branches, Nothing, RequestRecord, Silence, ReplyRecord, Denied, ServerReply, NewCommand,
       CommandRecord, CommandPlaces, HelperRecord, NoDir, DirRecord, Caller

LEMMA FetchShapeInit == FetchInit => FetchShape
<1>1. SUFFICES ASSUME FetchInit PROVE FetchShape
  OBVIOUS
<1>2. branches \in Branches
  BY <1>1, FetchConstants DEF FetchInit
<1>3. readers \subseteq Caller
  BY <1>1 DEF FetchInit
<1>4. QED
  BY <1>1, <1>2, <1>3, FetchConstants DEF FetchInit, FetchShape

LEMMA ServedShape ==
  ASSUME FetchShape, NEW p \in Caller, NEW kind, NEW reply \in ReplyRecord, Serve(p, kind, reply),
         moments' \in [Command -> SUBSET Branches]
  PROVE  FetchShape'
<1>1. asked' \in [Caller -> RequestRecord] /\ told' \in [Caller -> ReplyRecord]
  BY FetchConstants DEF Serve, FetchShape
<1>2. QED
  BY <1>1 DEF Serve, FetchShape

LEMMA RecordsChange ==
  ASSUME NEW r \in CommandRecord, NEW h \in HelperRecord, NEW d \in DirRecord, NEW refs \in Branches,
         NEW at \in CommandPlaces, NEW t \in Tip \cup {Unborn}
  PROVE  /\ [r EXCEPT !.at = at] \in CommandRecord
         /\ [r EXCEPT !.at = at, !.listed = refs] \in CommandRecord
         /\ [r EXCEPT !.at = at, !.bundle = refs] \in CommandRecord
         /\ \A at2 \in {"idle", "list", "lines", "fetch", "ended"} :
              /\ [h EXCEPT !.at = at2] \in HelperRecord
              /\ [h EXCEPT !.at = at2, !.listed = refs] \in HelperRecord
              /\ [h EXCEPT !.at = at2, !.bundle = refs] \in HelperRecord
         /\ [d EXCEPT !.made = TRUE] \in DirRecord /\ [d EXCEPT !.origin = TRUE] \in DirRecord
         /\ [d EXCEPT !.remotes = refs] \in DirRecord /\ [d EXCEPT !.checkedOut = t] \in DirRecord
BY DEF CommandRecord, HelperRecord, DirRecord

Results == {"none", "exists", "denied", "timed out", "failed", "cloned", "refs", "shown", "hidden"}
LEMMA FinishShape ==
  ASSUME FetchShape, NEW c \in Command, NEW result \in Results, Finish(c, result)
  PROVE  /\ command' = [command EXCEPT ![c] = [command[c] EXCEPT !.at = "idle", !.result = result]]
         /\ command' \in [Command -> CommandRecord]
<1>1. command' = [command EXCEPT ![c] = [command[c] EXCEPT !.at = "idle", !.result = result]]
  BY DEF FetchShape, Finish
<1>2. command[c] \in CommandRecord
  BY DEF FetchShape
<1>3. [command[c] EXCEPT !.at = "idle", !.result = result] \in CommandRecord
  BY <1>2 DEF CommandRecord, CommandPlaces, Results
<1>4. QED
  BY <1>1, <1>3 DEF FetchShape

LEMMA CommandChange ==
  ASSUME FetchShape, NEW c \in Command
  PROVE  /\ command[c] \in CommandRecord /\ told[c] \in ReplyRecord /\ asked[c] \in RequestRecord
         /\ command[c].bundle \in Branches /\ command[c].listed \in Branches
         /\ told[c].refs \in Branches /\ dir \in DirRecord /\ dir.remotes \in Branches
         /\ helper \in HelperRecord
         /\ \A r \in CommandRecord : [command EXCEPT ![c] = r] \in [Command -> CommandRecord]
         /\ \A a \in RequestRecord : [asked EXCEPT ![c] = a] \in [Caller -> RequestRecord]
         /\ [told EXCEPT ![c] = Silence] \in [Caller -> ReplyRecord]
BY FetchConstants DEF FetchShape, CommandRecord, ReplyRecord, DirRecord

LEMMA CommandShapeNext ==
  ASSUME FetchShape, NEW c \in Command,
         \/ StartClone(c) \/ (\E k \in {"list", "repos"} : StartListing(c, k))
         \/ Shown(c) \/ Listed(c) \/ Fetched(c)
         \/ InitRepository(c) \/ Unpack(c) \/ AddRemote(c) \/ RemoteThere(c) \/ Checkout(c)
         \/ LocalFails(c) \/ Unanswered(c),
         told[c].kind \in Results \/ command[c].at # "show" \/ told[c] = Silence
  PROVE  FetchShape'
<1> USE FetchConstants, CommandChange
<1>1. CASE StartClone(c)
  <2>1. CASE dir.made
    <3>1. command' = [command EXCEPT ![c] = [command[c] EXCEPT !.result = "exists"]] /\ asked' = asked
      BY <1>1, <2>1 DEF StartClone, FetchShape
    <3>2. [command[c] EXCEPT !.result = "exists"] \in CommandRecord
      BY DEF CommandRecord
    <3>3. QED
      BY <1>1, <3>1, <3>2 DEF StartClone, served, FetchShape
  <2>2. CASE ~dir.made
    <3>1. /\ command' = [command EXCEPT ![c] = [command[c] EXCEPT !.at = "list"]]
          /\ asked' = [asked EXCEPT ![c] = Ask("list", {})]
      BY <1>1, <2>2 DEF StartClone, FetchShape, Request
    <3>2. [command[c] EXCEPT !.at = "list"] \in CommandRecord /\ Ask("list", {}) \in RequestRecord
      BY DEF CommandRecord, CommandPlaces, Ask, RequestRecord
    <3>3. QED
      BY <1>1, <3>1, <3>2 DEF StartClone, served, FetchShape
  <2>3. QED
    BY <2>1, <2>2
<1>2. ASSUME NEW k \in {"list", "repos"}, StartListing(c, k) PROVE FetchShape'
  <2>1. /\ command' = [command EXCEPT ![c] = [command[c] EXCEPT !.at = "show"]]
        /\ asked' = [asked EXCEPT ![c] = Ask(k, {})]
    BY <1>2 DEF StartListing, FetchShape, Request
  <2>2. [command[c] EXCEPT !.at = "show"] \in CommandRecord /\ Ask(k, {}) \in RequestRecord
    BY DEF CommandRecord, CommandPlaces, Ask, RequestRecord
  <2>3. QED
    BY <1>2, <2>1, <2>2 DEF StartListing, served, FetchShape
<1>3. CASE Shown(c)
  <2>1. told[c].kind \in Results
    BY <1>3 DEF Shown, Hear
  <2>2. command' \in [Command -> CommandRecord]
    BY <1>3, <2>1, FinishShape DEF Shown
  <2>3. QED
    BY <1>3, <2>2 DEF Shown, Hear, served, FetchShape
<1>4. CASE Listed(c)
  <2>1. CASE told[c].kind = "denied"
    <3>1. command' \in [Command -> CommandRecord]
      BY <1>4, <2>1, FinishShape DEF Listed, Results
    <3>2. QED
      BY <1>4, <2>1, <3>1 DEF Listed, Hear, served, FetchShape
  <2>2. CASE told[c].kind # "denied"
    <3> DEFINE names == {r \in Branch : told[c].refs[r] # Unborn}
    <3>1. /\ command' = [command EXCEPT ![c] = [command[c] EXCEPT !.at = "fetch", !.listed = told[c].refs]]
          /\ asked' = [asked EXCEPT ![c] = Ask("fetch", names)]
      BY <1>4, <2>2 DEF Listed, FetchShape, Request
    <3>2. [command[c] EXCEPT !.at = "fetch", !.listed = told[c].refs] \in CommandRecord
      BY DEF CommandRecord, CommandPlaces
    <3>3. Ask("fetch", names) \in RequestRecord
      BY DEF Ask, RequestRecord
    <3>4. QED
      BY <1>4, <3>1, <3>2, <3>3 DEF Listed, Hear, served, FetchShape
  <2>3. QED
    BY <2>1, <2>2
<1>5. CASE Fetched(c)
  <2>1. CASE told[c].kind = "denied"
    <3>1. command' \in [Command -> CommandRecord]
      BY <1>5, <2>1, FinishShape DEF Fetched, Results
    <3>2. QED
      BY <1>5, <3>1 DEF Fetched, Hear, served, FetchShape
  <2>2. CASE told[c].kind # "denied"
    <3>1. command' = [command EXCEPT ![c] = [command[c] EXCEPT !.at = "init", !.bundle = told[c].refs]]
      BY <1>5, <2>2 DEF Fetched, FetchShape
    <3>2. [command[c] EXCEPT !.at = "init", !.bundle = told[c].refs] \in CommandRecord
      BY DEF CommandRecord, CommandPlaces
    <3>3. QED
      BY <1>5, <3>1, <3>2 DEF Fetched, Hear, served, FetchShape
  <2>3. QED
    BY <2>1, <2>2
<1>6. ASSUME NEW at, NEW next \in CommandPlaces, Local(c, at, next), dir' \in DirRecord PROVE FetchShape'
  <2>1. command' = [command EXCEPT ![c] = [command[c] EXCEPT !.at = next]]
    BY <1>6 DEF Local, FetchShape
  <2>2. [command[c] EXCEPT !.at = next] \in CommandRecord
    BY DEF CommandRecord
  <2>3. QED
    BY <1>6, <2>1, <2>2 DEF Local, served, FetchShape
<1>7. CASE InitRepository(c)
  <2>1. dir' \in DirRecord
    BY <1>7 DEF InitRepository, DirRecord
  <2>2. QED
    BY <1>6, <1>7, <2>1 DEF InitRepository, CommandPlaces
<1>8. CASE Unpack(c)
  <2> DEFINE refs == [r \in Branch |-> IF command[c].bundle[r] = Unborn THEN dir.remotes[r] ELSE command[c].bundle[r]]
  <2>1. dir' = [dir EXCEPT !.remotes = refs]
    BY <1>8 DEF Unpack, DirRecord
  <2>2. refs \in Branches
    BY DEF Branches
  <2>3. dir' \in DirRecord
    <3> HIDE DEF refs
    <3>1. QED
      BY <2>1, <2>2 DEF DirRecord
  <2>4. QED
    BY <1>6, <1>8, <2>3 DEF Unpack, CommandPlaces
<1>9. CASE AddRemote(c)
  <2>1. dir' \in DirRecord
    BY <1>9 DEF AddRemote, DirRecord
  <2>2. QED
    BY <1>6, <1>9, <2>1 DEF AddRemote, CommandPlaces
<1>10. CASE RemoteThere(c)
  <2>1. command' \in [Command -> CommandRecord]
    BY <1>10, FinishShape DEF RemoteThere, Results
  <2>2. QED
    BY <1>10, <2>1 DEF RemoteThere, served, FetchShape
<1>11. CASE Checkout(c)
  <2>1. command' \in [Command -> CommandRecord]
    BY <1>11, FinishShape DEF Checkout, Results
  <2>2. PICK t : t = IF dir.checkedOut = Unborn THEN dir.remotes[HeadBranch] ELSE dir.checkedOut
    OBVIOUS
  <2>3. t \in Tip \cup {Unborn} /\ dir' = [dir EXCEPT !.checkedOut = t]
    BY <1>11, <2>2, FetchAssumption DEF Checkout, DirRecord, Branches
  <2>4. dir' \in DirRecord
    BY <2>3 DEF DirRecord
  <2>5. QED
    BY <1>11, <2>1, <2>4 DEF Checkout, served, FetchShape
<1>12. CASE LocalFails(c)
  <2>1. command' \in [Command -> CommandRecord]
    BY <1>12, FinishShape DEF LocalFails, Results
  <2>2. QED
    BY <1>12, <2>1 DEF LocalFails, served, FetchShape
<1>13. CASE Unanswered(c)
  <2>1. command' \in [Command -> CommandRecord]
    BY <1>13, FinishShape DEF Unanswered, Results
  <2>2. asked' \in [Caller -> RequestRecord] /\ told' \in [Caller -> ReplyRecord]
    BY <1>13 DEF Unanswered
  <2>3. /\ UNCHANGED <<repository, readers, branches, moves, moments, helper, dir, entered>>
        /\ faults' = faults + 1
    BY <1>13 DEF Unanswered, served
  <2>4. QED
    BY <2>1, <2>2, <2>3 DEF FetchShape
<1>14. QED
  BY <1>1, <1>2, <1>3, <1>4, <1>5, <1>7, <1>8, <1>9, <1>10, <1>11, <1>12, <1>13

LEMMA HelperShapeNext ==
  ASSUME FetchShape,
         \/ HelperList \/ HelperListed \/ HelperFetched \/ HelperEnd \/ HelperUnanswered
         \/ \E r \in Branch, others \in SUBSET Branch : HelperFetch(r, others)
  PROVE  FetchShape'
<1>1. /\ helper \in HelperRecord /\ told[Git] \in ReplyRecord /\ told[Git].refs \in Branches /\ Git \in Caller
      /\ \A a \in RequestRecord : [asked EXCEPT ![Git] = a] \in [Caller -> RequestRecord]
      /\ [told EXCEPT ![Git] = Silence] \in [Caller -> ReplyRecord]
  BY FetchConstants DEF FetchShape, ReplyRecord
<1> USE FetchConstants, <1>1
<1>2. CASE HelperList
  <2>1. helper' \in HelperRecord
    BY <1>2 DEF HelperList, HelperRecord
  <2>2. Ask("list", {}) \in RequestRecord
    BY DEF Ask, RequestRecord
  <2>3. QED
    BY <1>2, <2>1, <2>2 DEF HelperList, Request, HelperOnly, served, FetchShape
<1>3. CASE HelperListed
  <2>1. helper' \in HelperRecord
    BY <1>3 DEF HelperListed, HelperRecord
  <2>2. QED
    BY <1>3, <2>1 DEF HelperListed, HelperOnly, served, FetchShape
<1>4. CASE HelperFetched
  <2>1. helper' \in HelperRecord
    BY <1>4 DEF HelperFetched, HelperRecord
  <2>2. QED
    BY <1>4, <2>1 DEF HelperFetched, HelperOnly, served, FetchShape
<1>5. CASE HelperEnd
  <2>1. helper' \in HelperRecord
    BY <1>5 DEF HelperEnd, HelperRecord
  <2>2. QED
    BY <1>5, <2>1 DEF HelperEnd, HelperOnly, served, FetchShape
<1>6. CASE HelperUnanswered
  <2>1. helper' \in HelperRecord
    BY <1>6 DEF HelperUnanswered, HelperRecord
  <2>2. QED
    BY <1>6, <2>1 DEF HelperUnanswered, HelperOnly, served, FetchShape
<1>7. ASSUME NEW r \in Branch, NEW others \in SUBSET Branch, HelperFetch(r, others) PROVE FetchShape'
  <2>1. helper' \in HelperRecord
    BY <1>7 DEF HelperFetch, HelperRecord
  <2>2. Ask("fetch", {FirstName(r)} \cup {NextName(s) : s \in others \ {r}}) \in RequestRecord
    BY DEF Ask, RequestRecord, FirstName, NextName
  <2>3. QED
    BY <1>7, <2>1, <2>2 DEF HelperFetch, Request, HelperOnly, served, FetchShape
<1>8. QED
  BY <1>2, <1>3, <1>4, <1>5, <1>6, <1>7

LEMMA ServerShapeNext ==
  ASSUME FetchShape,
         \/ \E p \in Caller : ServeList(p) \/ ServeRepos(p) \/ ServeFetch(p)
         \/ \E r \in Branch, t \in Tip \cup {Unborn} : Move(r, t)
  PROVE  FetchShape'
<1> USE FetchConstants
<1>1. branches \in Branches /\ moments \in [Command -> SUBSET Branches]
  BY DEF FetchShape
<1>2. ASSUME NEW p \in Caller, ServeList(p) PROVE FetchShape'
  <2>1. ListReply(p) \in ReplyRecord
    BY <1>1 DEF ListReply
  <2>2. moments' \in [Command -> SUBSET Branches]
    BY <1>1, <1>2 DEF ServeList
  <2>3. QED
    BY <1>2, <2>1, <2>2, ServedShape DEF ServeList
<1>3. ASSUME NEW p \in Caller, ServeRepos(p) PROVE FetchShape'
  <2>1. ReposReply(p) \in ReplyRecord
    BY DEF ReposReply
  <2>2. QED
    BY <1>1, <1>3, <2>1, ServedShape DEF ServeRepos
<1>4. ASSUME NEW p \in Caller, ServeFetch(p) PROVE FetchShape'
  <2>1. FetchBundle(p, asked[p].names) \in Branches
    BY <1>1 DEF FetchBundle, Branches
  <2>2. FetchReply(p, asked[p].names) \in ReplyRecord
    BY <2>1 DEF FetchReply
  <2>3. QED
    BY <1>1, <1>4, <2>2, ServedShape DEF ServeFetch
<1>5. ASSUME NEW r \in Branch, NEW t \in Tip \cup {Unborn}, Move(r, t) PROVE FetchShape'
  <2>1. branches' \in Branches
    BY <1>1, <1>5 DEF Move, Branches
  <2>2. moments' \in [Command -> SUBSET Branches]
    BY <1>1, <1>5, <2>1 DEF Move
  <2>3. QED
    BY <1>5, <2>1, <2>2 DEF Move, FetchShape
<1>6. QED
  BY <1>2, <1>3, <1>4, <1>5

--------------------------------------------------------------------------------
(* Every command has heard what it acts on. *)
LEMMA ToldFrame ==
  ASSUME NEW c \in Command, Told(c), UNCHANGED <<asked[c], told[c], command[c], moments[c], branches>>
  PROVE  Told(c)'
<1>1. \A refs : AtOneMoment(c, refs) => \E m \in moments'[c] :
         refs = [r \in Branch |-> IF command'[c].listed[r] = Unborn THEN Unborn ELSE m[r]]
  BY DEF AtOneMoment
<1>2. AtOneMoment(c, told[c].refs) => AtOneMoment(c, told[c].refs)'
  BY <1>1 DEF AtOneMoment
<1>3. AtOneMoment(c, command[c].bundle) => AtOneMoment(c, command[c].bundle)'
  BY <1>1 DEF AtOneMoment
<1>4. QED
  BY <1>2, <1>3 DEF Told

LEMMA MadeFrame ==
  ASSUME NEW c \in Command, CloneMade(c), command'[c] = command[c],
         UNCHANGED <<entered, dir>> \/ \E d \in Command : d # c /\ entered' = entered \cup {d}
  PROVE  CloneMade(c)'
<1>1. CASE UNCHANGED <<entered, dir>>
  BY <1>1 DEF CloneMade
<1>2. CASE \E d \in Command : d # c /\ entered' = entered \cup {d}
  <2>1. entered' # {c} /\ (c \in entered' <=> c \in entered)
    BY <1>2
  <2>2. QED
    BY <2>1 DEF CloneMade
<1>3. QED
  BY <1>1, <1>2

LEMMA CloneInvInit == FetchInit => CloneInv
<1>1. SUFFICES ASSUME FetchInit PROVE CloneInv
  OBVIOUS
<1>2. \A c \in Command : /\ asked[c] = Nothing /\ told[c] = Silence /\ command[c] = NewCommand
                         /\ entered = {} /\ dir = NoDir
  BY <1>1 DEF FetchInit, Caller
<1>3. \A c \in Command : Told(c) /\ CloneMade(c) /\ ~Settled(c)
  BY <1>2 DEF Told, CloneMade, Settled, Nothing, Silence, NewCommand, HasBundle
<1>4. QED
  BY <1>1, <1>3 DEF CloneInv, FetchInit, NoDir

LEMMA CloneServer ==
  ASSUME FetchShape, CloneInv,
         \/ \E p \in Caller : ServeList(p) \/ ServeRepos(p) \/ ServeFetch(p)
         \/ \E r \in Branch, t \in Tip \cup {Unborn} : Move(r, t)
  PROVE  CloneInv'
<1>1. UNCHANGED <<command, dir, entered>>
  BY DEF ServeList, ServeRepos, ServeFetch, Serve, Move
<1>2. SUFFICES ASSUME NEW c \in Command PROVE Told(c)'
  <2>1. \A c \in Command : CloneMade(c)'
    BY <1>1, MadeFrame DEF CloneInv
  <2>2. QED
    BY <1>1, <1>2, <2>1 DEF CloneInv, Settled
<1>3. Told(c) /\ CloneMade(c) /\ c \in Caller
  BY DEF CloneInv, Caller
<1>4. told \in [Caller -> ReplyRecord] /\ asked \in [Caller -> RequestRecord] /\ moments \in [Command -> SUBSET Branches]
  BY DEF FetchShape
<1>5. ASSUME NEW p \in Caller, ServeList(p) PROVE Told(c)'
  <2>1. CASE p # c
    BY <1>1, <1>3, <1>4, <1>5, <2>1, ToldFrame DEF ServeList, Serve
  <2>2. CASE p = c
    <3>1. /\ asked'[c] = Nothing /\ told'[c] = ListReply(c) /\ moments'[c] = {branches}
          /\ branches' = branches /\ asked[c].kind = "list"
      BY <1>4, <1>5, <2>2 DEF ServeList, Serve
    <3>2. command[c].at \in {"show", "list"} /\ command[c].result = "none"
      BY <1>3, <3>1 DEF Told, CloneMade
    <3>3. ListReply(c).kind \in {"refs", "denied"} /\ (ListReply(c).kind = "refs" => ListReply(c).refs = branches)
      BY DEF ListReply, ServerReply, Denied
    <3>4. QED
      BY <1>1, <3>1, <3>2, <3>3 DEF Told, HasBundle, Nothing
  <2>3. QED
    BY <2>1, <2>2
<1>6. ASSUME NEW p \in Caller, ServeRepos(p) PROVE Told(c)'
  <2>1. CASE p # c
    BY <1>1, <1>3, <1>4, <1>6, <2>1, ToldFrame DEF ServeRepos, Serve
  <2>2. CASE p = c
    <3>1. /\ asked'[c] = Nothing /\ told'[c] = ReposReply(c) /\ asked[c].kind = "repos"
      BY <1>4, <1>6, <2>2 DEF ServeRepos, Serve
    <3>2. command[c].at = "show" /\ command[c].result = "none"
      BY <1>3, <3>1 DEF Told, CloneMade
    <3>3. ReposReply(c).kind \in {"shown", "hidden"}
      BY DEF ReposReply, ServerReply
    <3>4. QED
      BY <1>1, <3>1, <3>2, <3>3 DEF Told, HasBundle, Nothing
  <2>3. QED
    BY <2>1, <2>2
<1>7. ASSUME NEW p \in Caller, ServeFetch(p) PROVE Told(c)'
  <2>1. CASE p # c
    BY <1>1, <1>3, <1>4, <1>7, <2>1, ToldFrame DEF ServeFetch, Serve
  <2>2. CASE p = c
    <3>1. /\ asked'[c] = Nothing /\ told'[c] = FetchReply(c, asked[c].names) /\ asked[c].kind = "fetch"
          /\ UNCHANGED <<moments, branches>>
      BY <1>4, <1>7, <2>2 DEF ServeFetch, Serve
    <3>2. command[c].at = "fetch" /\ command[c].result = "none"
      BY <1>3, <3>1 DEF Told, CloneMade
    <3>3. asked[c].names = {r \in Branch : command[c].listed[r] # Unborn} /\ branches \in moments[c]
      BY <1>3, <3>1, <3>2 DEF Told
    <3>4. FetchBundle(c, asked[c].names) = [r \in Branch |-> IF command[c].listed[r] = Unborn THEN Unborn ELSE branches[r]]
      BY <3>3 DEF FetchBundle
    <3>5. /\ told'[c].kind \in {"denied", "empty", "bundle"}
          /\ told'[c].kind \in {"empty", "bundle"} => told'[c].refs = FetchBundle(c, asked[c].names)
      BY <3>1 DEF FetchReply, ServerReply, Denied
    <3>6. told'[c].kind \in {"empty", "bundle"} => AtOneMoment(c, told[c].refs)'
      BY ZenonT(40), <1>1, <3>1, <3>3, <3>4, <3>5 DEF AtOneMoment
    <3>7. QED
      BY <1>1, <3>1, <3>2, <3>3, <3>5, <3>6 DEF Told, HasBundle, Nothing
  <2>3. QED
    BY <2>1, <2>2
<1>8. ASSUME NEW r \in Branch, NEW t \in Tip \cup {Unborn}, Move(r, t) PROVE Told(c)'
  <2>1. moments'[c] = moments[c] \cup {branches'} /\ UNCHANGED <<asked, told, command>>
    BY <1>8 DEF Move
  <2>2. \A refs : AtOneMoment(c, refs) => \E m \in moments'[c] :
           refs = [s \in Branch |-> IF command'[c].listed[s] = Unborn THEN Unborn ELSE m[s]]
    BY <2>1 DEF AtOneMoment
  <2>3. QED
    BY SMTT(20), <1>3, <2>1, <2>2 DEF Told, AtOneMoment
<1>9. QED
  BY <1>5, <1>6, <1>7, <1>8

LEMMA CloneHelper ==
  ASSUME FetchShape, CloneInv,
         \/ HelperList \/ HelperListed \/ HelperFetched \/ HelperEnd \/ HelperUnanswered
         \/ \E r \in Branch, others \in SUBSET Branch : HelperFetch(r, others)
  PROVE  CloneInv'
<1>1. UNCHANGED <<command, dir, entered, branches, moments>>
  BY DEF HelperList, HelperListed, HelperFetched, HelperEnd, HelperUnanswered, HelperFetch, HelperOnly, served
<1>2. asked \in [Caller -> RequestRecord] /\ told \in [Caller -> ReplyRecord]
  BY DEF FetchShape
<1>3. \A c \in Command : asked'[c] = asked[c] /\ told'[c] = told[c]
  <2>1. \A c \in Command : c \in Caller /\ c # Git
    BY FetchAssumption DEF Caller
  <2>2. QED
    BY <1>2, <2>1 DEF HelperList, HelperListed, HelperFetched, HelperEnd, HelperUnanswered, HelperFetch, Request
<1>4. \A c \in Command : Told(c)' /\ CloneMade(c)'
  BY <1>1, <1>3, ToldFrame, MadeFrame DEF CloneInv
<1>5. QED
  BY <1>1, <1>4 DEF CloneInv, Settled

CommandStep(c) ==
  \/ StartClone(c) \/ (\E k \in {"list", "repos"} : StartListing(c, k))
  \/ Shown(c) \/ Listed(c) \/ Fetched(c)
  \/ InitRepository(c) \/ Unpack(c) \/ AddRemote(c) \/ RemoteThere(c) \/ Checkout(c)
  \/ LocalFails(c) \/ Unanswered(c)

LEMMA StepOnly ==
  ASSUME FetchShape, NEW c \in Command, CommandStep(c)
  PROVE  /\ UNCHANGED <<branches, moments>>
         /\ \A d \in Command : d # c =>
              command'[d] = command[d] /\ asked'[d] = asked[d] /\ told'[d] = told[d]
         /\ UNCHANGED <<entered, dir>> \/ entered' = entered \cup {c}
<1>1. command \in [Command -> CommandRecord] /\ asked \in [Caller -> RequestRecord] /\ told \in [Caller -> ReplyRecord]
      /\ Command \subseteq Caller
  BY FetchConstants DEF FetchShape
<1>2. CASE StartClone(c) \/ \E k \in {"list", "repos"} : StartListing(c, k)
  BY <1>1, <1>2 DEF StartClone, StartListing, Request, served
<1>3. CASE Shown(c) \/ Listed(c) \/ Fetched(c)
  BY <1>1, <1>3 DEF Shown, Listed, Fetched, Hear, Finish, Request, served
<1>4. CASE InitRepository(c) \/ Unpack(c) \/ AddRemote(c)
  BY <1>1, <1>4 DEF InitRepository, Unpack, AddRemote, Local, served
<1>5. CASE RemoteThere(c) \/ Checkout(c) \/ LocalFails(c)
  BY <1>1, <1>5 DEF RemoteThere, Checkout, LocalFails, Finish, served
<1>6. CASE Unanswered(c)
  BY <1>1, <1>6 DEF Unanswered, Finish, served
<1>7. QED
  BY <1>2, <1>3, <1>4, <1>5, <1>6 DEF CommandStep

\* What is left to show of a step of c.
CloneSelf(c) ==
  /\ Told(c) /\ CloneMade(c)
  /\ entered = {} => dir.remotes = NoBranches /\ dir.checkedOut = Unborn

LEMMA CloneStepOf ==
  ASSUME FetchShape, CloneInv, NEW c \in Command, CommandStep(c), CloneSelf(c)',
         dir.origin => dir'.origin,
         Settled(c)' => dir'.origin /\ (Settled(c) \/ ~dir.origin)
  PROVE  CloneInv'
<1>1. \A d \in Command : d # c => Told(d)' /\ CloneMade(d)' /\ (Settled(d)' <=> Settled(d))
  BY StepOnly, ToldFrame, MadeFrame DEF CloneInv, Settled
<1>2. \A d \in Command : Told(d)' /\ CloneMade(d)'
  BY <1>1 DEF CloneSelf
<1>3. \A d \in Command : Settled(d)' => dir'.origin
  BY <1>1 DEF CloneInv
<1>4. ASSUME NEW d \in Command, NEW e \in Command, Settled(d)', Settled(e)' PROVE d = e
  BY <1>1, <1>4 DEF CloneInv
<1>5. QED
  BY <1>2, <1>3, <1>4 DEF CloneInv, CloneSelf

LEMMA CloneCommand ==
  ASSUME FetchShape, CloneInv, NEW c \in Command, CommandStep(c)
  PROVE  CloneInv'
<1>1. /\ Told(c) /\ CloneMade(c) /\ (entered = {} => dir.remotes = NoBranches /\ dir.checkedOut = Unborn)
      /\ Settled(c) => dir.origin
  BY DEF CloneInv
<1>2. /\ command \in [Command -> CommandRecord] /\ asked \in [Caller -> RequestRecord]
      /\ told \in [Caller -> ReplyRecord] /\ c \in Caller
      /\ command[c] \in CommandRecord /\ dir \in DirRecord
  BY FetchConstants DEF FetchShape
<1>3. UNCHANGED <<branches, moments>>
  BY StepOnly
<1>0. \A at \in CommandPlaces : \A refs \in Branches :
        /\ command' = [command EXCEPT ![c].at = at] =>
             command'[c] = [command[c] EXCEPT !.at = at]
        /\ command' = [command EXCEPT ![c].at = at, ![c].listed = refs] =>
             command'[c] = [command[c] EXCEPT !.at = at, !.listed = refs]
        /\ command' = [command EXCEPT ![c].at = at, ![c].bundle = refs] =>
             command'[c] = [command[c] EXCEPT !.at = at, !.bundle = refs]
  BY <1>2
<1> DEFINE r == command[c]
<1>9. \A at \in CommandPlaces : \A refs \in Branches :
        /\ [r EXCEPT !.at = at].at = at /\ [r EXCEPT !.at = at].result = r.result
        /\ [r EXCEPT !.at = at].bundle = r.bundle /\ [r EXCEPT !.at = at].listed = r.listed
        /\ [r EXCEPT !.at = at, !.listed = refs].at = at /\ [r EXCEPT !.at = at, !.listed = refs].result = r.result
        /\ [r EXCEPT !.at = at, !.listed = refs].listed = refs
        /\ [r EXCEPT !.at = at, !.bundle = refs].at = at /\ [r EXCEPT !.at = at, !.bundle = refs].result = r.result
        /\ [r EXCEPT !.at = at, !.bundle = refs].bundle = refs /\ [r EXCEPT !.at = at, !.bundle = refs].listed = r.listed
  <2> HIDE DEF r
  <2>1. r \in CommandRecord
    BY <1>2 DEF r
  <2>2. QED
    BY <2>1 DEF CommandRecord
<1>4. ASSUME NEW result \in Results \ {"none", "cloned"}, Finish(c, result), UNCHANGED <<dir, entered>>,
             asked'[c].kind = "nothing", told'[c] = Silence
      PROVE  CloneInv'
  <2>1. command'[c].at = "idle" /\ command'[c].result = result
    <3>1. command'[c] = [command[c] EXCEPT !.at = "idle", !.result = result]
      <4>1. command' = [command EXCEPT ![c] = [command[c] EXCEPT !.at = "idle", !.result = result]]
        BY <1>4, FinishShape
      <4>2. QED
        BY <1>2, <4>1
    <3>2. QED
      BY <1>2, <3>1 DEF CommandRecord
  <2>2. CloneSelf(c)'
    BY <1>1, <1>4, <2>1 DEF CloneSelf, Told, CloneMade, HasBundle, Silence
  <2>3. ~Settled(c)'
    BY <1>4, <2>1 DEF Settled
  <2>4. QED
    BY <1>4, <2>2, <2>3, CloneStepOf
<1>5. CASE StartClone(c)
  <2>1. /\ command[c] = NewCommand /\ UNCHANGED <<told, dir, entered>>
        /\ command[c].at = "idle" /\ command[c].result = "none"
    BY <1>5 DEF StartClone, NewCommand
  <2>2. /\ asked[c].kind = "nothing" /\ told[c].kind = "silence" /\ told[c] = Silence /\ c \notin entered
    BY <1>1, <2>1 DEF Told, CloneMade
  <2>3. CASE dir.made
    <3>0. command'[c] = [command[c] EXCEPT !.result = "exists"] /\ asked' = asked
      BY <1>2, <1>5, <2>3 DEF StartClone
    <3>1. command'[c].at = "idle" /\ command'[c].result = "exists" /\ asked' = asked
      BY <1>2, <2>1, <3>0 DEF CommandRecord
    <3>2. CloneSelf(c)' /\ ~Settled(c)'
      BY <1>1, <2>1, <2>2, <3>1 DEF CloneSelf, Told, CloneMade, HasBundle, Settled
    <3>3. QED
      BY <2>1, <3>2, CloneStepOf
  <2>4. CASE ~dir.made
    <3>1. command'[c].at = "list" /\ command'[c].result = "none" /\ asked'[c].kind = "list"
      <4>1. command' = [command EXCEPT ![c].at = "list"] /\ asked' = [asked EXCEPT ![c] = Ask("list", {})]
        BY <1>5, <2>4 DEF StartClone, Request
      <4>2. command'[c] = [command[c] EXCEPT !.at = "list"]
        BY <1>2, <4>1
      <4>3. QED
        BY <1>2, <2>1, <4>1, <4>2 DEF CommandRecord, Ask
    <3>2. CloneSelf(c)' /\ ~Settled(c)'
      BY <1>1, <2>1, <2>2, <3>1 DEF CloneSelf, Told, CloneMade, HasBundle, Settled
    <3>3. QED
      BY <2>1, <3>2, CloneStepOf
  <2>5. QED
    BY <2>3, <2>4
<1>6. ASSUME NEW k \in {"list", "repos"}, StartListing(c, k) PROVE CloneInv'
  <2>1. /\ command[c] = NewCommand /\ UNCHANGED <<told, dir, entered>>
        /\ command[c].at = "idle" /\ command[c].result = "none"
    BY <1>6 DEF StartListing, NewCommand
  <2>2. told[c].kind = "silence" /\ told[c] = Silence /\ c \notin entered
    BY <1>1, <2>1 DEF Told, CloneMade
  <2>3. command'[c].at = "show" /\ command'[c].result = "none" /\ asked'[c].kind = k
    <3>1. command' = [command EXCEPT ![c].at = "show"] /\ asked' = [asked EXCEPT ![c] = Ask(k, {})]
      BY <1>6 DEF StartListing, Request
    <3>2. command'[c] = [command[c] EXCEPT !.at = "show"]
      BY <1>2, <3>1
    <3>3. QED
      BY <1>2, <2>1, <3>1, <3>2 DEF CommandRecord, Ask
  <2>4. CloneSelf(c)' /\ ~Settled(c)'
    BY <1>1, <2>1, <2>2, <2>3 DEF CloneSelf, Told, CloneMade, HasBundle, Settled
  <2>5. QED
    BY <2>1, <2>4, CloneStepOf
<1>7. CASE Shown(c)
  <2>1. command[c].at = "show" /\ told[c] # Silence /\ told'[c] = Silence /\ UNCHANGED <<asked, dir, entered>>
    BY <1>2, <1>7 DEF Shown, Hear
  <2>2. told[c].kind \in {"denied", "refs", "shown", "hidden"}
    BY <1>1, <2>1 DEF Told
  <2>3. Finish(c, told[c].kind) /\ told[c].kind \in Results \ {"none", "cloned"}
    BY <1>7, <2>2 DEF Shown, Results
  <2>4. asked[c].kind = "nothing"
    BY <1>1, <2>2 DEF Told
  <2>5. QED
    BY <1>4, <2>1, <2>3, <2>4
<1>8. CASE Listed(c)
  <2>1. command[c].at = "list" /\ told[c] # Silence /\ told'[c] = Silence /\ UNCHANGED <<dir, entered>>
    BY <1>2, <1>8 DEF Listed, Hear
  <2>2. told[c].kind \in {"denied", "refs"} /\ asked[c].kind = "nothing" /\ c \notin entered /\ command[c].result = "none"
    BY <1>1, <2>1 DEF Told, CloneMade
  <2>3. CASE told[c].kind = "denied"
    <3>1. Finish(c, "denied") /\ asked' = asked
      BY <1>8, <2>3 DEF Listed
    <3>2. QED
      BY <1>4, <2>1, <2>2, <3>1 DEF Results
  <2>4. CASE told[c].kind = "refs"
    <3>1. PICK refs \in Branches : refs = told[c].refs
      BY <1>2 DEF ReplyRecord
    <3>2. /\ command' = [command EXCEPT ![c].at = "fetch", ![c].listed = refs]
          /\ asked' = [asked EXCEPT ![c] = Ask("fetch", {s \in Branch : refs[s] # Unborn})]
      BY <1>8, <2>4, <3>1 DEF Listed, Request
    <3>3. command'[c].at = "fetch" /\ command'[c].listed = refs /\ command'[c].result = "none"
      <4>1. command'[c] = [r EXCEPT !.at = "fetch", !.listed = refs] /\ "fetch" \in CommandPlaces
        BY <1>0, <3>2 DEF CommandPlaces
      <4>2. QED
        BY <1>9, <2>2, <4>1
    <3>4. asked'[c].kind = "fetch" /\ asked'[c].names = {s \in Branch : refs[s] # Unborn}
      BY <1>2, <3>2 DEF Ask
    <3>5. branches \in moments[c]
      BY <1>1, <2>1, <2>4 DEF Told
    <3>6. CloneSelf(c)' /\ ~Settled(c)'
      BY <1>1, <1>3, <2>1, <2>2, <3>3, <3>4, <3>5 DEF CloneSelf, Told, CloneMade, HasBundle, Settled, Silence
    <3>7. QED
      BY <2>1, <3>6, CloneStepOf
  <2>5. QED
    BY <2>2, <2>3, <2>4
<1>10. CASE Fetched(c)
  <2>1. command[c].at = "fetch" /\ told[c] # Silence /\ told'[c] = Silence /\ UNCHANGED <<dir, entered, asked>>
    BY <1>2, <1>10 DEF Fetched, Hear
  <2>2. told[c].kind \in {"denied", "empty", "bundle"} /\ asked[c].kind = "nothing" /\ c \notin entered /\ command[c].result = "none"
    BY <1>1, <2>1 DEF Told, CloneMade
  <2>3. CASE told[c].kind = "denied"
    <3>1. Finish(c, "denied")
      BY <1>10, <2>3 DEF Fetched
    <3>2. QED
      BY <1>4, <2>1, <2>2, <3>1 DEF Results
  <2>4. CASE told[c].kind # "denied"
    <3>1. PICK refs \in Branches : refs = told[c].refs
      BY <1>2 DEF ReplyRecord
    <3>2. command' = [command EXCEPT ![c].at = "init", ![c].bundle = refs]
      BY <1>10, <2>4, <3>1 DEF Fetched
    <3>3. /\ command'[c].at = "init" /\ command'[c].bundle = refs /\ command'[c].result = "none"
          /\ command'[c].listed = command[c].listed
      <4>1. command'[c] = [r EXCEPT !.at = "init", !.bundle = refs] /\ "init" \in CommandPlaces
        BY <1>0, <3>2 DEF CommandPlaces
      <4>2. QED
        BY <1>9, <2>2, <4>1
    <3>4. AtOneMoment(c, refs)
      BY <1>1, <2>1, <2>2, <2>4, <3>1 DEF Told
    <3>5. AtOneMoment(c, command[c].bundle)'
      BY <1>3, <3>3, <3>4 DEF AtOneMoment
    <3>6. CloneSelf(c)' /\ ~Settled(c)'
      BY <1>1, <1>3, <2>1, <2>2, <3>3, <3>5 DEF CloneSelf, Told, CloneMade, HasBundle, Settled, Silence
    <3>7. QED
      BY <2>1, <3>6, CloneStepOf
  <2>5. QED
    BY <2>3, <2>4
<1>11. ASSUME NEW at \in {"init", "unpack", "origin"}, NEW next \in {"unpack", "origin", "checkout"}, Local(c, at, next),
              dir.origin => dir'.origin,
              next = "checkout" => ~dir.origin /\ dir'.origin,
              entered \subseteq {c} => /\ next = "unpack" => dir'.remotes = NoBranches /\ dir'.checkedOut = Unborn
                                       /\ next \in {"origin", "checkout"} =>
                                            dir'.remotes = command[c].bundle /\ dir'.checkedOut = Unborn
       PROVE  CloneInv'
  <2>1. /\ command[c].at = at /\ UNCHANGED <<asked, told>> /\ entered' = entered \cup {c}
        /\ command' = [command EXCEPT ![c].at = next]
    BY <1>11 DEF Local
  <2>2. /\ command'[c].at = next /\ command'[c].bundle = command[c].bundle
        /\ command'[c].listed = command[c].listed /\ command'[c].result = "none"
    <3>1. command'[c] = [r EXCEPT !.at = next] /\ next \in CommandPlaces
      BY <1>0, <1>11, <2>1, FetchConstants DEF CommandPlaces
    <3>2. command[c].result = "none"
      BY <1>1, <1>11, <2>1 DEF CloneMade
    <3>3. QED
      BY <1>9, <3>1, <3>2, FetchConstants
  <2>3. AtOneMoment(c, command[c].bundle)'
    <3>1. AtOneMoment(c, command[c].bundle)
      BY <1>1, <1>11, <2>1 DEF Told, HasBundle
    <3>2. QED
      BY <1>3, <2>2, <3>1 DEF AtOneMoment
  <2>4. Told(c)'
    BY <1>1, <1>11, <2>1, <2>2, <2>3 DEF Told, HasBundle
  <2>5. entered' = {c} => entered \subseteq {c}
    BY <2>1
  <2>6. CloneMade(c)'
    BY <1>11, <2>1, <2>2, <2>5 DEF CloneMade
  <2>7. CloneSelf(c)'
    BY <2>1, <2>4, <2>6 DEF CloneSelf
  <2>8. Settled(c)' => dir'.origin /\ ~dir.origin
    BY <1>11, <2>2 DEF Settled
  <2>9. QED
    BY <1>11, <2>7, <2>8, CloneStepOf
<1>12. command[c].at \in {"init", "unpack", "origin", "checkout"} /\ entered \subseteq {c} =>
         /\ command[c].at = "init" => entered = {}
         /\ command[c].at # "init" => entered = {c}
  BY <1>1 DEF CloneMade
<1>13. CASE InitRepository(c)
  <2>1. /\ Local(c, "init", IF command[c].bundle = NoBranches THEN "origin" ELSE "unpack")
        /\ command[c].at = "init"
    BY <1>13 DEF InitRepository, Local
  <2>2. dir'.remotes = dir.remotes /\ dir'.checkedOut = dir.checkedOut /\ dir'.origin = dir.origin
    BY <1>2, <1>13 DEF InitRepository, DirRecord
  <2>3. entered \subseteq {c} => dir.remotes = NoBranches /\ dir.checkedOut = Unborn
    BY <1>1, <1>12, <2>1
  <2>4. CASE command[c].bundle = NoBranches
    BY <1>11, <2>1, <2>2, <2>3, <2>4
  <2>5. CASE command[c].bundle # NoBranches
    BY <1>11, <2>1, <2>2, <2>3, <2>5
  <2>6. QED
    BY <2>4, <2>5
<1>14. CASE Unpack(c)
  <2>1. Local(c, "unpack", "origin") /\ command[c].at = "unpack"
    BY <1>14 DEF Unpack, Local
  <2>2. /\ dir'.remotes = [s \in Branch |-> IF command[c].bundle[s] = Unborn THEN dir.remotes[s] ELSE command[c].bundle[s]]
        /\ dir'.checkedOut = dir.checkedOut /\ dir'.origin = dir.origin
    BY <1>2, <1>14 DEF Unpack, DirRecord
  <2>3. entered \subseteq {c} => dir.remotes = NoBranches /\ dir.checkedOut = Unborn
    BY <1>1, <1>12, <2>1 DEF CloneMade
  <2>4. command[c].bundle \in [Branch -> Tip \cup {Unborn}]
    BY <1>2 DEF CommandRecord, Branches
  <2>5. dir.remotes = NoBranches => dir'.remotes = command[c].bundle
    BY <2>2, <2>4 DEF NoBranches
  <2>6. QED
    BY <1>11, <2>1, <2>2, <2>3, <2>5
<1>15. CASE AddRemote(c)
  <2>1. Local(c, "origin", "checkout") /\ command[c].at = "origin" /\ ~dir.origin
    BY <1>15 DEF AddRemote, Local
  <2>2. dir'.remotes = dir.remotes /\ dir'.checkedOut = dir.checkedOut /\ dir'.origin = TRUE
    BY <1>2, <1>15 DEF AddRemote, DirRecord
  <2>3. entered \subseteq {c} => dir.remotes = command[c].bundle /\ dir.checkedOut = Unborn
    BY <1>1, <1>12, <2>1 DEF CloneMade
  <2>4. QED
    BY <1>11, <2>1, <2>2, <2>3
<1>16. CASE RemoteThere(c)
  <2>1. command[c].at = "origin" /\ Finish(c, "failed") /\ UNCHANGED <<asked, told, dir, entered>>
    BY <1>16 DEF RemoteThere
  <2>2. asked[c].kind = "nothing" /\ told[c] = Silence
    BY <1>1, <2>1 DEF Told
  <2>3. QED
    BY <1>4, <2>1, <2>2 DEF Results
<1>17. CASE Checkout(c)
  <2>1. command[c].at = "checkout" /\ Finish(c, "cloned") /\ UNCHANGED <<asked, told>> /\ entered' = entered \cup {c}
    BY <1>17 DEF Checkout
  <2>2. asked[c].kind = "nothing" /\ told[c] = Silence /\ told[c].kind = "silence"
    BY <1>1, <2>1 DEF Told
  <2>3. command'[c] = [command[c] EXCEPT !.at = "idle", !.result = "cloned"]
    <3>1. command' = [command EXCEPT ![c] = [command[c] EXCEPT !.at = "idle", !.result = "cloned"]]
      BY <2>1, FinishShape DEF Results
    <3>2. QED
      BY <1>2, <3>1
  <2>4. /\ command'[c].at = "idle" /\ command'[c].result = "cloned"
        /\ command'[c].bundle = command[c].bundle /\ command'[c].listed = command[c].listed
    BY <1>2, <2>3 DEF CommandRecord
  <2>5. /\ dir'.remotes = dir.remotes /\ dir'.origin = dir.origin
        /\ dir'.checkedOut = IF dir.checkedOut = Unborn THEN dir.remotes[HeadBranch] ELSE dir.checkedOut
    BY <1>2, <1>17 DEF Checkout, DirRecord
  <2>6. AtOneMoment(c, command[c].bundle)'
    BY <1>1, <1>3, <2>1, <2>4 DEF Told, HasBundle, AtOneMoment
  <2>7. entered' = {c} => dir.remotes = command[c].bundle /\ dir.checkedOut = Unborn
    BY <1>1, <1>12, <2>1 DEF CloneMade
  <2>8. CloneSelf(c)'
    BY <2>1, <2>2, <2>4, <2>5, <2>6, <2>7 DEF CloneSelf, Told, CloneMade, HasBundle
  <2>9. Settled(c)
    BY <2>1 DEF Settled
  <2>10. QED
    BY <1>1, <2>5, <2>8, <2>9, CloneStepOf
<1>18. CASE LocalFails(c)
  <2>1. /\ command[c].at \in {"init", "unpack", "origin", "checkout"} /\ Finish(c, "failed")
        /\ UNCHANGED <<asked, told, dir, entered>>
    BY <1>18 DEF LocalFails
  <2>2. asked[c].kind = "nothing" /\ told[c] = Silence
    BY <1>1, <2>1 DEF Told
  <2>3. QED
    BY <1>4, <2>1, <2>2 DEF Results
<1>19. CASE Unanswered(c)
  <2>1. Finish(c, "timed out") /\ asked'[c].kind = "nothing" /\ told'[c] = Silence /\ UNCHANGED <<dir, entered>>
    BY <1>2, <1>19 DEF Unanswered, Nothing
  <2>2. QED
    BY <1>4, <2>1 DEF Results
<1>20. QED
  BY <1>5, <1>6, <1>7, <1>8, <1>10, <1>13, <1>14, <1>15, <1>16, <1>17, <1>18, <1>19 DEF CommandStep

--------------------------------------------------------------------------------
\* The inductive invariant of git and rngit.
FetchInv == FetchShape /\ CloneInv

LEMMA FetchInvInit == FetchInit => FetchInv
BY FetchShapeInit, CloneInvInit DEF FetchInv

LEMMA FetchInvNext == FetchInv /\ [FetchNext]_fetchVars => FetchInv'
<1>1. SUFFICES ASSUME FetchShape, CloneInv, [FetchNext]_fetchVars PROVE FetchShape' /\ CloneInv'
  BY DEF FetchInv
<1>2. CASE \/ \E p \in Caller : ServeList(p) \/ ServeRepos(p) \/ ServeFetch(p)
           \/ \E b \in Branch, t \in Tip \cup {Unborn} : Move(b, t)
  BY <1>1, <1>2, ServerShapeNext, CloneServer
<1>3. CASE \/ HelperList \/ HelperListed \/ HelperFetched \/ HelperEnd \/ HelperUnanswered
           \/ \E b \in Branch, others \in SUBSET Branch : HelperFetch(b, others)
  BY <1>1, <1>3, HelperShapeNext, CloneHelper
<1>4. ASSUME NEW c \in Command, CommandStep(c) PROVE FetchShape' /\ CloneInv'
  <2>1. told[c].kind \in Results \/ command[c].at # "show" \/ told[c] = Silence
    BY <1>1 DEF CloneInv, Told, Results
  <2>2. FetchShape'
    BY <1>1, <1>4, <2>1, CommandShapeNext DEF CommandStep
  <2>3. QED
    BY <1>1, <1>4, <2>2, CloneCommand
<1>5. CASE UNCHANGED fetchVars
  <2>1. FetchShape'
    BY <1>1, <1>5 DEF fetchVars, FetchShape
  <2>2. \A c \in Command : Told(c)' /\ CloneMade(c)'
    BY <1>1, <1>5, ToldFrame, MadeFrame DEF fetchVars, CloneInv
  <2>3. QED
    BY <1>1, <1>5, <2>1, <2>2 DEF fetchVars, CloneInv, Settled
<1>6. QED
  BY <1>1, <1>2, <1>3, <1>4, <1>5 DEF FetchNext, CommandStep

LEMMA FaithfulOfInv ==
  ASSUME FetchShape, CloneInv
  PROVE  CloneFaithful
<1>1. Cardinality({c \in Command : command[c].result = "cloned"}) <= 1
  <2> DEFINE S == {c \in Command : command[c].result = "cloned"}
  <2>1. CASE S = {}
    BY <2>1, FS_EmptySet
  <2>2. CASE S # {}
    <3>1. PICK c \in S : TRUE
      BY <2>2
    <3>2. S = {c}
      BY <3>1 DEF CloneInv, Settled
    <3>3. Cardinality({c}) = 1
      BY FS_Singleton
    <3>4. QED
      BY <3>2, <3>3
  <2>3. QED
    BY <2>1, <2>2
<1>2. ASSUME NEW c \in Command, command[c].result = "cloned", entered = {c}
      PROVE  /\ \E m \in moments[c] :
                  dir.remotes = [r \in Branch |-> IF command[c].listed[r] = Unborn THEN Unborn ELSE m[r]]
             /\ dir.checkedOut = dir.remotes[HeadBranch]
  <2>1. Told(c) /\ CloneMade(c)
    BY DEF CloneInv
  <2>2. AtOneMoment(c, command[c].bundle)
    BY <1>2, <2>1 DEF Told
  <2>3. dir.remotes = command[c].bundle /\ dir.checkedOut = dir.remotes[HeadBranch]
    BY <1>2, <2>1 DEF CloneMade
  <2>4. QED
    BY <2>2, <2>3 DEF AtOneMoment
<1>3. QED
  BY <1>1, <1>2 DEF CloneFaithful

LEMMA FetchAlways == FetchSpec => []FetchInv
BY FetchInvInit, FetchInvNext, PTL DEF FetchSpec

\* Every command, and the git helper, is at a step of its code, with branches that a
\* server may have told it, and the directory holds tips of such branches.
THEOREM FetchTypeCorrect == FetchSpec => []FetchTypeOK
<1>1. FetchInv => FetchTypeOK
  BY ShapeIsTypes DEF FetchInv
<1>2. QED
  BY <1>1, FetchAlways, PTL

\* For any number of clones, listings and fetches, branches and moves of them by others,
\* and replies lost: of the clones into one directory at most one reports success, and
\* one that was alone holds the listed branches as they all were at one moment, with
\* HEAD's checked out (cmd_clone(), handle_list() and handle_fetch()).
THEOREM ClonesAreFaithful == FetchSpec => []CloneFaithful
<1>1. FetchInv => CloneFaithful
  BY FaithfulOfInv DEF FetchInv
<1>2. QED
  BY <1>1, FetchAlways, PTL

--------------------------------------------------------------------------------
(* rnperf. ResultHonest alone is not inductive: a session counts the       *)
(* packets it takes, so that those on their way must be counted too, and   *)
(* none may come behind the request for the result, nor, on a link nothing *)
(* is lost on, before the configuration that starts the count.             *)

\* The types of the state, in full.
SentKinds == {"version", "config", "data", "request"}
SentMessage == [kind : SentKinds, n : Nat]
HeardMessage == [kind : {"activated", "closed", "version", "error", "result"}, n : Nat]
LinkEvent == [link : Initiator \cup Others, msg : [kind : SentKinds \cup {"activated", "closed"}, n : Nat]]
TesterRecord == [outdated : BOOLEAN,
                 at : {"start", "subscribe", "activation", "version", "data", "result", "over"},
                 sent : Nat, asks : Nat,
                 result : {"none", "timed out", "closed", "error", "result", "no result", "send failed"},
                 packets : Nat]
SessionRecord == [at : {"none", "hello", "test", "over"}, version : BOOLEAN, config : BOOLEAN,
                  count : Nat, answered : BOOLEAN]

PerfShape ==
  /\ tester \in [Initiator -> TesterRecord]
  /\ \A i \in Initiator : tester[i].sent <= MaxPackets /\ tester[i].asks <= MaxAsks
  /\ link \in [Initiator -> {"none", "requested", "up", "closed"}]
  /\ outgoing \in [Initiator -> Seq(SentMessage)]
  /\ incoming \in [Initiator -> Seq(HeardMessage)]
  /\ queue \in [Initiator \cup {Main} -> Seq(LinkEvent)]
  /\ \A r \in Initiator \cup {Main} : Len(queue[r]) <= Capacity
  /\ session \in [Initiator -> SessionRecord]
  /\ losses \in 0 .. MaxLosses /\ foreign \in 0 .. MaxForeign
  /\ hurt \subseteq Initiator \cup Others

\* Members of a sequence that are in a set.
Hits(s, S) == {k \in DOMAIN s : s[k] \in S}
Number(s, S) == Cardinality(Hits(s, S))
DataSent == {m \in SentMessage : m.kind = "data"}
DataOf(i) == {e \in LinkEvent : e.link = i /\ e.msg.kind = "data"}

Is(q, k, i, kind) == q[k].link = i /\ q[k].msg.kind = kind

\* No data comes after a request.
Ordered(q, out, i) ==
  /\ \A k, l \in DOMAIN q : k < l /\ Is(q, k, i, "request") => ~Is(q, l, i, "data")
  /\ (\E k \in DOMAIN q : Is(q, k, i, "request")) => \A l \in DOMAIN out : out[l].kind # "data"
  /\ \A k, l \in DOMAIN out : k < l /\ out[k].kind = "request" => out[l].kind # "data"

\* All data comes after a configuration.
Preceded(q, out, i) ==
  /\ \A l \in DOMAIN q : Is(q, l, i, "data") => \E k \in DOMAIN q : k < l /\ Is(q, k, i, "config")
  /\ \A l \in DOMAIN out : out[l].kind = "data" =>
       \/ \E k \in DOMAIN q : Is(q, k, i, "config")
       \/ \E k \in DOMAIN out : k < l /\ out[k].kind = "config"

Has(q, out, i, kind) == (\E k \in DOMAIN q : Is(q, k, i, kind)) \/ \E k \in DOMAIN out : out[k].kind = kind

Fly(q, out, i) == Number(q, DataOf(i)) + Number(out, DataSent)
InFlight(i) == Fly(queue[i], outgoing[i], i)
\* An initiator that has asked for its result.
HasAsked(i) == tester[i].at \in {"result", "over"}

\* What a step may do to the way of i's messages when it loses something of it, and
\* when it does not.
Weaker(q2, out2, q, out, i) ==
  /\ Ordered(q, out, i) => Ordered(q2, out2, i)
  /\ \A kind \in SentKinds : Has(q2, out2, i, kind) => Has(q, out, i, kind)
  /\ Fly(q2, out2, i) <= Fly(q, out, i)
Same(q2, out2, q, out, i) ==
  /\ Fly(q2, out2, i) = Fly(q, out, i)
  /\ Preceded(q, out, i) => Preceded(q2, out2, i)
  /\ Has(q, out, i, "config") => Has(q2, out2, i, "config")

\* Every packet that is counted was sent, and none that was not lost is missed.
Counted(i) ==
  /\ session[i].count + InFlight(i) <= tester[i].sent
  /\ i \notin hurt /\ session[i].at \in {"hello", "test"} => session[i].count + InFlight(i) = tester[i].sent

\* What is answered is what was sent, or less where something was lost.
Answers(i) ==
  /\ \A k \in DOMAIN incoming[i] : incoming[i][k].kind = "result" =>
       /\ incoming[i][k].n <= tester[i].sent
       /\ i \notin hurt => incoming[i][k].n = tester[i].sent /\ HasAsked(i)
  /\ tester[i].result = "result" =>
       /\ tester[i].packets <= tester[i].sent
       /\ i \notin hurt => tester[i].packets = tester[i].sent
  /\ tester[i].result # "none" => tester[i].at = "over"

\* The handshake: the session is there before data is, and knows the version before
\* the configuration comes.
Greeted(i) == \E k \in DOMAIN incoming[i] : incoming[i][k].kind = "version"
Shaken(i) ==
  /\ session[i].at = "none" =>
       /\ session[i].count = 0 /\ queue[i] = <<>> /\ ~Greeted(i)
       /\ tester[i].sent = 0 /\ tester[i].at \notin {"data", "result"}
       /\ \A k \in DOMAIN outgoing[i] : outgoing[i][k].kind = "version"
  /\ Greeted(i) \/ Has(queue[i], outgoing[i], i, "config") => session[i].version

\* The order of what is on its way.
InOrder(i) ==
  /\ Ordered(queue[i], outgoing[i], i)
  /\ Has(queue[i], outgoing[i], i, "request") => HasAsked(i)
  /\ i \notin hurt /\ session[i].at = "hello" =>
       /\ Preceded(queue[i], outgoing[i], i)
       /\ tester[i].at = "data" => Has(queue[i], outgoing[i], i, "config")

\* A link is announced to the main loop once.
Announced(q, i) == \E k \in DOMAIN q : Is(q, k, i, "activated")
Singly(q, i) == \A k, l \in DOMAIN q : Is(q, k, i, "activated") /\ Is(q, l, i, "activated") => k = l
Once(i) ==
  /\ tester[i].at = "start" => link[i] = "none"
  /\ link[i] \in {"none", "requested"} \/ session[i].at # "none" => ~Announced(queue[Main], i)
  /\ link[i] \in {"none", "requested"} => session[i].at = "none"
  /\ Singly(queue[Main], i)

\* The inductive invariant of rnperf.
Fair(i) == Counted(i) /\ Answers(i) /\ Shaken(i) /\ InOrder(i) /\ Once(i)
PerfInv ==
  /\ PerfShape
  /\ \A i \in Initiator : Fair(i)

--------------------------------------------------------------------------------
(* The members of a sequence.                                              *)

LEMMA AppendOne ==
  ASSUME NEW X, NEW s \in Seq(X), NEW x \in X
  PROVE  /\ Append(s, x) \in Seq(X)
         /\ Len(Append(s, x)) = Len(s) + 1
         /\ DOMAIN Append(s, x) = 1 .. Len(s) + 1
         /\ DOMAIN s = 1 .. Len(s) /\ Len(s) \in Nat
         /\ \A k \in 1 .. Len(s) : Append(s, x)[k] = s[k]
         /\ Append(s, x)[Len(s) + 1] = x
  OBVIOUS

LEMMA TailOne ==
  ASSUME NEW X, NEW s \in Seq(X), s # <<>>
  PROVE  /\ Tail(s) \in Seq(X)
         /\ Len(s) \in Nat \ {0} /\ Len(Tail(s)) = Len(s) - 1
         /\ DOMAIN Tail(s) = 1 .. Len(s) - 1
         /\ DOMAIN s = 1 .. Len(s)
         /\ \A k \in 1 .. Len(s) - 1 : Tail(s)[k] = s[k + 1]
         /\ Head(s) = s[1] /\ s[1] \in X /\ 1 \in DOMAIN s
<1>1. Len(s) \in Nat /\ Len(s) # 0
  BY EmptySeq
<1> QED BY <1>1

LEMMA NumberFinite ==
  ASSUME NEW X, NEW s \in Seq(X), NEW S
  PROVE  /\ IsFiniteSet(Hits(s, S)) /\ Number(s, S) \in Nat
         /\ Hits(s, S) \subseteq 1 .. Len(s)
<1>1. Hits(s, S) \subseteq 1 .. Len(s)
  BY DEF Hits
<1>2. Len(s) \in Nat
  OBVIOUS
<1>3. IsFiniteSet(1 .. Len(s))
  BY <1>2, FS_Interval
<1>4. IsFiniteSet(Hits(s, S))
  BY <1>1, <1>3, FS_Subset
<1> QED BY <1>1, <1>4, FS_CardinalityType DEF Number

LEMMA NumberNone ==
  ASSUME NEW s, NEW S, \A k \in DOMAIN s : s[k] \notin S
  PROVE  Number(s, S) = 0
<1>1. Hits(s, S) = {}
  BY DEF Hits
<1> QED BY <1>1, FS_EmptySet DEF Number

LEMMA NumberAppend ==
  ASSUME NEW X, NEW s \in Seq(X), NEW x \in X, NEW S
  PROVE  Number(Append(s, x), S) = Number(s, S) + IF x \in S THEN 1 ELSE 0
<1> DEFINE n == Len(s) + 1
<1>1. IsFiniteSet(Hits(s, S)) /\ Number(s, S) \in Nat /\ n \notin Hits(s, S)
  <2>1. Hits(s, S) \subseteq 1 .. Len(s) /\ Len(s) \in Nat
    BY NumberFinite, AppendOne
  <2>2. n \notin 1 .. Len(s)
    BY <2>1
  <2> QED BY <2>1, <2>2, NumberFinite
<1>2. CASE x \in S
  <2>1. Hits(Append(s, x), S) = Hits(s, S) \cup {n}
    BY <1>2, AppendOne DEF Hits
  <2> QED BY <1>1, <1>2, <2>1, FS_AddElement DEF Number
<1>3. CASE x \notin S
  <2>1. Hits(Append(s, x), S) = Hits(s, S)
    BY <1>3, AppendOne DEF Hits
  <2> QED BY <1>1, <1>3, <2>1 DEF Number
<1> QED BY <1>2, <1>3

LEMMA NumberTail ==
  ASSUME NEW X, NEW s \in Seq(X), s # <<>>, NEW S
  PROVE  Number(s, S) = Number(Tail(s), S) + IF s[1] \in S THEN 1 ELSE 0
<1> DEFINE T == Hits(Tail(s), S)
           R == Hits(s, S) \ {1}
           f == [k \in T |-> k + 1]
<1>1. Tail(s) \in Seq(X) /\ 1 \in DOMAIN s
  BY TailOne
<1>2. IsFiniteSet(T) /\ Number(Tail(s), S) \in Nat /\ T \subseteq 1 .. Len(Tail(s))
  BY <1>1, NumberFinite
<1>3. IsFiniteSet(Hits(s, S)) /\ Number(s, S) \in Nat
  BY NumberFinite
<1>4. T \subseteq Int
  BY <1>2
<1>5. f \in [T -> R]
  <2>1. ASSUME NEW k \in T PROVE k + 1 \in R
    BY <2>1, <1>4, TailOne DEF Hits
  <2> QED BY <2>1
<1>6. \A a, b \in T : f[a] = f[b] => a = b
  BY <1>4
<1>7. \A t \in R : \E a \in T : f[a] = t
  <2>1. ASSUME NEW t \in R PROVE t - 1 \in T /\ (t - 1) + 1 = t
    <3>1. t \in 2 .. Len(s) /\ s[t] \in S /\ Len(s) \in Nat
      BY <2>1, TailOne DEF Hits
    <3>2. t - 1 \in 1 .. Len(s) - 1 /\ (t - 1) + 1 = t
      BY <3>1
    <3>3. Tail(s)[t - 1] = s[(t - 1) + 1]
      BY <3>2, TailOne
    <3> QED BY <3>1, <3>2, <3>3, TailOne DEF Hits
  <2> QED BY <2>1
<1>8. ExistsBijection(T, R)
  <2>1. f \in Injection(T, R) /\ f \in Surjection(T, R)
    BY <1>5, <1>6, <1>7 DEF IsInjective, Injection, Surjection
  <2> QED BY <2>1 DEF ExistsBijection, Bijection
<1>9. IsFiniteSet(R) /\ Cardinality(R) = Cardinality(T)
  BY <1>2, <1>8, FS_Bijection
<1>10. Cardinality(R) = IF 1 \in Hits(s, S) THEN Cardinality(Hits(s, S)) - 1 ELSE Cardinality(Hits(s, S))
  BY <1>3, FS_RemoveElement
<1>11. 1 \in Hits(s, S) <=> s[1] \in S
  BY <1>1 DEF Hits
<1> QED BY <1>2, <1>3, <1>9, <1>10, <1>11 DEF Number

--------------------------------------------------------------------------------
(* What a step does to the way of an initiator's messages.                 *)

\* An event that says nothing about i's way: of another link, or not a message.
Neutral(e, i) == e.link # i \/ e.msg.kind \notin SentKinds

\* The way's oldest event is taken, or lost.
LEMMA OldestGoes ==
  ASSUME NEW i, NEW q \in Seq(LinkEvent), q # <<>>, NEW out \in Seq(SentMessage)
  PROVE  /\ Weaker(Tail(q), out, q, out, i)
         /\ Fly(q, out, i) = Fly(Tail(q), out, i) + IF Is(q, 1, i, "data") THEN 1 ELSE 0
         /\ q[1].link # i \/ q[1].msg.kind \notin {"data", "config"} => Same(Tail(q), out, q, out, i)
<1>0. Tail(q) \in Seq(LinkEvent) /\ q[1] \in LinkEvent
  BY TailOne
<1>1. Fly(q, out, i) = Fly(Tail(q), out, i) + IF Is(q, 1, i, "data") THEN 1 ELSE 0
  <2>1. Number(q, DataOf(i)) = Number(Tail(q), DataOf(i)) + IF q[1] \in DataOf(i) THEN 1 ELSE 0
    BY NumberTail
  <2>2. q[1] \in DataOf(i) <=> Is(q, 1, i, "data")
    BY <1>0 DEF DataOf, Is
  <2>3. Number(Tail(q), DataOf(i)) \in Nat /\ Number(out, DataSent) \in Nat
    BY <1>0, NumberFinite
  <2> QED BY <2>1, <2>2, <2>3 DEF Fly
<1>2. Fly(Tail(q), out, i) \in Nat
  <2>1. Number(Tail(q), DataOf(i)) \in Nat /\ Number(out, DataSent) \in Nat
    BY <1>0, NumberFinite
  <2> QED BY <2>1 DEF Fly
<1>3. ASSUME NEW k \in DOMAIN Tail(q)
      PROVE  k + 1 \in DOMAIN q /\ (\A kind : Is(Tail(q), k, i, kind) <=> Is(q, k + 1, i, kind))
  BY <1>3, TailOne DEF Is
<1>4. ASSUME NEW k \in DOMAIN q, k # 1 
      PROVE  k - 1 \in DOMAIN Tail(q) /\ (\A kind : Is(Tail(q), k - 1, i, kind) <=> Is(q, k, i, kind))
  <2>1. k - 1 \in DOMAIN Tail(q) /\ (k - 1) + 1 = k
    BY <1>4, TailOne
  <2> QED BY <2>1, <1>3
<1>5. Ordered(q, out, i) => Ordered(Tail(q), out, i)
  <2>0. SUFFICES ASSUME Ordered(q, out, i) PROVE Ordered(Tail(q), out, i)
    OBVIOUS
  <2>1. ASSUME NEW k \in DOMAIN Tail(q), NEW l \in DOMAIN Tail(q), k < l, Is(Tail(q), k, i, "request")
        PROVE  ~Is(Tail(q), l, i, "data")
    <3>1. k + 1 \in DOMAIN q /\ l + 1 \in DOMAIN q /\ k + 1 < l + 1
      BY <1>3, <2>1, TailOne
    <3>2. Is(q, k + 1, i, "request")
      BY <1>3, <2>1
    <3>3. ~Is(q, l + 1, i, "data")
      BY <2>0, <3>1, <3>2 DEF Ordered
    <3> QED BY <1>3, <3>3
  <2>2. (\E k \in DOMAIN Tail(q) : Is(Tail(q), k, i, "request")) => \A l \in DOMAIN out : out[l].kind # "data"
    BY <1>3, <2>0 DEF Ordered
  <2> QED BY <2>0, <2>1, <2>2 DEF Ordered
<1>6. \A kind \in SentKinds : Has(Tail(q), out, i, kind) => Has(q, out, i, kind)
  BY <1>3 DEF Has
<1>7. ASSUME q[1].link # i \/ q[1].msg.kind \notin {"data", "config"}
      PROVE  Same(Tail(q), out, q, out, i)
  <2>1. ~Is(q, 1, i, "data") /\ ~Is(q, 1, i, "config")
    BY <1>7 DEF Is
  <2>2. Fly(Tail(q), out, i) = Fly(q, out, i)
    BY <1>1, <1>2, <2>1
  <2>3. ASSUME NEW k \in DOMAIN q, Is(q, k, i, "config")
        PROVE  k - 1 \in DOMAIN Tail(q) /\ Is(Tail(q), k - 1, i, "config")
    BY <1>4, <2>1, <2>3
  <2>4. Preceded(q, out, i) => Preceded(Tail(q), out, i)
    <3>0. SUFFICES ASSUME Preceded(q, out, i) PROVE Preceded(Tail(q), out, i)
      OBVIOUS
    <3>1. ASSUME NEW l \in DOMAIN Tail(q), Is(Tail(q), l, i, "data")
          PROVE  \E k \in DOMAIN Tail(q) : k < l /\ Is(Tail(q), k, i, "config")
      <4>1. l + 1 \in DOMAIN q /\ Is(q, l + 1, i, "data")
        BY <1>3, <3>1
      <4>2. PICK k \in DOMAIN q : k < l + 1 /\ Is(q, k, i, "config")
        BY <3>0, <4>1 DEF Preceded
      <4>3. k - 1 \in DOMAIN Tail(q) /\ Is(Tail(q), k - 1, i, "config")
        BY <2>3, <4>2
      <4>4. k - 1 < l
        BY <4>2, TailOne
      <4> QED BY <4>3, <4>4
    <3>2. ASSUME NEW l \in DOMAIN out, out[l].kind = "data"
          PROVE  \/ \E k \in DOMAIN Tail(q) : Is(Tail(q), k, i, "config")
                 \/ \E k \in DOMAIN out : k < l /\ out[k].kind = "config"
      BY <2>3, <3>0, <3>2 DEF Preceded
    <3> QED BY <3>1, <3>2 DEF Preceded
  <2>5. Has(q, out, i, "config") => Has(Tail(q), out, i, "config")
    BY <2>3 DEF Has
  <2> QED BY <2>2, <2>4, <2>5 DEF Same
<1>8. Fly(Tail(q), out, i) <= Fly(q, out, i)
  BY <1>1, <1>2
<1> QED BY <1>1, <1>5, <1>6, <1>7, <1>8 DEF Weaker

\* An event of another link, or one that is no message, is posted.
LEMMA NeutralComes ==
  ASSUME NEW i, NEW q \in Seq(LinkEvent), NEW out \in Seq(SentMessage), NEW e \in LinkEvent, Neutral(e, i)
  PROVE  /\ Weaker(Append(q, e), out, q, out, i)
         /\ Same(Append(q, e), out, q, out, i)
<1> DEFINE p == Append(q, e)
<1>1. ASSUME NEW k \in DOMAIN p, NEW kind \in SentKinds, Is(p, k, i, kind)
      PROVE  k \in DOMAIN q /\ Is(q, k, i, kind)
  BY <1>1, AppendOne DEF Is, Neutral
<1>2. ASSUME NEW k \in DOMAIN q, NEW kind, Is(q, k, i, kind)
      PROVE  k \in DOMAIN p /\ Is(p, k, i, kind)
  BY <1>2, AppendOne DEF Is
<1>k. "data" \in SentKinds /\ "config" \in SentKinds /\ "request" \in SentKinds
  BY DEF SentKinds
<1>3. Fly(p, out, i) = Fly(q, out, i) /\ Fly(q, out, i) \in Nat
  <2>1. e \notin DataOf(i)
    BY DEF Neutral, DataOf, SentKinds
  <2>2. Number(p, DataOf(i)) = Number(q, DataOf(i)) + 0
    BY <2>1, NumberAppend
  <2>3. Number(q, DataOf(i)) \in Nat /\ Number(out, DataSent) \in Nat
    BY NumberFinite
  <2> QED BY <2>2, <2>3 DEF Fly
<1>4. Ordered(q, out, i) => Ordered(p, out, i)
  BY <1>1, <1>k DEF Ordered
<1>5. \A kind \in SentKinds : Has(p, out, i, kind) => Has(q, out, i, kind)
  BY <1>1 DEF Has
<1>6. Has(q, out, i, "config") => Has(p, out, i, "config")
  BY <1>2 DEF Has
<1>7. Preceded(q, out, i) => Preceded(p, out, i)
  BY <1>1, <1>2, <1>k DEF Preceded
<1> HIDE DEF p
<1>8. Weaker(p, out, q, out, i) /\ Same(p, out, q, out, i)
  BY <1>3, <1>4, <1>5, <1>6, <1>7 DEF Weaker, Same
<1> QED BY <1>8 DEF p

\* The oldest message on the way to the listener is delivered to i's session.
LEMMA OldestMoves ==
  ASSUME NEW i \in Initiator, NEW q \in Seq(LinkEvent), NEW out \in Seq(SentMessage), out # <<>>,
         NEW e, e = [link |-> i, msg |-> Head(out)]
  PROVE  /\ e \in LinkEvent
         /\ Weaker(Append(q, e), Tail(out), q, out, i)
         /\ Same(Append(q, e), Tail(out), q, out, i)
<1> DEFINE p == Append(q, e)
           o == Tail(out)
<1>0. e \in LinkEvent /\ e.link = i /\ e.msg = out[1] /\ out[1] \in SentMessage
  <2>1. Head(out) = out[1] /\ out[1] \in SentMessage
    BY TailOne
  <2>2. out[1] \in [kind : SentKinds \cup {"activated", "closed"}, n : Nat]
    BY <2>1 DEF SentMessage
  <2> QED BY <2>1, <2>2 DEF LinkEvent
<1>1. ASSUME NEW k \in DOMAIN p, NEW kind, Is(p, k, i, kind)
      PROVE  \/ k \in DOMAIN q /\ Is(q, k, i, kind)
             \/ k = Len(q) + 1 /\ out[1].kind = kind
  BY <1>0, <1>1, AppendOne DEF Is
<1>2. ASSUME NEW k \in DOMAIN q, NEW kind, Is(q, k, i, kind)
      PROVE  k \in DOMAIN p /\ Is(p, k, i, kind)
  BY <1>0, <1>2, AppendOne DEF Is
<1>3. ASSUME NEW kind, out[1].kind = kind
      PROVE  Len(q) + 1 \in DOMAIN p /\ Is(p, Len(q) + 1, i, kind)
  BY <1>0, <1>3, AppendOne DEF Is
<1>4. ASSUME NEW k \in DOMAIN o PROVE k + 1 \in DOMAIN out /\ 1 < k + 1 /\ o[k] = out[k + 1]
  BY TailOne
<1>5. ASSUME NEW k \in DOMAIN out, k # 1 PROVE k - 1 \in DOMAIN o /\ o[k - 1] = out[k]
  <2>1. k - 1 \in DOMAIN o /\ (k - 1) + 1 = k
    BY <1>5, TailOne
  <2> QED BY <2>1, <1>4
<1>i. DOMAIN q = 1 .. Len(q) /\ Len(q) \in Nat /\ 1 \in DOMAIN out
      /\ DOMAIN out \subseteq Int /\ DOMAIN o \subseteq Int
  BY <1>0, AppendOne, TailOne
<1>n. o \in Seq(SentMessage) /\ p \in Seq(LinkEvent)
  BY <1>0, TailOne, AppendOne
<1>6. Fly(p, o, i) = Fly(q, out, i) /\ Fly(q, out, i) \in Nat
  <2>1. e \in DataOf(i) <=> out[1] \in DataSent
    BY <1>0 DEF DataOf, DataSent
  <2>2. Number(p, DataOf(i)) = Number(q, DataOf(i)) + IF e \in DataOf(i) THEN 1 ELSE 0
    BY <1>0, NumberAppend
  <2>3. Number(out, DataSent) = Number(o, DataSent) + IF out[1] \in DataSent THEN 1 ELSE 0
    BY NumberTail
  <2>4. Number(q, DataOf(i)) \in Nat /\ Number(o, DataSent) \in Nat
    BY <1>n, NumberFinite
  <2> QED BY <2>1, <2>2, <2>3, <2>4 DEF Fly
<1>7. Ordered(q, out, i) => Ordered(p, o, i)
  <2>0. SUFFICES ASSUME Ordered(q, out, i) PROVE Ordered(p, o, i)
    OBVIOUS
  <2>1. ASSUME NEW k \in DOMAIN p, NEW l \in DOMAIN p, k < l, Is(p, k, i, "request")
        PROVE  ~Is(p, l, i, "data")
    <3>1. k \in 1 .. Len(q) + 1 /\ l \in 1 .. Len(q) + 1
      BY <1>0, AppendOne
    <3>2. k \in DOMAIN q /\ Is(q, k, i, "request")
      BY <1>1, <1>i, <2>1, <3>1
    <3>3. (l \in DOMAIN q => ~Is(q, l, i, "data")) /\ out[1].kind # "data"
      BY <1>i, <2>0, <2>1, <3>2 DEF Ordered
    <3> QED BY <1>1, <3>3
  <2>2. ASSUME NEW k \in DOMAIN p, Is(p, k, i, "request"), NEW l \in DOMAIN o
        PROVE  o[l].kind # "data"
    <3>1. l + 1 \in DOMAIN out /\ 1 < l + 1 /\ o[l] = out[l + 1]
      BY <1>4
    <3> QED BY <1>1, <1>i, <2>0, <2>2, <3>1 DEF Ordered
  <2>3. ASSUME NEW k \in DOMAIN o, NEW l \in DOMAIN o, k < l, o[k].kind = "request"
        PROVE  o[l].kind # "data"
    <3>1. k + 1 \in DOMAIN out /\ l + 1 \in DOMAIN out /\ k + 1 < l + 1
      BY <1>4, <1>i, <2>3
    <3> QED BY <1>4, <2>0, <2>3, <3>1 DEF Ordered
  <2> QED BY <2>1, <2>2, <2>3 DEF Ordered
<1>8. \A kind \in SentKinds : Has(p, o, i, kind) => Has(q, out, i, kind)
  BY <1>1, <1>4, <1>i DEF Has
<1>c. ASSUME NEW k \in DOMAIN out, out[k].kind = "config"
      PROVE  \/ k = 1 /\ Len(q) + 1 \in DOMAIN p /\ Is(p, Len(q) + 1, i, "config")
             \/ k - 1 \in DOMAIN o /\ o[k - 1].kind = "config"
  BY <1>3, <1>5, <1>c
<1>9. Has(q, out, i, "config") => Has(p, o, i, "config")
  BY <1>2, <1>c DEF Has
<1>10. Preceded(q, out, i) => Preceded(p, o, i)
  <2>0. SUFFICES ASSUME Preceded(q, out, i) PROVE Preceded(p, o, i)
    OBVIOUS
  <2>1. ASSUME NEW l \in DOMAIN p, Is(p, l, i, "data")
        PROVE  \E k \in DOMAIN p : k < l /\ Is(p, k, i, "config")
    <3>1. CASE l \in DOMAIN q /\ Is(q, l, i, "data")
      <4>1. PICK k \in DOMAIN q : k < l /\ Is(q, k, i, "config")
        BY <2>0, <3>1 DEF Preceded
      <4> QED BY <1>2, <4>1
    <3>2. CASE l = Len(q) + 1 /\ out[1].kind = "data"
      <4>1. ~ \E k \in DOMAIN out : k < 1 /\ out[k].kind = "config"
        BY TailOne
      <4>2. PICK k \in DOMAIN q : Is(q, k, i, "config")
        BY <1>i, <2>0, <3>2, <4>1 DEF Preceded
      <4>3. k < l
        BY <1>i, <3>2
      <4> QED BY <1>2, <4>2, <4>3
    <3> QED BY <1>1, <2>1, <3>1, <3>2
  <2>2. ASSUME NEW l \in DOMAIN o, o[l].kind = "data"
        PROVE  \/ \E k \in DOMAIN p : Is(p, k, i, "config")
               \/ \E k \in DOMAIN o : k < l /\ o[k].kind = "config"
    <3>1. l + 1 \in DOMAIN out /\ out[l + 1].kind = "data"
      BY <1>4, <2>2
    <3>2. CASE \E k \in DOMAIN q : Is(q, k, i, "config")
      BY <1>2, <3>2
    <3>3. ASSUME NEW k \in DOMAIN out, k < l + 1, out[k].kind = "config"
          PROVE  \/ \E m \in DOMAIN p : Is(p, m, i, "config")
                 \/ \E m \in DOMAIN o : m < l /\ o[m].kind = "config"
      <4>1. k - 1 < l
        BY <1>i, <3>3
      <4> QED BY <1>c, <3>3, <4>1
    <3> QED BY <2>0, <3>1, <3>2, <3>3 DEF Preceded
  <2> QED BY <2>1, <2>2 DEF Preceded
<1> HIDE DEF p, o
<1>11. Weaker(p, o, q, out, i) /\ Same(p, o, q, out, i)
  BY <1>6, <1>7, <1>8, <1>9, <1>10 DEF Weaker, Same
<1> QED BY <1>0, <1>11 DEF p, o

\* A message on the way to the listener is lost.
LEMMA MessageLost ==
  ASSUME NEW i, NEW q \in Seq(LinkEvent), NEW out \in Seq(SentMessage), out # <<>>
  PROVE  Weaker(q, Tail(out), q, out, i)
<1> DEFINE o == Tail(out)
<1>1. ASSUME NEW k \in DOMAIN o PROVE k + 1 \in DOMAIN out /\ o[k] = out[k + 1]
  BY TailOne
<1>2. o \in Seq(SentMessage) /\ DOMAIN o \subseteq Int
  BY TailOne
<1>3. Fly(q, o, i) <= Fly(q, out, i)
  <2>1. Number(out, DataSent) = Number(o, DataSent) + IF out[1] \in DataSent THEN 1 ELSE 0
    BY NumberTail
  <2>2. Number(q, DataOf(i)) \in Nat /\ Number(o, DataSent) \in Nat
    BY <1>2, NumberFinite
  <2> QED BY <2>1, <2>2 DEF Fly
<1>4. Ordered(q, out, i) => Ordered(q, o, i)
  <2>0. SUFFICES ASSUME Ordered(q, out, i) PROVE Ordered(q, o, i)
    OBVIOUS
  <2>1. ASSUME NEW k \in DOMAIN o, NEW l \in DOMAIN o, k < l, o[k].kind = "request"
        PROVE  o[l].kind # "data"
    <3>1. k + 1 \in DOMAIN out /\ l + 1 \in DOMAIN out /\ k + 1 < l + 1
      BY <1>1, <1>2, <2>1
    <3> QED BY <1>1, <2>0, <2>1, <3>1 DEF Ordered
  <2>2. (\E k \in DOMAIN q : Is(q, k, i, "request")) => \A l \in DOMAIN o : o[l].kind # "data"
    BY <1>1, <2>0 DEF Ordered
  <2> QED BY <2>0, <2>1, <2>2 DEF Ordered
<1>5. \A kind \in SentKinds : Has(q, o, i, kind) => Has(q, out, i, kind)
  BY <1>1 DEF Has
<1> HIDE DEF o
<1>6. Weaker(q, o, q, out, i)
  BY <1>3, <1>4, <1>5 DEF Weaker
<1> QED BY <1>6 DEF o

\* A message is sent: data not after a request.
LEMMA MessageSent ==
  ASSUME NEW i, NEW q \in Seq(LinkEvent), NEW out \in Seq(SentMessage), NEW m \in SentMessage,
         NEW o, o = out \o <<m>>
  PROVE  /\ o \in Seq(SentMessage)
         /\ Ordered(q, out, i) /\ (m.kind # "data" \/ ~Has(q, out, i, "request")) => Ordered(q, o, i)
         /\ \A kind \in SentKinds : Has(q, o, i, kind) <=> Has(q, out, i, kind) \/ m.kind = kind
         /\ Fly(q, o, i) = Fly(q, out, i) + IF m.kind = "data" THEN 1 ELSE 0
         /\ Preceded(q, out, i) /\ (m.kind # "data" \/ Has(q, out, i, "config")) => Preceded(q, o, i)
<1>0. o = Append(out, m)
  OBVIOUS
<1>1. /\ o \in Seq(SentMessage) /\ Len(out) \in Nat
      /\ DOMAIN o = 1 .. Len(out) + 1 /\ DOMAIN out = 1 .. Len(out)
      /\ \A k \in 1 .. Len(out) : o[k] = out[k]
      /\ o[Len(out) + 1] = m
  BY <1>0, AppendOne
<1>2. Ordered(q, out, i) /\ (m.kind # "data" \/ ~Has(q, out, i, "request")) => Ordered(q, o, i)
  BY <1>1 DEF Ordered, Has
<1>3. ASSUME NEW kind \in SentKinds
      PROVE  Has(q, o, i, kind) <=> Has(q, out, i, kind) \/ m.kind = kind
  <2>1. (\E k \in DOMAIN o : o[k].kind = kind) <=> (\E k \in DOMAIN out : out[k].kind = kind) \/ m.kind = kind
    <3>1. ASSUME NEW k \in DOMAIN o, o[k].kind = kind
          PROVE  (\E l \in DOMAIN out : out[l].kind = kind) \/ m.kind = kind
      <4>1. k \in 1 .. Len(out) \/ k = Len(out) + 1
        BY <1>1, <3>1
      <4> QED BY <1>1, <3>1, <4>1
    <3>2. ASSUME NEW k \in DOMAIN out, out[k].kind = kind PROVE \E l \in DOMAIN o : o[l].kind = kind
      BY <1>1, <3>2
    <3>3. Len(out) + 1 \in DOMAIN o
      BY <1>1
    <3> QED BY <1>1, <3>1, <3>2, <3>3
  <2> QED BY <2>1 DEF Has
<1>4. Fly(q, o, i) = Fly(q, out, i) + IF m.kind = "data" THEN 1 ELSE 0
  <2>1. Number(o, DataSent) = Number(out, DataSent) + IF m \in DataSent THEN 1 ELSE 0
    BY <1>0, NumberAppend
  <2>2. m \in DataSent <=> m.kind = "data"
    BY DEF DataSent
  <2>3. Number(q, DataOf(i)) \in Nat /\ Number(out, DataSent) \in Nat
    BY NumberFinite
  <2> QED BY <2>1, <2>2, <2>3 DEF Fly
<1>5. Preceded(q, out, i) /\ (m.kind # "data" \/ Has(q, out, i, "config")) => Preceded(q, o, i)
  <2>0. SUFFICES ASSUME Preceded(q, out, i), m.kind # "data" \/ Has(q, out, i, "config")
                 PROVE  Preceded(q, o, i)
    OBVIOUS
  <2>1. ASSUME NEW l \in DOMAIN o, o[l].kind = "data"
        PROVE  \/ \E k \in DOMAIN q : Is(q, k, i, "config")
               \/ \E k \in DOMAIN o : k < l /\ o[k].kind = "config"
    <3>1. l \in 1 .. Len(out) \/ l = Len(out) + 1
      BY <1>1
    <3>2. CASE l \in 1 .. Len(out)
      <4>1. \/ \E k \in DOMAIN q : Is(q, k, i, "config")
            \/ \E k \in DOMAIN out : k < l /\ out[k].kind = "config"
        BY <1>1, <2>0, <2>1, <3>2 DEF Preceded
      <4> QED BY <1>1, <4>1
    <3>3. CASE l = Len(out) + 1
      <4>1. Has(q, out, i, "config")
        BY <1>1, <2>0, <2>1, <3>3
      <4>2. ASSUME NEW k \in DOMAIN out, out[k].kind = "config"
            PROVE  k \in DOMAIN o /\ k < l /\ o[k].kind = "config"
        BY <1>1, <3>3, <4>2
      <4> QED BY <4>1, <4>2 DEF Has
    <3> QED BY <3>1, <3>2, <3>3
  <2> QED BY <2>0, <2>1 DEF Preceded
<1> QED BY <1>1, <1>2, <1>3, <1>4, <1>5

--------------------------------------------------------------------------------
(* Events that are posted.                                                 *)

LinkMessage == [kind : SentKinds \cup {"activated", "closed"}, n : Nat]

LEMMA PlainMessages ==
  /\ \A kind \in SentKinds : Plain(kind) \in SentMessage /\ Plain(kind) \in LinkMessage
  /\ Plain("activated") \in LinkMessage /\ Plain("closed") \in LinkMessage
  /\ \A kind \in {"activated", "closed", "version", "error"} : Plain(kind) \in HeardMessage
  /\ \A kind : Plain(kind).kind = kind
  /\ SentMessage \subseteq LinkMessage
BY DEF Plain, Message, SentMessage, LinkMessage, HeardMessage, SentKinds

\* A receiver's queue grows by the event, its oldest lost if it was full.
LEMMA PostOne ==
  ASSUME PerfShape, NEW j \in Initiator \cup Others, NEW m \in LinkMessage, Post(j, m),
         NEW e, e = [link |-> j, msg |-> m]
  PROVE  /\ e \in LinkEvent
         /\ queue' \in [Initiator \cup {Main} -> Seq(LinkEvent)]
         /\ \A r \in Initiator \cup {Main} : Len(queue'[r]) <= Capacity
         /\ hurt \subseteq hurt' /\ hurt' \subseteq Initiator \cup Others
         /\ \A r \in Initiator \cup {Main} :
              IF r \notin Receiving THEN queue'[r] = queue[r]
              ELSE \E b \in Seq(LinkEvent) :
                     /\ b = queue[r] \/ (queue[r] # <<>> /\ b = Tail(queue[r]) /\ queue[r][1].link \in hurt')
                     /\ queue'[r] = Append(b, e)
<1> USE PerfAssumption
<1>1. e \in LinkEvent
  BY DEF LinkEvent, LinkMessage
<1>2. /\ queue \in [Initiator \cup {Main} -> Seq(LinkEvent)]
      /\ \A r \in Initiator \cup {Main} : Len(queue[r]) <= Capacity
      /\ hurt \subseteq Initiator \cup Others
  BY DEF PerfShape
<1>3. DOMAIN queue = Initiator \cup {Main} /\ Receiving \subseteq Initiator \cup {Main}
  BY <1>2 DEF Receiving
<1>4. queue' = [r \in Initiator \cup {Main} |->
                  IF r \notin Receiving THEN queue[r]
                  ELSE Append(IF Full(r) THEN Tail(queue[r]) ELSE queue[r], e)]
  BY <1>3 DEF Post
<1>5. ASSUME NEW r \in Receiving, Full(r)
      PROVE  /\ queue[r] # <<>> /\ Len(queue[r]) = Capacity
             /\ queue[r][1].link \in hurt' /\ queue[r][1].link \in Initiator \cup Others
  <2>1. Len(queue[r]) = Capacity
    BY <1>5 DEF Full
  <2>2. queue[r] \in Seq(LinkEvent) /\ queue[r] # <<>>
    BY <1>2, <1>3, <2>1
  <2>3. Head(queue[r]) = queue[r][1] /\ queue[r][1] \in LinkEvent
    BY <2>2, TailOne
  <2>4. Head(queue[r]).link \in hurt'
    BY <1>5 DEF Post
  <2> QED BY <2>1, <2>2, <2>3, <2>4 DEF LinkEvent
<1>6. hurt \subseteq hurt' /\ hurt' \subseteq Initiator \cup Others
  <2>1. hurt' = hurt \cup {Head(queue[r]).link : r \in {s \in Receiving : Full(s)}}
    BY DEF Post
  <2>2. ASSUME NEW r \in Receiving, Full(r) PROVE Head(queue[r]).link \in Initiator \cup Others
    <3>1. queue[r] \in Seq(LinkEvent) /\ queue[r] # <<>>
      BY <1>2, <1>3, <1>5, <2>2
    <3>2. Head(queue[r]) = queue[r][1]
      BY <3>1, TailOne
    <3> QED BY <1>5, <2>2, <3>2
  <2> QED BY <1>2, <2>1, <2>2
<1>7. ASSUME NEW r \in Receiving
      PROVE  \E b \in Seq(LinkEvent) :
               /\ b = queue[r] \/ (queue[r] # <<>> /\ b = Tail(queue[r]) /\ queue[r][1].link \in hurt')
               /\ queue'[r] = Append(b, e) /\ Len(b) < Capacity
  <2>1. queue[r] \in Seq(LinkEvent) /\ Len(queue[r]) \in Nat /\ Len(queue[r]) <= Capacity
    BY <1>2, <1>3
  <2>2. CASE Full(r)
    <3>1. queue'[r] = Append(Tail(queue[r]), e)
      BY <1>3, <1>4, <1>7, <2>2
    <3>2. queue[r] # <<>> /\ queue[r][1].link \in hurt' /\ Len(queue[r]) = Capacity
      BY <1>5, <1>7, <2>2
    <3>3. Tail(queue[r]) \in Seq(LinkEvent) /\ Len(Tail(queue[r])) < Capacity
      BY <2>1, <3>2, TailOne
    <3> QED BY <3>1, <3>2, <3>3
  <2>3. CASE ~Full(r)
    <3>1. queue'[r] = Append(queue[r], e)
      BY <1>3, <1>4, <1>7, <2>3
    <3>2. Len(queue[r]) < Capacity
      BY <1>7, <2>1, <2>3 DEF Full
    <3> QED BY <2>1, <3>1, <3>2
  <2> QED BY <2>2, <2>3
<1>8. ASSUME NEW r \in Initiator \cup {Main}
      PROVE  queue'[r] \in Seq(LinkEvent) /\ Len(queue'[r]) <= Capacity
  <2>1. CASE r \notin Receiving
    BY <1>2, <1>4, <1>8, <2>1
  <2>2. CASE r \in Receiving
    <3>1. PICK b \in Seq(LinkEvent) : queue'[r] = Append(b, e) /\ Len(b) < Capacity
      BY <1>7, <2>2
    <3>2. Append(b, e) \in Seq(LinkEvent) /\ Len(Append(b, e)) = Len(b) + 1 /\ Len(b) \in Nat
      BY <1>1, AppendOne
    <3> QED BY <3>1, <3>2
  <2> QED BY <2>1, <2>2
<1>9. queue' \in [Initiator \cup {Main} -> Seq(LinkEvent)]
  BY <1>4, <1>8
<1> QED BY <1>1, <1>4, <1>6, <1>7, <1>8, <1>9

\* What it does to the way of an initiator that the event does not tell anything.
LEMMA PostNeutral ==
  ASSUME PerfShape, NEW j \in Initiator \cup Others, NEW m \in LinkMessage, Post(j, m),
         NEW i \in Initiator, j # i \/ m.kind \notin SentKinds
  PROVE  /\ Weaker(queue'[i], outgoing[i], queue[i], outgoing[i], i)
         /\ i \notin hurt' => Same(queue'[i], outgoing[i], queue[i], outgoing[i], i)
         /\ i \notin Receiving => queue'[i] = queue[i]
<1> DEFINE ev == [link |-> j, msg |-> m]
<1>0. PICK e : e = ev
  OBVIOUS
<1>1. e \in LinkEvent /\ Neutral(e, i)
  BY <1>0, PostOne DEF Neutral
<1>2. queue[i] \in Seq(LinkEvent) /\ outgoing[i] \in Seq(SentMessage)
  BY DEF PerfShape
<1>3. CASE i \notin Receiving
  <2>1. queue'[i] = queue[i]
    BY <1>3, PostOne
  <2>2. Fly(queue[i], outgoing[i], i) \in Nat
    <3>1. Number(queue[i], DataOf(i)) \in Nat /\ Number(outgoing[i], DataSent) \in Nat
      BY <1>2, NumberFinite
    <3> QED BY <3>1 DEF Fly
  <2> QED BY <1>3, <2>1, <2>2 DEF Weaker, Same
<1>4. CASE i \in Receiving
  <2>1. PICK b \in Seq(LinkEvent) :
          /\ b = queue[i] \/ (queue[i] # <<>> /\ b = Tail(queue[i]) /\ queue[i][1].link \in hurt')
          /\ queue'[i] = Append(b, e)
    BY <1>0, <1>4, PostOne
  <2>2. Weaker(queue'[i], outgoing[i], b, outgoing[i], i) /\ Same(queue'[i], outgoing[i], b, outgoing[i], i)
    BY <1>1, <1>2, <2>1, NeutralComes
  <2>3. CASE b = queue[i]
    BY <1>4, <2>2, <2>3
  <2>4. CASE queue[i] # <<>> /\ b = Tail(queue[i]) /\ queue[i][1].link \in hurt'
    <3>1. /\ Weaker(b, outgoing[i], queue[i], outgoing[i], i)
          /\ queue[i][1].link # i => Same(b, outgoing[i], queue[i], outgoing[i], i)
      BY <1>2, <2>4, OldestGoes
    <3>2. Weaker(queue'[i], outgoing[i], queue[i], outgoing[i], i)
      <4>1. /\ Fly(queue[i], outgoing[i], i) \in Nat /\ Fly(b, outgoing[i], i) \in Nat
            /\ Fly(queue'[i], outgoing[i], i) = Fly(b, outgoing[i], i)
        <5>1. /\ Number(queue[i], DataOf(i)) \in Nat /\ Number(b, DataOf(i)) \in Nat
              /\ Number(outgoing[i], DataSent) \in Nat
          BY <1>2, NumberFinite
        <5> QED BY <2>2, <5>1 DEF Fly, Same
      <4> QED BY <2>2, <3>1, <4>1 DEF Weaker
    <3>3. i \notin hurt' => Same(queue'[i], outgoing[i], queue[i], outgoing[i], i)
      BY <2>2, <2>4, <3>1 DEF Same
    <3> QED BY <1>4, <3>2, <3>3
  <2> QED BY <2>1, <2>3, <2>4
<1> QED BY <1>3, <1>4

\* The main loop sees it.
LEMMA PostMain ==
  ASSUME PerfShape, NEW j \in Initiator \cup Others, NEW m \in LinkMessage, Post(j, m), NEW i \in Initiator
  PROVE  /\ Announced(queue'[Main], i) => Announced(queue[Main], i) \/ (j = i /\ m.kind = "activated")
         /\ Singly(queue[Main], i) /\ ~(Announced(queue[Main], i) /\ j = i /\ m.kind = "activated")
              => Singly(queue'[Main], i)
<1> DEFINE ev == [link |-> j, msg |-> m]
<1>0. PICK e : e = ev
  OBVIOUS
<1>1. e \in LinkEvent /\ e.link = j /\ e.msg = m
  BY <1>0, PostOne
<1>2. Main \in Receiving /\ queue[Main] \in Seq(LinkEvent)
  BY DEF PerfShape, Receiving
<1>3. PICK b \in Seq(LinkEvent) :
        /\ b = queue[Main] \/ (queue[Main] # <<>> /\ b = Tail(queue[Main]))
        /\ queue'[Main] = Append(b, e)
  BY <1>0, <1>2, PostOne
<1>4. ASSUME NEW k \in DOMAIN queue'[Main], Is(queue'[Main], k, i, "activated")
      PROVE  \/ k \in DOMAIN b /\ Is(b, k, i, "activated")
             \/ k = Len(b) + 1 /\ j = i /\ m.kind = "activated"
  BY <1>1, <1>3, <1>4, AppendOne DEF Is
<1>5. Announced(b, i) => Announced(queue[Main], i)
  <2>1. CASE queue[Main] # <<>> /\ b = Tail(queue[Main])
    <3>1. ASSUME NEW k \in DOMAIN b, Is(b, k, i, "activated")
          PROVE  k + 1 \in DOMAIN queue[Main] /\ Is(queue[Main], k + 1, i, "activated")
      BY <1>2, <2>1, <3>1, TailOne DEF Is
    <3> QED BY <3>1 DEF Announced
  <2> QED BY <1>3, <2>1
<1>6. Singly(queue[Main], i) => Singly(b, i)
  <2>1. CASE queue[Main] # <<>> /\ b = Tail(queue[Main])
    <3>1. ASSUME NEW k \in DOMAIN b, Is(b, k, i, "activated")
          PROVE  k + 1 \in DOMAIN queue[Main] /\ Is(queue[Main], k + 1, i, "activated") /\ k \in Int
      BY <1>2, <2>1, <3>1, TailOne DEF Is
    <3> QED BY <3>1 DEF Singly
  <2> QED BY <1>3, <2>1
<1>7. Announced(queue'[Main], i) => Announced(queue[Main], i) \/ (j = i /\ m.kind = "activated")
  BY <1>4, <1>5 DEF Announced
<1>8. ASSUME Singly(queue[Main], i), ~(Announced(queue[Main], i) /\ j = i /\ m.kind = "activated")
      PROVE  Singly(queue'[Main], i)
  <2>1. ASSUME NEW k \in DOMAIN queue'[Main], NEW l \in DOMAIN queue'[Main],
               Is(queue'[Main], k, i, "activated"), Is(queue'[Main], l, i, "activated")
        PROVE  k = l
    <3>1. CASE j = i /\ m.kind = "activated"
      <4>1. ~Announced(b, i)
        BY <1>5, <1>8, <3>1
      <4> QED BY <1>4, <2>1, <4>1 DEF Announced
    <3>2. CASE ~(j = i /\ m.kind = "activated")
      BY <1>4, <1>6, <1>8, <2>1, <3>2 DEF Singly
    <3> QED BY <3>1, <3>2
  <2> QED BY <2>1 DEF Singly
<1> QED BY <1>7, <1>8

--------------------------------------------------------------------------------
(* Types.                                                                  *)

LEMMA PerfShapeInit == PerfInit => PerfShape
<1> SUFFICES ASSUME PerfInit PROVE PerfShape
  OBVIOUS
<1> USE PerfAssumption
<1>1. ASSUME NEW old \in BOOLEAN PROVE NewTester(old) \in TesterRecord
  BY DEF NewTester, TesterRecord
<1>2. tester \in [Initiator -> TesterRecord]
  BY <1>1 DEF PerfInit
<1>3. \A i \in Initiator : tester[i].sent <= MaxPackets /\ tester[i].asks <= MaxAsks
  BY DEF PerfInit, NewTester
<1>4. session \in [Initiator -> SessionRecord]
  BY DEF PerfInit, NewSession, SessionRecord
<1>5. /\ <<>> \in Seq(SentMessage) /\ <<>> \in Seq(HeardMessage) /\ <<>> \in Seq(LinkEvent)
      /\ Len(<<>>) = 0
  BY EmptySeq
<1>6. /\ outgoing \in [Initiator -> Seq(SentMessage)]
      /\ incoming \in [Initiator -> Seq(HeardMessage)]
      /\ queue \in [Initiator \cup {Main} -> Seq(LinkEvent)]
  BY <1>5 DEF PerfInit
<1>7. \A r \in Initiator \cup {Main} : Len(queue[r]) <= Capacity
  BY <1>5 DEF PerfInit
<1> QED BY <1>2, <1>3, <1>4, <1>6, <1>7 DEF PerfShape, PerfInit

\* A tester's own step.
LEMMA TesterFields ==
  ASSUME PerfShape, NEW i \in Initiator
  PROVE  /\ DOMAIN tester = Initiator /\ DOMAIN outgoing = Initiator /\ DOMAIN incoming = Initiator
         /\ tester[i] \in TesterRecord
         /\ tester[i].sent \in Nat /\ tester[i].asks \in Nat
         /\ tester[i].sent <= MaxPackets /\ tester[i].asks <= MaxAsks
         /\ outgoing[i] \in Seq(SentMessage) /\ incoming[i] \in Seq(HeardMessage)
         /\ queue[i] \in Seq(LinkEvent) /\ queue[Main] \in Seq(LinkEvent)
         /\ session[i] \in SessionRecord /\ session[i].count \in Nat
BY DEF PerfShape, TesterRecord, SessionRecord

LEMMA SendShape ==
  ASSUME PerfShape, NEW i \in Initiator, NEW kind \in SentKinds, Send(i, <<Plain(kind)>>)
  PROVE  /\ outgoing' \in [Initiator -> Seq(SentMessage)]
         /\ outgoing'[i] = outgoing[i] \o <<Plain(kind)>>
         /\ \A j \in Initiator \ {i} : outgoing'[j] = outgoing[j]
<1>1. Plain(kind) \in SentMessage
  BY PlainMessages
<1>2. outgoing[i] \o <<Plain(kind)>> \in Seq(SentMessage)
  BY <1>1, TesterFields
<1> QED BY <1>2, TesterFields DEF Send, PerfShape

LEMMA TakeShape ==
  ASSUME PerfShape, NEW i \in Initiator, incoming[i] # <<>>, incoming' = [incoming EXCEPT ![i] = Tail(@)]
  PROVE  /\ incoming' \in [Initiator -> Seq(HeardMessage)]
         /\ incoming'[i] = Tail(incoming[i])
         /\ \A j \in Initiator \ {i} : incoming'[j] = incoming[j]
<1>1. Tail(incoming[i]) \in Seq(HeardMessage)
  BY TesterFields, TailOne
<1> QED BY <1>1, TesterFields DEF PerfShape

\* A new record of the tester.
LEMMA RecordShape ==
  ASSUME PerfShape, NEW i \in Initiator, NEW t \in TesterRecord, tester' = [tester EXCEPT ![i] = t],
         t.sent <= MaxPackets, t.asks <= MaxAsks
  PROVE  /\ tester' \in [Initiator -> TesterRecord]
         /\ \A j \in Initiator : tester'[j].sent <= MaxPackets /\ tester'[j].asks <= MaxAsks
         /\ tester'[i] = t /\ \A j \in Initiator \ {i} : tester'[j] = tester[j]
BY TesterFields DEF PerfShape

Places == {"start", "subscribe", "activation", "version", "data", "result", "over"}
Outcomes == {"none", "timed out", "closed", "error", "result", "no result", "send failed"}

LEMMA GotoShape ==
  ASSUME PerfShape, NEW i \in Initiator, NEW at \in Places, Goto(i, at)
  PROVE  /\ tester' \in [Initiator -> TesterRecord]
         /\ \A j \in Initiator : tester'[j].sent <= MaxPackets /\ tester'[j].asks <= MaxAsks
         /\ tester'[i] = [tester[i] EXCEPT !.at = at]
         /\ \A j \in Initiator \ {i} : tester'[j] = tester[j]
<1> DEFINE t == [tester[i] EXCEPT !.at = at]
<1>1. t \in TesterRecord /\ t.sent <= MaxPackets /\ t.asks <= MaxAsks
  BY TesterFields DEF TesterRecord, Places, PerfShape
<1>2. tester' = [tester EXCEPT ![i] = t]
  BY DEF Goto
<1> HIDE DEF t
<1>3. PICK u : u = t
  OBVIOUS
<1> QED BY <1>1, <1>2, <1>3, RecordShape DEF t

LEMMA OverShape ==
  ASSUME PerfShape, NEW i \in Initiator, NEW result \in Outcomes, Over(i, result)
  PROVE  /\ tester' \in [Initiator -> TesterRecord]
         /\ \A j \in Initiator : tester'[j].sent <= MaxPackets /\ tester'[j].asks <= MaxAsks
         /\ tester'[i].at = "over" /\ tester'[i].result = result
         /\ tester'[i].sent = tester[i].sent /\ tester'[i].packets = tester[i].packets
         /\ \A j \in Initiator \ {i} : tester'[j] = tester[j]
<1> DEFINE t == [tester[i] EXCEPT !.at = "over", !.result = result]
<1>1. t \in TesterRecord /\ t.sent <= MaxPackets /\ t.asks <= MaxAsks
      /\ t.at = "over" /\ t.result = result /\ t.sent = tester[i].sent /\ t.packets = tester[i].packets
  BY TesterFields DEF TesterRecord, Outcomes, PerfShape
<1>2. tester' = [tester EXCEPT ![i] = t]
  BY DEF Over
<1> HIDE DEF t
<1>3. PICK u : u = t
  OBVIOUS
<1> QED BY <1>1, <1>2, <1>3, RecordShape

--------------------------------------------------------------------------------
(* What is kept by a step that leaves a thing alone, or only loses of it.  *)

\* An initiator that is at its end stays there, and none goes back to the data.
Onward(i) ==
  /\ HasAsked(i) => HasAsked(i)'
  /\ tester'[i].at = "data" => tester[i].at = "data"
  /\ tester'[i].sent = tester[i].sent

\* The way of i's messages loses at most what is known to be lost.
LosesKnown(i) ==
  /\ hurt \subseteq hurt'
  /\ Weaker(queue'[i], outgoing'[i], queue[i], outgoing[i], i)
  /\ i \notin hurt' /\ session[i].at \in {"hello", "test"} =>
       Same(queue'[i], outgoing'[i], queue[i], outgoing[i], i)

LEMMA FlyNat ==
  ASSUME NEW q \in Seq(LinkEvent), NEW out \in Seq(SentMessage), NEW i
  PROVE  Fly(q, out, i) \in Nat
<1>1. Number(q, DataOf(i)) \in Nat /\ Number(out, DataSent) \in Nat
  BY NumberFinite
<1> QED BY <1>1 DEF Fly

LEMMA WayUnchanged ==
  ASSUME PerfShape, NEW i \in Initiator, queue'[i] = queue[i], outgoing'[i] = outgoing[i], hurt \subseteq hurt'
  PROVE  LosesKnown(i)
<1>1. Fly(queue[i], outgoing[i], i) \in Nat
  BY TesterFields, FlyNat
<1> QED BY <1>1 DEF LosesKnown, Weaker, Same

LEMMA CountedKept ==
  ASSUME PerfShape, PerfShape', NEW i \in Initiator, session'[i] = session[i], tester'[i].sent = tester[i].sent,
         LosesKnown(i), Counted(i)
  PROVE  Counted(i)'
<1>1. /\ Fly(queue[i], outgoing[i], i) \in Nat /\ Fly(queue'[i], outgoing'[i], i) \in Nat
      /\ session[i].count \in Nat /\ tester[i].sent \in Nat
  <2>1. queue'[i] \in Seq(LinkEvent) /\ outgoing'[i] \in Seq(SentMessage)
    BY DEF PerfShape
  <2> QED BY <2>1, TesterFields, FlyNat
<1>2. session'[i].count + Fly(queue'[i], outgoing'[i], i) <= tester'[i].sent
  BY <1>1 DEF LosesKnown, Weaker, Counted, InFlight
<1>3. i \notin hurt' /\ session'[i].at \in {"hello", "test"} =>
        session'[i].count + Fly(queue'[i], outgoing'[i], i) = tester'[i].sent
  BY <1>1 DEF LosesKnown, Same, Counted, InFlight
<1> QED BY <1>2, <1>3 DEF Counted, InFlight

LEMMA InOrderKept ==
  ASSUME NEW i \in Initiator, session'[i].at = "hello" => session[i].at = "hello", Onward(i), LosesKnown(i), InOrder(i)
  PROVE  InOrder(i)'
<1>1. Ordered(queue'[i], outgoing'[i], i)
  BY DEF LosesKnown, Weaker, InOrder
<1>2. Has(queue'[i], outgoing'[i], i, "request") => HasAsked(i)'
  BY DEF LosesKnown, Weaker, InOrder, Onward, SentKinds
<1>3. i \notin hurt' /\ session'[i].at = "hello" =>
        /\ Preceded(queue'[i], outgoing'[i], i)
        /\ tester'[i].at = "data" => Has(queue'[i], outgoing'[i], i, "config")
  BY DEF LosesKnown, Same, InOrder, Onward
<1> QED BY <1>1, <1>2, <1>3 DEF InOrder

\* A record that is kept, or ends without a result.
Closing(i) ==
  \/ tester'[i].result = tester[i].result /\ tester'[i].packets = tester[i].packets
     /\ (tester[i].at = "over" => tester'[i].at = "over")
  \/ tester'[i].result # "result" /\ tester'[i].at = "over"

LEMMA AnswersKept ==
  ASSUME NEW i \in Initiator, Onward(i), Closing(i), hurt \subseteq hurt', Answers(i),
         \A k \in DOMAIN incoming'[i] : incoming'[i][k].kind = "result" =>
           \E l \in DOMAIN incoming[i] : incoming[i][l] = incoming'[i][k]
  PROVE  Answers(i)'
<1>1. ASSUME NEW k \in DOMAIN incoming'[i], incoming'[i][k].kind = "result"
      PROVE  /\ incoming'[i][k].n <= tester'[i].sent
             /\ i \notin hurt' => incoming'[i][k].n = tester'[i].sent /\ HasAsked(i)'
  <2>1. PICK l \in DOMAIN incoming[i] : incoming[i][l] = incoming'[i][k]
    BY <1>1
  <2> QED BY <1>1, <2>1 DEF Answers, Onward
<1>2. tester'[i].result = "result" =>
       /\ tester'[i].packets <= tester'[i].sent
       /\ i \notin hurt' => tester'[i].packets = tester'[i].sent
  BY DEF Answers, Onward, Closing
<1>3. tester'[i].result # "none" => tester'[i].at = "over"
  BY DEF Answers, Onward, Closing
<1> QED BY <1>1, <1>2, <1>3 DEF Answers

LEMMA ShakenKept ==
  ASSUME PerfShape, NEW i \in Initiator, session'[i] = session[i], LosesKnown(i), Shaken(i), Onward(i),
         Greeted(i)' => Greeted(i),
         session[i].at = "none" =>
           /\ queue'[i] = <<>> /\ tester'[i].at # "result"
           /\ \A k \in DOMAIN outgoing'[i] : outgoing'[i][k].kind = "version"
  PROVE  Shaken(i)'
<1>1. session'[i].at = "none" =>
       /\ session'[i].count = 0 /\ queue'[i] = <<>> /\ ~Greeted(i)'
       /\ tester'[i].sent = 0 /\ tester'[i].at \notin {"data", "result"}
       /\ \A k \in DOMAIN outgoing'[i] : outgoing'[i][k].kind = "version"
  BY DEF Shaken, Onward
<1>2. Greeted(i)' \/ Has(queue'[i], outgoing'[i], i, "config") => session'[i].version
  BY DEF LosesKnown, Weaker, Shaken, SentKinds
<1> QED BY <1>1, <1>2 DEF Shaken

LEMMA OnceKept ==
  ASSUME NEW i \in Initiator, Once(i),
         tester'[i].at = "start" => tester[i].at = "start",
         link'[i] = link[i] \/ (link[i] = "up" /\ link'[i] = "closed") \/ (link[i] = "closed" /\ link'[i] = "closed"),
         session[i].at # "none" \/ session'[i].at = "none" \/ (link'[i] \notin {"none", "requested"} /\ ~Announced(queue'[Main], i)),
         Announced(queue'[Main], i) => Announced(queue[Main], i), 
         Singly(queue'[Main], i)
  PROVE  Once(i)'
<1>1. tester'[i].at = "start" => link'[i] = "none"
  BY DEF Once
<1>2. link'[i] \in {"none", "requested"} \/ session'[i].at # "none" => ~Announced(queue'[Main], i)
  BY DEF Once
<1>3. link'[i] \in {"none", "requested"} => session'[i].at = "none"
  BY DEF Once
<1> QED BY <1>1, <1>2, <1>3 DEF Once

\* An initiator whose own things a step leaves alone.
LEMMA Bystander ==
  ASSUME PerfShape, PerfShape', NEW i \in Initiator, Fair(i),
         tester'[i] = tester[i], link'[i] = link[i], outgoing'[i] = outgoing[i],
         incoming'[i] = incoming[i], session'[i] = session[i],
         LosesKnown(i), session[i].at = "none" => queue'[i] = queue[i],
         Announced(queue'[Main], i) => Announced(queue[Main], i),
         Singly(queue'[Main], i)
  PROVE  Fair(i)'
<1>1. Onward(i) /\ Closing(i)
  BY DEF Onward, Closing, HasAsked
<1>2. Counted(i)'
  BY CountedKept DEF Fair
<1>3. InOrder(i)'
  BY <1>1, InOrderKept DEF Fair
<1>4. Answers(i)'
  BY <1>1, AnswersKept DEF Fair, LosesKnown
<1>5. Shaken(i)'
  BY <1>1, ShakenKept DEF Fair, Shaken, Greeted
<1>6. Once(i)'
  BY OnceKept DEF Fair
<1> QED BY <1>2, <1>3, <1>4, <1>5, <1>6 DEF Fair

\* One that a step of another does not reach at all.
LEMMA Apart ==
  ASSUME PerfShape, PerfShape', NEW i \in Initiator, Fair(i),
         tester'[i] = tester[i], link'[i] = link[i], outgoing'[i] = outgoing[i],
         incoming'[i] = incoming[i], session'[i] = session[i],
         queue'[i] = queue[i], queue'[Main] = queue[Main], hurt \subseteq hurt'
  PROVE  Fair(i)'
<1>1. LosesKnown(i)
  BY WayUnchanged
<1>2. Singly(queue'[Main], i)
  BY DEF Fair, Once
<1> QED BY <1>1, <1>2, Bystander

\* One that an event of another link passes.
LEMMA Passed ==
  ASSUME PerfShape, PerfShape', NEW i \in Initiator, Fair(i),
         NEW j \in Initiator \cup Others, NEW m \in LinkMessage, Post(j, m), j # i,
         tester'[i] = tester[i], link'[i] = link[i], outgoing'[i] = outgoing[i],
         incoming'[i] = incoming[i], session'[i] = session[i]
  PROVE  Fair(i)'
<1>1. LosesKnown(i)
  <2>1. hurt \subseteq hurt'
    <3>1. PICK e : e = [link |-> j, msg |-> m]
      OBVIOUS
    <3> QED BY <3>1, PostOne
  <2> QED BY <2>1, PostNeutral DEF LosesKnown
<1>2. session[i].at = "none" => queue'[i] = queue[i]
  <2>1. session[i].at = "none" => i \notin Receiving
    BY PerfAssumption DEF Receiving
  <2> QED BY <2>1, PostNeutral
<1>3. Announced(queue'[Main], i) => Announced(queue[Main], i)
  BY PostMain
<1>4. Singly(queue'[Main], i)
  BY PostMain DEF Fair, Once
<1> QED BY <1>1, <1>2, <1>3, <1>4, Bystander

--------------------------------------------------------------------------------
(* The initiator's steps.                                                  *)

\* What is left of the events on their way to an initiator was there before.
Drains(i) == \A k \in DOMAIN incoming'[i] : \E l \in DOMAIN incoming[i] : incoming[i][l] = incoming'[i][k]

LEMMA TailDrains ==
  ASSUME PerfShape, NEW i \in Initiator, incoming[i] # <<>>, incoming'[i] = Tail(incoming[i])
  PROVE  Drains(i)
<1>1. incoming[i] \in Seq(HeardMessage)
  BY TesterFields
<1>2. ASSUME NEW k \in DOMAIN incoming'[i]
      PROVE  k + 1 \in DOMAIN incoming[i] /\ incoming[i][k + 1] = incoming'[i][k]
  BY <1>1, <1>2, TailOne
<1> QED BY <1>2 DEF Drains

LEMMA TesterApart ==
  ASSUME PerfInv, PerfShape', NEW i \in Initiator, ListenerIdle,
         \A j \in Initiator \ {i} : /\ tester'[j] = tester[j] /\ link'[j] = link[j]
                                    /\ outgoing'[j] = outgoing[j] /\ incoming'[j] = incoming[j]
  PROVE  \A j \in Initiator \ {i} : Fair(j)'
<1>1. SUFFICES ASSUME NEW j \in Initiator \ {i} PROVE Fair(j)'
  OBVIOUS
<1> QED BY <1>1, Apart DEF ListenerIdle, PerfInv

\* A step of an initiator that sends nothing.
LEMMA TesterQuiet ==
  ASSUME PerfInv, PerfShape', NEW i \in Initiator, ListenerIdle, outgoing'[i] = outgoing[i],
         Drains(i), Onward(i), Closing(i), tester'[i].at # "start", link'[i] = link[i],
         session[i].at = "none" => tester'[i].at # "result"
  PROVE  Fair(i)'
<1>0. /\ PerfShape /\ Counted(i) /\ Answers(i) /\ Shaken(i) /\ InOrder(i) /\ Once(i)
      /\ queue'[i] = queue[i] /\ queue'[Main] = queue[Main] /\ session'[i] = session[i] /\ hurt' = hurt
  BY DEF PerfInv, Fair, ListenerIdle
<1>1. LosesKnown(i)
  BY <1>0, WayUnchanged
<1>2. Counted(i)'
  BY <1>0, <1>1, CountedKept DEF Onward
<1>3. InOrder(i)'
  BY <1>0, <1>1, InOrderKept
<1>4. Answers(i)'
  BY <1>0, AnswersKept DEF Drains
<1>5. Greeted(i)' => Greeted(i)
  BY DEF Greeted, Drains
<1>6. Shaken(i)'
  BY <1>0, <1>1, <1>5, ShakenKept DEF Shaken
<1>7. link[i] \notin {"none", "requested"} => link[i] \in {"up", "closed"}
  BY <1>0 DEF PerfShape
<1>8. Once(i)'
  BY <1>0, <1>7 DEF Once
<1> QED BY <1>2, <1>3, <1>4, <1>6, <1>8 DEF Fair

\* A message that is no data is sent.
LEMMA Sends ==
  ASSUME PerfInv, PerfShape', NEW i \in Initiator, ListenerIdle,
         NEW kind \in {"version", "config", "request"}, Send(i, <<Plain(kind)>>),
         Drains(i), Closing(i), tester'[i].at # "start", link'[i] = link[i],
         tester'[i].sent = tester[i].sent, HasAsked(i) => HasAsked(i)', kind = "request" => HasAsked(i)',
         tester'[i].at = "data" => tester[i].at = "data" \/ kind = "config",
         kind = "config" => session[i].version,
         session[i].at = "none" => kind = "version" /\ tester'[i].at \notin {"data", "result"}
  PROVE  Fair(i)'
<1>0. /\ PerfShape /\ Counted(i) /\ Answers(i) /\ Shaken(i) /\ InOrder(i) /\ Once(i)
      /\ queue'[i] = queue[i] /\ queue'[Main] = queue[Main] /\ session'[i] = session[i] /\ hurt' = hurt
  BY DEF PerfInv, Fair, ListenerIdle
<1>1. /\ kind \in SentKinds /\ kind # "data"
      /\ Plain(kind) \in SentMessage /\ Plain(kind).kind = kind
  BY PlainMessages DEF SentKinds
<1>2. outgoing'[i] = outgoing[i] \o <<Plain(kind)>>
  BY <1>0, <1>1, SendShape
<1>3. PICK m \in SentMessage : m = Plain(kind)
  BY <1>1
<1>4. PICK q \in Seq(LinkEvent), out \in Seq(SentMessage) : q = queue[i] /\ out = outgoing[i]
  BY <1>0, TesterFields
<1>5. PICK o : o = outgoing'[i]
  OBVIOUS
<1>6. /\ o \in Seq(SentMessage)
      /\ Ordered(q, out, i) => Ordered(q, o, i)
      /\ \A k \in SentKinds : Has(q, o, i, k) <=> Has(q, out, i, k) \/ kind = k
      /\ Fly(q, o, i) = Fly(q, out, i) + 0
      /\ Preceded(q, out, i) => Preceded(q, o, i)
  <2>1. o = out \o <<m>> /\ m.kind # "data" /\ m.kind = kind
    BY <1>1, <1>2, <1>3, <1>4, <1>5
  <2> QED BY <2>1, MessageSent
<1>7. Fly(q, out, i) \in Nat /\ Fly(q, o, i) = Fly(q, out, i)
  BY <1>6, FlyNat
<1>8. Counted(i)'
  BY <1>0, <1>4, <1>5, <1>7 DEF Counted, InFlight
<1>9. InOrder(i)'
  <2>1. Ordered(queue'[i], outgoing'[i], i)
    BY <1>0, <1>4, <1>5, <1>6 DEF InOrder
  <2>2. Has(queue'[i], outgoing'[i], i, "request") => HasAsked(i)'
    BY <1>0, <1>4, <1>5, <1>6 DEF InOrder, SentKinds
  <2>3. i \notin hurt' /\ session'[i].at = "hello" =>
          /\ Preceded(queue'[i], outgoing'[i], i)
          /\ tester'[i].at = "data" => Has(queue'[i], outgoing'[i], i, "config")
    BY <1>0, <1>4, <1>5, <1>6 DEF InOrder, SentKinds
  <2> QED BY <2>1, <2>2, <2>3 DEF InOrder
<1>10. Answers(i)'
  <2>1. ASSUME NEW k \in DOMAIN incoming'[i], incoming'[i][k].kind = "result"
        PROVE  /\ incoming'[i][k].n <= tester'[i].sent
               /\ i \notin hurt' => incoming'[i][k].n = tester'[i].sent /\ HasAsked(i)'
    <3>1. PICK l \in DOMAIN incoming[i] : incoming[i][l] = incoming'[i][k]
      BY <2>1 DEF Drains
    <3> QED BY <1>0, <2>1, <3>1 DEF Answers
  <2>2. tester'[i].result = "result" =>
         /\ tester'[i].packets <= tester'[i].sent
         /\ i \notin hurt' => tester'[i].packets = tester'[i].sent
    BY <1>0 DEF Answers, Closing
  <2>3. tester'[i].result # "none" => tester'[i].at = "over"
    BY <1>0 DEF Answers, Closing
  <2> QED BY <2>1, <2>2, <2>3 DEF Answers
<1>11. Shaken(i)'
  <2>1. Greeted(i)' => Greeted(i)
    BY DEF Greeted, Drains
  <2>2. Greeted(i)' \/ Has(queue'[i], outgoing'[i], i, "config") => session'[i].version
    BY <1>0, <1>4, <1>5, <1>6, <2>1 DEF Shaken, SentKinds
  <2>3. ASSUME session'[i].at = "none"
        PROVE  /\ session'[i].count = 0 /\ queue'[i] = <<>> /\ ~Greeted(i)'
               /\ tester'[i].sent = 0 /\ tester'[i].at \notin {"data", "result"}
               /\ \A k \in DOMAIN outgoing'[i] : outgoing'[i][k].kind = "version"
    <3>1. kind = "version"
      BY <1>0, <2>3
    <3>2. ASSUME NEW k \in DOMAIN o PROVE o[k].kind = "version"
      <4>1. o = Append(out, m)
        BY <1>2, <1>3, <1>4, <1>5
      <4>2. /\ DOMAIN o = 1 .. Len(out) + 1 /\ DOMAIN out = 1 .. Len(out) /\ Len(out) \in Nat
            /\ o[Len(out) + 1] = m /\ \A l \in 1 .. Len(out) : o[l] = out[l]
        BY <4>1, AppendOne
      <4>3. k \in 1 .. Len(out) \/ k = Len(out) + 1
        BY <3>2, <4>2
      <4> QED BY <1>0, <1>1, <1>3, <1>4, <2>3, <3>1, <4>2, <4>3 DEF Shaken
    <3> QED BY <1>0, <1>5, <2>1, <2>3, <3>2 DEF Shaken
  <2> QED BY <2>2, <2>3 DEF Shaken
<1>12. Once(i)'
  BY <1>0 DEF Once
<1> QED BY <1>8, <1>9, <1>10, <1>11, <1>12 DEF Fair

LEMMA RequestLinkKeeps ==
  ASSUME PerfInv, NEW i \in Initiator, RequestLink(i) PROVE PerfInv'
<1>0. PerfShape /\ tester[i].at = "start" /\ Goto(i, "subscribe") /\ Fair(i)
  BY DEF PerfInv, RequestLink
<1>1. /\ tester' \in [Initiator -> TesterRecord]
      /\ \A j \in Initiator : tester'[j].sent <= MaxPackets /\ tester'[j].asks <= MaxAsks
      /\ tester'[i] = [tester[i] EXCEPT !.at = "subscribe"]
      /\ \A j \in Initiator \ {i} : tester'[j] = tester[j]
  BY <1>0, GotoShape DEF Places
<1>2. PerfShape'
  BY <1>0, <1>1 DEF PerfShape, RequestLink, ListenerIdle
<1>3. link'[i] = "requested" /\ link[i] = "none" /\ \A j \in Initiator \ {i} : link'[j] = link[j]
  BY <1>0 DEF RequestLink, PerfShape, Fair, Once
<1>4. ListenerIdle /\ outgoing' = outgoing /\ incoming' = incoming
  BY DEF RequestLink
<1>5. \A j \in Initiator \ {i} : Fair(j)'
  BY <1>1, <1>2, <1>3, <1>4, TesterApart
<1>6. /\ tester'[i].at = "subscribe" /\ tester'[i].sent = tester[i].sent
      /\ tester'[i].result = tester[i].result /\ tester'[i].packets = tester[i].packets
  BY <1>0, <1>1, TesterFields DEF TesterRecord
<1>7. Onward(i) /\ Closing(i)
  BY <1>0, <1>6 DEF Onward, Closing, HasAsked
<1>8. LosesKnown(i)
  BY <1>0, <1>4, WayUnchanged DEF ListenerIdle
<1>9. Counted(i)' /\ InOrder(i)'
  BY <1>0, <1>2, <1>4, <1>7, <1>8, CountedKept, InOrderKept DEF Fair, ListenerIdle, Onward
<1>10. Answers(i)'
  BY <1>0, <1>4, <1>7, AnswersKept DEF Fair, ListenerIdle
<1>11. Shaken(i)'
  BY <1>0, <1>4, <1>6, <1>7, <1>8, ShakenKept DEF Fair, ListenerIdle, Shaken, Greeted
<1>12. Once(i)'
  BY <1>0, <1>3, <1>4, <1>6 DEF Fair, Once, ListenerIdle
<1> QED BY <1>2, <1>5, <1>9, <1>10, <1>11, <1>12 DEF PerfInv, Fair

\* A step of the initiator keeps the invariant if it keeps i's part of it.
LEMMA TesterKeeps ==
  ASSUME PerfInv, NEW i \in Initiator, ListenerIdle, link' = link,
         PerfShape', Fair(i)',
         \A j \in Initiator \ {i} : /\ tester'[j] = tester[j]
                                    /\ outgoing'[j] = outgoing[j] /\ incoming'[j] = incoming[j]
  PROVE  PerfInv'
BY TesterApart DEF PerfInv

\* The parts of the state that a step of the initiator changes keep their types.
LEMMA TesterShape ==
  ASSUME PerfInv, ListenerIdle, link' = link,
         tester' \in [Initiator -> TesterRecord],
         \A j \in Initiator : tester'[j].sent <= MaxPackets /\ tester'[j].asks <= MaxAsks,
         outgoing' \in [Initiator -> Seq(SentMessage)],
         incoming' \in [Initiator -> Seq(HeardMessage)]
  PROVE  PerfShape'
BY DEF PerfInv, PerfShape, ListenerIdle

\* A step to another place, or to the end, that sends and takes nothing.
LEMMA MovesOn ==
  ASSUME PerfInv, NEW i \in Initiator, ListenerIdle, link' = link,
         outgoing' = outgoing, incoming' = incoming \/ (incoming[i] # <<>> /\ incoming' = [incoming EXCEPT ![i] = Tail(@)]),
         \/ Goto(i, "activation") /\ tester[i].at = "subscribe"
         \/ \E result \in Outcomes \ {"result"} : Over(i, result)
  PROVE  PerfInv'
<1>0. PerfShape /\ Fair(i)
  BY DEF PerfInv
<1>1. /\ tester' \in [Initiator -> TesterRecord]
      /\ \A j \in Initiator : tester'[j].sent <= MaxPackets /\ tester'[j].asks <= MaxAsks
      /\ \A j \in Initiator \ {i} : tester'[j] = tester[j]
      /\ Onward(i) /\ Closing(i) /\ tester'[i].at \notin {"start", "result"}
  <2>1. CASE Goto(i, "activation") /\ tester[i].at = "subscribe"
    <3>1. /\ tester' \in [Initiator -> TesterRecord]
          /\ \A j \in Initiator : tester'[j].sent <= MaxPackets /\ tester'[j].asks <= MaxAsks
          /\ \A j \in Initiator \ {i} : tester'[j] = tester[j]
          /\ tester'[i] = [tester[i] EXCEPT !.at = "activation"]
      BY <1>0, <2>1, GotoShape DEF Places
    <3>2. /\ tester'[i].at = "activation" /\ tester'[i].sent = tester[i].sent
          /\ tester'[i].result = tester[i].result /\ tester'[i].packets = tester[i].packets
      BY ZenonT(40), <1>0, <3>1, TesterFields DEF TesterRecord
    <3> QED BY <2>1, <3>1, <3>2 DEF Onward, Closing, HasAsked
  <2>2. ASSUME NEW result \in Outcomes \ {"result"}, Over(i, result)
        PROVE  /\ tester' \in [Initiator -> TesterRecord]
               /\ \A j \in Initiator : tester'[j].sent <= MaxPackets /\ tester'[j].asks <= MaxAsks
               /\ \A j \in Initiator \ {i} : tester'[j] = tester[j]
               /\ Onward(i) /\ Closing(i) /\ tester'[i].at \notin {"start", "result"}
    <3>1. /\ tester' \in [Initiator -> TesterRecord]
          /\ \A j \in Initiator : tester'[j].sent <= MaxPackets /\ tester'[j].asks <= MaxAsks
          /\ \A j \in Initiator \ {i} : tester'[j] = tester[j]
          /\ tester'[i].at = "over" /\ tester'[i].sent = tester[i].sent /\ tester'[i].result = result
      BY <1>0, <2>2, OverShape
    <3> QED BY <2>2, <3>1 DEF Onward, Closing, HasAsked
  <2> QED BY <2>1, <2>2
<1>2. /\ incoming' \in [Initiator -> Seq(HeardMessage)] /\ Drains(i)
      /\ \A j \in Initiator \ {i} : incoming'[j] = incoming[j]
  <2>1. CASE incoming' = incoming
    BY <1>0, <2>1 DEF Drains, PerfShape
  <2>2. CASE incoming[i] # <<>> /\ incoming' = [incoming EXCEPT ![i] = Tail(@)]
    BY <1>0, <2>2, TakeShape, TailDrains
  <2> QED BY <2>1, <2>2
<1>3. PerfShape'
  BY <1>0, <1>1, <1>2, TesterShape DEF PerfShape
<1>4. Fair(i)'
  BY <1>1, <1>2, <1>3, TesterQuiet
<1> QED BY <1>1, <1>2, <1>3, <1>4, TesterKeeps

\* A step to another place that sends a message.
LEMMA SendsOn ==
  ASSUME PerfInv, NEW i \in Initiator, ListenerIdle, link' = link,
         NEW kind \in {"version", "config"}, Send(i, <<Plain(kind)>>),
         incoming[i] # <<>>, incoming' = [incoming EXCEPT ![i] = Tail(@)],
         \/ kind = "version" /\ Goto(i, "version") /\ tester[i].at = "activation"
         \/ kind = "config" /\ Goto(i, "data") /\ tester[i].at = "version" /\ Event(i) = "version"
  PROVE  PerfInv'
<1>0. PerfShape /\ Fair(i)
  BY DEF PerfInv
<1>1. PICK at \in {"version", "data"} : Goto(i, at) /\ (kind = "version" <=> at = "version")
  OBVIOUS
<1>2. /\ tester' \in [Initiator -> TesterRecord]
      /\ \A j \in Initiator : tester'[j].sent <= MaxPackets /\ tester'[j].asks <= MaxAsks
      /\ \A j \in Initiator \ {i} : tester'[j] = tester[j]
      /\ tester'[i] = [tester[i] EXCEPT !.at = at]
  BY <1>0, <1>1, GotoShape DEF Places
<1>3. /\ tester'[i].at = at /\ tester'[i].sent = tester[i].sent
      /\ tester'[i].result = tester[i].result /\ tester'[i].packets = tester[i].packets
  BY <1>0, <1>2, TesterFields DEF TesterRecord
<1>4. /\ incoming' \in [Initiator -> Seq(HeardMessage)] /\ Drains(i)
      /\ \A j \in Initiator \ {i} : incoming'[j] = incoming[j]
  <2>1. incoming'[i] = Tail(incoming[i])
    BY <1>0, TakeShape
  <2> QED BY <1>0, <2>1, TakeShape, TailDrains
<1>5. /\ outgoing' \in [Initiator -> Seq(SentMessage)]
      /\ \A j \in Initiator \ {i} : outgoing'[j] = outgoing[j]
  BY <1>0, SendShape DEF SentKinds
<1>6. PerfShape'
  BY <1>2, <1>4, <1>5, TesterShape
<1>7. HasAsked(i) => HasAsked(i)'
  BY DEF HasAsked
<1>8. Closing(i)
  BY <1>3 DEF Closing
<1>9. kind = "config" => session[i].version /\ session[i].at # "none"
  <2>1. SUFFICES ASSUME kind = "config" PROVE session[i].version /\ session[i].at # "none"
    OBVIOUS
  <2>2. incoming[i] \in Seq(HeardMessage)
    BY <1>0, TesterFields
  <2>3. 1 \in DOMAIN incoming[i] /\ incoming[i][1].kind = "version"
    BY <2>1, <2>2, TailOne DEF Event
  <2> QED BY <1>0, <2>3 DEF Fair, Shaken, Greeted
<1>10. Fair(i)'
  BY <1>1, <1>3, <1>4, <1>6, <1>7, <1>8, <1>9, Sends
<1> QED BY <1>2, <1>4, <1>5, <1>6, <1>10, TesterKeeps

LEMMA TesterMoves ==
  ASSUME PerfInv, NEW i \in Initiator,
         Subscribe(i) \/ HandshakeLate(i) \/ Activated(i) \/ Version(i) \/ SendFails(i) \/ NoResult(i)
  PROVE  PerfInv'
<1>1. CASE Subscribe(i)
  BY <1>1, MovesOn DEF Subscribe
<1>2. CASE HandshakeLate(i)
  BY <1>2, MovesOn DEF HandshakeLate, Outcomes
<1>3. CASE Activated(i)
  <2>1. ListenerIdle /\ link' = link /\ incoming[i] # <<>> /\ incoming' = [incoming EXCEPT ![i] = Tail(@)]
        /\ tester[i].at = "activation"
    BY <1>3 DEF Activated, TakeEvent
  <2>2. CASE Goto(i, "version") /\ Send(i, <<Plain("version")>>)
    BY <2>1, <2>2, SendsOn
  <2>3. CASE Over(i, "closed") /\ outgoing' = outgoing
    BY <2>1, <2>3, MovesOn DEF Outcomes
  <2> QED BY <1>3, <2>2, <2>3 DEF Activated
<1>4. CASE Version(i)
  <2>1. ListenerIdle /\ link' = link /\ incoming[i] # <<>> /\ incoming' = [incoming EXCEPT ![i] = Tail(@)]
        /\ tester[i].at = "version"
    BY <1>4 DEF Version, TakeEvent
  <2>2. CASE Event(i) = "version" /\ Goto(i, "data") /\ Send(i, <<Plain("config")>>)
    BY <2>1, <2>2, SendsOn
  <2>3. CASE Event(i) \in {"error", "closed"} /\ Over(i, Event(i)) /\ outgoing' = outgoing
    <3>1. PICK result \in Outcomes \ {"result"} : Over(i, result)
      BY <2>3 DEF Outcomes
    <3> QED BY <2>1, <2>3, <3>1, MovesOn
  <2> QED BY <1>4, <2>2, <2>3 DEF Version
<1>5. CASE SendFails(i)
  BY <1>5, MovesOn DEF SendFails, Outcomes
<1>6. CASE NoResult(i)
  BY <1>6, MovesOn DEF NoResult, Outcomes
<1> QED BY <1>1, <1>2, <1>3, <1>4, <1>5, <1>6

LEMMA SendDataKeeps ==
  ASSUME PerfInv, NEW i \in Initiator, SendData(i) PROVE PerfInv'
<1>0. /\ PerfShape /\ Counted(i) /\ Answers(i) /\ Shaken(i) /\ InOrder(i) /\ Once(i)
      /\ ListenerIdle /\ link' = link /\ incoming' = incoming /\ tester[i].at = "data"
      /\ queue'[i] = queue[i] /\ queue'[Main] = queue[Main] /\ session'[i] = session[i] /\ hurt' = hurt
  BY DEF PerfInv, Fair, SendData, ListenerIdle
<1> DEFINE t == [tester[i] EXCEPT !.sent = @ + 1]
<1>1. PICK u : u = t
  OBVIOUS
<1>2. /\ u \in TesterRecord /\ u.sent <= MaxPackets /\ u.asks <= MaxAsks
      /\ u.sent = tester[i].sent + 1 /\ u.at = "data" /\ u.result = tester[i].result
  <2>1. tester[i].sent < MaxPackets /\ MaxPackets \in Nat
    BY PerfAssumption DEF SendData
  <2>2. u.sent = tester[i].sent + 1 /\ u.at = "data" /\ u.result = tester[i].result /\ u.asks = tester[i].asks
    BY <1>0, <1>1, TesterFields DEF TesterRecord
  <2>3. u \in TesterRecord
    <3>1. PICK n \in Nat : n = tester[i].sent + 1
      BY <1>0, TesterFields
    <3>2. u = [tester[i] EXCEPT !.sent = n]
      BY <1>1, <3>1
    <3> QED BY <1>0, <3>2, TesterFields DEF TesterRecord
  <2>4. u.sent <= MaxPackets /\ u.asks <= MaxAsks
    BY <1>0, <2>1, <2>2, TesterFields
  <2> QED BY <2>2, <2>3, <2>4
<1>3. tester' = [tester EXCEPT ![i] = u]
  BY <1>1 DEF SendData
<1>4. /\ tester' \in [Initiator -> TesterRecord]
      /\ \A j \in Initiator : tester'[j].sent <= MaxPackets /\ tester'[j].asks <= MaxAsks
      /\ tester'[i] = u /\ \A j \in Initiator \ {i} : tester'[j] = tester[j]
  BY <1>0, <1>2, <1>3, RecordShape
<1>5. Plain("data") \in SentMessage /\ Plain("data").kind = "data" /\ "data" \in SentKinds
  BY PlainMessages DEF SentKinds
<1>6. Send(i, <<Plain("data")>>)
  BY DEF SendData
<1>7. /\ outgoing' \in [Initiator -> Seq(SentMessage)]
      /\ outgoing'[i] = outgoing[i] \o <<Plain("data")>>
      /\ \A j \in Initiator \ {i} : outgoing'[j] = outgoing[j]
  BY <1>0, <1>5, <1>6, SendShape
<1>8. PerfShape'
  BY <1>0, <1>4, <1>7, TesterShape DEF PerfShape
<1>9. PICK m \in SentMessage : m = Plain("data") /\ m.kind = "data"
  BY <1>5
<1>10. PICK q \in Seq(LinkEvent), out \in Seq(SentMessage) : q = queue[i] /\ out = outgoing[i]
  BY <1>0, TesterFields
<1>11. PICK o : o = outgoing'[i]
  OBVIOUS
<1>12. session[i].at # "none" /\ ~HasAsked(i) /\ ~Has(q, out, i, "request")
  BY <1>0, <1>10 DEF Shaken, InOrder, HasAsked
<1>13. /\ o \in Seq(SentMessage)
       /\ Ordered(q, out, i) => Ordered(q, o, i)
       /\ \A k \in SentKinds : Has(q, o, i, k) <=> Has(q, out, i, k) \/ k = "data"
       /\ Fly(q, o, i) = Fly(q, out, i) + 1
       /\ Preceded(q, out, i) /\ Has(q, out, i, "config") => Preceded(q, o, i)
  <2>1. o = out \o <<m>>
    BY <1>7, <1>9, <1>10, <1>11
  <2> QED BY <1>9, <1>12, <2>1, MessageSent
<1>14. Fly(q, out, i) \in Nat /\ tester[i].sent \in Nat /\ session[i].count \in Nat
  BY <1>0, FlyNat, TesterFields
<1>15. tester'[i].sent = tester[i].sent + 1 /\ tester'[i].at = "data" /\ tester'[i].result = tester[i].result
  BY <1>2, <1>4
<1>16. Counted(i)'
  <2>1. /\ session[i].count + Fly(q, out, i) <= tester[i].sent
        /\ i \notin hurt /\ session[i].at \in {"hello", "test"} => session[i].count + Fly(q, out, i) = tester[i].sent
    BY <1>0, <1>10 DEF Counted, InFlight
  <2>2. /\ session[i].count + (Fly(q, out, i) + 1) <= tester[i].sent + 1
        /\ i \notin hurt /\ session[i].at \in {"hello", "test"} =>
             session[i].count + (Fly(q, out, i) + 1) = tester[i].sent + 1
    BY SMTT(20), <1>14, <2>1
  <2>3. /\ session'[i].count + Fly(queue'[i], outgoing'[i], i) <= tester'[i].sent
        /\ i \notin hurt' /\ session'[i].at \in {"hello", "test"} =>
             session'[i].count + Fly(queue'[i], outgoing'[i], i) = tester'[i].sent
    BY <1>0, <1>10, <1>11, <1>13, <1>15, <2>2
  <2> QED BY <2>3 DEF Counted, InFlight
<1>17. InOrder(i)'
  <2>1. Ordered(queue'[i], outgoing'[i], i)
    BY <1>0, <1>10, <1>11, <1>13 DEF InOrder
  <2>2. ~Has(queue'[i], outgoing'[i], i, "request")
    BY <1>0, <1>10, <1>11, <1>12, <1>13 DEF SentKinds
  <2>3. i \notin hurt' /\ session'[i].at = "hello" =>
          Preceded(queue'[i], outgoing'[i], i) /\ Has(queue'[i], outgoing'[i], i, "config")
    BY <1>0, <1>10, <1>11, <1>13 DEF InOrder, SentKinds
  <2> QED BY <2>1, <2>2, <2>3 DEF InOrder
<1>18. Answers(i)'
  <2>1. ASSUME NEW k \in DOMAIN incoming'[i], incoming'[i][k].kind = "result"
        PROVE  incoming'[i][k].n <= tester'[i].sent /\ i \in hurt'
    <3>1. incoming[i] \in Seq(HeardMessage) /\ k \in DOMAIN incoming[i]
      BY <1>0, <2>1, TesterFields
    <3>2. incoming[i][k] \in HeardMessage
      BY <3>1, ElementOfSeq
    <3>3. incoming[i][k].n \in Nat
      BY <3>2 DEF HeardMessage
    <3>4. incoming[i][k].n <= tester[i].sent
      BY <1>0, <2>1, <3>1 DEF Answers
    <3>5. i \in hurt
      BY <1>0, <1>12, <2>1, <3>1 DEF Answers
    <3> QED BY <1>0, <1>14, <1>15, <3>3, <3>4, <3>5
  <2>2. tester[i].result = "none"
    BY <1>0 DEF Answers
  <2> QED BY <1>15, <2>1, <2>2 DEF Answers
<1>19. Shaken(i)'
  <2>1. Greeted(i)' => Greeted(i)
    BY <1>0 DEF Greeted
  <2>2. Has(queue'[i], outgoing'[i], i, "config") => Has(queue[i], outgoing[i], i, "config")
    BY <1>0, <1>10, <1>11, <1>13 DEF SentKinds
  <2> QED BY <1>0, <1>12, <2>1, <2>2 DEF Shaken
<1>20. Once(i)'
  BY <1>0, <1>15 DEF Once
<1>21. Fair(i)'
  BY <1>16, <1>17, <1>18, <1>19, <1>20 DEF Fair
<1> QED BY <1>0, <1>4, <1>7, <1>8, <1>21, TesterKeeps

LEMMA AsksKeep ==
  ASSUME PerfInv, NEW i \in Initiator, AskResult(i) \/ AskAgain(i) PROVE PerfInv'
<1>0. /\ PerfShape /\ Fair(i) /\ ListenerIdle /\ link' = link /\ Send(i, <<Plain("request")>>)
      /\ tester[i].at \in {"data", "result"}
  BY DEF PerfInv, AskResult, AskAgain
<1>1. PICK u \in TesterRecord :
        /\ tester' = [tester EXCEPT ![i] = u] /\ u.sent <= MaxPackets /\ u.asks <= MaxAsks
        /\ u.sent = tester[i].sent /\ u.at = "result" /\ u.result = tester[i].result
        /\ u.packets = tester[i].packets
  <2>0. MaxAsks \in Nat \ {0}
    BY PerfAssumption
  <2>1. CASE AskResult(i)
    <3> DEFINE t == [tester[i] EXCEPT !.at = "result", !.asks = 1]
    <3>1. /\ t.sent = tester[i].sent /\ t.at = "result" /\ t.result = tester[i].result
          /\ t.packets = tester[i].packets /\ t.asks = 1
      BY <1>0, TesterFields DEF TesterRecord
    <3>2. t \in TesterRecord
      BY <1>0, TesterFields DEF TesterRecord
    <3>3. t.sent <= MaxPackets /\ t.asks <= MaxAsks
      BY <1>0, <2>0, <3>1, TesterFields
    <3>4. tester' = [tester EXCEPT ![i] = t]
      BY <2>1 DEF AskResult
    <3> QED BY <3>1, <3>2, <3>3, <3>4
  <2>2. CASE AskAgain(i)
    <3> DEFINE t == [tester[i] EXCEPT !.asks = @ + 1]
    <3>0. tester[i].at = "result" /\ tester[i].asks < MaxAsks
      BY <2>2 DEF AskAgain
    <3>1. /\ t.sent = tester[i].sent /\ t.at = "result" /\ t.result = tester[i].result
          /\ t.packets = tester[i].packets /\ t.asks = tester[i].asks + 1
      BY <1>0, <3>0, TesterFields DEF TesterRecord
    <3>2. t \in TesterRecord
      <4>1. PICK n \in Nat : n = tester[i].asks + 1
        BY <1>0, TesterFields
      <4>2. t = [tester[i] EXCEPT !.asks = n]
        BY <4>1
      <4> HIDE DEF t
      <4> QED BY <1>0, <4>2, TesterFields DEF TesterRecord
    <3>3. t.sent <= MaxPackets /\ t.asks <= MaxAsks
      BY <1>0, <2>0, <3>0, <3>1, TesterFields
    <3>4. tester' = [tester EXCEPT ![i] = t]
      BY <2>2 DEF AskAgain
    <3> QED BY <3>1, <3>2, <3>3, <3>4
  <2> QED BY <2>1, <2>2
<1>2. /\ tester' \in [Initiator -> TesterRecord]
      /\ \A j \in Initiator : tester'[j].sent <= MaxPackets /\ tester'[j].asks <= MaxAsks
      /\ tester'[i] = u /\ \A j \in Initiator \ {i} : tester'[j] = tester[j]
  BY <1>0, <1>1, RecordShape
<1>3. /\ outgoing' \in [Initiator -> Seq(SentMessage)]
      /\ \A j \in Initiator \ {i} : outgoing'[j] = outgoing[j]
  BY <1>0, SendShape DEF SentKinds
<1>4. /\ incoming' \in [Initiator -> Seq(HeardMessage)] /\ Drains(i)
      /\ \A j \in Initiator \ {i} : incoming'[j] = incoming[j]
  <2>1. CASE incoming' = incoming
    BY <1>0, <2>1 DEF Drains, PerfShape
  <2>2. CASE incoming' = [incoming EXCEPT ![i] = <<>>]
    <3>1. <<>> \in Seq(HeardMessage) /\ DOMAIN <<>> = {}
      BY EmptySeq
    <3>2. incoming'[i] = <<>>
      BY <1>0, <2>2, TesterFields
    <3> QED BY <1>0, <2>2, <3>1, <3>2 DEF Drains, PerfShape
  <2> QED BY <2>1, <2>2 DEF AskResult, AskAgain
<1>5. PerfShape'
  BY <1>0, <1>2, <1>3, <1>4, TesterShape DEF PerfInv
<1>6. session[i].at # "none"
  BY <1>0 DEF Fair, Shaken
<1>7. HasAsked(i)' /\ Closing(i) /\ tester'[i].sent = tester[i].sent /\ tester'[i].at = "result"
  <2>1. tester[i].at # "over"
    BY <1>0
  <2> QED BY <1>1, <1>2, <2>1 DEF HasAsked, Closing
<1>8. Fair(i)'
  BY <1>0, <1>4, <1>5, <1>6, <1>7, Sends
<1> QED BY <1>0, <1>2, <1>3, <1>4, <1>5, <1>8, TesterKeeps

LEMMA ResultKeeps ==
  ASSUME PerfInv, NEW i \in Initiator, Result(i) PROVE PerfInv'
<1>0. /\ PerfShape /\ Fair(i) /\ ListenerIdle /\ link' = link /\ outgoing' = outgoing
      /\ tester[i].at = "result" /\ incoming[i] # <<>> /\ incoming' = [incoming EXCEPT ![i] = Tail(@)]
  BY DEF PerfInv, Result, TakeEvent
<1>1. CASE Event(i) \in {"error", "closed"} /\ Over(i, "no result")
  BY <1>0, <1>1, MovesOn DEF Outcomes
<1>2. CASE /\ Event(i) = "result"
           /\ tester' = [tester EXCEPT ![i].at = "over", ![i].result = "result",
                                       ![i].packets = Head(incoming[i]).n]
  <2>1. PICK h : h = incoming[i][1] /\ h = Head(incoming[i]) /\ h \in HeardMessage /\ 1 \in DOMAIN incoming[i]
    BY <1>0, TesterFields, TailOne
  <2>2. h.n \in Nat /\ h.kind = "result"
    BY <1>2, <2>1 DEF HeardMessage, Event
  <2> DEFINE t == [tester[i] EXCEPT !.at = "over", !.result = "result", !.packets = h.n]
  <2>3. PICK u : u = t
    OBVIOUS
  <2>4. /\ u \in TesterRecord /\ u.sent <= MaxPackets /\ u.asks <= MaxAsks
        /\ u.sent = tester[i].sent /\ u.at = "over" /\ u.result = "result" /\ u.packets = h.n
    BY <1>0, <2>2, <2>3, TesterFields DEF TesterRecord, PerfShape
  <2>5. tester' = [tester EXCEPT ![i] = u]
    BY <1>2, <2>1, <2>3
  <2>6. /\ tester' \in [Initiator -> TesterRecord]
        /\ \A j \in Initiator : tester'[j].sent <= MaxPackets /\ tester'[j].asks <= MaxAsks
        /\ tester'[i] = u /\ \A j \in Initiator \ {i} : tester'[j] = tester[j]
    BY <1>0, <2>4, <2>5, RecordShape
  <2>7. /\ incoming' \in [Initiator -> Seq(HeardMessage)] /\ Drains(i)
        /\ \A j \in Initiator \ {i} : incoming'[j] = incoming[j]
    BY <1>0, TakeShape, TailDrains
  <2>8. PerfShape'
    BY <1>0, <2>6, <2>7, TesterShape DEF PerfShape
  <2>9. /\ tester'[i].sent = tester[i].sent /\ tester'[i].at = "over" /\ tester'[i].result = "result"
        /\ tester'[i].packets = h.n
    BY <2>4, <2>6
  <2>10. /\ queue'[i] = queue[i] /\ queue'[Main] = queue[Main] /\ session'[i] = session[i] /\ hurt' = hurt
    BY <1>0 DEF ListenerIdle
  <2>11. Onward(i) /\ LosesKnown(i)
    BY <1>0, <2>9, <2>10, WayUnchanged DEF Onward, HasAsked
  <2>12. Counted(i)' /\ InOrder(i)'
    BY <1>0, <2>8, <2>9, <2>10, <2>11, CountedKept, InOrderKept DEF Fair
  <2>13. Answers(i)'
    <3>1. ASSUME NEW k \in DOMAIN incoming'[i], incoming'[i][k].kind = "result"
          PROVE  /\ incoming'[i][k].n <= tester'[i].sent
                 /\ i \notin hurt' => incoming'[i][k].n = tester'[i].sent /\ HasAsked(i)'
      <4>1. PICK l \in DOMAIN incoming[i] : incoming[i][l] = incoming'[i][k]
        BY <2>7, <3>1 DEF Drains
      <4> QED BY <1>0, <2>9, <2>10, <2>11, <3>1, <4>1 DEF Fair, Answers, Onward
    <3>2. h.n <= tester[i].sent /\ (i \notin hurt => h.n = tester[i].sent)
      BY <1>0, <2>1, <2>2 DEF Fair, Answers
    <3> QED BY <2>9, <2>10, <3>1, <3>2 DEF Answers
  <2>14. Greeted(i)' => Greeted(i)
    BY <2>7 DEF Greeted, Drains
  <2>15. Shaken(i)'
    BY <1>0, <2>9, <2>10, <2>11, <2>14, ShakenKept DEF Fair, Shaken
  <2>16. Once(i)'
    BY <1>0, <2>9, <2>10 DEF Fair, Once
  <2>17. Fair(i)'
    BY <2>12, <2>13, <2>15, <2>16 DEF Fair
  <2> QED BY <1>0, <2>6, <2>7, <2>8, <2>17, TesterKeeps
<1> QED BY <1>1, <1>2 DEF Result

--------------------------------------------------------------------------------
(* Links, and what is posted and lost on them.                             *)

\* Another event for an initiator.
LEMMA Heard ==
  ASSUME PerfShape, NEW i \in Initiator, NEW m \in HeardMessage, incoming' = [incoming EXCEPT ![i] = Append(@, m)]
  PROVE  /\ incoming' \in [Initiator -> Seq(HeardMessage)]
         /\ \A j \in Initiator \ {i} : incoming'[j] = incoming[j]
         /\ \A k \in DOMAIN incoming'[i] :
              (\E l \in DOMAIN incoming[i] : incoming[i][l] = incoming'[i][k]) \/ incoming'[i][k] = m
<1>1. incoming[i] \in Seq(HeardMessage) /\ incoming'[i] = Append(incoming[i], m)
  BY TesterFields
<1>2. Append(incoming[i], m) \in Seq(HeardMessage)
  BY <1>1, AppendOne
<1>3. \A j \in Initiator \ {i} : incoming'[j] = incoming[j]
  BY TesterFields
<1>4. incoming' \in [Initiator -> Seq(HeardMessage)]
  BY <1>2 DEF PerfShape
<1>5. ASSUME NEW k \in DOMAIN incoming'[i]
      PROVE  (\E l \in DOMAIN incoming[i] : incoming[i][l] = incoming'[i][k]) \/ incoming'[i][k] = m
  <2>1. k \in 1 .. Len(incoming[i]) \/ k = Len(incoming[i]) + 1
    BY <1>1, <1>5, AppendOne
  <2> QED BY <1>1, <2>1, AppendOne
<1> QED BY <1>3, <1>4, <1>5

\* A link's own event that is no message: it comes up or is closed.
LEMMA LinkEventKeeps ==
  ASSUME PerfInv, NEW i \in Initiator, NEW kind \in {"activated", "closed"}, Post(i, Plain(kind)),
         incoming' = incoming \/ incoming' = [incoming EXCEPT ![i] = Append(@, Plain(kind))],
         NEW new \in {"up", "closed"}, link' = [link EXCEPT ![i] = new],
         kind = "activated" => link[i] = "requested", kind = "closed" => new = "closed" /\ link[i] = "up",
         losses' \in 0 .. MaxLosses, tester' = tester, outgoing' = outgoing, session' = session,
         foreign' = foreign
  PROVE  PerfInv'
<1>0. PerfShape /\ Fair(i)
  BY DEF PerfInv
<1>1. PICK m \in LinkMessage : m = Plain(kind) /\ m.kind = kind /\ m \in HeardMessage /\ m.kind \notin SentKinds
  BY PlainMessages DEF SentKinds
<1>2. Post(i, m)
  BY <1>1
<1>3. /\ queue' \in [Initiator \cup {Main} -> Seq(LinkEvent)]
      /\ \A r \in Initiator \cup {Main} : Len(queue'[r]) <= Capacity
      /\ hurt \subseteq hurt' /\ hurt' \subseteq Initiator \cup Others
  <2>1. PICK e : e = [link |-> i, msg |-> m]
    OBVIOUS
  <2> QED BY <1>0, <1>2, <2>1, PostOne
<1>4. /\ incoming' \in [Initiator -> Seq(HeardMessage)]
      /\ \A j \in Initiator \ {i} : incoming'[j] = incoming[j]
      /\ \A k \in DOMAIN incoming'[i] :
           (\E l \in DOMAIN incoming[i] : incoming[i][l] = incoming'[i][k]) \/ incoming'[i][k].kind = kind
  <2>1. CASE incoming' = incoming
    BY <1>0, <2>1 DEF PerfShape
  <2>2. CASE incoming' = [incoming EXCEPT ![i] = Append(@, m)]
    <3>1. m \in HeardMessage /\ m.kind = kind
      BY <1>1
    <3>2. /\ incoming' \in [Initiator -> Seq(HeardMessage)]
          /\ \A j \in Initiator \ {i} : incoming'[j] = incoming[j]
          /\ \A k \in DOMAIN incoming'[i] :
               (\E l \in DOMAIN incoming[i] : incoming[i][l] = incoming'[i][k]) \/ incoming'[i][k] = m
      BY ZenonT(40), <1>0, <2>2, <3>1, Heard
    <3> QED BY <3>1, <3>2
  <2> QED BY <1>1, <2>1, <2>2
<1>5. link' \in [Initiator -> {"none", "requested", "up", "closed"}]
      /\ link'[i] = new /\ \A j \in Initiator \ {i} : link'[j] = link[j]
  BY <1>0 DEF PerfShape
<1>6. PerfShape'
  BY <1>0, <1>3, <1>4, <1>5 DEF PerfShape
<1>7. ASSUME NEW j \in Initiator \ {i} PROVE Fair(j)'
  <2>1. Fair(j) /\ j \in Initiator /\ i # j
    BY DEF PerfInv
  <2> QED BY <1>0, <1>2, <1>4, <1>5, <1>6, <2>1, Passed
<1>8. LosesKnown(i) /\ (session[i].at = "none" => queue'[i] = queue[i])
  <2>1. session[i].at = "none" => i \notin Receiving
    BY PerfAssumption DEF Receiving
  <2> QED BY <1>0, <1>1, <1>2, <1>3, <2>1, PostNeutral DEF LosesKnown
<1>9. Onward(i) /\ Closing(i)
  BY DEF Onward, Closing, HasAsked
<1>10. Counted(i)' /\ InOrder(i)'
  BY <1>0, <1>6, <1>8, <1>9, CountedKept, InOrderKept DEF Fair
<1>11. Answers(i)'
  BY <1>0, <1>3, <1>4, <1>9, AnswersKept DEF Fair
<1>12. Greeted(i)' => Greeted(i)
  BY <1>4 DEF Greeted
<1>13. Shaken(i)'
  BY <1>0, <1>8, <1>9, <1>12, ShakenKept DEF Fair, Shaken
<1>14. Once(i)'
  <2>0. /\ Once(i) /\ (kind = "activated" => ~Announced(queue[Main], i) /\ session[i].at = "none")
    BY <1>0 DEF Fair, Once
  <2>1. /\ Announced(queue'[Main], i) => Announced(queue[Main], i) \/ kind = "activated"
        /\ Singly(queue'[Main], i)
    BY <1>0, <1>1, <1>2, <2>0, PostMain DEF Once
  <2>2. tester'[i].at = "start" => link'[i] = "none"
    BY <2>0 DEF Once
  <2>3. link'[i] \notin {"none", "requested"}
    BY <1>5
  <2>4. session'[i].at # "none" => ~Announced(queue'[Main], i)
    BY <2>0, <2>1 DEF Once
  <2> QED BY <2>1, <2>2, <2>3, <2>4 DEF Once
<1> QED BY <1>6, <1>7, <1>10, <1>11, <1>13, <1>14 DEF PerfInv, Fair

LEMMA EstablishKeeps ==
  ASSUME PerfInv, NEW i \in Initiator, Establish(i) PROVE PerfInv'
<1>1. losses' \in 0 .. MaxLosses
  BY DEF PerfInv, PerfShape, Establish
<1> QED BY <1>1, LinkEventKeeps DEF Establish

LEMMA CloseKeeps ==
  ASSUME PerfInv, NEW i \in Initiator, Close(i) PROVE PerfInv'
<1>1. losses' \in 0 .. MaxLosses
  BY PerfAssumption DEF PerfInv, PerfShape, Close
<1> QED BY <1>1, LinkEventKeeps DEF Close

LEMMA ForeignKeeps ==
  ASSUME PerfInv, NEW l \in Others, NEW kind \in {"version", "data", "request"}, Foreign(l, kind)
  PROVE  PerfInv'
<1>0. PerfShape /\ \A i \in Initiator : l # i
  BY PerfAssumption DEF PerfInv
<1>1. PICK m \in LinkMessage : m = Plain(kind)
  BY PlainMessages DEF SentKinds
<1>2. Post(l, m)
  BY <1>1 DEF Foreign
<1>3. /\ queue' \in [Initiator \cup {Main} -> Seq(LinkEvent)]
      /\ \A r \in Initiator \cup {Main} : Len(queue'[r]) <= Capacity
      /\ hurt \subseteq hurt' /\ hurt' \subseteq Initiator \cup Others
  <2>1. PICK e : e = [link |-> l, msg |-> m]
    OBVIOUS
  <2> QED BY <1>0, <1>2, <2>1, PostOne
<1>4. foreign' \in 0 .. MaxForeign
  BY <1>0, PerfAssumption DEF PerfShape, Foreign
<1>5. PerfShape'
  BY <1>0, <1>3, <1>4 DEF PerfShape, Foreign
<1>6. ASSUME NEW i \in Initiator PROVE Fair(i)'
  BY <1>0, <1>2, <1>5, Passed DEF PerfInv, Foreign
<1> QED BY <1>5, <1>6 DEF PerfInv

LEMMA DeliverKeeps ==
  ASSUME PerfInv, NEW i \in Initiator, Deliver(i) PROVE PerfInv'
<1>0. /\ PerfShape /\ Fair(i) /\ outgoing[i] # <<>> /\ tester' = tester /\ link' = link
      /\ incoming' = incoming /\ session' = session
  BY DEF PerfInv, Deliver
<1>1. PICK m \in LinkMessage : m = Head(outgoing[i])
  BY <1>0, TesterFields, TailOne, PlainMessages
<1>2. Post(i, m)
  BY <1>1 DEF Deliver
<1>3. PICK e : e = [link |-> i, msg |-> m]
  OBVIOUS
<1>4. /\ queue' \in [Initiator \cup {Main} -> Seq(LinkEvent)]
      /\ \A r \in Initiator \cup {Main} : Len(queue'[r]) <= Capacity
      /\ hurt \subseteq hurt' /\ hurt' \subseteq Initiator \cup Others
  BY <1>0, <1>2, <1>3, PostOne
<1>5. /\ outgoing'[i] = Tail(outgoing[i]) /\ outgoing'[i] \in Seq(SentMessage)
      /\ outgoing' \in [Initiator -> Seq(SentMessage)]
      /\ \A j \in Initiator \ {i} : outgoing'[j] = outgoing[j]
  <2>1. Tail(outgoing[i]) \in Seq(SentMessage)
    BY <1>0, TesterFields, TailOne
  <2> QED BY <1>0, <2>1, TesterFields DEF Deliver, PerfShape
<1>6. PerfShape'
  BY <1>0, <1>4, <1>5 DEF PerfShape, Deliver
<1>7. ASSUME NEW j \in Initiator \ {i} PROVE Fair(j)'
  BY <1>0, <1>2, <1>5, <1>6, Passed DEF PerfInv
<1>8. LosesKnown(i) /\ (i \notin Receiving => queue'[i] = queue[i])
  <2>1. PICK q \in Seq(LinkEvent), out \in Seq(SentMessage) : q = queue[i] /\ out = outgoing[i]
    BY <1>0, TesterFields
  <2>2. Weaker(q, Tail(out), q, out, i)
    BY <1>0, <2>1, MessageLost
  <2>3. CASE i \notin Receiving
    <3>1. queue'[i] = queue[i] /\ session[i].at \notin {"hello", "test"}
      BY <1>0, <1>2, <1>3, <2>3, PostOne, PerfAssumption DEF Receiving
    <3> QED BY <1>4, <1>5, <2>1, <2>2, <3>1 DEF LosesKnown
  <2>4. CASE i \in Receiving
    <3>1. PICK b \in Seq(LinkEvent) :
            /\ b = queue[i] \/ (queue[i] # <<>> /\ b = Tail(queue[i]) /\ queue[i][1].link \in hurt')
            /\ queue'[i] = Append(b, e)
      BY <1>0, <1>2, <1>3, <2>4, PostOne
    <3>2. /\ Weaker(Append(b, e), Tail(out), b, out, i)
          /\ Same(Append(b, e), Tail(out), b, out, i)
      BY <1>0, <1>1, <1>3, <2>1, OldestMoves
    <3>3. CASE b = q
      BY <1>4, <1>5, <2>1, <2>4, <3>1, <3>2, <3>3 DEF LosesKnown
    <3>4. CASE q # <<>> /\ b = Tail(q) /\ q[1].link \in hurt'
      <4>1. /\ Weaker(b, out, q, out, i)
            /\ q[1].link # i => Same(b, out, q, out, i)
        BY <3>4, OldestGoes
      <4>2. Fly(q, out, i) \in Nat /\ Fly(b, out, i) \in Nat
        BY FlyNat
      <4>3. Weaker(Append(b, e), Tail(out), q, out, i)
        BY <3>2, <4>1, <4>2 DEF Weaker, Same
      <4>4. i \notin hurt' => Same(Append(b, e), Tail(out), q, out, i)
        BY <3>2, <3>4, <4>1 DEF Same
      <4> QED BY <1>4, <1>5, <2>1, <2>4, <3>1, <4>3, <4>4 DEF LosesKnown
    <3> QED BY <2>1, <3>1, <3>3, <3>4
  <2> QED BY <2>3, <2>4
<1>9. Onward(i) /\ Closing(i)
  BY <1>0 DEF Onward, Closing, HasAsked
<1>10. Counted(i)' /\ InOrder(i)'
  BY <1>0, <1>6, <1>8, <1>9, CountedKept, InOrderKept DEF Fair
<1>11. Answers(i)'
  BY <1>0, <1>4, <1>9, AnswersKept DEF Fair
<1>12. Greeted(i)' => Greeted(i)
  BY <1>0 DEF Greeted
<1>13. session[i].at = "none" =>
         queue'[i] = <<>> /\ \A k \in DOMAIN outgoing'[i] : outgoing'[i][k].kind = "version"
  <2>1. session[i].at = "none" => i \notin Receiving
    BY PerfAssumption DEF Receiving
  <2>2. ASSUME NEW k \in DOMAIN outgoing'[i]
        PROVE  k + 1 \in DOMAIN outgoing[i] /\ outgoing'[i][k] = outgoing[i][k + 1]
    BY <1>0, <1>5, <2>2, TesterFields, TailOne
  <2> QED BY <1>0, <1>8, <2>1, <2>2 DEF Fair, Shaken
<1>14. Shaken(i)'
  BY <1>0, <1>8, <1>9, <1>12, <1>13, ShakenKept DEF Fair, Shaken
<1>15. Once(i)'
  <2>1. m.kind # "activated"
    <3>1. m \in SentMessage
      BY <1>0, <1>1, TesterFields, TailOne
    <3> QED BY <3>1 DEF SentMessage, SentKinds
  <2>2. /\ Announced(queue'[Main], i) => Announced(queue[Main], i)
        /\ Singly(queue'[Main], i)
    BY <1>0, <1>2, <2>1, PostMain DEF Fair, Once
  <2> QED BY <1>0, <2>2 DEF Fair, Once
<1> QED BY <1>6, <1>7, <1>10, <1>11, <1>14, <1>15 DEF PerfInv, Fair

LEMMA LoseKeeps ==
  ASSUME PerfInv, NEW i \in Initiator, Lose(i) PROVE PerfInv'
<1>0. /\ PerfShape /\ Fair(i) /\ tester' = tester /\ link' = link /\ queue' = queue /\ session' = session
      /\ foreign' = foreign /\ losses' \in 0 .. MaxLosses
      /\ hurt \subseteq hurt' /\ i \in hurt' /\ hurt' \subseteq Initiator \cup Others
  BY PerfAssumption DEF PerfInv, PerfShape, Lose
<1>1. CASE outgoing[i] # <<>> /\ outgoing' = [outgoing EXCEPT ![i] = Tail(@)] /\ incoming' = incoming
  <2>1. /\ outgoing'[i] = Tail(outgoing[i]) /\ outgoing'[i] \in Seq(SentMessage)
        /\ outgoing' \in [Initiator -> Seq(SentMessage)]
        /\ \A j \in Initiator \ {i} : outgoing'[j] = outgoing[j]
    <3>1. Tail(outgoing[i]) \in Seq(SentMessage)
      BY <1>0, <1>1, TesterFields, TailOne
    <3> QED BY <1>0, <1>1, <3>1, TesterFields DEF PerfShape
  <2>2. PerfShape'
    BY <1>0, <1>1, <2>1 DEF PerfShape
  <2>3. ASSUME NEW j \in Initiator \ {i} PROVE Fair(j)'
    BY <1>0, <1>1, <2>1, <2>2, Apart DEF PerfInv
  <2>4. LosesKnown(i)
    BY <1>0, <1>1, <2>1, TesterFields, MessageLost DEF LosesKnown
  <2>5. Onward(i) /\ Closing(i)
    BY <1>0 DEF Onward, Closing, HasAsked
  <2>6. Counted(i)' /\ InOrder(i)'
    BY <1>0, <2>2, <2>4, <2>5, CountedKept, InOrderKept DEF Fair
  <2>7. Answers(i)'
    BY <1>0, <1>1, <2>5, AnswersKept DEF Fair
  <2>8. Greeted(i)' => Greeted(i)
    BY <1>1 DEF Greeted
  <2>9. ASSUME NEW k \in DOMAIN outgoing'[i]
        PROVE  k + 1 \in DOMAIN outgoing[i] /\ outgoing'[i][k] = outgoing[i][k + 1]
    BY <1>0, <1>1, <2>1, <2>9, TesterFields, TailOne
  <2>10. Shaken(i)'
    BY <1>0, <2>4, <2>5, <2>8, <2>9, ShakenKept DEF Fair, Shaken
  <2>11. Once(i)'
    BY <1>0 DEF Fair, Once
  <2> QED BY <2>2, <2>3, <2>6, <2>7, <2>10, <2>11 DEF PerfInv, Fair
<1>2. CASE incoming[i] # <<>> /\ incoming' = [incoming EXCEPT ![i] = Tail(@)] /\ outgoing' = outgoing
  <2>1. /\ incoming' \in [Initiator -> Seq(HeardMessage)] /\ Drains(i)
        /\ \A j \in Initiator \ {i} : incoming'[j] = incoming[j]
    BY <1>0, <1>2, TakeShape, TailDrains
  <2>2. PerfShape'
    BY <1>0, <1>2, <2>1 DEF PerfShape
  <2>3. ASSUME NEW j \in Initiator \ {i} PROVE Fair(j)'
    BY <1>0, <1>2, <2>1, <2>2, Apart DEF PerfInv
  <2>4. LosesKnown(i)
    BY <1>0, <1>2, WayUnchanged
  <2>5. Onward(i) /\ Closing(i)
    BY <1>0 DEF Onward, Closing, HasAsked
  <2>6. Counted(i)' /\ InOrder(i)'
    BY <1>0, <2>2, <2>4, <2>5, CountedKept, InOrderKept DEF Fair
  <2>7. Answers(i)'
    BY <1>0, <2>1, <2>5, AnswersKept DEF Fair, Drains
  <2>8. Greeted(i)' => Greeted(i)
    BY <2>1 DEF Greeted, Drains
  <2>9. Shaken(i)'
    BY <1>0, <1>2, <2>4, <2>5, <2>8, ShakenKept DEF Fair, Shaken
  <2>10. Once(i)'
    BY <1>0 DEF Fair, Once
  <2> QED BY <2>2, <2>3, <2>6, <2>7, <2>9, <2>10 DEF PerfInv, Fair
<1> QED BY <1>1, <1>2 DEF Lose

--------------------------------------------------------------------------------
(* The listener's steps.                                                   *)

LEMMA RestShape ==
  ASSUME PerfShape, tester' = tester, outgoing' = outgoing, losses' = losses, foreign' = foreign,
         link' \in [Initiator -> {"none", "requested", "up", "closed"}],
         incoming' \in [Initiator -> Seq(HeardMessage)],
         queue' \in [Initiator \cup {Main} -> Seq(LinkEvent)],
         \A r \in Initiator \cup {Main} : Len(queue'[r]) <= Capacity,
         session' \in [Initiator -> SessionRecord],
         hurt' \subseteq Initiator \cup Others
  PROVE  PerfShape'
BY DEF PerfShape

\* A receiver takes its oldest event.
LEMMA TakenShape ==
  ASSUME PerfShape, NEW r \in Initiator \cup {Main}, queue[r] # <<>>, queue' = [queue EXCEPT ![r] = Tail(@)]
  PROVE  /\ queue' \in [Initiator \cup {Main} -> Seq(LinkEvent)]
         /\ \A s \in Initiator \cup {Main} : Len(queue'[s]) <= Capacity
         /\ queue'[r] = Tail(queue[r])
         /\ \A s \in (Initiator \cup {Main}) \ {r} : queue'[s] = queue[s]
<1>1. /\ queue \in [Initiator \cup {Main} -> Seq(LinkEvent)]
      /\ \A s \in Initiator \cup {Main} : Len(queue[s]) <= Capacity
  BY DEF PerfShape
<1>2. Tail(queue[r]) \in Seq(LinkEvent) /\ Len(queue[r]) \in Nat /\ Len(Tail(queue[r])) = Len(queue[r]) - 1
  BY <1>1, TailOne
<1>3. Len(Tail(queue[r])) <= Capacity
  <2>1. Len(queue[r]) <= Capacity /\ Capacity \in Nat
    BY <1>1, PerfAssumption
  <2> QED BY <1>2, <2>1
<1> QED BY <1>1, <1>2, <1>3

LEMMA MainTaken ==
  ASSUME PerfShape, NEW i \in Initiator, queue[Main] # <<>>
  PROVE  /\ Announced(Tail(queue[Main]), i) => Announced(queue[Main], i)
         /\ Singly(queue[Main], i) => Singly(Tail(queue[Main]), i)
         /\ Is(queue[Main], 1, i, "activated") =>
              Announced(queue[Main], i) /\ (Singly(queue[Main], i) => ~Announced(Tail(queue[Main]), i))
<1>1. queue[Main] \in Seq(LinkEvent)
  BY DEF PerfShape
<1>2. ASSUME NEW k \in DOMAIN Tail(queue[Main]), Is(Tail(queue[Main]), k, i, "activated")
      PROVE  k + 1 \in DOMAIN queue[Main] /\ Is(queue[Main], k + 1, i, "activated") /\ k \in Nat \ {0}
  BY <1>1, <1>2, TailOne DEF Is
<1>3. 1 \in DOMAIN queue[Main]
  BY <1>1, TailOne
<1>4. Announced(Tail(queue[Main]), i) => Announced(queue[Main], i)
  BY <1>2 DEF Announced
<1>5. Singly(queue[Main], i) => Singly(Tail(queue[Main]), i)
  BY <1>2 DEF Singly
<1>6. ASSUME Is(queue[Main], 1, i, "activated"), Singly(queue[Main], i), Announced(Tail(queue[Main]), i)
      PROVE  FALSE
  <2>1. PICK k \in DOMAIN Tail(queue[Main]) : Is(Tail(queue[Main]), k, i, "activated")
    BY <1>6 DEF Announced
  <2>2. k + 1 = 1 /\ k \in Nat \ {0}
    BY <1>2, <1>3, <1>6, <2>1 DEF Singly
  <2> QED BY <2>2
<1> QED BY <1>3, <1>4, <1>5, <1>6 DEF Announced

LEMMA AcceptKeeps ==
  ASSUME PerfInv, Accept PROVE PerfInv'
<1>0. /\ PerfShape /\ queue[Main] # <<>> /\ queue' = [queue EXCEPT ![Main] = Tail(@)]
      /\ tester' = tester /\ link' = link /\ outgoing' = outgoing /\ incoming' = incoming
      /\ losses' = losses /\ foreign' = foreign
  BY DEF PerfInv, Accept
<1>m. Main \notin Initiator
  BY PerfAssumption
<1>1. /\ queue' \in [Initiator \cup {Main} -> Seq(LinkEvent)]
      /\ \A s \in Initiator \cup {Main} : Len(queue'[s]) <= Capacity
      /\ queue'[Main] = Tail(queue[Main])
      /\ \A s \in Initiator : queue'[s] = queue[s]
  BY <1>0, <1>m, TakenShape
<1>2. PICK e \in LinkEvent : e = Head(queue[Main]) /\ e = queue[Main][1]
  <2>1. queue[Main] \in Seq(LinkEvent)
    BY <1>0 DEF PerfShape
  <2> QED BY <1>0, <2>1, TailOne
<1>3. hurt \subseteq hurt' /\ hurt' \subseteq Initiator \cup Others
  <2>1. queue[Main] \in Seq(LinkEvent) /\ hurt \subseteq Initiator \cup Others
    BY <1>0 DEF PerfShape
  <2>2. ASSUME NEW k \in 2 .. Len(queue[Main]) PROVE queue[Main][k].link \in Initiator \cup Others
    <3>1. k \in 1 .. Len(queue[Main])
      BY <2>1, <2>2
    <3>2. queue[Main][k] \in LinkEvent
      BY <2>1, <3>1, ElementOfSeq
    <3> QED BY <3>2 DEF LinkEvent
  <2>3. hurt' = hurt \/ hurt' = hurt \cup {queue[Main][k].link : k \in 2 .. Len(queue[Main])}
    BY DEF Accept
  <2> QED BY <2>1, <2>2, <2>3
<1>4. CASE e.msg.kind = "activated" /\ e.link \in Initiator
  <2>1. PICK i \in Initiator : i = e.link
    BY <1>4
  <2>2. PICK at \in {"hello", "over"} : session' = [session EXCEPT ![i].at = at]
    <3>1. session' = [session EXCEPT ![e.link].at = IF link[e.link] = "up" THEN "hello" ELSE "over"]
      BY <1>2, <1>4 DEF Accept
    <3> QED BY <2>1, <3>1
  <2> DEFINE t == [session[i] EXCEPT !.at = at]
  <2>3. /\ t \in SessionRecord /\ t.at = at /\ t.count = session[i].count /\ t.version = session[i].version
    BY <1>0, TesterFields DEF SessionRecord
  <2>4. session' = [session EXCEPT ![i] = t]
    BY <2>2
  <2>5. /\ session' \in [Initiator -> SessionRecord]
        /\ session'[i].at = at /\ session'[i].count = session[i].count
        /\ session'[i].version = session[i].version
        /\ \A j \in Initiator \ {i} : session'[j] = session[j]
    BY <1>0, <2>3, <2>4 DEF PerfShape
  <2>6. PerfShape'
    BY <1>0, <1>1, <1>3, <2>5, RestShape DEF PerfShape
  <2>7. ASSUME NEW j \in Initiator \ {i} PROVE Fair(j)'
    <3>1. Fair(j) /\ LosesKnown(j)
      BY <1>0, <1>1, <1>3, WayUnchanged DEF PerfInv
    <3>2. /\ Announced(queue'[Main], j) => Announced(queue[Main], j)
          /\ Singly(queue'[Main], j)
      BY <1>0, <1>1, <3>1, MainTaken DEF Fair, Once
    <3> QED BY <1>0, <1>1, <2>5, <2>6, <3>1, <3>2, Bystander
  <2>8. /\ Fair(i) /\ Is(queue[Main], 1, i, "activated")
    BY <1>2, <1>4, <2>1 DEF PerfInv, Is
  <2>9. /\ Announced(queue[Main], i) /\ ~Announced(queue'[Main], i) /\ Singly(queue'[Main], i)
    BY <1>0, <1>1, <2>8, MainTaken DEF Fair, Once
  <2>10. /\ session[i].at = "none" /\ link[i] \notin {"none", "requested"}
         /\ session[i].count = 0 /\ queue[i] = <<>> /\ ~Greeted(i)
         /\ tester[i].sent = 0 /\ tester[i].at \notin {"data", "result"}
         /\ \A k \in DOMAIN outgoing[i] : outgoing[i][k].kind = "version"
    BY <2>8, <2>9 DEF Fair, Once, Shaken
  <2>11. PICK q \in Seq(LinkEvent), out \in Seq(SentMessage) :
           q = queue[i] /\ out = outgoing[i] /\ q = queue'[i] /\ out = outgoing'[i]
    BY <1>0, <1>1, TesterFields
  <2>12. DOMAIN q = {} /\ \A k \in DOMAIN out : out[k].kind = "version"
    BY <2>10, <2>11
  <2>13. Fly(q, out, i) = 0
    <3>1. Number(q, DataOf(i)) = 0 /\ Number(out, DataSent) = 0
      BY <2>12, NumberNone DEF DataSent
    <3> QED BY <3>1 DEF Fly
  <2>14. Counted(i)'
    BY <1>0, <2>5, <2>10, <2>11, <2>13 DEF Counted, InFlight
  <2>15. InOrder(i)'
    <3>1. Ordered(q, out, i) /\ Preceded(q, out, i)
      BY <2>12 DEF Ordered, Preceded
    <3>2. ~Has(q, out, i, "request")
      BY <2>12 DEF Has
    <3> QED BY <1>0, <2>10, <2>11, <3>1, <3>2 DEF InOrder
  <2>16. Answers(i)'
    <3>1. Onward(i) /\ Closing(i)
      BY <1>0 DEF Onward, Closing, HasAsked
    <3> QED BY <1>0, <1>3, <2>8, <3>1, AnswersKept DEF Fair
  <2>17. Shaken(i)'
    <3>1. ~Has(q, out, i, "config")
      BY <2>12 DEF Has
    <3>2. ~Greeted(i)'
      BY <1>0, <2>10 DEF Greeted
    <3>3. session'[i].at # "none"
      BY <2>5
    <3> QED BY <2>11, <3>1, <3>2, <3>3 DEF Shaken
  <2>18. Once(i)'
    BY <1>0, <2>8, <2>9, <2>10 DEF Fair, Once
  <2> QED BY <2>6, <2>7, <2>14, <2>15, <2>16, <2>17, <2>18 DEF PerfInv, Fair
<1>5. CASE ~(e.msg.kind = "activated" /\ e.link \in Initiator)
  <2>1. session' = session
    <3>1. CASE e.msg.kind = "activated"
      <4>1. session' = [session EXCEPT ![e.link].at = IF link[e.link] = "up" THEN "hello" ELSE "over"]
        BY <1>2, <3>1 DEF Accept
      <4>2. session \in [Initiator -> SessionRecord] /\ e.link \notin Initiator
        BY <1>0, <1>5, <3>1 DEF PerfShape
      <4> QED BY <4>1, <4>2
    <3>2. CASE e.msg.kind # "activated"
      BY <1>2, <3>2 DEF Accept
    <3> QED BY <3>1, <3>2
  <2>2. PerfShape'
    BY <1>0, <1>1, <1>3, <2>1, RestShape DEF PerfShape
  <2>3. ASSUME NEW j \in Initiator PROVE Fair(j)'
    <3>1. Fair(j) /\ LosesKnown(j)
      BY <1>0, <1>1, <1>3, WayUnchanged DEF PerfInv
    <3>2. /\ Announced(queue'[Main], j) => Announced(queue[Main], j)
          /\ Singly(queue'[Main], j)
      BY <1>0, <1>1, <3>1, MainTaken DEF Fair, Once
    <3> QED BY <1>0, <1>1, <2>1, <2>2, <3>1, <3>2, Bystander
  <2> QED BY <2>2, <2>3 DEF PerfInv
<1> QED BY <1>4, <1>5

\* A session takes an event. What it means for the answers is shown apart.
LEMMA SessionTakes ==
  ASSUME PerfInv, PerfShape', NEW i \in Initiator, TesterIdle,
         queue[i] # <<>>, queue' = [queue EXCEPT ![i] = Tail(@)],
         NEW s \in SessionRecord, session' = [session EXCEPT ![i] = s],
         \A j \in Initiator \ {i} : incoming'[j] = incoming[j],
         session[i].at \in {"hello", "test"}, s.at # "none",
         s.at = "hello" => session[i].at = "hello" /\ ~Is(queue[i], 1, i, "config"),
         session[i].version \/ Greeted(i)' => s.version,
         \/ s.count = session[i].count + 1 /\ session[i].at = "test" /\ Is(queue[i], 1, i, "data")
         \/ s.count = session[i].count /\ (s.at = "over" \/ session[i].at = "hello" \/ ~Is(queue[i], 1, i, "data")),
         Answers(i)'
  PROVE  PerfInv'
<1>m. Main \notin Initiator
  BY PerfAssumption
<1>0. /\ PerfShape /\ Counted(i) /\ Shaken(i) /\ InOrder(i) /\ Once(i)
      /\ tester' = tester /\ link' = link /\ outgoing' = outgoing /\ hurt' = hurt
  BY DEF PerfInv, Fair, TesterIdle
<1>1. /\ queue'[i] = Tail(queue[i]) /\ queue'[Main] = queue[Main]
      /\ \A j \in Initiator \ {i} : queue'[j] = queue[j]
  BY <1>0, <1>m, TakenShape
<1>2. session'[i] = s /\ \A j \in Initiator \ {i} : session'[j] = session[j]
  BY <1>0 DEF PerfShape
<1>3. ASSUME NEW j \in Initiator \ {i} PROVE Fair(j)'
  BY <1>0, <1>1, <1>2, Apart DEF PerfInv
<1>4. PICK q \in Seq(LinkEvent), out \in Seq(SentMessage) : q = queue[i] /\ out = outgoing[i] /\ q # <<>>
  BY <1>0, TesterFields
<1>5. /\ Weaker(Tail(q), out, q, out, i)
      /\ Fly(q, out, i) = Fly(Tail(q), out, i) + IF Is(q, 1, i, "data") THEN 1 ELSE 0
      /\ ~Is(q, 1, i, "data") /\ ~Is(q, 1, i, "config") => Same(Tail(q), out, q, out, i)
  <2>1. ~Is(q, 1, i, "data") /\ ~Is(q, 1, i, "config") => q[1].link # i \/ q[1].msg.kind \notin {"data", "config"}
    BY DEF Is
  <2> QED BY <1>4, <2>1, OldestGoes
<1>6. /\ Fly(q, out, i) \in Nat /\ Fly(Tail(q), out, i) \in Nat
      /\ session[i].count \in Nat /\ tester[i].sent \in Nat /\ s.count \in Nat
  <2>1. Tail(q) \in Seq(LinkEvent)
    BY <1>4, TailOne
  <2>2. s.count \in Nat
    BY DEF SessionRecord
  <2> QED BY <1>0, <2>1, <2>2, FlyNat, TesterFields
\* In a handshake data that was not lost is not first.
<1>7. i \notin hurt /\ session[i].at = "hello" => ~Is(q, 1, i, "data")
  <2>1. SUFFICES ASSUME Preceded(q, out, i), Is(q, 1, i, "data") PROVE FALSE
    BY <1>0, <1>4 DEF InOrder
  <2>2. 1 \in DOMAIN q /\ DOMAIN q = 1 .. Len(q)
    BY <1>4, TailOne
  <2>3. \E k \in DOMAIN q : k < 1
    BY <2>1, <2>2 DEF Preceded
  <2> QED BY <2>2, <2>3
<1>8. Counted(i)'
  <2>1. /\ session[i].count + Fly(q, out, i) <= tester[i].sent
        /\ i \notin hurt /\ session[i].at \in {"hello", "test"} => session[i].count + Fly(q, out, i) = tester[i].sent
    BY <1>0, <1>4 DEF Counted, InFlight
  <2>2. s.count + Fly(Tail(q), out, i) <= tester[i].sent
    BY SMTT(20), <1>4, <1>5, <1>6, <2>1
  <2>3. ASSUME i \notin hurt, s.at \in {"hello", "test"}
        PROVE  s.count + Fly(Tail(q), out, i) = tester[i].sent
    <3>1. session[i].count + Fly(q, out, i) = tester[i].sent
      BY <2>1, <2>3
    <3>2. CASE s.count = session[i].count + 1 /\ Is(q, 1, i, "data")
      <4>1. Fly(q, out, i) = Fly(Tail(q), out, i) + 1
        BY <1>5, <3>2
      <4>2. PICK a \in Nat, b \in Nat, n \in Nat :
              a = Fly(Tail(q), out, i) /\ b = session[i].count /\ n = tester[i].sent
        BY <1>6
      <4>3. b + (a + 1) = n
        BY <3>1, <4>1, <4>2
      <4>4. (b + 1) + a = n
        BY <4>3
      <4> QED BY <3>2, <4>2, <4>4
    <3>3. CASE s.count = session[i].count /\ (session[i].at = "hello" \/ ~Is(q, 1, i, "data"))
      <4>1. Fly(q, out, i) = Fly(Tail(q), out, i) + 0
        BY <1>5, <1>7, <2>3, <3>3
      <4> QED BY <1>6, <3>1, <3>3, <4>1
    <3> QED BY <1>4, <2>3, <3>2, <3>3
  <2> QED BY <1>0, <1>1, <1>2, <1>4, <2>2, <2>3 DEF Counted, InFlight
<1>9. InOrder(i)'
  <2>1. Ordered(queue'[i], outgoing'[i], i)
    BY <1>0, <1>1, <1>4, <1>5 DEF InOrder, Weaker
  <2>2. Has(queue'[i], outgoing'[i], i, "request") => HasAsked(i)'
    <3>1. Has(Tail(q), out, i, "request") => Has(q, out, i, "request")
      BY <1>5 DEF Weaker, SentKinds
    <3> QED BY <1>0, <1>1, <1>4, <3>1 DEF InOrder, HasAsked
  <2>3. i \notin hurt' /\ session'[i].at = "hello" =>
          /\ Preceded(queue'[i], outgoing'[i], i)
          /\ tester'[i].at = "data" => Has(queue'[i], outgoing'[i], i, "config")
    <3>1. SUFFICES ASSUME i \notin hurt, s.at = "hello"
                   PROVE  /\ Preceded(Tail(q), out, i)
                          /\ tester[i].at = "data" => Has(Tail(q), out, i, "config")
      BY <1>0, <1>1, <1>2, <1>4
    <3>2. session[i].at = "hello" /\ Same(Tail(q), out, q, out, i)
      BY <1>4, <1>5, <1>7, <3>1
    <3> QED BY <1>0, <1>4, <3>1, <3>2 DEF InOrder, Same
  <2> QED BY <2>1, <2>2, <2>3 DEF InOrder
<1>10. Shaken(i)'
  <2>1. Has(Tail(q), out, i, "config") => Has(q, out, i, "config")
    BY <1>5 DEF Weaker, SentKinds
  <2>2. Greeted(i)' \/ Has(queue'[i], outgoing'[i], i, "config") => session'[i].version
    BY <1>0, <1>1, <1>2, <1>4, <2>1 DEF Shaken
  <2> QED BY <1>2, <2>2 DEF Shaken
<1>11. Once(i)'
  BY <1>0, <1>1, <1>2 DEF Once
<1> QED BY <1>3, <1>8, <1>9, <1>10, <1>11 DEF PerfInv, Fair

\* The answers, when a message is added that is no result.
LEMMA AnswersUntold ==
  ASSUME PerfInv, NEW i \in Initiator, tester' = tester, hurt \subseteq hurt',
         \/ incoming' = incoming
         \/ \E kind \in {"version", "error", "closed"} : Reply(i, Plain(kind))
  PROVE  /\ Answers(i)' /\ incoming' \in [Initiator -> Seq(HeardMessage)]
         /\ \A j \in Initiator \ {i} : incoming'[j] = incoming[j]
         /\ Greeted(i)' => Greeted(i) \/ Reply(i, Plain("version"))
<1>0. PerfShape /\ Answers(i)
  BY DEF PerfInv, Fair
<1>1. Onward(i) /\ Closing(i)
  BY DEF Onward, Closing, HasAsked
<1>2. CASE incoming' = incoming
  <2>1. Answers(i)'
    BY <1>0, <1>1, <1>2, AnswersKept
  <2> QED BY <1>0, <1>2, <2>1 DEF Greeted, PerfShape
<1>3. ASSUME NEW kind \in {"version", "error", "closed"}, Reply(i, Plain(kind))
      PROVE  /\ Answers(i)' /\ incoming' \in [Initiator -> Seq(HeardMessage)]
             /\ \A j \in Initiator \ {i} : incoming'[j] = incoming[j]
             /\ Greeted(i)' => Greeted(i) \/ Reply(i, Plain("version"))
  <2>1. PICK m \in HeardMessage : m = Plain(kind) /\ m.kind = kind
    BY PlainMessages
  <2>2. incoming' = [incoming EXCEPT ![i] = Append(@, m)]
    BY <1>3, <2>1 DEF Reply
  <2>3. /\ incoming' \in [Initiator -> Seq(HeardMessage)]
        /\ \A j \in Initiator \ {i} : incoming'[j] = incoming[j]
        /\ \A k \in DOMAIN incoming'[i] :
             (\E l \in DOMAIN incoming[i] : incoming[i][l] = incoming'[i][k]) \/ incoming'[i][k] = m
    BY <1>0, <2>2, Heard
  <2>4. Answers(i)'
    BY <1>0, <1>1, <2>1, <2>3, AnswersKept
  <2>5. Greeted(i)' => Greeted(i) \/ kind = "version"
    BY <2>1, <2>3 DEF Greeted
  <2> QED BY <1>3, <2>3, <2>4, <2>5
<1> QED BY <1>2, <1>3

LEMMA HelloKeeps ==
  ASSUME PerfInv, NEW i \in Initiator, Hello(i) PROVE PerfInv'
<1>0. /\ PerfShape /\ Fair(i) /\ session[i].at = "hello" /\ TesterIdle /\ queue[i] # <<>>
      /\ queue' = [queue EXCEPT ![i] = Tail(@)] /\ tester' = tester /\ hurt' = hurt
      /\ session[i] \in SessionRecord
  BY TesterFields DEF PerfInv, Hello, TesterIdle
<1>1. PICK e \in LinkEvent : e = Head(queue[i]) /\ e = queue[i][1]
  BY <1>0, TesterFields, TailOne
<1>2. PICK kind : kind = IF e.link = i THEN e.msg.kind ELSE "other"
  OBVIOUS
<1>3. kind # "config" => ~Is(queue[i], 1, i, "config")
  BY <1>1, <1>2 DEF Is
<1>4. PICK s : s = session[i]
  OBVIOUS
<1>5. PICK next : next = CASE kind = "version" -> [s EXCEPT !.version = TRUE]
                           [] kind = "config" -> [s EXCEPT !.config = TRUE]
                           [] OTHER -> s
  OBVIOUS
<1>6. /\ next \in SessionRecord /\ next.count = s.count /\ next.at = "hello"
      /\ (s.version \/ kind = "version" => next.version)
      /\ (kind = "config" => next.config)
  <2>1. CASE kind = "version"
    <3>1. next = [s EXCEPT !.version = TRUE]
      BY <1>5, <2>1
    <3> QED BY <1>0, <1>4, <2>1, <3>1 DEF SessionRecord
  <2>2. CASE kind = "config"
    <3>1. next = [s EXCEPT !.config = TRUE]
      BY <1>5, <2>2
    <3> QED BY <1>0, <1>4, <2>2, <3>1 DEF SessionRecord
  <2>3. CASE kind \notin {"version", "config"}
    <3>1. next = s
      BY <1>5, <2>3
    <3> QED BY <1>0, <1>4, <2>3, <3>1
  <2> QED BY <2>1, <2>2, <2>3
<1>7. PICK r \in SessionRecord :
        /\ session' = [session EXCEPT ![i] = r]
        /\ r.count = s.count /\ r.at \in {"hello", "test", "over"} /\ (s.version => r.version)
        /\ r.at = "hello" => kind # "config"
        /\ \/ incoming' = incoming
           \/ Reply(i, Plain("error"))
           \/ Reply(i, Plain("version")) /\ r.version
  <2>1. \/ /\ kind = "version" /\ Outdated(e.link)
           /\ session' = [session EXCEPT ![i] = Ended(s)] /\ Reply(i, Plain("error"))
        \/ kind = "closed" /\ session' = [session EXCEPT ![i] = Ended(s)] /\ incoming' = incoming
        \/ /\ kind # "closed" /\ ~(kind = "version" /\ Outdated(e.link))
           /\ IF next.version /\ next.config
              THEN session' = [session EXCEPT ![i] = [next EXCEPT !.at = "test"]]
              ELSE session' \in {[session EXCEPT ![i] = next], [session EXCEPT ![i] = Ended(next)]}
           /\ IF kind = "version" THEN Reply(i, Plain("version")) ELSE incoming' = incoming
    BY <1>1, <1>2, <1>4, <1>5 DEF Hello, Takes
  <2>2. CASE session' = [session EXCEPT ![i] = Ended(s)] /\ (incoming' = incoming \/ Reply(i, Plain("error")))
    <3>1. Ended(s) \in SessionRecord /\ Ended(s).count = s.count /\ Ended(s).at = "over"
          /\ Ended(s).version = s.version
      BY <1>0, <1>4 DEF Ended, SessionRecord
    <3> QED BY <2>2, <3>1
  <2>3. CASE /\ kind # "closed" /\ ~(kind = "version" /\ Outdated(e.link))
             /\ IF next.version /\ next.config
                THEN session' = [session EXCEPT ![i] = [next EXCEPT !.at = "test"]]
                ELSE session' \in {[session EXCEPT ![i] = next], [session EXCEPT ![i] = Ended(next)]}
             /\ IF kind = "version" THEN Reply(i, Plain("version")) ELSE incoming' = incoming
    <3>1. ASSUME NEW at \in {"test", "over"}
          PROVE  /\ [next EXCEPT !.at = at] \in SessionRecord /\ [next EXCEPT !.at = at].count = s.count
                 /\ [next EXCEPT !.at = at].at = at /\ [next EXCEPT !.at = at].version = next.version
      BY <1>6 DEF SessionRecord
    <3>2. CASE session' = [session EXCEPT ![i] = [next EXCEPT !.at = "test"]]
      BY <1>6, <2>3, <3>1, <3>2
    <3>3. CASE session' = [session EXCEPT ![i] = [next EXCEPT !.at = "over"]]
      BY <1>6, <2>3, <3>1, <3>3
    <3>4. CASE session' = [session EXCEPT ![i] = next] /\ ~(next.version /\ next.config)
      <4>1. kind # "config"
        <5>1. SUFFICES ASSUME kind = "config" PROVE s.version
          BY <1>6, <3>4
        <5>2. 1 \in DOMAIN queue[i] /\ Is(queue[i], 1, i, "config")
          BY <1>0, <1>1, <1>2, <5>1, TesterFields, TailOne DEF Is
        <5> QED BY <1>0, <1>4, <5>2 DEF Fair, Shaken, Has
      <4> QED BY <1>6, <2>3, <3>4, <4>1
    <3>5. Ended(next) = [next EXCEPT !.at = "over"]
      BY DEF Ended
    <3> QED BY <2>3, <3>2, <3>3, <3>4, <3>5
  <2> QED BY <2>1, <2>2, <2>3
<1>8. /\ Answers(i)' /\ incoming' \in [Initiator -> Seq(HeardMessage)]
      /\ \A j \in Initiator \ {i} : incoming'[j] = incoming[j]
      /\ Greeted(i)' => Greeted(i) \/ Reply(i, Plain("version"))
  BY <1>0, <1>7, AnswersUntold
<1>9. Greeted(i)' => r.version
  <2>1. Greeted(i) => s.version
    BY <1>0, <1>4 DEF Fair, Shaken
  <2>2. ~(Reply(i, Plain("version")) /\ incoming' = incoming)
    BY <1>0, TesterFields DEF Reply
  <2>3. ~(Reply(i, Plain("version")) /\ Reply(i, Plain("error")))
    <3>1. SUFFICES ASSUME Reply(i, Plain("version")), Reply(i, Plain("error")) PROVE FALSE
      OBVIOUS
    <3>2. incoming'[i] = Append(incoming[i], Plain("version")) /\ incoming'[i] = Append(incoming[i], Plain("error"))
      BY <1>0, <3>1, TesterFields DEF Reply
    <3>3. Plain("version") = Plain("error")
      BY <1>0, <3>2, TesterFields, AppendOne, PlainMessages
    <3> QED BY <3>3, PlainMessages
  <2> QED BY <1>7, <1>8, <2>1, <2>2, <2>3
<1>10. PerfShape'
  <2>1. /\ queue' \in [Initiator \cup {Main} -> Seq(LinkEvent)]
        /\ \A t \in Initiator \cup {Main} : Len(queue'[t]) <= Capacity
    BY <1>0, TakenShape
  <2>2. session' \in [Initiator -> SessionRecord]
    BY <1>0, <1>7 DEF PerfShape
  <2> QED BY <1>0, <1>8, <2>1, <2>2, RestShape DEF PerfShape, TesterIdle
<1> QED BY <1>0, <1>3, <1>4, <1>7, <1>8, <1>9, <1>10, SessionTakes

\* A result tells the packets counted; of a link nothing was lost on, all of them.
LEMMA ResultTold ==
  ASSUME PerfInv, NEW i \in Initiator, tester' = tester, hurt \subseteq hurt',
         NEW m \in HeardMessage, m.n = session[i].count,
         i \notin hurt' => session[i].count = tester[i].sent /\ HasAsked(i),
         \A k \in DOMAIN incoming'[i] :
           \/ \E l \in DOMAIN incoming[i] : incoming[i][l] = incoming'[i][k]
           \/ incoming'[i][k].kind = "closed" 
           \/ incoming'[i][k] = m
  PROVE  Answers(i)'
<1>0. PerfShape /\ Answers(i) /\ Counted(i)
  BY DEF PerfInv, Fair
<1>1. session[i].count <= tester[i].sent
  <2>1. InFlight(i) \in Nat
    BY <1>0, TesterFields, FlyNat DEF InFlight
  <2> QED BY <1>0, <2>1, TesterFields DEF Counted
<1>2. ASSUME NEW k \in DOMAIN incoming'[i], incoming'[i][k].kind = "result"
      PROVE  /\ incoming'[i][k].n <= tester'[i].sent
             /\ i \notin hurt' => incoming'[i][k].n = tester'[i].sent /\ HasAsked(i)'
  <2>1. CASE \E l \in DOMAIN incoming[i] : incoming[i][l] = incoming'[i][k]
    BY <1>0, <1>2, <2>1 DEF Answers, HasAsked
  <2>2. CASE incoming'[i][k] = m
    BY <1>1, <2>2 DEF HasAsked
  <2> QED BY <1>2, <2>1, <2>2
<1> QED BY <1>0, <1>2 DEF Answers

LEMMA ResultMessage ==
  \A n \in Nat : /\ Message("result", n) \in HeardMessage
                 /\ Message("result", n).n = n /\ Message("result", n).kind = "result"
BY DEF HeardMessage, Message

LEMMA CountKeeps ==
  ASSUME PerfInv, NEW i \in Initiator, Count(i) PROVE PerfInv'
<1>0. /\ PerfShape /\ Fair(i) /\ session[i].at = "test" /\ TesterIdle /\ queue[i] # <<>>
      /\ queue' = [queue EXCEPT ![i] = Tail(@)] /\ tester' = tester /\ hurt' = hurt
      /\ session[i] \in SessionRecord /\ session[i].count \in Nat
  BY TesterFields DEF PerfInv, Count, TesterIdle
<1>1. PICK e \in LinkEvent : e = Head(queue[i]) /\ e = queue[i][1]
  BY <1>0, TesterFields, TailOne
<1>2. PICK kind : kind = IF e.link = i THEN e.msg.kind ELSE "other"
  OBVIOUS
<1>3. \A k \in SentKinds : kind = k <=> Is(queue[i], 1, i, k)
  BY <1>1, <1>2 DEF Is, SentKinds
<1>4. PICK s : s = session[i]
  OBVIOUS
<1>5. \/ kind = "data" /\ session' = [session EXCEPT ![i].count = @ + 1] /\ incoming' = incoming
      \/ /\ kind = "request"
         /\ session' = [session EXCEPT ![i].answered = TRUE]
         /\ Reply(i, Message("result", s.count))
      \/ kind = "closed" /\ session' = [session EXCEPT ![i] = Ended(s)] /\ incoming' = incoming
      \/ kind \notin {"data", "request", "closed"} /\ session' = session /\ incoming' = incoming
  BY <1>1, <1>2, <1>4 DEF Count, Takes
<1>6. PICK r \in SessionRecord :
        /\ session' = [session EXCEPT ![i] = r]
        /\ r.at \in {"test", "over"} /\ r.version = s.version
        /\ \/ r.count = s.count + 1 /\ kind = "data"
           \/ r.count = s.count /\ kind # "data"
  <2>1. CASE kind = "data" /\ session' = [session EXCEPT ![i].count = @ + 1]
    <3>1. PICK n \in Nat : n = s.count + 1
      BY <1>0, <1>4
    <3>2. PICK r : r = [s EXCEPT !.count = n]
      OBVIOUS
    <3>3. session' = [session EXCEPT ![i] = r]
      BY <1>4, <2>1, <3>1, <3>2
    <3>4. r \in SessionRecord /\ r.at = "test" /\ r.version = s.version /\ r.count = n
      BY <1>0, <1>4, <3>2 DEF SessionRecord
    <3> QED BY <2>1, <3>1, <3>3, <3>4
  <2>2. CASE kind = "request" /\ session' = [session EXCEPT ![i].answered = TRUE]
    <3>1. PICK r : r = [s EXCEPT !.answered = TRUE]
      OBVIOUS
    <3>2. session' = [session EXCEPT ![i] = r]
      BY <1>4, <2>2, <3>1
    <3>3. r \in SessionRecord /\ r.at = "test" /\ r.version = s.version /\ r.count = s.count
      BY <1>0, <1>4, <3>1 DEF SessionRecord
    <3> QED BY <2>2, <3>2, <3>3
  <2>3. CASE kind = "closed" /\ session' = [session EXCEPT ![i] = Ended(s)]
    <3>1. Ended(s) \in SessionRecord /\ Ended(s).count = s.count /\ Ended(s).at = "over"
          /\ Ended(s).version = s.version
      BY <1>0, <1>4 DEF Ended, SessionRecord
    <3> QED BY <2>3, <3>1
  <2>4. CASE kind \notin {"data", "request", "closed"} /\ session' = session
    <3>1. session' = [session EXCEPT ![i] = s]
      BY <1>0, <1>4, <2>4 DEF PerfShape
    <3> QED BY <1>0, <1>4, <2>4, <3>1
  <2> QED BY <1>5, <2>1, <2>2, <2>3, <2>4
<1>7. /\ Answers(i)' /\ incoming' \in [Initiator -> Seq(HeardMessage)]
      /\ \A j \in Initiator \ {i} : incoming'[j] = incoming[j]
      /\ Greeted(i)' => Greeted(i)
  <2>1. CASE incoming' = incoming
    <3>1. Greeted(i)' => Greeted(i)
      BY <2>1 DEF Greeted
    <3> QED BY <1>0, <2>1, <3>1, AnswersUntold
  <2>2. CASE kind = "request" /\ Reply(i, Message("result", s.count))
    <3>1. PICK m \in HeardMessage : m = Message("result", s.count) /\ m.n = session[i].count /\ m.kind = "result"
      BY <1>0, <1>4, ResultMessage
    <3>2. incoming' = [incoming EXCEPT ![i] = Append(@, m)]
      BY <2>2, <3>1 DEF Reply
    <3>3. /\ incoming' \in [Initiator -> Seq(HeardMessage)]
          /\ \A j \in Initiator \ {i} : incoming'[j] = incoming[j]
          /\ \A k \in DOMAIN incoming'[i] :
               (\E l \in DOMAIN incoming[i] : incoming[i][l] = incoming'[i][k]) \/ incoming'[i][k] = m
      BY <1>0, <3>2, Heard
    <3>4. PICK q \in Seq(LinkEvent), out \in Seq(SentMessage) : q = queue[i] /\ out = outgoing[i]
      BY <1>0, TesterFields
    <3>5. 1 \in DOMAIN q /\ DOMAIN q = 1 .. Len(q) /\ Is(q, 1, i, "request")
      BY <1>0, <1>3, <2>2, <3>4, TailOne DEF SentKinds
    <3>6. Ordered(q, out, i) /\ HasAsked(i)
      BY <1>0, <3>4, <3>5 DEF Fair, InOrder, Has
    <3>7. Fly(q, out, i) = 0
      <4>1. \A l \in DOMAIN q : ~Is(q, l, i, "data")
        BY <3>5, <3>6 DEF Ordered, Is
      <4>2. \A l \in DOMAIN out : out[l].kind # "data"
        BY <3>5, <3>6 DEF Ordered
      <4>3. Number(q, DataOf(i)) = 0 /\ Number(out, DataSent) = 0
        BY <4>1, <4>2, NumberNone DEF DataOf, DataSent, Is
      <4> QED BY <4>3 DEF Fly
    <3>8. i \notin hurt' => session[i].count = tester[i].sent
      BY <1>0, <3>4, <3>7 DEF Fair, Counted, InFlight
    <3>9. Answers(i)'
      BY <1>0, <3>1, <3>3, <3>6, <3>8, ResultTold
    <3>10. Greeted(i)' => Greeted(i)
      BY <3>1, <3>3 DEF Greeted
    <3> QED BY <3>3, <3>9, <3>10
  <2> QED BY <1>5, <2>1, <2>2
<1>8. session[i].version \/ Greeted(i)' => r.version
  BY <1>0, <1>4, <1>6, <1>7 DEF Fair, Shaken
<1>9. PerfShape'
  <2>1. /\ queue' \in [Initiator \cup {Main} -> Seq(LinkEvent)]
        /\ \A t \in Initiator \cup {Main} : Len(queue'[t]) <= Capacity
    BY <1>0, TakenShape
  <2>2. session' \in [Initiator -> SessionRecord]
    BY <1>0, <1>6 DEF PerfShape
  <2> QED BY <1>0, <1>7, <2>1, <2>2, RestShape DEF PerfShape, TesterIdle
<1>10. \/ r.count = session[i].count + 1 /\ Is(queue[i], 1, i, "data")
       \/ r.count = session[i].count /\ ~Is(queue[i], 1, i, "data")
  BY <1>3, <1>4, <1>6 DEF SentKinds
<1> QED BY <1>0, <1>6, <1>7, <1>8, <1>9, <1>10, SessionTakes

LEMMA SessionLateKeeps ==
  ASSUME PerfInv, NEW i \in Initiator, SessionLate(i) PROVE PerfInv'
<1>0. /\ PerfShape /\ Fair(i) /\ session[i].at = "test" /\ HasAsked(i)
      /\ tester' = tester /\ outgoing' = outgoing /\ queue' = queue /\ losses' = losses /\ foreign' = foreign
      /\ session[i] \in SessionRecord /\ session[i].count \in Nat
      /\ outgoing[i] \in Seq(SentMessage) /\ queue[i] \in Seq(LinkEvent) /\ incoming[i] \in Seq(HeardMessage)
  BY TesterFields DEF PerfInv, SessionLate, HasAsked
<1>1. PICK r : r = Ended(session[i])
  OBVIOUS
<1>2. r \in SessionRecord /\ r.at = "over" /\ r.count = session[i].count /\ r.version = session[i].version
  BY <1>0, <1>1 DEF Ended, SessionRecord
<1>3. /\ session' \in [Initiator -> SessionRecord] /\ session'[i] = r
      /\ \A j \in Initiator \ {i} : session'[j] = session[j]
  BY <1>0, <1>1, <1>2 DEF SessionLate, PerfShape
<1>4. /\ link' \in [Initiator -> {"none", "requested", "up", "closed"}] /\ link'[i] = "closed"
      /\ \A j \in Initiator \ {i} : link'[j] = link[j]
  BY <1>0 DEF SessionLate, PerfShape
<1>5. /\ hurt \subseteq hurt' /\ hurt' \subseteq Initiator \cup Others
      /\ i \notin hurt' => i \notin hurt /\ outgoing[i] = <<>> /\ queue[i] = <<>>
  BY <1>0 DEF SessionLate, PerfShape
<1>6. PICK m \in HeardMessage : m = Message("result", session[i].count) /\ m.n = session[i].count /\ m.kind = "result"
  BY <1>0, ResultMessage
<1>7. PICK c \in HeardMessage : c = Plain("closed") /\ c.kind = "closed"
  BY PlainMessages
<1>8. PICK s \in Seq(HeardMessage) :
        /\ incoming' = [incoming EXCEPT ![i] = s]
        /\ \A k \in DOMAIN s : (\E l \in DOMAIN incoming[i] : incoming[i][l] = s[k]) \/ s[k].kind = "closed" \/ s[k] = m
  <2>1. PICK h \in Seq(HeardMessage) : h = incoming[i]
    BY <1>0
  <2>2. PICK p \in Seq(HeardMessage) :
          /\ incoming' = [incoming EXCEPT ![i] = Append(p, c)]
          /\ \A k \in DOMAIN p : (\E l \in DOMAIN h : h[l] = p[k]) \/ p[k] = m
    <3>1. CASE ~session[i].answered /\ session[i].count > 0
      <4>1. incoming' = [incoming EXCEPT ![i] = Append(Append(h, m), c)]
        <5>1. incoming' = [incoming EXCEPT ![i] = (@ \o <<m>>) \o <<c>>]
          BY <1>6, <1>7, <3>1 DEF SessionLate
        <5>2. (h \o <<m>>) \o <<c>> = Append(Append(h, m), c)
          BY ConcatProperties, AppendOne
        <5> QED BY <2>1, <5>1, <5>2
      <4>2. Append(h, m) \in Seq(HeardMessage)
        BY AppendOne
      <4>3. ASSUME NEW k \in DOMAIN Append(h, m)
            PROVE  (\E l \in DOMAIN h : h[l] = Append(h, m)[k]) \/ Append(h, m)[k] = m
        <5>1. k \in 1 .. Len(h) \/ k = Len(h) + 1
          BY <4>3, AppendOne
        <5> QED BY <5>1, AppendOne
      <4> QED BY <4>1, <4>2, <4>3
    <3>2. CASE ~(~session[i].answered /\ session[i].count > 0)
      <4>1. incoming' = [incoming EXCEPT ![i] = (@ \o <<>>) \o <<c>>]
        BY <1>7, <3>2 DEF SessionLate
      <4>2. (h \o <<>>) \o <<c>> = Append(h, c)
        <5>1. h \o <<>> = h
          BY ConcatEmptySeq
        <5> QED BY <5>1
      <4>3. incoming' = [incoming EXCEPT ![i] = Append(h, c)]
        BY <2>1, <4>1, <4>2
      <4> QED BY <4>3
    <3> QED BY <3>1, <3>2
  <2>3. Append(p, c) \in Seq(HeardMessage)
    BY AppendOne
  <2>4. ASSUME NEW k \in DOMAIN Append(p, c)
        PROVE  \/ \E l \in DOMAIN incoming[i] : incoming[i][l] = Append(p, c)[k]
               \/ Append(p, c)[k].kind = "closed" \/ Append(p, c)[k] = m
    <3>1. k \in 1 .. Len(p) \/ k = Len(p) + 1
      BY <2>4, AppendOne
    <3>2. CASE k \in 1 .. Len(p)
      BY <2>1, <2>2, <3>2, AppendOne
    <3>3. CASE k = Len(p) + 1
      BY <1>7, <3>3, AppendOne
    <3> QED BY <3>1, <3>2, <3>3
  <2> QED BY <2>2, <2>3, <2>4
<1>9. /\ incoming' \in [Initiator -> Seq(HeardMessage)] /\ incoming'[i] = s
      /\ \A j \in Initiator \ {i} : incoming'[j] = incoming[j]
  BY <1>0, <1>8 DEF PerfShape
<1>10. PerfShape'
  BY <1>0, <1>3, <1>4, <1>5, <1>9, RestShape DEF PerfShape
<1>11. ASSUME NEW j \in Initiator \ {i} PROVE Fair(j)'
  BY <1>0, <1>3, <1>4, <1>5, <1>9, <1>10, Apart DEF PerfInv
<1>12. i \notin hurt' => session[i].count = tester[i].sent
  <2>1. SUFFICES ASSUME i \notin hurt' PROVE session[i].count = tester[i].sent
    OBVIOUS
  <2>2. PICK q \in Seq(LinkEvent), out \in Seq(SentMessage) : q = queue[i] /\ out = outgoing[i]
    BY <1>0
  <2>3. DOMAIN q = {} /\ DOMAIN out = {}
    BY <1>5, <2>1, <2>2
  <2>4. Number(q, DataOf(i)) = 0 /\ Number(out, DataSent) = 0
    BY <2>3, NumberNone
  <2>5. Fly(q, out, i) = 0
    BY <2>4 DEF Fly
  <2> QED BY <1>0, <1>5, <2>1, <2>2, <2>5 DEF Fair, Counted, InFlight
<1>13. Answers(i)'
  <2>1. \A k \in DOMAIN incoming'[i] :
          \/ \E l \in DOMAIN incoming[i] : incoming[i][l] = incoming'[i][k]
          \/ incoming'[i][k].kind = "closed"
          \/ incoming'[i][k] = m
    BY <1>8, <1>9
  <2>2. i \notin hurt' => session[i].count = tester[i].sent /\ HasAsked(i)
    BY <1>0, <1>12
  <2>3. hurt \subseteq hurt' /\ tester' = tester /\ m \in HeardMessage /\ m.n = session[i].count
    BY <1>0, <1>5, <1>6
  <2> QED BY <2>1, <2>2, <2>3, ResultTold
<1>14. LosesKnown(i)
  BY <1>0, <1>5, WayUnchanged
<1>15. Counted(i)'
  <2>1. session[i].count + InFlight(i) <= tester[i].sent
    BY <1>0 DEF Fair, Counted
  <2> QED BY <1>0, <1>2, <1>3, <2>1 DEF Counted, InFlight
<1>16. InOrder(i)'
  <2>1. Onward(i)
    BY <1>0 DEF Onward, HasAsked
  <2> QED BY <1>0, <1>2, <1>3, <1>14, <2>1, InOrderKept DEF Fair
<1>17. Greeted(i)' => Greeted(i)
  BY <1>6, <1>8, <1>9 DEF Greeted
<1>18. Shaken(i)'
  BY <1>0, <1>2, <1>3, <1>17 DEF Fair, Shaken
<1>19. Once(i)'
  BY <1>0, <1>2, <1>3, <1>4 DEF Fair, Once
<1> QED BY <1>10, <1>11, <1>13, <1>15, <1>16, <1>18, <1>19 DEF PerfInv, Fair

--------------------------------------------------------------------------------
(* The theorems.                                                           *)

LEMMA PerfInvInit == PerfInit => PerfInv
<1> SUFFICES ASSUME PerfInit PROVE PerfInv
  OBVIOUS
<1>1. PerfShape
  BY PerfShapeInit
<1>2. ASSUME NEW i \in Initiator PROVE Fair(i)
  <2>1. PICK t : t = tester[i]
    OBVIOUS
  <2>2. t.at = "start" /\ t.sent = 0 /\ t.result = "none" /\ t.packets = 0
    BY <2>1 DEF PerfInit, NewTester
  <2>3. session[i].at = "none" /\ session[i].count = 0 /\ link[i] = "none"
    BY DEF PerfInit, NewSession
  <2>4. DOMAIN queue[i] = {} /\ DOMAIN outgoing[i] = {} /\ DOMAIN incoming[i] = {} /\ DOMAIN queue[Main] = {}
        /\ queue[i] = <<>>
    BY DEF PerfInit
  <2>5. InFlight(i) = 0
    <3>1. Number(queue[i], DataOf(i)) = 0 /\ Number(outgoing[i], DataSent) = 0
      BY <2>4, NumberNone
    <3> QED BY <3>1 DEF InFlight, Fly
  <2>6. Counted(i)
    BY <2>1, <2>2, <2>3, <2>5 DEF Counted
  <2>7. Answers(i)
    BY <2>1, <2>2, <2>4 DEF Answers
  <2>8. Shaken(i)
    BY <2>1, <2>2, <2>3, <2>4 DEF Shaken, Greeted, Has
  <2>9. InOrder(i)
    BY <2>3, <2>4 DEF InOrder, Ordered, Has
  <2>10. Once(i)
    BY <2>3, <2>4 DEF Once, Announced, Singly
  <2> QED BY <2>6, <2>7, <2>8, <2>9, <2>10 DEF Fair
<1> QED BY <1>1, <1>2 DEF PerfInv

LEMMA PerfInvNext == PerfInv /\ [PerfNext]_perfVars => PerfInv'
<1> SUFFICES ASSUME PerfInv, [PerfNext]_perfVars PROVE PerfInv'
  OBVIOUS
<1>1. ASSUME NEW i \in Initiator, Tester(i) PROVE PerfInv'
  BY <1>1, RequestLinkKeeps, TesterMoves, SendDataKeeps, AsksKeep, ResultKeeps DEF Tester
<1>2. ASSUME NEW i \in Initiator, Establish(i) \/ Deliver(i) \/ Lose(i) \/ Close(i) PROVE PerfInv'
  BY <1>2, EstablishKeeps, DeliverKeeps, LoseKeeps, CloseKeeps
<1>3. ASSUME NEW i \in Initiator, Hello(i) \/ Count(i) \/ SessionLate(i) PROVE PerfInv'
  BY <1>3, HelloKeeps, CountKeeps, SessionLateKeeps
<1>4. ASSUME NEW l \in Others, NEW k \in {"version", "data", "request"}, Foreign(l, k) PROVE PerfInv'
  BY <1>4, ForeignKeeps
<1>5. CASE Accept
  BY <1>5, AcceptKeeps
<1>6. CASE UNCHANGED perfVars
  <2>1. /\ tester' = tester /\ link' = link /\ outgoing' = outgoing /\ incoming' = incoming
        /\ queue' = queue /\ session' = session /\ losses' = losses /\ foreign' = foreign /\ hurt' = hurt
    BY <1>6 DEF perfVars
  <2>2. PerfShape'
    BY <2>1 DEF PerfInv, PerfShape
  <2>3. ASSUME NEW i \in Initiator PROVE Fair(i)'
    BY <2>1, <2>2, Apart DEF PerfInv
  <2> QED BY <2>2, <2>3 DEF PerfInv
<1> QED BY <1>1, <1>2, <1>3, <1>4, <1>5, <1>6 DEF PerfNext

LEMMA PerfAlways == PerfSpec => []PerfInv
BY PerfInvInit, PerfInvNext, PTL DEF PerfSpec

LEMMA PerfShapeTypes == PerfShape => PerfTypeOK
<1> SUFFICES ASSUME PerfShape PROVE PerfTypeOK
  OBVIOUS
<1>1. ASSUME NEW i \in Initiator
      PROVE  /\ tester[i].at \in {"start", "subscribe", "activation", "version", "data", "result", "over"}
             /\ tester[i].sent \in 0 .. MaxPackets /\ tester[i].asks \in 0 .. MaxAsks
             /\ link[i] \in {"none", "requested", "up", "closed"}
             /\ session[i].at \in {"none", "hello", "test", "over"}
  <2>1. MaxPackets \in Nat /\ MaxAsks \in Nat
    BY PerfAssumption
  <2>2. tester[i].sent \in 0 .. MaxPackets /\ tester[i].asks \in 0 .. MaxAsks
    BY <2>1, TesterFields
  <2>3. tester[i].at \in {"start", "subscribe", "activation", "version", "data", "result", "over"}
    BY TesterFields DEF TesterRecord
  <2>4. session[i].at \in {"none", "hello", "test", "over"}
    BY TesterFields DEF SessionRecord
  <2>5. link[i] \in {"none", "requested", "up", "closed"}
    BY DEF PerfShape
  <2> QED BY <2>2, <2>3, <2>4, <2>5
<1>2. /\ \A r \in Initiator \cup {Main} : Len(queue[r]) <= Capacity
      /\ losses \in 0 .. MaxLosses /\ foreign \in 0 .. MaxForeign
      /\ hurt \subseteq Initiator \cup Others
  BY DEF PerfShape
<1> QED BY <1>1, <1>2 DEF PerfTypeOK

\* Every initiator and session is at a step of its code, its packets and requests within
\* their bounds, and no receiver holds more events than the channel has room for.
THEOREM PerfTypeCorrect == PerfSpec => []PerfTypeOK
<1>1. PerfInv => PerfTypeOK
  BY PerfShapeTypes DEF PerfInv
<1> QED BY <1>1, PerfAlways, PTL

\* For any number of initiators at one listener, links of others, packets, requests for
\* the result, losses and events that a lag overwrites: a result that is reported counts
\* packets of the initiator's own test, and all of them if nothing was lost to it
\* (run_initiator(), handle_session()).
THEOREM ResultsAreHonest == PerfSpec => []ResultHonest
<1>1. PerfInv => ResultHonest
  BY DEF PerfInv, Fair, Answers, ResultHonest
<1> QED BY <1>1, PerfAlways, PTL

--------------------------------------------------------------------------------
(* The initiator of rnsh. What a read of the input leaves is computed byte *)
(* by byte: what is said of it for reads of any length is proved by        *)
(* induction up to the read's length, from the least element of a set of   *)
(* naturals.                                                               *)

\* A set of naturals that is not empty has a least element.
LEMMA NatMin ==
  ASSUME NEW T \in SUBSET Nat, T # {}
  PROVE  \E n \in T : \A m \in T : n <= m
<1>1. PICK n \in T : \A m \in T : ~ (<<m, n>> \in OpToRel(<, Nat))
  BY NatLessThanWellFounded, WFMin
<1>2. ASSUME NEW m \in T PROVE n <= m
  <2>1. m \in Nat /\ n \in Nat
    OBVIOUS
  <2>2. ~(m < n)
    BY <1>1, <2>1 DEF OpToRel
  <2>3. QED
    BY <2>1, <2>2
<1>3. QED
  BY <1>2

\* Induction up to a bound, over the members of a set.
LEMMA UpTo ==
  ASSUME NEW N \in Nat, NEW S, 0 \in S,
         \A n \in 0 .. N - 1 : n \in S => n + 1 \in S
  PROVE  0 .. N \subseteq S
<1> DEFINE Bad == {n \in 0 .. N : n \notin S}
<1>1. SUFFICES ASSUME Bad # {} PROVE FALSE
  OBVIOUS
<1>2. Bad \in SUBSET Nat
  OBVIOUS
<1>3. PICK n \in Bad : \A m \in Bad : n <= m
  BY <1>1, <1>2, NatMin
<1>4. n # 0 /\ n \in 0 .. N /\ n \notin S
  OBVIOUS
<1>5. n - 1 \in 0 .. N - 1 /\ (n - 1) + 1 = n
  BY <1>4
<1>6. n - 1 \in S
  BY <1>3, <1>5
<1>7. QED
  BY <1>4, <1>5, <1>6

--------------------------------------------------------------------------------
(* What the bytes of a read leave.                                         *)

LEMMA AfterBytesIs ==
  ASSUME NEW h, NEW read, Len(read) \in Nat
  PROVE  AfterBytes(h, read) =
           [k \in 0 .. Len(read) |->
              IF k = 0 THEN Step(h, <<>>, "none")
              ELSE NextByte(AfterBytes(h, read)[k - 1], read[k])]
<1> DEFINE Next(a, k) == NextByte(a, read[k])
           Computes(f, n) == f = [k \in 0 .. n |-> IF k = 0 THEN Step(h, <<>>, "none") ELSE Next(f[k - 1], k)]
           Good == {n \in Nat : \E f : Computes(f, n)}
<1>1. 0 \in Good
  <2>1. Computes([k \in 0 .. 0 |-> Step(h, <<>>, "none")], 0)
    OBVIOUS
  <2>2. QED
    BY <2>1
<1>2. ASSUME NEW n \in 0 .. Len(read) - 1, n \in Good PROVE n + 1 \in Good
  <2> HIDE DEF Next
  <2>1. PICK f : Computes(f, n)
    BY <1>2
  <2> DEFINE g == [k \in 0 .. n + 1 |-> IF k = n + 1 THEN Next(f[n], n + 1) ELSE f[k]]
  <2>2. Computes(g, n + 1)
    BY <2>1
  <2>3. n + 1 \in Nat /\ \E e : Computes(e, n + 1)
    <3> HIDE DEF Computes, g
    <3>1. QED
      BY <2>2
  <2>4. QED
    BY <2>3
<1>3. Len(read) \in Good
  <2> HIDE DEF Good
  <2>1. 0 .. Len(read) \subseteq Good
    BY <1>1, <1>2, UpTo
  <2>2. QED
    BY <2>1
<1>4. \E f : Computes(f, Len(read))
  BY <1>3
<1>5. QED
  BY <1>4 DEF AfterBytes

LEMMA FilteredToIs ==
  ASSUME NEW s, Len(s) \in Nat
  PROVE  FilteredTo(s) =
           [k \in 0 .. Len(s) |->
              IF k = 0 THEN <<>>
              ELSE IF Dropped(s, k) THEN FilteredTo(s)[k - 1]
              ELSE Append(FilteredTo(s)[k - 1], s[k])]
<1> DEFINE Next(a, k) == IF Dropped(s, k) THEN a ELSE Append(a, s[k])
           Computes(f, n) == f = [k \in 0 .. n |-> IF k = 0 THEN <<>> ELSE Next(f[k - 1], k)]
           Good == {n \in Nat : \E f : Computes(f, n)}
<1>1. 0 \in Good
  <2>1. Computes([k \in 0 .. 0 |-> <<>>], 0)
    OBVIOUS
  <2>2. QED
    BY <2>1
<1>2. ASSUME NEW n \in 0 .. Len(s) - 1, n \in Good PROVE n + 1 \in Good
  <2> HIDE DEF Next
  <2>1. PICK f : Computes(f, n)
    BY <1>2
  <2> DEFINE g == [k \in 0 .. n + 1 |-> IF k = n + 1 THEN Next(f[n], n + 1) ELSE f[k]]
  <2>2. Computes(g, n + 1)
    BY <2>1
  <2>3. n + 1 \in Nat /\ \E e : Computes(e, n + 1)
    <3> HIDE DEF Computes, g
    <3>1. QED
      BY <2>2
  <2>4. QED
    BY <2>3
<1>3. Len(s) \in Good
  <2> HIDE DEF Good
  <2>1. 0 .. Len(s) \subseteq Good
    BY <1>1, <1>2, UpTo
  <2>2. QED
    BY <2>1
<1>4. \E f : Computes(f, Len(s))
  BY <1>3
<1>5. QED
  BY <1>4 DEF FilteredTo

--------------------------------------------------------------------------------
(* The escape handler keeps its types, and its count of what is to be wiped *)
(* out never exceeds the line.                                             *)
OutBytes == Bytes \cup {"wipe"}
Handlers == {h \in [newline : BOOLEAN, tilde : BOOLEAN, mode : BOOLEAN, line : Seq(Bytes), blind : Nat] :
               h.blind <= Len(h.line)}
EscapeSteps == [handler : Handlers, out : Seq(OutBytes),
          action : {"none", "disconnect", "help", "mode"}]

LEMMA NothingType ==
  /\ <<>> \in Seq(Bytes) /\ <<>> \in Seq(OutBytes) /\ 0 <= Len(<<>>) /\ Len(<<>>) = 0
  /\ \A S : <<>> \in Seq(S)
OBVIOUS

LEMMA StepType ==
  ASSUME NEW h \in Handlers, NEW out \in Seq(OutBytes),
         NEW action \in {"none", "disconnect", "help", "mode"}
  PROVE  Step(h, out, action) \in EscapeSteps
BY DEF Step, EscapeSteps

LEMMA HandlerType ==
  ASSUME NEW h \in Handlers, NEW line \in Seq(Bytes), NEW blind \in Nat, blind <= Len(line),
         NEW newline \in BOOLEAN, NEW tilde \in BOOLEAN, NEW mode \in BOOLEAN
  PROVE  /\ [h EXCEPT !.line = line, !.blind = blind] \in Handlers
         /\ [h EXCEPT !.newline = newline] \in Handlers
         /\ [h EXCEPT !.newline = newline, !.tilde = tilde] \in Handlers
         /\ [h EXCEPT !.tilde = tilde, !.newline = newline] \in Handlers
         /\ [h EXCEPT !.mode = mode] \in Handlers
         /\ [h EXCEPT !.newline = newline, !.line = line, !.blind = blind] \in Handlers
BY DEF Handlers

LEMMA FlushLineType ==
  ASSUME NEW h, h.line \in Seq(Bytes), h.blind \in Nat,
         [h EXCEPT !.line = <<>>, !.blind = 0] \in Handlers
  PROVE  FlushLine(h) \in EscapeSteps
<1>1. [k \in 1 .. h.blind |-> "wipe"] \in Seq(OutBytes)
  BY DEF OutBytes
<1>2. h.line \in Seq(OutBytes)
  BY DEF OutBytes
<1>3. h.line \o [k \in 1 .. h.blind |-> "wipe"] \in Seq(OutBytes)
  BY <1>1, <1>2
<1>4. QED
  BY <1>3, StepType DEF FlushLine

LEMMA LineByteType ==
  ASSUME NEW h \in Handlers, NEW b \in Bytes
  PROVE  LineByte(h, b) \in EscapeSteps
<1>1. h.line \in Seq(Bytes) /\ h.blind \in Nat /\ h.blind <= Len(h.line)
  BY DEF Handlers
<1>2. Append(h.line, b) \in Seq(Bytes) /\ Len(Append(h.line, b)) = Len(h.line) + 1
  BY <1>1
<1>3. CASE b = "erase" /\ h.line = <<>>
  <2>1. Step(h, <<>>, "none") \in EscapeSteps
    BY StepType, NothingType
  <2>2. QED
    BY <1>3, <2>1 DEF LineByte
<1>4. CASE b = "erase" /\ h.line # <<>>
  <2> DEFINE blind == IF h.blind = 0 THEN 0 ELSE h.blind - 1
  <2>1. Front(h.line) \in Seq(Bytes) /\ Len(Front(h.line)) = Len(h.line) - 1
    BY <1>1, <1>4 DEF Front
  <2>2. blind \in Nat /\ blind <= Len(Front(h.line))
    BY <1>1, <1>4, <2>1
  <2>3. [h EXCEPT !.line = Front(h.line), !.blind = blind] \in Handlers
    <3> HIDE DEF blind
    <3>1. QED
      BY <2>1, <2>2, HandlerType
  <2>4. <<"wipe">> \in Seq(OutBytes)
    BY DEF OutBytes
  <2>5. Step([h EXCEPT !.line = Front(h.line), !.blind = blind], <<"wipe">>, "none") \in EscapeSteps
    BY <2>3, <2>4, StepType
  <2>6. LineByte(h, b) = Step([h EXCEPT !.line = Front(h.line), !.blind = blind], <<"wipe">>, "none")
    BY <1>1, <1>4 DEF LineByte, Handlers
  <2>7. QED
    BY <2>5, <2>6
<1>5. CASE b = "control"
  <2> DEFINE g == [h EXCEPT !.line = Append(h.line, b)]
  <2>1. g.line \in Seq(Bytes) /\ g.blind \in Nat
    BY <1>1, <1>2 DEF Handlers
  <2>2. [g EXCEPT !.line = <<>>, !.blind = 0] = [h EXCEPT !.line = <<>>, !.blind = 0]
    BY DEF Handlers
  <2>3. [g EXCEPT !.line = <<>>, !.blind = 0] \in Handlers
    <3>1. <<>> \in Seq(Bytes) /\ 0 <= Len(<<>>)
      OBVIOUS
    <3>2. QED
      BY <2>2, <3>1, HandlerType
  <2>4. LineByte(h, b) = FlushLine(g)
    BY <1>5 DEF LineByte, Handlers
  <2>5. QED
    <3> HIDE DEF g
    <3>1. QED
      BY <2>1, <2>3, <2>4, FlushLineType
<1>6. CASE b \notin {"erase", "control"}
  <2>1. h.blind + 1 \in Nat /\ h.blind + 1 <= Len(Append(h.line, b))
    BY <1>1, <1>2
  <2>2. [h EXCEPT !.line = Append(h.line, b), !.blind = h.blind + 1] \in Handlers
    BY <1>2, <2>1, HandlerType
  <2>3. <<b>> \in Seq(OutBytes)
    BY DEF OutBytes
  <2>4. Step([h EXCEPT !.line = Append(h.line, b), !.blind = h.blind + 1], <<b>>, "none") \in EscapeSteps
    BY <2>2, <2>3, StepType
  <2>5. LineByte(h, b) = Step([h EXCEPT !.line = Append(h.line, b), !.blind = h.blind + 1], <<b>>, "none")
    BY <1>6 DEF LineByte, Handlers
  <2>6. QED
    BY <2>4, <2>5
<1>7. QED
  BY <1>3, <1>4, <1>5, <1>6

LEMMA EscapeByteType ==
  ASSUME NEW h \in Handlers, NEW b \in Bytes
  PROVE  EscapeByte(h, b) \in EscapeSteps
<1>1. <<>> \in Seq(OutBytes) /\ <<"~">> \in Seq(OutBytes) /\ <<"~", b>> \in Seq(OutBytes)
  BY DEF OutBytes, Bytes
<1>2. h.mode \in BOOLEAN
  BY DEF Handlers
<1>3. [h EXCEPT !.mode = ~h.mode] \in Handlers
  BY <1>2, HandlerType, NothingType
<1>4. Step([h EXCEPT !.mode = ~h.mode], <<>>, "mode") \in EscapeSteps
  BY <1>1, <1>3, StepType
<1>5. /\ Step(h, <<>>, "disconnect") \in EscapeSteps /\ Step(h, <<>>, "help") \in EscapeSteps
      /\ Step(h, <<"~">>, "none") \in EscapeSteps /\ Step(h, <<"~", b>>, "none") \in EscapeSteps
  BY <1>1, StepType
<1>6. [h EXCEPT !.mode = ~@] = [h EXCEPT !.mode = ~h.mode]
  BY DEF Handlers
<1>7. QED
  BY <1>4, <1>5, <1>6 DEF EscapeByte

LEMMA ProcessByteType ==
  ASSUME NEW h \in Handlers, NEW b \in Bytes
  PROVE  ProcessByte(h, b) \in EscapeSteps
<1>1. <<>> \in Seq(Bytes) /\ 0 \in Nat /\ 0 <= Len(<<>>)
  OBVIOUS
<1>2. <<>> \in Seq(OutBytes) /\ <<b>> \in Seq(OutBytes)
  BY DEF OutBytes
<1>3. /\ [h EXCEPT !.newline = TRUE, !.line = <<>>, !.blind = 0] \in Handlers
      /\ [h EXCEPT !.newline = FALSE, !.tilde = TRUE] \in Handlers
      /\ [h EXCEPT !.tilde = FALSE, !.newline = FALSE] \in Handlers
      /\ [h EXCEPT !.newline = FALSE] \in Handlers
  BY <1>1, HandlerType
<1>4. /\ Step([h EXCEPT !.newline = TRUE, !.line = <<>>, !.blind = 0], <<b>>, "none") \in EscapeSteps
      /\ Step([h EXCEPT !.newline = FALSE, !.tilde = TRUE], <<>>, "none") \in EscapeSteps
      /\ Step([h EXCEPT !.newline = FALSE], <<b>>, "none") \in EscapeSteps
  BY <1>2, <1>3, StepType
<1>5. /\ EscapeByte([h EXCEPT !.tilde = FALSE, !.newline = FALSE], b) \in EscapeSteps
      /\ LineByte([h EXCEPT !.newline = FALSE], b) \in EscapeSteps
  BY <1>3, EscapeByteType, LineByteType
<1>6. QED
  BY <1>4, <1>5 DEF ProcessByte

LEMMA NextByteType ==
  ASSUME NEW a \in EscapeSteps, NEW b \in Bytes
  PROVE  NextByte(a, b) \in EscapeSteps
<1>1. a.handler \in Handlers /\ a.out \in Seq(OutBytes)
  BY DEF EscapeSteps
<1>2. PICK s : s = ProcessByte(a.handler, b)
  OBVIOUS
<1>3. s \in EscapeSteps
  BY <1>1, <1>2, ProcessByteType
<1>4. a.out \o s.out \in Seq(OutBytes)
  BY <1>1, <1>3 DEF EscapeSteps
<1>5. [s EXCEPT !.out = a.out \o s.out] \in EscapeSteps
  BY <1>3, <1>4 DEF EscapeSteps
<1>6. NextByte(a, b) = IF a.action = "disconnect" THEN a ELSE [s EXCEPT !.out = a.out \o s.out]
  BY <1>2, <1>3 DEF NextByte, EscapeSteps
<1>7. QED
  BY <1>5, <1>6

LEMMA AfterBytesType ==
  ASSUME NEW h \in Handlers, NEW read \in Seq(Bytes)
  PROVE  \A k \in 0 .. Len(read) : AfterBytes(h, read)[k] \in EscapeSteps
<1> DEFINE S == {k \in 0 .. Len(read) : AfterBytes(h, read)[k] \in EscapeSteps}
<1>0. Len(read) \in Nat
  OBVIOUS
<1>1. 0 \in S
  <2>1. AfterBytes(h, read)[0] = Step(h, <<>>, "none")
    BY <1>0, AfterBytesIs
  <2>2. Step(h, <<>>, "none") \in EscapeSteps
    BY StepType, NothingType
  <2>3. QED
    BY <1>0, <2>1, <2>2
<1>2. ASSUME NEW n \in 0 .. Len(read) - 1, n \in S PROVE n + 1 \in S
  <2>1. AfterBytes(h, read)[n + 1] = NextByte(AfterBytes(h, read)[n], read[n + 1])
    BY <1>0, AfterBytesIs
  <2>2. read[n + 1] \in Bytes
    BY <1>0
  <2>3. QED
    BY <1>2, <2>1, <2>2, NextByteType
<1>3. 0 .. Len(read) \subseteq S
  <2> HIDE DEF S
  <2>1. QED
    BY <1>0, <1>1, <1>2, UpTo
<1>4. QED
  BY <1>3

--------------------------------------------------------------------------------
(* Types of the whole state, with what the program's states say of its     *)
(* tasks.                                                                  *)

EventKinds == {"activated", "version", "error", "closed", "output", "exit"}
BeforeSession == {"identity", "link", "subscribe", "activation", "version"}

InitiatorTypes ==
  /\ InitiatorTypeOK
  /\ lagged \in BOOLEAN /\ disconnect \in BOOLEAN
  /\ events \in Seq([kind : EventKinds, n : Nat])
  /\ escape \in Handlers
  /\ output \in Seq(OutBytes) /\ wire \in Seq(OutBytes)
  /\ typed \in Seq(Bytes) /\ last \in Seq(Bytes)
  /\ status \in Codes \cup {-1, 0, 1}
  /\ said \in Nat /\ owed \in Nat \cup {-1} /\ owed <= said
  /\ shown \in Seq(Nat)

(* The blocks of output that have arrived are shown or wait among the events, in *)
(* order and without a gap, unless an event was lost; the command's exit waits   *)
(* behind all the output that came before it.                                    *)
OutputAt(i) == events[i].kind = "output"
OutputWaits ==
  /\ Len(shown) <= said
  /\ \A i \in DOMAIN events : OutputAt(i) => events[i].n \in Len(shown) + 1 .. said
  /\ \A i, j \in DOMAIN events : i < j /\ OutputAt(i) /\ OutputAt(j) => events[i].n < events[j].n
  /\ \A n \in Len(shown) + 1 .. said : \E i \in DOMAIN events : OutputAt(i) /\ events[i].n = n
ExitWaits ==
  \A i \in DOMAIN events : events[i].kind = "exit" =>
    /\ events[i].n \in Codes /\ owed # -1
    /\ phase = "session" /\ ~lagged =>
         \A j \in DOMAIN events : i < j /\ OutputAt(j) => events[j].n > owed

OutputInv ==
  /\ OutputGapFree
  /\ phase \in BeforeSession =>
       /\ said = 0 /\ owed = -1 /\ shown = <<>>
       /\ \A i \in DOMAIN events : events[i].kind \notin {"output", "exit"}
  /\ phase = "session" /\ ~lagged => OutputWaits
  /\ ExitWaits

--------------------------------------------------------------------------------
(* Taking the oldest event and posting one.                                *)

LEMMA TailOf ==
  ASSUME NEW S, NEW s \in Seq(S), s # <<>>
  PROVE  /\ Head(s) \in S /\ Head(s) = s[1] /\ 1 \in DOMAIN s
         /\ Tail(s) \in Seq(S) /\ Len(Tail(s)) = Len(s) - 1
         /\ \A i \in DOMAIN Tail(s) : i + 1 \in DOMAIN s /\ i \in Nat /\ Tail(s)[i] = s[i + 1]
OBVIOUS

LEMMA AppendOf ==
  ASSUME NEW S, NEW s \in Seq(S), NEW e \in S
  PROVE  /\ Append(s, e) \in Seq(S) /\ Len(Append(s, e)) = Len(s) + 1
         /\ DOMAIN Append(s, e) = DOMAIN s \cup {Len(s) + 1}
         /\ \A i \in DOMAIN s : Append(s, e)[i] = s[i] /\ i < Len(s) + 1
         /\ Append(s, e)[Len(s) + 1] = e
OBVIOUS

InitiatorEvent == [kind : EventKinds, n : Nat]

LEMMA SaidEvent ==
  ASSUME NEW kind \in EventKinds, NEW n \in Nat
  PROVE  /\ LinkSays(kind, n) \in InitiatorEvent
         /\ LinkSays(kind, n).kind = kind /\ LinkSays(kind, n).n = n
BY DEF LinkSays, InitiatorEvent

LEMMA PostedType ==
  ASSUME InitiatorTypes, NEW e \in InitiatorEvent, PostEvent(e)
  PROVE  /\ events' \in Seq(InitiatorEvent) /\ Len(events') <= EventRoom /\ lagged' \in BOOLEAN
         /\ lagged => lagged'
<1>1. events \in Seq(InitiatorEvent) /\ Len(events) <= EventRoom /\ lagged \in BOOLEAN /\ EventRoom \in Nat \ {0}
  BY InitiatorAssumption DEF InitiatorTypes, InitiatorTypeOK, InitiatorEvent
<1>2. CASE phase \in {"link", "subscribe", "over"}
  BY <1>1, <1>2 DEF PostEvent
<1>3. CASE phase \notin {"link", "subscribe", "over"} /\ Len(events) = EventRoom
  <2>1. events # <<>>
    BY <1>1, <1>3
  <2>2. Tail(events) \in Seq(InitiatorEvent) /\ Len(Tail(events)) = Len(events) - 1
    BY <1>1, <2>1, TailOf
  <2>3. Append(Tail(events), e) \in Seq(InitiatorEvent) /\ Len(Append(Tail(events), e)) = Len(events)
    BY <1>1, <2>2, AppendOf
  <2>4. QED
    BY <1>1, <1>3, <2>3 DEF PostEvent
<1>4. CASE phase \notin {"link", "subscribe", "over"} /\ Len(events) # EventRoom
  <2>1. Append(events, e) \in Seq(InitiatorEvent) /\ Len(Append(events, e)) = Len(events) + 1
    BY <1>1, AppendOf
  <2>2. QED
    BY <1>1, <1>4, <2>1 DEF PostEvent
<1>5. QED
  BY <1>2, <1>3, <1>4

\* What is posted comes last, if nothing is lost; and nothing else is new.
LEMMA PostedWhere ==
  ASSUME InitiatorTypes, NEW e \in InitiatorEvent, PostEvent(e)
  PROVE  /\ phase = "session" /\ ~lagged' => ~lagged /\ events' = Append(events, e)
         /\ \A i \in DOMAIN events' : events'[i] = e \/ \E j \in DOMAIN events : events'[i] = events[j]
<1>1. events \in Seq(InitiatorEvent) /\ lagged \in BOOLEAN /\ EventRoom \in Nat \ {0}
  BY InitiatorAssumption DEF InitiatorTypes, InitiatorEvent
<1>2. phase = "session" /\ ~lagged' => ~lagged /\ events' = Append(events, e)
  BY <1>1 DEF PostEvent
<1>3. CASE events' = events
  BY <1>2, <1>3
<1>4. CASE events' = Append(events, e)
  BY <1>1, <1>2, <1>4, AppendOf
<1>5. CASE events' = Append(Tail(events), e) /\ Len(events) = EventRoom
  <2>1. events # <<>>
    BY <1>1, <1>5
  <2>2. /\ Tail(events) \in Seq(InitiatorEvent)
        /\ \A i \in DOMAIN Tail(events) : i + 1 \in DOMAIN events /\ Tail(events)[i] = events[i + 1]
    BY <1>1, <2>1, TailOf
  <2>3. QED
    BY <1>2, <1>5, <2>2, AppendOf
<1>6. QED
  BY <1>2, <1>3, <1>4, <1>5 DEF PostEvent

LEMMA ReadTyped ==
  ASSUME NEW read \in Reads
  PROVE  read \in Seq(Bytes) /\ Len(read) \in Nat
BY InitiatorAssumption DEF Reads, SeqOf

LEMMA ReadType ==
  ASSUME NEW h \in Handlers, NEW read \in Seq(Bytes)
  PROVE  ProcessRead(h, read) \in EscapeSteps
<1>1. Len(read) \in Nat /\ Len(read) \in 0 .. Len(read)
  OBVIOUS
<1>2. QED
  BY <1>1, AfterBytesType DEF ProcessRead

LEMMA FrameRange ==
  ASSUME NEW n \in Nat, NEW m \in FrameBytes(n)
  PROVE  m \in 0 .. n
<1>1. CASE m = IF n <= MaxFrame THEN n ELSE MaxFrame
  BY <1>1, InitiatorAssumption
<1>2. CASE \E u \in 1 .. 4 : m = n \div u
  <2>1. PICK u \in 1 .. 4 : m = n \div u
    BY <1>2
  <2>2. u = 1 \/ u = 2 \/ u = 3 \/ u = 4
    BY <2>1
  <2>3. QED
    BY <2>1, <2>2
<1>3. QED
  BY <1>1, <1>2 DEF FrameBytes

LEMMA Cut ==
  ASSUME NEW S, NEW s \in Seq(S), NEW m \in 0 .. Len(s)
  PROVE  /\ SubSeq(s, 1, m) \in Seq(S) /\ SubSeq(s, m + 1, Len(s)) \in Seq(S)
         /\ Len(SubSeq(s, 1, m)) = m /\ Len(SubSeq(s, m + 1, Len(s))) = Len(s) - m
         /\ SubSeq(s, 1, m) \o SubSeq(s, m + 1, Len(s)) = s
<1>1. /\ SubSeq(s, 1, m) \in Seq(S) /\ SubSeq(s, m + 1, Len(s)) \in Seq(S)
      /\ Len(SubSeq(s, 1, m)) = m /\ Len(SubSeq(s, m + 1, Len(s))) = Len(s) - m
  OBVIOUS
<1>2. SubSeq(s, 1, m) \o SubSeq(s, m + 1, Len(s)) = s
  <2>1. SubSeq(s, 1, Len(s)) = s
    BY SubSeqFull
  <2>2. /\ 1 \in 1 .. Len(s) + 1 /\ m \in 1 - 1 .. Len(s) /\ Len(s) \in m .. Len(s)
    OBVIOUS
  <2>3. SubSeq(s, 1, m) \o SubSeq(s, m + 1, Len(s)) = SubSeq(s, 1, Len(s))
    BY <2>2, ConcatAdjacentSubSeq
  <2>4. QED
    BY <2>1, <2>3
<1>3. QED
  BY <1>1, <1>2

--------------------------------------------------------------------------------
(* The types are kept.                                                     *)

LEMMA TypesInit == InitiatorInit => InitiatorTypes /\ OutputInv
<1>1. SUFFICES ASSUME InitiatorInit PROVE InitiatorTypes /\ OutputInv
  OBVIOUS
<1>2. NewEscape \in Handlers
  <2>1. <<>> \in Seq(Bytes) /\ 0 <= Len(<<>>)
    OBVIOUS
  <2>2. QED
    BY <2>1 DEF NewEscape, Handlers
<1>3. InitiatorTypeOK
  BY <1>1, InitiatorAssumption DEF InitiatorTypeOK, InitiatorInit, NewEscape
<1>4. InitiatorTypes
  <2>1. /\ events \in Seq([kind : EventKinds, n : Nat]) /\ shown \in Seq(Nat)
        /\ output \in Seq(OutBytes) /\ wire \in Seq(OutBytes)
        /\ typed \in Seq(Bytes) /\ last \in Seq(Bytes)
    BY <1>1, NothingType DEF InitiatorInit
  <2>2. status \in Codes \cup {-1, 0, 1} /\ said \in Nat /\ owed \in Nat \cup {-1} /\ owed <= said
    <3>1. status = -1 /\ said = 0 /\ owed = -1
      BY <1>1 DEF InitiatorInit
    <3>2. QED
      BY <3>1
  <2>3. lagged \in BOOLEAN /\ disconnect \in BOOLEAN /\ escape \in Handlers
    BY <1>1, <1>2 DEF InitiatorInit
  <2>4. QED
    BY <1>3, <2>1, <2>2, <2>3 DEF InitiatorTypes
<1>5. OutputInv
  BY <1>1, InitiatorAssumption DEF OutputInv, InitiatorInit, OutputGapFree, OutputWaits, ExitWaits, BeforeSession
<1>6. QED
  BY <1>4, <1>5

LEMMA TypesNext ==
  ASSUME InitiatorTypes, ExitWaits, [InitiatorNext]_initiatorVars
  PROVE  InitiatorTypes'
<1> USE InitiatorAssumption
<1>0. /\ events \in Seq(InitiatorEvent) /\ Seq(InitiatorEvent) = Seq([kind : EventKinds, n : Nat])
      /\ Codes \subseteq Nat
      /\ phase = "over" <=> status # -1
  BY DEF InitiatorTypes, InitiatorEvent, InitiatorTypeOK
<1>1. CASE UNCHANGED initiatorVars
  BY <1>1 DEF InitiatorTypes, InitiatorTypeOK, initiatorVars
<1>2. CASE DeadlinePasses
  BY <1>2 DEF DeadlinePasses, Input0, InitiatorTypes, InitiatorTypeOK
<1>3. CASE ResolveListenerIdentity
  BY <1>3 DEF ResolveListenerIdentity, Input0, Peer0, InitiatorTypes, InitiatorTypeOK
<1>4. CASE InitiatorLink
  BY <1>4 DEF InitiatorLink, Input0, Peer0, InitiatorTypes, InitiatorTypeOK
<1>5. CASE SubscribeEvents
  BY <1>5 DEF SubscribeEvents, Input0, Peer0, InitiatorTypes, InitiatorTypeOK
<1>6. CASE LinkActivated \/ VersionReceived \/ Session
  <2>0. events # <<>> /\ events' = Tail(events)
    BY <1>6 DEF LinkActivated, VersionReceived, Session, Take
  <2>1. events' \in Seq(InitiatorEvent) /\ Len(events') <= EventRoom /\ Head(events) \in InitiatorEvent /\ 1 \in DOMAIN events /\ Head(events) = events[1]
    BY <1>0, <2>0, TailOf DEF InitiatorTypes, InitiatorTypeOK
  <2>2. CASE LinkActivated
    BY <1>0, <2>0, <2>1, <2>2 DEF LinkActivated, Take, Fail, Input0, Peer0, InitiatorTypes, InitiatorTypeOK
  <2>3. CASE VersionReceived
    BY <1>0, <2>0, <2>1, <2>3 DEF VersionReceived, Fail, Input0, Peer0, InitiatorTypes, InitiatorTypeOK
  <2>4. CASE Session
    <3>1. Head(events).n \in Nat
      BY <2>1 DEF InitiatorEvent
    <3>2. shown' \in Seq(Nat)
      <4>1. shown \in Seq(Nat)
        BY DEF InitiatorTypes
      <4>2. shown' = shown \/ shown' = Append(shown, Head(events).n)
        BY <2>4 DEF Session
      <4>3. Append(shown, Head(events).n) \in Seq(Nat)
        BY <3>1, <4>1
      <4>4. QED
        BY <4>1, <4>2, <4>3
    <3>3. Head(events).kind = "exit" => Head(events).n \in Codes
      BY <2>1 DEF ExitWaits
    <3>4. status' \in Codes \cup {-1, 0, 1} /\ (phase' = "over" <=> status' # -1)
      BY <1>0, <2>4, <3>3 DEF Session, Take, Exit, InitiatorTypes
    <3>5. phase' \in {phase, "over"} /\ phase = "session"
      BY <2>4 DEF Session, Take, Exit
    <3>6. QED
      BY <1>0, <2>0, <2>1, <2>4, <3>2, <3>4, <3>5 DEF Session, Take, Input0, Peer0, InitiatorTypes, InitiatorTypeOK
  <2>5. QED
    BY <1>6, <2>2, <2>3, <2>4
<1>7. CASE HandshakeFails
  BY <1>0, <1>7 DEF HandshakeFails, Fail, Input0, Peer0, InitiatorTypes, InitiatorTypeOK
<1>8. ASSUME NEW read \in Reads, Read(read) PROVE InitiatorTypes'
  <2>1. PICK s : s = ProcessRead(escape, read)
    OBVIOUS
  <2>2. s \in EscapeSteps /\ read \in Seq(Bytes)
    BY <2>1, ReadTyped, ReadType DEF InitiatorTypes
  <2>3. s.handler \in Handlers /\ s.out \in Seq(OutBytes) /\ s.handler.blind <= Len(s.handler.line)
    BY <2>2 DEF EscapeSteps, Handlers
  <2>4. typed \o read \in Seq(Bytes)
    BY <2>2 DEF InitiatorTypes
  <2>5. QED
    BY <1>8, <2>1, <2>2, <2>3, <2>4 DEF Read, Stdin, Peer0, InitiatorTypes, InitiatorTypeOK
<1>9. CASE SendFrame
  <2>1. PICK n \in FrameBytes(Len(output)) :
          /\ wire' = wire \o SubSeq(output, 1, n)
          /\ output' = SubSeq(output, n + 1, Len(output))
          /\ stdin' = IF n = Len(output) THEN "read" ELSE "send"
    BY <1>9 DEF SendFrame
  <2>2. output \in Seq(OutBytes) /\ wire \in Seq(OutBytes) /\ Len(output) \in Nat
    BY DEF InitiatorTypes
  <2>3. n \in 0 .. Len(output)
    BY <2>1, <2>2, FrameRange
  <2>4. wire' \in Seq(OutBytes) /\ output' \in Seq(OutBytes) /\ Len(output') = Len(output) - n
    BY <2>1, <2>2, <2>3, Cut
  <2>5. stdin' = "send" => output' # <<>>
    <3>1. output' = <<>> => Len(output') = 0
      BY NothingType
    <3>2. QED
      BY <2>1, <2>2, <2>3, <2>4, <3>1
  <2>6. QED
    BY <1>9, <2>1, <2>4, <2>5 DEF SendFrame, Stdin, Peer0, InitiatorTypes, InitiatorTypeOK
<1>10. CASE StopReading
  BY <1>10 DEF StopReading, Stdin, Peer0, InitiatorTypes, InitiatorTypeOK
<1>11. CASE Disconnected
  BY <1>0, <1>11 DEF Disconnected, Exit, Input0, Peer0, InitiatorTypes, InitiatorTypeOK
<1>12. CASE Lagged
  BY <1>0, <1>12 DEF Lagged, Exit, Input0, Peer0, InitiatorTypes, InitiatorTypeOK
<1>13. ASSUME NEW e \in InitiatorEvent, PostEvent(e), Program0, up' \in {"none", "requested", "up", "closed"},
              said' \in Nat, owed' \in Nat \cup {-1}, owed' <= said'
       PROVE  InitiatorTypes'
  <2>1. events' \in Seq(InitiatorEvent) /\ Len(events') <= EventRoom /\ lagged' \in BOOLEAN
    BY <1>13, PostedType
  <2>2. QED
    BY <1>0, <1>13, <2>1 DEF Program0, Input0, InitiatorTypes, InitiatorTypeOK
<1>14. up \in {"none", "requested", "up", "closed"} /\ said \in Nat /\ owed \in Nat \cup {-1} /\ owed <= said
  BY DEF InitiatorTypes, InitiatorTypeOK
<1>15. CASE LinkUp
  <2>1. LinkSays("activated", 0) \in InitiatorEvent
    BY SaidEvent DEF EventKinds
  <2>2. QED
    BY <1>13, <1>14, <1>15, <2>1 DEF LinkUp
<1>16. CASE LinkClosed
  <2>1. LinkSays("closed", 0) \in InitiatorEvent
    BY SaidEvent DEF EventKinds
  <2>2. QED
    BY <1>13, <1>14, <1>16, <2>1 DEF LinkClosed
<1>17. CASE SayVersion
  <2>1. LinkSays("version", 0) \in InitiatorEvent
    BY SaidEvent DEF EventKinds
  <2>2. QED
    BY <1>13, <1>14, <1>17, <2>1 DEF SayVersion, Say
<1>18. CASE SayError
  <2>1. LinkSays("error", 0) \in InitiatorEvent
    BY SaidEvent DEF EventKinds
  <2>2. QED
    BY <1>13, <1>14, <1>18, <2>1 DEF SayError, Say
<1>19. CASE SayOutput
  <2>1. said' \in Nat /\ said' = said + 1
    BY <1>14, <1>19 DEF SayOutput
  <2>2. LinkSays("output", said') \in InitiatorEvent
    BY <2>1, SaidEvent DEF EventKinds
  <2>3. QED
    BY <1>13, <1>14, <1>19, <2>1, <2>2 DEF SayOutput, Say
<1>20. ASSUME NEW code \in Codes, SayExit(code) PROVE InitiatorTypes'
  <2>1. LinkSays("exit", code) \in InitiatorEvent
    BY <1>0, SaidEvent DEF EventKinds
  <2>2. QED
    BY <1>13, <1>14, <1>20, <2>1 DEF SayExit, Say
<1>21. QED
  BY <1>1, <1>2, <1>3, <1>4, <1>5, <1>6, <1>7, <1>8, <1>9, <1>10, <1>11, <1>12, <1>15, <1>16, <1>17,
     <1>18, <1>19, <1>20 DEF InitiatorNext

--------------------------------------------------------------------------------
(* The output that is shown has no gap.                                    *)

(* Taking an event that shows nothing, or an event posted that is no output and no *)
(* exit, leaves the events in their order.                                         *)
LEMMA ShownCount ==
  ASSUME NEW n \in Nat, NEW s, s = [k \in 1 .. n |-> k]
  PROVE  /\ s \in Seq(Nat) /\ Len(s) = n
         /\ Append(s, n + 1) = [k \in 1 .. n + 1 |-> k] /\ Len(Append(s, n + 1)) = n + 1
<1>1. s \in Seq(Nat) /\ Len(s) = n
  OBVIOUS
<1>2. Append(s, n + 1) = [k \in 1 .. n + 1 |-> k]
  BY <1>1
<1>3. QED
  BY <1>1, <1>2

LEMMA OutputTaken ==
  ASSUME InitiatorTypes, OutputInv, events # <<>>, events' = Tail(events),
         UNCHANGED <<said, owed, lagged>>, phase' \in {phase, "over"} \/ (phase = "version" /\ phase' = "session"),
         OutputGapFree',
         shown' = shown \/ (events[1].kind = "output" /\ shown' = Append(shown, events[1].n)),
         phase' \in BeforeSession => shown' = shown,
         phase' = "session" /\ ~lagged /\ events[1].kind = "output" => Len(shown') = Len(shown) + 1 /\ events[1].n = Len(shown')
  PROVE  OutputInv'
<1>1. /\ events \in Seq(InitiatorEvent) /\ shown \in Seq(Nat) /\ said \in Nat
      /\ \A i \in DOMAIN events : events[i] \in InitiatorEvent
  <2>1. events \in Seq(InitiatorEvent) /\ shown \in Seq(Nat) /\ said \in Nat
    BY DEF InitiatorTypes, InitiatorEvent
  <2>2. QED
    BY <2>1
<1>2. /\ 1 \in DOMAIN events /\ Len(shown) \in Nat
      /\ \A i \in DOMAIN events' : i + 1 \in DOMAIN events /\ i \in Nat /\ events'[i] = events[i + 1]
  BY <1>1, TailOf
<1>3. \A i \in DOMAIN events : i \in Nat /\ (i # 1 => i - 1 \in DOMAIN events' /\ events'[i - 1] = events[i])
  BY <1>1
<1>4. ExitWaits'
  BY SMTT(20), <1>1, <1>2 DEF OutputInv, ExitWaits, BeforeSession, OutputAt
<1>5. phase' \in BeforeSession => phase \in BeforeSession
  BY DEF BeforeSession
<1>6. ASSUME phase' \in BeforeSession
      PROVE  /\ said' = 0 /\ owed' = -1 /\ shown' = <<>>
             /\ \A i \in DOMAIN events' : events'[i].kind \notin {"output", "exit"}
  BY <1>2, <1>5, <1>6 DEF OutputInv
<1>7. ASSUME phase' = "session", ~lagged' PROVE OutputWaits'
  <2>1. CASE phase = "version"
    <3>1. /\ said' = 0 /\ Len(shown') = 0
          /\ \A i \in DOMAIN events' : events'[i].kind # "output"
      <4>1. shown = <<>> /\ events[1].kind # "output"
        BY <1>2, <2>1 DEF OutputInv, BeforeSession
      <4>2. QED
        BY <1>2, <2>1, <4>1 DEF OutputInv, BeforeSession
    <3>2. QED
      BY <3>1 DEF OutputWaits, OutputAt
  <2>2. CASE phase = "session"
    <3>1. OutputWaits
      BY <1>7, <2>2 DEF OutputInv
    <3>2. CASE events[1].kind = "output"
      <4>1. Len(shown') = Len(shown) + 1 /\ events[1].n = Len(shown')
        BY <1>7, <3>2
      <4>2. \A i \in DOMAIN events' : OutputAt(i)' => events'[i].n \in Len(shown') + 1 .. said'
        <5>1. SUFFICES ASSUME NEW i \in DOMAIN events', OutputAt(i)'
                       PROVE  events'[i].n \in Len(shown') + 1 .. said'
          OBVIOUS
        <5>2. /\ i + 1 \in DOMAIN events /\ 1 < i + 1 /\ events'[i] = events[i + 1]
              /\ OutputAt(i + 1) /\ OutputAt(1)
          BY <1>1, <1>2, <3>2, <5>1 DEF OutputAt
        <5>3. events[i + 1].n \in Len(shown) + 1 .. said /\ events[1].n < events[i + 1].n
          BY <1>2, <3>1, <5>2 DEF OutputWaits
        <5>4. QED
          BY <1>1, <1>2, <4>1, <5>2, <5>3
      <4>3. \A i, j \in DOMAIN events' : i < j /\ OutputAt(i)' /\ OutputAt(j)' => events'[i].n < events'[j].n
        BY <1>1, <1>2, <3>1 DEF OutputWaits, OutputAt
      <4>4. \A n \in Len(shown') + 1 .. said' : \E i \in DOMAIN events' : OutputAt(i)' /\ events'[i].n = n
        <5>1. TAKE n \in Len(shown') + 1 .. said'
        <5>2. PICK i \in DOMAIN events : OutputAt(i) /\ events[i].n = n
          <6>1. n \in Len(shown) + 1 .. said
            BY <1>1, <1>2, <4>1, <5>1
          <6>2. QED
            BY <3>1, <6>1 DEF OutputWaits
        <5>3. i # 1
          BY <1>2, <4>1, <5>2
        <5>4. QED
          BY <1>3, <5>2, <5>3 DEF OutputAt
      <4>5. Len(shown') <= said'
        BY <1>1, <1>2, <3>1, <3>2, <4>1 DEF OutputWaits, OutputAt
      <4>6. QED
        BY <4>2, <4>3, <4>4, <4>5 DEF OutputWaits
    <3>3. CASE events[1].kind # "output"
      <4>1. shown' = shown
        BY <3>3
      <4>2. \A i \in DOMAIN events' : OutputAt(i)' => events'[i].n \in Len(shown') + 1 .. said'
        BY <1>1, <1>2, <3>1, <4>1 DEF OutputWaits, OutputAt
      <4>3. \A i, j \in DOMAIN events' : i < j /\ OutputAt(i)' /\ OutputAt(j)' => events'[i].n < events'[j].n
        BY <1>1, <1>2, <3>1 DEF OutputWaits, OutputAt
      <4>4. \A n \in Len(shown') + 1 .. said' : \E i \in DOMAIN events' : OutputAt(i)' /\ events'[i].n = n
        <5>1. TAKE n \in Len(shown') + 1 .. said'
        <5>2. PICK i \in DOMAIN events : OutputAt(i) /\ events[i].n = n
          BY <1>1, <1>2, <3>1, <4>1 DEF OutputWaits
        <5>3. i # 1
          BY <3>3, <5>2 DEF OutputAt
        <5>4. QED
          BY <1>3, <5>2, <5>3 DEF OutputAt
      <4>5. Len(shown') <= said'
        BY <1>1, <3>1, <4>1 DEF OutputWaits
      <4>6. QED
        BY <4>2, <4>3, <4>4, <4>5 DEF OutputWaits
    <3>4. QED
      BY <3>2, <3>3
  <2>3. QED
    BY <1>7, <2>1, <2>2
<1>8. QED
  BY <1>4, <1>6, <1>7 DEF OutputInv

LEMMA OutputPosted ==
  ASSUME InitiatorTypes, OutputInv, NEW e \in InitiatorEvent, PostEvent(e), UNCHANGED <<phase, shown, status>>,
         \/ e.kind \notin {"output", "exit"} /\ UNCHANGED <<said, owed>>
         \/ e.kind = "output" /\ e.n = said + 1 /\ said' = said + 1 /\ owed' = owed /\ phase = "session"
         \/ e.kind = "exit" /\ e.n \in Codes /\ said' = said /\ owed = -1 /\ owed' = said /\ phase = "session"
  PROVE  OutputInv'
<1>1. /\ events \in Seq(InitiatorEvent) /\ shown \in Seq(Nat) /\ Len(shown) \in Nat /\ said \in Nat /\ lagged \in BOOLEAN
      /\ owed \in Nat \cup {-1} /\ owed <= said /\ Codes \subseteq Nat
      /\ phase = "session" => status = -1
  BY InitiatorAssumption DEF InitiatorTypes, InitiatorTypeOK, InitiatorEvent
<1>2. /\ phase = "session" /\ ~lagged' => ~lagged /\ events' = Append(events, e)
      /\ \A i \in DOMAIN events' : events'[i] = e \/ \E j \in DOMAIN events : events'[i] = events[j]
  BY PostedWhere
<1>3. /\ DOMAIN Append(events, e) = DOMAIN events \cup {Len(events) + 1}
      /\ \A i \in DOMAIN events : Append(events, e)[i] = events[i] /\ i < Len(events) + 1 /\ i \in Nat
      /\ Append(events, e)[Len(events) + 1] = e
      /\ Len(events) \in Nat
  BY <1>1, AppendOf
<1>4. OutputGapFree'
  BY <1>1 DEF OutputInv, OutputGapFree
<1>5. ASSUME phase' \in BeforeSession
      PROVE  /\ said' = 0 /\ owed' = -1 /\ shown' = <<>>
             /\ \A i \in DOMAIN events' : events'[i].kind \notin {"output", "exit"}
  BY <1>2, <1>5 DEF OutputInv, BeforeSession
<1>6. \A i \in DOMAIN events' : events'[i].kind = "exit" => events'[i].n \in Codes /\ owed' # -1
  BY <1>1, <1>2 DEF OutputInv, ExitWaits
<1>7. ASSUME phase' = "session", ~lagged'
      PROVE  OutputWaits' /\ \A i, j \in DOMAIN events' :
               events'[i].kind = "exit" /\ i < j /\ OutputAt(j)' => events'[j].n > owed'
  <2>1. events' = Append(events, e) /\ OutputWaits /\ ~lagged /\ phase = "session"
    BY <1>2, <1>7 DEF OutputInv
  <2>2. \A i \in DOMAIN events' : i \in DOMAIN events \/ i = Len(events) + 1
    BY <1>3, <2>1
  <2>3. \A i \in DOMAIN events : i \in DOMAIN events' /\ i < Len(events) + 1 /\ events'[i] = events[i]
    BY <1>3, <2>1
  <2>4. Len(events) + 1 \in DOMAIN events' /\ events'[Len(events) + 1] = e
    BY <1>3, <2>1
  <2>5. \A i \in DOMAIN events : OutputAt(i) => events[i].n \in Len(shown) + 1 .. said
    BY <2>1 DEF OutputWaits
  <2>6. \A i \in DOMAIN events' : OutputAt(i)' => events'[i].n \in Len(shown') + 1 .. said'
    <3>1. SUFFICES ASSUME NEW i \in DOMAIN events', OutputAt(i)'
                   PROVE  events'[i].n \in Len(shown') + 1 .. said'
      OBVIOUS
    <3>2. CASE i \in DOMAIN events
      BY <1>1, <2>3, <2>5, <3>1, <3>2 DEF OutputAt
    <3>3. CASE i = Len(events) + 1
      <4>1. e.kind = "output" /\ events'[i].n = said + 1 /\ said' = said + 1
        BY <2>4, <3>1, <3>3 DEF OutputAt
      <4>2. Len(shown) <= said
        BY <2>1 DEF OutputWaits
      <4>3. QED
        BY <1>1, <4>1, <4>2
    <3>4. QED
      BY <2>2, <3>2, <3>3
  <2>7. \A i, j \in DOMAIN events' : i < j /\ OutputAt(i)' /\ OutputAt(j)' => events'[i].n < events'[j].n
    <3>1. SUFFICES ASSUME NEW i \in DOMAIN events', NEW j \in DOMAIN events', i < j, OutputAt(i)', OutputAt(j)'
                   PROVE  events'[i].n < events'[j].n
      OBVIOUS
    <3>2. i \in DOMAIN events
      BY <1>3, <2>2, <2>3, <3>1
    <3>3. CASE j \in DOMAIN events
      BY <2>1, <2>3, <3>1, <3>2, <3>3 DEF OutputWaits, OutputAt
    <3>4. CASE j = Len(events) + 1
      <4>1. e.kind = "output" /\ events'[j].n = said + 1
        BY <2>4, <3>1, <3>4 DEF OutputAt
      <4>2. events'[i].n \in Len(shown) + 1 .. said
        BY <2>3, <2>5, <3>1, <3>2 DEF OutputAt
      <4>3. QED
        BY <1>1, <4>1, <4>2
    <3>5. QED
      BY <2>2, <3>3, <3>4
  <2>8. \A n \in Len(shown') + 1 .. said' : \E i \in DOMAIN events' : OutputAt(i)' /\ events'[i].n = n
    <3>1. TAKE n \in Len(shown') + 1 .. said'
    <3>2. CASE n \in Len(shown) + 1 .. said
      <4>1. PICK i \in DOMAIN events : OutputAt(i) /\ events[i].n = n
        BY <2>1, <3>2 DEF OutputWaits
      <4>2. QED
        BY <2>3, <4>1 DEF OutputAt
    <3>3. CASE n \notin Len(shown) + 1 .. said
      <4>1. e.kind = "output" /\ e.n = n
        BY <1>1, <3>3
      <4>2. QED
        BY <2>4, <4>1 DEF OutputAt
    <3>4. QED
      BY <3>2, <3>3
  <2>9. \A i, j \in DOMAIN events' :
          events'[i].kind = "exit" /\ i < j /\ OutputAt(j)' => events'[j].n > owed'
    <3>1. SUFFICES ASSUME NEW i \in DOMAIN events', NEW j \in DOMAIN events',
                          events'[i].kind = "exit", i < j, OutputAt(j)'
                   PROVE  events'[j].n > owed'
      OBVIOUS
    <3>2. i \in DOMAIN events /\ events[i].kind = "exit"
      BY <1>3, <2>2, <2>3, <3>1
    <3>3. owed # -1 /\ \A k \in DOMAIN events : i < k /\ OutputAt(k) => events[k].n > owed
      BY <2>1, <3>2 DEF OutputInv, ExitWaits
    <3>4. owed' = owed
      BY <3>3
    <3>5. CASE j \in DOMAIN events
      BY <2>3, <3>1, <3>3, <3>4, <3>5 DEF OutputAt
    <3>6. CASE j = Len(events) + 1
      <4>1. events'[j].n = said + 1
        BY <2>4, <3>1, <3>6 DEF OutputAt
      <4>2. QED
        BY <1>1, <3>4, <4>1
    <3>7. QED
      BY <2>2, <3>5, <3>6
  <2>10. Len(shown') <= said'
    BY <1>1, <2>1 DEF OutputWaits
  <2>11. QED
    BY <2>6, <2>7, <2>8, <2>9, <2>10 DEF OutputWaits
<1>8. ExitWaits'
  BY <1>6, <1>7 DEF ExitWaits
<1>9. QED
  BY <1>4, <1>5, <1>7, <1>8 DEF OutputInv

LEMMA OutputQuiet ==
  ASSUME InitiatorTypes, OutputInv, UNCHANGED <<events, lagged, said, owed, shown>>,
         status' \in {status, 0, 1},
         phase' \in BeforeSession => phase \in BeforeSession,
         phase' = "session" => phase = "session"
  PROVE  OutputInv'
<1>1. OutputGapFree'
  BY DEF OutputInv, OutputGapFree
<1>2. OutputWaits => OutputWaits'
  BY DEF OutputWaits, OutputAt
<1>3. ExitWaits'
  BY DEF OutputInv, ExitWaits, OutputAt
<1>4. QED
  BY <1>1, <1>2, <1>3 DEF OutputInv

LEMMA OutputNext ==
  ASSUME InitiatorTypes, OutputInv, [InitiatorNext]_initiatorVars
  PROVE  OutputInv'
<1>1. /\ events \in Seq(InitiatorEvent) /\ shown \in Seq(Nat) /\ Len(shown) \in Nat /\ said \in Nat
      /\ owed \in Nat \cup {-1}
      /\ phase # "over" => status = -1
      /\ Codes \subseteq Nat
  BY InitiatorAssumption DEF InitiatorTypes, InitiatorTypeOK, InitiatorEvent
<1>2. CASE \/ UNCHANGED initiatorVars \/ DeadlinePasses \/ ResolveListenerIdentity \/ InitiatorLink
           \/ SubscribeEvents \/ HandshakeFails \/ Disconnected \/ Lagged
  <2>1. /\ UNCHANGED <<events, lagged, said, owed, shown>>
        /\ status' \in {status, 0, 1}
        /\ phase' \in BeforeSession => phase \in BeforeSession
        /\ phase' = "session" => phase = "session"
    BY <1>2 DEF initiatorVars, DeadlinePasses, ResolveListenerIdentity, InitiatorLink, SubscribeEvents,
                HandshakeFails, Disconnected, Lagged, Fail, Exit, Peer0, Input0, BeforeSession
  <2>2. QED
    BY <2>1, OutputQuiet
<1>3. CASE (\E read \in Reads : Read(read)) \/ SendFrame \/ StopReading
  <2>1. UNCHANGED <<events, lagged, said, owed, shown, status, phase>>
    BY <1>3 DEF Read, SendFrame, StopReading, Stdin, Peer0
  <2>2. QED
    BY <2>1, OutputQuiet
<1>4. CASE LinkActivated \/ VersionReceived
  <2>1. /\ events # <<>> /\ events' = Tail(events) /\ UNCHANGED <<said, owed, lagged, shown>>
        /\ status' \in {status, 1} /\ phase \in {"activation", "version"}
        /\ phase' \in {phase, "over"} \/ phase' = "version" \/ (phase = "version" /\ phase' = "session")
    BY <1>4 DEF LinkActivated, VersionReceived, Take, Fail, Peer0
  <2>2. OutputGapFree'
    BY <2>1 DEF OutputInv, OutputGapFree
  <2>3. CASE phase' \in {phase, "over"} \/ (phase = "version" /\ phase' = "session")
    <3>1. ~(events[1].kind = "output")
      BY <1>1, <2>1, TailOf DEF OutputInv, BeforeSession
    <3>2. QED
      BY <2>1, <2>2, <2>3, <3>1, OutputTaken
  <2>4. CASE phase' = "version"
    <3>1. /\ \A i \in DOMAIN events : events[i].kind \notin {"output", "exit"}
          /\ said = 0 /\ owed = -1 /\ shown = <<>>
      BY <2>1 DEF OutputInv, BeforeSession
    <3>2. \A i \in DOMAIN events' : events'[i].kind \notin {"output", "exit"}
      BY <1>1, <2>1, <3>1, TailOf
    <3>3. QED
      BY <2>1, <2>2, <2>4, <3>1, <3>2 DEF OutputInv, ExitWaits
  <2>5. QED
    BY <2>1, <2>3, <2>4
<1>5. CASE Session
  <2>1. /\ events # <<>> /\ events' = Tail(events) /\ UNCHANGED <<said, owed, lagged>>
        /\ phase = "session" /\ ~lagged /\ phase' \in {phase, "over"}
    BY <1>5 DEF Session, Take, Peer0, Exit
  <2>2. Head(events) = events[1] /\ 1 \in DOMAIN events /\ events[1] \in InitiatorEvent
    BY <1>1, <2>1, TailOf
  <2>3. OutputWaits /\ OutputGapFree /\ ExitWaits
    BY <2>1 DEF OutputInv
  <2>4. CASE events[1].kind = "output"
    <3>1. shown' = Append(shown, events[1].n) /\ UNCHANGED <<phase, status>>
      BY <1>5, <2>2, <2>4 DEF Session
    <3>2. events[1].n = Len(shown) + 1
      <4>1. events[1].n \in Len(shown) + 1 .. said
        BY <2>2, <2>3, <2>4 DEF OutputWaits, OutputAt
      <4>2. Len(shown) + 1 \in Len(shown) + 1 .. said
        BY <1>1, <4>1
      <4>3. PICK i \in DOMAIN events : OutputAt(i) /\ events[i].n = Len(shown) + 1
        BY <2>3, <4>2 DEF OutputWaits
      <4>4. CASE i = 1
        BY <4>3, <4>4
      <4>5. CASE i # 1
        <5>1. 1 < i
          BY <1>1, <4>5
        <5>2. events[1].n < events[i].n
          BY <2>2, <2>3, <2>4, <4>3, <5>1 DEF OutputWaits, OutputAt
        <5>3. QED
          BY <1>1, <4>1, <4>3, <5>2
      <4>6. QED
        BY <4>4, <4>5
    <3>3. shown = [k \in 1 .. Len(shown) |-> k]
      BY <2>3 DEF OutputGapFree
    <3>4. shown' = [k \in 1 .. Len(shown) + 1 |-> k] /\ Len(shown') = Len(shown) + 1
      BY <1>1, <3>1, <3>2, <3>3, ShownCount
    <3>5. OutputGapFree'
      BY <1>1, <2>1, <3>1, <3>4 DEF OutputGapFree
    <3>6. phase' \notin BeforeSession
      BY <2>1, <3>1 DEF BeforeSession
    <3>7. QED
      BY <2>1, <2>4, <3>1, <3>2, <3>4, <3>5, <3>6, OutputTaken
  <2>5. CASE events[1].kind # "output"
    <3>1. shown' = shown
      BY <1>5, <2>2, <2>5 DEF Session
    <3>2. OutputGapFree'
      <4>1. CASE events[1].kind = "exit"
        <5>1. status' = events[1].n
          BY <1>5, <2>2, <4>1 DEF Session, Exit
        <5>2. owed # -1 /\ \A j \in DOMAIN events : 1 < j /\ OutputAt(j) => events[j].n > owed
          BY <2>1, <2>2, <2>3, <4>1 DEF ExitWaits
        <5>3. Len(shown) >= owed
          <6>1. SUFFICES ASSUME Len(shown) < owed PROVE FALSE
            BY <1>1
          <6>2. Len(shown) + 1 \in Len(shown) + 1 .. said /\ Len(shown) + 1 <= owed
            BY <1>1, <6>1 DEF InitiatorTypes
          <6>3. PICK i \in DOMAIN events : OutputAt(i) /\ events[i].n = Len(shown) + 1
            BY <2>3, <6>2 DEF OutputWaits
          <6>4. i # 1
            BY <2>5, <6>3 DEF OutputAt
          <6>5. 1 < i
            BY <1>1, <6>4
          <6>6. events[i].n > owed
            BY <5>2, <6>3, <6>5
          <6>7. QED
            BY <1>1, <6>2, <6>3, <6>6
        <5>4. QED
          BY <2>1, <2>3, <3>1, <5>2, <5>3 DEF OutputGapFree
      <4>2. CASE events[1].kind # "exit"
        <5>1. status' \in {status, 0}
          BY <1>5, <2>2, <2>5, <4>2 DEF Session, Exit
        <5>2. QED
          BY <2>1, <2>3, <3>1, <5>1 DEF OutputGapFree
      <4>3. QED
        BY <4>1, <4>2
    <3>3. QED
      BY <2>1, <2>5, <3>1, <3>2, OutputTaken
  <2>6. QED
    BY <2>4, <2>5
<1>6. ASSUME NEW kind \in EventKinds \ {"output", "exit"}, PostEvent(LinkSays(kind, 0)), Program0, UNCHANGED <<said, owed>>
      PROVE  OutputInv'
  <2>1. LinkSays(kind, 0) \in InitiatorEvent /\ LinkSays(kind, 0).kind \notin {"output", "exit"}
    BY SaidEvent
  <2>2. UNCHANGED <<phase, shown, status>>
    BY <1>6 DEF Program0
  <2>3. QED
    BY <1>6, <2>1, <2>2, OutputPosted
<1>7. CASE LinkUp \/ LinkClosed \/ SayVersion \/ SayError
  <2>1. {"activated", "closed", "version", "error"} \subseteq EventKinds \ {"output", "exit"}
    BY DEF EventKinds
  <2>2. QED
    BY <1>6, <1>7, <2>1 DEF LinkUp, LinkClosed, SayVersion, SayError, Say
<1>8. CASE SayOutput
  <2>1. said' = said + 1 /\ said' \in Nat /\ owed' = owed /\ phase = "session"
    BY <1>1, <1>8 DEF SayOutput
  <2>2. /\ LinkSays("output", said + 1) \in InitiatorEvent
        /\ LinkSays("output", said + 1).kind = "output" /\ LinkSays("output", said + 1).n = said + 1
    BY <2>1, SaidEvent DEF EventKinds
  <2>3. UNCHANGED <<phase, shown, status>> /\ PostEvent(LinkSays("output", said + 1))
    BY <1>8, <2>1 DEF SayOutput, Say, Program0
  <2>4. QED
    BY <2>1, <2>2, <2>3, OutputPosted
<1>9. ASSUME NEW code \in Codes, SayExit(code) PROVE OutputInv'
  <2>1. said' = said /\ owed = -1 /\ owed' = said /\ phase = "session"
    BY <1>9 DEF SayExit
  <2>2. /\ LinkSays("exit", code) \in InitiatorEvent
        /\ LinkSays("exit", code).kind = "exit" /\ LinkSays("exit", code).n \in Codes
    BY <1>1, <1>9, SaidEvent DEF EventKinds
  <2>3. UNCHANGED <<phase, shown, status>> /\ PostEvent(LinkSays("exit", code))
    BY <1>9 DEF SayExit, Say, Program0
  <2>4. QED
    BY <2>1, <2>2, <2>3, OutputPosted
<1>10. QED
  BY <1>2, <1>3, <1>4, <1>5, <1>7, <1>8, <1>9 DEF InitiatorNext

--------------------------------------------------------------------------------
(* What is typed is filtered.                                              *)

\* A tilde at the end waits for the next byte.
Waiting(s) == Len(s) > 0 /\ Tilde(s, Len(s))

LEMMA TildeOf ==
  ASSUME NEW s \in Seq(Bytes), NEW b \in Bytes, NEW k \in 1 .. Len(s)
  PROVE  Append(s, b)[k] = s[k] /\ (Tilde(Append(s, b), k) <=> Tilde(s, k))
<1>1. Append(s, b)[k] = s[k] /\ (k > 1 => Append(s, b)[k - 1] = s[k - 1])
  OBVIOUS
<1>2. QED
  BY <1>1 DEF Tilde

LEMMA AppendLast ==
  ASSUME NEW s \in Seq(Bytes), NEW b \in Bytes
  PROVE  /\ Len(s) \in Nat /\ Len(Append(s, b)) = Len(s) + 1 /\ Append(s, b) \in Seq(Bytes)
         /\ Append(s, b)[Len(s) + 1] = b
         /\ Tilde(Append(s, b), Len(s) + 1) <=> b = "~" /\ Len(s) > 0 /\ s[Len(s)] = "newline"
<1>1. /\ Len(s) \in Nat /\ Len(Append(s, b)) = Len(s) + 1 /\ Append(s, b) \in Seq(Bytes)
      /\ Append(s, b)[Len(s) + 1] = b /\ (Len(s) > 0 => Append(s, b)[Len(s)] = s[Len(s)])
  OBVIOUS
<1>2. QED
  BY <1>1 DEF Tilde

LEMMA FilteredToNext ==
  ASSUME NEW s, Len(s) \in Nat, NEW n \in 0 .. Len(s) - 1
  PROVE  FilteredTo(s)[n + 1] = IF Dropped(s, n + 1) THEN FilteredTo(s)[n]
                                ELSE Append(FilteredTo(s)[n], s[n + 1])
<1>1. PICK k \in 0 .. Len(s) : k = n + 1 /\ k # 0 /\ k - 1 = n
  OBVIOUS
<1>2. FilteredTo(s)[k] = IF Dropped(s, k) THEN FilteredTo(s)[k - 1]
                         ELSE Append(FilteredTo(s)[k - 1], s[k])
  BY <1>1, FilteredToIs
<1>3. QED
  BY <1>1, <1>2

LEMMA SameBefore ==
  ASSUME NEW s \in Seq(Bytes), NEW b \in Bytes, Len(s) > 0
  PROVE  \A k \in 0 .. Len(s) - 1 : FilteredTo(Append(s, b))[k] = FilteredTo(s)[k]
<1> DEFINE t == Append(s, b)
           S == {k \in 0 .. Len(s) - 1 : FilteredTo(t)[k] = FilteredTo(s)[k]}
<1>1. Len(s) \in Nat /\ Len(t) = Len(s) + 1 /\ Len(s) - 1 \in Nat /\ t \in Seq(Bytes) /\ Len(t) \in Nat
  BY AppendLast
<1>2. 0 \in S
  <2>1. FilteredTo(t)[0] = <<>> /\ FilteredTo(s)[0] = <<>>
    <3> HIDE DEF t
    <3>1. QED
      BY <1>1, FilteredToIs
  <2>2. QED
    BY <1>1, <2>1
<1>3. ASSUME NEW n \in 0 .. Len(s) - 1 - 1, n \in S PROVE n + 1 \in S
  <2>1. n + 1 \in 1 .. Len(s) /\ n + 2 \in 1 .. Len(s) /\ n + 1 # Len(s) /\ n + 1 # Len(t)
    BY <1>1
  <2>2. t[n + 1] = s[n + 1] /\ t[n + 2] = s[n + 2] /\ (Tilde(t, n + 1) <=> Tilde(s, n + 1))
    BY <2>1, TildeOf
  <2>3. n > 0 => (Tilde(t, n) <=> Tilde(s, n))
    BY <1>1, TildeOf
  <2>4. Dropped(t, n + 1) <=> Dropped(s, n + 1)
    <3>1. (n + 1) + 1 = n + 2 /\ (n + 1) - 1 = n /\ (n + 1 > 1 <=> n > 0)
      BY <1>1
    <3> HIDE DEF t
    <3>2. QED
      BY <2>1, <2>2, <2>3, <3>1 DEF Dropped
  <2>5. /\ FilteredTo(t)[n + 1] = IF Dropped(t, n + 1) THEN FilteredTo(t)[n] ELSE Append(FilteredTo(t)[n], t[n + 1])
        /\ FilteredTo(s)[n + 1] = IF Dropped(s, n + 1) THEN FilteredTo(s)[n] ELSE Append(FilteredTo(s)[n], s[n + 1])
    <3>1. n \in 0 .. Len(t) - 1 /\ n \in 0 .. Len(s) - 1
      BY <1>1
    <3> HIDE DEF t
    <3>2. QED
      BY <1>1, <3>1, FilteredToNext
  <2>6. QED
    BY <1>1, <1>3, <2>2, <2>4, <2>5
<1>4. 0 .. Len(s) - 1 \subseteq S
  <2> HIDE DEF S
  <2>1. QED
    BY <1>1, <1>2, <1>3, UpTo
<1>5. QED
  BY <1>4

LEMMA FilteredStep ==
  ASSUME NEW s \in Seq(Bytes), NEW b \in Bytes
  PROVE  Filtered(Append(s, b)) =
           IF Waiting(s)
           THEN IF b = "~" THEN Append(Filtered(s), "~")
                ELSE IF b \in {".", "?", "L"} THEN Filtered(s)
                ELSE Append(Append(Filtered(s), "~"), b)
           ELSE IF Len(s) > 0 /\ s[Len(s)] = "newline" /\ b = "~" THEN Filtered(s)
           ELSE Append(Filtered(s), b)
<1> DEFINE t == Append(s, b)
           n == Len(s)
<1>1. /\ n \in Nat /\ Len(t) = n + 1 /\ t \in Seq(Bytes) /\ Len(t) \in Nat /\ t[n + 1] = b
      /\ Tilde(t, n + 1) <=> b = "~" /\ n > 0 /\ s[n] = "newline"
  BY AppendLast
<1> HIDE DEF t
<1>2. n > 0 => t[n] = s[n] /\ (Tilde(t, n) <=> Tilde(s, n))
  BY <1>1, TildeOf DEF t
<1>3. n > 0 => FilteredTo(t)[n - 1] = FilteredTo(s)[n - 1]
  BY <1>1, SameBefore DEF t
<1>4. n > 0 => /\ FilteredTo(t)[n] = IF Dropped(t, n) THEN FilteredTo(t)[n - 1] ELSE Append(FilteredTo(t)[n - 1], t[n])
               /\ FilteredTo(s)[n] = IF Dropped(s, n) THEN FilteredTo(s)[n - 1] ELSE Append(FilteredTo(s)[n - 1], s[n])
  BY <1>1, FilteredToIs
<1>5. n = 0 => FilteredTo(t)[n] = <<>> /\ FilteredTo(s)[n] = <<>>
  BY <1>1, FilteredToIs
<1>6. Filtered(t) = IF Dropped(t, n + 1) THEN FilteredTo(t)[n] ELSE Append(FilteredTo(t)[n], b)
  <2>1. n \in 0 .. Len(t) - 1
    BY <1>1
  <2>2. FilteredTo(t)[n + 1] = IF Dropped(t, n + 1) THEN FilteredTo(t)[n] ELSE Append(FilteredTo(t)[n], t[n + 1])
    BY <1>1, <2>1, FilteredToNext
  <2>3. QED
    BY <1>1, <2>2 DEF Filtered
<1>7. Filtered(s) = FilteredTo(s)[n]
  BY DEF Filtered
<1>8. CASE Waiting(s)
  <2>1. n > 0 /\ Tilde(s, n) /\ s[n] = "~" /\ Tilde(t, n) /\ t[n] = "~"
    BY <1>2, <1>8 DEF Waiting, Tilde
  <2>2. n > 1 /\ s[n - 1] = "newline"
    BY <2>1 DEF Tilde
  <2>3. Filtered(s) = FilteredTo(s)[n - 1]
    BY <1>4, <1>7, <2>1 DEF Dropped
  <2>4. ~ (n > 1 /\ Tilde(t, n - 1))
    BY <1>1, <2>2, TildeOf DEF Tilde, t
  <2>5. Dropped(t, n) <=> b \in {".", "?", "L", "~"}
    BY <1>1, <2>1, <2>4 DEF Dropped
  <2>6. Dropped(t, n + 1) <=> b \in {".", "?", "L"}
    <3>1. ~Tilde(t, n + 1)
      BY <1>1, <2>1
    <3>2. (n + 1) - 1 = n /\ n + 1 > 1
      BY <1>1, <2>1
    <3>3. QED
      BY <1>1, <2>1, <3>1, <3>2 DEF Dropped
  <2>7. FilteredTo(t)[n] = IF b \in {".", "?", "L", "~"} THEN Filtered(s) ELSE Append(Filtered(s), "~")
    BY <1>3, <1>4, <2>1, <2>3, <2>5
  <2>8. QED
    BY <1>6, <1>8, <2>6, <2>7 DEF t
<1>9. CASE ~Waiting(s)
  <2>1. n > 0 => ~Tilde(s, n) /\ ~Tilde(t, n)
    BY <1>2, <1>9 DEF Waiting
  <2>2. FilteredTo(t)[n] = Filtered(s)
    <3>1. CASE n = 0
      BY <1>5, <1>7, <3>1
    <3>2. CASE n > 0
      <4>1. n > 1 => (Tilde(t, n - 1) <=> Tilde(s, n - 1))
        BY <1>1, TildeOf DEF t
      <4>2. Dropped(t, n) <=> Dropped(s, n)
        BY <1>2, <2>1, <3>2, <4>1 DEF Dropped
      <4>3. QED
        BY <1>2, <1>3, <1>4, <1>7, <3>2, <4>2
    <3>3. QED
      BY <1>1, <3>1, <3>2
  <2>3. Dropped(t, n + 1) <=> n > 0 /\ s[n] = "newline" /\ b = "~"
    <3>1. (n + 1) - 1 = n /\ (n + 1 > 1 <=> n > 0)
      BY <1>1
    <3>2. QED
      BY <1>1, <2>1, <3>1 DEF Dropped
  <2>4. QED
    BY <1>6, <1>9, <2>2, <2>3 DEF t
<1>10. QED
  BY <1>8, <1>9

LEMMA QuitsStep ==
  ASSUME NEW s \in Seq(Bytes), NEW b \in Bytes
  PROVE  Quits(Append(s, b)) <=> Quits(s) \/ (Waiting(s) /\ b = ".")
<1>1. /\ Len(s) \in Nat /\ Len(Append(s, b)) = Len(s) + 1 /\ Append(s, b)[Len(s) + 1] = b
  BY AppendLast
<1>2. \A k \in 1 .. Len(s) : Append(s, b)[k] = s[k] /\ (Tilde(Append(s, b), k) <=> Tilde(s, k))
  BY TildeOf
<1>3. ASSUME Quits(Append(s, b)) PROVE Quits(s) \/ (Waiting(s) /\ b = ".")
  <2>1. PICK k \in 1 .. Len(s) : Tilde(Append(s, b), k) /\ Append(s, b)[k + 1] = "."
    BY <1>1, <1>3 DEF Quits
  <2>2. CASE k = Len(s)
    BY <1>1, <1>2, <2>1, <2>2 DEF Waiting
  <2>3. CASE k # Len(s)
    <3>1. k \in 1 .. Len(s) - 1 /\ k + 1 \in 1 .. Len(s)
      BY <1>1, <2>3
    <3>2. QED
      BY <1>2, <2>1, <3>1 DEF Quits
  <2>4. QED
    BY <2>2, <2>3
<1>4. ASSUME Quits(s) PROVE Quits(Append(s, b))
  <2>1. PICK k \in 1 .. Len(s) - 1 : Tilde(s, k) /\ s[k + 1] = "."
    BY <1>4 DEF Quits
  <2>2. k \in 1 .. Len(s) /\ k + 1 \in 1 .. Len(s) /\ k \in 1 .. Len(Append(s, b)) - 1
    BY <1>1
  <2>3. QED
    BY <1>2, <2>1, <2>2 DEF Quits
<1>5. ASSUME Waiting(s), b = "." PROVE Quits(Append(s, b))
  <2>1. Len(s) \in 1 .. Len(s) /\ Len(s) \in 1 .. Len(Append(s, b)) - 1
    BY <1>1, <1>5 DEF Waiting
  <2>2. QED
    BY <1>1, <1>2, <1>5, <2>1 DEF Quits, Waiting
<1>6. QED
  BY <1>3, <1>4, <1>5

LEMMA SimpleStep ==
  ASSUME NEW s \in Seq(Bytes), NEW b \in Bytes, Simple(Append(s, b))
  PROVE  Simple(s) /\ (Waiting(s) => b \notin {"L", "newline"})
<1>1. /\ Len(s) \in Nat /\ Len(Append(s, b)) = Len(s) + 1 /\ Append(s, b)[Len(s) + 1] = b
  BY AppendLast
<1>2. \A k \in 1 .. Len(s) : Append(s, b)[k] = s[k] /\ (Tilde(Append(s, b), k) <=> Tilde(s, k))
  BY TildeOf
<1>3. \A k \in 1 .. Len(s) : Tilde(s, k) => Append(s, b)[k + 1] \notin {"L", "newline"}
  BY <1>1, <1>2 DEF Simple
<1>4. Simple(s)
  <2>1. \A k \in 1 .. Len(s) - 1 : k \in 1 .. Len(s) /\ k + 1 \in 1 .. Len(s)
    BY <1>1
  <2>2. QED
    BY <1>2, <1>3, <2>1 DEF Simple
<1>5. Waiting(s) => Len(s) \in 1 .. Len(s) /\ Tilde(s, Len(s))
  BY <1>1 DEF Waiting
<1>6. QED
  BY <1>1, <1>3, <1>4, <1>5

\* The handler after s has been typed a byte at a time, and what it has let through.
Follows(s, h, out) ==
  /\ out = Filtered(s) /\ ~Quits(s)
  /\ h.newline <=> Len(s) > 0 /\ s[Len(s)] = "newline"
  /\ h.tilde <=> Waiting(s)
  /\ ~h.mode

LEMMA ByteFollows ==
  ASSUME NEW s \in Seq(Bytes), NEW h \in Handlers, NEW out \in Seq(OutBytes), NEW b \in Bytes,
         Follows(s, h, out), Simple(Append(s, b))
  PROVE  LET step == ProcessByte(h, b) IN
         IF step.action = "disconnect" THEN Quits(Append(s, b))
         ELSE Follows(Append(s, b), step.handler, out \o step.out)
<1> DEFINE t == Append(s, b)
<1>1. /\ Len(s) \in Nat /\ Len(t) = Len(s) + 1 /\ t \in Seq(Bytes) /\ t[Len(t)] = b
      /\ Waiting(t) <=> b = "~" /\ Len(s) > 0 /\ s[Len(s)] = "newline"
  BY AppendLast DEF Waiting
<1>2. Waiting(s) => b \notin {"L", "newline"}
  BY SimpleStep
<1>3. Quits(t) <=> Quits(s) \/ (Waiting(s) /\ b = ".")
  BY QuitsStep
<1>4. Filtered(t) = IF Waiting(s)
                    THEN IF b = "~" THEN Append(out, "~")
                         ELSE IF b \in {".", "?", "L"} THEN out
                         ELSE Append(Append(out, "~"), b)
                    ELSE IF Len(s) > 0 /\ s[Len(s)] = "newline" /\ b = "~" THEN out
                    ELSE Append(out, b)
  BY FilteredStep DEF Follows
<1>5. /\ out \o <<>> = out /\ out \o <<b>> = Append(out, b) /\ out \o <<"~">> = Append(out, "~")
      /\ out \o <<"~", b>> = Append(Append(out, "~"), b)
  <2>1. b \in OutBytes /\ "~" \in OutBytes
    BY DEF OutBytes, Bytes
  <2>2. out \o <<>> = out
    BY ConcatEmptySeq
  <2>3. out \o <<b>> = Append(out, b) /\ out \o <<"~">> = Append(out, "~")
    BY <2>1, AppendIsConcat
  <2>4. out \o <<"~", b>> = Append(Append(out, "~"), b)
    BY <2>1
  <2>5. QED
    BY <2>2, <2>3, <2>4
<1>6. h \in [newline : BOOLEAN, tilde : BOOLEAN, mode : BOOLEAN, line : Seq(Bytes), blind : Nat]
  BY DEF Handlers
<1>7. Waiting(s) => s[Len(s)] = "~"
  BY DEF Waiting, Tilde
<1>8. /\ h.newline <=> Len(s) > 0 /\ s[Len(s)] = "newline"
      /\ h.tilde <=> Waiting(s)
      /\ ~h.mode /\ ~Quits(s)
  BY DEF Follows
<1> HIDE DEF t
<1>9. CASE b = "newline"
  <2>1. /\ ProcessByte(h, b).action = "none" /\ ProcessByte(h, b).out = <<b>>
        /\ ProcessByte(h, b).handler = [h EXCEPT !.newline = TRUE, !.line = <<>>, !.blind = 0]
    BY <1>9 DEF ProcessByte, Step
  <2>2. ~Waiting(s) /\ ~Waiting(t) /\ Filtered(t) = Append(out, b) /\ ~Quits(t)
    BY <1>1, <1>2, <1>3, <1>4, <1>8, <1>9
  <2>3. /\ ProcessByte(h, b).handler.newline /\ ~ProcessByte(h, b).handler.tilde /\ ~ProcessByte(h, b).handler.mode
    BY <1>6, <1>8, <2>1, <2>2
  <2>4. Len(t) > 0 /\ t[Len(t)] = "newline"
    BY <1>1, <1>9
  <2>5. Follows(t, ProcessByte(h, b).handler, Append(out, b))
    BY <2>2, <2>3, <2>4 DEF Follows
  <2>6. QED
    BY <1>5, <2>1, <2>5 DEF t
<1>10. CASE b # "newline" /\ h.newline /\ b = "~"
  <2>1. /\ ProcessByte(h, b).action = "none" /\ ProcessByte(h, b).out = <<>>
        /\ ProcessByte(h, b).handler = [h EXCEPT !.newline = FALSE, !.tilde = TRUE]
    BY <1>10 DEF ProcessByte, Step
  <2>2. ~Waiting(s) /\ Waiting(t) /\ Filtered(t) = out /\ ~Quits(t)
    BY <1>1, <1>3, <1>4, <1>7, <1>8, <1>10
  <2>3. /\ ~ProcessByte(h, b).handler.newline /\ ProcessByte(h, b).handler.tilde /\ ~ProcessByte(h, b).handler.mode
    BY <1>6, <1>8, <2>1
  <2>4. QED
    BY <1>1, <1>5, <1>10, <2>1, <2>2, <2>3 DEF Follows, t
<1>11. CASE b # "newline" /\ ~(h.newline /\ b = "~") /\ h.tilde
  <2> DEFINE g == [h EXCEPT !.tilde = FALSE, !.newline = FALSE]
  <2>1. ProcessByte(h, b) = EscapeByte(g, b)
    BY <1>11 DEF ProcessByte
  <2>2. Waiting(s) /\ ~Waiting(t) /\ b # "L"
    BY <1>1, <1>2, <1>7, <1>8, <1>11
  <2>3. ~g.newline /\ ~g.tilde /\ ~g.mode
    BY <1>6, <1>8
  <2> HIDE DEF g
  <2>4. CASE b = "."
    <3>1. ProcessByte(h, b).action = "disconnect"
      BY <2>1, <2>4 DEF EscapeByte, Step
    <3>2. QED
      BY <1>3, <2>2, <2>4, <3>1 DEF t
  <2>5. CASE b = "?"
    <3>1. ProcessByte(h, b).action = "help" /\ ProcessByte(h, b).out = <<>> /\ ProcessByte(h, b).handler = g
      BY <2>1, <2>5 DEF EscapeByte, Step
    <3>2. Filtered(t) = out /\ ~Quits(t)
      BY <1>3, <1>4, <1>8, <2>2, <2>5
    <3>3. QED
      BY <1>1, <1>5, <1>11, <2>2, <2>3, <3>1, <3>2 DEF Follows, t
  <2>6. CASE b = "~"
    <3>1. ProcessByte(h, b).action = "none" /\ ProcessByte(h, b).out = <<"~">> /\ ProcessByte(h, b).handler = g
      BY <2>1, <2>6 DEF EscapeByte, Step
    <3>2. Filtered(t) = Append(out, "~") /\ ~Quits(t)
      BY <1>3, <1>4, <1>8, <2>2, <2>6
    <3>3. QED
      BY <1>1, <1>5, <1>11, <2>2, <2>3, <3>1, <3>2 DEF Follows, t
  <2>7. CASE b \notin {".", "?", "~"}
    <3>1. ProcessByte(h, b).action = "none" /\ ProcessByte(h, b).out = <<"~", b>> /\ ProcessByte(h, b).handler = g
      BY <2>1, <2>2, <2>7 DEF EscapeByte, Step
    <3>2. Filtered(t) = Append(Append(out, "~"), b) /\ ~Quits(t)
      BY <1>3, <1>4, <1>8, <2>2, <2>7
    <3>3. QED
      BY <1>1, <1>5, <1>11, <2>2, <2>3, <3>1, <3>2 DEF Follows, t
  <2>8. QED
    BY <2>4, <2>5, <2>6, <2>7
<1>12. CASE b # "newline" /\ ~(h.newline /\ b = "~") /\ ~h.tilde
  <2>1. /\ ProcessByte(h, b).action = "none" /\ ProcessByte(h, b).out = <<b>>
        /\ ProcessByte(h, b).handler = [h EXCEPT !.newline = FALSE]
    BY <1>8, <1>12 DEF ProcessByte, Step
  <2>2. ~Waiting(s) /\ ~Waiting(t) /\ Filtered(t) = Append(out, b) /\ ~Quits(t)
    BY <1>1, <1>3, <1>4, <1>8, <1>12
  <2>3. /\ ~ProcessByte(h, b).handler.newline /\ ~ProcessByte(h, b).handler.tilde /\ ~ProcessByte(h, b).handler.mode
    BY <1>6, <1>8, <1>12, <2>1
  <2>4. QED
    BY <1>1, <1>5, <1>12, <2>1, <2>2, <2>3 DEF Follows, t
<1>13. QED
  BY <1>9, <1>10, <1>11, <1>12

LEMMA PrefixNext ==
  ASSUME NEW w \in Seq(Bytes), NEW k \in 0 .. Len(w) - 1
  PROVE  /\ SubSeq(w, 1, k) \in Seq(Bytes) /\ w[k + 1] \in Bytes
         /\ SubSeq(w, 1, k + 1) = Append(SubSeq(w, 1, k), w[k + 1])
<1>1. SubSeq(w, 1, k) \in Seq(Bytes) /\ Len(SubSeq(w, 1, k)) = k /\ w[k + 1] \in Bytes
  OBVIOUS
<1>2. SubSeq(w, 1, k + 1) \in Seq(Bytes) /\ Len(SubSeq(w, 1, k + 1)) = k + 1
  OBVIOUS
<1>3. Append(SubSeq(w, 1, k), w[k + 1]) \in Seq(Bytes) /\ Len(Append(SubSeq(w, 1, k), w[k + 1])) = k + 1
  BY <1>1
<1>4. \A i \in 1 .. k + 1 : SubSeq(w, 1, k + 1)[i] = Append(SubSeq(w, 1, k), w[k + 1])[i]
  BY <1>1
<1>5. QED
  BY <1>1, <1>2, <1>3, <1>4, SeqEqual

LEMMA SimplePrefix ==
  ASSUME NEW w \in Seq(Bytes), NEW k \in 0 .. Len(w), Simple(w)
  PROVE  Simple(SubSeq(w, 1, k))
<1>1. Len(SubSeq(w, 1, k)) = k /\ \A i \in 1 .. k : SubSeq(w, 1, k)[i] = w[i]
  OBVIOUS
<1>2. \A i \in 1 .. k : Tilde(SubSeq(w, 1, k), i) <=> Tilde(w, i)
  BY <1>1 DEF Tilde
<1>3. QED
  BY <1>1, <1>2 DEF Simple

LEMMA QuitsPrefix ==
  ASSUME NEW w \in Seq(Bytes), NEW k \in 0 .. Len(w), Quits(SubSeq(w, 1, k))
  PROVE  Quits(w)
<1>1. Len(SubSeq(w, 1, k)) = k /\ \A i \in 1 .. k : SubSeq(w, 1, k)[i] = w[i]
  OBVIOUS
<1>2. \A i \in 1 .. k : Tilde(SubSeq(w, 1, k), i) <=> Tilde(w, i)
  BY <1>1 DEF Tilde
<1>3. QED
  BY <1>1, <1>2 DEF Quits

LEMMA ConcatThree ==
  ASSUME NEW S, NEW x \in Seq(S), NEW y \in Seq(S), NEW z \in Seq(S)
  PROVE  (x \o y) \o z = x \o (y \o z)
OBVIOUS

\* A whole read: what was typed before it and the bytes of it.
LEMMA ReadFollows ==
  ASSUME NEW s \in Seq(Bytes), NEW h \in Handlers, NEW out \in Seq(OutBytes), NEW read \in Seq(Bytes),
         Follows(s, h, out), Simple(s \o read)
  PROVE  LET step == ProcessRead(h, read) IN
         IF step.action = "disconnect" THEN Quits(s \o read)
         ELSE Follows(s \o read, step.handler, out \o step.out)
<1> DEFINE w == s \o read
           Pre(k) == SubSeq(w, 1, Len(s) + k)
           a(k) == AfterBytes(h, read)[k]
           S == {k \in 0 .. Len(read) : IF a(k).action = "disconnect" THEN Quits(w)
                                        ELSE Follows(Pre(k), a(k).handler, out \o a(k).out)}
<1>1. /\ w \in Seq(Bytes) /\ Len(w) = Len(s) + Len(read) /\ Len(s) \in Nat /\ Len(read) \in Nat
      /\ \A i \in 1 .. Len(read) : w[Len(s) + i] = read[i]
      /\ SubSeq(w, 1, Len(s)) = s /\ SubSeq(w, 1, Len(w)) = w
  <2>1. /\ w \in Seq(Bytes) /\ Len(w) = Len(s) + Len(read) /\ Len(s) \in Nat /\ Len(read) \in Nat
        /\ \A i \in 1 .. Len(read) : w[Len(s) + i] = read[i]
        /\ \A i \in 1 .. Len(s) : w[i] = s[i]
    OBVIOUS
  <2>2. SubSeq(w, 1, Len(w)) = w
    BY <2>1, SubSeqFull
  <2>3. SubSeq(w, 1, Len(s)) \in Seq(Bytes) /\ Len(SubSeq(w, 1, Len(s))) = Len(s)
        /\ \A i \in 1 .. Len(s) : SubSeq(w, 1, Len(s))[i] = s[i]
    <3> HIDE DEF w
    <3>1. QED
      BY <2>1
  <2>4. SubSeq(w, 1, Len(s)) = s
    BY <2>3, SeqEqual
  <2>5. QED
    BY <2>1, <2>2, <2>4
<1>2. Simple(w)
  OBVIOUS
<1>3. \A k \in 0 .. Len(read) : a(k) \in EscapeSteps
  BY AfterBytesType
<1> HIDE DEF w
<1>4. 0 \in S
  <2>1. a(0) = Step(h, <<>>, "none")
    BY <1>1, AfterBytesIs
  <2>2. a(0).action = "none" /\ a(0).handler = h /\ a(0).out = <<>>
    BY <2>1 DEF Step
  <2>3. Len(s) + 0 = Len(s) /\ out \o <<>> = out
    BY <1>1, ConcatEmptySeq
  <2>4. Follows(Pre(0), a(0).handler, out \o a(0).out)
    BY <1>1, <2>2, <2>3
  <2>5. 0 \in 0 .. Len(read) /\ a(0).action # "disconnect"
    BY <1>1, <2>2
  <2> HIDE DEF a, Pre
  <2>6. QED
    BY <2>4, <2>5
<1>5. ASSUME NEW n \in 0 .. Len(read) - 1, n \in S PROVE n + 1 \in S
  <2>1. n + 1 \in 1 .. Len(read) /\ n \in 0 .. Len(read) /\ n + 1 \in 0 .. Len(read) /\ (n + 1) - 1 = n /\ n + 1 # 0
    BY <1>1
  <2>2. a(n + 1) = NextByte(a(n), read[n + 1])
    <3>1. AfterBytes(h, read)[n + 1] = NextByte(AfterBytes(h, read)[(n + 1) - 1], read[n + 1])
      BY <1>1, <2>1, AfterBytesIs
    <3>2. QED
      BY <2>1, <3>1
  <2>3. a(n) \in EscapeSteps
    BY <1>3, <2>1
  <2>4. CASE a(n).action = "disconnect"
    <3>1. a(n + 1) = a(n) /\ Quits(w)
      BY <1>5, <2>2, <2>4 DEF NextByte
    <3>2. QED
      BY <2>1, <2>4, <3>1
  <2>5. CASE a(n).action # "disconnect"
    <3> DEFINE step == ProcessByte(a(n).handler, read[n + 1])
    <3>1. Follows(Pre(n), a(n).handler, out \o a(n).out)
      BY <1>5, <2>5
    <3>2. a(n).handler \in Handlers /\ a(n).out \in Seq(OutBytes) /\ out \o a(n).out \in Seq(OutBytes)
      BY <2>3 DEF EscapeSteps
    <3>3. read[n + 1] \in Bytes /\ read[n + 1] = w[Len(s) + n + 1]
      BY <1>1, <2>1
    <3>4. /\ Pre(n) \in Seq(Bytes) /\ Pre(n + 1) = Append(Pre(n), read[n + 1])
          /\ Len(s) + (n + 1) \in 0 .. Len(w)
      <4>1. Len(s) + n \in 0 .. Len(w) - 1 /\ Len(s) + (n + 1) = (Len(s) + n) + 1
        BY <1>1, <2>1
      <4>2. QED
        BY <1>1, <3>3, <4>1, PrefixNext
    <3>5. Simple(Append(Pre(n), read[n + 1]))
      BY <1>1, <1>2, <3>4, SimplePrefix
    <3>6. step \in EscapeSteps
      BY <3>2, <3>3, ProcessByteType
    <3>7. IF step.action = "disconnect" THEN Quits(Pre(n + 1))
          ELSE Follows(Pre(n + 1), step.handler, (out \o a(n).out) \o step.out)
      <4> HIDE DEF a, step
      <4>1. Pre(n) \in Seq(Bytes) /\ Pre(n + 1) = Append(Pre(n), read[n + 1])
        BY <3>4
      <4> HIDE DEF Pre
      <4>2. QED
        BY <3>1, <3>2, <3>3, <3>5, <4>1, ByteFollows DEF step
    <3>8. /\ a(n + 1).action = step.action /\ a(n + 1).handler = step.handler
          /\ a(n + 1).out = a(n).out \o step.out
      <4>1. a(n + 1) = [step EXCEPT !.out = a(n).out \o @]
        BY <2>2, <2>5 DEF NextByte
      <4> HIDE DEF a, step
      <4>2. QED
        BY <3>6, <4>1 DEF EscapeSteps
    <3>9. out \o (a(n).out \o step.out) = (out \o a(n).out) \o step.out
      <4>1. step.out \in Seq(OutBytes)
        BY <3>6 DEF EscapeSteps
      <4> HIDE DEF a, step
      <4>2. PICK x, y \in Seq(OutBytes) : x = a(n).out /\ y = step.out
        BY <3>2, <4>1
      <4>3. out \o (x \o y) = (out \o x) \o y
        BY SMTT(20), ConcatThree
      <4>4. QED
        BY <4>2, <4>3
    <3>10. Quits(Pre(n + 1)) => Quits(w)
      BY <1>1, <3>4, QuitsPrefix
    <3>11. IF a(n + 1).action = "disconnect" THEN Quits(w)
           ELSE Follows(Pre(n + 1), a(n + 1).handler, out \o a(n + 1).out)
      <4> HIDE DEF a, step, Pre
      <4>1. QED
        BY <3>7, <3>8, <3>9, <3>10
    <3>12. QED
      BY <2>1, <3>11
  <2>6. QED
    BY <2>4, <2>5
<1>6. Len(read) \in S
  <2> HIDE DEF S
  <2>1. 0 .. Len(read) \subseteq S
    BY <1>1, <1>4, <1>5, UpTo
  <2>2. QED
    BY <1>1, <2>1
<1>7. Pre(Len(read)) = w
  BY <1>1
<1>8. QED
  BY <1>6, <1>7 DEF ProcessRead, w

LEMMA SimpleOf ==
  ASSUME NEW s \in Seq(Bytes), NEW r \in Seq(Bytes), Simple(s \o r)
  PROVE  Simple(s)
<1>1. Len(s \o r) = Len(s) + Len(r) /\ Len(s) \in Nat /\ Len(r) \in Nat /\ \A i \in 1 .. Len(s) : (s \o r)[i] = s[i]
  OBVIOUS
<1>2. \A i \in 1 .. Len(s) : Tilde(s \o r, i) <=> Tilde(s, i)
  BY <1>1 DEF Tilde
<1>3. \A i \in 1 .. Len(s) - 1 : i \in 1 .. Len(s) /\ i + 1 \in 1 .. Len(s) /\ i \in 1 .. Len(s \o r) - 1
  BY <1>1
<1>4. QED
  BY <1>1, <1>2, <1>3 DEF Simple

(* What has been typed has been let through up to what the task still has to send; *)
(* the handler knows of what was typed all that the next byte asks for.            *)
InputInv ==
  /\ stdin \in {"off", "read"} => output = <<>>
  /\ stdin # "gone" => ~disconnect
  /\ ~disconnect => last = <<>>
  /\ Simple(typed) => Follows(typed, escape, wire \o output)
  /\ disconnect /\ Simple(typed \o last) => Quits(typed \o last)

LEMMA InputInit == InitiatorInit => InputInv
<1>1. SUFFICES ASSUME InitiatorInit PROVE InputInv
  OBVIOUS
<1>2. typed = <<>> /\ last = <<>> /\ wire = <<>> /\ output = <<>> /\ ~disconnect /\ escape = NewEscape
  BY <1>1 DEF InitiatorInit
<1>3. Len(typed) = 0 /\ typed \in Seq(Bytes) /\ wire \o output = <<>>
  BY <1>2
<1>4. Filtered(typed) = <<>>
  <2>1. FilteredTo(typed)[0] = <<>>
    BY <1>3, FilteredToIs
  <2>2. QED
    BY <1>3, <2>1 DEF Filtered
<1>5. ~Quits(typed) /\ ~Waiting(typed)
  BY <1>3 DEF Quits, Waiting
<1>6. ~escape.newline /\ ~escape.tilde /\ ~escape.mode
  BY <1>2 DEF NewEscape
<1>7. Follows(typed, escape, wire \o output)
  BY <1>3, <1>4, <1>5, <1>6 DEF Follows
<1>8. QED
  BY <1>2, <1>7 DEF InputInv

LEMMA InputQuiet ==
  ASSUME InputInv, UNCHANGED <<escape, output, wire, disconnect, typed, last>>,
         stdin' \in {"off", "read"} => stdin \in {"off", "read"},
         stdin = "gone" => stdin' = "gone"
  PROVE  InputInv'
BY DEF InputInv

LEMMA InputNext ==
  ASSUME InitiatorTypes, InputInv, [InitiatorNext]_initiatorVars
  PROVE  InputInv'
<1>1. /\ typed \in Seq(Bytes) /\ wire \in Seq(OutBytes) /\ output \in Seq(OutBytes) /\ escape \in Handlers
      /\ phase = "version" => stdin = "off"
  BY DEF InitiatorTypes, InitiatorTypeOK
<1>2. CASE \/ UNCHANGED initiatorVars \/ DeadlinePasses \/ ResolveListenerIdentity \/ InitiatorLink
           \/ SubscribeEvents \/ LinkActivated \/ HandshakeFails \/ Session \/ Disconnected \/ Lagged
           \/ LinkUp \/ LinkClosed \/ SayVersion \/ SayError \/ SayOutput \/ \E code \in Codes : SayExit(code)
  <2>1. UNCHANGED <<escape, output, wire, disconnect, typed, last, stdin>>
    BY <1>2 DEF initiatorVars, DeadlinePasses, ResolveListenerIdentity, InitiatorLink, SubscribeEvents,
                LinkActivated, HandshakeFails, Session, Disconnected, Lagged, LinkUp, LinkClosed,
                SayVersion, SayError, SayOutput, SayExit, Say, Program0, Take, Input0
  <2>2. QED
    BY <2>1, InputQuiet
<1>3. CASE VersionReceived
  <2>1. /\ UNCHANGED <<escape, output, wire, disconnect, typed, last>>
        /\ phase = "version" /\ (stdin' = "read" \/ stdin' = stdin)
    BY <1>3 DEF VersionReceived
  <2>2. QED
    BY <1>1, <2>1, InputQuiet
<1>4. CASE StopReading
  <2>1. /\ UNCHANGED <<escape, output, wire, disconnect, typed, last>>
        /\ stdin \in {"read", "send"} /\ stdin' \in {"eof", "gone"}
    BY <1>4 DEF StopReading
  <2>2. QED
    BY <2>1, InputQuiet
<1>5. CASE SendFrame
  <2>1. PICK n \in FrameBytes(Len(output)) :
          /\ wire' = wire \o SubSeq(output, 1, n)
          /\ output' = SubSeq(output, n + 1, Len(output))
          /\ stdin' = IF n = Len(output) THEN "read" ELSE "send"
    BY <1>5 DEF SendFrame
  <2>2. n \in 0 .. Len(output) /\ Len(output) \in Nat
    BY <1>1, <2>1, FrameRange
  <2>3. /\ SubSeq(output, 1, n) \in Seq(OutBytes) /\ output' \in Seq(OutBytes)
        /\ Len(output') = Len(output) - n /\ SubSeq(output, 1, n) \o output' = output
    BY <1>1, <2>1, <2>2, Cut
  <2>4. wire' \o output' = wire \o output
    <3>1. (wire \o SubSeq(output, 1, n)) \o output' = wire \o (SubSeq(output, 1, n) \o output')
      <4>1. PICK x, y, z \in Seq(OutBytes) : x = wire /\ y = SubSeq(output, 1, n) /\ z = output'
        BY <1>1, <2>3
      <4>2. (x \o y) \o z = x \o (y \o z)
        BY SMTT(20), ConcatThree
      <4>3. QED
        BY <4>1, <4>2
    <3>2. QED
      BY <2>1, <2>3, <3>1
  <2>5. stdin' \in {"off", "read"} => output' = <<>>
    <3>1. Len(output') = 0 => output' = <<>>
      BY <2>3
    <3>2. stdin' \in {"off", "read"} => n = Len(output)
      BY <2>1
    <3>3. n = Len(output) => Len(output') = 0
      BY <2>2, <2>3
    <3>4. QED
      BY <3>1, <3>2, <3>3
  <2>6. stdin = "send" /\ UNCHANGED <<escape, disconnect, typed, last>>
    BY <1>5 DEF SendFrame, Stdin
  <2>7. QED
    BY <2>4, <2>5, <2>6 DEF InputInv
<1>6. ASSUME NEW read \in Reads, Read(read) PROVE InputInv'
  <2>1. PICK s : s = ProcessRead(escape, read)
    OBVIOUS
  <2>2. read \in Seq(Bytes) /\ s \in EscapeSteps
    BY <1>1, <2>1, ReadTyped, ReadType
  <2>3. stdin = "read" /\ output = <<>> /\ ~disconnect /\ last = <<>> /\ wire' = wire
    BY <1>6 DEF Read, Stdin, InputInv
  <2>4. wire \o output = wire
    BY <1>1, <2>3, ConcatEmptySeq
  <2>5. ASSUME Simple(typed \o read)
        PROVE  IF s.action = "disconnect" THEN Quits(typed \o read)
               ELSE Follows(typed \o read, s.handler, wire \o s.out)
    <3>1. Follows(typed, escape, wire)
      BY <1>1, <2>2, <2>4, <2>5, SimpleOf DEF InputInv
    <3>2. QED
      BY <1>1, <2>1, <2>2, <2>5, <3>1, ReadFollows
  <2>6. CASE s.action = "disconnect"
    <3>1. disconnect' = TRUE /\ stdin' = "gone" /\ last' = read /\ UNCHANGED <<escape, output, typed>>
      BY <1>6, <2>1, <2>6 DEF Read
    <3>2. QED
      BY <2>3, <2>5, <2>6, <3>1 DEF InputInv
  <2>7. CASE s.action # "disconnect"
    <3>1. /\ escape' = s.handler /\ output' = s.out /\ typed' = typed \o read
          /\ stdin' = IF s.out = <<>> THEN "read" ELSE "send"
          /\ UNCHANGED <<disconnect, last>>
      BY <1>6, <2>1, <2>7 DEF Read
    <3>2. QED
      BY <2>3, <2>5, <2>7, <3>1 DEF InputInv
  <2>8. QED
    BY <2>6, <2>7
<1>7. QED
  BY <1>2, <1>3, <1>4, <1>5, <1>6 DEF InitiatorNext

LEMMA InputOfInv ==
  ASSUME InitiatorTypes, InputInv
  PROVE  InputFiltered
<1>1. typed \in Seq(Bytes) /\ last \in Seq(Bytes)
  BY DEF InitiatorTypes
<1>2. Simple(typed \o last) => Simple(typed)
  BY <1>1, SimpleOf
<1>3. QED
  BY <1>2 DEF InputInv, InputFiltered, Follows

--------------------------------------------------------------------------------
\* The inductive invariant of the initiator. InputFiltered and OutputGapFree need to know
\* what the tasks hold: the bytes still to send, the escape handler after what was typed,
\* and the output that waits among the events.
InitiatorInv == InitiatorTypes /\ OutputInv /\ InputInv

LEMMA InitiatorInvInit == InitiatorInit => InitiatorInv
BY TypesInit, InputInit DEF InitiatorInv

LEMMA InitiatorInvNext == InitiatorInv /\ [InitiatorNext]_initiatorVars => InitiatorInv'
<1>1. SUFFICES ASSUME InitiatorInv, [InitiatorNext]_initiatorVars PROVE InitiatorInv'
  OBVIOUS
<1>2. InitiatorTypes /\ OutputInv /\ InputInv /\ ExitWaits
  BY <1>1 DEF InitiatorInv, OutputInv
<1>3. InitiatorTypes'
  BY <1>1, <1>2, TypesNext
<1>4. OutputInv' /\ InputInv'
  BY <1>1, <1>2, OutputNext, InputNext
<1>5. QED
  BY <1>3, <1>4 DEF InitiatorInv

LEMMA InitiatorAlways == InitiatorSpec => []InitiatorInv
<1>1. InitiatorInit => InitiatorInv
  BY InitiatorInvInit
<1>2. InitiatorInv /\ [InitiatorNext]_initiatorVars => InitiatorInv'
  BY InitiatorInvNext
<1>3. QED
  BY <1>1, <1>2, PTL DEF InitiatorSpec

\* The program, its task for the input and its escape handler are in states of the code
\* that fit each other, and no more events wait than the channel has room for.
THEOREM InitiatorTypeCorrect == InitiatorSpec => []InitiatorTypeOK
<1>1. InitiatorInv => InitiatorTypeOK
  BY DEF InitiatorInv, InitiatorTypes
<1>2. QED
  BY <1>1, InitiatorAlways, PTL

\* However long the input and however it falls into reads and frames: the listener gets
\* what was typed without the escapes, in order and once, and only an escape ~. gives the
\* session up (process_byte() and the task for the input).
THEOREM InputIsFiltered == InitiatorSpec => []InputFiltered
<1>1. InitiatorInv => InputFiltered
  BY InputOfInv DEF InitiatorInv
<1>2. QED
  BY <1>1, InitiatorAlways, PTL

\* However long the output and slow the program: what it shows has no gap, and a status
\* of the command means that all it had put out by then was shown (the loop of events).
THEOREM OutputIsGapFree == InitiatorSpec => []OutputGapFree
<1>1. InitiatorInv => OutputGapFree
  BY DEF InitiatorInv, OutputInv
<1>2. QED
  BY <1>1, InitiatorAlways, PTL
================================================================================
