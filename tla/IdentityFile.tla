------------------------------ MODULE IdentityFile -----------------------------
(***************************************************************************)
(* The file an identity is kept in: load_or_create_identity of the router  *)
(* (src/main.rs) and its copies in the tools of src/bin. Programs may be   *)
(* started on one file at the same time, and may die between any two       *)
(* steps.                                                                  *)
(***************************************************************************)
EXTENDS Integers, FiniteSets

CONSTANTS
  Runner,    \* programs that share the file
  Identity,  \* identities that may be made up
  MaxDies    \* bound on the deaths of programs

ASSUME IdentityAssumption == IsFiniteSet(Identity) /\ "none" \notin Identity /\ MaxDies \in Nat

VARIABLES
  stored,  \* the file: there is none, it is empty, or it holds <<identity>>
  runner,  \* what each program is at, and its identity
  dies

identityVars == <<stored, runner, dies>>

NoFile == <<>>
EmptyFile == <<"none">>

IdentityInit ==
  /\ stored = NoFile /\ dies = 0
  /\ runner = [r \in Runner |-> [at |-> "off", key |-> "none"]]

--------------------------------------------------------------------------------
At(r, at, k) == runner' = [runner EXCEPT ![r] = [at |-> at, key |-> k]]

\* A file that exists is read; one that is empty is refused.
LoadIdentity(r) ==
  /\ runner[r].at = "off" /\ stored # NoFile
  /\ IF stored # EmptyFile THEN At(r, "runs", stored[1]) ELSE UNCHANGED runner
  /\ UNCHANGED <<stored, dies>>

\* Without a file, an identity is made up; the file is created later.
GenerateIdentity(r) ==
  /\ runner[r].at = "off" /\ stored = NoFile
  /\ \E k \in Identity \ {runner[q].key : q \in Runner} : At(r, "create", k)
  /\ UNCHANGED <<stored, dies>>

\* (faulty variant: as fs::write does, on other systems than Unix)
CreateTruncating(r) ==
  /\ runner[r].at = "create"
  /\ stored' = EmptyFile /\ At(r, "save", runner[r].key)
  /\ UNCHANGED dies

\* create_new: a file that another program has created meanwhile is an error.
CreateIdentity(r) ==
  /\ runner[r].at = "create"
  /\ IF stored = NoFile THEN stored' = EmptyFile /\ At(r, "save", runner[r].key)
     ELSE UNCHANGED stored /\ At(r, "off", "none")
  /\ UNCHANGED dies

\* write_all() and sync_all(), before the identity is used.
SaveIdentity(r) ==
  /\ runner[r].at = "save"
  /\ stored' = <<runner[r].key>>
  /\ At(r, "runs", runner[r].key)
  /\ UNCHANGED dies

RunnerDies(r) ==
  /\ runner[r].at # "off"
  /\ dies < MaxDies /\ dies' = dies + 1
  /\ At(r, "off", "none")
  /\ UNCHANGED stored

--------------------------------------------------------------------------------
IdentityNext ==
  \E r \in Runner : \/ LoadIdentity(r) \/ GenerateIdentity(r) \/ CreateIdentity(r)
                    \/ SaveIdentity(r) \/ RunnerDies(r)

IdentitySpec == IdentityInit /\ [][IdentityNext]_identityVars

--------------------------------------------------------------------------------
IdentityTypeOK ==
  /\ stored \in {NoFile, EmptyFile} \cup {<<k>> : k \in Identity}
  /\ runner \in [Runner -> [at : {"off", "create", "save", "runs"}, key : Identity \cup {"none"}]]
  /\ \A r \in Runner : (runner[r].at = "off") <=> (runner[r].key = "none")
  /\ dies \in 0 .. MaxDies

\* A program that runs with an identity finds it again after a crash: it is in the file,
\* whoever else has started at the same time or died half-way. (An identity that has
\* been announced and is not in the file would be lost at the next start.)
RunningIsStored ==
  \A r \in Runner : runner[r].at = "runs" => stored = <<runner[r].key>>
=============================================================================
