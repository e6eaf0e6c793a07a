------------------------------- MODULE MCCommands -------------------------------
(***************************************************************************)
(* The programs run from a command line, checked one at a time: git and    *)
(* rngit reading from a server, rnperf, the initiator of rnsh, the clients *)
(* of the instance's RPC port, rnid, and the identity file of them all.    *)
(* They have no state in common, so a behaviour is one of one part; the    *)
(* others stay as they are.                                                *)
(***************************************************************************)
EXTENDS RngitFetch, Rnperf, RnshInitiator, InstanceRpc, RnidFiles, IdentityFile,
        TLC

CONSTANT Part  \* the parts that are checked, among those of CommandsNext

VARIABLE part

commandsVars == <<part, fetchVars, perfVars, initiatorVars, rpcVars, filesVars, identityVars>>

\* A part that is not run starts in one of its initial states.
CommandsInit ==
  /\ part \in Part
  /\ FetchInit /\ (part # "fetch" => repository = "missing" /\ readers = {})
  /\ PerfInit /\ (part # "perf" => \A i \in Initiator : ~tester[i].outdated)
  /\ InitiatorInit
  /\ RpcInit /\ (part # "rpc" => port = (CHOOSE p \in Ports : TRUE) /\ paths = {} /\ blackholed = {})
  /\ FilesInit /\ (part # "files" => files["f"].of = CHOOSE t \in Text : TRUE)
  /\ IdentityInit

Fetching ==
  /\ part = "fetch" /\ FetchNext
  /\ UNCHANGED <<part, perfVars, initiatorVars, rpcVars, filesVars, identityVars>>
Measuring ==
  /\ part = "perf" /\ PerfNext
  /\ UNCHANGED <<part, fetchVars, initiatorVars, rpcVars, filesVars, identityVars>>
RemoteShell ==
  /\ part = "initiator" /\ InitiatorNext
  /\ UNCHANGED <<part, fetchVars, perfVars, rpcVars, filesVars, identityVars>>
Calling ==
  /\ part = "rpc" /\ RpcNext
  /\ UNCHANGED <<part, fetchVars, perfVars, initiatorVars, filesVars, identityVars>>
Signing ==
  /\ part = "files" /\ FilesNext
  /\ UNCHANGED <<part, fetchVars, perfVars, initiatorVars, rpcVars, identityVars>>
Identifying ==
  /\ part = "identity" /\ IdentityNext
  /\ UNCHANGED <<part, fetchVars, perfVars, initiatorVars, rpcVars, filesVars>>

CommandsNext == Fetching \/ Measuring \/ RemoteShell \/ Calling \/ Signing \/ Identifying

CommandsSpec == CommandsInit /\ [][CommandsNext]_commandsVars

\* Commands and programs are interchangeable.
Symmetry == Permutations(Command) \cup Permutations(Runner)

\* Every part keeps its types; those of the other parts are as they were.
CommandsTypeOK ==
  /\ part = "fetch" => FetchTypeOK
  /\ part = "perf" => PerfTypeOK
  /\ part = "initiator" => InitiatorTypeOK
  /\ part = "rpc" => RpcTypeOK
  /\ part = "files" => FilesTypeOK
  /\ part = "identity" => IdentityTypeOK
================================================================================
