--------------------------------- MODULE MCRngit ---------------------------------
(***************************************************************************)
(* rngit, checked in two parts: how a request and its response cross the   *)
(* link (RngitTransfer), and what the requests of several peers do to a    *)
(* repository (RngitRepository). A behaviour is one of one part; the       *)
(* variables of the other stay as they are.                                *)
(***************************************************************************)
EXTENDS MCRngitRepository, RngitTransfer

CONSTANT Part  \* the parts that are checked, among "transfer" and "repository"

VARIABLE part

rngitVars == <<part, transferVars, repositoryVars>>

\* A part that is not run starts in one of its initial states.
RngitInit ==
  /\ part \in Part
  /\ TransferInit /\ (part # "transfer" => net = CHOOSE n \in Nets : TRUE)
  /\ RepositoryInit /\ (part # "repository" => repo = "missing")

Transferring == part = "transfer" /\ TransferNext /\ UNCHANGED <<part, repositoryVars>>
Serving == part = "repository" /\ RepositoryNext /\ UNCHANGED <<part, transferVars>>

RngitNext == Transferring \/ Serving

\* Fairness of TransferSpec, for the behaviours of the transfer.
InTransfer(A) == part = "transfer" /\ A /\ UNCHANGED <<part, repositoryVars>>

RngitSpec ==
  /\ RngitInit /\ [][RngitNext]_rngitVars
  /\ WF_rngitVars(InTransfer(ClientStep))
  /\ WF_rngitVars(InTransfer(ServerStep))
  /\ WF_rngitVars(InTransfer(Timeout))
================================================================================
