-------------------------------- MODULE MCRnguard --------------------------------
(***************************************************************************)
(* rnguard, checked in two parts: the announce table alone, at every       *)
(* choice of times (AnnounceTracker), and the whole program (Rnguard). A   *)
(* behaviour is one of one part; the variables of the other stay as they   *)
(* are.                                                                    *)
(***************************************************************************)
EXTENDS AnnounceTracker, Rnguard

CONSTANT Part  \* the parts that are checked, among "table" and "program"

VARIABLE part

guardVars == <<part, trackerVars, rnguardVars>>

GuardInit == part \in Part /\ TrackerInit /\ RnguardInit

Tabling == part = "table" /\ TrackerNext /\ UNCHANGED <<part, rnguardVars>>
Running == part = "program" /\ RnguardNext /\ UNCHANGED <<part, trackerVars>>

GuardNext == Tabling \/ Running

\* Fairness of RnguardSpec, for the behaviours of the program.
InProgram(A) == part = "program" /\ A /\ UNCHANGED <<part, trackerVars>>

GuardSpec ==
  /\ GuardInit /\ [][GuardNext]_guardVars
  /\ SF_guardVars(InProgram(ConnectOk))
  /\ SF_guardVars(InProgram(ListenOk))
  /\ WF_guardVars(InProgram(Filed(now)))
================================================================================
