--------------------------------- MODULE MCRnsh ----------------------------------
(***************************************************************************)
(* The listener of rnsh, checked in two parts: the handshakes with several *)
(* peers (RnshListener), and one session (RnshSession). A behaviour is one *)
(* of one part; the variables of the other stay as they are.               *)
(***************************************************************************)
EXTENDS RnshListener, RnshSession

CONSTANT Part  \* the parts that are checked, among "listener" and "session"

VARIABLE part

rnshVars == <<part, listenerVars, sessionVars>>

RnshInit == part \in Part /\ ListenerInit /\ SessionInit

Listening == part = "listener" /\ ListenerNext /\ UNCHANGED <<part, sessionVars>>
InSession == part = "session" /\ SessionNext /\ UNCHANGED <<part, listenerVars>>

RnshNext == Listening \/ InSession

\* Fairness of ListenerSpec and of SessionSpec, each for its own behaviours.
OfListener(A) == part = "listener" /\ A /\ UNCHANGED <<part, sessionVars>>
OfSession(A) == part = "session" /\ A /\ UNCHANGED <<part, listenerVars>>

RnshSpec ==
  /\ RnshInit /\ [][RnshNext]_rnshVars
  /\ WF_rnshVars(OfListener(Listen)) /\ WF_rnshVars(OfListener(Expire))
  /\ WF_rnshVars(OfSession(Session)) /\ WF_rnshVars(OfSession(Elapse))
================================================================================
