------------------------------ MODULE RemoteCalls ------------------------------
(***************************************************************************)
(* What rngit's commands are promised of Client::request(), without the    *)
(* packets and resources that implement it: calls to the server, one at a  *)
(* time. A call is executed once at most where packets keep their order,   *)
(* be it after the client has given it up; it is answered, with what one   *)
(* of its own executions gave, or given up, and never both.                *)
(* RngitTransfer, which advertises, repeats and proves, implements this.   *)
(***************************************************************************)
EXTENDS Integers

CONSTANTS Call  \* the calls a client may make, numbered from 1

VARIABLES
  ordered,    \* packets keep their order
  begun,      \* calls begun so far
  current,    \* the call the client waits in, 0 if none
  executions, \* executions[c]: how often the server has executed c
  answer,     \* answer[c]: the execution whose answer c returned, 0 if none
  givenUp     \* calls that have failed

callVars == <<ordered, begun, current, executions, answer, givenUp>>

Init ==
  /\ ordered \in BOOLEAN
  /\ begun = 0 /\ current = 0
  /\ executions = [c \in Call |-> 0]
  /\ answer = [c \in Call |-> 0]
  /\ givenUp = {}

Begin ==
  /\ current = 0 /\ begun + 1 \in Call
  /\ begun' = begun + 1 /\ current' = begun + 1
  /\ UNCHANGED <<ordered, executions, answer, givenUp>>

\* The client may have given the call up meanwhile.
Execute(c) ==
  /\ c <= begun
  /\ ordered => executions[c] = 0
  /\ executions' = [executions EXCEPT ![c] = @ + 1]
  /\ UNCHANGED <<ordered, begun, current, answer, givenUp>>

Answer ==
  /\ current # 0
  /\ \E n \in 1 .. executions[current] : answer' = [answer EXCEPT ![current] = n]
  /\ current' = 0
  /\ UNCHANGED <<ordered, begun, executions, givenUp>>

GiveUp ==
  /\ current # 0
  /\ givenUp' = givenUp \cup {current}
  /\ current' = 0
  /\ UNCHANGED <<ordered, begun, executions, answer>>

Next ==
  \/ Begin \/ Answer \/ GiveUp
  \/ \E c \in Call : Execute(c)

Spec == Init /\ [][Next]_callVars
================================================================================
