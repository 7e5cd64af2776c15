------------------------------ MODULE CallOnce ------------------------------
(***************************************************************************)
(* What a connection promises of the calls made over it, and a helper of   *)
(* the requests sent to it: a call ends once, with what the single run of  *)
(* its own listener answered, or closed, or abandoned by its caller; only  *)
(* an abandoned call's listener is cut short.                              *)
(***************************************************************************)
CONSTANT Calls

VARIABLES stage,   \* of a call at its caller
          result,  \* what the call ended with
          work     \* of the listener a call reaches

vars == <<stage, result, work>>

Answers == {"ok", "err"}

Init == /\ stage = [c \in Calls |-> "idle"]
        /\ result = [c \in Calls |-> "none"]
        /\ work = [c \in Calls |-> "none"]

\* A call begins; over a connection already closed it ends at once.
Ask(c) == /\ stage[c] = "idle"
          /\ \/ stage' = [stage EXCEPT ![c] = "waiting"] /\ UNCHANGED result
             \/ /\ stage' = [stage EXCEPT ![c] = "done"]
                /\ result' = [result EXCEPT ![c] = "closed"]
          /\ UNCHANGED work

\* It reaches its listener, while it waits or after it was given up.
Run(c) == /\ stage[c] # "idle"
          /\ work[c] = "none"
          /\ work' = [work EXCEPT ![c] = "running"]
          /\ UNCHANGED <<stage, result>>

Finish(c) == /\ work[c] = "running"
             /\ \E o \in Answers : work' = [work EXCEPT ![c] = o]
             /\ UNCHANGED <<stage, result>>

Cancel(c) == /\ work[c] = "running"
             /\ result[c] = "abandoned"
             /\ work' = [work EXCEPT ![c] = "cancelled"]
             /\ UNCHANGED <<stage, result>>

Settle(c) == /\ stage[c] = "waiting"
             /\ stage' = [stage EXCEPT ![c] = "done"]
             /\ \E r \in {"closed", "abandoned"} \cup ({work[c]} \cap Answers) :
                   result' = [result EXCEPT ![c] = r]
             /\ UNCHANGED work

Next == \E c \in Calls : Ask(c) \/ Run(c) \/ Finish(c) \/ Cancel(c) \/ Settle(c)

Spec == Init /\ [][Next]_vars
=============================================================================
