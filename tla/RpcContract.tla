----------------------------- MODULE RpcContract -----------------------------
(***************************************************************************)
(* What JobQueueBase.call() and JobQueueBase.submit() promise to the code   *)
(* that uses them, whatever the backend: a request is executed at most      *)
(* once and never begins after its deadline, and its caller learns at most  *)
(* one outcome, which says "value" only when the handler really returned.   *)
(* Completion stays unknown to a caller that is told anything else, but a   *)
(* request that is said to have timed out before its deadline has begun.    *)
(***************************************************************************)
CONSTANT Tasks        \* the requests, one uuid4 each

VARIABLES
    execution,        \* how far the handler of each request has come
    answer,           \* what the caller of each request has been told
    expired           \* whether the deadline of each request has passed

vars == <<execution, answer, expired>>

Executions == {"none", "begun", "returned"}

Answers == {"none", "value", "accepted", "error", "timeout"}

Init ==
    /\ execution = [t \in Tasks |-> "none"]
    /\ answer = [t \in Tasks |-> "none"]
    /\ expired = [t \in Tasks |-> FALSE]

(* A handler is entered at most once, before the deadline.  The caller may  *)
(* already have been answered: giving up does not revoke the request.       *)
Begin(t) ==
    /\ execution[t] = "none"
    /\ ~expired[t]
    /\ execution' = [execution EXCEPT ![t] = "begun"]
    /\ UNCHANGED <<answer, expired>>

Return(t) ==
    /\ execution[t] = "begun"
    /\ execution' = [execution EXCEPT ![t] = "returned"]
    /\ UNCHANGED <<answer, expired>>

Answer(t, a) ==
    /\ answer[t] = "none"
    /\ a \in Answers \ {"none"}
    /\ a = "value" => execution[t] = "returned"
    /\ a = "timeout" => expired[t] \/ execution[t] # "none"
    /\ answer' = [answer EXCEPT ![t] = a]
    /\ UNCHANGED <<execution, expired>>

Expire(t) ==
    /\ ~expired[t]
    /\ expired' = [expired EXCEPT ![t] = TRUE]
    /\ UNCHANGED <<execution, answer>>

Next ==
    \E t \in Tasks :
        \/ Begin(t)
        \/ Return(t)
        \/ Expire(t)
        \/ \E a \in Answers : Answer(t, a)

Spec == Init /\ [][Next]_vars
=============================================================================
