---------------------------- MODULE AwaitContract ----------------------------
(***************************************************************************)
(* What co_await promises a coroutine, without contexts, tags or threads:  *)
(* the coroutine does not go on before its operation has completed, goes   *)
(* on at most once for every await, and then gets what was told of this    *)
(* one operation.  The only other way out of an await is that its          *)
(* operation was never started.                                            *)
(***************************************************************************)
CONSTANT Coro    \* the coroutines

VARIABLES
    at,         \* [Coro -> "running", "awaiting" or "done"]
    outcome,    \* [Coro -> what is told of the operation it awaits: "none" before that]
    result      \* [Coro -> what the co_await came to: "none" before that]

contractVars == <<at, outcome, result>>

Init ==
    /\ at = [c \in Coro |-> "running"]
    /\ outcome = [c \in Coro |-> "none"]
    /\ result = [c \in Coro |-> "none"]

Await(c) ==
    /\ at[c] = "running"
    /\ at' = [at EXCEPT ![c] = "awaiting"]
    /\ outcome' = [outcome EXCEPT ![c] = "none"]
    /\ result' = [result EXCEPT ![c] = "none"]

(* The operation completes, once.                                          *)
Settle(c) ==
    /\ at[c] = "awaiting" /\ outcome[c] = "none"
    /\ \E how \in {"ok", "failed", "error"} : outcome' = [outcome EXCEPT ![c] = how]
    /\ UNCHANGED <<at, result>>

Deliver(c) ==
    /\ at[c] = "awaiting" /\ outcome[c] # "none"
    /\ at' = [at EXCEPT ![c] = "running"]
    /\ result' = [result EXCEPT ![c] = outcome[c]]
    /\ outcome' = [outcome EXCEPT ![c] = "none"]

(* The operation could not be started: the await has no result.            *)
Refuse(c) ==
    /\ at[c] = "awaiting" /\ outcome[c] = "none"
    /\ at' = [at EXCEPT ![c] = "running"]
    /\ UNCHANGED <<outcome, result>>

End(c) ==
    /\ at[c] = "running"
    /\ at' = [at EXCEPT ![c] = "done"]
    /\ result' = [result EXCEPT ![c] = "none"]
    /\ UNCHANGED outcome

Next == \E c \in Coro : Await(c) \/ Settle(c) \/ Deliver(c) \/ Refuse(c) \/ End(c)

Spec == Init /\ [][Next]_contractVars

=============================================================================
