------------------------------ MODULE JobPromise ------------------------------
(***************************************************************************)
(* What a client of the report queue may rely on (RRA-007: "bounded        *)
(* retries", one settlement per accepted job), without leases, clocks,     *)
(* workers or rows.                                                        *)
(***************************************************************************)
EXTENDS Naturals

CONSTANTS Job, MaxAttempts

VARIABLES
    status,     \* job -> "absent", "open", "succeeded" or "dead_lettered"
    spent       \* job -> executions granted so far

promiseVars == <<status, spent>>

Init ==
    /\ status = [j \in Job |-> "absent"]
    /\ spent = [j \in Job |-> 0]

Accept(j) ==
    /\ status[j] = "absent"
    /\ status' = [status EXCEPT ![j] = "open"]
    /\ UNCHANGED spent

Grant(j) ==
    /\ status[j] = "open"
    /\ spent[j] < MaxAttempts
    /\ spent' = [spent EXCEPT ![j] = @ + 1]
    /\ UNCHANGED status

Succeed(j) ==
    /\ status[j] = "open"
    /\ spent[j] > 0
    /\ status' = [status EXCEPT ![j] = "succeeded"]
    /\ UNCHANGED spent

\* Jobs may be given up together: a deletion settles all those of a session.
GiveUp(J) ==
    /\ J # {}
    /\ \A j \in J : status[j] = "open"
    /\ status' = [j \in Job |-> IF j \in J THEN "dead_lettered" ELSE status[j]]
    /\ UNCHANGED spent

Next ==
    \/ \E j \in Job : Accept(j) \/ Grant(j) \/ Succeed(j)
    \/ \E J \in SUBSET Job : GiveUp(J)

Spec == Init /\ [][Next]_promiseVars
===============================================================================
