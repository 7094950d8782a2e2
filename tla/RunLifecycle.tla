---------------------------- MODULE RunLifecycle ----------------------------
(***************************************************************************)
(* What a caller of the run API is promised, whoever executes the runs:    *)
(* runs are taken oldest first, an attempt may be given up and the run     *)
(* queued again, an outcome is final, cancelled means somebody asked, and  *)
(* the callback tells the outcome once.  Fleets of workers, leases, fences *)
(* and crashes are the business of RunWorker, which implements this with   *)
(* one process over a store.                                               *)
(***************************************************************************)
EXTENDS Naturals

CONSTANT Runs

VARIABLES status,   \* of each run
          asked,    \* somebody asked for its cancellation
          order,    \* when it was submitted
          told      \* what its callback was told, "absent" before

vars == <<status, asked, order, told>>

Terminal == {"completed", "failed", "cancelled"}

Init ==
    /\ status = [r \in Runs |-> "absent"]
    /\ asked = [r \in Runs |-> FALSE]
    /\ order = [r \in Runs |-> 0]
    /\ told = [r \in Runs |-> "absent"]

Submit(r) ==
    /\ status[r] = "absent"
    /\ status' = [status EXCEPT ![r] = "queued"]
    /\ order' = [order EXCEPT ![r] = order'[r]]
    /\ \A q \in Runs : order[q] < order'[r]
    /\ UNCHANGED <<asked, told>>

Ask(r) ==
    /\ status[r] # "absent"
    /\ asked' = [asked EXCEPT ![r] = TRUE]
    /\ UNCHANGED <<status, order, told>>

Attempt(r) ==
    /\ status[r] = "queued"
    /\ \A q \in Runs : status[q] = "queued" => order[r] <= order[q]
    /\ status' = [status EXCEPT ![r] = "running"]
    /\ UNCHANGED <<asked, order, told>>

\* Attempts whose worker went away, all found by one sweep.
GiveUp(R) ==
    /\ \A r \in R : status[r] = "running"
    /\ status' = [r \in Runs |-> IF r \in R THEN "queued" ELSE status[r]]
    /\ UNCHANGED <<asked, order, told>>

Settle(r, outcome) ==
    /\ status[r] = "running"
    /\ outcome = "cancelled" => asked[r]
    /\ status' = [status EXCEPT ![r] = outcome]
    /\ UNCHANGED <<asked, order, told>>

Tell(r) ==
    /\ status[r] \in Terminal
    /\ told[r] = "absent"
    /\ told' = [told EXCEPT ![r] = status[r]]
    /\ UNCHANGED <<status, asked, order>>

Next ==
    \/ \E r \in Runs :
          \/ Submit(r) \/ Ask(r) \/ Attempt(r) \/ Tell(r)
          \/ \E outcome \in Terminal \cup {"paused"} : Settle(r, outcome)
    \/ \E R \in SUBSET Runs : GiveUp(R)

Spec == Init /\ [][Next]_vars
=============================================================================
