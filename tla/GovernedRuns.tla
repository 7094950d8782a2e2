---------------------------- MODULE GovernedRuns ----------------------------
(***************************************************************************)
(* What stands between a caller and a model call in one process: the        *)
(* registry gate and the model-risk lifecycle behind it, guardrails, spend  *)
(* budgets, the circuit breaker and rate limiter of a resilient model, and  *)
(* the audit trail.                                                         *)
(*                                                                          *)
(* Registry, spend ledger and audit sink are durable; breaker and limiter   *)
(* are of the process and start afresh with it.  The stores' clients are    *)
(* synchronous, so between two waits of a run (for a permit, a model, a     *)
(* tool) nothing else of the process runs.                                  *)
(***************************************************************************)
EXTENDS Integers, Sequences, FiniteSets

CONSTANTS
  Run, Key,
  Invocations, \* bound: how often a run is invoked
  Cards,      \* the cards with which the agent is registered
  KeysOf,     \* the spend keys of a run: its identity's and its tenant's
  Mode,       \* GovernanceMode
  CheckpointMode,
  Limit,      \* limit_usd of a key's budget
  MaxCost,    \* bound: what one model call costs
  MaxSteps,   \* Agent.max_steps
  Slots,      \* how many runs the callers have in flight at once
  Threshold,  \* of the circuit breaker
  Rate        \* of the rate limiter

LifecycleState == {"DRAFT", "IN_DEVELOPMENT", "IN_VALIDATION", "APPROVED", "DEPLOYED",
                   "MONITORED", "SUSPENDED", "REJECTED", "DECOMMISSIONED"}
ApprovalStatus == {"pending", "approved", "rejected", "revoked"}
AgentCard == [state : LifecycleState, status : ApprovalStatus]

ASSUME GovernedAssumption ==
  /\ Invocations \in [Run -> Nat] /\ Cards \subseteq AgentCard
  /\ KeysOf \in [Run -> SUBSET Key]
  /\ Mode \in {"off", "observe", "enforcing"} /\ CheckpointMode \in {"step", "final"}
  /\ Limit \in [Key -> Nat \ {0}]
  /\ MaxCost \in Nat /\ MaxSteps \in Nat \ {0} /\ Slots \in Nat \ {0}
  /\ Threshold \in Nat \ {0} /\ Rate \in Nat \ {0}

VARIABLES
  card,     \* the agent's card: lifecycle_state and model_approval_status
  withdrawn, \* history: taken out of use, and neither approved nor registered as approved since
  pc,       \* where a run stands
  left,     \* model calls it has left; of a run that is not in flight: after its checkpoint
  saved,    \* model calls left after its checkpoint
  trail,    \* its records in the audit log, by invocation
  spent,    \* the ledger's total per key, in the current window
  failures, breaker, \* CircuitBreaker
  tokens    \* RateLimiter

vars == <<card, withdrawn, pc, left, saved, trail, spent, failures, breaker, tokens>>
agent == <<card, withdrawn>>
model == <<failures, breaker, tokens>>

\* Past the check of the budgets, with model calls to come.
Admitted == {r \in Run : pc[r] \in {"admitted", "waiting", "calling", "tools"}}
InFlight == {r \in Run : pc[r] \in {"started", "closing"}} \cup Admitted

Init ==
  /\ card \in Cards /\ withdrawn = FALSE
  /\ pc = [r \in Run |-> "new"]
  /\ left = [r \in Run |-> MaxSteps] /\ saved = left
  /\ trail = [r \in Run |-> <<>>]
  /\ spent = [k \in Key |-> 0]
  /\ failures = 0 /\ breaker = "closed" /\ tokens = Rate

-----------------------------------------------------------------------------
(* The lifecycle of the agent. *)
Transitions(from) ==
  CASE from = "DRAFT"          -> {"IN_DEVELOPMENT", "REJECTED"}
    [] from = "IN_DEVELOPMENT" -> {"IN_VALIDATION", "REJECTED"}
    [] from = "IN_VALIDATION"  -> {"APPROVED", "REJECTED", "IN_DEVELOPMENT"}
    [] from = "APPROVED"       -> {"DEPLOYED", "SUSPENDED"}
    [] from = "DEPLOYED"       -> {"MONITORED", "SUSPENDED", "DECOMMISSIONED"}
    [] from = "MONITORED"      -> {"SUSPENDED", "DECOMMISSIONED", "IN_VALIDATION"}
    [] from = "SUSPENDED"      -> {"DEPLOYED", "DECOMMISSIONED", "IN_VALIDATION"}
    [] from = "REJECTED"       -> {"IN_DEVELOPMENT"}
    [] OTHER                   -> {}

\* The approval status a transition leaves.
StatusKept(to, old) ==
  CASE to = "APPROVED" -> "approved" [] to = "REJECTED" -> "rejected"
    [] to = "DECOMMISSIONED" -> "revoked" [] OTHER -> old
StatusAfter(to, old) ==
  CASE to = "APPROVED" -> "approved" [] to = "REJECTED" -> "rejected"
    [] to \in {"SUSPENDED", "DECOMMISSIONED"} -> "revoked" [] OTHER -> old

\* The evidence a state requires is for the caller to bring.
Transition(to) ==
  /\ to \in Transitions(card.state)
  /\ card' = [state |-> to, status |-> StatusAfter(to, card.status)]
  /\ withdrawn' = \/ to \in {"SUSPENDED", "REJECTED", "DECOMMISSIONED"}
                  \/ withdrawn /\ to # "APPROVED"
  /\ UNCHANGED <<pc, left, saved, trail, spent, model>>

\* AgentRegistry.register: an upsert of any card, past the lifecycle.
Register(c) ==
  /\ card' = c
  /\ withdrawn' = (withdrawn /\ c.status # "approved")
  /\ UNCHANGED <<pc, left, saved, trail, spent, model>>

-----------------------------------------------------------------------------
(* The parts a run goes through. *)
Recorded(kinds) == IF Mode = "off" THEN <<>> ELSE kinds
\* The first records of an invocation, and more of them.
Opens(r, kinds) == trail' = [trail EXCEPT ![r] = Append(@, kinds)]
Notes(r, kinds) == trail' = [trail EXCEPT ![r][Len(trail[r])] = @ \o kinds]
\* The ERROR, recorded in any mode, with which an invocation fails.
NoError(kinds) == kinds
Failing(kinds) == kinds \o <<"error">>
\* An invocation is over, with a checkpoint after which so many calls are left.
Stops(r, outcome, calls) ==
  /\ pc' = [pc EXCEPT ![r] = outcome]
  /\ left' = [left EXCEPT ![r] = calls] /\ saved' = [saved EXCEPT ![r] = calls]
Error(r, kinds) == Notes(r, Failing(kinds)) /\ Stops(r, "failed", saved[r])

Approved == card.status = "approved"
OverBudgetOnly(r) == \E k \in KeysOf[r] : spent[k] > Limit[k]
OverBudget(r) == \E k \in KeysOf[r] : spent[k] >= Limit[k]

\* CircuitBreaker.record_success and record_failure.
SuccessCounted == failures' = failures /\ breaker' = "closed"
Success == failures' = 0 /\ breaker' = "closed"
Failure ==
  /\ failures' = failures + 1
  /\ breaker' = IF failures + 1 >= Threshold THEN "open" ELSE breaker

-----------------------------------------------------------------------------
\* A run is invoked for the first time, or again after it was paused or cut off or has
\* failed.  (One that ended is only replayed from its checkpoint, before the gate.)
Ready(r) ==
  /\ pc[r] \in {"new", "paused", "failed", "gone"} /\ Len(trail[r]) < Invocations[r]
  /\ Cardinality(InFlight) < Slots
Gated == Mode = "enforcing" => Approved

\* check_registered refuses, without a record of its own if the agent has no registry_id.
Refuse(r) ==
  /\ Ready(r) /\ ~Gated
  /\ \E kinds \in {<<"registry">>, <<>>} : Opens(r, Failing(kinds))
  /\ pc' = [pc EXCEPT ![r] = "failed"]
  /\ UNCHANGED <<agent, left, saved, spent, model>>

\* It passes: the run starts, or goes on after the step of its checkpoint.
Enter(r) ==
  /\ Ready(r) /\ Gated
  /\ Opens(r, Recorded(<<"run_start">>))
  /\ pc' = [pc EXCEPT ![r] = "started"]
  /\ UNCHANGED <<agent, left, saved, spent, model>>

\* before_run of the spend plugin refuses ...
RefuseSpend(r) ==
  /\ pc[r] = "started" /\ OverBudget(r)
  /\ Error(r, <<>>)
  /\ UNCHANGED <<agent, spent, model>>
\* ... or lets the run go on.
Admit(r) ==
  /\ pc[r] = "started" /\ ~OverBudget(r)
  /\ pc' = [pc EXCEPT ![r] = "admitted"]
  /\ UNCHANGED <<agent, left, saved, trail, spent, model>>

\* The prompt is scanned, or tools have run and a checkpoint may be saved; then comes a
\* model call.  A guardrail, a tool or a control may raise in any mode, before the
\* checkpoint or after; max_steps when used up and an open breaker do.
Kept(r) == IF CheckpointMode = "step" THEN left[r] ELSE saved[r]
GoOn(r) ==
  /\ pc[r] \in {"admitted", "tools"}
  /\ \/ \E calls \in {saved[r], Kept(r)} :
          Notes(r, Failing(<<>>)) /\ Stops(r, "failed", calls)
     \/ /\ left[r] > 0 /\ breaker # "open"
        /\ pc' = [pc EXCEPT ![r] = "waiting"]
        /\ saved' = [saved EXCEPT ![r] = Kept(r)] /\ UNCHANGED <<left, trail>>
  /\ UNCHANGED <<agent, spent, model>>

\* RateLimiter.acquire returns; the call goes out, whatever the breaker says by now.
HasPermitLate == tokens >= 0
HasPermit == tokens >= 1
Permit(r) ==
  /\ pc[r] = "waiting" /\ HasPermit
  /\ tokens' = tokens - 1
  /\ pc' = [pc EXCEPT ![r] = "calling"]
  /\ left' = [left EXCEPT ![r] = @ - 1]
  /\ UNCHANGED <<agent, saved, trail, spent, failures, breaker>>

\* The model fails.
Fail(r) ==
  /\ pc[r] = "calling"
  /\ Failure
  /\ Error(r, <<>>)
  /\ UNCHANGED <<agent, spent, tokens>>

\* It answers: the cost goes to the ledger, under each key.
Charge(keys, cost) ==
  spent' = [k \in Key |-> IF k \in keys THEN spent[k] + cost ELSE spent[k]]
\* What follows are tools, or a correction of the output, or the run closes.
Answer(r) ==
  /\ pc[r] = "calling"
  /\ Success
  /\ \E cost \in 0..MaxCost : Charge(KeysOf[r], cost)
  /\ \E next \in {"tools", "closing"} : pc' = [pc EXCEPT ![r] = next]
  /\ UNCHANGED <<agent, left, saved, trail, tokens>>

\* A tool wants an approval: a checkpoint is saved, nothing is recorded.
Pause(r) ==
  /\ pc[r] = "tools"
  /\ Stops(r, "paused", left[r])
  /\ UNCHANGED <<agent, trail, spent, model>>

RunEnd == Recorded(<<"run_end">>)
\* The output is refused, a plugin or the session's store raises; or RUN_END is recorded
\* and the run has ended, unless the last checkpoint or event raises after all.
Close(r) ==
  /\ pc[r] = "closing"
  /\ \/ \E kinds \in {<<>>, RunEnd} : Error(r, kinds)
     \/ Notes(r, RunEnd) /\ Stops(r, "ended", saved[r])
  /\ UNCHANGED <<agent, spent, model>>

\* The caller is gone: CancelledError is no Exception, nothing is recorded.
Disconnect(r) ==
  /\ r \in InFlight
  /\ Stops(r, "gone", saved[r])
  /\ UNCHANGED <<agent, trail, spent, model>>

-----------------------------------------------------------------------------
Cooldown ==
  /\ breaker = "open"
  /\ breaker' = "half_open"
  /\ UNCHANGED <<agent, pc, left, saved, trail, spent, failures, tokens>>
AccruesLess == tokens < Rate - 1
Accrues == tokens < Rate
Accrue ==
  /\ Accrues
  /\ tokens' = tokens + 1
  /\ UNCHANGED <<agent, pc, left, saved, trail, spent, failures, breaker>>
\* What is out of a budget's rolling window no longer counts.
WindowRolls(k) ==
  /\ \E rest \in 0..(spent[k] - 1) : spent' = [spent EXCEPT ![k] = rest]
  /\ UNCHANGED <<agent, pc, left, saved, trail, model>>

\* The process dies, perhaps while it charges a call to one key after the other or
\* between RUN_END and the last checkpoint, and starts again.
Crash ==
  /\ failures' = 0 /\ breaker' = "closed" /\ tokens' = Rate
  /\ pc' = [r \in Run |-> IF r \in InFlight THEN "gone" ELSE pc[r]]
  /\ left' = saved
  /\ \/ UNCHANGED <<spent, trail>>
     \/ /\ \E r \in Run, cost \in 1..MaxCost :
             pc[r] = "calling" /\ \E keys \in SUBSET KeysOf[r] : Charge(keys, cost)
        /\ UNCHANGED trail
     \/ /\ \E r \in Run : pc[r] = "closing" /\ Notes(r, RunEnd)
        /\ UNCHANGED spent
  /\ UNCHANGED <<agent, saved>>

-----------------------------------------------------------------------------
Start(r) == Refuse(r) \/ Enter(r)
Drive(r) ==
  \/ RefuseSpend(r) \/ Admit(r) \/ GoOn(r)
  \/ Permit(r) \/ Fail(r) \/ Answer(r) \/ Pause(r) \/ Close(r)

Next ==
  \/ \E to \in LifecycleState : Transition(to)
  \/ \E c \in Cards : Register(c)
  \/ \E r \in Run : Start(r) \/ Drive(r) \/ Disconnect(r)
  \/ Cooldown \/ Accrue \/ Crash
  \/ \E k \in Key : WindowRolls(k)

Spec == Init /\ [][Next]_vars
\* Tokens accrue with time, the lock of the limiter is first come first served, and
\* the event loop drives every run whose permit, model answer or tool results are there.
FairSpec == Spec /\ WF_vars(Accrue) /\ \A r \in Run : WF_vars(Drive(r))

-----------------------------------------------------------------------------
Place == {"new", "started", "admitted", "waiting", "calling", "tools", "closing",
          "paused", "ended", "failed", "gone"}

(* The limiter hands out no permit it does not have (RateLimiter.acquire),  *)
(* and no invocation of a run calls its model more than max_steps times.    *)
TypeOK ==
  /\ card \in AgentCard /\ withdrawn \in BOOLEAN
  /\ pc \in [Run -> Place]
  /\ left \in [Run -> 0..MaxSteps] /\ saved \in [Run -> 0..MaxSteps]
  /\ trail \in [Run -> Seq(Seq({"registry", "run_start", "error", "run_end"}))]
  /\ spent \in [Key -> Nat]
  /\ failures \in Nat /\ breaker \in {"closed", "open", "half_open"}
  /\ tokens \in 0..Rate

(* An agent the lifecycle took out of use (suspended, rejected or           *)
(* decommissioned) stays out: in enforcing mode no run of it starts, and    *)
(* none that was paused or cut off before goes on, until it is approved     *)
(* again or registered anew as approved.  No detour (deployed after it was  *)
(* suspended, developed after it was rejected, registered as pending) lifts *)
(* that (is_approved reads the approval status; transition writes state and *)
(* status, register any card).                                              *)
WithdrawnStaysOut ==
  [][\A r \in Run : Mode = "enforcing" /\ pc[r] # "started" /\ pc'[r] = "started"
                      => ~withdrawn]_vars

(* The breaker is closed exactly while fewer than Threshold failures have   *)
(* come in a row, in whatever order the calls in flight come back: an       *)
(* answer to a call sent before it opened closes it, and the first failure  *)
(* after that is the first of a new row (record_success, record_failure).   *)
BreakerHonest == breaker = "closed" <=> failures < Threshold

(* A budget may be overdrawn by the runs that were admitted before it was   *)
(* used up, never by more: one key never costs more in a window than its    *)
(* limit and what the runs in flight at once may spend (before_run reads    *)
(* the ledger once, after_model adds to it without reading).                *)
Ahead(k) == {r \in Admitted : k \in KeysOf[r]}
Pending(r) == left[r] + IF pc[r] = "calling" THEN 1 ELSE 0
\* The calls that may still be charged to a key: the i-th from last of run r.
CallsAhead(k) == UNION {{r} \X (1..Pending(r)) : r \in Ahead(k)}
SpendBounded ==
  \A k \in Key :
    spent[k] + MaxCost * Cardinality(CallsAhead(k)) <= Limit[k] - 1 + MaxCost * MaxSteps * Slots

\* What an invocation with an outcome leaves in the trail.
Told(outcome) ==
  CASE outcome = "ended"  -> {<<"run_start", "run_end">>}
    [] outcome = "failed" -> {<<"error">>, <<"registry", "error">>, <<"run_start", "error">>,
                              <<"run_start", "run_end", "error">>}
    [] outcome = "gone"   -> {<<"run_start">>, <<"run_start", "run_end">>}
    [] OTHER              -> {<<"run_start">>}
ToldWhenOff(outcome) == IF outcome = "failed" THEN {<<"error">>} ELSE {<<>>}
Tells(kinds, outcome) ==
  kinds \in IF Mode = "off" THEN ToldWhenOff(outcome) ELSE Told(outcome)
\* The records of all invocations of a run that now stands at a place.
Complete(records, place) ==
  /\ place = "new" <=> records = <<>>
  /\ \A i \in DOMAIN records :
       IF i = Len(records) THEN Tells(records[i], place)
       ELSE \E outcome \in {"paused", "failed", "gone"} : Tells(records[i], outcome)

(* The audit trail tells how each invocation of a run went.  The last       *)
(* record of one that failed is an error, in any mode, and there is no      *)
(* error else.  Unless governance is off, one that passed the gate has one  *)
(* run_start and a refused one none; one that ended has one run_end, which  *)
(* nothing follows, in this invocation or in a further one.  A run_end with *)
(* an error or a further invocation after it tells of a last checkpoint or  *)
(* event that came to nothing; and run_start alone of an invocation that is *)
(* in flight, paused or cut off (record_run_start, record_run_end and the   *)
(* handler of run_stream).                                                  *)
TrailIsComplete == \A r \in Run : Complete(trail[r], pc[r])

(* An invocation that was let in comes to an end: max_steps bounds its      *)
(* calls and a permit comes in the end, whatever the other runs take.       *)
RunsEnd == \A r \in Run : r \in InFlight ~> r \notin InFlight
=============================================================================
