--------------------------- MODULE ApprovalResume ---------------------------
(***************************************************************************)
(* One durable run whose guarded tool calls wait for a human: pause,       *)
(* decide, resume.                                                         *)
(*                                                                         *)
(* Three stores hold the run between two steps: its record (status and     *)
(* lease), its last checkpoint, and one approval request per guarded call, *)
(* named by the call's tool and arguments.  Four kinds of actor drive it,  *)
(* each on any replica: a worker task that claimed the run, a reviewer's   *)
(* POST to approve or deny, a manual POST to resume, and a worker loop     *)
(* that reconciles decided but unresumed pauses.  An actor can die between *)
(* any two store calls.                                                    *)
(*                                                                         *)
(* The run is checkpointed (a run_checkpointer and a resume_id) and no     *)
(* live worker loses its lease: RunWorker has leases, fences and stalls.   *)
(***************************************************************************)
EXTENDS Naturals, Sequences, FiniteSets

CONSTANTS Calls,        \* the guarded calls the model may ask for
          MaxSteps,     \* agent.max_steps
          Parallel,     \* parallel_tools: one turn may ask for several calls
          Workers,      \* worker tasks
          Reviewers,    \* approve and deny requests, each sent once
          Owners,       \* manual resume requests, each sent once
          Reconcilers,  \* worker loops that call reconcile_paused
          MaxCrashes    \* bound: actors that die

Actors == Workers \cup Reviewers \cup Owners \cup Reconcilers

ASSUME ApprovalAssumption ==
    /\ MaxSteps \in Nat
    /\ Parallel \in BOOLEAN
    /\ MaxCrashes \in Nat
    /\ Workers \cap (Reviewers \cup Owners \cup Reconcilers) = {}
    /\ Reviewers \cap (Owners \cup Reconcilers) = {}
    /\ Owners \cap Reconcilers = {}

VARIABLES
    status,   \* of the run record
    leased,   \* the record has a lease deadline
    ckpt,     \* the run's last checkpoint
    verdict,  \* the approval store
    filed,    \* the approval requests in the order they were created
    act,      \* what each actor is doing
    asked,    \* some human's request has said "approved"
    ran,      \* how often each held call of each step was executed
    crashes

stores == <<status, leased, ckpt, verdict, filed>>
history == <<asked, ran>>
vars == <<status, leased, ckpt, verdict, filed, act, asked, ran, crashes>>

-----------------------------------------------------------------------------
\* Types

Decisions == {"approved", "denied"}

\* "absent": no request was created for the call.
Verdicts == {"absent", "pending"} \cup Decisions

Steps == 0 .. MaxSteps

Checkpoint == [kind : {"none", "step", "pending", "finished"},
               step : Steps, held : SUBSET Calls]

\* pc: no driver; about to compare and set; about to look why that failed; at
\* the head of run_stream; resolving held calls; at the head of a model turn;
\* filing the turn's guarded calls; at the end of the stream; a request answered.
Local == [pc       : {"idle", "cas", "look", "load", "resolve", "turn", "file",
                      "end", "answered"},
          decision : {"none"} \cup Decisions,
          step     : Steps,
          held     : SUBSET Calls,
          unfiled  : SUBSET Calls,
          outcome  : {"none", "completed", "failed", "paused"}]

Idle == [pc |-> "idle", decision |-> "none", step |-> 0, held |-> {},
         unfiled |-> {}, outcome |-> "none"]

TypeOK ==
    /\ status \in {"queued", "running", "paused", "completed", "failed"}
    /\ leased \in BOOLEAN
    /\ ckpt \in Checkpoint
    /\ verdict \in [Calls -> Verdicts]
    /\ filed \in Seq(Calls)
    /\ act \in [Actors -> Local]
    /\ asked \in BOOLEAN
    /\ ran \in [Steps \X Calls -> Nat]
    /\ crashes \in Nat

-----------------------------------------------------------------------------
\* Helpers

\* The actor has the run's stream open: it loads, resolves, asks and settles.
Driving(a) == act[a].pc \in {"load", "resolve", "turn", "file", "end"}

Go(a, local) == act' = [act EXCEPT ![a] = local]

\* Fields a program point no longer reads are reset, so that states agree.
Ended(outcome) == [Idle EXCEPT !.pc = "end", !.outcome = outcome]
AtTurn(step) == [Idle EXCEPT !.pc = "turn", !.step = step]

\* A request is answered for good, a worker or a reconciler starts over.
Over(a) == IF a \in Reviewers \cup Owners
           THEN [Idle EXCEPT !.pc = "answered"] ELSE Idle

\* update(expect_status = PAUSED): the statuses the compare-and-set accepts.
ResumableUnguarded == {"paused", "running"}
Resumable == {"paused"}

\* create(): the first request under an id wins.
FiledAfresh(c) == "pending"
Filed(c) == IF verdict[c] = "absent" THEN "pending" ELSE verdict[c]

\* decide(): the first decision wins.
Decided(c, d) == IF verdict[c] = "pending" THEN d ELSE verdict[c]

\* The decisions a held call is executed under.
LenientDecisions == {"none", "approved"}
ExecutingDecisions == {"approved"}

\* The position of the request whose decision a reconciler resumes with.
OldestOnly == {i \in DOMAIN filed : i = 1 /\ verdict[filed[i]] \in Decisions}
FirstDecided ==
    {i \in DOMAIN filed :
        /\ verdict[filed[i]] \in Decisions
        /\ \A j \in 1 .. i - 1 : verdict[filed[j]] \notin Decisions}

\* The loop head: range(start_step, max_steps).
OneStepMore(a) == act[a].step <= MaxSteps
StepsLeft(a) == act[a].step < MaxSteps

\* The marker a checkpointed step leaves behind, and a parked one.
StepMarker(step) == [kind |-> "step", step |-> step, held |-> {}]
UnmarkedStep(step, held) == StepMarker(step)
PendingMarker(step, held) == [kind |-> "pending", step |-> step, held |-> held]

Init ==
    /\ status = "queued"
    /\ leased = FALSE
    /\ ckpt = [kind |-> "none", step |-> 0, held |-> {}]
    /\ verdict = [c \in Calls |-> "absent"]
    /\ filed = <<>>
    /\ act = [a \in Actors |-> Idle]
    /\ asked = FALSE
    /\ ran = [sc \in Steps \X Calls |-> 0]
    /\ crashes = 0

-----------------------------------------------------------------------------
\* The worker: claim, and the record at the end of the stream

Claim(w) ==
    /\ act[w].pc = "idle"
    /\ status = "queued"
    /\ status' = "running"
    /\ leased' = TRUE
    /\ Go(w, [Idle EXCEPT !.pc = "load"])
    /\ UNCHANGED <<ckpt, verdict, filed, history, crashes>>

\* _execute parks or finalizes the record and drops the lease.
Settle(w) ==
    /\ act[w].pc = "end"
    /\ status' = act[w].outcome
    /\ leased' = FALSE
    /\ Go(w, Idle)
    /\ UNCHANGED <<ckpt, verdict, filed, history, crashes>>

\* The lease of a worker that died has run out and a reaper passes.
Reap ==
    /\ status = "running" /\ leased
    /\ \A w \in Workers : ~Driving(w)
    /\ status' = "queued"
    /\ leased' = FALSE
    /\ UNCHANGED <<ckpt, verdict, filed, act, history, crashes>>

-----------------------------------------------------------------------------
\* run_stream, whoever opened it

\* The checkpoint decides where the stream starts.
Load(a) ==
    /\ act[a].pc = "load"
    /\ \/ /\ ckpt.kind = "finished"
          /\ Go(a, Ended("completed"))
       \/ /\ ckpt.kind = "pending"
          /\ Go(a, [act[a] EXCEPT !.pc = "resolve", !.held = ckpt.held,
                                  !.step = ckpt.step])
       \/ /\ ckpt.kind = "step"
          /\ Go(a, AtTurn(ckpt.step + 1))
       \/ /\ ckpt.kind = "none"
          /\ Go(a, AtTurn(0))
    /\ UNCHANGED <<stores, history, crashes>>

\* _resume_pending on one held call: run it, or tell the model it was denied.
\* All held calls of a turn are resolved under the one decision the actor brought.
Resolve(a, c) ==
    /\ act[a].pc = "resolve"
    /\ c \in act[a].held
    /\ ran' = IF act[a].decision \in ExecutingDecisions
              THEN [ran EXCEPT ![<<act[a].step, c>>] = @ + 1] ELSE ran
    /\ LET rest == act[a].held \ {c} IN
       Go(a, IF rest = {}
             THEN AtTurn(act[a].step + 1)
             ELSE [act[a] EXCEPT !.held = rest])
    /\ UNCHANGED <<stores, asked, crashes>>

\* The model answers: the terminal marker is written before the stream ends.
Answer(a) ==
    /\ act[a].pc = "turn" /\ StepsLeft(a)
    /\ ckpt' = [kind |-> "finished", step |-> MaxSteps, held |-> {}]
    /\ Go(a, Ended("completed"))
    /\ UNCHANGED <<status, leased, verdict, filed, history, crashes>>

\* A round of unguarded tools: its progress is checkpointed.
ToolRound(a) ==
    /\ act[a].pc = "turn" /\ StepsLeft(a)
    /\ ckpt' = StepMarker(act[a].step)
    /\ Go(a, [act[a] EXCEPT !.step = @ + 1])
    /\ UNCHANGED <<status, leased, verdict, filed, history, crashes>>

\* The model, a store or a plugin raises, or max_steps are used up.
Fail(a) ==
    /\ act[a].pc \in {"load", "resolve", "turn", "file"}
    /\ Go(a, Ended("failed"))
    /\ UNCHANGED <<stores, history, crashes>>

\* The model asks for guarded calls.
Ask(a, C) ==
    /\ act[a].pc = "turn" /\ StepsLeft(a)
    /\ C # {}
    /\ Parallel \/ Cardinality(C) = 1
    /\ Go(a, [act[a] EXCEPT !.pc = "file", !.held = C, !.unfiled = C])
    /\ UNCHANGED <<stores, history, crashes>>

\* The approval plugin creates the request of one of them.
File(a, c) ==
    /\ act[a].pc = "file"
    /\ c \in act[a].unfiled
    /\ verdict' = [verdict EXCEPT ![c] = Filed(c)]
    /\ filed' = IF verdict[c] = "absent" THEN Append(filed, c) ELSE filed
    /\ Go(a, [act[a] EXCEPT !.unfiled = @ \ {c}])
    /\ UNCHANGED <<status, leased, ckpt, history, crashes>>

\* With all of them filed the pending marker is written and the stream ends.
Park(a) ==
    /\ act[a].pc = "file"
    /\ act[a].unfiled = {}
    /\ ckpt' = PendingMarker(act[a].step, act[a].held)
    /\ Go(a, Ended("paused"))
    /\ UNCHANGED <<status, leased, verdict, filed, history, crashes>>

-----------------------------------------------------------------------------
\* Decisions and the resume they trigger

\* POST /approvals/{id}/approve or /deny: the decision is recorded if it is the
\* first, and the resume carries the one this request asked for.
Decide(q, c, d) ==
    /\ act[q].pc = "idle"
    /\ verdict[c] # "absent"
    /\ verdict' = [verdict EXCEPT ![c] = Decided(c, d)]
    /\ asked' = (asked \/ d = "approved")
    /\ Go(q, [Idle EXCEPT !.pc = "cas", !.decision = d])
    /\ UNCHANGED <<status, leased, ckpt, filed, ran, crashes>>

\* POST /runs/{id}/resume: its body may carry a decision of its own (any but
\* "approved" resolves the held calls as none does).
ResumeByHand(o, d) ==
    /\ act[o].pc = "idle"
    /\ asked' = (asked \/ d = "approved")
    /\ Go(o, [Idle EXCEPT !.pc = "cas", !.decision = d])
    /\ UNCHANGED <<stores, ran, crashes>>

\* reconcile_paused finds the run paused with a request decided.
Reconcile(k) ==
    /\ act[k].pc = "idle"
    /\ status = "paused"
    /\ \E i \in FirstDecided :
          Go(k, [Idle EXCEPT !.pc = "cas", !.decision = verdict[filed[i]]])
    /\ UNCHANGED <<stores, history, crashes>>

\* _resume_run's guarded transition.  The lease is left as it is: none.
CompareAndSet(a) ==
    /\ act[a].pc = "cas"
    /\ IF status \in Resumable
       THEN /\ status' = "running"
            /\ Go(a, [act[a] EXCEPT !.pc = "load"])
       ELSE /\ Go(a, [act[a] EXCEPT !.pc = "look"])
            /\ UNCHANGED status
    /\ UNCHANGED <<leased, ckpt, verdict, filed, history, crashes>>

\* It failed: while the run is still running try again, until the deadline.
Look(a) ==
    /\ act[a].pc = "look"
    /\ \/ /\ status = "running"
          /\ Go(a, [act[a] EXCEPT !.pc = "cas"])
       \/ Go(a, Over(a))
    /\ UNCHANGED <<stores, history, crashes>>

SettleUnlessParked(a) ==
    /\ a \notin Workers
    /\ act[a].pc = "end"
    /\ status' = IF act[a].outcome = "paused" THEN status ELSE act[a].outcome
    /\ Go(a, Over(a))
    /\ UNCHANGED <<leased, ckpt, verdict, filed, history, crashes>>

\* The resumed stream ended: FAILED if it raised, else COMPLETED.
SettleResumed(a) ==
    /\ a \notin Workers
    /\ act[a].pc = "end"
    /\ status' = IF act[a].outcome = "failed" THEN "failed" ELSE "completed"
    /\ Go(a, Over(a))
    /\ UNCHANGED <<leased, ckpt, verdict, filed, history, crashes>>

-----------------------------------------------------------------------------
\* The process an actor runs in dies; a worker or reconciler is started again.
Crash(a) ==
    /\ act[a].pc \notin {"idle", "answered"}
    /\ crashes < MaxCrashes
    /\ crashes' = crashes + 1
    /\ Go(a, Over(a))
    /\ UNCHANGED <<stores, history>>

-----------------------------------------------------------------------------

Stream(a) ==
    \/ Load(a) \/ Answer(a) \/ ToolRound(a) \/ Fail(a) \/ Park(a)
    \/ \E c \in Calls : Resolve(a, c) \/ File(a, c)
    \/ \E C \in SUBSET Calls : Ask(a, C)

Resume(a) == CompareAndSet(a) \/ Look(a) \/ SettleResumed(a)

Next ==
    \/ \E w \in Workers : Claim(w) \/ Settle(w)
    \/ Reap
    \/ \E a \in Actors : Stream(a) \/ Resume(a) \/ Crash(a)
    \/ \E q \in Reviewers, c \in Calls, d \in Decisions : Decide(q, c, d)
    \/ \E o \in Owners, d \in {"none", "approved"} : ResumeByHand(o, d)
    \/ \E k \in Reconcilers : Reconcile(k)

Spec == Init /\ [][Next]_vars

\* Event loops turn, streams end, the reaper and the reconciler pass again and
\* again.  No human is obliged to decide and nobody to crash.
Fairness ==
    /\ WF_vars(Reap)
    /\ \A w \in Workers : WF_vars(Claim(w)) /\ WF_vars(Settle(w))
    /\ \A a \in Actors : WF_vars(Stream(a)) /\ WF_vars(Resume(a))
    /\ \A k \in Reconcilers : WF_vars(Reconcile(k))

FairSpec == Spec /\ Fairness

-----------------------------------------------------------------------------
\* Safety

\* One actor at most has the run's stream open, and only while the record says
\* running: leases, the reaper and the compare-and-set agree on who it is.
SoleDriver ==
    /\ \A a, b \in Actors : Driving(a) /\ Driving(b) => a = b
    /\ \A a \in Actors : Driving(a) => status = "running"

\* No held call is executed twice, however many reviewers, owners, reconcilers
\* and workers pick the pause up (hitl.md: "resumes the run exactly once").
HeldRunsOnce == \A sc \in Steps \X Calls : ran[sc] <= 1

\* A held call is never executed unless some human's request said "approved": a
\* worker that re-claims a parked run after a crash, or an owner who resumes it
\* by hand without a decision, gets it denied (_resume_pending).
FailsClosed == ~asked => \A sc \in Steps \X Calls : ran[sc] = 0

\* A paused run can be decided and resumed: its checkpoint holds the calls it
\* waits for and each has a request a reviewer can find (_queue_and_pause,
\* "makes the run self-heal across that crash window").
PausedIsDecidable ==
    status = "paused" =>
        /\ ckpt.kind = "pending" /\ ckpt.held # {}
        /\ \A c \in ckpt.held : verdict[c] # "absent"

\* A decision is permanent: neither a second reviewer nor a re-paused run that
\* files the same call again changes it (approvals.py, create and decide).
DecisionIsPermanent ==
    [][\A c \in Calls : verdict[c] \in Decisions => verdict'[c] = verdict[c]]_vars

\* A held call is executed only if its own request is on record as approved
\* (hitl.md: "decide is first-write-wins"; runner.py: "each with its own
\* decision").
OnlyApprovedCallsRun ==
    \A s \in Steps, c \in Calls : ran[s, c] > 0 => verdict[c] = "approved"

\* Only a death in the middle of a resume leaves a run on record as running with
\* no lease and nobody to drive it, which no reaper finds (_resume_run sets
\* RUNNING without a lease): losing resumers, drivers that fail and streams that
\* park again all leave a record that says what the run waits for.
RunningIsDriven ==
    status = "running" => leased \/ crashes > 0 \/ \E a \in Actors : Driving(a)

\* Liveness: a pause with a decided call is picked up again even if the request
\* that recorded the decision died (reconcile_paused).
DecisionTakesEffect ==
    status = "paused" /\ (\E c \in ckpt.held : verdict[c] \in Decisions)
        ~> status # "paused"

=============================================================================
