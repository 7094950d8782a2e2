-------------------------- MODULE RunWorkerProofs --------------------------
(***************************************************************************)
(* What RunWorker keeps for every set of pods and runs, every concurrency  *)
(* cap and any number of crashes, stalls and store errors.                 *)
(***************************************************************************)
EXTENDS RunWorker, FiniteSetTheorems, TLAPS

\* An outcome that is about to be written or told is one that can be.
OutcomesTyped ==
    \A t \in tasks : /\ t.pc \in {"ended", "write"} => t.outcome \in Rested
                     /\ t.pc = "callback" => t.outcome \in TERMINAL_STATUSES

TypeInv == TypeOK /\ OutcomesTyped

-----------------------------------------------------------------------------
\* The store operations: typed rows in, typed rows out, and what they leave of
\* the fields nothing else may touch.

LEMMA NewRows ==
    /\ NoRecord \in RunRecord
    /\ \A n \in Nat, h \in BOOLEAN : Created(n, h) \in RunRecord
  BY DEF NoRecord, Created, RunRecord, RunStatus, LeaseState

LEMMA DecodedRow ==
    ASSUME NEW row \in RunRecord
    PROVE  /\ Decoded(row) \in RunRecord
           /\ Decoded(row).status = row.status
           /\ Decoded(row).lease = row.lease
           /\ Decoded(row).lease_generation = row.lease_generation
           /\ Decoded(row).lease_generation + 1 \in Nat
           /\ Decoded(row).created_at = row.created_at
           /\ Decoded(row).cancel_requested = row.cancel_requested
<1>1. CASE Durable
  <2> DEFINE d == [row EXCEPT !.webhook = FALSE]
  <2>1. Decoded(row) = d
    BY <1>1 DEF Decoded
  <2>2. d \in RunRecord
    BY DEF RunRecord
  <2>3. /\ d.status = row.status /\ d.lease = row.lease
        /\ d.lease_generation = row.lease_generation
        /\ d.created_at = row.created_at
        /\ d.cancel_requested = row.cancel_requested
    BY DEF RunRecord
  <2>4. d.lease_generation + 1 \in Nat
    BY <2>2 DEF RunRecord
  <2> HIDE DEF d
  <2> QED
    BY <2>1, <2>2, <2>3, <2>4
<1>2. CASE ~Durable
  <2>1. Decoded(row) = row
    BY <1>2 DEF Decoded
  <2> QED
    BY <2>1 DEF RunRecord
<1> QED
  BY <1>1, <1>2

LEMMA CancelRequestedRow ==
    ASSUME NEW row \in RunRecord
    PROVE  /\ CancelRequested(row) \in RunRecord
           /\ CancelRequested(row).status = row.status
           /\ CancelRequested(row).lease = row.lease
           /\ CancelRequested(row).lease_generation = row.lease_generation
           /\ CancelRequested(row).created_at = row.created_at
           /\ CancelRequested(row).cancel_requested
  BY DecodedRow DEF CancelRequested, RunRecord

LEMMA ClaimedRow ==
    ASSUME NEW row \in RunRecord, NEW p \in Pods
    PROVE  /\ Claimed(row, p) \in RunRecord
           /\ Claimed(row, p).status = "running"
           /\ Claimed(row, p).lease = "ahead"
           /\ Claimed(row, p).lease_generation = row.lease_generation + 1
           /\ Claimed(row, p).created_at = row.created_at
           /\ Claimed(row, p).cancel_requested = row.cancel_requested
  BY DecodedRow DEF Claimed, RunRecord, RunStatus, LeaseState

LEMMA HeartbeatenRow ==
    ASSUME NEW row \in RunRecord, NEW p \in Pods
    PROVE  /\ Heartbeaten(row, p) \in RunRecord
           /\ Heartbeaten(row, p).status = row.status
           /\ Heartbeaten(row, p).lease = "ahead"
           /\ Heartbeaten(row, p).lease_generation = row.lease_generation
           /\ Heartbeaten(row, p).created_at = row.created_at
           /\ Heartbeaten(row, p).cancel_requested = row.cancel_requested
  BY DecodedRow DEF Heartbeaten, RunRecord, LeaseState

LEMMA ReapedRow ==
    ASSUME NEW row \in RunRecord
    PROVE  /\ Reaped(row) \in RunRecord
           /\ Reaped(row).status = "queued"
           /\ Reaped(row).lease_generation = row.lease_generation + 1
           /\ Reaped(row).created_at = row.created_at
           /\ Reaped(row).cancel_requested = row.cancel_requested
  BY DecodedRow DEF Reaped, RunRecord, RunStatus, LeaseState

LEMMA SettledRow ==
    ASSUME NEW row \in RunRecord, NEW s \in Rested
    PROVE  /\ Settled(row, s) \in RunRecord
           /\ Settled(row, s).status = s
           /\ Settled(row, s).lease_generation = row.lease_generation
           /\ Settled(row, s).created_at = row.created_at
           /\ Settled(row, s).cancel_requested = row.cancel_requested
  BY DecodedRow DEF Settled, RunRecord, RunStatus, LeaseState, Rested, TERMINAL_STATUSES

\* A lease that runs out.
LEMMA ExpiredRow ==
    ASSUME NEW row \in RunRecord
    PROVE  /\ [row EXCEPT !.lease = "past"] \in RunRecord
           /\ [row EXCEPT !.lease = "past"].status = row.status
           /\ [row EXCEPT !.lease = "past"].lease = "past"
           /\ [row EXCEPT !.lease = "past"].lease_generation = row.lease_generation
           /\ [row EXCEPT !.lease = "past"].created_at = row.created_at
           /\ [row EXCEPT !.lease = "past"].cancel_requested = row.cancel_requested
  BY DEF RunRecord, LeaseState

-----------------------------------------------------------------------------
\* The tasks after a step

LEMMA AdvanceTyped ==
    ASSUME TypeInv, NEW t \in tasks, NEW u \in Task, Advance(t, u),
           u.pc \in {"ended", "write"} => u.outcome \in Rested,
           u.pc = "callback" => u.outcome \in TERMINAL_STATUSES
    PROVE  /\ tasks' \in SUBSET Task
           /\ OutcomesTyped'
  BY DEF TypeInv, TypeOK, OutcomesTyped, Advance

LEMMA ReleaseTyped ==
    ASSUME TypeInv, NEW t \in tasks, Release(t)
    PROVE  /\ tasks' \in SUBSET Task
           /\ OutcomesTyped'
           /\ sem' \in [Pods -> Nat]
  BY DEF TypeInv, TypeOK, OutcomesTyped, Release, Task

LEMMA EndStreamTyped ==
    ASSUME TypeInv, NEW t \in tasks, NEW o \in Rested, EndStream(t, o)
    PROVE  /\ tasks' \in SUBSET Task
           /\ OutcomesTyped'
           /\ sem' \in [Pods -> Nat]
<1>1. CASE t.hb = "broken"
  BY <1>1, ReleaseTyped DEF EndStream
<1>2. CASE t.hb # "broken"
  <2> DEFINE u == [t EXCEPT !.pc = "ended", !.hb = "off", !.outcome = o]
  <2>1. t \in Task
    BY DEF TypeInv, TypeOK
  <2>2. u \in Task /\ u.pc = "ended" /\ u.outcome = o
    BY <2>1 DEF Task, TaskPc, Heartbeat, Outcome, Rested, TERMINAL_STATUSES
  <2>3. Advance(t, u) /\ UNCHANGED sem
    BY <1>2 DEF EndStream
  <2> HIDE DEF u
  <2> QED
    BY <2>2, <2>3, AdvanceTyped DEF TypeInv, TypeOK
<1> QED
  BY <1>1, <1>2

-----------------------------------------------------------------------------
\* Type correctness

LEMMA TypeInit == Init => TypeInv
<1> SUFFICES ASSUME Init PROVE TypeInv
  OBVIOUS
<1>2. TypeOK
  BY NewRows, WorkerAssumption DEF Init, TypeOK
<1>3. OutcomesTyped
  BY DEF Init, OutcomesTyped
<1> QED
  BY <1>2, <1>3 DEF TypeInv

LEMMA TypeNext == TypeInv /\ [Next]_vars => TypeInv'
<1> SUFFICES ASSUME TypeInv, [Next]_vars PROVE TypeInv'
  OBVIOUS
<1> USE DEF TypeInv
<1>rows. /\ rec \in [Runs -> RunRecord] /\ submitted + 1 \in Nat
         /\ \A r \in Runs : rec[r] \in RunRecord
  BY DEF TypeOK
\* The API
<1>1. ASSUME NEW r \in Runs, RequestCancel(r) PROVE TypeInv'
  <2>1. rec' \in [Runs -> RunRecord]
    BY <1>rows, <1>1, CancelRequestedRow DEF RequestCancel
  <2> QED
    BY <2>1, <1>rows, <1>1 DEF RequestCancel, TypeOK, OutcomesTyped, podVars, boundVars
<1>2. ASSUME NEW r \in Runs, NEW h \in Hooks, Submit(r, h) PROVE TypeInv'
  <2>1. Created(submitted + 1, h) \in RunRecord
    BY <1>rows, NewRows, WorkerAssumption
  <2>2. rec' \in [Runs -> RunRecord]
    BY <2>1, <1>rows, <1>2 DEF Submit
  <2> QED
    BY <2>2, <1>rows, <1>2 DEF Submit, TypeOK, OutcomesTyped, podVars, boundVars
\* run_forever
<1>3. ASSUME NEW p \in Pods, Reap(p) PROVE TypeInv'
  <2>1. rec' \in [Runs -> RunRecord]
    BY <1>rows, <1>3, ReapedRow DEF Reap
  <2> QED
    BY <2>1, <1>3 DEF Reap, TypeOK, OutcomesTyped, boundVars
<1>4. ASSUME NEW p \in Pods, SkipReap(p) PROVE TypeInv'
  BY <1>4 DEF SkipReap, TypeOK, OutcomesTyped, storeVars, boundVars
<1>5. ASSUME NEW p \in Pods, NEW r \in Runs, ClaimNext(p, r) PROVE TypeInv'
  <2>1. rec' \in [Runs -> RunRecord] /\ rec'[r] \in RunRecord
    BY <1>rows, <1>5, ClaimedRow DEF ClaimNext
  <2> DEFINE u == [pod |-> p, run |-> r, gen |-> rec'[r].lease_generation,
                   hook |-> rec'[r].webhook, pc |-> "claimed", hb |-> "sleep",
                   outcome |-> "none"]
  <2>2. u \in Task /\ u.pc = "claimed"
    BY <2>1 DEF Task, TaskPc, Heartbeat, Outcome, RunRecord
  <2>3. tasks' = tasks \cup {u}
    BY <1>5 DEF ClaimNext
  <2> HIDE DEF u
  <2>4. tasks' \in SUBSET Task /\ OutcomesTyped'
    BY <2>2, <2>3 DEF TypeOK, OutcomesTyped
  <2>5. sem' \in [Pods -> Nat]
    BY <1>5 DEF ClaimNext, FreeSlot, TypeOK
  <2> QED
    BY <2>1, <2>4, <2>5, <1>5 DEF ClaimNext, TypeOK, boundVars
<1>6. ASSUME NEW p \in Pods, ClaimNothing(p) PROVE TypeInv'
  BY <1>6 DEF ClaimNothing, TypeOK, OutcomesTyped, storeVars, boundVars
<1>7. ASSUME NEW p \in Pods, ClaimFails(p) PROVE TypeInv'
  BY <1>7 DEF ClaimFails, FreeSlot, TypeOK, OutcomesTyped, storeVars
<1>8. ASSUME NEW p \in Pods, Stop(p) PROVE TypeInv'
  BY <1>8 DEF Stop, TypeOK, OutcomesTyped, storeVars
<1>9. ASSUME NEW p \in Pods, LeaveLoop(p) PROVE TypeInv'
  BY <1>9 DEF LeaveLoop, TypeOK, OutcomesTyped, storeVars, boundVars
<1>10. ASSUME NEW p \in Pods, Drained(p) PROVE TypeInv'
  BY <1>10 DEF Drained, TypeOK, OutcomesTyped, storeVars, boundVars
<1>11. ASSUME NEW p \in Pods, Restart(p) PROVE TypeInv'
  BY <1>11 DEF Restart, TypeOK, OutcomesTyped, storeVars, boundVars
\* _execute
<1>12. ASSUME NEW t \in tasks, StartStream(t) PROVE TypeInv'
  <2>1. t \in Task
    BY DEF TypeOK
  <2>2. CASE t.run \in finished \/ rec[t.run].cancel_requested
    <3>1. EndStream(t, "completed") \/ EndStream(t, "cancelled")
      BY <2>2, <1>12 DEF StartStream
    <3>2. tasks' \in SUBSET Task /\ OutcomesTyped' /\ sem' \in [Pods -> Nat]
      BY <3>1, EndStreamTyped DEF Rested, TERMINAL_STATUSES
    <3> QED
      BY <3>2, <1>12 DEF StartStream, TypeOK, storeVars, boundVars
  <2>3. CASE ~(t.run \in finished \/ rec[t.run].cancel_requested)
    <3> DEFINE u == [t EXCEPT !.pc = "streaming"]
    <3>1. Advance(t, u) /\ UNCHANGED sem
      BY <2>3, <1>12 DEF StartStream
    <3>2. u \in Task /\ u.pc = "streaming"
      BY <2>1 DEF Task, TaskPc
    <3> HIDE DEF u
    <3>3. tasks' \in SUBSET Task /\ OutcomesTyped'
      BY <3>1, <3>2, AdvanceTyped
    <3> QED
      BY <3>1, <3>3, <1>12 DEF StartStream, TypeOK, storeVars, boundVars
  <2> QED
    BY <2>2, <2>3
<1>13. ASSUME NEW t \in tasks, SeeCancel(t) PROVE TypeInv'
  <2>1. tasks' \in SUBSET Task /\ OutcomesTyped' /\ sem' \in [Pods -> Nat]
    BY <1>13, EndStreamTyped DEF SeeCancel, Rested, TERMINAL_STATUSES
  <2> QED
    BY <2>1, <1>13 DEF SeeCancel, TypeOK, storeVars, boundVars
<1>14. ASSUME NEW t \in tasks, NEW o \in Outcome, StreamEnds(t, o) PROVE TypeInv'
  <2>1. tasks' \in SUBSET Task /\ OutcomesTyped' /\ sem' \in [Pods -> Nat]
    BY <1>14, EndStreamTyped DEF StreamEnds, Rested, TERMINAL_STATUSES
  <2>2. finished' \in SUBSET Runs
    BY <1>14 DEF StreamEnds, TypeOK, Task
  <2> QED
    BY <2>1, <2>2, <1>14 DEF StreamEnds, TypeOK, boundVars
<1>15. ASSUME NEW t \in tasks, CheckGeneration(t) PROVE TypeInv'
  <2>1. t \in Task /\ t.outcome \in Rested
    BY <1>15 DEF TypeOK, OutcomesTyped, CheckGeneration
  <2>2. CASE Release(t)
    <3>1. tasks' \in SUBSET Task /\ OutcomesTyped' /\ sem' \in [Pods -> Nat]
      BY <2>2, ReleaseTyped
    <3> QED
      BY <3>1, <1>15 DEF CheckGeneration, TypeOK, storeVars, boundVars
  <2>3. CASE Advance(t, [t EXCEPT !.pc = "write"]) /\ UNCHANGED sem
    <3> DEFINE u == [t EXCEPT !.pc = "write"]
    <3>1. u \in Task /\ u.pc = "write" /\ u.outcome = t.outcome
      BY <2>1 DEF Task, TaskPc
    <3>2. Advance(t, u)
      BY <2>3
    <3> HIDE DEF u
    <3>3. tasks' \in SUBSET Task /\ OutcomesTyped'
      BY <3>1, <3>2, <2>1, AdvanceTyped
    <3> QED
      BY <3>3, <2>3, <1>15 DEF CheckGeneration, TypeOK, storeVars, boundVars
  <2> QED
    BY <2>2, <2>3, <1>15 DEF CheckGeneration
<1>16. ASSUME NEW t \in tasks, WriteOutcome(t) PROVE TypeInv'
  <2>1. t \in Task /\ t.run \in Runs /\ t.outcome \in Rested
    BY <1>16 DEF TypeOK, OutcomesTyped, WriteOutcome, Task
  <2>2. rec' \in [Runs -> RunRecord]
    BY <2>1, <1>rows, <1>16, SettledRow DEF WriteOutcome
  <2>3. CASE Release(t)
    <3>1. tasks' \in SUBSET Task /\ OutcomesTyped' /\ sem' \in [Pods -> Nat]
      BY <2>3, ReleaseTyped
    <3> QED
      BY <3>1, <2>2, <1>16 DEF WriteOutcome, TypeOK, boundVars
  <2>4. CASE t.outcome # "paused" /\ Advance(t, [t EXCEPT !.pc = "callback"]) /\ UNCHANGED sem
    <3> DEFINE u == [t EXCEPT !.pc = "callback"]
    <3>1. u \in Task /\ u.pc = "callback" /\ u.outcome = t.outcome
      BY <2>1 DEF Task, TaskPc
    <3>2. Advance(t, u)
      BY <2>4
    <3> HIDE DEF u
    <3>3. u.outcome \in TERMINAL_STATUSES
      BY <3>1, <2>1, <2>4 DEF Rested
    <3>4. tasks' \in SUBSET Task /\ OutcomesTyped'
      BY <3>1, <3>2, <3>3, AdvanceTyped
    <3> QED
      BY <3>4, <2>2, <2>4, <1>16 DEF WriteOutcome, TypeOK, boundVars
  <2> QED
    BY <2>3, <2>4, <1>16 DEF WriteOutcome
<1>17. ASSUME NEW t \in tasks, OutcomeFails(t) PROVE TypeInv'
  <2>1. tasks' \in SUBSET Task /\ OutcomesTyped' /\ sem' \in [Pods -> Nat]
    BY <1>17, ReleaseTyped DEF OutcomeFails
  <2> QED
    BY <2>1, <1>17 DEF OutcomeFails, TypeOK, storeVars
<1>18. ASSUME NEW t \in tasks, PostWebhook(t) PROVE TypeInv'
  <2>1. tasks' \in SUBSET Task /\ OutcomesTyped' /\ sem' \in [Pods -> Nat]
    BY <1>18, ReleaseTyped DEF PostWebhook
  <2>2. [run |-> t.run, gen |-> t.gen, status |-> t.outcome] \in Post
    BY <1>18 DEF PostWebhook, TypeOK, OutcomesTyped, Task, Post
  <2> QED
    BY <2>1, <2>2, <1>18 DEF PostWebhook, TypeOK, storeVars, boundVars
\* The heartbeat
<1>19. ASSUME NEW t \in tasks, HeartbeatCheck(t) \/ Beat(t) \/ HeartbeatFails(t)
       PROVE TypeInv'
  <2>1. PICK h \in Heartbeat : Advance(t, [t EXCEPT !.hb = h])
    BY <1>19 DEF HeartbeatCheck, Beat, HeartbeatFails, Heartbeat
  <2> DEFINE u == [t EXCEPT !.hb = h]
  <2>2. t \in Task /\ t.run \in Runs /\ t.pod \in Pods
    BY DEF TypeOK, Task
  <2>3. u \in Task /\ u.pc = t.pc /\ u.outcome = t.outcome
    BY <2>2 DEF Task
  <2>4. Advance(t, u)
    BY <2>1
  <2> HIDE DEF u
  <2>5. tasks' \in SUBSET Task /\ OutcomesTyped'
    BY <2>3, <2>4, AdvanceTyped DEF OutcomesTyped
  <2>6. rec' \in [Runs -> RunRecord]
    BY <2>2, <1>rows, <1>19, HeartbeatenRow
    DEF HeartbeatCheck, Beat, HeartbeatFails, storeVars
  <2> QED
    BY <2>5, <2>6, <1>19
    DEF HeartbeatCheck, Beat, HeartbeatFails, TypeOK, storeVars, boundVars
\* The environment
<1>20. ASSUME NEW p \in Pods, Crash(p) PROVE TypeInv'
  BY <1>20, WorkerAssumption DEF Crash, TasksOf, TypeOK, OutcomesTyped, storeVars
<1>21. ASSUME NEW r \in Runs, LeaseRunsOut(r) \/ HolderStalls(r) PROVE TypeInv'
  <2>1. rec' = [rec EXCEPT ![r] = [rec[r] EXCEPT !.lease = "past"]]
    BY <1>21 DEF LeaseRunsOut, HolderStalls
  <2>2. rec' \in [Runs -> RunRecord]
    BY <2>1, <1>rows, ExpiredRow
  <2> QED
    BY <2>2, <1>21
    DEF LeaseRunsOut, HolderStalls, TypeOK, OutcomesTyped, podVars, boundVars
<1>22. CASE UNCHANGED vars
  BY <1>22 DEF vars, TypeOK, OutcomesTyped
<1> QED
  BY <1>1, <1>2, <1>3, <1>4, <1>5, <1>6, <1>7, <1>8, <1>9, <1>10, <1>11, <1>12,
     <1>13, <1>14, <1>15, <1>16, <1>17, <1>18, <1>19, <1>20, <1>21, <1>22
  DEF Next, Api, Loop, Execute, HeartbeatLoop, StoreFaults, Environment

\* Every variable keeps its type: no path writes a status that is not one,
\* over-releases a slot or reports an outcome that is not terminal.
THEOREM TypeCorrect == Spec => []TypeOK
<1>1. TypeInv => TypeOK
  BY DEF TypeInv
<1> QED
  BY <1>1, TypeInit, TypeNext, PTL DEF Spec

-----------------------------------------------------------------------------
\* Fences and leases, for any number of pods

FleetInv ==
    TypeInv /\ FencesAreUnique /\ FencesAreNotAhead /\ RunningIsReapable

\* What a step of one task makes of it: nothing, or a task with the same claim.
SameClaim(t, u) == u.pod = t.pod /\ u.run = t.run /\ u.gen = t.gen

Moves(t) == \/ tasks' = tasks \ {t}
            \/ \E u \in Task : SameClaim(t, u) /\ Advance(t, u)

LEMMA TaskSteps ==
    ASSUME TypeInv, NEW t \in tasks,
           Execute(t) \/ HeartbeatLoop(t) \/ OutcomeFails(t) \/ HeartbeatFails(t)
    PROVE  Moves(t)
<1>0. t \in Task
  BY DEF TypeInv, TypeOK
<1>1. ASSUME NEW c \in TaskPc, Advance(t, [t EXCEPT !.pc = c]) PROVE Moves(t)
  <2>1. [t EXCEPT !.pc = c] \in Task /\ SameClaim(t, [t EXCEPT !.pc = c])
    BY <1>0 DEF Task, SameClaim
  <2> QED
    BY <1>1, <2>1 DEF Moves
<1>2. ASSUME NEW h \in Heartbeat, Advance(t, [t EXCEPT !.hb = h]) PROVE Moves(t)
  <2>1. [t EXCEPT !.hb = h] \in Task /\ SameClaim(t, [t EXCEPT !.hb = h])
    BY <1>0 DEF Task, SameClaim
  <2> QED
    BY <1>2, <2>1 DEF Moves
<1>3. Release(t) => Moves(t)
  BY DEF Release, Moves
<1>4. ASSUME NEW o \in Outcome, EndStream(t, o) PROVE Moves(t)
  <2> DEFINE u == [t EXCEPT !.pc = "ended", !.hb = "off", !.outcome = o]
  <2>1. u \in Task /\ SameClaim(t, u)
    BY <1>0 DEF Task, SameClaim, TaskPc, Heartbeat
  <2>2. Release(t) \/ Advance(t, u)
    BY <1>4 DEF EndStream
  <2> HIDE DEF u
  <2> QED
    BY <2>1, <2>2, <1>3 DEF Moves
<1>5. StartStream(t) => Moves(t)
  BY <1>1, <1>4 DEF StartStream, Outcome, TaskPc
<1>6. SeeCancel(t) => Moves(t)
  BY <1>4 DEF SeeCancel, Outcome
<1>7. \A o \in Outcome : StreamEnds(t, o) => Moves(t)
  BY <1>4 DEF StreamEnds
<1>8. CheckGeneration(t) => Moves(t)
  BY <1>1, <1>3 DEF CheckGeneration, TaskPc
<1>9. WriteOutcome(t) => Moves(t)
  BY <1>1, <1>3 DEF WriteOutcome, TaskPc
<1>10. PostWebhook(t) \/ OutcomeFails(t) => Moves(t)
  BY <1>3 DEF PostWebhook, OutcomeFails
<1>11. HeartbeatCheck(t) \/ Beat(t) \/ HeartbeatFails(t) => Moves(t)
  BY <1>2 DEF HeartbeatCheck, Beat, HeartbeatFails, Heartbeat
<1> QED
  BY <1>5, <1>6, <1>7, <1>8, <1>9, <1>10, <1>11 DEF Execute, HeartbeatLoop

\* Generations only grow, and a running row keeps a deadline.
RowsStep ==
    \A r \in Runs :
        /\ rec'[r].lease_generation >= rec[r].lease_generation
        /\ rec'[r].status = "running" => rec'[r].lease # "none"
        /\ rec'[r].status = "absent" => rec'[r] = NoRecord

\* No task appears but by a claim.
TasksStep ==
    \/ tasks' \subseteq tasks
    \/ \E t \in tasks : Moves(t)

LEMMA FencesStep ==
    ASSUME FleetInv, TypeInv', RowsStep, TasksStep
    PROVE  FleetInv'
<1>0. /\ \A t \in tasks : t \in Task /\ t.run \in Runs /\ t.gen \in Nat
      /\ \A t \in tasks' : t \in Task /\ t.run \in Runs /\ t.gen \in Nat
      /\ \A r \in Runs : /\ rec[r].lease_generation \in Nat
                         /\ rec'[r].lease_generation \in Nat
  BY DEF FleetInv, TypeInv, TypeOK, Task, RunRecord
<1>1. CASE tasks' \subseteq tasks
  <2>1. FencesAreUnique'
    BY <1>1 DEF FleetInv, FencesAreUnique
  <2>2. FencesAreNotAhead'
    BY <1>0, <1>1 DEF FleetInv, FencesAreNotAhead, RowsStep
  <2> QED
    BY <2>1, <2>2 DEF FleetInv, RowsStep, RunningIsReapable
<1>2. ASSUME NEW t \in tasks, NEW u \in Task, SameClaim(t, u), Advance(t, u)
      PROVE FleetInv'
  <2>1. FencesAreUnique'
    BY <1>2 DEF FleetInv, FencesAreUnique, Advance, SameClaim
  <2>2. FencesAreNotAhead'
    BY <1>0, <1>2 DEF FleetInv, FencesAreNotAhead, RowsStep, Advance, SameClaim
  <2> QED
    BY <2>1, <2>2 DEF FleetInv, RowsStep, RunningIsReapable
<1> QED
  BY <1>1, <1>2 DEF TasksStep, Moves

LEMMA FleetNext == FleetInv /\ [Next]_vars => FleetInv'
<1> SUFFICES ASSUME FleetInv, [Next]_vars PROVE FleetInv'
  OBVIOUS
<1>types. TypeInv /\ TypeInv'
  BY TypeNext DEF FleetInv
<1>rows. /\ \A r \in Runs : rec[r] \in RunRecord /\ rec[r].lease_generation \in Nat
         /\ rec \in [Runs -> RunRecord]
  BY <1>types DEF TypeInv, TypeOK, RunRecord
<1>same. rec' = rec => RowsStep
  BY <1>rows DEF FleetInv, FencesAreNotAhead, RunningIsReapable, RowsStep
<1>absent. \A r \in Runs : rec[r].status = "absent" => rec[r] = NoRecord
  BY DEF FleetInv, FencesAreNotAhead
<1>leases. \A r \in Runs : rec[r].status = "running" => rec[r].lease # "none"
  BY DEF FleetInv, RunningIsReapable
<1>task. \A t \in tasks : /\ t \in Task /\ t.run \in Runs /\ t.pod \in Pods
                          /\ t.gen \in 1 .. rec[t.run].lease_generation
                          /\ rec[t.run].status # "absent"
  <2>1. \A t \in tasks : /\ t \in Task /\ t.run \in Runs /\ t.pod \in Pods
                         /\ t.gen \in 1 .. rec[t.run].lease_generation
    BY <1>types DEF FleetInv, FencesAreNotAhead, TypeInv, TypeOK, Task
  <2>2. NoRecord.lease_generation = 0
    BY DEF NoRecord
  <2> QED
    BY <2>1, <2>2, <1>absent
\* A step of one task that leaves the rows alone.
<1>quiet. ASSUME NEW t \in tasks, rec' = rec,
                 Execute(t) \/ HeartbeatLoop(t) \/ OutcomeFails(t) \/ HeartbeatFails(t)
          PROVE  FleetInv'
  BY <1>quiet, <1>same, <1>types, TaskSteps, FencesStep DEF TasksStep
<1>1. ASSUME NEW r \in Runs, RequestCancel(r) PROVE FleetInv'
  <2>1. RowsStep
    BY <1>1, <1>rows, <1>absent, <1>leases, CancelRequestedRow DEF RequestCancel, RowsStep
  <2> QED
    BY <2>1, <1>1, <1>types, FencesStep DEF RequestCancel, TasksStep, podVars
<1>2. ASSUME NEW r \in Runs, NEW h \in Hooks, Submit(r, h) PROVE FleetInv'
  <2>1. NoRecord.lease_generation = 0 /\ Created(submitted + 1, h).lease_generation = 0
        /\ Created(submitted + 1, h).status = "queued"
    BY DEF NoRecord, Created
  <2>2. RowsStep
    BY <1>2, <2>1, <1>rows, <1>absent, <1>leases DEF Submit, RowsStep
  <2> QED
    BY <2>2, <1>2, <1>types, FencesStep DEF Submit, TasksStep, podVars
<1>3. ASSUME NEW p \in Pods, Reap(p) PROVE FleetInv'
  <2>1. RowsStep
    BY <1>3, <1>rows, <1>absent, <1>leases, ReapedRow DEF Reap, RowsStep
  <2> QED
    BY <2>1, <1>3, <1>types, FencesStep DEF Reap, TasksStep
<1>4. ASSUME NEW p \in Pods, NEW r \in Runs, ClaimNext(p, r) PROVE FleetInv'
  <2> DEFINE u == [pod |-> p, run |-> r, gen |-> rec'[r].lease_generation,
                   hook |-> rec'[r].webhook, pc |-> "claimed", hb |-> "sleep",
                   outcome |-> "none"]
  <2>1. /\ tasks' = tasks \cup {u}
        /\ rec' = [rec EXCEPT ![r] = Claimed(rec[r], p)]
    BY <1>4 DEF ClaimNext
  <2>2. u.run = r /\ u.gen = rec'[r].lease_generation
    OBVIOUS
  <2> HIDE DEF u
  <2>3. /\ rec'[r].lease_generation = rec[r].lease_generation + 1
        /\ rec'[r].status = "running" /\ rec'[r].lease = "ahead"
        /\ \A q \in Runs : q # r => rec'[q] = rec[q]
    BY <2>1, <1>rows, ClaimedRow
  <2>4. FencesAreUnique'
    BY <2>1, <2>2, <2>3, <1>task, <1>rows DEF FleetInv, FencesAreUnique
  <2>5. FencesAreNotAhead'
    BY <2>1, <2>2, <2>3, <1>task, <1>rows, <1>absent DEF FencesAreNotAhead
  <2>6. RunningIsReapable'
    BY <2>3, <1>leases DEF RunningIsReapable
  <2> QED
    BY <2>4, <2>5, <2>6, <1>types DEF FleetInv
<1>5. ASSUME NEW p \in Pods, Loop(p) \/ ClaimFails(p) \/ Stop(p),
             ~Reap(p), \A r \in Runs : ~ClaimNext(p, r)
      PROVE  FleetInv'
  <2>1. rec' = rec /\ tasks' = tasks
    BY <1>5 DEF Loop, SkipReap, ClaimNothing, ClaimFails, Stop, LeaveLoop, Drained,
                Restart, storeVars
  <2> QED
    BY <2>1, <1>same, <1>types, FencesStep DEF TasksStep
<1>6. ASSUME NEW t \in tasks, WriteOutcome(t) PROVE FleetInv'
  <2>1. t.outcome \in Rested
    BY <1>6, <1>types DEF TypeInv, OutcomesTyped, WriteOutcome
  <2>2. /\ "running" \notin Rested /\ "absent" \notin Rested
    BY DEF Rested, TERMINAL_STATUSES
  <2>3. RowsStep
    BY <1>6, <2>1, <2>2, <1>rows, <1>absent, <1>leases, <1>task, SettledRow
    DEF WriteOutcome, RowsStep
  <2> QED
    BY <2>3, <1>6, <1>types, TaskSteps, FencesStep DEF Execute, TasksStep
<1>7. ASSUME NEW t \in tasks, Beat(t) PROVE FleetInv'
  <2>1. RowsStep
    BY <1>7, <1>rows, <1>absent, <1>leases, <1>task, HeartbeatenRow DEF Beat, RowsStep
  <2> QED
    BY <2>1, <1>7, <1>types, TaskSteps, FencesStep DEF HeartbeatLoop, TasksStep
<1>8. ASSUME NEW t \in tasks, Execute(t) \/ HeartbeatLoop(t) \/ OutcomeFails(t) \/ HeartbeatFails(t),
             ~WriteOutcome(t), ~Beat(t)
      PROVE  FleetInv'
  <2>1. rec' = rec
    BY <1>8 DEF Execute, StartStream, SeeCancel, StreamEnds, CheckGeneration, PostWebhook,
                HeartbeatLoop, HeartbeatCheck, OutcomeFails, HeartbeatFails, storeVars
  <2> QED
    BY <2>1, <1>8, <1>quiet
<1>9. ASSUME NEW p \in Pods, Crash(p) PROVE FleetInv'
  BY <1>9, <1>same, <1>types, FencesStep DEF Crash, storeVars, TasksStep
<1>10. ASSUME NEW r \in Runs, LeaseRunsOut(r) \/ HolderStalls(r) PROVE FleetInv'
  <2>1. /\ rec' = [rec EXCEPT ![r] = [rec[r] EXCEPT !.lease = "past"]]
        /\ rec[r].lease = "ahead" /\ tasks' = tasks
    BY <1>10 DEF LeaseRunsOut, HolderStalls, podVars
  <2>2. NoRecord.lease = "none"
    BY DEF NoRecord
  <2>3. RowsStep
    BY <2>1, <2>2, <1>rows, <1>absent, <1>leases, ExpiredRow DEF RowsStep
  <2> QED
    BY <2>1, <2>3, <1>types, FencesStep DEF TasksStep
<1>11. CASE UNCHANGED vars
  BY <1>11, <1>same, <1>types, FencesStep DEF vars, TasksStep
<1> QED
  BY <1>1, <1>2, <1>3, <1>4, <1>5, <1>6, <1>7, <1>8, <1>9, <1>10, <1>11
  DEF Next, Api, Loop, StoreFaults, Environment

LEMMA FleetInit == Init => FleetInv
<1> SUFFICES ASSUME Init PROVE FleetInv
  OBVIOUS
<1>1. NoRecord.status = "absent"
  BY DEF NoRecord
<1> QED
  BY <1>1, TypeInit
  DEF Init, FleetInv, FencesAreUnique, FencesAreNotAhead, RunningIsReapable

\* Fencing is sound for every fleet: no two tasks ever hold the same claim, no
\* claim is ahead of its record, and every running row can be reaped.
THEOREM FencingSound ==
    Spec => [](FencesAreUnique /\ FencesAreNotAhead /\ RunningIsReapable)
<1>1. FleetInv => FencesAreUnique /\ FencesAreNotAhead /\ RunningIsReapable
  BY DEF FleetInv
<1> QED
  BY <1>1, FleetInit, FleetNext, PTL DEF Spec

\* A reaped run is claimed under a new fence: no live task of any process holds
\* a fence its row has not reached (reap_expired_leases, claim_next).
THEOREM FencesBehind == Spec => []FencesAreNotAhead
  BY FencingSound, PTL

\* A running row has a lease the reaper can find it by, however its workers
\* stall, die or write stale outcomes (claim_next, heartbeat, _finalize).
THEOREM RunningReapable == Spec => []RunningIsReapable
  BY FencingSound, PTL

-----------------------------------------------------------------------------
(* A worker's slots add up, for every fleet: free permits, live tasks and  *)
(* the permit a dead claim loop took with it make MaxConcurrency.          *)
(*                                                                         *)
(* The count is inductive only next to FleetInv: a step replaces a task by *)
(* one with the same claim, and since claims are unique the replacement is *)
(* not among the other tasks, so that the set keeps its size.              *)

\* A pod has finitely many tasks: without it Cardinality says nothing.
FinitelyMany == \A p \in Pods : IsFiniteSet(TasksOf(p))

SlotInv == FleetInv /\ FinitelyMany /\ SlotsAccounted

-----------------------------------------------------------------------------
\* What a step of one task makes of its slot: given back with the task, or kept
\* by a task with the same claim.
SlotMoves(t) ==
    \/ Release(t)
    \/ /\ \E u \in Task : SameClaim(t, u) /\ Advance(t, u)
       /\ sem' = sem

LEMMA TaskSlots ==
    ASSUME TypeInv, NEW t \in tasks,
           Execute(t) \/ HeartbeatLoop(t) \/ OutcomeFails(t) \/ HeartbeatFails(t)
    PROVE  SlotMoves(t) /\ loop' = loop
<1>0. t \in Task
  BY DEF TypeInv, TypeOK
<1>1. ASSUME NEW c \in TaskPc, Advance(t, [t EXCEPT !.pc = c]), sem' = sem
      PROVE  SlotMoves(t)
  <2>1. [t EXCEPT !.pc = c] \in Task /\ SameClaim(t, [t EXCEPT !.pc = c])
    BY <1>0 DEF Task, SameClaim
  <2> QED
    BY <1>1, <2>1 DEF SlotMoves
<1>2. ASSUME NEW h \in Heartbeat, Advance(t, [t EXCEPT !.hb = h]), sem' = sem
      PROVE  SlotMoves(t)
  <2>1. [t EXCEPT !.hb = h] \in Task /\ SameClaim(t, [t EXCEPT !.hb = h])
    BY <1>0 DEF Task, SameClaim
  <2> QED
    BY <1>2, <2>1 DEF SlotMoves
<1>3. ASSUME NEW o \in Outcome, EndStream(t, o) PROVE SlotMoves(t)
  <2> DEFINE u == [t EXCEPT !.pc = "ended", !.hb = "off", !.outcome = o]
  <2>1. u \in Task /\ SameClaim(t, u)
    BY <1>0 DEF Task, SameClaim, TaskPc, Heartbeat
  <2>2. Release(t) \/ (Advance(t, u) /\ sem' = sem)
    BY <1>3 DEF EndStream
  <2> HIDE DEF u
  <2> QED
    BY <2>1, <2>2 DEF SlotMoves
<1>4. StartStream(t) => SlotMoves(t) /\ loop' = loop
  BY <1>1, <1>3 DEF StartStream, Outcome, TaskPc
<1>5. SeeCancel(t) => SlotMoves(t) /\ loop' = loop
  BY <1>3 DEF SeeCancel, Outcome
<1>6. \A o \in Outcome : StreamEnds(t, o) => SlotMoves(t) /\ loop' = loop
  BY <1>3 DEF StreamEnds
<1>7. CheckGeneration(t) => SlotMoves(t) /\ loop' = loop
  BY <1>1 DEF CheckGeneration, TaskPc, SlotMoves
<1>8. WriteOutcome(t) => SlotMoves(t) /\ loop' = loop
  BY <1>1 DEF WriteOutcome, TaskPc, SlotMoves
<1>9. PostWebhook(t) \/ OutcomeFails(t) => SlotMoves(t) /\ loop' = loop
  BY DEF PostWebhook, OutcomeFails, SlotMoves
<1>10. HeartbeatCheck(t) \/ Beat(t) \/ HeartbeatFails(t) => SlotMoves(t) /\ loop' = loop
  BY <1>2 DEF HeartbeatCheck, Beat, HeartbeatFails, Heartbeat
<1> QED
  BY <1>4, <1>5, <1>6, <1>7, <1>8, <1>9, <1>10 DEF Execute, HeartbeatLoop

\* Every pod's tasks after a step of task t.
LEMMA SlotsMoved ==
    ASSUME SlotInv, NEW t \in tasks, SlotMoves(t), loop' = loop
    PROVE  FinitelyMany' /\ SlotsAccounted'
<1>0. /\ t \in Task /\ t.pod \in Pods
      /\ sem \in [Pods -> Nat]
      /\ MaxConcurrency \in Nat
  BY WorkerAssumption DEF SlotInv, FleetInv, TypeInv, TypeOK, Task
<1>1. \A p \in Pods : /\ IsFiniteSet(TasksOf(p)) /\ Cardinality(TasksOf(p)) \in Nat
                      /\ sem[p] \in Nat
                      /\ sem[p] + Cardinality(TasksOf(p)) + (IF loop[p] = "dead" THEN 1 ELSE 0)
                            = MaxConcurrency
  BY <1>0, FS_CardinalityType DEF SlotInv, FinitelyMany, SlotsAccounted
<1>2. SUFFICES ASSUME NEW p \in Pods
               PROVE  /\ IsFiniteSet(TasksOf(p)')
                      /\ sem'[p] + Cardinality(TasksOf(p)') + (IF loop'[p] = "dead" THEN 1 ELSE 0)
                            = MaxConcurrency
  BY DEF FinitelyMany, SlotsAccounted
<1>3. CASE Release(t)
  <2>1. /\ TasksOf(p)' = TasksOf(p) \ {t}
        /\ t \in TasksOf(p) <=> t.pod = p
        /\ sem' = [sem EXCEPT ![t.pod] = sem[t.pod] + 1]
    BY <1>3 DEF Release, TasksOf
  <2>2. /\ IsFiniteSet(TasksOf(p) \ {t})
        /\ Cardinality(TasksOf(p) \ {t})
              = IF t \in TasksOf(p) THEN Cardinality(TasksOf(p)) - 1 ELSE Cardinality(TasksOf(p))
    BY <1>1, FS_RemoveElement
  <2>3. sem'[p] = IF t.pod = p THEN sem[p] + 1 ELSE sem[p]
    BY <2>1, <1>0
  <2> QED
    BY <1>0, <1>1, <2>1, <2>2, <2>3
<1>4. ASSUME NEW u \in Task, SameClaim(t, u), Advance(t, u), sem' = sem
      PROVE  /\ IsFiniteSet(TasksOf(p)')
             /\ sem'[p] + Cardinality(TasksOf(p)') + (IF loop'[p] = "dead" THEN 1 ELSE 0)
                   = MaxConcurrency
  <2>1. u \notin tasks \ {t}
    BY <1>4 DEF SlotInv, FleetInv, FencesAreUnique, SameClaim
  <2>2. CASE t.pod = p
    <3> DEFINE Rest == TasksOf(p) \ {t}
    <3>1. TasksOf(p)' = Rest \cup {u} /\ u \notin Rest /\ t \in TasksOf(p)
      BY <1>4, <2>1, <2>2 DEF Advance, SameClaim, TasksOf
    <3>2. IsFiniteSet(Rest) /\ Cardinality(Rest) = Cardinality(TasksOf(p)) - 1
      BY <1>1, <3>1, FS_RemoveElement
    <3> HIDE DEF Rest
    <3>3. IsFiniteSet(Rest \cup {u}) /\ Cardinality(Rest \cup {u}) = Cardinality(Rest) + 1
      BY <3>1, <3>2, FS_AddElement
    <3>4. Cardinality(TasksOf(p)') = Cardinality(TasksOf(p))
      BY <1>1, <3>1, <3>2, <3>3
    <3> QED
      BY <1>1, <1>4, <3>1, <3>3, <3>4
  <2>3. CASE t.pod # p
    <3>1. TasksOf(p)' = TasksOf(p)
      BY <1>4, <2>3 DEF Advance, SameClaim, TasksOf
    <3> QED
      BY <1>1, <1>4, <3>1
  <2> QED
    BY <2>2, <2>3
<1> QED
  BY <1>3, <1>4 DEF SlotMoves

-----------------------------------------------------------------------------

LEMMA SlotInit == Init => SlotInv
<1> SUFFICES ASSUME Init PROVE SlotInv
  OBVIOUS
<1>1. \A p \in Pods : TasksOf(p) = {} /\ sem[p] = MaxConcurrency /\ loop[p] = "sweep"
  BY DEF Init, TasksOf
<1> QED
  BY <1>1, FleetInit, FS_EmptySet, WorkerAssumption
  DEF SlotInv, FinitelyMany, SlotsAccounted

LEMMA SlotNext == SlotInv /\ [Next]_vars => SlotInv'
<1> SUFFICES ASSUME SlotInv, [Next]_vars PROVE SlotInv'
  OBVIOUS
<1>fleet. FleetInv /\ FleetInv' /\ TypeInv
  BY FleetNext DEF SlotInv, FleetInv
<1>slots. \A p \in Pods : /\ IsFiniteSet(TasksOf(p)) /\ Cardinality(TasksOf(p)) \in Nat
                          /\ sem[p] \in Nat /\ MaxConcurrency \in Nat
                          /\ sem[p] + Cardinality(TasksOf(p)) + (IF loop[p] = "dead" THEN 1 ELSE 0)
                                = MaxConcurrency
  BY <1>fleet, FS_CardinalityType, WorkerAssumption
  DEF SlotInv, FinitelyMany, SlotsAccounted, TypeInv, TypeOK
\* Most steps leave the tasks and the permits alone, and kill no loop.
<1>quiet. ASSUME tasks' = tasks, sem' = sem,
                 \A p \in Pods : loop'[p] = "dead" <=> loop[p] = "dead"
          PROVE  SlotInv'
  <2>1. \A p \in Pods : TasksOf(p)' = TasksOf(p)
    BY <1>quiet DEF TasksOf
  <2> QED
    BY <2>1, <1>quiet, <1>fleet, <1>slots DEF SlotInv, FinitelyMany, SlotsAccounted
<1>1. CASE Api
  BY <1>1, <1>quiet DEF Api, RequestCancel, Submit, podVars
<1>2. ASSUME NEW p \in Pods, NEW r \in Runs, ClaimNext(p, r) PROVE SlotInv'
  <2> DEFINE u == [pod |-> p, run |-> r, gen |-> rec'[r].lease_generation,
                   hook |-> rec'[r].webhook, pc |-> "claimed", hb |-> "sleep",
                   outcome |-> "none"]
  <2>1. /\ tasks' = tasks \cup {u}
        /\ sem' = [sem EXCEPT ![p] = sem[p] - 1] /\ sem[p] > 0
        /\ loop' = [loop EXCEPT ![p] = "sweep"] /\ loop[p] = "acquire"
        /\ rec' = [rec EXCEPT ![r] = Claimed(rec[r], p)]
    BY <1>2 DEF ClaimNext, FreeSlot
  <2>2. u.pod = p /\ u.run = r /\ u.gen = rec'[r].lease_generation
    OBVIOUS
  <2> HIDE DEF u
  <2>3. rec'[r].lease_generation = rec[r].lease_generation + 1 /\ rec[r].lease_generation \in Nat
    BY <2>1, <1>fleet, ClaimedRow DEF TypeInv, TypeOK, RunRecord
  <2>4. u \notin tasks
    BY <2>2, <2>3, <1>fleet DEF FleetInv, FencesAreNotAhead
  <2>5. /\ TasksOf(p)' = TasksOf(p) \cup {u} /\ u \notin TasksOf(p)
        /\ \A q \in Pods : q # p => TasksOf(q)' = TasksOf(q)
    BY <2>1, <2>2, <2>4 DEF TasksOf
  <2>6. /\ IsFiniteSet(TasksOf(p)')
        /\ Cardinality(TasksOf(p)') = Cardinality(TasksOf(p)) + 1
    BY <2>5, <1>slots, FS_AddElement
  <2>7. sem'[p] = sem[p] - 1 /\ \A q \in Pods : q # p => sem'[q] = sem[q]
    BY <2>1, <1>fleet DEF TypeInv, TypeOK
  <2>8. loop'[p] = "sweep" /\ \A q \in Pods : q # p => loop'[q] = loop[q]
    BY <2>1, <1>fleet DEF TypeInv, TypeOK
  <2>9. /\ sem'[p] + Cardinality(TasksOf(p)') + (IF loop'[p] = "dead" THEN 1 ELSE 0)
              = MaxConcurrency
        /\ \A q \in Pods : q # p =>
              /\ IsFiniteSet(TasksOf(q)')
              /\ sem'[q] + Cardinality(TasksOf(q)') + (IF loop'[q] = "dead" THEN 1 ELSE 0)
                    = MaxConcurrency
    <3>1. sem[p] + Cardinality(TasksOf(p)) = MaxConcurrency
      BY <2>1, <1>slots
    <3> QED
      BY <3>1, <2>5, <2>6, <2>7, <2>8, <1>slots
  <2> QED
    BY <2>6, <2>9, <1>fleet DEF SlotInv, FinitelyMany, SlotsAccounted
<1>3. ASSUME NEW p \in Pods, Loop(p) \/ Stop(p), \A r \in Runs : ~ClaimNext(p, r) PROVE SlotInv'
  <2>1. tasks' = tasks /\ sem' = sem
    BY <1>3 DEF Loop, Reap, SkipReap, ClaimNothing, LeaveLoop, Drained, Restart, Stop
  <2>2. loop' = loop \/ (loop[p] # "dead" /\ \E l \in {"sweep", "acquire", "drain", "stopped"} :
                            loop' = [loop EXCEPT ![p] = l])
    BY <1>3 DEF Loop, Reap, SkipReap, ClaimNothing, LeaveLoop, Drained, Restart, Stop
  <2>3. \A q \in Pods : loop'[q] = "dead" <=> loop[q] = "dead"
    BY <2>2, <1>fleet DEF TypeInv, TypeOK
  <2> QED
    BY <2>1, <2>3, <1>quiet
<1>4. ASSUME NEW p \in Pods, ClaimFails(p) PROVE SlotInv'
  <2>1. /\ tasks' = tasks
        /\ sem' = [sem EXCEPT ![p] = sem[p] - 1] /\ sem[p] > 0
        /\ loop' = [loop EXCEPT ![p] = "dead"] /\ loop[p] = "acquire"
    BY <1>4 DEF ClaimFails, FreeSlot
  <2>2. \A q \in Pods : TasksOf(q)' = TasksOf(q)
    BY <2>1 DEF TasksOf
  <2>3. /\ sem'[p] = sem[p] - 1 /\ loop'[p] = "dead"
        /\ \A q \in Pods : q # p => sem'[q] = sem[q] /\ loop'[q] = loop[q]
    BY <2>1, <1>fleet DEF TypeInv, TypeOK
  <2> QED
    BY <2>1, <2>2, <2>3, <1>fleet, <1>slots DEF SlotInv, FinitelyMany, SlotsAccounted
<1>5. ASSUME NEW t \in tasks,
             Execute(t) \/ HeartbeatLoop(t) \/ OutcomeFails(t) \/ HeartbeatFails(t)
      PROVE  SlotInv'
  BY <1>5, <1>fleet, TaskSlots, SlotsMoved DEF SlotInv
<1>6. ASSUME NEW p \in Pods, Crash(p) PROVE SlotInv'
  <2>1. /\ TasksOf(p)' = {}
        /\ \A q \in Pods : q # p => TasksOf(q)' = TasksOf(q)
    BY <1>6 DEF Crash, TasksOf
  <2>2. /\ sem'[p] = MaxConcurrency /\ loop'[p] = "sweep"
        /\ \A q \in Pods : q # p => sem'[q] = sem[q] /\ loop'[q] = loop[q]
    BY <1>6, <1>fleet DEF Crash, TypeInv, TypeOK
  <2>3. IsFiniteSet({}) /\ Cardinality({}) = 0
    BY FS_EmptySet
  <2>4. /\ IsFiniteSet(TasksOf(p)')
        /\ sem'[p] + Cardinality(TasksOf(p)') + (IF loop'[p] = "dead" THEN 1 ELSE 0)
              = MaxConcurrency
    BY <2>1, <2>2, <2>3, <1>slots
  <2> QED
    BY <2>1, <2>2, <2>4, <1>fleet, <1>slots DEF SlotInv, FinitelyMany, SlotsAccounted
<1>7. ASSUME NEW r \in Runs, LeaseRunsOut(r) \/ HolderStalls(r) PROVE SlotInv'
  BY <1>7, <1>quiet DEF LeaseRunsOut, HolderStalls, podVars
<1>8. CASE UNCHANGED vars
  BY <1>8, <1>quiet DEF vars
<1> QED
  BY <1>1, <1>2, <1>3, <1>4, <1>5, <1>6, <1>7, <1>8
  DEF Next, StoreFaults, Environment

\* No path through _execute, an early return or an exception loses or duplicates
\* a slot: free permits, live tasks and the permit that went down with a dead
\* claim loop always make max_concurrency (_run_and_release).
THEOREM SlotsSound == Spec => []SlotsAccounted
<1>1. SlotInv => SlotsAccounted
  BY DEF SlotInv
<1> QED
  BY <1>1, SlotInit, SlotNext, PTL DEF Spec

=============================================================================
