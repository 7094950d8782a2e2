----------------------------- MODULE RunWorker -----------------------------
(***************************************************************************)
(* A fleet of background workers draining one durable run queue.           *)
(*                                                                         *)
(* Each pod is one process with one event loop.  Its run_forever loop      *)
(* sweeps (reaper), takes a concurrency slot and claims the oldest queued  *)
(* run; every claimed run is a task of its own, with a heartbeat beside    *)
(* it.  The run store's methods never suspend, so what a coroutine does    *)
(* between two of them no other coroutine of its pod can see, but every    *)
(* other pod can: InSection holds a pod's event loop over such a section.  *)
(*                                                                         *)
(* The clock is abstracted to what the code tells apart, a lease deadline  *)
(* ahead or past.  A live holder's lease runs out only when its process    *)
(* stalls; an abandoned one runs out by itself.                            *)
(*                                                                         *)
(* Next to some definitions stands a variant that one slip in the code     *)
(* would give: nothing uses it, and each property is violated under one.   *)
(***************************************************************************)
EXTENDS RunStore, FiniteSets

CONSTANTS Runs,            \* run ids
          MaxConcurrency,  \* RunWorker(max_concurrency=)
          Checkpointing,   \* the runner has a run_checkpointer shared by all pods
          DefaultWebhook,  \* RunWorker(webhook=) is set
          Hooks,           \* whether submissions carry a callback URL, may not, or both
          MaxMishaps       \* bound: crashes, rolling restarts, stalls of a live
                           \* process beyond its lease and store calls that
                           \* raise, all together

ASSUME WorkerAssumption ==
    /\ MaxConcurrency \in Nat \ {0}
    /\ Checkpointing \in BOOLEAN
    /\ DefaultWebhook \in BOOLEAN
    /\ Hooks \subseteq BOOLEAN
    /\ MaxMishaps \in Nat

VARIABLES
    rec,        \* the runs table
    finished,   \* runs whose checkpoint carries the terminal marker
    tasks,      \* live _execute tasks of all pods
    sem,        \* free permits of each pod's semaphore
    loop,       \* where each pod's run_forever is
    stopping,   \* each pod's _stop event
    posts,      \* terminal webhooks sent, with the claim that sent them
    submitted,  \* number of rows created, the clock of created_at
    shutdowns,  \* crashes and stops so far
    stalls,     \* stalls so far
    faults      \* store calls that raised so far

storeVars == <<rec, finished>>
podVars == <<tasks, sem, loop, stopping>>
boundVars == <<shutdowns, stalls, faults>>
vars == <<rec, finished, tasks, sem, loop, stopping, posts, submitted,
          shutdowns, stalls, faults>>

-----------------------------------------------------------------------------
\* Types

Outcome == {"none", "completed", "failed", "cancelled", "paused"}

\* The statuses a run may rest in.
Rested == TERMINAL_STATUSES \cup {"paused"}

\* pc: the run is claimed, its stream is running, its stream has ended, the
\* generation was found current and the outcome is about to be written, the
\* outcome is written and the callback is due.
TaskPc == {"claimed", "streaming", "ended", "write", "callback"}

\* hb: the heartbeat loop sleeps, has found its generation current and is
\* about to extend the lease, has returned (or was cancelled), or has died of a
\* store error that _execute meets again when it awaits it.
Heartbeat == {"sleep", "beat", "off", "broken"}

Task == [pod : Pods, run : Runs, gen : Nat, hook : BOOLEAN,
         pc : TaskPc, hb : Heartbeat, outcome : Outcome]

Post == [run : Runs, gen : Nat, status : TERMINAL_STATUSES]

TypeOK ==
    /\ rec \in [Runs -> RunRecord]
    /\ finished \in SUBSET Runs
    /\ tasks \in SUBSET Task
    /\ sem \in [Pods -> Nat]
    /\ loop \in [Pods -> {"sweep", "acquire", "drain", "stopped", "dead"}]
    /\ stopping \in [Pods -> BOOLEAN]
    /\ posts \in SUBSET Post
    /\ submitted \in Nat
    /\ shutdowns \in Nat
    /\ stalls \in Nat
    /\ faults \in Nat

-----------------------------------------------------------------------------
\* Helpers

TasksOf(p) == {t \in tasks : t.pod = p}

Mishaps == shutdowns + stalls + faults

\* A coroutine of pod p is between two store calls it does not suspend between.
InSection(p) == \E t \in TasksOf(p) : t.pc = "write" \/ t.hb = "beat"

GenerationCurrentUnread(t) == rec[t.run].status # "absent"
GenerationCurrent(t) == rec[t.run].lease_generation = t.gen

\* Some process still keeps run r's current lease fresh, or is about to settle r.
HolderAlive(r) ==
    \E t \in tasks : t.run = r /\ GenerationCurrent(t) /\ t.hb # "broken"

\* _sem.acquire() succeeds: a slot is taken before a run is claimed.
FreeSlotUnbounded(p) == TRUE
FreeSlot(p) == sem[p] > 0

\* The queued rows claim_next would select: the oldest one.
NewestQueued ==
    {r \in Runs :
        /\ rec[r].status = "queued"
        /\ \A q \in Runs :
              rec[q].status = "queued" => rec[r].created_at >= rec[q].created_at}
OldestQueued ==
    {r \in Runs :
        /\ rec[r].status = "queued"
        /\ \A q \in Runs :
              rec[q].status = "queued" => rec[r].created_at <= rec[q].created_at}

Advance(t, u) == tasks' = (tasks \ {t}) \cup {u}

\* The task ends: its coroutine returns and _run_and_release gives the slot back.
ReleaseWithoutSlot(t) ==
    /\ tasks' = tasks \ {t}
    /\ UNCHANGED sem
Release(t) ==
    /\ tasks' = tasks \ {t}
    /\ sem' = [sem EXCEPT ![t.pod] = @ + 1]

Init ==
    /\ rec = [r \in Runs |-> NoRecord]
    /\ finished = {}
    /\ tasks = {}
    /\ sem = [p \in Pods |-> MaxConcurrency]
    /\ loop = [p \in Pods |-> "sweep"]
    /\ stopping = [p \in Pods |-> FALSE]
    /\ posts = {}
    /\ submitted = 0
    /\ shutdowns = 0
    /\ stalls = 0
    /\ faults = 0

-----------------------------------------------------------------------------
\* Callers of the API

\* POST /run with background: true.
Submit(r, hook) ==
    /\ rec[r].status = "absent"
    /\ rec' = [rec EXCEPT ![r] = Created(submitted + 1, hook)]
    /\ submitted' = submitted + 1
    /\ UNCHANGED <<finished, podVars, posts, boundVars>>

\* POST /runs/{id}/cancel, whatever the run's status.
RequestCancel(r) ==
    /\ rec[r].status # "absent"
    /\ rec' = [rec EXCEPT ![r] = CancelRequested(@)]
    /\ UNCHANGED <<finished, podVars, posts, submitted, boundVars>>

-----------------------------------------------------------------------------
\* run_forever

\* Top of the loop: the reaper's interval has passed, or it has not.
Reap(p) ==
    /\ loop[p] = "sweep" /\ ~stopping[p] /\ ~InSection(p)
    /\ rec' = [r \in Runs |-> IF Reapable(rec[r]) THEN Reaped(rec[r]) ELSE rec[r]]
    /\ loop' = [loop EXCEPT ![p] = "acquire"]
    /\ UNCHANGED <<finished, tasks, sem, stopping, posts, submitted, boundVars>>

SkipReap(p) ==
    /\ loop[p] = "sweep" /\ ~stopping[p] /\ ~InSection(p)
    /\ loop' = [loop EXCEPT ![p] = "acquire"]
    /\ UNCHANGED <<storeVars, tasks, sem, stopping, posts, submitted, boundVars>>

\* A slot is taken before claiming; with none free the loop waits in acquire.
ClaimNext(p, r) ==
    /\ loop[p] = "acquire" /\ ~stopping[p] /\ ~InSection(p)
    /\ FreeSlot(p)
    /\ r \in OldestQueued
    /\ rec' = [rec EXCEPT ![r] = Claimed(@, p)]
    /\ tasks' = tasks \cup
         {[pod |-> p, run |-> r, gen |-> rec'[r].lease_generation,
           hook |-> rec'[r].webhook,
           pc |-> "claimed", hb |-> "sleep", outcome |-> "none"]}
    /\ sem' = [sem EXCEPT ![p] = @ - 1]
    /\ loop' = [loop EXCEPT ![p] = "sweep"]
    /\ UNCHANGED <<finished, stopping, posts, submitted, boundVars>>

\* The queue is empty: the slot goes back.
ClaimNothing(p) ==
    /\ loop[p] = "acquire" /\ ~stopping[p] /\ ~InSection(p)
    /\ FreeSlot(p)
    /\ OldestQueued = {}
    /\ loop' = [loop EXCEPT ![p] = "sweep"]
    /\ UNCHANGED <<storeVars, tasks, sem, stopping, posts, submitted, boundVars>>

\* claim_next raises: nothing in run_forever catches it, the loop is gone and the
\* slot it had taken with it; the tasks in flight go on.
ClaimFails(p) ==
    /\ loop[p] = "acquire" /\ ~stopping[p] /\ ~InSection(p)
    /\ FreeSlot(p)
    /\ Mishaps < MaxMishaps
    /\ faults' = faults + 1
    /\ loop' = [loop EXCEPT ![p] = "dead"]
    /\ sem' = [sem EXCEPT ![p] = @ - 1]
    /\ UNCHANGED <<storeVars, tasks, stopping, posts, submitted, shutdowns, stalls>>

\* stop(), seen at the top of the loop or once the awaited slot is there.
Stop(p) ==
    /\ loop[p] \in {"sweep", "acquire"} /\ ~stopping[p] /\ ~InSection(p)
    /\ Mishaps < MaxMishaps
    /\ shutdowns' = shutdowns + 1
    /\ stopping' = [stopping EXCEPT ![p] = TRUE]
    /\ UNCHANGED <<storeVars, tasks, sem, loop, posts, submitted, stalls, faults>>

LeaveLoop(p) ==
    /\ stopping[p] /\ ~InSection(p)
    /\ \/ loop[p] = "sweep"
       \/ loop[p] = "acquire" /\ FreeSlot(p)
    /\ loop' = [loop EXCEPT ![p] = "drain"]
    /\ UNCHANGED <<storeVars, tasks, sem, stopping, posts, submitted, boundVars>>

DrainedAtOnce(p) ==
    /\ loop[p] = "drain"
    /\ loop' = [loop EXCEPT ![p] = "stopped"]
    /\ UNCHANGED <<storeVars, tasks, sem, stopping, posts, submitted, boundVars>>
Drained(p) ==
    /\ loop[p] = "drain"
    /\ TasksOf(p) = {}
    /\ loop' = [loop EXCEPT ![p] = "stopped"]
    /\ UNCHANGED <<storeVars, tasks, sem, stopping, posts, submitted, boundVars>>

\* The deployment starts the process again.
Restart(p) ==
    /\ loop[p] = "stopped"
    /\ loop' = [loop EXCEPT ![p] = "sweep"]
    /\ stopping' = [stopping EXCEPT ![p] = FALSE]
    /\ UNCHANGED <<storeVars, tasks, sem, posts, submitted, boundVars>>

-----------------------------------------------------------------------------
\* _execute, its outcome and its callback

\* The stream is over: the heartbeat is cancelled and awaited.  A heartbeat that
\* died of a store error raises here, and the outcome is lost with the task.
EndStream(t, outcome) ==
    IF t.hb = "broken"
    THEN Release(t)
    ELSE /\ Advance(t, [t EXCEPT !.pc = "ended", !.hb = "off", !.outcome = outcome])
         /\ UNCHANGED sem

\* run_stream begins: a finished checkpoint is replayed with no control check,
\* otherwise the first check comes before the first model call.
StartStream(t) ==
    /\ t.pc = "claimed" /\ ~InSection(t.pod)
    /\ CASE t.run \in finished -> EndStream(t, "completed")
         [] t.run \notin finished /\ rec[t.run].cancel_requested ->
                EndStream(t, "cancelled")
         [] OTHER -> Advance(t, [t EXCEPT !.pc = "streaming"]) /\ UNCHANGED sem
    /\ UNCHANGED <<storeVars, loop, stopping, posts, submitted, boundVars>>

\* A later control check reads the durable flag.
SeeCancel(t) ==
    /\ t.pc = "streaming" /\ ~InSection(t.pod)
    /\ rec[t.run].cancel_requested
    /\ EndStream(t, "cancelled")
    /\ UNCHANGED <<storeVars, loop, stopping, posts, submitted, boundVars>>

\* The stream ends with a result (its checkpoint marked first), with an error
\* or no terminal event, or parked for an approval.
StreamEnds(t, outcome) ==
    /\ t.pc = "streaming" /\ ~InSection(t.pod)
    /\ outcome \in {"completed", "failed", "paused"}
    /\ EndStream(t, outcome)
    /\ finished' = IF Checkpointing /\ outcome = "completed"
                   THEN finished \cup {t.run} ELSE finished
    /\ UNCHANGED <<rec, loop, stopping, posts, submitted, boundVars>>

\* _generation_current, before parking or finalizing.  A stale task goes away.
CheckGeneration(t) ==
    /\ t.pc = "ended" /\ ~InSection(t.pod)
    /\ \/ /\ GenerationCurrent(t)
          /\ Advance(t, [t EXCEPT !.pc = "write"])
          /\ UNCHANGED sem
       \/ /\ ~GenerationCurrent(t)
          /\ Release(t)
    /\ UNCHANGED <<storeVars, loop, stopping, posts, submitted, boundVars>>

\* The unguarded update that parks or finalizes the run.
WriteOutcome(t) ==
    /\ t.pc = "write"
    /\ rec' = [rec EXCEPT ![t.run] = Settled(@, t.outcome)]
    /\ IF t.outcome # "paused" /\ (t.hook \/ DefaultWebhook)
       THEN Advance(t, [t EXCEPT !.pc = "callback"]) /\ UNCHANGED sem
       ELSE Release(t)
    /\ UNCHANGED <<finished, loop, stopping, posts, submitted, boundVars>>

\* The get or the update before the outcome is recorded raises.
OutcomeFails(t) ==
    /\ \/ t.pc = "ended" /\ ~InSection(t.pod)
       \/ t.pc = "write"
    /\ Mishaps < MaxMishaps
    /\ faults' = faults + 1
    /\ Release(t)
    /\ UNCHANGED <<storeVars, loop, stopping, posts, submitted, shutdowns, stalls>>

\* _maybe_webhook; a failing POST is swallowed.
PostWebhook(t) ==
    /\ t.pc = "callback" /\ ~InSection(t.pod)
    /\ posts' = posts \cup {[run |-> t.run, gen |-> t.gen, status |-> t.outcome]}
    /\ Release(t)
    /\ UNCHANGED <<storeVars, loop, stopping, submitted, boundVars>>

-----------------------------------------------------------------------------
\* _heartbeat_loop

HeartbeatCheck(t) ==
    /\ t.hb = "sleep" /\ ~InSection(t.pod)
    /\ Advance(t, [t EXCEPT !.hb = IF GenerationCurrent(t) THEN "beat" ELSE "off"])
    /\ UNCHANGED <<storeVars, sem, loop, stopping, posts, submitted, boundVars>>

Beat(t) ==
    /\ t.hb = "beat"
    /\ rec' = [rec EXCEPT ![t.run] = Heartbeaten(@, t.pod)]
    /\ Advance(t, [t EXCEPT !.hb = "sleep"])
    /\ UNCHANGED <<finished, sem, loop, stopping, posts, submitted, boundVars>>

\* The get or the heartbeat call raises: the heartbeat task ends, the run goes on.
HeartbeatFails(t) ==
    /\ \/ t.hb = "sleep" /\ ~InSection(t.pod)
       \/ t.hb = "beat"
    /\ Mishaps < MaxMishaps
    /\ faults' = faults + 1
    /\ Advance(t, [t EXCEPT !.hb = "broken"])
    /\ UNCHANGED <<storeVars, sem, loop, stopping, posts, submitted, shutdowns, stalls>>

-----------------------------------------------------------------------------
\* The environment: crashes and the clock

\* The process dies, at any point, and comes back with fresh memory.
Crash(p) ==
    /\ Mishaps < MaxMishaps
    /\ shutdowns' = shutdowns + 1
    /\ tasks' = tasks \ TasksOf(p)
    /\ sem' = [sem EXCEPT ![p] = MaxConcurrency]
    /\ loop' = [loop EXCEPT ![p] = "sweep"]
    /\ stopping' = [stopping EXCEPT ![p] = FALSE]
    /\ UNCHANGED <<storeVars, posts, submitted, stalls, faults>>

LeaseRunsOut(r) ==
    /\ rec[r].lease = "ahead"
    /\ ~HolderAlive(r)
    /\ rec' = [rec EXCEPT ![r].lease = "past"]
    /\ UNCHANGED <<finished, podVars, posts, submitted, boundVars>>

HolderStalls(r) ==
    /\ rec[r].lease = "ahead"
    /\ HolderAlive(r)
    /\ Mishaps < MaxMishaps
    /\ stalls' = stalls + 1
    /\ rec' = [rec EXCEPT ![r].lease = "past"]
    /\ UNCHANGED <<finished, podVars, posts, submitted, shutdowns, faults>>

-----------------------------------------------------------------------------

Api == \E r \in Runs : RequestCancel(r) \/ \E hook \in Hooks : Submit(r, hook)

Loop(p) ==
    \/ Reap(p) \/ SkipReap(p)
    \/ \E r \in Runs : ClaimNext(p, r)
    \/ ClaimNothing(p) \/ LeaveLoop(p) \/ Drained(p) \/ Restart(p)

Execute(t) ==
    \/ StartStream(t) \/ SeeCancel(t)
    \/ \E outcome \in Outcome : StreamEnds(t, outcome)
    \/ CheckGeneration(t) \/ WriteOutcome(t) \/ PostWebhook(t)

HeartbeatLoop(t) == HeartbeatCheck(t) \/ Beat(t)

StoreFaults ==
    \/ \E p \in Pods : ClaimFails(p)
    \/ \E t \in tasks : OutcomeFails(t) \/ HeartbeatFails(t)

Environment ==
    \/ \E p \in Pods : Crash(p) \/ Stop(p)
    \/ \E r \in Runs : LeaseRunsOut(r) \/ HolderStalls(r)

Next ==
    \/ Api
    \/ \E p \in Pods : Loop(p)
    \/ \E t \in tasks : Execute(t) \/ HeartbeatLoop(t)
    \/ StoreFaults
    \/ Environment

Spec == Init /\ [][Next]_vars

\* A live event loop keeps turning and its ready coroutines run; the reaper's
\* interval passes again and again; an agent run ends; the clock advances.
\* Nothing makes a caller submit or cancel, a process stop, stall or die, or a
\* store call raise.
TaskStep(p, r) == \E t \in TasksOf(p) : t.run = r /\ Execute(t)
HeartStep(p) == \E t \in TasksOf(p) : Beat(t)

Fairness ==
    /\ \A p \in Pods : SF_vars(Loop(p)) /\ SF_vars(Reap(p)) /\ WF_vars(HeartStep(p))
    /\ \A p \in Pods, r \in Runs : SF_vars(TaskStep(p, r))
    /\ \A r \in Runs : WF_vars(LeaseRunsOut(r))

FairSpec == Spec /\ Fairness

-----------------------------------------------------------------------------
\* Safety, for any number of pods

\* No two live tasks were ever given the same claim of a run: the generation
\* claim_next hands out is new each time (base.py, lease_generation).
FencesAreUnique ==
    \A t, u \in tasks : t.run = u.run /\ t.gen = u.gen => t = u

\* A fence is never ahead of the record it fences: a record's generation only
\* grows, so what was once stale stays stale, and a run with no row has no task.
FencesAreNotAhead ==
    /\ \A t \in tasks : t.gen \in 1 .. rec[t.run].lease_generation
    /\ \A r \in Runs : rec[r].status = "absent" => rec[r] = NoRecord

\* A running row always has a lease deadline, the one thing the reaper can find
\* it by: no order of claims, beats, parks and reaps leaves a run unreapable.
RunningIsReapable ==
    \A r \in Runs : rec[r].status = "running" => rec[r].lease # "none"

\* Every permit is free, held by a live task, or went down with a dead loop:
\* no path through _execute, an early return or an exception, loses or
\* duplicates a slot (_run_and_release).
SlotsAccounted ==
    \A p \in Pods :
        sem[p] + Cardinality(TasksOf(p)) + (IF loop[p] = "dead" THEN 1 ELSE 0)
            = MaxConcurrency

-----------------------------------------------------------------------------
\* Safety with one worker process over the store

\* The task holding the current fence of a run, up to its outcome, finds the
\* run running: what _generation_current establishes still holds at the update.
HolderRuns ==
    \A t \in tasks : GenerationCurrent(t) /\ t.pc # "callback"
                          => rec[t.run].status = "running"

\* No other coroutine of the one process gets between reading the fence and the
\* update that relies on it.
WriterIsCurrent == \A t \in tasks : t.pc = "write" => GenerationCurrent(t)

\* An outcome is one the stream really had; a callback is due or was sent only
\* for the outcome on record, and by one task.
OutcomesAreEarned ==
    \A t \in tasks :
        /\ t.pc \in {"ended", "write"} => t.outcome \in Rested
        /\ t.pc \in {"ended", "write"} /\ t.outcome = "cancelled"
              => rec[t.run].cancel_requested
        /\ t.pc = "callback" =>
              /\ t.outcome \in TERMINAL_STATUSES
              /\ rec[t.run].status = t.outcome
              /\ \A c \in posts : c.run # t.run
              /\ \A u \in tasks : u.pc = "callback" /\ u.run = t.run => u = t

\* A terminal status is final: no late worker, reap, claim or cancel moves a
\* run out of it (base.py, TERMINAL_STATUSES).
TerminalIsFinal ==
    [][\A r \in Runs : rec[r].status \in TERMINAL_STATUSES
                           => rec'[r].status = rec[r].status]_vars

\* A callback is sent at most once for a run and says what the run ended as,
\* however often it was claimed, reaped and claimed again.
CallbackIsTruthful ==
    \A c \in posts :
        /\ rec[c.run].status = c.status
        /\ \A d \in posts : d.run = c.run => d = c

\* With one worker process the fence works: the holder of the current fence finds
\* its run running until it writes the outcome, an outcome on record was earned by
\* the stream that wrote it, and each is called back at most once and truthfully
\* (_generation_current, _finalize).  The conjuncts need each other.
SoleWorkerInv ==
    /\ FencesAreUnique /\ FencesAreNotAhead
    /\ HolderRuns /\ WriterIsCurrent
    /\ OutcomesAreEarned /\ CallbackIsTruthful

\* A process that left run_forever after draining leaves no running row behind
\* whose lease it holds (run_forever, "so a clean stop does not abandon active
\* leases"); stated for processes that neither crashed nor met a store error.
CleanStop ==
    [][\A p \in Pods :
         loop[p] # "stopped" /\ loop'[p] = "stopped" /\ faults = 0 /\ shutdowns = 1
            => \A r \in Runs : rec[r].status = "running" => rec[r].owner_pod # p]_vars

\* One process over a store keeps the promise of RunLifecycle: the refinement
\* forgets leases, fences, slots and tasks.
StatusOf == [r \in Runs |-> rec[r].status]
AskedOf == [r \in Runs |-> rec[r].cancel_requested]
OrderOf == [r \in Runs |-> rec[r].created_at]
ToldOf ==
    [r \in Runs |-> IF \E c \in posts : c.run = r
                    THEN (CHOOSE c \in posts : c.run = r).status
                    ELSE "absent"]

Lifecycle == INSTANCE RunLifecycle
                WITH status <- StatusOf, asked <- AskedOf, order <- OrderOf, told <- ToldOf

KeepsLifecycle == Lifecycle!Spec

-----------------------------------------------------------------------------
\* Liveness

\* A run that is queued or running, in whatever hands, is eventually settled:
\* crashes, rolling restarts, stalls and store errors delay it and do not lose
\* it, as long as one claim loop of the fleet is left.
RunsSettle ==
    \A r \in Runs :
        rec[r].status \in {"queued", "running"}
            ~> rec[r].status \in Rested \/ \A p \in Pods : loop[p] = "dead"

=============================================================================
