# Verification of YAAB in TLA+

YAAB is a Python framework for building agents: an agent calls a model in a
loop, runs the tools it asks for, is composed with others into workflows, is held
to budgets and approvals, and can be served as durable background runs that
survive a crash, wait for a human, and resume on any replica. This directory
models the parts of it that are hard to test, checks the models with TLC on small
instances, and proves the most important results with TLAPS for every value of
the constants.

All paths below are relative to `src/`.

## 1. The system

### Components, state and interactions

| Component | Source | State it keeps | Operations | Here |
|---|---|---|---|---|
| Run store | `yaab/runs/{base,memory,sqlite}.py` | one row per run: status, owner, lease deadline, lease generation (the fence), cancel flag | create, update (optionally `expect_status`), request_cancel, claim_next, heartbeat, reap_expired_leases | `RunStore` |
| Durable worker | `yaab/runs/worker.py` | a semaphore, the loop's position, one task and one heartbeat per run in flight | run_forever, _execute, _finalize, _heartbeat_loop, stop, reap, reconcile_paused, cron_tick | `RunWorker`; reconcile_paused in `ApprovalResume`; not cron_tick |
| Approvals | `yaab/governance/approval.py`, `approvals.py`, resume in `yaab/serve.py`, `yaab/runner.py` | one request per guarded call with its verdict; the run's pending checkpoint | pause, create, decide, approve, deny, resume, reconcile | `ApprovalResume` |
| Agent run loop | `yaab/runner.py` | step, messages, usage; one checkpoint per completed step | run_stream: resume, model turn, tool round, pause, finish | as a durable run sees it, in `ApprovalResume`; as models, budgets and the audit trail see it, in `GovernedRuns`; as a step of a workflow, in `Workflow` |
| Graph engine | `yaab/graph/state.py` | frontier, channels, the node that runs, its attempts and resume value | ainvoke, interrupt, resume, retry | `GraphRun`, `Supersteps` |
| Checkpoint savers | `yaab/graph/checkpoint.py` | rows of a thread by step | put, get | `GraphRun.Put`, `ApprovalResume.ckpt` |
| HTTP surface | `yaab/serve.py` | none of its own beside the stores | submit, cancel, approve, deny, resume, lifespan | actions of `RunWorker` and `ApprovalResume` |
| Run store on Redis | `yaab/runs/redis.py` | the same row as one key, two lists of ids (queued, processing) and a lease key with a TTL | the same calls, each a sequence of Redis commands | `RedisRunStore` |
| Run store on Postgres | `yaab/runs/postgres.py` | the same row | the same calls, one transaction each | follows `RunStore` |
| Workflow agents | `yaab/multiagent.py`, `yaab/flow.py` | per run: which step is at work, its result, its usage, the shared state | sequential, parallel, map, loop, router, swarm, flow; guards, fallbacks, captures | `Workflow` |
| Model resilience | `yaab/models/resilient.py`, `distributed_ratelimit.py` | breaker state and failure count, tokens | admit, acquire, record | `GovernedRuns`; not the shared Redis bucket |
| Governance | `yaab/governance/{lifecycle,registry,budget,audit}.py` | an agent's lifecycle state and approval status, spend per key, audit records | transition, register, check_registered, before_run, after_model, record | `GovernedRuns`; not the hash chain and the evidence rules |
| Cron schedules | `yaab/runs/cron.py` | per schedule, its last run | due, create run, mark_run | not modelled |
| Sessions, shared state | `yaab/sessions/`, `yaab/state.py` | one document per session | append, save, scoped keys | only what `writes=` captures, in `Workflow` |
| Everything else | tools, retrieval, voice, console, command line, streaming formats, compliance text | - | - | not modelled (section 8) |

How they interact. `POST /run` writes a QUEUED row. Any process's worker loop
claims it and opens the agent's stream in a task of its own, with a heartbeat
beside it. Cancellation is a flag on the row that the stream polls between
steps. When the stream parks for a human, the approval plugin has filed
requests, the loop has written a checkpoint that holds the calls, and the worker
sets the row PAUSED and lets it go. A decision, a manual resume or another
worker's reconciler flips the row back to RUNNING with a compare-and-set and
opens the stream again **outside** the worker, without a lease. All of this
happens on any replica: the store is the only thing the processes share.

A workflow is an agent too: the runner drives it, it drives its steps' runners on
the same event loop, and all of them share one state object. Every agent run,
alone or in a workflow, passes the registry's gate and the budget plugin before
it starts, the breaker and the limiter before each model call, the ledger after
each answer, and leaves records in the audit log. Breaker and limiter are shared by
the runs of one process; registry, ledger and log by all of them.

### Where it is hard

* A store call is atomic; a handler is several of them. Between two of them any
  other process may move the row. Most guards of this code (the lease
  generation before the outcome is written, before a heartbeat, the
  `expect_status` of a resume) exist because of that.
* A process can die between any two calls, and another picks up what it left.
* A process can stall past its lease and go on afterwards, as a zombie.
* Decisions, resumes and reconcilers race for the same pause.
* A graph's superstep can be left at any node by a pause, an error or a crash,
  and must not show that on resume.
* On Redis a store call is not atomic either: between two of its commands another
  process may move the row, the id or the lease.
* `asyncio.gather` raises with its first failing branch and lets the others run on,
  into the fallback and the steps after it.
* Calls to a model are in flight while the breaker opens and closes, runs while
  the budget they were admitted under is used up and their agent is suspended.

The full list, at the lines where it bites, is `hazards` in `PROJECT.json`.

### What makes each component correct

* Run store and fleet: no two claims share a fence; a running row can be found
  by the reaper; no slot is lost; every run settles while a claim loop is left.
  One process alone: outcomes are final, earned, and told once.
* Approvals: one driver per run; a held call runs at most once and never without
  an approval; a paused run can be decided; a decision is permanent and takes
  effect even if the process that recorded it died.
* Graph: saved states move by whole supersteps, whatever interrupts them; a
  resume value answers one question.
* Redis: no run is in no list, or in two, and no row goes back, as long as no call
  was torn.
* Workflows: nothing runs outside the step that started it, usage is counted
  once, captures keep the order of the pipeline, everything started ends.
* Governed runs: an agent taken out of use starts no run until it is approved
  again, overspending is bounded, the breaker agrees with what came back, no permit
  is handed out twice, the audit trail tells how each invocation of a run went.

## 2. Modules

Order of writing was order of importance: fleet, approvals, graph; then workflows,
the Redis store, governed runs.

| Module | What it is |
|---|---|
| `RunStore` | One operator per store call: a row in, the row left behind out. `Decoded` is the round trip through a durable backend, which drops fields of `RunRecord` subclasses (the per-run webhook). No variables. |
| `RunWorker` | Extends `RunStore`. A fleet of processes over one runs table: claim loop, tasks, heartbeats, API calls, crashes, stops, stalls, raising store calls. |
| `RunLifecycle` | What the run API promises, whoever executes: the abstract specification `RunWorker` implements with one process. |
| `ApprovalResume` | One run with guarded calls over its three stores, driven by workers, reviewers, owners and reconcilers, any of which can die. |
| `Supersteps` | What a graph promises: each superstep runs every node of the frontier once. |
| `GraphRun` | `ainvoke` on one thread, node by node, with retries, pauses, resumes and crashes. Implements `Supersteps`. |
| `Workflow` | One run of a tree of patterns on one event loop: who is at work, what each returns or raises, its usage and what it captures. |
| `RedisRunStore` | The run store's calls on Redis, one action per command, by several processes that can die between any two. |
| `GovernedRuns` | Runs of one governed agent in one process: gate, lifecycle, budget, breaker, limiter, audit trail. |
| `Lists` | Lists of ids as the Redis store and the graph engine keep them: removing, keeping, standing at one place. |
| `MCRunWorker`, `MCApprovalResume`, `MCGraphRun`, `MCWorkflow`, `MCRedisRunStore`, `MCGovernedRuns` | Instances for TLC: symmetry, the example graphs and trees. |
| `RunWorkerProofs`, `SoleWorkerProofs`, `ApprovalProofs`, `GraphRunProofs`, `WorkflowProofs`, `RedisProofs`, `GovernedProofs` | The theorems, `ListProofs` the lemmas about lists they share. |

How they compose. `RunWorker` extends `RunStore` and implements `RunLifecycle`;
`GraphRun` implements `Supersteps`; `Workflow`'s flows leave to `GraphRun` what the
graph engine under them does. `RedisRunStore` is the protocol of `RunStore` and
`RunWorker` over a store whose calls can be cut, and keeps only what of the worker
moves a row.

Next to some definitions stands a variant that one slip in the code would give
(`ReapedWithoutFence` beside `Reaped`, `LenientDecisions` beside
`ExecutingDecisions`). No specification uses them. Each checked property is
violated when one of them replaces its neighbour (`mutants` in `PROJECT.json`),
which is the evidence that the property watches that code.

### RunWorker and the code

* `rec[r]` is the row, "absent" before `create`. `lease` is what the code can
  tell of `lease_expires_at`: none, ahead, past. `lease_generation` is the fence.
* `tasks` are live `_execute` coroutines with the fence they were claimed under.
  `pc` is where the coroutine is between two store calls: claimed, streaming,
  ended, fence read and write due, callback due. `hb` is its heartbeat
  coroutine.
* `loop[p]` is the position of `run_forever`: sweep (top of the loop), acquire
  (awaiting a slot and claiming), drain, stopped, or dead. It is dead when
  `claim_next` raised at `worker.py:171`, which nothing catches, and takes the slot
  it had acquired with it.
* `InSection(p)`: the store methods of the memory and SQLite backends return
  without suspending, so a coroutine that has read the fence writes before
  another coroutine of **its own** process runs. Other processes are not held.
  `write` and `beat` are the states in between.
* `finished` is the terminal marker of the run checkpointer: a run claimed again
  after its stream finished replays its result instead of calling the model.
* A crash at any point empties the process's tasks; a stall is a live holder's
  lease running out. Store calls raise at each place where the code handles, or
  fails to handle, it.

### ApprovalResume and the code

* `status`, `leased`: the row. `ckpt`: the run checkpointer's last marker.
  `verdict`, `filed`: the approval store and the order of creation, which is the
  order the reconciler looks in. `act[a]`: what each actor's coroutine holds in
  local variables between two store calls.
* The driver of the stream steps through `Load` (rehydrate), `Resolve`
  (`_resume_pending`, one held call per step), `ToolRound`, `Ask`, `File`,
  `Park`, `Answer`, `Fail`, whoever opened it. A worker ends with `Settle`, every
  other driver with `SettleResumed`, as `_resume_run` does: COMPLETED unless it
  raised, **even when the resumed stream parked again**.
* A call is identified by its tool and arguments, so the same call asked for
  twice finds its old request: `Filed` keeps the verdict it has.
* `asked` and `ran` are history: whether anybody's request has said "approved",
  and how often each held call of each step was executed.

### GraphRun and the code

* `saved` is what the saver's `get` returns. `Put` covers both kinds of saver:
  `MemorySaver` returns the last row put, the table savers the highest step
  (`HighestStep`).
* `run` is the `ainvoke` under way, one node at a time: the engine runs the nodes of
  a superstep one after the other. Each node adds one to a channel of its own
  under the accumulating reducer, so the state shows how often it was applied.
* `Parked` is `ainvoke`'s handling of an interrupt at lines 354-366, with the
  successors of nodes that already ran appended to the rest of the superstep.
* One caller per thread; a node asks at most once. Both are assumptions of the
  module: the engine has no guard against two invocations of one thread.

### Workflow and the code

* A node of the tree is one activation of a step. A loop's iterations, a map's
  inputs and a swarm's turns are bounded by the code (`max_iterations`, the list
  of inputs, `max_handoffs`), so each is a node of its own, and a loop or a swarm
  is a `serial` node that may end early (`Stops`).
* `st[n]` is where `_run_guarded` is with a step: idle (not reached), ready
  (scheduled), running, falling (its `else_` runs in its place), or how it ended.
  "failed" is what `else_` catches, a `YaabError`, a timeout or a cancelled run;
  "broken" is any other exception, which goes through.
* `Inside` is the set of a fan's branches past `async with sem`. `FanRaises` is
  `gather`: the fan ends, its branches do not.
* Guards, stop conditions and what an agent run does are free choices. What a
  guard reads is data, so every outcome of it is possible.
* `holder[k]` is the step whose output the state holds under `k`: enough to say
  who overwrote whom.
* A pause of an agent is a result with status "ok" and no usage, as `Runner.run`
  builds it; only a flow looks at `paused`.

### RedisRunStore and the code

* `row`, `queue`, `processing`, `leases` are the keys. `call[p]` is the store call
  process `p` is in: the command it is at, the row it looked at when it began
  (`seen`) and the copy it last read (`copy`). The client is synchronous, so a
  process is in one call at a time; the others are not held.
* `ClaimPop` is the Lua script, which moves the id and returns the record;
  `ClaimWrite` is the pipeline after it. Between the two the record still says
  QUEUED while the id is in no queue: a reaper that passes there takes the id
  off the processing list (`ReapDrop`), although the comments at
  `redis.py:153-158` and `197-199` say that no reaper can observe it.
* `torn` is history: the runs a call was cut short on by a crash, or whose row or
  entry moved between a call's look and the write that relies on it. The code
  guards none of these windows: whole-record writes of `request_cancel`,
  `heartbeat` and `update`, two reapers on one run, `DEL` of a new claimant's
  lease key, a crash in the middle of create, claim or reap. What the properties
  say is that **nothing else** goes wrong. They are about the runs that are not
  torn, and `Next` stops once more than `MaxTorn` runs are.
* `Beat`, `FinishCheck` and what follows are the worker's two fenced paths: the
  generation is read by one call and relied on by the next.
* Pauses and resumes are left to `ApprovalResume`. (`update(status=QUEUED)`, which
  `serve.py:949` calls without a checkpointer, writes the row and pushes nothing:
  on Redis no worker finds that run.)

### GovernedRuns and the code

* `card` is the registry's entry of the agent: lifecycle state and approval
  status. `Transition` is `lifecycle.transition` with what it writes to the
  card; which evidence a state wants is the caller's affair and left open.
  `Register` is `AgentRegistry.register`, an upsert of any card of `Cards`: the
  gate reads the approval status and nothing else, so an agent registered as
  approved runs whatever its lifecycle state, as
  `tests/test_registry_remote.py:98-104` has it with a DRAFT one. An agent that is
  not registered stands to the gate as one that is pending.
* `withdrawn` is history: the lifecycle has suspended, rejected or decommissioned
  the agent, and neither a transition nor a registration has approved it since.
  `WithdrawnStaysOut` is about the start of an invocation, a resume included; one that
  is under way is not stopped by a suspension, in the code or in the model.
* A run is invoked up to `Invocations[r]` times: first as "new", again after it was
  paused, failed or was cut off. (One that ended is replayed from its checkpoint
  before the gate, `runner.py:323-326`.) An invocation is "started" by the gate and its
  `run_start`, "admitted" by the budget, then "waiting" (for a permit), "calling",
  on "tools" and around again, or "closing". It ends "paused", "ended", "failed" or
  "gone". Between two of these places the code may wait; within one it does not.
* `saved` is what the run's checkpoint has left of its model calls, which is where a
  further invocation goes on. In mode "step" it follows each tool round, in mode
  "final" only pauses.
* `trail[r]` holds the records of each invocation: `registry` of a refusal, `run_start`,
  `run_end`, `error`. Any step can raise, in any mode, and `Close` has the three ends
  there are: an error before `run_end`; an error **after** it, since the last checkpoint
  and the RUN_END event come after the record and inside the same `try`
  (`runner.py:776-803`); and the end of the run. A pause records nothing, and its resume
  a further `run_start`. `TrailIsComplete` says what can be told from the records
  nevertheless: an error is the last record of an invocation that failed and of no other,
  and nothing follows the `run_end` of a run that ended.
* The breaker is checked **before** the limiter's wait: a call may go out after it
  has opened. `Permit` therefore has no look at it, and `BreakerHonest` is about
  answers that come back in any order and any breaker state.
* The budget is read once, before the run, and charged after each answer.
* `Crash` starts the process again with a fresh breaker and limiter, perhaps after
  it has charged some of a call's keys, or between `run_end` and the last checkpoint. A
  run whose caller is gone closes no record: `CancelledError` is not an `Exception`.
* Three modes: off (no gate, no records but errors), observe, enforcing.

## 3. Runs

| Run | Instance | Distinct states | Question |
|---|---|---|---|
| `fleet` | 2 processes, 1 run, 1 slot each, durable rows, checkpointing, 2 mishaps of any kind | 124,962 | Do fences, leases and slots survive any two faults, and does the run settle? |
| `single` | 1 process, 2 runs, 2 slots, 2 mishaps | 633,169 | Does one process keep the promise of `RunLifecycle`, and does a clean stop abandon nothing? |
| `overwrite` | 2 processes, 1 run, 1 mishap | violation | Is the fence enough to protect a terminal outcome? |
| `approvals` | 2 calls (alone or together), 2 steps, 1 worker, 2 reviewers, 1 owner, 1 reconciler, 1 crash | 1,552,334 | One driver, one execution, no execution without approval, pauses decidable, no run left hanging but by a death, decisions permanent and effective |
| `verdict` | 1 call, 1 worker, 2 reviewers, no crash | violation | Does only what is on record as approved run? |
| `graph` | 5 nodes: fan-out, join, router with a cycle, one retried node, two asking nodes; 5 resumes, 2 crashes | 14,859 | Do crashes, errors, retries and pauses show in what is saved? |
| `graph_join` | fan-out of two, the second asks, a join | violation | Is a node that already ran, or its successor, run again on resume? |
| `graph_thread` | one thread invoked afresh twice over a table saver | violation | Does a resume go on where the last pause was? |
| `workflow` | a tree of 18 nodes: pipelines, a parallel step, a map of two inputs one at a time, a router with and one without a match, a fallback, a flow, a key conflict, four guards | 143,819 | Does anything run outside its step, is usage lost or doubled, are captures overwritten out of order, does all of it end? |
| `placeholder` | a pipeline of two agents | violation | Does a pipeline read the placeholder output of a step that paused? |
| `redis` | 2 processes, 2 runs, 2 crashes, 1 lapsed lease, no torn run | 1,229,978 | Is a run ever in no list, in two lists, or taken back, while no call was torn? |
| `governed` | 2 runs, one invoked twice, one tenant's key with a limit of one answer, 2 calls each, breaker threshold 2, one permit, enforcing, an agent registered as pending or as approved | 798,399 | Gate, budget, breaker, limiter and audit trail with calls in flight, pauses, failures and resumes; does every invocation end? |

**Why the bounds are enough.** The faults that matter in the fleet need two
actors and one fault (a stale holder and its successor) or two faults (a stall
and then a crash of the successor); one slot per process makes a lost slot stop
the process. `single` needs a second run for order and for slots, not a second
process. In `approvals` two calls are needed for a turn that holds several and
for a request left over from an earlier pause; two steps give a second pause of
the same run; two reviewers, an owner and a reconciler give every pair of
racing resumers; one crash reaches every window between two writes. The graph's
cycle comes round within `MaxSupersteps = 4` and resumes cross that cap. The tree of
`workflow` holds every pattern and every nesting the properties tell apart: a fan
in a fan, a fallback in a pipeline, a fan in a fallback, a flow and a router in a
pipeline that may stop early, two writers of one key before and after a gather.
`redis` has the two processes a torn call needs and a second run that goes through
the same lists; with `MaxTorn = 0` every first tear is reached and nothing is followed past it: what a
torn run does to another in the same lists is outside the run. In `governed` two
runs overdraw one budget and wait for one permit, and the second invocation of one of
them meets a budget that was used up or a window that rolled on, a breaker that
opened, and an agent that was suspended, re-validated or registered anew; it follows
each end an invocation can have. Two failures open the breaker while a call is out.
`Slots` does not bind with two runs; the theorem `SpendSound` has it for any number.

**Deadlock** is checked in `fleet`, `single` and `overwrite`: a fleet always has
a step. `CHECK_DEADLOCK FALSE` stands where the system really stops: a run is over
and all requests are answered (`approvals`, `verdict`), the caller invokes
the thread no more (`graph*`), the workflow has ended (`workflow`, `placeholder`), all
runs have ended or one is torn (`redis`). In `governed` there is always a step, as the
agent can be registered again.

**Symmetry** is used only where no liveness property is checked (`redis`: processes
and runs).

### The violations

They are kept as documented disagreements between the code and its own text
(`findings` in `PROJECT.json`):

* `overwrite`: `_finalize` reads the fence in one call and updates without a
  condition in the next. In between, a reap, a re-claim and the newer worker's
  terminal write fit; the stale write then moves the run out of its terminal
  status. With one process it cannot happen (`InSection`), which is what
  `SoleWorkerFinality` proves.
* `verdict`: `_decide` resumes with the decision of its own request, not with
  the one the store kept, so after a deny and an approve the held call can run
  although the record says denied.
* `graph_join`: an interrupt parks the successors of nodes that already ran into
  the current superstep. A join then runs beside its predecessor and once more
  after it.
* `graph_thread`: `get` of the table savers returns the highest step, and a fresh
  invocation starts at step 0 over the old rows, so a pause at a lower step is
  not what its resume loads.

* `placeholder`: `SequentialAgent` and `LoopAgent` do not look at `paused`. A step that
  parks for a human returns status "ok" and no output, which the pipeline
  captures and pipes into the next step, although `types.py:317` says it should
  not be read.

`graph` therefore lets only the first node of a superstep ask and invokes its
thread afresh once: within these limits the refinement holds, and the two
violation runs show why the limits are there.

## 4. Liveness and fairness

* `RunsSettle` (`fleet`): a queued or running run eventually rests, or every
  claim loop of the fleet is dead. Fairness: each live loop turns, its reaper's
  interval passes again and again (strong, because the loop may skip the reap
  infinitely often), tasks and heartbeats of a live process run (strong where a
  section of another coroutine disables them again and again), an abandoned
  lease runs out. Nobody is obliged to submit, cancel, crash, stop, stall or
  raise. The escape "all loops dead" is the code's: `claim_next` is not guarded, and
  a process whose loop ended keeps serving requests and is not restarted.
* `DecisionTakesEffect` (`approvals`): a paused run with a decided call is picked up
  again even if the request that recorded the decision died before it resumed.
  Fairness: streams end, resumes go on, the reaper and the reconcilers pass
  again and again, as `run_forever` calls them on every interval. No human is
  obliged to decide.
* `RunSettles` (`workflow`): the root ends and from then on nothing it started runs,
  the branches a failed gather left behind included. Fairness: weak, per node;
  the event loop runs every ready task, and an agent run ends because its steps
  are limited and its calls time out.
* `RunsEnd` (`governed`): an invocation that was let in ends. Fairness: tokens accrue with the
  clock, and every run whose permit, answer or tool results are there is driven.
  Weak fairness per run is enough for the permit since the limiter's lock is
  first come first served and `MaxSteps` bounds what the others take. No caller
  is obliged to start a run, and nobody to move the lifecycle on.

## 5. What is proved

All theorems are of the form `Spec => ...` and hold for every value of the
constants that satisfies the named assumptions (`StoreAssumption`,
`WorkerAssumption`, `ApprovalAssumption`, `GraphAssumption`, `TreeAssumption`,
`FiniteTree`, `BoundsAssumption`, `NoRowAssumption`, `GovernedAssumption`). These say that numbers are
naturals, flags are Booleans, the kinds of actor are disjoint and a tree is a finite
tree whose nodes know their parents, no more. `FiniteTree` is the only one that bounds a set: the
activations of a workflow run are finitely many, as every loop, map and hand-off is
bounded in the code. Two results have a hypothesis of their own: the fleet's
sole-process results that `Pods` is a singleton, and the refinement of `Supersteps` that
the thread is invoked afresh at most once and only the first node of a superstep interrupts.

| Theorem | States |
|---|---|
| `RunWorkerProofs!TypeCorrect` | `TypeOK` |
| `RunWorkerProofs!FencingSound` | `FencesAreUnique`, `FencesAreNotAhead`, `RunningIsReapable`, any fleet |
| `RunWorkerProofs!FencesBehind`, `RunningReapable` | the last two of these by themselves |
| `RunWorkerProofs!SlotsSound` | `SlotsAccounted`, any fleet |
| `SoleWorkerProofs!SoleWorkerSafe` | `SoleWorkerInv`, one process |
| `SoleWorkerProofs!SoleWorkerTruthful` | `CallbackIsTruthful`, one process |
| `SoleWorkerProofs!SoleWorkerFinality` | `TerminalIsFinal`, one process |
| `SoleWorkerProofs!SoleWorkerImplements` | `KeepsLifecycle`, one process: the refinement of `RunLifecycle` |
| `SoleWorkerProofs!SoleWorkerStops` | `CleanStop`, one process |
| `ApprovalProofs!TypeCorrect` | `TypeOK` |
| `ApprovalProofs!DriverSound` | `SoleDriver` |
| `ApprovalProofs!HeldSound` | `HeldRunsOnce` |
| `ApprovalProofs!FailsClosedSound` | `FailsClosed` |
| `ApprovalProofs!PausedSound` | `PausedIsDecidable` |
| `ApprovalProofs!DrivenSound` | `RunningIsDriven` |
| `ApprovalProofs!PermanentSound` | `DecisionIsPermanent` |
| `GraphRunProofs!AnswersSound` | `AnswersAreNotReused` |
| `GraphRunProofs!TypeCorrect` | `TypeOK` |
| `GraphRunProofs!SuperstepsSound` | `ImplementsSupersteps`: the refinement of `Supersteps`, with the hypothesis above |
| `WorkflowProofs!TypeCorrect` | `TypeOK`: no fan exceeds its permits |
| `WorkflowProofs!ScopedSafe` | `ScopedRuns`, any tree |
| `WorkflowProofs!CapturesSafe` | `CapturesInOrder` |
| `WorkflowProofs!UsageSound` | `UsageIsWhole` |
| `RedisProofs!TypeCorrect` | `TypeOK` |
| `RedisProofs!ReachableSound` | `Reachable`, any number of processes and runs |
| `RedisProofs!ListedOnceSound` | `ListedOnce` |
| `RedisProofs!ForwardSound` | `MovesForward` |
| `GovernedProofs!TypeCorrect` | `TypeOK`: no permit that is not there, no call of an invocation beyond `max_steps` |
| `GovernedProofs!BreakerIsHonest` | `BreakerHonest` |
| `GovernedProofs!GateHolds` | `WithdrawnStaysOut`, any set of cards to register |
| `GovernedProofs!SpendSound` | `SpendBounded` |
| `GovernedProofs!TrailTells` | `TrailIsComplete`, any mode and number of invocations |

**Arguments.**

* *Fleet.* `FleetInv` is type correctness (with the outcome of an ended task
  known), unique fences, fences not ahead of their row, and running rows leased.
  A claim hands out the row's generation plus one, which by "not ahead" no
  live task holds; every other store call leaves the generation or raises it.
* *Slots.* `SlotInv` adds to `FleetInv` that a process has finitely many tasks, without
  which their number means nothing, and the count itself. A step of a task
  releases it with its slot or replaces it by a task with the same claim; claims
  are unique, so the replacement is none of the other tasks and the set keeps
  its size. A new claim has a fence nobody holds, so it adds one.
* *One process.* `SoleInv` adds `SoleWorkerInv`. None of its conjuncts is
  inductive alone: that the holder of the current fence finds its run running
  needs that no other task of the process is about to write; that needs that a
  task in `write` is current and that fences are unique; that outcomes are
  earned and callbacks truthful needs both. `InSection` carries the argument:
  between reading the fence and writing, no other coroutine of the process runs,
  and with one process nobody else does. The refinement adds `OrderInv` (no row was
  created after the last submission), so that a claim is of the oldest run.
* *A clean stop.* `StopInv` adds that every running row has a task that holds its fence and has yet
  to settle it (`AllHeld`), as long as nothing has gone wrong but stops and stalls
  (`Untroubled`: no store call raised, and of one shutdown with the stop event
  still set, the shutdown was the stop, since a crash clears it). A drained process
  has no task, so no row runs. One process is needed: of two, the one that stops
  can have been made owner of a row it does not run by its own heartbeat, checked
  before its lease ran out and written after the other's claim.
* *One driver.* `DriverInv`: while somebody drives, the row has a lease exactly
  if a worker drives, and workers never carry a decision or resume. A claim needs
  QUEUED, a resume PAUSED, a reap a lease with no worker driving; each excludes
  that anyone drives, because driving implies RUNNING.
* *Held calls.* `OnceInv` relates each stream to the checkpoint (`Tracks`) and
  says of every call that ran where the danger is past: the run is over, the
  checkpoint is beyond the call's step, or the call is `Spent`: the marker
  still holds it, but the row is running without a lease and the one stream
  that could run it is behind it. The last case is the window between executing a
  call and the next checkpoint. A resumed stream that dies in it
  leaves the row RUNNING with no lease, which nobody ever resumes: the code pays
  for "once" with a run that hangs.
* *Drivers.* `RunningIsDriven` is inductive over typed states: a record becomes
  RUNNING only with a lease or in the hands of the actor that set it, every
  driver but a dying one ends with a write of another status, and the reaper
  takes what is leased. A death is the one step that leaves RUNNING alone.
* *Pauses.* `PauseInv`: a pending marker holds filed calls, a stream ends
  "paused" only on a pending marker, and PAUSED implies one. The order of writes in
  `_queue_and_pause` and `_pause_for_approvals` is what makes it inductive.
* *Approvals.* `AskedInv`: an approval in an actor's hands or in the store was asked for by
  a request.
* *Graph.* `AnswersInv`: the answer a node's context holds has been supplied and
  not been used. Types need more than types: the node that runs is one of the
  superstep's, and a failure is on record only while a node is tried (`TInv`).
* *Supersteps.* `RInv` ties the invocation under way to the row it started from:
  it is at the row's step and frontier, has applied each node of the frontier
  that has run (`Done`) once more than the row says and no other, and what is
  queued is a choice of routes of exactly those nodes (`Queued`). The last node then
  completes a step of `Supersteps`; everything before it, a crash and an error too,
  stutters, and a pause saves the row it started from if no node has run. The
  two hypotheses are the complement of the findings `graph_join` (a node that is
  not the first asks) and `graph_thread` (a second fresh invocation over old rows):
  without either the theorem is false, and a run shows it.
* *Lists.* The code's loops over lists are recursive functions in `Lists`. `ListProofs`
  shows that the function exists, and with the least number for which a claim
  would fail what it computes: which elements are kept, that none is kept
  twice, where an element of a concatenation stands.
* *Workflows.* `Scoped` says of each node what its own fields allow (`FreshNode`: idle
  kids before it starts, one kid at a time under a pipeline, a fallback only once
  it falls) and who may be at work under it (`ScopedNode`). The argument is local: a
  step of `n` changes `n` and wakes idle kids of `n` (`Frame`), so that of the other
  nodes only the parent of `n`, and the kids that woke, have anything to show. It
  takes from `TreeAssumption` that no node is kid or fallback of two.
  A fan's permits (`PermitsKept`) follow since only `MayEnter` adds a branch.
* *Subtrees.* `FiniteTree` gives what `Below` is (`BelowDef`) and an induction from the
  leaves up (`TreeInduction`): the subtrees of two siblings are disjoint, a node is not
  below its kid, nothing under an idle node has started, and nothing under a node
  that is not at work is at work, unless a gather raised there (`QuietBelow`).
* *Captures.* `OrderInv` adds where a pipeline stands (`SeqAt`), which `FreshNode` says
  only of one that runs. A step that writes a key is at work. If it is under an earlier kid, the
  later ones are idle and have captured nothing; if it is under a later one, the
  key goes to a node outside the earlier kid's subtree. A gather that raised
  breaks the first half, and is the exception the property makes.
* *Usage.* `UsageInv` adds of each node (`UsageNode`): the running total of a
  pipeline is the number of agent runs done under the kids it has taken, a router
  has one kid that is not idle, a fallback starts only if a kid raised or none
  had started. Under a node that has returned, and under which nothing raised,
  nothing moves any more (`Frozen`), so what a finished kid reports stays true; siblings share no
  node, so the numbers add up (`DoneSum`, and `Reports` kind by kind).
* *Redis.* `IInv`, for the runs on which no call was torn: `Placed`, a run is in at most one list, where its status wants
  it or in the hands of the one process that moves it; `LooksBack`, what a
  process has read of its row lies behind the row in the order `Before`
  (generation, cancellation and end never go back), so a whole-record write
  that is not torn takes nothing back; `Tasked`, no execution is ahead of its row, and
  one with the row's generation finds it running; `OwnTask`, who writes an outcome
  has the execution it is of. A command changes one call, one row and one place in
  a list, so `Shown` says once what a step of a process has to show: its own call
  and the run it holds.
* *Governed runs.* `IInv`: types; `AgentAgrees`, which ties the status the gate reads to
  the agent's past (one that is withdrawn has not the status "approved": each
  transition that withdraws it writes another, and only an approval writes that one);
  `BreakerHonest` itself; the trail of each run at each place; and that a run that
  waits has a call left, without which `left` could fall below zero. The argument for
  the trail is that an invocation under way has recorded its `run_start` and nothing
  else (`BegunTells`), so that what each step adds makes one of the records an outcome
  has (`ClosedTells`), and that a further invocation begins only after an outcome that
  lets it.
* *Spend.* `SpendInv` adds that at most `Slots` runs are in flight and that the call
  a run waits for is taken off what it has left. `CallsAhead` is the set of calls that
  may still be charged to a key: a charge adds at most `MaxCost` and takes its call
  out of the set. Only a run that is admitted makes the set grow, at a moment when the key is below its
  limit and the set holds no more than `MaxSteps` calls for each run in flight, the new one
  included.

**Only model-checked.** Liveness (`RunsSettle`, `DecisionTakesEffect`, `RunSettles`,
`RunsEnd`): fairness is out of the prover's reach. Every other property a run
checks is stated by a theorem, with the hypotheses named above. The
prover has no induction that takes a formula as a parameter; what
recursive functions compute is shown with the least number, or the lowest node, at which
a claim would fail.

## 6. Abstractions and their limits

* A run in `ApprovalResume` has a checkpointer and a resume id. Without one, a resume
  sets the row back to QUEUED whatever it is (`serve.py:949`); not modelled.
* A worker in `ApprovalResume` does not lose its lease while it lives: leases and
  stalls are `RunWorker`'s subject. The two are not composed.
* Approval timeouts: `expires_at` is stored and no code applies it.
* `RunWorker` follows the memory and SQLite stores. Postgres differs only in how it
  takes the lock; Redis differs in atomicity, and what is proved of the fleet does
  not carry over to it. Of `RedisRunStore` torn runs are excluded from every property.
* `GovernedRuns` leaves out a death between the record of a refusal and its error, a
  sink that raises in the handler (which records no error then), the records of scans,
  policies and transitions, and the sub-agents of `transfer_to_agent`, which record an
  invocation of their own.
* `RunningIsDriven` lets a death excuse any hang. In the code a store call that
  raises at the end of a resume ends the resumer the same way.
* A `Workflow` is one run of one tree. A `Flow` object keeps the context, the events and
  the runner of a run in itself (`flow.py:442`), so two runs of one object at once
  share them; that is outside the model. So is the session a workflow writes its
  state back to.
* `GovernedRuns` is one process. Two processes share card, ledger and log, each
  with a breaker and a limiter of its own; the shared Redis bucket
  (`distributed_ratelimit.py`) is not modelled, nor are streams, which bypass both.
* Payloads (prompts, outputs, arguments) are left out, as no property is about
  them; usage is counted in agent runs, cost in units.

What the models of this directory say, read with the text of the repository, beside
the runs that expect a violation: a step that fails and falls back loses what it
had used (`multiagent.py:21` and `docs/multi-agent.md:6` speak of usage "across all
sub-agents"; `UsageIsWhole` is about results nothing raised under); a nested
pipeline whose last step is skipped is "skipped" itself, and a parallel step or a
map drops its output; a fallback's `writes=` and those of nested steps are not
looked at for conflicts, and a map over a step with `writes=` overwrites its own
captures; a cron tick on each of two processes fires a schedule twice, where
`worker.py:388` says "exactly one queued run".

## 7. What the plan has left

1. `CronTick`: due, create and mark_run over several processes and crashes: at least
   one run per window, and how many more.
2. The run loop in detail: usage limits, output retries, transfer to another
   agent, parallel tools, plugin hooks.
3. Sessions: append as read-modify-write over several processes, the write-back of
   a workflow's state; one Flow object run twice.
4. The audit chain over a durable sink with restarts; two processes that move one
   agent's lifecycle; the shared token bucket.
5. Pure algorithms of the core (`reduce_channel`, `plan_supersteps`, the hash
   chain) against reference definitions.
6. Further theorems: what holds of a graph when later nodes of a superstep ask; what
   many processes keep of the sole-process results; a clean stop among several. Further runs: resumed runs that die (RUNNING without
   a lease) or park again (COMPLETED with a pending checkpoint) against what the
   documentation says of them; what a torn run on Redis does to its neighbours.

## 8. Not modelled

Cron schedules, sessions, the trace store and the shared scopes of the state: they
have state worth modelling and are what section 7 lists. Of sessions and cron the
outcome is plain from the code (a lost update, a double run), and no lock or
condition is there to be checked.

Adapters and pure input and output (providers, tools, MCP, voice, console,
command line, deployment, streaming formats), stateless decisions
(authorization, policy, conditions), arithmetic over scores and embeddings
(evaluation, drift, memory, retrieval), generated text (compliance). `components` in
`PROJECT.json` gives the reason for each.
