------------------------------ MODULE GraphRun ------------------------------
(***************************************************************************)
(* CompiledGraph.ainvoke on one thread: supersteps of nodes, a checkpoint  *)
(* at every barrier, per-node retries, pauses for a human, and a caller    *)
(* who invokes the thread again, with a resume value, after a pause, an    *)
(* error or a crash.                                                       *)
(*                                                                         *)
(* Every node folds one unit into a channel of its own under the "add"     *)
(* reducer, so that the state tells how often each node was applied (a     *)
(* "last_value" channel would hide a second time).  Routers are free to    *)
(* pick any target they map to.  The caller does not run two invocations   *)
(* of a thread at once: the engine has no guard against that.              *)
(***************************************************************************)
EXTENDS Naturals, Sequences, Functions, Lists

CONSTANTS Nodes, End, Entry, Edges, Routed,   \* the graph, as in Supersteps
          Asking,         \* nodes that call ctx.interrupt, once
          MaxAttempts,    \* per node, its policy's max_attempts; 1 without one
          MaxSupersteps,  \* max_supersteps of an invocation
          HighestStep,    \* get() returns the highest step (the table savers),
                          \* else the last one put (MemorySaver)
          MaxFresh,       \* bound: invocations without a resume value
          MaxResumes,     \* bound: invocations with one
          MaxCrashes      \* bound: process crashes

ASSUME GraphAssumption ==
    /\ End \notin Nodes
    /\ Entry \in Nodes
    /\ Edges \in [Nodes -> Seq(Nodes \cup {End})]
    /\ \A n \in Nodes : IsInjective(Edges[n])
    /\ Routed \subseteq Nodes
    /\ \A n \in Routed : Edges[n] # <<>>
    /\ Asking \subseteq Nodes
    /\ MaxAttempts \in [Nodes -> Nat \ {0}]
    /\ MaxSupersteps \in Nat \ {0}
    /\ HighestStep \in BOOLEAN
    /\ MaxFresh \in Nat /\ MaxResumes \in Nat /\ MaxCrashes \in Nat

VARIABLES
    saved,     \* what checkpointer.get returns for the thread
    run,       \* the invocation under way
    result,    \* how the last one ended
    parked,    \* the checkpoint the last pause wrote
    fresh,     \* invocations without a resume value so far
    resumes,   \* invocations with one so far
    answered,  \* interrupt calls that returned a resume value so far
    crashes

vars == <<saved, run, result, parked, fresh, resumes, answered, crashes>>

-----------------------------------------------------------------------------
\* Types

Applied == [Nodes -> Nat]

Row == [step : Nat, applied : Applied, frontier : Seq(Nodes)]

\* _init_state: every channel at its default, the entry node first.
FirstRow == [step |-> 0, applied |-> [n \in Nodes |-> 0], frontier |-> <<Entry>>]

\* get() on a thread without checkpoints.
NoRow == [step |-> 0, applied |-> [n \in Nodes |-> 0], frontier |-> <<>>]

\* on: ainvoke is under way; active and next: this superstep's nodes and the
\* next one's; at: the position of the node that runs; answer: its context holds
\* an unused resume value; failures: of this node so far; left: supersteps.
Idle == [on |-> FALSE, step |-> 0, applied |-> [n \in Nodes |-> 0],
         active |-> <<>>, next |-> <<>>, at |-> 0, answer |-> FALSE,
         failures |-> 0, left |-> 0]

TypeOK ==
    /\ saved \in Row
    /\ run \in [on : BOOLEAN, step : Nat, applied : Applied, active : Seq(Nodes),
                next : Seq(Nodes), at : Nat, answer : BOOLEAN,
                failures : Nat, left : 0 .. MaxSupersteps]
    /\ run.on /\ run.at \in DOMAIN run.active
          => run.failures < MaxAttempts[run.active[run.at]]
    /\ result \in {"none", "interrupted", "returned", "raised", "crashed"}
    /\ parked \in Row
    /\ fresh \in Nat /\ resumes \in Nat /\ answered \in Nat /\ crashes \in Nat

-----------------------------------------------------------------------------
\* Helpers

\* A node runs: which one.
Running == run.on /\ run.at \in DOMAIN run.active
Node == run.active[run.at]

\* s, then what of t is a node and not in s yet.
Extend(s, t) == s \o Filter(t, Nodes \ Range(s))

\* put(): what get() returns from then on.
Put(row) == IF HighestStep /\ saved.step > row.step THEN saved ELSE row

\* What is left of a superstep whose running node interrupts.
ParkedAlone == <<Node>>
Parked == Extend(<<Node>> \o SubSeq(run.active, run.at + 1, Len(run.active)),
                 run.next)

\* What the next node's context holds.
AnswerKept == run.answer
NoAnswer == FALSE

\* _run_node gives up.
OutOfAttemptsLate == run.failures + 1 > MaxAttempts[Node]
OutOfAttempts == run.failures + 1 >= MaxAttempts[Node]

Return(how) == run' = Idle /\ result' = how

Start(row, answer) ==
    run' = [Idle EXCEPT !.on = TRUE, !.step = row.step, !.applied = row.applied,
                        !.active = row.frontier, !.at = 1, !.answer = answer,
                        !.left = MaxSupersteps]

Init ==
    /\ saved = NoRow
    /\ run = Idle
    /\ result = "none"
    /\ parked = NoRow
    /\ fresh = 0 /\ resumes = 0 /\ answered = 0 /\ crashes = 0

-----------------------------------------------------------------------------
\* The caller

Invoke ==
    /\ ~run.on
    /\ fresh < MaxFresh
    /\ fresh' = fresh + 1
    /\ Start(FirstRow, FALSE)
    /\ UNCHANGED <<saved, result, parked, resumes, answered, crashes>>

Resume ==
    /\ ~run.on
    /\ fresh > 0
    /\ resumes < MaxResumes
    /\ resumes' = resumes + 1
    /\ Start(IF saved = NoRow THEN FirstRow ELSE saved, TRUE)
    /\ UNCHANGED <<saved, result, parked, fresh, answered, crashes>>

-----------------------------------------------------------------------------
\* The engine

\* A node returns: its updates are applied and its successors queued.
NodeReturns ==
    /\ Running
    /\ Node \in Asking => run.answer
    /\ answered' = answered + (IF Node \in Asking THEN 1 ELSE 0)
    /\ \E targets \in IF Node \in Routed
                      THEN {<<m>> : m \in Range(Edges[Node])} ELSE {Edges[Node]} :
          run' = [run EXCEPT !.applied[Node] = @ + 1, !.at = @ + 1, !.failures = 0,
                             !.answer = NoAnswer, !.next = Extend(@, targets)]
    /\ UNCHANGED <<saved, result, parked, fresh, resumes, crashes>>

\* A node raises: the policy runs it again with the same context, or the error
\* does not match retry_on or was the last attempt's and ainvoke raises it.
Raised(answer) ==
    \/ Return("raised")
    \/ /\ ~OutOfAttempts
       /\ run' = [run EXCEPT !.failures = @ + 1, !.answer = answer]
       /\ UNCHANGED result

\* It raises before or after its interrupt call used the resume value up.
NodeRaises ==
    /\ Running
    /\ \/ Raised(run.answer) /\ UNCHANGED answered
       \/ /\ Node \in Asking /\ run.answer
          /\ Raised(FALSE)
          /\ answered' = answered + 1
    /\ UNCHANGED <<saved, parked, fresh, resumes, crashes>>

\* A node interrupts: the rest of the superstep is parked, never retried.
NodeInterrupts ==
    /\ Running
    /\ Node \in Asking /\ ~run.answer
    /\ parked' = [step |-> run.step, applied |-> run.applied, frontier |-> Parked]
    /\ saved' = Put(parked')
    /\ Return("interrupted")
    /\ UNCHANGED <<fresh, resumes, answered, crashes>>

\* All nodes of the superstep have run: checkpoint, go on or return.
Barrier ==
    /\ run.on /\ ~Running
    /\ run.active # <<>>
    /\ saved' = Put([step |-> run.step + 1, applied |-> run.applied,
                     frontier |-> run.next])
    /\ IF run.next = <<>> \/ run.left = 1
       THEN Return("returned")
       ELSE /\ run' = [run EXCEPT !.step = @ + 1, !.active = run.next,
                                  !.next = <<>>, !.at = 1, !.left = @ - 1]
            /\ UNCHANGED result
    /\ UNCHANGED <<parked, fresh, resumes, answered, crashes>>

\* The checkpoint resumed from has no frontier left.
NothingToDo ==
    /\ run.on
    /\ run.active = <<>>
    /\ Return("returned")
    /\ UNCHANGED <<saved, parked, fresh, resumes, answered, crashes>>

\* The process dies.
Crash ==
    /\ run.on
    /\ crashes < MaxCrashes
    /\ crashes' = crashes + 1
    /\ Return("crashed")
    /\ UNCHANGED <<saved, parked, fresh, resumes, answered>>

Engine == NodeReturns \/ NodeRaises \/ NodeInterrupts \/ Barrier \/ NothingToDo

Next == Invoke \/ Resume \/ Engine \/ Crash

Spec == Init /\ [][Next]_vars

-----------------------------------------------------------------------------
\* Properties

\* A resume value answers one interrupt call at most, whatever is retried,
\* interrupted or crashes in between (GraphContext.interrupt, "only the first
\* resumed node consumes it").
AnswersAreNotReused == answered <= resumes

\* Crashes, errors, retries and pauses do not show: what a thread has saved
\* moves by whole supersteps, each run exactly once.  (One thread, invoked
\* afresh once, where only the first node of a superstep interrupts.)
Abstract == INSTANCE Supersteps
    WITH applied <- IF saved = NoRow THEN FirstRow.applied ELSE saved.applied,
         frontier <- IF saved = NoRow THEN {Entry} ELSE Range(saved.frontier)
ImplementsSupersteps == Abstract!Spec

\* The nodes a superstep has already run are not run again by its resume
\* (ainvoke: "re-running them would double-apply under accumulating reducers").
\* In a graph without cycles whose nodes each have one distance from the entry,
\* no node is applied twice.
NoneAppliedTwice == \A n \in Nodes : run.applied[n] <= 1

\* Resuming a paused thread goes on where it paused (docs/graph.md, "you resume
\* the same thread with the human's decision and the call returns it").
ResumeGoesOnFromPause ==
    [][Resume /\ result = "interrupted" => run'.active = parked.frontier]_vars

=============================================================================
