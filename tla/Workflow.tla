------------------------------ MODULE Workflow ------------------------------
(***************************************************************************)
(* The workflow agents of multiagent.py: one run of a tree of patterns over *)
(* one shared state, on one event loop.                                     *)
(*                                                                          *)
(* A node is one activation of a Step.  A loop's iterations, a map's inputs *)
(* and a swarm's turns are activations of their own, so the tree is fixed:  *)
(*   "agent"   a leaf: an Agent run by the Runner;                          *)
(*   "serial"  SequentialAgent, LoopAgent (its kids are the iterations, the *)
(*             last may be its else_) and a Swarm of agents (the turns);    *)
(*   "fan"     ParallelAgent and MapAgent: kids run at once, under a        *)
(*             semaphore of Width permits;                                  *)
(*   "choice"  RouterAgent: exactly one kid, or none;                       *)
(*   "flow"    a Flow whose agent steps follow one another (what the graph  *)
(*             engine under it does with branches and crashes is GraphRun). *)
(* Guards, stop conditions and what an agent does are nondeterministic.     *)
(***************************************************************************)
EXTENDS Integers, Sequences, FiniteSets

CONSTANTS
  Node, Root,  \* the activations, and the workflow the caller runs
  NoNode,      \* stands for: no fallback, no parent
  Kind, Kids,  \* the pattern of a node and the sequence of its kids
  Parent,      \* whose kid or fallback a node is
  Else,        \* its else_= fallback, or NoNode
  Guarded,     \* the nodes with a when= guard
  Stops,       \* the serial nodes that may end early (stop=, no hand-off)
  Width,       \* how many kids of a fan may be past its semaphore
  NoMatch,     \* a router without a match: its "default", "skipped" or "broken"
  Key, NoKey,  \* session-scoped keys of the shared state
  Writes       \* the key a Step captures its output under (writes=), or NoKey

KidSet(n) == {Kids[n][i] : i \in 1..Len(Kids[n])}

\* The shape of a tree: kids and fallbacks are distinct nodes that know their
\* parent.  Router branches and the caller's workflow are plain units, and what
\* a flow's steps write goes through the channels of the graph engine.
ASSUME TreeAssumption ==
  /\ Root \in Node /\ NoNode \notin Node /\ NoKey \notin Key
  /\ Kind \in [Node -> {"agent", "serial", "fan", "choice", "flow"}]
  /\ Kids \in [Node -> Seq(Node)]
  /\ Parent \in [Node -> Node \cup {NoNode}]
  /\ Else \in [Node -> Node \cup {NoNode}]
  /\ Writes \in [Node -> Key \cup {NoKey}]
  /\ Width \in [Node -> Nat \ {0}]
  /\ NoMatch \in [Node -> {"default", "skipped", "broken"}]
  /\ \A n \in Node : Kids[n] # <<>> <=> Kind[n] # "agent"
  /\ \A n \in Node : \A i, j \in 1..Len(Kids[n]) :
        Kids[n][i] = Kids[n][j] => i = j
  /\ \A n \in Node, c \in Node : c \in KidSet(n) \/ c = Else[n] => Parent[c] = n
  /\ \A n \in Node : Else[n] \notin KidSet(n) /\ Parent[n] # n
  /\ \A n \in Node : Kind[n] = "choice" =>
        \A c \in KidSet(n) : c \notin Guarded /\ Else[c] = NoNode /\ Writes[c] = NoKey
  /\ \A n \in Node : Kind[n] = "flow" =>
        \A c \in KidSet(n) : Else[c] = NoNode /\ Writes[c] = NoKey
  /\ Root \notin Guarded /\ Else[Root] = NoNode /\ Parent[Root] = NoNode

\* And it is a finite tree: of some nodes one has no kid or fallback among them.
ASSUME FiniteTree ==
  /\ IsFiniteSet(Node)
  /\ \A S \in SUBSET Node : S # {} => \E n \in S : \A c \in S : Parent[c] # n

VARIABLES
  st,      \* where each activation stands
  at,      \* the kid a serial or choice node is at
  usage,   \* the usage its result reports, in completed agent runs
  paused,  \* the nodes whose RunResult says paused
  holder   \* the node whose output each key of the shared state holds

vars == <<st, at, usage, paused, holder>>

Returned == {"ok", "skipped"}      \* the unit handed its caller a RunResult
Raised   == {"failed", "broken"}   \* it raised: a YaabError or timeout, or another exception
Ended    == Returned \cup Raised
Status   == {"idle", "ready", "running", "falling"} \cup Ended
AtWork(n) == st[n] \in {"ready", "running", "falling"}

Init ==
  /\ st = [n \in Node |-> IF n = Root THEN "ready" ELSE "idle"]
  /\ at = [n \in Node |-> 0]
  /\ usage = [n \in Node |-> 0]
  /\ paused = {}
  /\ holder = [k \in Key |-> NoNode]

-----------------------------------------------------------------------------
\* Under a fan's semaphore: the kids past `async with sem`.
InsideForGood(p) == {c \in KidSet(p) : st[c] \notin {"idle", "ready"}}
Inside(p) == {c \in KidSet(p) : st[c] \in {"running", "falling"}}
Branch(n) == Parent[n] # NoNode /\ Kind[Parent[n]] = "fan" /\ n \in KidSet(Parent[n])
MayEnterLate(n) == Branch(n) => Cardinality(Inside(Parent[n])) <= Width[Parent[n]]
MayEnter(n) == Branch(n) => Cardinality(Inside(Parent[n])) < Width[Parent[n]]

\* Two direct branches with one key: StateConflictError before any starts.
Conflict(n) ==
  \E c, d \in KidSet(n) : c # d /\ Writes[c] = Writes[d] /\ Writes[c] # NoKey

\* An OK result lands under the step's key.
Capture(n, status) ==
  holder' = IF status = "ok" /\ Writes[n] # NoKey
            THEN [holder EXCEPT ![Writes[n]] = n] ELSE holder

\* The body of n returns a result: its status, whether it is a pause and the
\* usage it reports.
Return(n, status, isPause, spent) ==
  /\ st' = [st EXCEPT ![n] = status]
  /\ usage' = [usage EXCEPT ![n] = spent]
  /\ paused' = IF isPause THEN paused \cup {n} ELSE paused
  /\ Capture(n, status)

\* The body of n raises.  Only a YaabError or a timeout reaches the fallback.
Raise(n, how) ==
  /\ st' = IF how = "failed" /\ Else[n] # NoNode
           THEN [st EXCEPT ![n] = "falling", ![Else[n]] = "ready"]
           ELSE [st EXCEPT ![n] = how]
  /\ UNCHANGED <<at, usage, paused, holder>>

-----------------------------------------------------------------------------
\* when= is false: the fallback runs instead, or the step is skipped.
Skip(n) ==
  /\ st[n] = "ready" /\ MayEnter(n) /\ n \in Guarded
  /\ st' = IF Else[n] # NoNode
           THEN [st EXCEPT ![n] = "falling", ![Else[n]] = "ready"]
           ELSE [st EXCEPT ![n] = "skipped"]
  /\ UNCHANGED <<at, usage, paused, holder>>

\* The unit is invoked: an agent starts, a serial node awaits its first kid, a
\* fan schedules every kid.
Start(n) ==
  /\ st[n] = "ready" /\ MayEnter(n) /\ Kind[n] # "choice"
  /\ ~(Kind[n] = "fan" /\ Conflict(n))
  /\ LET first == CASE Kind[n] \in {"serial", "flow"} -> {Kids[n][1]}
                    [] Kind[n] = "fan"                -> KidSet(n)
                    [] OTHER                          -> {}
     IN st' = [m \in Node |-> IF m = n THEN "running"
                              ELSE IF m \in first THEN "ready" ELSE st[m]]
  /\ at' = [at EXCEPT ![n] = 1]
  /\ UNCHANGED <<usage, paused, holder>>

\* A fan whose branches share a key raises a StateConflictError, which is no
\* YaabError.
StartConflicts(n) ==
  /\ st[n] = "ready" /\ MayEnter(n) /\ Kind[n] = "fan" /\ Conflict(n)
  /\ Raise(n, "broken")

\* A router picks the first branch whose guard is true, or the default.
Route(n) ==
  /\ st[n] = "ready" /\ MayEnter(n) /\ Kind[n] = "choice"
  /\ \E i \in 1..Len(Kids[n]) :
        /\ st' = [st EXCEPT ![n] = "running", ![Kids[n][i]] = "ready"]
        /\ at' = [at EXCEPT ![n] = i]
  /\ UNCHANGED <<usage, paused, holder>>

\* No branch matched and there is no default.
RouteNowhere(n) ==
  /\ st[n] = "ready" /\ MayEnter(n) /\ Kind[n] = "choice"
  /\ \/ NoMatch[n] = "skipped" /\ Return(n, "skipped", FALSE, 0) /\ UNCHANGED at
     \/ NoMatch[n] = "broken" /\ Raise(n, "broken")

-----------------------------------------------------------------------------
\* An agent run completes, pauses for a human (its result has status "ok" and
\* no usage) or raises.
AgentEnds(n) ==
  /\ Kind[n] = "agent" /\ st[n] = "running"
  /\ \/ Return(n, "ok", FALSE, 1) /\ UNCHANGED at
     \/ Return(n, "ok", TRUE, 0) /\ UNCHANGED at
     \/ \E how \in Raised : Raise(n, how)

Current(n) == Kids[n][at[n]]
Awaited(n) == st[Current(n)] \in Returned

\* A serial node (or a flow) takes the result of the kid it awaits and goes on with the
\* next, or returns that kid's output and status after the last or on stop=.
SerialNext(n) ==
  /\ Kind[n] \in {"serial", "flow"} /\ st[n] = "running" /\ Awaited(n)
  /\ ~(Kind[n] = "flow" /\ Current(n) \in paused)
  /\ at[n] < Len(Kids[n])
  /\ st' = [st EXCEPT ![Kids[n][at[n] + 1]] = "ready"]
  /\ at' = [at EXCEPT ![n] = @ + 1]
  /\ usage' = [usage EXCEPT ![n] = @ + usage[Current(n)]]
  /\ UNCHANGED <<paused, holder>>

SerialReturns(n) ==
  /\ Kind[n] = "serial" /\ st[n] = "running" /\ Awaited(n)
  /\ at[n] = Len(Kids[n]) \/ n \in Stops
  /\ Return(n, st[Current(n)], FALSE, usage[n] + usage[Current(n)])
  /\ UNCHANGED at

\* A flow whose agent step paused returns a paused result itself; otherwise it
\* ends after its last step, whatever guards skipped.
FlowReturns(n) ==
  /\ Kind[n] = "flow" /\ st[n] = "running" /\ Awaited(n)
  /\ at[n] = Len(Kids[n]) \/ Current(n) \in paused
  /\ Return(n, "ok", Current(n) \in paused, usage[n] + usage[Current(n)])
  /\ UNCHANGED at

\* A router returns its branch's result.
ChoiceReturns(n) ==
  /\ Kind[n] = "choice" /\ st[n] = "running" /\ Awaited(n)
  /\ Return(n, st[Current(n)], FALSE, usage[Current(n)])
  /\ UNCHANGED at

\* What the awaited kid raises goes through.
KidRaises(n) ==
  /\ Kind[n] \in {"serial", "flow", "choice"} /\ st[n] = "running"
  /\ st[Current(n)] \in Raised
  /\ Raise(n, st[Current(n)])

\* What the results of a fan's kids report in all.
GatheredButFirst(n) ==
  LET sum[i \in 1..Len(Kids[n])] ==
        IF i = 1 THEN 0 ELSE sum[i - 1] + usage[Kids[n][i]]
  IN sum[Len(Kids[n])]
Gathered(n) ==
  LET sum[i \in 0..Len(Kids[n])] ==
        IF i = 0 THEN 0 ELSE sum[i - 1] + usage[Kids[n][i]]
  IN sum[Len(Kids[n])]

\* asyncio.gather returns when every kid has returned ...
SomeReturned(n) == \E c \in KidSet(n) : st[c] \in Returned
AllReturned(n) == \A c \in KidSet(n) : st[c] \in Returned
FanReturns(n) ==
  /\ Kind[n] = "fan" /\ st[n] = "running"
  /\ AllReturned(n)
  /\ Return(n, "ok", FALSE, Gathered(n))
  /\ UNCHANGED at

\* ... and raises as soon as one raises, the others go on.  (Of two that raise
\* before the fan's task runs again the code takes the first.)
FanRaises(n) ==
  /\ Kind[n] = "fan" /\ st[n] = "running"
  /\ \E c \in KidSet(n) : st[c] \in Raised /\ Raise(n, st[c])

\* The result of the fallback is the result of the step.
FallbackEnds(n) ==
  /\ st[n] = "falling" /\ st[Else[n]] \in Ended
  /\ st' = [st EXCEPT ![n] = st[Else[n]]]
  /\ usage' = [usage EXCEPT ![n] = usage[Else[n]]]
  /\ paused' = IF Else[n] \in paused THEN paused \cup {n} ELSE paused
  /\ UNCHANGED <<at, holder>>

-----------------------------------------------------------------------------
Step(n) ==
  \/ Skip(n) \/ Start(n) \/ StartConflicts(n) \/ Route(n) \/ RouteNowhere(n)
  \/ AgentEnds(n)
  \/ SerialNext(n) \/ SerialReturns(n) \/ FlowReturns(n) \/ ChoiceReturns(n) \/ KidRaises(n)
  \/ FanReturns(n) \/ FanRaises(n)
  \/ FallbackEnds(n)

Next == \E n \in Node : Step(n)
Spec == Init /\ [][Next]_vars

\* The event loop runs every ready task, and an agent run ends: it has a step
\* limit and each of its calls a timeout.
FairSpec == Spec /\ \A n \in Node : WF_vars(Step(n))

-----------------------------------------------------------------------------
\* Types, and no fan has more kids past its semaphore than it has permits, also
\* when a kid falls back, is skipped or outlives the fan.
TypeOK ==
  /\ st \in [Node -> Status]
  /\ at \in [Node -> Nat]
  /\ usage \in [Node -> Nat]
  /\ paused \subseteq Node
  /\ holder \in [Key -> Node \cup {NoNode}]
  /\ \A n \in Node : Kind[n] = "fan" => Cardinality(Inside(n)) <= Width[n]

\* The nodes of the tree under n, n included.
Below[n \in Node] ==
  {n} \cup UNION {Below[c] : c \in KidSet(n) \cup ({Else[n]} \ {NoNode})}

\* Every activation runs inside its parent: a unit that has returned, raised or
\* gone on to its fallback has left no kid at work, with one exception in the
\* code, asyncio.gather: a fan that raised leaves its other branches running
\* (and its queued ones starting) while the fallback and later steps go on.
GatherRaised(p) == Kind[p] = "fan" /\ \E c \in KidSet(p) : st[c] \in Raised
ScopedRuns ==
  \A p \in Node :
    /\ \A c \in KidSet(p) : AtWork(c) => st[p] = "running" \/ GatherRaised(p)
    /\ Else[p] # NoNode /\ AtWork(Else[p]) => st[p] = "falling"

\* "Usage is rolled up across all sub-agents": the usage a result reports is
\* that of every agent run completed under it, whatever was skipped, stopped
\* early or replaced by a fallback.  What raises takes its usage with it, so
\* the claim is about the results nothing raised under.
Completed(d) ==
  /\ Kind[d] = "agent" /\ st[d] = "ok" /\ d \notin paused
  /\ Else[d] # NoNode => st[Else[d]] = "idle"
UsageIsWhole ==
  \A n \in Node :
    st[n] \in Returned /\ (\A d \in Below[n] : st[d] \notin Raised)
      => usage[n] = Cardinality({d \in Below[n] : Completed(d)})

\* What a later step captured is not overwritten by an earlier step of the same
\* pipeline, unless a fan under the earlier one raised and left branches behind.
Captured(c) == /\ st[c] = "ok" /\ Writes[c] # NoKey
               /\ Else[c] # NoNode => st[Else[c]] = "idle"
CapturesInOrder ==
  \A n \in Node : Kind[n] = "serial" =>
    \A i, j \in 1..Len(Kids[n]) : i < j =>
      LET earlier == Below[Kids[n][i]]  later == Below[Kids[n][j]] IN
      (\A p \in earlier : ~GatherRaised(p)) =>
        \A d \in later : Captured(d) => holder[Writes[d]] \notin earlier

\* A run ends and nothing it started runs for ever: loops, hand-offs and inputs
\* are bounded, and a branch left behind by a fan that raised ends as well.
RunSettles == <>[](st[Root] \in Ended /\ \A n \in Node : ~AtWork(n))

\* types.py:317 says of a paused RunResult that its output is a placeholder
\* that "should not be read": a pipeline does not go past a step that paused.
PlaceholderNotRead ==
  \A n \in Node : Kind[n] = "serial" =>
    \A i \in 1..(at[n] - 1) : Kids[n][i] \notin paused
=============================================================================
