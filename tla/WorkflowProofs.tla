---------------------------- MODULE WorkflowProofs ----------------------------
(***************************************************************************)
(* Type correctness and ScopedRuns of Workflow, for every tree of patterns. *)
(* The argument is local: a step of node n changes n and wakes idle kids of *)
(* n, so what has to be shown of another node follows from that alone, and  *)
(* only n itself needs a case per action.                                   *)
(***************************************************************************)
EXTENDS Workflow, ListProofs, FiniteSetTheorems, TLAPS

\* A node that has not started has idle kids, a running one an idle fallback;
\* a node that awaits one kid at a time has no other kid at work.
Sequenced(p) == Kind[p] \in {"serial", "flow"}
FreshNode(p) ==
  /\ st[p] \in {"idle", "ready"} => \A c \in KidSet(p) : st[c] = "idle"
  /\ st[p] \in {"idle", "ready", "running"} /\ Else[p] # NoNode => st[Else[p]] = "idle"
  /\ st[p] = "running" /\ Kind[p] # "agent" => at[p] \in 1..Len(Kids[p])
  /\ st[p] = "running" /\ Sequenced(p) =>
       \A i \in 1..Len(Kids[p]) :
         /\ i > at[p] => st[Kids[p][i]] = "idle"
         /\ i < at[p] => ~AtWork(Kids[p][i])
  /\ st[p] = "running" /\ Kind[p] = "choice" =>
       \A i \in 1..Len(Kids[p]) : i # at[p] => ~AtWork(Kids[p][i])
  /\ st[p] = "falling" => Else[p] # NoNode
ScopedNode(p) ==
  /\ \A c \in KidSet(p) : AtWork(c) => st[p] = "running" \/ GatherRaised(p)
  /\ Else[p] # NoNode /\ AtWork(Else[p]) => st[p] = "falling"
Typed == st \in [Node -> Status] /\ at \in [Node -> Nat]
Scoped == Typed /\ \A p \in Node : FreshNode(p) /\ ScopedNode(p)

-----------------------------------------------------------------------------
(* What the shape of a tree says of one node.                               *)

LEMMA TreeFacts ==
  /\ \A n \in Node : KidSet(n) \subseteq Node
  /\ \A n \in Node : \A i \in 1..Len(Kids[n]) : Kids[n][i] \in KidSet(n)
  /\ \A n \in Node : \A c \in KidSet(n) : c \in Node /\ Parent[c] = n /\ c # n /\ c # Else[n]
  /\ \A n \in Node : Else[n] # NoNode =>
       Else[n] \in Node /\ Parent[Else[n]] = n /\ Else[n] # n /\ Else[n] \notin KidSet(n)
  /\ \A n \in Node : \A i, j \in 1..Len(Kids[n]) : Kids[n][i] = Kids[n][j] => i = j
  /\ \A n \in Node : Len(Kids[n]) \in Nat
  /\ \A n \in Node : Kind[n] = "agent" => KidSet(n) = {}
  /\ \A n \in Node : Kind[n] # "agent" => 1 \in 1..Len(Kids[n])
<1>1. \A n \in Node : Kids[n] \in Seq(Node) BY TreeAssumption
<1>2. \A n \in Node : KidSet(n) \subseteq Node BY <1>1 DEF KidSet
<1>3. \A n \in Node : \A i \in 1..Len(Kids[n]) : Kids[n][i] \in KidSet(n) BY DEF KidSet
<1>4. \A n \in Node : \A c \in KidSet(n) : c \in Node /\ Parent[c] = n /\ c # n /\ c # Else[n]
  <2>1. SUFFICES ASSUME NEW n \in Node, NEW c \in KidSet(n)
                 PROVE  c \in Node /\ Parent[c] = n /\ c # n /\ c # Else[n]
    OBVIOUS
  <2>2. c \in Node BY <1>2
  <2>3. Parent[c] = n BY <2>2, TreeAssumption
  <2>4. c # n /\ c # Else[n] BY <2>2, <2>3, TreeAssumption
  <2> QED BY <2>2, <2>3, <2>4
<1>5. \A n \in Node : Else[n] # NoNode =>
        Else[n] \in Node /\ Parent[Else[n]] = n /\ Else[n] # n /\ Else[n] \notin KidSet(n)
  <2>1. SUFFICES ASSUME NEW n \in Node, Else[n] # NoNode
                 PROVE  Else[n] \in Node /\ Parent[Else[n]] = n /\ Else[n] # n
                        /\ Else[n] \notin KidSet(n)
    OBVIOUS
  <2>2. Else[n] \in Node BY <2>1, TreeAssumption
  <2>3. Parent[Else[n]] = n BY <2>2, TreeAssumption
  <2>4. Else[n] # n /\ Else[n] \notin KidSet(n) BY <2>2, <2>3, TreeAssumption
  <2> QED BY <2>2, <2>3, <2>4
<1>6. \A n \in Node : \A i, j \in 1..Len(Kids[n]) : Kids[n][i] = Kids[n][j] => i = j
  BY TreeAssumption
<1>7. \A n \in Node : Len(Kids[n]) \in Nat BY <1>1
<1>8. \A n \in Node : Kind[n] = "agent" => KidSet(n) = {}
  <2>1. SUFFICES ASSUME NEW n \in Node, Kind[n] = "agent" PROVE KidSet(n) = {} OBVIOUS
  <2>2. Kids[n] = <<>> BY <2>1, TreeAssumption
  <2>3. 1..Len(Kids[n]) = {} BY <2>2
  <2> QED BY <2>3 DEF KidSet
<1>9. \A n \in Node : Kind[n] # "agent" => 1 \in 1..Len(Kids[n])
  <2>1. SUFFICES ASSUME NEW n \in Node, Kind[n] # "agent" PROVE 1 \in 1..Len(Kids[n]) OBVIOUS
  <2>2. Kids[n] # <<>> /\ Kids[n] \in Seq(Node) BY <2>1, <1>1, TreeAssumption
  <2> QED BY <2>2
<1> QED BY <1>2, <1>3, <1>4, <1>5, <1>6, <1>7, <1>8, <1>9

-----------------------------------------------------------------------------
(* What a step of n does to the other nodes: it wakes kids of n, all idle.  *)

Frame(n) ==
  /\ AtWork(n) /\ st'[n] \notin {"idle", "ready"}
  /\ \A m \in Node \ {n} :
       /\ at'[m] = at[m]
       /\ st'[m] = st[m] \/ (st'[m] = "ready" /\ st[m] = "idle" /\ Parent[m] = n)

LEMMA Others ==
  ASSUME Scoped, NEW n \in Node, Frame(n), NEW p \in Node, p # n
  PROVE  FreshNode(p)' /\ ScopedNode(p)'
<1> USE TreeFacts
<1>1. FreshNode(p) /\ ScopedNode(p) /\ FreshNode(n) BY DEF Scoped
<1>2. \A c \in KidSet(p) : st'[c] = st[c] \/ c = n BY DEF Frame
<1>3. Else[p] # NoNode => st'[Else[p]] = st[Else[p]] \/ Else[p] = n BY DEF Frame
<1>4. CASE st'[p] = st[p]
  <2>1. at'[p] = at[p] BY DEF Frame
  <2>2. \A c \in KidSet(p) : AtWork(c)' => AtWork(c) BY <1>2 DEF Frame, AtWork
  <2>3. \A c \in KidSet(p) : st[c] = "idle" => st'[c] = "idle" BY <1>2 DEF Frame, AtWork
  <2>4. \A c \in KidSet(p) : st[c] \in Raised => st'[c] \in Raised
    BY <1>2 DEF Frame, AtWork, Raised
  <2>5. GatherRaised(p) => GatherRaised(p)' BY <2>4 DEF GatherRaised
  <2>6. Else[p] # NoNode /\ AtWork(Else[p])' => AtWork(Else[p]) BY <1>3 DEF Frame, AtWork
  <2>7. Else[p] # NoNode /\ st[Else[p]] = "idle" => st'[Else[p]] = "idle"
    BY <1>3 DEF Frame, AtWork
  <2>8. ScopedNode(p)' BY <1>1, <1>4, <2>2, <2>5, <2>6 DEF ScopedNode
  <2>9. FreshNode(p)' BY <1>1, <1>4, <2>1, <2>2, <2>3, <2>7 DEF FreshNode, Sequenced
  <2> QED BY <2>8, <2>9
<1>5. CASE st'[p] = "ready" /\ st[p] = "idle"
  <2>1. \A c \in KidSet(p) : st[c] = "idle" BY <1>1, <1>5 DEF FreshNode
  <2>2. Else[p] # NoNode => st[Else[p]] = "idle" BY <1>1, <1>5 DEF FreshNode
  <2>3. n \notin KidSet(p) /\ (Else[p] # NoNode => Else[p] # n) BY <2>1, <2>2 DEF Frame, AtWork
  <2>4. \A c \in KidSet(p) : st'[c] = "idle" BY <1>2, <2>1, <2>3
  <2>5. Else[p] # NoNode => st'[Else[p]] = "idle" BY <1>3, <2>2, <2>3
  <2>6. ScopedNode(p)' BY <2>4, <2>5 DEF ScopedNode, AtWork
  <2>7. FreshNode(p)' BY <1>5, <2>4, <2>5 DEF FreshNode, Sequenced
  <2> QED BY <2>6, <2>7
<1> QED BY <1>4, <1>5 DEF Frame

-----------------------------------------------------------------------------
(* What a step of n does to n itself.                                       *)

Kept(n) == Frame(n) /\ Typed' /\ FreshNode(n)' /\ ScopedNode(n)'
KidsDone(n) == \A c \in KidSet(n) : AtWork(c) => GatherRaised(n)

\* The unit returns or raises: nothing it awaits is at work.
LEMMA Ending ==
  ASSUME Scoped, NEW n \in Node, AtWork(n), NEW s \in Ended, KidsDone(n),
         Else[n] # NoNode => ~AtWork(Else[n]),
         st' = [st EXCEPT ![n] = s], at' = at
  PROVE  Kept(n)
<1> USE TreeFacts
<1>1. st' \in [Node -> Status] /\ at' \in [Node -> Nat]
  BY DEF Scoped, Typed, Status, Ended, Returned, Raised
<1>2. st'[n] = s /\ \A m \in Node \ {n} : st'[m] = st[m] BY DEF Scoped, Typed
<1>3. Frame(n) BY <1>2 DEF Frame, Ended, Returned, Raised
<1>4. FreshNode(n)' BY <1>2 DEF FreshNode, Ended, Returned, Raised
<1>5. GatherRaised(n) => GatherRaised(n)' BY <1>2 DEF GatherRaised
<1>6. \A c \in KidSet(n) : AtWork(c)' => GatherRaised(n)'
  BY <1>2, <1>5 DEF KidsDone, AtWork
<1>7. Else[n] # NoNode => ~AtWork(Else[n])' BY <1>2 DEF AtWork
<1>8. ScopedNode(n)' BY <1>6, <1>7 DEF ScopedNode
<1> QED BY <1>1, <1>3, <1>4, <1>8 DEF Kept, Typed

\* The step goes on to its fallback.
LEMMA Falling ==
  ASSUME Scoped, NEW n \in Node, st[n] \in {"ready", "running"}, KidsDone(n),
         Else[n] # NoNode,
         st' = [st EXCEPT ![n] = "falling", ![Else[n]] = "ready"], at' = at
  PROVE  Kept(n)
<1> USE TreeFacts
<1>1. st' \in [Node -> Status] /\ at' \in [Node -> Nat] BY DEF Scoped, Typed, Status
<1>2. st[Else[n]] = "idle" BY DEF Scoped, FreshNode
<1>3. /\ st'[n] = "falling" /\ st'[Else[n]] = "ready"
      /\ \A m \in Node \ {n, Else[n]} : st'[m] = st[m]
  BY DEF Scoped, Typed
<1>4. Frame(n)
  <2>1. AtWork(n) /\ st'[n] \notin {"idle", "ready"} BY <1>3 DEF AtWork
  <2>2. Parent[Else[n]] = n BY TreeAssumption
  <2>3. \A m \in Node \ {n} :
          st'[m] = st[m] \/ (st'[m] = "ready" /\ st[m] = "idle" /\ Parent[m] = n)
    BY <1>2, <1>3, <2>2
  <2> QED BY <2>1, <2>3 DEF Frame
<1>5. FreshNode(n)' BY <1>3 DEF FreshNode
<1>6. \A c \in KidSet(n) : st'[c] = st[c] BY <1>3
<1>7. \A c \in KidSet(n) : AtWork(c)' => GatherRaised(n)'
  BY <1>6 DEF KidsDone, AtWork, GatherRaised
<1>8. ScopedNode(n)' BY <1>3, <1>7 DEF ScopedNode
<1> QED BY <1>1, <1>4, <1>5, <1>8 DEF Kept, Typed

LEMMA Raising ==
  ASSUME Scoped, NEW n \in Node, st[n] \in {"ready", "running"}, KidsDone(n),
         NEW how \in Raised, Raise(n, how)
  PROVE  Kept(n)
<1>1. at' = at BY DEF Raise
<1>2. CASE how = "failed" /\ Else[n] # NoNode
  <2>1. st' = [st EXCEPT ![n] = "falling", ![Else[n]] = "ready"] BY <1>2 DEF Raise
  <2> QED BY <1>1, <1>2, <2>1, Falling
<1>3. CASE ~(how = "failed" /\ Else[n] # NoNode)
  <2>1. st' = [st EXCEPT ![n] = how] BY <1>3 DEF Raise
  <2>2. Else[n] # NoNode => ~AtWork(Else[n]) BY DEF Scoped, FreshNode, AtWork
  <2>3. how \in Ended /\ AtWork(n) BY DEF Ended, AtWork
  <2> QED BY <1>1, <2>1, <2>2, <2>3, Ending
<1> QED BY <1>2, <1>3

LEMMA Returning ==
  ASSUME Scoped, NEW n \in Node, st[n] \in {"ready", "running"}, KidsDone(n),
         NEW s \in Returned, NEW pausing, NEW spent, Return(n, s, pausing, spent), at' = at
  PROVE  Kept(n)
<1>1. st' = [st EXCEPT ![n] = s] BY DEF Return
<1>2. Else[n] # NoNode => ~AtWork(Else[n]) BY DEF Scoped, FreshNode, AtWork
<1>3. s \in Ended /\ AtWork(n) BY DEF Ended, AtWork
<1> QED BY <1>1, <1>2, <1>3, Ending

LEMMA ReadyKids ==
  ASSUME Scoped, NEW n \in Node, st[n] = "ready"
  PROVE  KidsDone(n)
BY DEF Scoped, FreshNode, KidsDone, AtWork

LEMMA AwaitedKids ==
  ASSUME Scoped, NEW n \in Node, st[n] = "running", st[Current(n)] \in Ended,
         Kind[n] \in {"serial", "flow", "choice"}
  PROVE  KidsDone(n)
<1> SUFFICES ASSUME NEW c \in KidSet(n) PROVE ~AtWork(c) BY DEF KidsDone
<1>1. PICK i \in 1..Len(Kids[n]) : c = Kids[n][i] BY DEF KidSet
<1>2. FreshNode(n) /\ at[n] \in Nat BY DEF Scoped, Typed
<1>3. CASE i = at[n] BY <1>1, <1>3 DEF Current, AtWork, Ended, Returned, Raised
<1>4. CASE i # at[n] /\ Kind[n] = "choice" BY <1>1, <1>2, <1>4 DEF FreshNode
<1>5. CASE i # at[n] /\ Sequenced(n)
  <2>1. i > at[n] \/ i < at[n] BY <1>2, <1>5
  <2> QED BY <1>1, <1>2, <1>5, <2>1 DEF FreshNode, AtWork
<1> QED BY <1>3, <1>4, <1>5 DEF Sequenced

-----------------------------------------------------------------------------
(* One lemma per action.                                                    *)

LEMMA SkipKeeps == ASSUME Scoped, NEW n \in Node, Skip(n) PROVE Kept(n)
<1>1. st[n] = "ready" /\ at' = at /\ KidsDone(n) BY ReadyKids DEF Skip
<1>2. CASE Else[n] # NoNode
  <2>1. st' = [st EXCEPT ![n] = "falling", ![Else[n]] = "ready"] BY <1>2 DEF Skip
  <2> QED BY <1>1, <1>2, <2>1, Falling
<1>3. CASE Else[n] = NoNode
  <2>1. st' = [st EXCEPT ![n] = "skipped"] BY <1>3 DEF Skip
  <2>2. "skipped" \in Ended /\ AtWork(n) BY <1>1 DEF Ended, Returned, AtWork
  <2> QED BY <1>1, <1>3, <2>1, <2>2, Ending
<1> QED BY <1>2, <1>3

\* Start and Route make n running and wake some of its kids.
LEMMA Starting ==
  ASSUME Scoped, NEW n \in Node, st[n] = "ready", NEW first \in SUBSET KidSet(n),
         NEW i \in Nat,
         st' = [m \in Node |-> IF m = n THEN "running"
                               ELSE IF m \in first THEN "ready" ELSE st[m]],
         at' = [at EXCEPT ![n] = i],
         Kind[n] # "agent" => i \in 1..Len(Kids[n]),
         Sequenced(n) => first = {Kids[n][1]} /\ i = 1,
         Kind[n] = "choice" => first = {Kids[n][i]}
  PROVE  Kept(n)
<1> USE TreeFacts
<1>1. st' \in [Node -> Status] /\ at' \in [Node -> Nat] BY DEF Scoped, Typed, Status
<1>2. \A c \in KidSet(n) : st[c] = "idle" BY DEF Scoped, FreshNode
<1>3. Else[n] # NoNode => st[Else[n]] = "idle" BY DEF Scoped, FreshNode
<1>4. st'[n] = "running" /\ at'[n] = i BY DEF Scoped, Typed
<1>5. \A m \in Node \ {n} : st'[m] = IF m \in first THEN "ready" ELSE st[m] OBVIOUS
<1>6. \A m \in Node \ {n} : at'[m] = at[m] BY DEF Scoped, Typed
<1>7. Frame(n) BY <1>2, <1>4, <1>5, <1>6 DEF Frame, AtWork
<1>8. \A c \in KidSet(n) \ first : st'[c] = "idle" BY <1>2, <1>5
<1>9. Else[n] # NoNode => st'[Else[n]] = "idle" BY <1>3, <1>5
<1>10. Sequenced(n) => \A j \in 1..Len(Kids[n]) : j # 1 => st'[Kids[n][j]] = "idle"
  <2>1. SUFFICES ASSUME Sequenced(n), NEW j \in 1..Len(Kids[n]), j # 1
                 PROVE  st'[Kids[n][j]] = "idle"
    OBVIOUS
  <2>2. 1 \in 1..Len(Kids[n]) BY <2>1 DEF Sequenced
  <2>3. Kids[n][j] \in KidSet(n) /\ Kids[n][j] # Kids[n][1] BY <2>1, <2>2
  <2> QED BY <1>8, <2>1, <2>3
<1>11. Kind[n] = "choice" => \A j \in 1..Len(Kids[n]) : j # i => st'[Kids[n][j]] = "idle"
  <2>1. SUFFICES ASSUME Kind[n] = "choice", NEW j \in 1..Len(Kids[n]), j # i
                 PROVE  st'[Kids[n][j]] = "idle"
    OBVIOUS
  <2>2. i \in 1..Len(Kids[n]) BY <2>1
  <2>3. Kids[n][j] \in KidSet(n) /\ Kids[n][j] # Kids[n][i] BY <2>1, <2>2
  <2> QED BY <1>8, <2>1, <2>3
<1>12. Sequenced(n) => at'[n] = 1 BY <1>4
<1>13. \A j \in 1..Len(Kids[n]) : (j > 1 => j # 1) /\ ~(j < 1) OBVIOUS
<1>14. Sequenced(n) => \A j \in 1..Len(Kids[n]) :
         /\ j > at'[n] => st'[Kids[n][j]] = "idle"
         /\ j < at'[n] => ~AtWork(Kids[n][j])'
  BY <1>10, <1>12, <1>13
<1>15. Kind[n] = "choice" => \A j \in 1..Len(Kids[n]) : j # at'[n] => ~AtWork(Kids[n][j])'
  BY <1>4, <1>11 DEF AtWork
<1>16. FreshNode(n)' BY <1>4, <1>9, <1>14, <1>15 DEF FreshNode, Sequenced
<1>17. ScopedNode(n)' BY <1>4, <1>9 DEF ScopedNode, AtWork
<1> QED BY <1>1, <1>7, <1>16, <1>17 DEF Kept, Typed

LEMMA StartKeeps == ASSUME Scoped, NEW n \in Node, Start(n) PROVE Kept(n)
<1> DEFINE first == CASE Kind[n] \in {"serial", "flow"} -> {Kids[n][1]}
                      [] Kind[n] = "fan"                -> KidSet(n)
                      [] OTHER                          -> {}
<1>1. st[n] = "ready" /\ Kind[n] # "choice" /\ at' = [at EXCEPT ![n] = 1] BY DEF Start
<1>2. st' = [m \in Node |-> IF m = n THEN "running"
                            ELSE IF m \in first THEN "ready" ELSE st[m]]
  BY DEF Start
<1>3. Kind[n] # "agent" => 1 \in 1..Len(Kids[n]) BY TreeFacts
<1>4. Kind[n] \in {"serial", "flow"} => Kids[n][1] \in KidSet(n) BY <1>3, TreeFacts
<1>5. first \in SUBSET KidSet(n) BY <1>4
<1>6. Sequenced(n) => first = {Kids[n][1]} BY DEF Sequenced
<1> HIDE DEF first
<1> QED BY <1>1, <1>2, <1>3, <1>5, <1>6, Starting

LEMMA RouteKeeps == ASSUME Scoped, NEW n \in Node, Route(n) PROVE Kept(n)
<1>1. PICK i \in 1..Len(Kids[n]) :
        /\ st' = [st EXCEPT ![n] = "running", ![Kids[n][i]] = "ready"]
        /\ at' = [at EXCEPT ![n] = i]
  BY DEF Route
<1>2. st[n] = "ready" /\ Kind[n] = "choice" BY DEF Route
<1>3. Kids[n][i] \in KidSet(n) /\ Kids[n][i] # n /\ i \in Nat BY TreeFacts
<1>4. st' = [m \in Node |-> IF m = n THEN "running"
                            ELSE IF m \in {Kids[n][i]} THEN "ready" ELSE st[m]]
  BY <1>1, <1>3 DEF Scoped, Typed
<1>5. {Kids[n][i]} \in SUBSET KidSet(n) /\ ~Sequenced(n) BY <1>2, <1>3 DEF Sequenced
<1> QED BY <1>1, <1>2, <1>3, <1>4, <1>5, Starting

LEMMA StartConflictsKeeps == ASSUME Scoped, NEW n \in Node, StartConflicts(n) PROVE Kept(n)
<1>1. st[n] = "ready" /\ Raise(n, "broken") BY DEF StartConflicts
<1> QED BY <1>1, ReadyKids, Raising DEF Raised

LEMMA RouteNowhereKeeps == ASSUME Scoped, NEW n \in Node, RouteNowhere(n) PROVE Kept(n)
<1>1. st[n] = "ready" /\ KidsDone(n) BY ReadyKids DEF RouteNowhere
<1>2. CASE Return(n, "skipped", FALSE, 0) /\ at' = at
  BY <1>1, <1>2, Returning DEF Returned
<1>3. CASE Raise(n, "broken")
  BY <1>1, <1>3, Raising DEF Raised
<1> QED BY <1>2, <1>3 DEF RouteNowhere

LEMMA AgentEndsKeeps == ASSUME Scoped, NEW n \in Node, AgentEnds(n) PROVE Kept(n)
<1>1. st[n] = "running" /\ KidsDone(n) BY TreeFacts DEF AgentEnds, KidsDone
<1>2. CASE Return(n, "ok", FALSE, 1) /\ at' = at BY <1>1, <1>2, Returning DEF Returned
<1>3. CASE Return(n, "ok", TRUE, 0) /\ at' = at BY <1>1, <1>3, Returning DEF Returned
<1>4. CASE \E how \in Raised : Raise(n, how) BY <1>1, <1>4, Raising
<1> QED BY <1>2, <1>3, <1>4 DEF AgentEnds

LEMMA SerialNextKeeps == ASSUME Scoped, NEW n \in Node, SerialNext(n) PROVE Kept(n)
<1> USE TreeFacts
<1> DEFINE next == at[n] + 1
           kid  == Kids[n][next]
<1>1. /\ Sequenced(n) /\ st[n] = "running" /\ st[Current(n)] \in Returned
      /\ at[n] < Len(Kids[n])
      /\ st' = [st EXCEPT ![kid] = "ready"] /\ at' = [at EXCEPT ![n] = next]
  BY DEF SerialNext, Sequenced, Awaited
<1>2. at[n] \in 1..Len(Kids[n]) /\ next \in 1..Len(Kids[n]) /\ at[n] \in Nat
  BY <1>1 DEF Scoped, FreshNode, Sequenced
<1>3. kid \in KidSet(n) /\ kid # n /\ kid \in Node /\ Parent[kid] = n BY <1>2
<1>4. st[kid] = "idle" BY <1>1, <1>2 DEF Scoped, FreshNode
<1> HIDE DEF kid
<1>5. st' \in [Node -> Status] /\ at' \in [Node -> Nat]
  BY <1>1, <1>2, <1>3 DEF Scoped, Typed, Status
<1>6. st'[kid] = "ready" /\ \A m \in Node \ {kid} : st'[m] = st[m]
  BY <1>1, <1>3 DEF Scoped, Typed
<1>7. at'[n] = next /\ \A m \in Node \ {n} : at'[m] = at[m] BY <1>1 DEF Scoped, Typed
<1>8. st'[n] = "running" BY <1>1, <1>3, <1>6
<1>9. Frame(n) BY <1>1, <1>3, <1>4, <1>6, <1>7, <1>8 DEF Frame, AtWork
<1>10. Else[n] # NoNode => st'[Else[n]] = "idle"
  BY <1>1, <1>3, <1>6 DEF Scoped, FreshNode
<1>11. ASSUME NEW i \in 1..Len(Kids[n])
       PROVE  /\ i > next => st'[Kids[n][i]] = "idle"
              /\ i < next => ~AtWork(Kids[n][i])'
  <2>1. Kids[n][i] \in KidSet(n) /\ Kids[n][i] \in Node OBVIOUS
  <2>2. i # next => Kids[n][i] # kid BY <1>2 DEF kid
  <2>3. i # next => st'[Kids[n][i]] = st[Kids[n][i]] BY <1>6, <2>1, <2>2
  <2>4. i > next => i > at[n] /\ i # next BY <1>2
  <2>5. i > next => st'[Kids[n][i]] = "idle" BY <1>1, <2>3, <2>4 DEF Scoped, FreshNode
  <2>6. i < next => i # next /\ (i < at[n] \/ i = at[n]) BY <1>2
  <2>7. i < at[n] => ~AtWork(Kids[n][i]) BY <1>1 DEF Scoped, FreshNode
  <2>8. i = at[n] => ~AtWork(Kids[n][i]) BY <1>1 DEF Current, AtWork, Returned
  <2>9. i < next => ~AtWork(Kids[n][i])' BY <2>3, <2>6, <2>7, <2>8 DEF AtWork
  <2> QED BY <2>5, <2>9
<1>12. FreshNode(n)' BY <1>1, <1>2, <1>7, <1>8, <1>10, <1>11 DEF FreshNode, Sequenced
<1>13. ScopedNode(n)' BY <1>8, <1>10 DEF ScopedNode, AtWork
<1> QED BY <1>5, <1>9, <1>12, <1>13 DEF Kept, Typed

LEMMA SerialReturnsKeeps == ASSUME Scoped, NEW n \in Node, SerialReturns(n) PROVE Kept(n)
<1>1. st[n] = "running" /\ st[Current(n)] \in Returned /\ at' = at
  BY DEF SerialReturns, Awaited
<1>2. KidsDone(n) BY <1>1, AwaitedKids DEF SerialReturns, Ended
<1>3. Return(n, st[Current(n)], FALSE, usage[n] + usage[Current(n)]) BY DEF SerialReturns
<1> QED BY <1>1, <1>2, <1>3, Returning

LEMMA FlowReturnsKeeps == ASSUME Scoped, NEW n \in Node, FlowReturns(n) PROVE Kept(n)
<1>1. st[n] = "running" /\ st[Current(n)] \in Returned /\ at' = at
  BY DEF FlowReturns, Awaited
<1>2. KidsDone(n) BY <1>1, AwaitedKids DEF FlowReturns, Ended
<1>3. Return(n, "ok", Current(n) \in paused, usage[n] + usage[Current(n)]) BY DEF FlowReturns
<1> QED BY <1>1, <1>2, <1>3, Returning DEF Returned

LEMMA ChoiceReturnsKeeps == ASSUME Scoped, NEW n \in Node, ChoiceReturns(n) PROVE Kept(n)
<1>1. st[n] = "running" /\ st[Current(n)] \in Returned /\ at' = at
  BY DEF ChoiceReturns, Awaited
<1>2. KidsDone(n) BY <1>1, AwaitedKids DEF ChoiceReturns, Ended
<1>3. Return(n, st[Current(n)], FALSE, usage[Current(n)]) BY DEF ChoiceReturns
<1> QED BY <1>1, <1>2, <1>3, Returning

LEMMA KidRaisesKeeps == ASSUME Scoped, NEW n \in Node, KidRaises(n) PROVE Kept(n)
<1>1. st[n] = "running" /\ st[Current(n)] \in Raised BY DEF KidRaises
<1>2. KidsDone(n) BY <1>1, AwaitedKids DEF KidRaises, Ended
<1> QED BY <1>1, <1>2, Raising DEF KidRaises

LEMMA FanReturnsKeeps == ASSUME Scoped, NEW n \in Node, FanReturns(n) PROVE Kept(n)
<1>1. st[n] = "running" /\ at' = at /\ Return(n, "ok", FALSE, Gathered(n)) BY DEF FanReturns
<1>2. KidsDone(n) BY DEF FanReturns, AllReturned, KidsDone, AtWork, Returned
<1> QED BY <1>1, <1>2, Returning DEF Returned

LEMMA FanRaisesKeeps == ASSUME Scoped, NEW n \in Node, FanRaises(n) PROVE Kept(n)
<1>1. PICK c \in KidSet(n) : st[c] \in Raised /\ Raise(n, st[c]) BY DEF FanRaises
<1>2. st[n] = "running" /\ KidsDone(n) BY <1>1 DEF FanRaises, KidsDone, GatherRaised
<1> QED BY <1>1, <1>2, Raising

LEMMA FallbackEndsKeeps == ASSUME Scoped, NEW n \in Node, FallbackEnds(n) PROVE Kept(n)
<1>1. /\ st[n] = "falling" /\ st[Else[n]] \in Ended /\ at' = at
      /\ st' = [st EXCEPT ![n] = st[Else[n]]]
  BY DEF FallbackEnds
<1>2. KidsDone(n) BY <1>1 DEF Scoped, ScopedNode, KidsDone
<1>3. AtWork(n) /\ ~AtWork(Else[n]) BY <1>1 DEF AtWork, Ended, Returned, Raised
<1> QED BY <1>1, <1>2, <1>3, Ending

-----------------------------------------------------------------------------
LEMMA ScopedInit == Init => Scoped
<1> SUFFICES ASSUME Init PROVE Scoped OBVIOUS
<1> USE TreeFacts
<1>1. Typed BY DEF Init, Typed, Status
<1>2. \A n \in Node : st[n] = IF n = Root THEN "ready" ELSE "idle" BY DEF Init
<1>3. ASSUME NEW p \in Node PROVE FreshNode(p) /\ ScopedNode(p)
  <2>1. \A c \in KidSet(p) : c # Root BY TreeAssumption
  <2>2. Else[p] # NoNode => Else[p] # Root BY TreeAssumption
  <2>3. \A c \in KidSet(p) : st[c] = "idle" BY <1>2, <2>1
  <2>4. Else[p] # NoNode => st[Else[p]] = "idle" BY <1>2, <2>2
  <2>5. st[p] \in {"idle", "ready"} BY <1>2
  <2> QED BY <2>3, <2>4, <2>5 DEF FreshNode, ScopedNode, AtWork
<1> QED BY <1>1, <1>3 DEF Scoped

LEMMA StepKeeps == ASSUME Scoped, NEW n \in Node, Step(n) PROVE Kept(n)
  BY SkipKeeps, StartKeeps, StartConflictsKeeps, RouteKeeps, RouteNowhereKeeps,
     AgentEndsKeeps, SerialNextKeeps, SerialReturnsKeeps, FlowReturnsKeeps,
     ChoiceReturnsKeeps, KidRaisesKeeps, FanReturnsKeeps, FanRaisesKeeps,
     FallbackEndsKeeps DEF Step

LEMMA ScopedStep == Scoped /\ [Next]_vars => Scoped'
<1> SUFFICES ASSUME Scoped, [Next]_vars PROVE Scoped' OBVIOUS
<1>2. ASSUME NEW n \in Node, Step(n) PROVE Scoped'
  <2>1. Kept(n) BY <1>2, StepKeeps
  <2>2. ASSUME NEW p \in Node PROVE FreshNode(p)' /\ ScopedNode(p)'
    BY <2>1, Others DEF Kept
  <2> QED BY <2>1, <2>2 DEF Scoped, Kept
<1>3. CASE UNCHANGED vars
  BY <1>3 DEF vars, Scoped, Typed, FreshNode, ScopedNode, GatherRaised, AtWork, Sequenced
<1> QED BY <1>2, <1>3 DEF Next

\* In every tree of patterns, a unit that has returned, raised or gone on to
\* its fallback has left no kid at work, unless it is a fan of which a branch
\* raised (asyncio.gather in ParallelAgent.run and MapAgent.run).
THEOREM ScopedSafe == Spec => []ScopedRuns
<1>1. Scoped => ScopedRuns
  BY TreeFacts DEF Scoped, ScopedNode, ScopedRuns
<1> QED BY <1>1, ScopedInit, ScopedStep, PTL DEF Spec

-----------------------------------------------------------------------------
(* The types, and the permits of a fan.                                     *)

\* The recursive function of Gathered is what its equation says.
Sums(n, f) ==
  f = [i \in 0..Len(Kids[n]) |-> IF i = 0 THEN 0 ELSE f[i - 1] + usage[Kids[n][i]]]

LEMMA GatheredDef ==
  ASSUME usage \in [Node -> Nat], NEW n \in Node
  PROVE  \E f \in [0..Len(Kids[n]) -> Nat] : Sums(n, f) /\ Gathered(n) = f[Len(Kids[n])]
<1> DEFINE N == Len(Kids[n])
           u(i) == usage[Kids[n][i]]
           Eqn(f, m) == f = [i \in 0..m |-> IF i = 0 THEN 0 ELSE f[i - 1] + u(i)]
           T == {m \in 0..N : \E f \in [0..m -> Nat] : Eqn(f, m)}
<1>0. N \in Nat /\ \A i \in 1..N : u(i) \in Nat
  BY TreeFacts
<1> HIDE DEF N, u
<1>1. 0 \in T
  <2> DEFINE f == [i \in 0..0 |-> 0]
  <2>1. f \in [0..0 -> Nat] /\ Eqn(f, 0) OBVIOUS
  <2> HIDE DEF f, Eqn
  <2> QED BY <2>1, <1>0
<1>2. ASSUME NEW m \in 1..N, m - 1 \in T PROVE m \in T
  <2>1. PICK f \in [0..(m - 1) -> Nat] : Eqn(f, m - 1) BY <1>2
  <2> DEFINE last == f[m - 1] + u(m)
             g == [i \in 0..m |-> IF i = m THEN last ELSE f[i]]
  <2>2. last \in Nat BY <1>0
  <2>3. \A i \in 0..(m - 1) : g[i] = f[i] OBVIOUS
  <2>4. g[m] = last OBVIOUS
  <2>5. g \in [0..m -> Nat]
    <3>1. \A i \in 0..m : i = m \/ i \in 0..(m - 1) OBVIOUS
    <3> QED BY <2>2, <3>1
  <2>6. \A i \in 0..m : g[i] = IF i = 0 THEN 0 ELSE g[i - 1] + u(i)
    <3> SUFFICES ASSUME NEW i \in 0..m PROVE g[i] = IF i = 0 THEN 0 ELSE g[i - 1] + u(i)
      OBVIOUS
    <3>1. CASE i = m BY <2>3, <2>4, <3>1
    <3>2. CASE i # m
      <4>1. i \in 0..(m - 1) BY <3>2
      <4>2. f[i] = IF i = 0 THEN 0 ELSE f[i - 1] + u(i) BY <2>1, <4>1
      <4>3. i = 0 \/ i - 1 \in 0..(m - 1) BY <4>1
      <4> QED BY <2>3, <4>1, <4>2, <4>3
    <3> QED BY <3>1, <3>2
  <2> HIDE DEF last
  <2>7. Eqn(g, m) BY <2>6
  <2>8. m \in 0..N OBVIOUS
  <2> HIDE DEF Eqn, g
  <2> QED BY <2>5, <2>7, <2>8
<1> HIDE DEF T
<1>3. N \in T
  <2>1. \A i \in 0..N : i \in T BY <1>0, <1>1, <1>2, UpTo
  <2> QED BY <1>0, <2>1
<1>4. PICK f \in [0..N -> Nat] : Eqn(f, N) BY <1>3 DEF T
<1> DEFINE h == CHOOSE g : Eqn(g, N)
<1>5. Gathered(n) = h[N] BY Zenon DEF Gathered, N, u
<1> HIDE DEF Eqn
<1>6. Eqn(h, N) BY <1>4, Zenon
<1> HIDE DEF h
<1>7. h = [i \in 0..N |-> IF i = 0 THEN 0 ELSE h[i - 1] + u(i)] BY <1>6 DEF Eqn
<1>8. h \in [0..N -> Nat]
  <2> DEFINE S == {i \in 0..N : h[i] \in Nat}
  <2>1. 0 \in S BY <1>0, <1>7
  <2>2. ASSUME NEW i \in 1..N, i - 1 \in S PROVE i \in S
    <3>1. h[i] = h[i - 1] + u(i) BY <1>7, <2>2
    <3> QED BY <1>0, <2>2, <3>1
  <2> HIDE DEF S
  <2>3. \A i \in 0..N : i \in S BY <1>0, <2>1, <2>2, UpTo
  <2>4. \A i \in 0..N : h[i] \in Nat BY <2>3 DEF S
  <2> QED BY <1>7, <2>4
<1>9. Sums(n, h) BY <1>7 DEF Sums, N, u
<1> QED BY <1>5, <1>8, <1>9 DEF N

LEMMA GatheredType ==
  ASSUME usage \in [Node -> Nat], NEW n \in Node
  PROVE  Gathered(n) \in Nat
<1>1. Len(Kids[n]) \in 0..Len(Kids[n]) BY TreeFacts
<1> QED BY <1>1, GatheredDef

\* A fan has finitely many kids.
LEMMA FewKids == ASSUME NEW p \in Node PROVE IsFiniteSet(KidSet(p))
<1> DEFINE N == Len(Kids[p])
<1>1. N \in Nat BY TreeFacts
<1>2. IsFiniteSet(1..N) BY <1>1, FS_Interval
<1> DEFINE f == [i \in 1..N |-> Kids[p][i]]
<1>3. f \in Surjection(1..N, KidSet(p))
  BY Zenon DEF Surjection, KidSet
<1> QED BY <1>2, <1>3, FS_Surjection

PermitsKept == \A p \in Node : Kind[p] = "fan" => Cardinality(Inside(p)) <= Width[p]

LEMMA InsideFacts ==
  ASSUME NEW p \in Node
  PROVE  /\ IsFiniteSet(Inside(p)) /\ Cardinality(Inside(p)) \in Nat
         /\ IsFiniteSet(Inside(p)') /\ Cardinality(Inside(p)') \in Nat
<1>1. Inside(p) \subseteq KidSet(p) /\ Inside(p)' \subseteq KidSet(p) BY DEF Inside
<1>2. IsFiniteSet(Inside(p)) /\ IsFiniteSet(Inside(p)') BY <1>1, FewKids, FS_Subset
<1> QED BY <1>2, FS_CardinalityType

\* A step lets at most its own node past a semaphore, and with a permit.
LEMMA Permitted ==
  ASSUME Scoped, PermitsKept, NEW n \in Node, Frame(n),
         st'[n] \in {"running", "falling"} => st[n] \in {"running", "falling"} \/ MayEnter(n)
  PROVE  PermitsKept'
<1> SUFFICES ASSUME NEW p \in Node, Kind[p] = "fan"
             PROVE  Cardinality(Inside(p)') <= Width[p]
  BY DEF PermitsKept
<1>0. Width[p] \in Nat /\ Cardinality(Inside(p)) <= Width[p] BY TreeAssumption DEF PermitsKept
<1>1. Inside(p)' \subseteq Inside(p) \cup {n}
  BY TreeFacts DEF Inside, Frame
<1>2. CASE Inside(p)' \subseteq Inside(p)
  <2>1. Cardinality(Inside(p)') <= Cardinality(Inside(p)) BY <1>2, InsideFacts, FS_Subset
  <2> QED BY <1>0, <2>1, InsideFacts
<1>3. CASE ~(Inside(p)' \subseteq Inside(p))
  <2>1. n \in Inside(p)' /\ n \notin Inside(p) BY <1>1, <1>3
  <2>2. n \in KidSet(p) /\ MayEnter(n) BY <2>1 DEF Inside
  <2>3. Parent[n] = p /\ p # NoNode BY <2>2, TreeFacts, TreeAssumption
  <2>4. Cardinality(Inside(p)) < Width[p] BY <2>2, <2>3 DEF MayEnter, Branch
  <2>5. /\ IsFiniteSet(Inside(p) \cup {n})
        /\ Cardinality(Inside(p) \cup {n}) = Cardinality(Inside(p)) + 1
    BY <2>1, InsideFacts, FS_AddElement
  <2>6. Cardinality(Inside(p)') <= Cardinality(Inside(p) \cup {n}) BY <1>1, <2>5, FS_Subset
  <2> QED BY <1>0, <2>4, <2>5, <2>6, InsideFacts
<1> QED BY <1>2, <1>3

LEMMA Entering ==
  ASSUME Scoped, NEW n \in Node, Step(n)
  PROVE  st'[n] \in {"running", "falling"} => st[n] \in {"running", "falling"} \/ MayEnter(n)
  BY DEF Step, Skip, Start, StartConflicts, Route, RouteNowhere, AgentEnds, SerialNext,
         SerialReturns, FlowReturns, ChoiceReturns, KidRaises, FanReturns, FanRaises, FallbackEnds

Worked == usage \in [Node -> Nat] /\ paused \subseteq Node /\ holder \in [Key -> Node \cup {NoNode}]

LEMMA ReturnTypes ==
  ASSUME Worked, NEW n \in Node, NEW s, NEW pausing, NEW spent \in Nat, Return(n, s, pausing, spent)
  PROVE  Worked'
<1>1. usage' \in [Node -> Nat] /\ paused' \subseteq Node BY DEF Worked, Return
<1>2. Writes[n] # NoKey => Writes[n] \in Key BY TreeAssumption
<1>3. holder' \in [Key -> Node \cup {NoNode}] BY <1>2 DEF Worked, Return, Capture
<1> QED BY <1>1, <1>3 DEF Worked

\* The kid a node awaits.
LEMMA CurrentKid ==
  ASSUME Scoped, NEW n \in Node, st[n] = "running", Kind[n] # "agent"
  PROVE  Current(n) \in KidSet(n) /\ Current(n) \in Node /\ at[n] \in 1..Len(Kids[n])
  BY TreeFacts DEF Scoped, FreshNode, Current

LEMMA WorkedStep == ASSUME Scoped, Worked, NEW n \in Node, Step(n) PROVE Worked'
<1>0. usage \in [Node -> Nat] BY DEF Worked
<1>1. CASE UNCHANGED <<usage, paused, holder>>
  BY <1>1 DEF Worked
<1>2. CASE \E s, pausing : \E spent \in Nat : Return(n, s, pausing, spent)
  BY <1>2, ReturnTypes
<1>3. CASE Skip(n) \/ Start(n) \/ StartConflicts(n) \/ Route(n) \/ KidRaises(n) \/ FanRaises(n)
  BY <1>1, <1>3 DEF Skip, Start, StartConflicts, Route, KidRaises, FanRaises, Raise
<1>4. CASE RouteNowhere(n) \/ AgentEnds(n)
  BY <1>1, <1>2, <1>4 DEF RouteNowhere, AgentEnds, Raise
<1>5. CASE SerialNext(n)
  <2>1. Current(n) \in Node BY <1>5, CurrentKid DEF SerialNext
  <2> DEFINE v == usage[n] + usage[Current(n)]
  <2>2. v \in Nat BY <1>0, <2>1
  <2>3. usage' = [usage EXCEPT ![n] = v] /\ UNCHANGED <<paused, holder>>
    BY <1>5 DEF SerialNext
  <2> HIDE DEF v
  <2> QED BY <2>2, <2>3 DEF Worked
<1>6. CASE SerialReturns(n) \/ FlowReturns(n) \/ ChoiceReturns(n)
  <2>1. Current(n) \in Node
    BY <1>6, CurrentKid DEF SerialReturns, FlowReturns, ChoiceReturns
  <2>2. usage[Current(n)] \in Nat /\ usage[n] + usage[Current(n)] \in Nat BY <1>0, <2>1
  <2> QED BY <1>2, <1>6, <2>2 DEF SerialReturns, FlowReturns, ChoiceReturns
<1>7. CASE FanReturns(n)
  BY <1>0, <1>2, <1>7, GatheredType DEF FanReturns
<1>8. CASE FallbackEnds(n)
  <2>1. Else[n] \in Node BY <1>8, TreeFacts DEF Scoped, FreshNode, FallbackEnds
  <2> QED BY <1>8, <2>1 DEF Worked, FallbackEnds
<1> QED BY <1>3, <1>4, <1>5, <1>6, <1>7, <1>8 DEF Step

TypeInv == Scoped /\ Worked /\ PermitsKept

LEMMA TypeInit == Init => TypeInv
<1> SUFFICES ASSUME Init PROVE TypeInv OBVIOUS
<1>1. Worked BY DEF Init, Worked
<1>2. ASSUME NEW p \in Node, Kind[p] = "fan" PROVE Cardinality(Inside(p)) <= Width[p]
  <2>1. Inside(p) = {} BY TreeFacts DEF Init, Inside
  <2>2. Width[p] \in Nat BY TreeAssumption
  <2> QED BY <2>1, <2>2, FS_EmptySet
<1> QED BY <1>1, <1>2, ScopedInit DEF TypeInv, PermitsKept

LEMMA TypeStep == TypeInv /\ [Next]_vars => TypeInv'
<1> SUFFICES ASSUME TypeInv, [Next]_vars PROVE TypeInv' OBVIOUS
<1>0. Scoped' BY ScopedStep DEF TypeInv
<1>1. ASSUME NEW n \in Node, Step(n) PROVE TypeInv'
  <2>1. Kept(n) BY <1>1, StepKeeps DEF TypeInv
  <2>2. PermitsKept' BY <1>1, <2>1, Entering, Permitted DEF TypeInv, Kept
  <2> QED BY <1>0, <1>1, <2>2, WorkedStep DEF TypeInv
<1>2. CASE UNCHANGED vars
  BY <1>0, <1>2 DEF vars, TypeInv, Worked, PermitsKept, Inside
<1> QED BY <1>1, <1>2 DEF Next

\* Every variable keeps its type, and at no time are more branches of a parallel
\* or map step past its semaphore than it has permits, whether they run, fall
\* back or outlive it (the `async with sem` of ParallelAgent.run and MapAgent.run).
THEOREM TypeCorrect == Spec => []TypeOK
<1>1. TypeInv => TypeOK
  BY DEF TypeInv, Scoped, Typed, Worked, PermitsKept, TypeOK
<1> QED BY <1>1, TypeInit, TypeStep, PTL DEF Spec

-----------------------------------------------------------------------------
(* The tree, for what has to be said of everything under a node.            *)

Under(n) == KidSet(n) \cup ({Else[n]} \ {NoNode})

LEMMA UnderFacts ==
  ASSUME NEW n \in Node, NEW c \in Under(n)
  PROVE  c \in Node /\ Parent[c] = n /\ c # n
  BY TreeFacts DEF Under

LEMMA TreeInduction ==
  ASSUME NEW T, \A n \in Node : Under(n) \subseteq T => n \in T
  PROVE  \A n \in Node : n \in T
<1> DEFINE S == Node \ T
<1> SUFFICES ASSUME S # {} PROVE FALSE OBVIOUS
<1>1. PICK n \in S : \A c \in S : Parent[c] # n BY FiniteTree
<1>2. \A c \in Under(n) : c \in Node /\ Parent[c] = n BY UnderFacts
<1>3. Under(n) \subseteq T BY <1>1, <1>2
<1> QED BY <1>3

\* Below is what its equation says: the least closed sets satisfy it.
LEMMA BelowDef == Below = [n \in Node |-> {n} \cup UNION {Below[c] : c \in Under(n)}]
<1> DEFINE Eqn(f) == f = [n \in Node |-> {n} \cup UNION {f[c] : c \in Under(n)}]
           Closed == {S \in SUBSET Node : \A m \in S : Under(m) \subseteq S}
           L == [n \in Node |-> {d \in Node : \A S \in Closed : n \in S => d \in S}]
<1>0. \A n \in Node : \A d :
        d \in L[n] <=> d \in Node /\ \A S \in Closed : n \in S => d \in S
  OBVIOUS
<1>d. DOMAIN L = Node /\ L = [n \in Node |-> L[n]]
  OBVIOUS
<1> HIDE DEF L
<1>1. ASSUME NEW n \in Node PROVE L[n] = {n} \cup UNION {L[c] : c \in Under(n)}
  <2> DEFINE U == {n} \cup UNION {L[c] : c \in Under(n)}
  <2>0. \A x : x \in U <=> x = n \/ \E c \in Under(n) : x \in L[c]
    OBVIOUS
  <2> HIDE DEF U
  <2>1. \A c \in Under(n) : c \in Node BY UnderFacts
  <2>2. n \in L[n] /\ \A c \in Under(n) : c \in L[c] BY <1>0, <2>1
  <2>3. \A c \in Node : L[c] \subseteq Node /\ \A m \in L[c] : Under(m) \subseteq L[c]
    <3> SUFFICES ASSUME NEW c \in Node, NEW m \in L[c], NEW e \in Under(m) PROVE e \in L[c]
      BY <1>0
    <3>1. m \in Node /\ e \in Node BY <1>0, UnderFacts
    <3>2. ASSUME NEW S \in Closed, c \in S PROVE e \in S
      <4>1. m \in S BY <1>0, <3>2
      <4> QED BY <3>2, <4>1
    <3> QED BY <1>0, <3>1, <3>2
  <2>4. U \in Closed
    <3>1. U \subseteq Node BY <2>0, <2>1, <2>3
    <3>2. ASSUME NEW m \in U PROVE Under(m) \subseteq U
      <4>1. CASE m = n BY <2>0, <2>2, <4>1
      <4>2. CASE m # n
        <5>1. PICK c \in Under(n) : m \in L[c] BY <2>0, <3>2, <4>2
        <5>2. Under(m) \subseteq L[c] BY <2>1, <2>3, <5>1
        <5> QED BY <2>0, <5>1, <5>2
      <4> QED BY <4>1, <4>2
    <3> QED BY <3>1, <3>2
  <2>5. L[n] \subseteq U
    <3>1. n \in U BY <2>0
    <3> HIDE DEF Closed
    <3> QED BY <1>0, <2>4, <3>1
  <2>6. \A d \in U : d \in L[n]
    <3> SUFFICES ASSUME NEW c \in Under(n), NEW d \in L[c] PROVE d \in L[n]
      BY <2>0, <2>2
    <3>1. c \in Node /\ d \in Node BY <1>0, <2>1
    <3>2. ASSUME NEW S \in Closed, n \in S PROVE d \in S
      <4>1. c \in S BY <3>2
      <4> QED BY <1>0, <3>1, <3>2, <4>1
    <3> HIDE DEF Closed
    <3> QED BY <1>0, <3>1, <3>2
  <2>7. L[n] = U BY <2>5, <2>6
  <2> QED BY <2>7 DEF U
<1>2. Eqn(L)
  BY <1>1, <1>d
<1>3. Below = CHOOSE f : Eqn(f) BY Zenon DEF Below, Under
<1> HIDE DEF Eqn, L
<1>4. Eqn(Below) BY <1>2, <1>3, Zenon
<1> QED BY <1>4 DEF Eqn

LEMMA BelowIn ==
  ASSUME NEW n \in Node
  PROVE  \A x : x \in Below[n] <=> x = n \/ \E c \in Under(n) : x \in Below[c]
<1> DEFINE B == Below
<1>1. B = [m \in Node |-> {m} \cup UNION {B[c] : c \in Under(m)}] BY BelowDef
<1> HIDE DEF B
<1>2. B[n] = {n} \cup UNION {B[c] : c \in Under(n)} BY <1>1
<1>3. \A x : x \in B[n] <=> x = n \/ \E c \in Under(n) : x \in B[c] BY <1>2
<1> QED BY <1>3 DEF B

LEMMA BelowNodes == \A n \in Node : n \in Below[n] /\ Below[n] \subseteq Node
<1> DEFINE T == {n \in Node : Below[n] \subseteq Node}
<1>1. ASSUME NEW n \in Node, Under(n) \subseteq T PROVE n \in T
  BY <1>1, BelowIn
<1> HIDE DEF T
<1>2. \A n \in Node : n \in T BY <1>1, TreeInduction
<1> QED BY <1>2, BelowIn DEF T

LEMMA BelowTrans == \A n \in Node : \A m \in Below[n] : Below[m] \subseteq Below[n]
<1> DEFINE T == {n \in Node : \A m \in Below[n] : Below[m] \subseteq Below[n]}
<1>1. ASSUME NEW n \in Node, Under(n) \subseteq T PROVE n \in T
  <2>1. ASSUME NEW m \in Below[n] PROVE Below[m] \subseteq Below[n]
    <3>1. CASE m = n BY <3>1
    <3>2. CASE m # n
      <4>1. PICK c \in Under(n) : m \in Below[c] BY <2>1, <3>2, BelowIn
      <4>2. Below[m] \subseteq Below[c] BY <1>1, <4>1
      <4>3. Below[c] \subseteq Below[n] BY BelowIn
      <4> QED BY <4>2, <4>3
    <3> QED BY <3>1, <3>2
  <2> QED BY <2>1
<1> HIDE DEF T
<1>2. \A n \in Node : n \in T BY <1>1, TreeInduction
<1> QED BY <1>2 DEF T

\* The way up from a node under n stays under n until it reaches n.
LEMMA BelowUp == \A n \in Node : \A x \in Below[n] : x # n => Parent[x] \in Below[n]
<1> DEFINE T == {n \in Node : \A x \in Below[n] : x # n => Parent[x] \in Below[n]}
<1>1. ASSUME NEW n \in Node, Under(n) \subseteq T PROVE n \in T
  <2>1. ASSUME NEW x \in Below[n], x # n PROVE Parent[x] \in Below[n]
    <3>1. PICK c \in Under(n) : x \in Below[c] BY <2>1, BelowIn
    <3>2. Parent[c] = n /\ n \in Below[n] /\ Below[c] \subseteq Below[n]
      BY UnderFacts, BelowIn
    <3>3. x # c => Parent[x] \in Below[c] BY <1>1, <3>1
    <3> QED BY <3>2, <3>3
  <2> QED BY <2>1
<1> HIDE DEF T
<1>2. \A n \in Node : n \in T BY <1>1, TreeInduction
<1> QED BY <1>2 DEF T

\* No node is under a node that is under it.
LEMMA NoCycle == ASSUME NEW n \in Node, NEW d \in Under(n) PROVE n \notin Below[d]
<1> SUFFICES ASSUME n \in Below[d] PROVE FALSE OBVIOUS
<1>0. d \in Node BY UnderFacts
<1> DEFINE S == {m \in Below[d] : d \in Below[m]}
<1>1. n \in S
  <2>1. d \in Below[d] BY <1>0, BelowNodes
  <2> QED BY <2>1, BelowIn
<1>2. S \subseteq Node BY <1>0, BelowNodes
<1>3. PICK m \in S : \A c \in S : Parent[c] # m
  <2> HIDE DEF S
  <2> QED BY <1>1, <1>2, FiniteTree
<1>4. \A c \in Under(m) : c \notin S /\ c \in Node /\ c \in Below[m]
  BY <1>2, <1>3, UnderFacts, BelowIn, BelowNodes
<1>5. \A c \in Under(m) : c \in Below[d]
  BY <1>0, <1>4, BelowTrans
<1>6. CASE m # d
  <2>1. PICK c \in Under(m) : d \in Below[c] BY <1>2, <1>6, BelowIn
  <2> QED BY <1>4, <1>5, <2>1
<1>7. CASE m = d
  <2>1. n # d BY UnderFacts
  <2>2. PICK c \in Under(d) : n \in Below[c] BY <1>0, <2>1, BelowIn
  <2>3. c \in Node BY <1>0, <2>2, UnderFacts
  <2>4. d \in Below[n] BY <1>1
  <2>5. d \in Below[c] BY <2>2, <2>3, <2>4, BelowTrans
  <2> QED BY <1>4, <1>5, <1>7, <2>2, <2>5
<1> QED BY <1>6, <1>7

\* Two nodes with something under both are one under the other.
LEMMA Comparable ==
  \A c \in Node : \A d \in Node : \A x :
     x \in Below[c] /\ x \in Below[d] => c \in Below[d] \/ d \in Below[c]
<1> DEFINE T == {c \in Node : \A d \in Node : \A x :
                   x \in Below[c] /\ x \in Below[d] => c \in Below[d] \/ d \in Below[c]}
<1>1. ASSUME NEW c \in Node, Under(c) \subseteq T PROVE c \in T
  <2>1. ASSUME NEW d \in Node, NEW x, x \in Below[c], x \in Below[d]
        PROVE  c \in Below[d] \/ d \in Below[c]
    <3>1. CASE x = c BY <2>1, <3>1
    <3>2. CASE x # c
      <4>1. PICK e \in Under(c) : x \in Below[e] BY <2>1, <3>2, BelowIn
      <4>2. e \in Below[d] \/ d \in Below[e] BY <1>1, <2>1, <4>1
      <4>3. Below[e] \subseteq Below[c] /\ e \in Node /\ Parent[e] = c /\ e \in Below[c]
        BY <4>1, BelowIn, UnderFacts, BelowNodes
      <4>4. CASE e \in Below[d] /\ e # d
        <5>1. Parent[e] \in Below[d] BY <4>4, BelowUp
        <5> QED BY <4>3, <5>1
      <4> QED BY <4>2, <4>3, <4>4
    <3> QED BY <3>1, <3>2
  <2> QED BY <2>1
<1> HIDE DEF T
<1>2. \A n \in Node : n \in T BY <1>1, TreeInduction
<1> QED BY <1>2 DEF T

\* What is under two kids of a node is disjoint, and the node is under neither.
LEMMA Siblings ==
  ASSUME NEW n \in Node, NEW c \in Under(n), NEW d \in Under(n), c # d
  PROVE  \A x : ~(x \in Below[c] /\ x \in Below[d])
<1> SUFFICES ASSUME NEW x, x \in Below[c], x \in Below[d] PROVE FALSE OBVIOUS
<1>1. /\ c \in Node /\ Parent[c] = n /\ d \in Node /\ Parent[d] = n
  BY UnderFacts
<1>2. n \notin Below[c] /\ n \notin Below[d] BY NoCycle
<1>3. c \in Below[d] \/ d \in Below[c] BY <1>1, Comparable
<1> QED BY <1>1, <1>2, <1>3, BelowUp

\* Nothing has started under a node that has not.
LEMMA IdleBelow ==
  ASSUME Scoped
  PROVE  \A n \in Node : st[n] = "idle" => \A d \in Below[n] : st[d] = "idle"
<1> DEFINE T == {n \in Node : st[n] = "idle" => \A d \in Below[n] : st[d] = "idle"}
<1>1. ASSUME NEW n \in Node, Under(n) \subseteq T PROVE n \in T
  <2>1. ASSUME st[n] = "idle", NEW c \in Under(n) PROVE st[c] = "idle"
    BY <2>1 DEF Scoped, FreshNode, Under
  <2>2. ASSUME st[n] = "idle", NEW d \in Below[n], d # n PROVE st[d] = "idle"
    <3>1. PICK c \in Under(n) : d \in Below[c] BY <2>2, BelowIn
    <3> QED BY <1>1, <2>1, <2>2, <3>1
  <2> QED BY <2>2
<1> HIDE DEF T
<1>2. \A n \in Node : n \in T BY <1>1, TreeInduction
<1> QED BY <1>2 DEF T

\* Nothing is at work under a node that is not, but for what a fan that raised left.
LEMMA QuietBelow ==
  ASSUME Scoped
  PROVE  \A n \in Node : ~AtWork(n) /\ (\A p \in Below[n] : ~GatherRaised(p))
                           => \A d \in Below[n] : ~AtWork(d)
<1> DEFINE Q(n) == ~AtWork(n) /\ (\A p \in Below[n] : ~GatherRaised(p))
                     => \A d \in Below[n] : ~AtWork(d)
           T == {n \in Node : Q(n)}
<1>1. ASSUME NEW n \in Node, Under(n) \subseteq T PROVE n \in T
  <2> SUFFICES ASSUME ~AtWork(n), \A p \in Below[n] : ~GatherRaised(p),
                      NEW d \in Below[n], d # n
               PROVE  ~AtWork(d)
    OBVIOUS
  <2>1. PICK c \in Under(n) : d \in Below[c] BY BelowIn
  <2>2. ~GatherRaised(n) BY BelowNodes
  <2>3. ~AtWork(c)
    <3>1. ScopedNode(n) BY DEF Scoped
    <3>2. CASE c \in KidSet(n) BY <2>2, <3>1, <3>2 DEF ScopedNode, AtWork
    <3>3. CASE c = Else[n] /\ c # NoNode BY <3>1, <3>3 DEF ScopedNode, AtWork
    <3> QED BY <2>1, <3>2, <3>3 DEF Under
  <2>4. \A p \in Below[c] : ~GatherRaised(p) BY <2>1, BelowIn
  <2>5. c \in Node BY <2>1, UnderFacts
  <2>6. Q(c) BY <1>1, <2>1
  <2> QED BY <2>1, <2>3, <2>4, <2>6
<1> HIDE DEF T
<1>2. \A n \in Node : n \in T BY <1>1, TreeInduction
<1> QED BY <1>2 DEF T

-----------------------------------------------------------------------------
(* The order of a pipeline: the kids after the one it is at have not        *)
(* started, and those before it are not at work, also when it is over.      *)

SeqAt(n) == Sequenced(n) =>
  \A i \in 1..Len(Kids[n]) :
    /\ i > at[n] => st[Kids[n][i]] = "idle"
    /\ i < at[n] => ~AtWork(Kids[n][i])

\* What a step of n does to its own place, and to its kids.
LEMMA OwnKids ==
  ASSUME Scoped, NEW n \in Node, Step(n)
  PROVE  \/ st'[n] = "running"
         \/ at' = at /\ \A c \in KidSet(n) : st'[c] = st[c]
<1> USE TreeFacts
<1>0. st \in [Node -> Status] BY DEF Scoped, Typed
<1>1. \A how : Raise(n, how) => at' = at /\ \A c \in KidSet(n) : st'[c] = st[c]
  BY <1>0 DEF Raise
<1>2. \A s, pausing, spent : Return(n, s, pausing, spent) => \A c \in KidSet(n) : st'[c] = st[c]
  BY <1>0 DEF Return
<1>3. Skip(n) => at' = at /\ \A c \in KidSet(n) : st'[c] = st[c]
  BY <1>0 DEF Skip
<1>4. Start(n) \/ Route(n) => st'[n] = "running"
  BY <1>0 DEF Start, Route
<1>5. SerialNext(n) => st'[n] = "running"
  <2>1. SUFFICES ASSUME SerialNext(n) PROVE st'[n] = "running" OBVIOUS
  <2>2. Frame(n) /\ FreshNode(n) BY <2>1, SerialNextKeeps DEF Kept, Scoped
  <2>3. at[n] + 1 \in 1..Len(Kids[n])
    BY <2>1, <2>2 DEF SerialNext, FreshNode
  <2>4. Kids[n][at[n] + 1] # n BY <2>3
  <2> QED BY <1>0, <2>1, <2>4 DEF SerialNext
<1>6. FallbackEnds(n) => at' = at /\ \A c \in KidSet(n) : st'[c] = st[c]
  BY <1>0 DEF FallbackEnds
<1> DEFINE Same == at' = at /\ \A c \in KidSet(n) : st'[c] = st[c]
<1>7. StartConflicts(n) \/ KidRaises(n) \/ FanRaises(n) => Same
  BY <1>1 DEF StartConflicts, KidRaises, FanRaises
<1>8. RouteNowhere(n) \/ AgentEnds(n) => Same
  BY <1>1, <1>2 DEF RouteNowhere, AgentEnds
<1>9. SerialReturns(n) \/ FlowReturns(n) \/ ChoiceReturns(n) \/ FanReturns(n) => Same
  BY <1>0 DEF SerialReturns, FlowReturns, ChoiceReturns, FanReturns, Return
<1> QED
  BY <1>3, <1>4, <1>5, <1>6, <1>7, <1>8, <1>9, Zenon DEF Step

LEMMA SeqAtStep ==
  ASSUME Scoped, \A p \in Node : SeqAt(p), NEW n \in Node, Step(n), NEW p \in Node
  PROVE  SeqAt(p)'
<1> USE TreeFacts
<1>0. Frame(n) /\ FreshNode(n)' BY StepKeeps DEF Kept
<1>1. CASE p = n /\ st'[n] = "running"
  BY <1>0, <1>1 DEF FreshNode, SeqAt, Sequenced
<1>2. CASE p = n /\ at' = at /\ \A c \in KidSet(n) : st'[c] = st[c]
  BY <1>2 DEF SeqAt, Sequenced, AtWork
<1>3. CASE p # n
  <2>1. at'[p] = at[p] BY <1>0, <1>3 DEF Frame
  <2>2. \A c \in KidSet(p) : c # n => st'[c] = st[c] BY <1>0, <1>3 DEF Frame
  <2>3. \A c \in KidSet(p) : /\ st[c] = "idle" => st'[c] = "idle"
                             /\ ~AtWork(c) => ~AtWork(c)'
    BY <1>0, <2>2 DEF Frame, AtWork
  <2> QED BY <2>1, <2>3 DEF SeqAt, Sequenced
<1> QED BY <1>1, <1>2, <1>3, OwnKids

\* Whoever captures is at work, and puts its own name under its key.
LEMMA Writing ==
  ASSUME Scoped, NEW n \in Node, Step(n)
  PROVE  \/ holder' = holder /\ ~Captured(n)'
         \/ Writes[n] # NoKey /\ holder' = [holder EXCEPT ![Writes[n]] = n]
<1> USE TreeFacts
<1>0. st \in [Node -> Status] BY DEF Scoped, Typed
<1>1. \A how \in Raised : Raise(n, how) => holder' = holder /\ st'[n] # "ok"
  BY <1>0 DEF Raise, Raised
<1>2. ASSUME NEW s, NEW pausing, NEW spent, Return(n, s, pausing, spent)
      PROVE  \/ holder' = holder /\ ~Captured(n)'
             \/ Writes[n] # NoKey /\ holder' = [holder EXCEPT ![Writes[n]] = n]
  <2>1. st'[n] = s BY <1>0, <1>2 DEF Return
  <2> QED BY <1>2, <2>1 DEF Return, Capture, Captured
<1>3. Skip(n) => holder' = holder /\ st'[n] # "ok"
  BY <1>0 DEF Skip
<1>4. Start(n) \/ Route(n) => holder' = holder /\ st'[n] # "ok"
  BY <1>0 DEF Start, Route
<1>5. SerialNext(n) => holder' = holder /\ st'[n] # "ok"
  <2>1. SUFFICES ASSUME SerialNext(n) PROVE holder' = holder /\ st'[n] # "ok" OBVIOUS
  <2>2. FreshNode(n) BY DEF Scoped
  <2>3. at[n] + 1 \in 1..Len(Kids[n]) BY <2>1, <2>2 DEF SerialNext, FreshNode
  <2>4. Kids[n][at[n] + 1] # n BY <2>3
  <2> QED BY <1>0, <2>1, <2>4 DEF SerialNext
<1>6. FallbackEnds(n) => holder' = holder /\ ~Captured(n)'
  <2>1. SUFFICES ASSUME FallbackEnds(n) PROVE holder' = holder /\ ~Captured(n)' OBVIOUS
  <2>2. Else[n] # NoNode BY <2>1 DEF FallbackEnds, Scoped, FreshNode
  <2>3. st'[Else[n]] = st[Else[n]] /\ st[Else[n]] # "idle"
    BY <1>0, <2>1, <2>2 DEF FallbackEnds, Ended, Returned, Raised
  <2> QED BY <2>1, <2>2, <2>3 DEF FallbackEnds, Captured
<1>7. StartConflicts(n) \/ KidRaises(n) \/ FanRaises(n) => holder' = holder /\ st'[n] # "ok"
  BY <1>1 DEF StartConflicts, KidRaises, FanRaises, Raised
<1>8. ASSUME RouteNowhere(n) \/ AgentEnds(n)
      PROVE  \/ holder' = holder /\ ~Captured(n)'
             \/ Writes[n] # NoKey /\ holder' = [holder EXCEPT ![Writes[n]] = n]
  BY <1>1, <1>2, <1>8 DEF RouteNowhere, AgentEnds, Raised, Captured
<1>9. ASSUME SerialReturns(n) \/ FlowReturns(n) \/ ChoiceReturns(n) \/ FanReturns(n)
      PROVE  \/ holder' = holder /\ ~Captured(n)'
             \/ Writes[n] # NoKey /\ holder' = [holder EXCEPT ![Writes[n]] = n]
  <2>1. PICK s : st' = [st EXCEPT ![n] = s] /\ Capture(n, s)
    BY <1>9 DEF SerialReturns, FlowReturns, ChoiceReturns, FanReturns, Return
  <2>2. st'[n] = s BY <1>0, <2>1
  <2> QED BY <2>1, <2>2 DEF Capture, Captured
<1>10. Captured(n)' => st'[n] = "ok" BY DEF Captured
<1> QED BY <1>3, <1>4, <1>5, <1>6, <1>7, <1>8, <1>9, <1>10, Zenon DEF Step

OrderInv == TypeInv /\ (\A n \in Node : SeqAt(n)) /\ CapturesInOrder

\* CapturesInOrder, of one pair of kids.
InOrder(n, i, j) ==
  (\A p \in Below[Kids[n][i]] : ~GatherRaised(p)) =>
    \A d \in Below[Kids[n][j]] : Captured(d) => holder[Writes[d]] \notin Below[Kids[n][i]]

LEMMA InOrderStep ==
  ASSUME OrderInv, NEW m \in Node, Step(m),
         NEW n \in Node, Kind[n] = "serial",
         NEW i \in 1..Len(Kids[n]), NEW j \in 1..Len(Kids[n]), i < j
  PROVE  InOrder(n, i, j)'
<1> DEFINE a == Kids[n][i]
           b == Kids[n][j]
<1>0. Scoped /\ Frame(m) BY StepKeeps DEF OrderInv, TypeInv, Kept
<1>1. a \in KidSet(n) /\ b \in KidSet(n) /\ a \in Node /\ b \in Node BY TreeFacts
<1>2. SUFFICES ASSUME \A p \in Below[a] : ~GatherRaised(p)', NEW d \in Below[b], Captured(d)'
               PROVE  holder'[Writes[d]] \notin Below[a]
  BY DEF InOrder
<1>3. Below[a] \subseteq Node /\ d \in Node BY <1>1, BelowNodes
<1>4. \A p \in Below[a] : ~GatherRaised(p)
  <2> SUFFICES ASSUME NEW p \in Below[a], GatherRaised(p) PROVE GatherRaised(p)' BY <1>2
  <2>1. \A c \in KidSet(p) : st[c] \in Raised => st'[c] \in Raised
    BY <1>0, <1>3, TreeFacts DEF Frame, AtWork, Raised
  <2> QED BY <2>1 DEF GatherRaised
<1>5. st[d] # "idle"
  <2>1. CASE d = m BY <1>0, <2>1 DEF Frame, AtWork
  <2>2. CASE d # m BY <1>0, <1>2, <1>3, <2>2 DEF Frame, Captured
  <2> QED BY <2>1, <2>2
<1>6. st[b] # "idle" BY <1>0, <1>1, <1>5, IdleBelow
<1>7. ~AtWork(a)
  <2>1. SeqAt(n) /\ Sequenced(n) BY DEF OrderInv, Sequenced
  <2>2. at[n] \in Nat BY <1>0 DEF Scoped, Typed
  <2>3. ~(j > at[n]) BY <1>6, <2>1 DEF SeqAt
  <2>4. i < at[n] BY <2>2, <2>3
  <2> QED BY <2>1, <2>4 DEF SeqAt
<1>8. m \notin Below[a]
  <2>1. \A e \in Below[a] : ~AtWork(e) BY <1>0, <1>1, <1>4, <1>7, QuietBelow
  <2> QED BY <1>0, <2>1 DEF Frame
<1>9. Writes[d] \in Key /\ holder \in [Key -> Node \cup {NoNode}]
  BY <1>2, <1>3, TreeAssumption DEF Captured, OrderInv, TypeInv, Worked
<1>10. CASE d = m
  <2>1. holder' = [holder EXCEPT ![Writes[m]] = m] BY <1>0, <1>2, <1>10, Writing
  <2> QED BY <1>8, <1>9, <1>10, <2>1
<1>11. CASE d # m
  <2>1. Captured(d)
    <3>1. st[d] = "ok" /\ Writes[d] # NoKey
      BY <1>0, <1>2, <1>3, <1>11 DEF Captured, Frame
    <3>2. ASSUME Else[d] # NoNode PROVE st[Else[d]] = "idle"
      <4>1. st'[Else[d]] = "idle" /\ Else[d] \in Node
        BY <1>2, <1>3, <3>2, TreeFacts DEF Captured
      <4> QED BY <1>0, <4>1 DEF Frame
    <3> QED BY <3>1, <3>2 DEF Captured
  <2>2. InOrder(n, i, j) BY DEF OrderInv, CapturesInOrder, InOrder
  <2>3. holder[Writes[d]] \notin Below[a] BY <1>4, <2>1, <2>2 DEF InOrder
  <2>4. holder'[Writes[d]] \in {m, holder[Writes[d]]} BY <1>0, <1>9, Writing
  <2> QED BY <1>8, <2>3, <2>4
<1> QED BY <1>10, <1>11

LEMMA OrderInit == Init => OrderInv
<1> SUFFICES ASSUME Init PROVE OrderInv OBVIOUS
<1>1. TypeInv BY TypeInit
<1>2. \A n \in Node : FreshNode(n) /\ st[n] \in {"idle", "ready"} /\ st[n] # "ok"
  BY <1>1 DEF Init, TypeInv, Scoped
<1>3. \A n \in Node : SeqAt(n) BY <1>2, TreeFacts DEF SeqAt, FreshNode, AtWork
<1>4. \A n \in Node : \A i \in 1..Len(Kids[n]) : \A d \in Below[Kids[n][i]] : ~Captured(d)
  BY <1>2, TreeFacts, BelowNodes DEF Captured
<1>5. CapturesInOrder BY <1>4 DEF CapturesInOrder
<1> QED BY <1>1, <1>3, <1>5 DEF OrderInv

LEMMA OrderStep == OrderInv /\ [Next]_vars => OrderInv'
<1> SUFFICES ASSUME OrderInv, [Next]_vars PROVE OrderInv' OBVIOUS
<1>0. TypeInv' BY TypeStep DEF OrderInv
<1>1. ASSUME NEW m \in Node, Step(m) PROVE OrderInv'
  <2>1. \A n \in Node : SeqAt(n)' BY <1>1, SeqAtStep DEF OrderInv, TypeInv
  <2>2. \A n \in Node : Kind[n] = "serial" =>
          \A i, j \in 1..Len(Kids[n]) : i < j => InOrder(n, i, j)'
    BY <1>1, InOrderStep
  <2>3. CapturesInOrder' BY <2>2 DEF CapturesInOrder, InOrder
  <2> QED BY <1>0, <2>1, <2>3 DEF OrderInv
<1>2. CASE UNCHANGED vars
  BY <1>0, <1>2 DEF vars, OrderInv, SeqAt, AtWork, CapturesInOrder, Captured, GatherRaised
<1> QED BY <1>1, <1>2 DEF Next

\* In every tree, what a later step of a pipeline captured is not overwritten by
\* an earlier one, unless a fan under the earlier one raised (SequentialAgent.run
\* and the writes= capture of Step.run).
THEOREM CapturesSafe == Spec => []CapturesInOrder
<1>1. OrderInv => CapturesInOrder
  BY DEF OrderInv
<1> QED BY <1>1, OrderInit, OrderStep, PTL DEF Spec

-----------------------------------------------------------------------------
(* The usage.  What a finished unit reports is the number of agent runs     *)
(* completed under it; while a pipeline is under way its running total is   *)
(* the number completed under the kids it has taken.  The kids of a unit    *)
(* share no node, so that the numbers add up, and under a unit that is not  *)
(* at work, and under which nothing raised, nothing moves any more.         *)

NoRaise(n) == \A d \in Below[n] : st[d] \notin Raised
Done(n) == {d \in Below[n] : Completed(d)}
DoneTo(n, i) == UNION {Done(Kids[n][j]) : j \in 1..i}

UsageNode(n) ==
  /\ st[n] \in {"idle", "ready"} => usage[n] = 0
  /\ n \in paused => st[n] \in Ended
  /\ Kind[n] = "choice" /\ st[n] = "running" =>
       \A i \in 1..Len(Kids[n]) : i # at[n] => st[Kids[n][i]] = "idle"
  /\ Else[n] # NoNode /\ st[Else[n]] # "idle" =>
       \/ \E c \in KidSet(n) : st[c] \in Raised
       \/ \A c \in KidSet(n) : st[c] = "idle"
  /\ Sequenced(n) /\ st[n] = "running" /\ NoRaise(n) =>
       usage[n] = Cardinality(DoneTo(n, at[n] - 1))

UsageInv == OrderInv /\ (\A n \in Node : UsageNode(n)) /\ UsageIsWhole

LEMMA FewDone ==
  ASSUME NEW S, S \subseteq Node
  PROVE  IsFiniteSet(S) /\ Cardinality(S) \in Nat
  BY FiniteTree, FS_Subset, FS_CardinalityType

LEMMA DoneNodes ==
  ASSUME NEW n \in Node
  PROVE  /\ Done(n) \subseteq Node
         /\ \A i \in 0..Len(Kids[n]) : DoneTo(n, i) \subseteq Node
<1>1. \A m \in Node : Done(m) \subseteq Node BY BelowNodes DEF Done
<1>2. \A j \in 1..Len(Kids[n]) : Kids[n][j] \in Node BY TreeFacts
<1>3. Len(Kids[n]) \in Nat BY TreeFacts
<1>4. \A i \in 0..Len(Kids[n]) : \A j \in 1..i : j \in 1..Len(Kids[n]) BY <1>3
<1> QED BY <1>1, <1>2, <1>4 DEF DoneTo

\* One kid more.
LEMMA DoneSum ==
  ASSUME NEW n \in Node, NEW i \in 1..Len(Kids[n])
  PROVE  /\ Cardinality(DoneTo(n, i)) =
              Cardinality(DoneTo(n, i - 1)) + Cardinality(Done(Kids[n][i]))
         /\ Cardinality(DoneTo(n, i - 1)) \in Nat /\ Cardinality(Done(Kids[n][i])) \in Nat
<1> DEFINE A == DoneTo(n, i - 1)
           B == Done(Kids[n][i])
<1>0. Len(Kids[n]) \in Nat /\ Kids[n][i] \in Node BY TreeFacts
<1>1. i - 1 \in 0..Len(Kids[n]) /\ i \in 0..Len(Kids[n]) BY <1>0
<1>2. A \subseteq Node /\ B \subseteq Node BY <1>0, <1>1, DoneNodes
<1>3. /\ IsFiniteSet(A) /\ Cardinality(A) \in Nat
      /\ IsFiniteSet(B) /\ Cardinality(B) \in Nat
  BY <1>2, FewDone
<1>4. DoneTo(n, i) = A \cup B
  <2>1. \A j \in Int : j \in 1..i <=> j \in 1..(i - 1) \/ j = i OBVIOUS
  <2> QED BY <2>1 DEF DoneTo
<1>5. A \cap B = {}
  <2> SUFFICES ASSUME NEW x \in A, x \in B PROVE FALSE OBVIOUS
  <2>1. PICK j \in 1..(i - 1) : x \in Done(Kids[n][j]) BY DEF DoneTo
  <2>2. j \in 1..Len(Kids[n]) /\ j # i BY <1>0, <2>1
  <2>3. Kids[n][j] # Kids[n][i] BY <2>2, TreeFacts
  <2>4. Kids[n][j] \in Under(n) /\ Kids[n][i] \in Under(n) BY <2>2, TreeFacts DEF Under
  <2>5. x \in Below[Kids[n][j]] /\ x \in Below[Kids[n][i]] BY <2>1 DEF Done
  <2> QED BY <2>3, <2>4, <2>5, Siblings
<1>6. Cardinality(A \cap B) = 0 BY <1>5, FS_EmptySet
<1> HIDE DEF A, B
<1>7. Cardinality(A \cup B) = Cardinality(A) + Cardinality(B)
  <2>1. Cardinality(A \cup B) = Cardinality(A) + Cardinality(B) - Cardinality(A \cap B)
    BY <1>3, FS_Union, Zenon
  <2> QED BY <1>3, <1>6, <2>1
<1> QED BY <1>3, <1>4, <1>7 DEF A, B

LEMMA DoneZero == ASSUME NEW n \in Node PROVE Cardinality(DoneTo(n, 0)) = 0
<1>1. DoneTo(n, 0) = {} BY DEF DoneTo
<1> QED BY <1>1, FS_EmptySet

\* What is done under n after a step, part by part.
LEMMA DoneParts ==
  ASSUME NEW n \in Node
  PROVE  \A x : x \in Done(n)' <=>
           \/ x = n /\ Completed(n)'
           \/ \E c \in Under(n) : x \in Done(c)'
<1>1. \A x : x \in Done(n)' <=> x \in Below[n] /\ Completed(x)' BY DEF Done
<1>2. \A c, x : x \in Done(c)' <=> x \in Below[c] /\ Completed(x)' BY DEF Done
<1> QED BY <1>1, <1>2, BelowIn

LEMMA IdleDone ==
  ASSUME Scoped, NEW n \in Node, st[n] = "idle"
  PROVE  Done(n) = {}
  BY IdleBelow DEF Done, Completed

-----------------------------------------------------------------------------
(* What a step of m leaves alone.                                           *)

LEMMA OwnWork ==
  ASSUME Scoped, Worked, NEW m \in Node, Step(m)
  PROVE  /\ \A d \in Node \ {m} : usage'[d] = usage[d] /\ (d \in paused' <=> d \in paused)
         /\ m \in paused' => m \in paused \/ st'[m] \in Ended
<1>0. st \in [Node -> Status] /\ usage \in [Node -> Nat] BY DEF Scoped, Typed, Worked
<1>1. CASE UNCHANGED <<usage, paused>>
  BY <1>1
<1>2. CASE \E s \in Returned : st' = [st EXCEPT ![m] = s]
             /\ (\E u : usage' = [usage EXCEPT ![m] = u])
             /\ (paused' = paused \/ paused' = paused \cup {m})
  BY <1>0, <1>2 DEF Ended
<1>3. Skip(m) \/ Start(m) \/ StartConflicts(m) \/ Route(m) \/ KidRaises(m) \/ FanRaises(m)
        => UNCHANGED <<usage, paused>>
  BY DEF Skip, Start, StartConflicts, Route, KidRaises, FanRaises, Raise
<1>4. ASSUME RouteNowhere(m) \/ AgentEnds(m) \/ FanReturns(m)
             \/ SerialReturns(m) \/ FlowReturns(m) \/ ChoiceReturns(m)
      PROVE  \/ UNCHANGED <<usage, paused>>
             \/ \E s \in Returned : st' = [st EXCEPT ![m] = s]
                  /\ (\E u : usage' = [usage EXCEPT ![m] = u])
                  /\ (paused' = paused \/ paused' = paused \cup {m})
  BY <1>4 DEF RouteNowhere, AgentEnds, FanReturns, SerialReturns, FlowReturns, ChoiceReturns,
              Raise, Return, Awaited, Returned
<1>5. CASE SerialNext(m)
  <2>1. paused' = paused /\ \E u : usage' = [usage EXCEPT ![m] = u]
    BY <1>5 DEF SerialNext
  <2> QED BY <1>0, <2>1
<1>6. CASE FallbackEnds(m)
  BY <1>0, <1>6 DEF FallbackEnds
<1> QED BY <1>1, <1>2, <1>3, <1>4, <1>5, <1>6 DEF Step

\* A step with which m ends changes the state of no other node.
LEMMA EndAlone ==
  ASSUME Scoped, NEW m \in Node, Step(m), st'[m] \in Ended
  PROVE  \A d \in Node \ {m} : st'[d] = st[d]
<1>0. st \in [Node -> Status] /\ Frame(m) BY StepKeeps DEF Scoped, Typed, Kept
<1>1. ASSUME NEW how, Raise(m, how) PROVE \A d \in Node \ {m} : st'[d] = st[d]
  <2>1. CASE how = "failed" /\ Else[m] # NoNode
    <3>1. Else[m] # m /\ Else[m] \in Node BY <2>1, TreeFacts
    <3>2. st'[m] = "falling" BY <1>0, <1>1, <2>1, <3>1 DEF Raise
    <3> QED BY <3>2 DEF Ended, Returned, Raised
  <2>2. CASE ~(how = "failed" /\ Else[m] # NoNode)
    BY <1>0, <1>1, <2>2 DEF Raise
  <2> QED BY <2>1, <2>2
<1>2. ASSUME NEW s, st' = [st EXCEPT ![m] = s] PROVE \A d \in Node \ {m} : st'[d] = st[d]
  BY <1>0, <1>2
<1>3. CASE Skip(m)
  <2>1. CASE Else[m] # NoNode
    <3>1. Else[m] # m /\ Else[m] \in Node BY <2>1, TreeFacts
    <3>2. st'[m] = "falling" BY <1>0, <1>3, <2>1, <3>1 DEF Skip
    <3> QED BY <3>2 DEF Ended, Returned, Raised
  <2>2. CASE Else[m] = NoNode
    BY <1>2, <1>3, <2>2 DEF Skip
  <2> QED BY <2>1, <2>2
<1>4. CASE Start(m) \/ Route(m)
  <2>1. st'[m] = "running" BY <1>0, <1>4, TreeFacts DEF Start, Route
  <2> QED BY <2>1 DEF Ended, Returned, Raised
<1>5. CASE SerialNext(m)
  <2>1. at[m] + 1 \in 1..Len(Kids[m])
    BY <1>5 DEF SerialNext, Scoped, FreshNode
  <2>2. Kids[m][at[m] + 1] # m BY <2>1, TreeFacts
  <2>3. st'[m] = "running" BY <1>0, <1>5, <2>2 DEF SerialNext
  <2> QED BY <2>3 DEF Ended, Returned, Raised
<1>6. CASE StartConflicts(m) \/ KidRaises(m) \/ FanRaises(m)
  BY <1>1, <1>6 DEF StartConflicts, KidRaises, FanRaises
<1>7. CASE RouteNowhere(m) \/ AgentEnds(m)
  BY <1>1, <1>2, <1>7 DEF RouteNowhere, AgentEnds, Return
<1>8. CASE SerialReturns(m) \/ FlowReturns(m) \/ ChoiceReturns(m) \/ FanReturns(m) \/ FallbackEnds(m)
  BY <1>2, <1>8 DEF SerialReturns, FlowReturns, ChoiceReturns, FanReturns, FallbackEnds, Return
<1> QED BY <1>3, <1>4, <1>5, <1>6, <1>7, <1>8 DEF Step

\* A subtree of which no node changes.
LEMMA SameBelow ==
  ASSUME NEW n \in Node,
         \A d \in Below[n] : st'[d] = st[d] /\ (d \in paused' <=> d \in paused)
  PROVE  Done(n)' = Done(n)
<1>1. ASSUME NEW d \in Below[n] PROVE Completed(d)' <=> Completed(d)
  <2>0. d \in Node BY BelowNodes
  <2>1. Else[d] # NoNode => Else[d] \in Below[n]
    <3>1. Else[d] # NoNode => Else[d] \in Node /\ Else[d] \in Under(d)
      BY <2>0, TreeFacts DEF Under
    <3>2. Else[d] # NoNode => Else[d] \in Below[d]
      BY <2>0, <3>1, BelowIn, BelowNodes
    <3> QED BY <3>2, BelowTrans
  <2>2. st'[d] = st[d] /\ (d \in paused' <=> d \in paused) OBVIOUS
  <2>3. Else[d] # NoNode => st'[Else[d]] = st[Else[d]] BY <2>1
  <2> QED BY <2>2, <2>3 DEF Completed
<1>2. \A d : d \in Done(n)' <=> d \in Below[n] /\ Completed(d)' BY DEF Done
<1>3. \A d : d \in Done(n) <=> d \in Below[n] /\ Completed(d) BY DEF Done
<1> QED BY <1>1, <1>2, <1>3

LEMMA RaiseStays ==
  ASSUME Scoped, NEW m \in Node, Step(m), NEW n \in Node, NoRaise(n)'
  PROVE  NoRaise(n)
<1>1. Frame(m) BY StepKeeps DEF Kept
<1>2. Below[n] \subseteq Node BY BelowNodes
<1>3. \A d \in Below[n] : st[d] \in Raised => st'[d] \in Raised
  BY <1>1, <1>2 DEF Frame, AtWork, Raised
<1> QED BY <1>3 DEF NoRaise

\* Nothing moves under a node that is not at work, with nothing raised under it.
LEMMA Frozen ==
  ASSUME Scoped, Worked, NEW m \in Node, Step(m), NEW n \in Node, ~AtWork(n), NoRaise(n),
         st'[n] = st[n]
  PROVE  Done(n)' = Done(n)
<1>0. Frame(m) /\ Below[n] \subseteq Node BY StepKeeps, BelowNodes DEF Kept
<1>1. \A p \in Below[n] : ~GatherRaised(p)
  <2> SUFFICES ASSUME NEW p \in Below[n], NEW c \in KidSet(p), st[c] \in Raised PROVE FALSE
    BY DEF GatherRaised
  <2>1. p \in Node /\ c \in Under(p) /\ c \in Node BY <1>0, TreeFacts DEF Under
  <2>2. c \in Below[p] BY <2>1, BelowIn, BelowNodes
  <2>3. c \in Below[n] BY <2>2, BelowTrans
  <2> QED BY <2>3 DEF NoRaise
<1>2. m \notin Below[n]
  <2>1. \A d \in Below[n] : ~AtWork(d) BY <1>1, QuietBelow
  <2> QED BY <1>0, <2>1 DEF Frame
<1>3. ASSUME NEW d \in Below[n] PROVE st'[d] = st[d]
  <2>1. d \in Node /\ d # m BY <1>0, <1>2
  <2>2. CASE st'[d] = st[d] BY <2>2
  <2>3. CASE d # n /\ Parent[d] = m
    <3>1. d # n BY <2>3
    <3>2. Parent[d] \in Below[n] BY <3>1, BelowUp
    <3> QED BY <1>2, <2>3, <3>2
  <2> QED BY <1>0, <2>1, <2>2, <2>3 DEF Frame
<1>4. \A d \in Below[n] : d \in paused' <=> d \in paused BY <1>0, <1>2, OwnWork
<1> QED BY <1>3, <1>4, SameBelow

-----------------------------------------------------------------------------
(* The unit that returns reports what is done under it.                     *)

LEMMA NoRaiseUnder ==
  ASSUME NEW n \in Node, NoRaise(n), NEW c \in Under(n)
  PROVE  NoRaise(c) /\ st[c] \notin Raised
<1>1. c \in Node /\ Below[c] \subseteq Below[n] /\ c \in Below[c]
  BY UnderFacts, BelowIn, BelowNodes
<1> QED BY <1>1 DEF NoRaise

\* A finished kid reports what is done under it.
LEMMA KidReports ==
  ASSUME UsageInv, NEW n \in Node, NoRaise(n), NEW c \in Under(n), st[c] \in Returned
  PROVE  usage[c] = Cardinality(Done(c))
<1>1. c \in Node /\ NoRaise(c) BY UnderFacts, NoRaiseUnder
<1> QED BY <1>1 DEF UsageInv, UsageIsWhole, NoRaise, Done

\* What a unit that returns has done is what its kids and its fallback had.
LEMMA DoneAtEnd ==
  ASSUME Scoped, Worked, NEW n \in Node, Step(n), st'[n] \in Ended
  PROVE  \A x : x \in Done(n)' <=>
           \/ x = n /\ Completed(n)'
           \/ \E i \in 1..Len(Kids[n]) : x \in Done(Kids[n][i])
           \/ Else[n] # NoNode /\ x \in Done(Else[n])
<1>1. ASSUME NEW c \in Under(n) PROVE Done(c)' = Done(c)
  <2>1. c \in Node /\ n \notin Below[c] /\ Below[c] \subseteq Node
    BY UnderFacts, NoCycle, BelowNodes
  <2>2. \A d \in Below[c] : st'[d] = st[d] /\ (d \in paused' <=> d \in paused)
    BY <2>1, EndAlone, OwnWork
  <2> QED BY <2>1, <2>2, SameBelow
<1>2. \A x : x \in Done(n)' <=> \/ x = n /\ Completed(n)'
                                \/ \E c \in Under(n) : x \in Done(c)'
  BY DoneParts
<1>3. \A x : x \in Done(n)' <=> \/ x = n /\ Completed(n)'
                                \/ \E c \in Under(n) : x \in Done(c)
  BY <1>1, <1>2
<1>4. \A x : (\E c \in Under(n) : x \in Done(c)) <=>
               \/ \E i \in 1..Len(Kids[n]) : x \in Done(Kids[n][i])
               \/ Else[n] # NoNode /\ x \in Done(Else[n])
  BY DEF Under, KidSet
<1> QED BY <1>3, <1>4

\* Nothing is done under a unit of which nothing has started.
LEMMA NothingDone ==
  ASSUME Scoped, Worked, NEW n \in Node, Step(n), st'[n] \in Ended, ~Completed(n)',
         \A c \in KidSet(n) : st[c] = "idle",
         Else[n] # NoNode => st[Else[n]] = "idle"
  PROVE  Cardinality(Done(n)') = 0
<1>1. \A i \in 1..Len(Kids[n]) : Done(Kids[n][i]) = {} BY TreeFacts, IdleDone
<1>2. Else[n] # NoNode => Done(Else[n]) = {} BY TreeFacts, IdleDone
<1>3. Done(n)' = {} BY <1>1, <1>2, DoneAtEnd
<1> QED BY <1>3, FS_EmptySet

\* A pipeline or a flow that ends with the kid it awaits.
LEMMA SequenceReports ==
  ASSUME UsageInv, NEW n \in Node, Step(n), st'[n] \in Ended, NoRaise(n),
         Sequenced(n), st[n] = "running", st[Current(n)] \in Returned
  PROVE  usage[n] + usage[Current(n)] = Cardinality(Done(n)')
<1> DEFINE a == at[n]
<1>0. Scoped /\ Worked /\ FreshNode(n) /\ UsageNode(n)
  BY DEF UsageInv, OrderInv, TypeInv, Scoped
<1>1. /\ a \in 1..Len(Kids[n]) /\ Current(n) \in KidSet(n) /\ Kind[n] # "agent"
      /\ Len(Kids[n]) \in Nat
  BY <1>0, CurrentKid, TreeFacts DEF Sequenced
<1>2. usage[Current(n)] = Cardinality(Done(Current(n)))
  BY <1>1, KidReports DEF Under
<1>3. usage[n] = Cardinality(DoneTo(n, a - 1)) BY <1>0 DEF UsageNode
<1>4. Done(n)' = DoneTo(n, a)
  <2>1. ~Completed(n)' BY <1>1 DEF Completed
  <2>2. Else[n] # NoNode => Done(Else[n]) = {} BY <1>0, TreeFacts, IdleDone DEF FreshNode
  <2>3. \A i \in 1..Len(Kids[n]) : i > a => Done(Kids[n][i]) = {}
    BY <1>0, TreeFacts, IdleDone DEF FreshNode
  <2>4. \A i \in 1..Len(Kids[n]) : ~(i > a) => i \in 1..a BY <1>1
  <2>5. \A i \in 1..a : i \in 1..Len(Kids[n]) BY <1>1
  <2>6. \A x : x \in DoneTo(n, a) <=> \E i \in 1..a : x \in Done(Kids[n][i])
    BY DEF DoneTo
  <2>7. \A x : x \in Done(n)' <=> \E i \in 1..Len(Kids[n]) : x \in Done(Kids[n][i])
    BY <1>0, <2>1, <2>2, DoneAtEnd
  <2> HIDE DEF a
  <2> QED BY <2>3, <2>4, <2>5, <2>6, <2>7
<1>5. Cardinality(DoneTo(n, a)) =
        Cardinality(DoneTo(n, a - 1)) + Cardinality(Done(Current(n)))
  BY <1>1, DoneSum DEF Current
<1> QED BY <1>2, <1>3, <1>4, <1>5

LEMMA ChoiceReports ==
  ASSUME UsageInv, NEW n \in Node, NoRaise(n), ChoiceReturns(n), Step(n), st'[n] \in Ended
  PROVE  usage[Current(n)] = Cardinality(Done(n)')
<1>0. /\ Scoped /\ Worked /\ FreshNode(n) /\ UsageNode(n)
      /\ Kind[n] = "choice" /\ st[n] = "running" /\ st[Current(n)] \in Returned
  BY DEF UsageInv, OrderInv, TypeInv, Scoped, ChoiceReturns, Awaited
<1>1. at[n] \in 1..Len(Kids[n]) /\ Current(n) \in KidSet(n)
  BY <1>0, CurrentKid
<1>2. usage[Current(n)] = Cardinality(Done(Current(n)))
  BY <1>0, <1>1, KidReports DEF Under
<1>3. Done(n)' = Done(Current(n))
  <2>1. ~Completed(n)' BY <1>0 DEF Completed
  <2>2. Else[n] # NoNode => Done(Else[n]) = {} BY <1>0, TreeFacts, IdleDone DEF FreshNode
  <2>3. \A i \in 1..Len(Kids[n]) : i # at[n] => Done(Kids[n][i]) = {}
    BY <1>0, TreeFacts, IdleDone DEF UsageNode
  <2>4. \A x : x \in Done(n)' <=> \E i \in 1..Len(Kids[n]) : x \in Done(Kids[n][i])
    BY <1>0, <2>1, <2>2, DoneAtEnd
  <2> QED BY <1>1, <2>3, <2>4 DEF Current
<1> QED BY <1>2, <1>3

LEMMA FanReports ==
  ASSUME UsageInv, NEW n \in Node, NoRaise(n), FanReturns(n), Step(n), st'[n] \in Ended
  PROVE  Gathered(n) = Cardinality(Done(n)')
<1> DEFINE N == Len(Kids[n])
<1>0. /\ Scoped /\ Worked /\ FreshNode(n) /\ usage \in [Node -> Nat]
      /\ Kind[n] = "fan" /\ st[n] = "running" /\ AllReturned(n) /\ N \in Nat
  BY TreeFacts DEF UsageInv, OrderInv, TypeInv, Worked, Scoped, FanReturns
<1>1. ASSUME NEW i \in 1..N
      PROVE  usage[Kids[n][i]] = Cardinality(Done(Kids[n][i]))
  <2>1. Kids[n][i] \in KidSet(n) BY TreeFacts
  <2>2. st[Kids[n][i]] \in Returned BY <1>0, <2>1 DEF AllReturned
  <2> QED BY <2>1, <2>2, KidReports DEF Under
<1>2. PICK f \in [0..N -> Nat] : Sums(n, f) /\ Gathered(n) = f[N]
  BY <1>0, GatheredDef
<1>3. \A i \in 0..N : f[i] = IF i = 0 THEN 0 ELSE f[i - 1] + usage[Kids[n][i]]
  BY <1>2 DEF Sums
<1> DEFINE T == {i \in 0..N : f[i] = Cardinality(DoneTo(n, i))}
<1>4. 0 \in T BY <1>0, <1>3, DoneZero
<1>5. ASSUME NEW i \in 1..N, i - 1 \in T PROVE i \in T
  <2>1. i \in 0..N /\ i # 0 BY <1>0
  <2>2. f[i] = f[i - 1] + usage[Kids[n][i]] BY <1>3, <2>1
  <2>3. f[i - 1] = Cardinality(DoneTo(n, i - 1)) BY <1>5
  <2>4. Cardinality(DoneTo(n, i)) =
          Cardinality(DoneTo(n, i - 1)) + Cardinality(Done(Kids[n][i]))
    BY DoneSum
  <2>5. f[i] = Cardinality(DoneTo(n, i)) BY <1>1, <2>2, <2>3, <2>4
  <2> QED BY <2>1, <2>5
<1> HIDE DEF T
<1>6. \A i \in 0..N : i \in T BY <1>0, <1>4, <1>5, UpTo
<1>7. f[N] = Cardinality(DoneTo(n, N))
  <2>1. N \in T BY <1>0, <1>6
  <2> QED BY <2>1 DEF T
<1>8. Done(n)' = DoneTo(n, N)
  <2>1. ~Completed(n)' BY <1>0 DEF Completed
  <2>2. Else[n] # NoNode => Done(Else[n]) = {} BY <1>0, TreeFacts, IdleDone DEF FreshNode
  <2>3. \A x : x \in Done(n)' <=> \E i \in 1..N : x \in Done(Kids[n][i])
    BY <1>0, <2>1, <2>2, DoneAtEnd
  <2>4. \A x : x \in DoneTo(n, N) <=> \E i \in 1..N : x \in Done(Kids[n][i])
    BY DEF DoneTo
  <2> HIDE DEF N
  <2> QED BY <2>3, <2>4
<1> QED BY <1>2, <1>7, <1>8

LEMMA FallbackReports ==
  ASSUME UsageInv, NEW n \in Node, NoRaise(n), FallbackEnds(n), Step(n), st'[n] \in Returned
  PROVE  usage[Else[n]] = Cardinality(Done(n)')
<1>0. /\ Scoped /\ Worked /\ UsageNode(n) /\ Else[n] # NoNode
      /\ st'[n] = st[Else[n]] /\ st[Else[n]] \in Ended
  BY DEF UsageInv, OrderInv, TypeInv, Scoped, Typed, FreshNode, FallbackEnds
<1>1. Else[n] \in Under(n) /\ Else[n] # n /\ Else[n] \in Node BY <1>0, TreeFacts DEF Under
<1>2. usage[Else[n]] = Cardinality(Done(Else[n])) BY <1>0, <1>1, KidReports
<1>3. st[Else[n]] # "idle" BY <1>0 DEF Ended, Returned, Raised
<1>4. \A c \in KidSet(n) : st[c] = "idle"
  <2>1. \A c \in KidSet(n) : st[c] \notin Raised BY NoRaiseUnder DEF Under
  <2> QED BY <1>0, <1>3, <2>1 DEF UsageNode
<1>5. Done(n)' = Done(Else[n])
  <2>1. st'[Else[n]] = st[Else[n]] BY <1>0, <1>1, EndAlone DEF Ended
  <2>2. ~Completed(n)' BY <1>0, <1>3, <2>1 DEF Completed
  <2>3. \A i \in 1..Len(Kids[n]) : Done(Kids[n][i]) = {} BY <1>0, <1>4, TreeFacts, IdleDone
  <2> QED BY <1>0, <2>2, <2>3, DoneAtEnd DEF Ended
<1> QED BY <1>2, <1>5

LEMMA AgentReports ==
  ASSUME UsageInv, NEW n \in Node, AgentEnds(n), Step(n), st'[n] \in Returned
  PROVE  usage'[n] = Cardinality(Done(n)')
<1>0. /\ Scoped /\ Worked /\ UsageNode(n) /\ FreshNode(n) /\ KidSet(n) = {}
      /\ Kind[n] = "agent" /\ st[n] = "running" /\ st \in [Node -> Status]
      /\ usage \in [Node -> Nat] /\ st'[n] \in Ended
  BY TreeFacts DEF UsageInv, OrderInv, TypeInv, Scoped, Typed, Worked, AgentEnds, Ended
<1>1. Else[n] # NoNode => st[Else[n]] = "idle" /\ st'[Else[n]] = "idle"
  <2>1. Else[n] # NoNode => Else[n] \in Node \ {n} BY TreeFacts
  <2> QED BY <1>0, <2>1, EndAlone DEF FreshNode
<1>2. CASE Return(n, "ok", FALSE, 1)
  <2>1. usage'[n] = 1 /\ st'[n] = "ok" /\ paused' = paused BY <1>0, <1>2 DEF Return
  <2>2. n \notin paused BY <1>0 DEF UsageNode, Ended, Returned, Raised
  <2>3. Completed(n)' BY <1>0, <1>1, <2>1, <2>2 DEF Completed
  <2>4. \A i \in 1..Len(Kids[n]) : FALSE BY <1>0 DEF KidSet
  <2>5. Else[n] # NoNode => Done(Else[n]) = {} BY <1>0, <1>1, TreeFacts, IdleDone
  <2>6. Done(n)' = {n} BY <1>0, <2>3, <2>4, <2>5, DoneAtEnd
  <2> QED BY <2>1, <2>6, FS_Singleton
<1>3. CASE Return(n, "ok", TRUE, 0)
  <2>1. usage'[n] = 0 /\ n \in paused' BY <1>0, <1>3 DEF Return
  <2>2. ~Completed(n)' BY <2>1 DEF Completed
  <2> QED BY <1>0, <1>1, <2>1, <2>2, NothingDone
<1>4. ASSUME NEW how \in Raised, Raise(n, how) PROVE FALSE
  <2>1. st'[n] \in Raised \/ st'[n] = "falling"
    <3>1. Else[n] # NoNode => Else[n] # n BY TreeFacts
    <3> QED BY <1>0, <1>4, <3>1 DEF Raise
  <2> QED BY <2>1 DEF Returned, Raised
<1> QED BY <1>2, <1>3, <1>4 DEF AgentEnds

\* A unit that ends before it began.
LEMMA SkipReports ==
  ASSUME UsageInv, NEW n \in Node, st[n] = "ready", Step(n), st'[n] \in Returned
  PROVE  usage'[n] = Cardinality(Done(n)')
<1>0. /\ Scoped /\ Worked /\ UsageNode(n) /\ FreshNode(n) /\ st \in [Node -> Status]
      /\ usage \in [Node -> Nat] /\ st'[n] \in Ended
  BY DEF UsageInv, OrderInv, TypeInv, Scoped, Typed, Worked, Ended
<1>1. \A how \in Raised : Raise(n, how) => FALSE
  <2>1. Else[n] # NoNode => Else[n] # n BY TreeFacts
  <2> QED BY <1>0, <2>1 DEF Raise, Returned, Raised
<1>2. ~(Start(n) \/ Route(n))
  <2>1. Start(n) \/ Route(n) => st'[n] = "running" BY <1>0, TreeFacts DEF Start, Route
  <2> QED BY <2>1 DEF Returned
<1>3. Skip(n) \/ RouteNowhere(n)
  BY <1>1, <1>2 DEF Step, StartConflicts, AgentEnds, SerialNext, SerialReturns, FlowReturns,
     ChoiceReturns, KidRaises, FanReturns, FanRaises, FallbackEnds, Raised
<1>4. st'[n] = "skipped" /\ usage'[n] = 0
  <2>1. CASE Skip(n)
    <3>1. usage'[n] = 0 BY <1>0, <2>1 DEF Skip, UsageNode
    <3>2. Else[n] # NoNode => Else[n] # n BY TreeFacts
    <3>3. st'[n] = "skipped" \/ st'[n] = "falling" BY <1>0, <2>1, <3>2 DEF Skip
    <3> QED BY <3>1, <3>3 DEF Returned
  <2>2. CASE RouteNowhere(n)
    <3>1. Return(n, "skipped", FALSE, 0) BY <1>1, <2>2 DEF RouteNowhere, Raised
    <3> QED BY <1>0, <3>1 DEF Return
  <2> QED BY <1>3, <2>1, <2>2
<1>5. ~Completed(n)' BY <1>4 DEF Completed
<1>6. Cardinality(Done(n)') = 0 BY <1>0, <1>5, NothingDone DEF FreshNode
<1> QED BY <1>4, <1>6

LEMMA Reports ==
  ASSUME UsageInv, NEW n \in Node, Step(n), st'[n] \in Returned, NoRaise(n)
  PROVE  usage'[n] = Cardinality(Done(n)')
<1>0. /\ Scoped /\ st \in [Node -> Status] /\ usage \in [Node -> Nat] /\ st'[n] \in Ended
  BY DEF UsageInv, OrderInv, TypeInv, Scoped, Typed, Worked, Ended
<1>1. CASE st[n] = "ready" BY <1>1, SkipReports
<1>2. CASE AgentEnds(n) BY <1>2, AgentReports
<1>3. CASE SerialReturns(n) \/ FlowReturns(n)
  <2>1. /\ Sequenced(n) /\ st[n] = "running" /\ st[Current(n)] \in Returned
        /\ usage' = [usage EXCEPT ![n] = usage[n] + usage[Current(n)]]
    BY <1>3 DEF SerialReturns, FlowReturns, Sequenced, Awaited, Return
  <2>2. usage'[n] = usage[n] + usage[Current(n)] BY <1>0, <2>1
  <2> QED BY <1>0, <2>1, <2>2, SequenceReports
<1>4. CASE ChoiceReturns(n)
  <2>1. usage'[n] = usage[Current(n)] BY <1>0, <1>4 DEF ChoiceReturns, Return
  <2> QED BY <1>0, <1>4, <2>1, ChoiceReports
<1>5. CASE FanReturns(n)
  <2>1. usage'[n] = Gathered(n) BY <1>0, <1>5 DEF FanReturns, Return
  <2> QED BY <1>0, <1>5, <2>1, FanReports
<1>6. CASE FallbackEnds(n)
  <2>1. usage'[n] = usage[Else[n]] BY <1>0, <1>6 DEF FallbackEnds
  <2> QED BY <1>6, <2>1, FallbackReports
<1>7. CASE SerialNext(n)
  <2>1. at[n] + 1 \in 1..Len(Kids[n])
    BY <1>0, <1>7 DEF SerialNext, Scoped, FreshNode
  <2>2. Kids[n][at[n] + 1] # n BY <2>1, TreeFacts
  <2>3. st'[n] = "running" BY <1>0, <1>7, <2>2 DEF SerialNext
  <2> QED BY <2>3 DEF Returned
<1>8. CASE KidRaises(n) \/ FanRaises(n)
  <2>1. PICK how \in Raised : Raise(n, how) BY <1>8 DEF KidRaises, FanRaises
  <2>2. Else[n] # NoNode => Else[n] # n BY TreeFacts
  <2> QED BY <1>0, <2>1, <2>2 DEF Raise, Returned, Raised
<1> QED
  BY <1>1, <1>2, <1>3, <1>4, <1>5, <1>6, <1>7, <1>8
  DEF Step, Skip, Start, StartConflicts, Route, RouteNowhere

-----------------------------------------------------------------------------
(* The invariant, node by node.                                             *)

\* How a node comes to run, and how its fallback comes to start.
LEMMA Turns ==
  ASSUME Scoped, NEW n \in Node, Step(n)
  PROVE  /\ st'[n] = "running" => Start(n) \/ Route(n) \/ SerialNext(n)
         /\ Else[n] # NoNode /\ st'[Else[n]] # st[Else[n]] =>
              \/ st[n] = "ready"
              \/ \E c \in KidSet(n) : st[c] \in Raised
              \/ KidSet(n) = {}
<1>0. st \in [Node -> Status] BY DEF Scoped, Typed
<1>1. Else[n] # NoNode => Else[n] \in Node /\ Else[n] # n /\ Else[n] \notin KidSet(n)
  BY TreeFacts
<1>2. \A how \in Raised : Raise(n, how) => st'[n] # "running"
  BY <1>0, <1>1 DEF Raise, Raised
<1>3. ASSUME NEW s \in Returned, st' = [st EXCEPT ![n] = s]
      PROVE  st'[n] # "running" /\ (Else[n] # NoNode => st'[Else[n]] = st[Else[n]])
  BY <1>0, <1>1, <1>3 DEF Returned
<1>4. CASE Skip(n) \/ StartConflicts(n) \/ RouteNowhere(n)
  <2>1. st[n] = "ready" BY <1>4 DEF Skip, StartConflicts, RouteNowhere
  <2>2. st'[n] # "running"
    <3>1. CASE Skip(n) BY <1>0, <1>1, <3>1 DEF Skip
    <3>2. CASE StartConflicts(n) BY <1>2, <3>2 DEF StartConflicts, Raised
    <3>3. CASE RouteNowhere(n)
      BY <1>0, <1>2, <3>3 DEF RouteNowhere, Raised, Return
    <3> QED BY <1>4, <3>1, <3>2, <3>3
  <2> QED BY <2>1, <2>2
<1>5. CASE Start(n) \/ Route(n)
  BY <1>5 DEF Start, Route
<1>6. CASE SerialNext(n)
  <2>1. at[n] + 1 \in 1..Len(Kids[n])
    BY <1>6 DEF SerialNext, Scoped, FreshNode
  <2>2. Kids[n][at[n] + 1] \in KidSet(n) BY <2>1, TreeFacts
  <2>3. Else[n] # NoNode => st'[Else[n]] = st[Else[n]] BY <1>0, <1>1, <1>6, <2>2 DEF SerialNext
  <2> QED BY <1>6, <2>3
<1>7. CASE AgentEnds(n)
  <2>1. KidSet(n) = {} BY <1>7, TreeFacts DEF AgentEnds
  <2>2. st'[n] # "running"
    BY <1>0, <1>2, <1>7 DEF AgentEnds, Return
  <2> QED BY <2>1, <2>2
<1>8. CASE KidRaises(n) \/ FanRaises(n)
  <2>1. \E c \in KidSet(n) : st[c] \in Raised
    <3>1. CASE KidRaises(n)
      <4>1. Kind[n] # "agent" /\ st[n] = "running" BY <3>1 DEF KidRaises
      <4> QED BY <3>1, <4>1, CurrentKid DEF KidRaises
    <3>2. CASE FanRaises(n) BY <3>2 DEF FanRaises
    <3> QED BY <1>8, <3>1, <3>2
  <2>2. st'[n] # "running" BY <1>2, <1>8 DEF KidRaises, FanRaises
  <2> QED BY <2>1, <2>2
<1>9. CASE SerialReturns(n) \/ FlowReturns(n) \/ ChoiceReturns(n) \/ FanReturns(n)
  <2>1. PICK s \in Returned : st' = [st EXCEPT ![n] = s]
    BY <1>9 DEF SerialReturns, FlowReturns, ChoiceReturns, FanReturns, Return, Awaited, Returned
  <2> QED BY <1>3, <2>1
<1>10. CASE FallbackEnds(n)
  BY <1>0, <1>1, <1>10 DEF FallbackEnds, Ended, Returned, Raised
<1> QED BY <1>4, <1>5, <1>6, <1>7, <1>8, <1>9, <1>10 DEF Step

\* The total of a pipeline that moves on, or of one another step leaves alone:
\* the kids it has taken are as they were.
LEMMA TakenKids ==
  ASSUME UsageInv, NEW m \in Node, Step(m), NEW p \in Node, NoRaise(p),
         NEW i \in 0..Len(Kids[p]),
         \A j \in 1..i : ~AtWork(Kids[p][j]) /\ st'[Kids[p][j]] = st[Kids[p][j]]
  PROVE  UNION {Done(Kids[p][j])' : j \in 1..i} = DoneTo(p, i)
<1>0. Scoped /\ Worked /\ Len(Kids[p]) \in Nat BY TreeFacts DEF UsageInv, OrderInv, TypeInv
<1>1. ASSUME NEW j \in 1..i PROVE Done(Kids[p][j])' = Done(Kids[p][j])
  <2>1. j \in 1..Len(Kids[p]) BY <1>0
  <2>2. Kids[p][j] \in Under(p) /\ Kids[p][j] \in Node BY <2>1, TreeFacts DEF Under
  <2>3. NoRaise(Kids[p][j]) BY <2>2, NoRaiseUnder
  <2> QED BY <1>0, <2>2, <2>3, Frozen
<1> QED BY <1>1 DEF DoneTo

LEMMA OwnTotal ==
  ASSUME UsageInv, NEW n \in Node, Step(n), Sequenced(n), st'[n] = "running", NoRaise(n)
  PROVE  usage'[n] = Cardinality(DoneTo(n, at[n] - 1)')
<1>0. /\ Scoped /\ Worked /\ FreshNode(n) /\ UsageNode(n) /\ SeqAt(n) /\ Frame(n)
      /\ st \in [Node -> Status] /\ at \in [Node -> Nat] /\ usage \in [Node -> Nat]
  BY StepKeeps DEF UsageInv, OrderInv, TypeInv, Scoped, Typed, Worked, Kept
<1>1. Start(n) \/ SerialNext(n)
  BY <1>0, Turns DEF Sequenced, Route
<1>2. CASE Start(n)
  <2>1. at'[n] - 1 = 0 BY <1>0, <1>2 DEF Start
  <2>2. usage'[n] = 0 BY <1>0, <1>2 DEF Start, UsageNode
  <2>3. DoneTo(n, at[n] - 1)' = {} BY <2>1 DEF DoneTo
  <2> QED BY <2>2, <2>3, FS_EmptySet
<1>3. CASE SerialNext(n)
  <2> DEFINE a == at[n]
             kid == Kids[n][a + 1]
  <2>1. /\ st[n] = "running" /\ st[Current(n)] \in Returned /\ Kind[n] # "agent"
        /\ a < Len(Kids[n]) /\ Len(Kids[n]) \in Nat /\ a \in Nat
    BY <1>0, <1>3, TreeFacts DEF SerialNext, Awaited
  <2>2. a \in 1..Len(Kids[n]) /\ Current(n) \in KidSet(n) BY <1>0, <2>1, CurrentKid
  <2>3. at'[n] - 1 = a
    <3>1. at' = [at EXCEPT ![n] = a + 1] BY <1>3 DEF SerialNext
    <3>2. at'[n] = a + 1 BY <1>0, <3>1
    <3> QED BY <2>1, <3>2
  <2>4. ASSUME NEW j \in 1..a
        PROVE  ~AtWork(Kids[n][j]) /\ st'[Kids[n][j]] = st[Kids[n][j]]
    <3>1. j \in 1..Len(Kids[n]) /\ a + 1 \in 1..Len(Kids[n]) /\ j # a + 1 BY <2>1
    <3>2. Kids[n][j] # kid /\ Kids[n][j] \in Node BY <3>1, TreeFacts
    <3>3. st' = [st EXCEPT ![kid] = "ready"] BY <1>3 DEF SerialNext
    <3>4. j < a \/ j = a BY <2>1
    <3>5. ~AtWork(Kids[n][j])
      BY <1>0, <2>1, <3>1, <3>4 DEF SeqAt, Current, AtWork, Returned
    <3> HIDE DEF kid
    <3> QED BY <1>0, <3>2, <3>3, <3>5
  <2>5. UNION {Done(Kids[n][j])' : j \in 1..a} = DoneTo(n, a)
    <3>1. a \in 0..Len(Kids[n]) BY <2>2
    <3>2. \A j \in 1..a : ~AtWork(Kids[n][j]) /\ st'[Kids[n][j]] = st[Kids[n][j]] BY <2>4
    <3> HIDE DEF a
    <3> QED BY <3>1, <3>2, TakenKids
  <2>6. usage'[n] = usage[n] + usage[Current(n)] BY <1>0, <1>3 DEF SerialNext
  <2>7. usage[n] = Cardinality(DoneTo(n, a - 1)) BY <1>0, <2>1 DEF UsageNode
  <2>8. usage[Current(n)] = Cardinality(Done(Current(n))) BY <2>1, <2>2, KidReports DEF Under
  <2>9. Cardinality(DoneTo(n, a)) =
          Cardinality(DoneTo(n, a - 1)) + Cardinality(Done(Current(n)))
    BY <2>2, DoneSum DEF Current
  <2>10. DoneTo(n, at[n] - 1)' = DoneTo(n, a)
    <3>1. DoneTo(n, at[n] - 1)' = UNION {Done(Kids[n][j])' : j \in 1..(at'[n] - 1)}
      BY DEF DoneTo
    <3> QED BY <2>3, <2>5, <3>1
  <2> QED BY <2>6, <2>7, <2>8, <2>9, <2>10
<1> QED BY <1>1, <1>2, <1>3

LEMMA OwnNode == ASSUME UsageInv, NEW n \in Node, Step(n) PROVE UsageNode(n)'
<1>0. /\ Scoped /\ Worked /\ FreshNode(n) /\ UsageNode(n) /\ Frame(n) /\ Frame(n)
      /\ st \in [Node -> Status] /\ at \in [Node -> Nat]
  BY StepKeeps DEF UsageInv, OrderInv, TypeInv, Scoped, Typed, Kept
<1>1. st'[n] \notin {"idle", "ready"} BY <1>0 DEF Frame
<1>2. n \in paused' => st'[n] \in Ended
  BY <1>0, OwnWork DEF UsageNode, Frame, AtWork, Ended, Returned, Raised
<1>3. ASSUME Kind[n] = "choice", st'[n] = "running", NEW i \in 1..Len(Kids[n]), i # at'[n]
      PROVE  st'[Kids[n][i]] = "idle"
  <2>1. Route(n) BY <1>0, <1>3, Turns DEF Start, SerialNext
  <2>2. PICK k \in 1..Len(Kids[n]) :
          /\ st' = [st EXCEPT ![n] = "running", ![Kids[n][k]] = "ready"]
          /\ at' = [at EXCEPT ![n] = k]
    BY <2>1 DEF Route
  <2>3. i # k BY <1>0, <1>3, <2>2
  <2>4. Kids[n][i] # Kids[n][k] /\ Kids[n][i] # n /\ Kids[n][i] \in KidSet(n) /\ Kids[n][i] \in Node
    BY <2>3, TreeFacts
  <2>5. st[Kids[n][i]] = "idle" BY <1>0, <2>1, <2>4 DEF Route, FreshNode
  <2> QED BY <1>0, <2>2, <2>4, <2>5
<1>4. ASSUME Else[n] # NoNode, st'[Else[n]] # "idle"
      PROVE  \/ \E c \in KidSet(n) : st'[c] \in Raised
             \/ \A c \in KidSet(n) : st'[c] = "idle"
  <2>1. \A c \in KidSet(n) : st[c] \in Raised => st'[c] \in Raised
    BY <1>0, TreeFacts DEF Frame, AtWork, Raised
  <2>2. \/ \E c \in KidSet(n) : st[c] \in Raised
        \/ \A c \in KidSet(n) : st[c] = "idle"
    <3>1. CASE st[Else[n]] # "idle" BY <1>0, <1>4, <3>1 DEF UsageNode
    <3>2. CASE st[Else[n]] = "idle"
      <4>1. st'[Else[n]] # st[Else[n]] BY <1>4, <3>2
      <4> QED BY <1>0, <1>4, <4>1, Turns DEF FreshNode
    <3> QED BY <3>1, <3>2
  <2>3. st'[n] # "running"
    <3>1. FreshNode(n)' BY <1>0, StepKeeps DEF Kept
    <3> QED BY <1>4, <3>1 DEF FreshNode
  <2>4. \A c \in KidSet(n) : st'[c] = st[c] BY <1>0, <2>3, OwnKids
  <2> QED BY <2>1, <2>2, <2>4
<1>5. Sequenced(n) /\ st'[n] = "running" /\ NoRaise(n)' =>
        usage'[n] = Cardinality(DoneTo(n, at[n] - 1)')
  BY <1>0, OwnTotal, RaiseStays
<1> QED BY <1>1, <1>2, <1>3, <1>4, <1>5 DEF UsageNode, Sequenced

LEMMA OtherNode ==
  ASSUME UsageInv, NEW m \in Node, Step(m), NEW p \in Node, p # m
  PROVE  UsageNode(p)'
<1>0. /\ Scoped /\ Worked /\ UsageNode(p) /\ FreshNode(p) /\ SeqAt(p) /\ Frame(m)
      /\ st \in [Node -> Status] /\ at \in [Node -> Nat]
  BY StepKeeps DEF UsageInv, OrderInv, TypeInv, Scoped, Typed, Kept
<1>1. at'[p] = at[p] /\ usage'[p] = usage[p] /\ (p \in paused' <=> p \in paused)
  BY <1>0, OwnWork DEF Frame
<1>2. st'[p] = st[p] \/ (st[p] = "idle" /\ st'[p] = "ready") BY <1>0 DEF Frame
<1>3. \A c \in Under(p) : /\ st[c] = "idle" => st'[c] = "idle"
                          /\ ~AtWork(c) => st'[c] = st[c]
                          /\ st[c] \in Raised => st'[c] \in Raised
                          /\ st'[c] # "idle" => st[c] # "idle"
  <2> SUFFICES ASSUME NEW c \in Under(p)
               PROVE  /\ st[c] = "idle" => st'[c] = "idle"
                      /\ ~AtWork(c) => st'[c] = st[c]
                      /\ st[c] \in Raised => st'[c] \in Raised
                      /\ st'[c] # "idle" => st[c] # "idle"
    OBVIOUS
  <2>1. c \in Node /\ Parent[c] # m BY UnderFacts
  <2>2. c = m \/ st'[c] = st[c] BY <1>0, <2>1 DEF Frame
  <2>3. c = m => AtWork(c) BY <1>0 DEF Frame
  <2> QED BY <2>2, <2>3 DEF AtWork, Raised
<1>4. KidSet(p) \subseteq Under(p) /\ (Else[p] # NoNode => Else[p] \in Under(p)) BY DEF Under
<1>5. st'[p] \in {"idle", "ready"} => usage'[p] = 0 BY <1>0, <1>1, <1>2 DEF UsageNode
<1>6. p \in paused' => st'[p] \in Ended
  BY <1>0, <1>1, <1>2 DEF UsageNode, Ended, Returned, Raised
<1>7. Kind[p] = "choice" /\ st'[p] = "running" =>
        \A i \in 1..Len(Kids[p]) : i # at'[p] => st'[Kids[p][i]] = "idle"
  BY <1>0, <1>1, <1>2, <1>3, <1>4, TreeFacts DEF UsageNode
<1>8. Else[p] # NoNode /\ st'[Else[p]] # "idle" =>
        \/ \E c \in KidSet(p) : st'[c] \in Raised
        \/ \A c \in KidSet(p) : st'[c] = "idle"
  BY <1>0, <1>3, <1>4 DEF UsageNode
<1>9. ASSUME Sequenced(p), st'[p] = "running", NoRaise(p)'
      PROVE  usage'[p] = Cardinality(DoneTo(p, at[p] - 1)')
  <2> DEFINE a == at[p] - 1
  <2>1. st[p] = "running" /\ NoRaise(p) BY <1>0, <1>2, <1>9, RaiseStays
  <2>2. usage[p] = Cardinality(DoneTo(p, a)) BY <1>0, <1>9, <2>1 DEF UsageNode
  <2>3. at[p] \in 1..Len(Kids[p]) /\ Len(Kids[p]) \in Nat
    BY <1>0, <1>9, <2>1, TreeFacts DEF FreshNode, Sequenced
  <2>4. a \in 0..Len(Kids[p]) BY <2>3
  <2>5. ASSUME NEW j \in 1..a
        PROVE  ~AtWork(Kids[p][j]) /\ st'[Kids[p][j]] = st[Kids[p][j]]
    <3>1. j \in 1..Len(Kids[p]) /\ j < at[p] BY <2>3
    <3>2. ~AtWork(Kids[p][j]) BY <1>0, <1>9, <3>1 DEF SeqAt
    <3>3. Kids[p][j] \in Under(p) BY <1>4, <3>1, TreeFacts
    <3> QED BY <1>3, <3>2, <3>3
  <2>6. UNION {Done(Kids[p][j])' : j \in 1..a} = DoneTo(p, a)
    <3>1. \A j \in 1..a : ~AtWork(Kids[p][j]) /\ st'[Kids[p][j]] = st[Kids[p][j]] BY <2>5
    <3> HIDE DEF a
    <3> QED BY <2>1, <2>4, <3>1, TakenKids
  <2>7. DoneTo(p, at[p] - 1)' = UNION {Done(Kids[p][j])' : j \in 1..(at'[p] - 1)} BY DEF DoneTo
  <2>8. DoneTo(p, at[p] - 1)' = DoneTo(p, a) BY <1>1, <2>6, <2>7
  <2> QED BY <1>1, <2>2, <2>8
<1> QED BY <1>5, <1>6, <1>7, <1>8, <1>9 DEF UsageNode, Sequenced

\* What m reports when it returns, and what others reported stays so.
LEMMA WholeStep ==
  ASSUME UsageInv, NEW m \in Node, Step(m), NEW n \in Node,
         st'[n] \in Returned, NoRaise(n)'
  PROVE  usage'[n] = Cardinality(Done(n)')
<1>0. Scoped /\ Worked /\ Frame(m) /\ st \in [Node -> Status] /\ NoRaise(n)
  BY StepKeeps, RaiseStays DEF UsageInv, OrderInv, TypeInv, Kept, Scoped, Typed
<1>1. CASE n = m BY <1>0, <1>1, Reports
<1>2. CASE n # m
  <2>1. st'[n] = st[n] BY <1>0, <1>2 DEF Frame, Returned
  <2>2. ~AtWork(n) BY <2>1 DEF AtWork, Returned
  <2>3. Done(n)' = Done(n) BY <1>0, <2>1, <2>2, Frozen
  <2>4. usage'[n] = usage[n] BY <1>0, <1>2, OwnWork
  <2>5. usage[n] = Cardinality(Done(n)) BY <1>0, <2>1 DEF UsageInv, UsageIsWhole, NoRaise, Done
  <2> QED BY <2>3, <2>4, <2>5
<1> QED BY <1>1, <1>2

LEMMA UsageInit == Init => UsageInv
<1> SUFFICES ASSUME Init PROVE UsageInv OBVIOUS
<1>1. OrderInv /\ TypeInv BY OrderInit DEF OrderInv
<1>2. \A n \in Node : /\ st[n] \in {"idle", "ready"} /\ st[n] \notin Returned
                      /\ usage[n] = 0 /\ FreshNode(n)
  BY <1>1 DEF Init, TypeInv, Scoped, Returned
<1>3. paused = {} BY DEF Init
<1>4. \A n \in Node : UsageNode(n) BY <1>2, <1>3 DEF UsageNode, FreshNode
<1>5. UsageIsWhole BY <1>2 DEF UsageIsWhole
<1> QED BY <1>1, <1>4, <1>5 DEF UsageInv

LEMMA UsageStep == UsageInv /\ [Next]_vars => UsageInv'
<1> SUFFICES ASSUME UsageInv, [Next]_vars PROVE UsageInv' OBVIOUS
<1>0. OrderInv' BY OrderStep DEF UsageInv
<1>1. ASSUME NEW m \in Node, Step(m) PROVE UsageInv'
  <2>1. \A n \in Node : UsageNode(n)' BY <1>1, OwnNode, OtherNode
  <2>2. UsageIsWhole'
    <3>1. \A n \in Node : st'[n] \in Returned /\ NoRaise(n)' =>
            usage'[n] = Cardinality(Done(n)')
      BY <1>1, WholeStep
    <3>2. \A n : NoRaise(n)' <=> \A d \in Below[n] : st'[d] \notin Raised BY DEF NoRaise
    <3>3. \A n : Done(n)' = {d \in Below[n] : Completed(d)'} BY DEF Done
    <3> QED BY <3>1, <3>2, <3>3 DEF UsageIsWhole
  <2> QED BY <1>0, <2>1, <2>2 DEF UsageInv
<1>2. CASE UNCHANGED vars
  <2>1. st' = st /\ at' = at /\ usage' = usage /\ paused' = paused BY <1>2 DEF vars
  <2>2. UsageIsWhole' BY <2>1 DEF UsageInv, UsageIsWhole, Completed
  <2>3. \A n \in Node : UsageNode(n)'
    <3> SUFFICES ASSUME NEW n \in Node PROVE UsageNode(n)' OBVIOUS
    <3>1. UsageNode(n) BY DEF UsageInv
    <3>2. \A k : Done(k)' = Done(k) BY <2>1 DEF Done, Completed
    <3>3. DoneTo(n, at[n] - 1)' = UNION {Done(Kids[n][j])' : j \in 1..(at'[n] - 1)}
      BY DEF DoneTo
    <3>4. DoneTo(n, at[n] - 1)' = DoneTo(n, at[n] - 1) BY <2>1, <3>2, <3>3 DEF DoneTo
    <3>5. NoRaise(n)' <=> NoRaise(n) BY <2>1 DEF NoRaise
    <3> QED BY <2>1, <3>1, <3>4, <3>5 DEF UsageNode
  <2> QED BY <1>0, <2>2, <2>3 DEF UsageInv
<1> QED BY <1>1, <1>2 DEF Next

\* In every tree, the usage a result reports is that of every agent run completed
\* under it, whatever was skipped, stopped early or replaced by a fallback, as
\* long as nothing raised under it (the roll-up of multiagent.py's runs).
THEOREM UsageSound == Spec => []UsageIsWhole
<1>1. UsageInv => UsageIsWhole
  BY DEF UsageInv
<1> QED BY <1>1, UsageInit, UsageStep, PTL DEF Spec
=============================================================================
