----------------------------- MODULE Supersteps -----------------------------
(***************************************************************************)
(* What a StateGraph promises its caller: bulk-synchronous supersteps      *)
(* (docs/graph.md).  Each superstep runs every node of the frontier once   *)
(* and the next frontier is what those nodes route to.  Crashes, retries   *)
(* and pauses do not show.                                                 *)
(***************************************************************************)
EXTENDS Naturals, Functions

CONSTANTS Nodes,    \* the graph's nodes
          End,      \* END
          Entry,    \* graph.entry
          Edges,    \* per node, the targets of its edges in the order added
          Routed    \* nodes with conditional edges: their router picks a target

VARIABLES applied,  \* per node, how often its updates were folded into the state
          frontier  \* nodes of the next superstep

Init ==
    /\ applied = [n \in Nodes |-> 0]
    /\ frontier = {Entry}

\* What a node may route to when it has run.
Targets(n) == IF n \in Routed
              THEN {{m} \ {End} : m \in Range(Edges[n])}
              ELSE {Range(Edges[n]) \ {End}}

Superstep ==
    /\ frontier # {}
    /\ applied' = [n \in Nodes |-> IF n \in frontier THEN applied[n] + 1
                                                     ELSE applied[n]]
    /\ \E routes \in [frontier -> SUBSET Nodes] :
          /\ \A n \in frontier : routes[n] \in Targets(n)
          /\ frontier' = UNION Range(routes)

Spec == Init /\ [][Superstep]_<<applied, frontier>>
=============================================================================
