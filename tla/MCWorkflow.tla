---------------------------- MODULE MCWorkflow ----------------------------
(***************************************************************************)
(* Team: a pipeline r of a guarded parallel step p and a pipeline l that    *)
(* may stop early.  p runs the guarded agent a beside a map m over two      *)
(* inputs, one at a time; its fallback f routes to an agent or to a         *)
(* parallel step whose branches share a key.  l runs an agent that writes   *)
(* the key a writes, then a flow w of two agents and a router without a     *)
(* default.                                                                 *)
(* Desk: a pipeline of an agent and one more.                               *)
(***************************************************************************)
EXTENDS Workflow

CONSTANTS r, p, a, m, m1, m2, f, f1, f2, c1, c2, l, l1, w, w1, w2, g, g1, k

TeamNode == {r, p, a, m, m1, m2, f, f1, f2, c1, c2, l, l1, w, w1, w2, g, g1}
TeamKids == [n \in TeamNode |->
  CASE n = r -> <<p, l>> [] n = p -> <<a, m>> [] n = m -> <<m1, m2>>
    [] n = f -> <<f1, f2>> [] n = f2 -> <<c1, c2>>
    [] n = l -> <<l1, w, g>> [] n = w -> <<w1, w2>> [] n = g -> <<g1>>
    [] OTHER -> <<>>]
TeamKind == [n \in TeamNode |->
  CASE n \in {r, l} -> "serial" [] n \in {p, m, f2} -> "fan"
    [] n \in {f, g} -> "choice" [] n = w -> "flow" [] OTHER -> "agent"]
ParentIn(tree, kids, else) == [c \in tree |->
  IF \E n \in tree : else[n] = c \/ \E i \in DOMAIN kids[n] : kids[n][i] = c
  THEN CHOOSE n \in tree : else[n] = c \/ \E i \in DOMAIN kids[n] : kids[n][i] = c
  ELSE NoNode]
TeamElse == [n \in TeamNode |-> IF n = p THEN f ELSE NoNode]
TeamParent == ParentIn(TeamNode, TeamKids, TeamElse)
TeamWidth == [n \in TeamNode |-> IF n = m THEN 1 ELSE 2]
TeamNoMatch == [n \in TeamNode |-> IF n = f THEN "skipped" ELSE "broken"]
TeamWrites == [n \in TeamNode |-> IF n \in {a, l1, c1, c2} THEN k ELSE NoKey]

DeskNode == {r, a, l1}
DeskKids == [n \in DeskNode |-> IF n = r THEN <<a, l1>> ELSE <<>>]
DeskKind == [n \in DeskNode |-> IF n = r THEN "serial" ELSE "agent"]
DeskElse == [n \in DeskNode |-> NoNode]
DeskParent == ParentIn(DeskNode, DeskKids, DeskElse)
DeskWidth == [n \in DeskNode |-> 1]
DeskNoMatch == [n \in DeskNode |-> "default"]
DeskWrites == [n \in DeskNode |-> IF n = a THEN k ELSE NoKey]
=============================================================================
