------------------------------- MODULE Lists -------------------------------
(* Lists of ids as the stores and the graph engine keep them.  What Filter   *)
(* does is SelectSeq with a set for a test, written as a recursive function  *)
(* so that it can be reasoned about for lists of any length.                 *)
EXTENDS Integers, Sequences

InSeq(x, s) == \E i \in 1..Len(s) : s[i] = x

\* x stands at one place of s at most.
Once(x, s) == \A i, j \in 1..Len(s) : s[i] = x /\ s[j] = x => i = j

\* The elements of s that are in kept, in their order: the first i of s, and all.
FirstKept(s, kept) ==
  LET f[i \in 0..Len(s)] ==
        IF i = 0 THEN <<>>
        ELSE IF s[i] \in kept THEN Append(f[i - 1], s[i]) ELSE f[i - 1]
  IN f
Filter(s, kept) == FirstKept(s, kept)[Len(s)]
=============================================================================
