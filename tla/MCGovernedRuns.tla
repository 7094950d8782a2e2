--------------------------- MODULE MCGovernedRuns ---------------------------
EXTENDS GovernedRuns
CONSTANTS r1, r2, bank
KeysDef == [r \in Run |-> {bank}]
LimitDef == [k \in Key |-> 1]
InvocationsDef == [r \in Run |-> IF r = r1 THEN 2 ELSE 1]
\* An agent that is registered as it should be, or as approved from the start.
CardsDef == [state : {"DRAFT"}, status : {"pending", "approved"}]
=============================================================================
