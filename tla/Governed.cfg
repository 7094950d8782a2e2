\* Two runs of one governed agent by callers of one tenant, whose budget one answer
\* uses up; the first is invoked up to twice; two model calls each, a breaker that
\* opens at the second failure and a limiter with a single permit.
SPECIFICATION FairSpec
CONSTANTS
  r1 = r1
  r2 = r2
  bank = bank
  Run = {r1, r2}
  Invocations <- InvocationsDef
  Cards <- CardsDef
  Key = {bank}
  KeysOf <- KeysDef
  Limit <- LimitDef
  Mode = "enforcing"
  CheckpointMode = "step"
  MaxCost = 1
  MaxSteps = 2
  Slots = 2
  Threshold = 2
  Rate = 1
INVARIANTS TypeOK BreakerHonest SpendBounded TrailIsComplete
PROPERTIES WithdrawnStaysOut RunsEnd
