--------------------------- MODULE GraphRunProofs ---------------------------
(***************************************************************************)
(* For every graph, every saver and any number of invocations, errors and  *)
(* crashes: a resume value answers one interrupt call at most.             *)
(***************************************************************************)
EXTENDS GraphRun, ListProofs, SequenceTheorems

\* An answer held by the running node's context has been supplied and not used;
\* between invocations nothing is held.
AnswersInv ==
    /\ answered \in Nat /\ resumes \in Nat
    /\ DOMAIN run = DOMAIN Idle
    /\ run.on \in BOOLEAN /\ run.answer \in BOOLEAN
    /\ ~run.on => ~run.answer
    /\ run.answer => answered + 1 <= resumes
    /\ answered <= resumes

LEMMA AnswersInit == Init => AnswersInv
  BY DEF Init, AnswersInv, Idle

\* The invocation ends: the fresh record holds no answer.
LEMMA ReturnDropsAnswer ==
  ASSUME AnswersInv, NEW how, Return(how), UNCHANGED <<answered, resumes>>
  PROVE  AnswersInv'
  BY DEF AnswersInv, Return, Idle

\* A step of the running node that leaves answered and resumes alone.
LEMMA NodeKeepsInv ==
  ASSUME AnswersInv, run.on,
         DOMAIN run' = DOMAIN run,
         run'.on = run.on,
         run'.answer \in {run.answer, FALSE},
         UNCHANGED <<answered, resumes>>
  PROVE  AnswersInv'
  BY DEF AnswersInv, Idle

\* A step of the running node that uses its answer.
LEMMA NodeAnswers ==
  ASSUME AnswersInv, run.on, run.answer,
         DOMAIN run' = DOMAIN run,
         run'.on = run.on,
         run'.answer = FALSE,
         answered' = answered + 1,
         UNCHANGED resumes
  PROVE  AnswersInv'
<1>1. answered \in Nat /\ resumes \in Nat /\ answered + 1 <= resumes
  BY Zenon DEF AnswersInv
<1>2. answered' \in Nat /\ resumes' \in Nat /\ answered' <= resumes'
  BY <1>1
<1>3. DOMAIN run' = DOMAIN Idle'
  BY DEF AnswersInv, Idle
<1>4. run'.on \in BOOLEAN /\ run'.answer \in BOOLEAN
  BY Zenon DEF AnswersInv
<1> QED BY <1>2, <1>3, <1>4, Zenon DEF AnswersInv

\* An invocation with a resume value starts.
LEMMA ResumeAnswers ==
  ASSUME AnswersInv, ~run.on, resumes' = resumes + 1, UNCHANGED answered,
         NEW row, Start(row, TRUE)
  PROVE  AnswersInv'
<1>1. /\ DOMAIN run' = DOMAIN Idle'
      /\ run'.on = TRUE
      /\ run'.answer = TRUE
  BY DEF Start, Idle
<1>2. answered \in Nat /\ resumes \in Nat /\ answered <= resumes
  BY Zenon DEF AnswersInv
<1>3. /\ answered' \in Nat /\ resumes' \in Nat
      /\ answered' + 1 <= resumes' /\ answered' <= resumes'
  BY <1>2
<1> QED BY <1>1, <1>3, Zenon DEF AnswersInv

LEMMA AnswersStep == AnswersInv /\ [Next]_vars => AnswersInv'
<1> SUFFICES ASSUME AnswersInv, [Next]_vars PROVE AnswersInv'
  OBVIOUS
<1>1. CASE Invoke
  BY <1>1 DEF Invoke, Start, Idle, AnswersInv
<1>2. CASE Resume
  BY <1>2, ResumeAnswers, Zenon DEF Resume
<1>3. CASE NodeReturns
  <2>1. run.on
    BY <1>3 DEF NodeReturns, Running
  <2>2. /\ DOMAIN run' = DOMAIN run
        /\ run'.on = run.on
        /\ run'.answer = FALSE
    BY <1>3 DEF NodeReturns, NoAnswer, AnswersInv, Idle
  <2>3. CASE Node \in Asking
    <3>1. run.answer /\ answered' = answered + 1 /\ UNCHANGED resumes
      BY <1>3, <2>3 DEF NodeReturns
    <3> QED BY <2>1, <2>2, <3>1, NodeAnswers
  <2>4. CASE Node \notin Asking
    <3>1. UNCHANGED <<answered, resumes>>
      BY <1>3, <2>4 DEF NodeReturns, AnswersInv
    <3> QED BY <2>1, <2>2, <3>1, NodeKeepsInv
  <2> QED BY <2>3, <2>4
<1>4. CASE NodeRaises
  <2>1. run.on /\ UNCHANGED resumes
    BY <1>4 DEF NodeRaises, Running
  <2>2. CASE Raised(run.answer) /\ UNCHANGED answered
    <3>1. CASE Return("raised")
      BY <2>1, <2>2, <3>1, ReturnDropsAnswer
    <3>2. CASE run' = [run EXCEPT !.failures = @ + 1, !.answer = run.answer]
      <4>1. /\ DOMAIN run' = DOMAIN run
            /\ run'.on = run.on
            /\ run'.answer = run.answer
        BY <3>2 DEF AnswersInv, Idle
      <4> QED BY <2>1, <2>2, <4>1, NodeKeepsInv
    <3> QED BY <2>2, <3>1, <3>2 DEF Raised
  <2>3. CASE run.answer /\ Raised(FALSE) /\ answered' = answered + 1
    <3>1. CASE Return("raised")
      BY <2>1, <2>3, <3>1 DEF Return, Idle, AnswersInv
    <3>2. CASE run' = [run EXCEPT !.failures = @ + 1, !.answer = FALSE]
      <4>1. /\ DOMAIN run' = DOMAIN run
            /\ run'.on = run.on
            /\ run'.answer = FALSE
        BY <3>2 DEF AnswersInv, Idle
      <4> QED BY <2>1, <2>3, <4>1, NodeAnswers
    <3> QED BY <2>3, <3>1, <3>2 DEF Raised
  <2> QED BY <1>4, <2>2, <2>3 DEF NodeRaises
<1>5. CASE NodeInterrupts
  BY <1>5, ReturnDropsAnswer DEF NodeInterrupts
<1>6. CASE Barrier
  <2>1. run.on /\ UNCHANGED <<answered, resumes>>
    BY <1>6 DEF Barrier
  <2>2. CASE Return("returned")
    BY <2>1, <2>2, ReturnDropsAnswer
  <2>3. CASE run' = [run EXCEPT !.step = @ + 1, !.active = run.next,
                                !.next = <<>>, !.at = 1, !.left = @ - 1]
    <3>1. /\ DOMAIN run' = DOMAIN run
          /\ run'.on = run.on
          /\ run'.answer = run.answer
      BY <2>3 DEF AnswersInv, Idle
    <3> QED BY <2>1, <3>1, NodeKeepsInv
  <2> QED BY <1>6, <2>2, <2>3 DEF Barrier
<1>7. CASE NothingToDo
  BY <1>7, ReturnDropsAnswer DEF NothingToDo
<1>8. CASE Crash
  BY <1>8, ReturnDropsAnswer DEF Crash
<1>9. CASE UNCHANGED vars
  BY <1>9 DEF AnswersInv, Idle, vars
<1> QED BY <1>1, <1>2, <1>3, <1>4, <1>5, <1>6, <1>7, <1>8, <1>9 DEF Next, Engine

\* A resume value answers one interrupt call at most, whatever is retried,
\* interrupted or crashes in between (GraphContext.interrupt and ainvoke's
\* resume_for_first).
THEOREM AnswersSound == Spec => []AnswersAreNotReused
<1>1. AnswersInv => AnswersAreNotReused
  BY DEF AnswersInv, AnswersAreNotReused
<1> QED BY <1>1, AnswersInit, AnswersStep, PTL DEF Spec

-----------------------------------------------------------------------------
(* Lists of nodes.                                                          *)
LEMMA RangeIs ==
  ASSUME NEW S, NEW s \in Seq(S)
  PROVE  Range(s) \subseteq S /\ \A x : x \in Range(s) <=> InSeq(x, s)
<1>1. DOMAIN s = 1..Len(s) OBVIOUS
<1>2. \A x : x \in Range(s) <=> InSeq(x, s) BY <1>1, Zenon DEF Range, InSeq
<1> QED BY <1>2 DEF InSeq

LEMMA OneEntry ==
  ASSUME NEW S, NEW e \in S
  PROVE  <<e>> \in Seq(S) /\ Range(<<e>>) = {e} /\ \A x : Once(x, <<e>>)
<1> DEFINE s == <<e>>
<1>1. s \in Seq(S) /\ Len(s) = 1 /\ s[1] = e OBVIOUS
<1> HIDE DEF s
<1>2. \A i \in 1..Len(s) : i = 1 BY <1>1
<1>3. 1 \in 1..Len(s) BY <1>1
<1>4. \A x : InSeq(x, s) <=> x = e BY <1>1, <1>2, <1>3 DEF InSeq
<1>5. Range(s) = {e} BY <1>1, <1>4, RangeIs
<1>6. \A x : Once(x, s) BY <1>2 DEF Once
<1> QED BY <1>1, <1>5, <1>6 DEF s

\* Extend adds nodes, each once, and none that is there.
LEMMA ExtendFacts ==
  ASSUME NEW s \in Seq(Nodes), NEW t \in Seq(Nodes \cup {End})
  PROVE  /\ Extend(s, t) \in Seq(Nodes)
         /\ Range(Extend(s, t)) = Range(s) \cup (Range(t) \ {End})
         /\ \A n : Once(n, s) /\ Once(n, t) => Once(n, Extend(s, t))
<1> DEFINE kept == Nodes \ Range(s)
           u == Filter(t, kept)
<1>1. /\ u \in Seq((Nodes \cup {End}) \cap kept)
      /\ \A x : InSeq(x, u) <=> InSeq(x, t) /\ x \in kept
      /\ \A x : Once(x, t) => Once(x, u)
  <2> HIDE DEF kept
  <2> QED BY FilterFacts
<1>2. u \in Seq(Nodes)
  <2>1. (Nodes \cup {End}) \cap kept \subseteq Nodes OBVIOUS
  <2> HIDE DEF kept, u
  <2> QED BY <1>1, <2>1
<1>3. /\ \A x : x \in Range(s) <=> InSeq(x, s)
      /\ \A x : x \in Range(t) <=> InSeq(x, t)
      /\ Range(t) \subseteq Nodes \cup {End} /\ Range(s) \subseteq Nodes
  BY RangeIs
<1>4. Extend(s, t) = s \o u BY DEF Extend
<1>5. \A x : InSeq(x, u) <=> x \in (Range(t) \ {End}) \ Range(s)
  BY <1>1, <1>3, GraphAssumption
<1> HIDE DEF u, kept
<1>6. /\ s \o u \in Seq(Nodes)
      /\ \A x : InSeq(x, s \o u) <=> InSeq(x, s) \/ InSeq(x, u)
      /\ \A x : Once(x, s) /\ Once(x, u) /\ ~(InSeq(x, s) /\ InSeq(x, u)) => Once(x, s \o u)
  BY <1>2, ConcatFacts
<1>7. Range(Extend(s, t)) = Range(s) \cup (Range(t) \ {End})
  <2>1. \A x : x \in Range(s \o u) <=> InSeq(x, s \o u) BY <1>6, RangeIs
  <2> QED BY <1>3, <1>4, <1>5, <1>6, <2>1
<1>8. \A n : Once(n, s) /\ Once(n, t) => Once(n, Extend(s, t))
  BY <1>1, <1>3, <1>4, <1>5, <1>6
<1> QED BY <1>4, <1>6, <1>7, <1>8

-----------------------------------------------------------------------------
(* Types.                                                                   *)
RunRec == [on : BOOLEAN, step : Nat, applied : Applied, active : Seq(Nodes),
           next : Seq(Nodes), at : Nat, answer : BOOLEAN,
           failures : Nat, left : 0 .. MaxSupersteps]

\* While an invocation is under way a node or the barrier is next, at the
\* barrier no failure is counted, and a superstep is left.
TInv ==
  /\ TypeOK
  /\ run.on => /\ run.at \in 1..(Len(run.active) + 1) /\ run.left \in 1..MaxSupersteps
               /\ ~Running => run.failures = 0

LEMMA TInvFacts ==
  ASSUME TInv
  PROVE  /\ run \in RunRec /\ saved \in Row /\ parked \in Row
         /\ run.on \in BOOLEAN /\ run.step \in Nat /\ run.applied \in Applied
         /\ run.active \in Seq(Nodes) /\ run.next \in Seq(Nodes) /\ run.at \in Nat
         /\ run.answer \in BOOLEAN /\ run.failures \in Nat /\ run.left \in 0..MaxSupersteps
         /\ DOMAIN run.active = 1..Len(run.active) /\ Len(run.active) \in Nat
<1>1. run \in RunRec /\ saved \in Row /\ parked \in Row BY DEF TInv, TypeOK, RunRec
<1>2. /\ run.on \in BOOLEAN /\ run.step \in Nat /\ run.applied \in Applied
      /\ run.active \in Seq(Nodes) /\ run.next \in Seq(Nodes) /\ run.at \in Nat
      /\ run.answer \in BOOLEAN /\ run.failures \in Nat /\ run.left \in 0..MaxSupersteps
  BY <1>1 DEF RunRec
<1> QED BY <1>1, <1>2

LEMMA RowsTyped ==
  /\ FirstRow \in Row /\ NoRow \in Row
  /\ FirstRow.step = 0 /\ FirstRow.applied = [n \in Nodes |-> 0]
  /\ FirstRow.frontier = <<Entry>>
  /\ NoRow.step = 0 /\ NoRow.frontier = <<>>
<1>1. [n \in Nodes |-> 0] \in Applied BY DEF Applied
<1>2. <<Entry>> \in Seq(Nodes) /\ <<>> \in Seq(Nodes) BY GraphAssumption
<1> QED BY <1>1, <1>2 DEF FirstRow, NoRow, Row

LEMMA RowIs ==
  ASSUME NEW step \in Nat, NEW a \in Applied, NEW frontier \in Seq(Nodes)
  PROVE  [step |-> step, applied |-> a, frontier |-> frontier] \in Row
BY DEF Row

LEMMA PutTyped == ASSUME saved \in Row, NEW row \in Row PROVE Put(row) \in Row
BY DEF Put

LEMMA IdleIs == Idle \in RunRec /\ Idle.on = FALSE /\ Idle.failures = 0 /\ Idle.at = 0
<1>1. [n \in Nodes |-> 0] \in Applied BY DEF Applied
<1>2. <<>> \in Seq(Nodes) OBVIOUS
<1>3. 0 \in 0..MaxSupersteps BY GraphAssumption
<1> QED BY <1>1, <1>2, <1>3 DEF Idle, RunRec

\* What Start begins.
LEMMA StartFacts ==
  ASSUME NEW row \in Row, NEW answer \in BOOLEAN, Start(row, answer)
  PROVE  /\ run' \in RunRec /\ run'.on = TRUE /\ run'.step = row.step
         /\ run'.applied = row.applied /\ run'.active = row.frontier /\ run'.next = <<>>
         /\ run'.at = 1 /\ run'.failures = 0 /\ run'.left = MaxSupersteps
<1>1. /\ row.step \in Nat /\ row.applied \in Applied /\ row.frontier \in Seq(Nodes)
      /\ MaxSupersteps \in 0..MaxSupersteps
  BY GraphAssumption DEF Row
<1>2. run' = [on |-> TRUE, step |-> row.step, applied |-> row.applied,
              active |-> row.frontier, next |-> <<>>, at |-> 1, answer |-> answer,
              failures |-> 0, left |-> MaxSupersteps]
  BY Zenon DEF Start, Idle
<1>3. <<>> \in Seq(Nodes) OBVIOUS
<1> QED BY <1>1, <1>2, <1>3 DEF RunRec

\* The node that runs.
LEMMA NodeIs ==
  ASSUME TInv, Running
  PROVE  Node \in Nodes /\ run.at \in 1..Len(run.active) /\ run.on = TRUE
BY TInvFacts DEF Running, Node

\* What a node that has run may queue.
Choices(n) == IF n \in Routed THEN {<<m>> : m \in Range(Edges[n])} ELSE {Edges[n]}

LEMMA ChoicesFacts ==
  ASSUME NEW n \in Nodes, NEW t \in Choices(n)
  PROVE  /\ t \in Seq(Nodes \cup {End})
         /\ \A x : Once(x, t)
         /\ Range(t) \ {End} \in Abstract!Targets(n)
<1>1. Edges[n] \in Seq(Nodes \cup {End}) /\ IsInjective(Edges[n]) BY GraphAssumption
<1>2. CASE n \in Routed
  <2>1. PICK m \in Range(Edges[n]) : t = <<m>> BY <1>2 DEF Choices
  <2>2. m \in Nodes \cup {End} BY <1>1, RangeIs
  <2>3. t \in Seq(Nodes \cup {End}) /\ Range(t) = {m} /\ \A x : Once(x, t)
    BY <2>1, <2>2, OneEntry
  <2>4. {m} \ {End} \in Abstract!Targets(n) BY <1>2 DEF Abstract!Targets, Abstract!Range, Range
  <2> QED BY <2>3, <2>4
<1>3. CASE n \notin Routed
  <2>1. t = Edges[n] BY <1>3 DEF Choices
  <2>2. DOMAIN t = 1..Len(t) BY <1>1, <2>1
  <2>3. \A x : Once(x, t) BY <1>1, <2>1, <2>2 DEF Once, IsInjective
  <2>4. Range(t) \ {End} \in Abstract!Targets(n) BY <1>3, <2>1 DEF Abstract!Targets, Abstract!Range, Range
  <2> QED BY <1>1, <2>1, <2>3, <2>4
<1> QED BY <1>2, <1>3

\* A node returns.
LEMMA NodeReturnsFacts ==
  ASSUME TInv, NodeReturns
  PROVE  /\ Running
         /\ UNCHANGED <<saved, result, parked, fresh, resumes, crashes>>
         /\ \E targets \in Choices(Node) :
              /\ run' \in RunRec /\ run'.on = TRUE /\ run'.step = run.step
              /\ run'.applied = [n \in Nodes |-> IF n = Node THEN run.applied[n] + 1
                                                             ELSE run.applied[n]]
              /\ run'.active = run.active /\ run'.next = Extend(run.next, targets)
              /\ run'.at = run.at + 1 /\ run'.failures = 0 /\ run'.left = run.left
<1>1. Running /\ UNCHANGED <<saved, result, parked, fresh, resumes, crashes>> BY DEF NodeReturns
<1>2. PICK targets \in Choices(Node) :
        run' = [run EXCEPT !.applied[Node] = @ + 1, !.at = @ + 1, !.failures = 0,
                           !.answer = NoAnswer, !.next = Extend(@, targets)]
  BY Zenon DEF NodeReturns, Choices
<1> DEFINE count == run.applied[Node] + 1
           a == [run.applied EXCEPT ![Node] = count]
           at == run.at + 1
           next == Extend(run.next, targets)
<1>3. run' = [run EXCEPT !.applied = a, !.at = at, !.failures = 0, !.answer = FALSE, !.next = next]
  BY <1>2, Zenon DEF NoAnswer
<1>4. Node \in Nodes BY <1>1, NodeIs
<1>5. /\ a \in Applied
      /\ a = [n \in Nodes |-> IF n = Node THEN run.applied[n] + 1 ELSE run.applied[n]]
  <2>1. count \in Nat BY <1>4, TInvFacts DEF Applied
  <2>2. run.applied \in [Nodes -> Nat] BY TInvFacts DEF Applied
  <2>3. count = run.applied[Node] + 1 OBVIOUS
  <2> HIDE DEF count
  <2>4. a \in [Nodes -> Nat] BY <2>1, <2>2
  <2>5. \A n \in Nodes : a[n] = IF n = Node THEN run.applied[n] + 1 ELSE run.applied[n]
    BY <2>2, <2>3
  <2> HIDE DEF a
  <2> QED BY <2>4, <2>5 DEF Applied
<1>6. at \in Nat BY TInvFacts
<1>7. next \in Seq(Nodes) BY <1>4, ChoicesFacts, ExtendFacts, TInvFacts
<1> HIDE DEF a, at, next
<1>8. /\ run' \in RunRec /\ run'.on = run.on /\ run'.step = run.step /\ run'.applied = a
      /\ run'.active = run.active /\ run'.next = next /\ run'.at = at /\ run'.failures = 0
      /\ run'.left = run.left
  BY <1>3, <1>5, <1>6, <1>7, TInvFacts DEF RunRec
<1>9. run.on = TRUE BY <1>1, NodeIs
<1> QED BY <1>1, <1>5, <1>8, <1>9 DEF at, next

\* A node raises and is run again, or its error ends the invocation.
LEMMA RaisedFacts ==
  ASSUME TInv, Running, NEW answer \in BOOLEAN, Raised(answer)
  PROVE  \/ run' = Idle /\ result' = "raised"
         \/ /\ run' \in RunRec /\ run'.on = TRUE /\ run'.step = run.step
            /\ run'.applied = run.applied /\ run'.active = run.active /\ run'.next = run.next
            /\ run'.at = run.at /\ run'.failures < MaxAttempts[Node] /\ run'.left = run.left
            /\ UNCHANGED result
<1>1. CASE Return("raised") BY <1>1 DEF Return
<1>2. CASE /\ ~OutOfAttempts /\ UNCHANGED result
           /\ run' = [run EXCEPT !.failures = @ + 1, !.answer = answer]
  <2> DEFINE failures == run.failures + 1
  <2>1. run' = [run EXCEPT !.failures = failures, !.answer = answer] BY <1>2, Zenon
  <2>2. failures \in Nat /\ failures < MaxAttempts[Node]
    <3>1. MaxAttempts[Node] \in Nat BY NodeIs, GraphAssumption
    <3> QED BY <1>2, <3>1, TInvFacts DEF OutOfAttempts
  <2> HIDE DEF failures
  <2>3. /\ run' \in RunRec /\ run'.on = run.on /\ run'.step = run.step
        /\ run'.applied = run.applied /\ run'.active = run.active /\ run'.next = run.next
        /\ run'.at = run.at /\ run'.failures = failures /\ run'.left = run.left
    BY <2>1, <2>2, TInvFacts DEF RunRec
  <2> QED BY <1>2, <2>2, <2>3, NodeIs
<1> QED BY <1>1, <1>2 DEF Raised

\* The barrier.
LEMMA BarrierFacts ==
  ASSUME TInv, Barrier
  PROVE  LET row == [step |-> run.step + 1, applied |-> run.applied, frontier |-> run.next] IN
         /\ run.on = TRUE /\ ~Running /\ run.active # <<>> /\ row \in Row
         /\ row.step = run.step + 1 /\ row.applied = run.applied /\ row.frontier = run.next
         /\ saved' = Put(row) /\ UNCHANGED <<parked, fresh, resumes, answered, crashes>>
         /\ \/ run' = Idle /\ result' = "returned"
            \/ /\ run' \in RunRec /\ run'.on = TRUE /\ run'.step = run.step + 1
               /\ run'.applied = run.applied /\ run'.active = run.next /\ run'.next = <<>>
               /\ run'.at = 1 /\ run'.left \in 1..MaxSupersteps /\ run'.failures = 0
               /\ UNCHANGED result
<1> DEFINE step == run.step + 1
           row == [step |-> step, applied |-> run.applied, frontier |-> run.next]
<1>1. step \in Nat /\ step = run.step + 1 BY TInvFacts
<1> HIDE DEF step
<1>2. /\ run.on = TRUE /\ ~Running /\ run.active # <<>> /\ saved' = Put(row)
      /\ UNCHANGED <<parked, fresh, resumes, answered, crashes>>
  BY TInvFacts DEF Barrier, step
<1>3. row \in Row /\ row.step = step /\ row.applied = run.applied /\ row.frontier = run.next
  BY <1>1, RowIs, TInvFacts
<1>4. CASE Return("returned") BY <1>1, <1>2, <1>3, <1>4 DEF Return
<1>5. CASE /\ run.left # 1 /\ UNCHANGED result
           /\ run' = [run EXCEPT !.step = @ + 1, !.active = run.next,
                                 !.next = <<>>, !.at = 1, !.left = @ - 1]
  <2> DEFINE left == run.left - 1
  <2>1. run' = [run EXCEPT !.step = step, !.active = run.next, !.next = <<>>, !.at = 1,
                           !.left = left]
    BY <1>5, Zenon DEF step
  <2>2. left \in 1..MaxSupersteps /\ left \in 0..MaxSupersteps
    <3>1. run.left \in 1..MaxSupersteps BY <1>2 DEF TInv
    <3>2. MaxSupersteps \in Nat BY GraphAssumption
    <3> QED BY <1>5, <3>1, <3>2
  <2>3. <<>> \in Seq(Nodes) OBVIOUS
  <2> HIDE DEF left
  <2>4. /\ run' \in RunRec /\ run'.on = run.on /\ run'.step = step
        /\ run'.applied = run.applied /\ run'.active = run.next /\ run'.next = <<>>
        /\ run'.at = 1 /\ run'.left = left /\ run'.failures = run.failures
    BY <1>1, <2>1, <2>2, <2>3, TInvFacts DEF RunRec
  <2>5. run.failures = 0 BY <1>2 DEF TInv
  <2> QED BY <1>1, <1>2, <1>3, <1>5, <2>2, <2>4, <2>5
<1> QED BY <1>1, <1>4, <1>5 DEF Barrier

-----------------------------------------------------------------------------
LEMMA TInvFrom ==
  ASSUME run' \in RunRec, saved' \in Row, parked' \in Row,
         result' \in {"none", "interrupted", "returned", "raised", "crashed"},
         fresh' \in Nat, resumes' \in Nat, answered' \in Nat, crashes' \in Nat,
         run'.on => /\ run'.at \in 1..(Len(run'.active) + 1)
                    /\ run'.left \in 1..MaxSupersteps
                    /\ \/ run'.failures = 0
                       \/ /\ run'.at \in 1..Len(run'.active)
                          /\ run'.failures < MaxAttempts[run'.active[run'.at]]
  PROVE  TInv'
<1>1. run'.active \in Seq(Nodes) /\ run'.at \in Nat /\ run'.on \in BOOLEAN BY DEF RunRec
<1>2. DOMAIN run'.active = 1..Len(run'.active) /\ Len(run'.active) \in Nat BY <1>1
<1>3. ASSUME run'.on, run'.at \in 1..Len(run'.active)
      PROVE  run'.failures < MaxAttempts[run'.active[run'.at]]
  <2>1. run'.active[run'.at] \in Nodes BY <1>1, <1>3
  <2>2. MaxAttempts[run'.active[run'.at]] \in Nat \ {0} BY <2>1, GraphAssumption
  <2> QED BY <1>3, <2>2
<1>4. TypeOK' BY <1>2, <1>3 DEF TypeOK, RunRec
<1>5. run'.on => (~Running' => run'.failures = 0) BY <1>1, <1>2 DEF Running
<1> QED BY <1>4, <1>5 DEF TInv

LEMMA TInvInit == ASSUME Init PROVE TInv
<1>1. /\ saved = NoRow /\ run = Idle /\ result = "none" /\ parked = NoRow
      /\ fresh = 0 /\ resumes = 0 /\ answered = 0 /\ crashes = 0
  BY DEF Init
<1> QED BY <1>1, IdleIs, RowsTyped DEF TInv, TypeOK, RunRec

\* What is left of a superstep is a list of nodes.
LEMMA ParkedTyped ==
  ASSUME TInv, Running
  PROVE  /\ Parked \in Seq(Nodes)
         /\ [step |-> run.step, applied |-> run.applied, frontier |-> Parked] \in Row
<1>1. /\ run.active \in Seq(Nodes) /\ run.at \in 1..Len(run.active) /\ Node \in Nodes
      /\ run.next \in Seq(Nodes) /\ run.step \in Nat /\ run.applied \in Applied
  BY NodeIs, TInvFacts
<1> DEFINE tail == SubSeq(run.active, run.at + 1, Len(run.active))
           s == <<Node>> \o tail
<1>2. tail \in Seq(Nodes)
  <2>1. \A i \in (run.at + 1)..Len(run.active) : i \in 1..Len(run.active) BY <1>1
  <2> QED BY <1>1, <2>1
<1> HIDE DEF tail
<1>3. s \in Seq(Nodes) BY <1>1, <1>2
<1>4. run.next \in Seq(Nodes \cup {End}) BY <1>1
<1>5. Parked = Extend(s, run.next) BY DEF Parked, tail
<1> HIDE DEF s
<1>6. Parked \in Seq(Nodes) BY <1>3, <1>4, <1>5, ExtendFacts
<1> QED BY <1>1, <1>6, RowIs

\* The invocation is over.
LEMMA ReturnKeepsTypes ==
  ASSUME TInv, run' = Idle, result' \in {"interrupted", "returned", "raised", "crashed"},
         saved' \in Row, parked' \in Row,
         fresh' \in Nat, resumes' \in Nat, answered' \in Nat, crashes' \in Nat
  PROVE  TInv'
BY IdleIs, TInvFrom

LEMMA TInvStep == ASSUME TInv, [Next]_vars PROVE TInv'
<1>1. /\ saved \in Row /\ parked \in Row /\ run.on \in BOOLEAN
      /\ result \in {"none", "interrupted", "returned", "raised", "crashed"}
      /\ fresh \in Nat /\ resumes \in Nat /\ answered \in Nat /\ crashes \in Nat
  BY TInvFacts DEF TInv, TypeOK
<1>2. ASSUME NEW row \in Row, NEW answer \in BOOLEAN, Start(row, answer),
             UNCHANGED <<saved, result, parked, answered, crashes>>,
             fresh' \in Nat, resumes' \in Nat
      PROVE  TInv'
  <2>1. /\ run' \in RunRec /\ run'.at = 1 /\ run'.failures = 0 /\ run'.left = MaxSupersteps
    BY <1>2, StartFacts
  <2>2. Len(run'.active) \in Nat /\ MaxSupersteps \in 1..MaxSupersteps
    BY <2>1, GraphAssumption DEF RunRec
  <2>3. run'.at \in 1..(Len(run'.active) + 1) BY <2>1, <2>2
  <2> QED BY <1>1, <1>2, <2>1, <2>2, <2>3, TInvFrom
<1>3. CASE Invoke
  <2>1. fresh' \in Nat /\ FALSE \in BOOLEAN BY <1>1, <1>3 DEF Invoke
  <2> QED BY <1>1, <1>2, <1>3, <2>1, RowsTyped DEF Invoke
<1>4. CASE Resume
  <2> DEFINE row == IF saved = NoRow THEN FirstRow ELSE saved
  <2>1. row \in Row BY <1>1, RowsTyped
  <2>2. resumes' \in Nat /\ fresh' \in Nat BY <1>1, <1>4 DEF Resume
  <2>3. Start(row, TRUE) /\ UNCHANGED <<saved, result, parked, answered, crashes>>
    BY <1>4 DEF Resume
  <2> HIDE DEF row
  <2> QED BY <1>2, <2>1, <2>2, <2>3
<1>5. CASE NodeReturns
  <2>1. answered' \in Nat BY <1>1, <1>5 DEF NodeReturns
  <2>2. Running /\ UNCHANGED <<saved, result, parked, fresh, resumes, crashes>>
    BY <1>5, NodeReturnsFacts
  <2>3. /\ run' \in RunRec /\ run'.active = run.active /\ run'.at = run.at + 1
        /\ run'.failures = 0 /\ run'.left = run.left
    BY <1>5, NodeReturnsFacts
  <2>4. /\ run.at \in 1..Len(run.active) /\ run.left \in 1..MaxSupersteps
        /\ Len(run.active) \in Nat
    BY <2>2, NodeIs, TInvFacts DEF TInv
  <2>5. run'.at \in 1..(Len(run'.active) + 1) BY <2>3, <2>4
  <2> QED BY <1>1, <2>1, <2>2, <2>3, <2>4, <2>5, TInvFrom
<1>6. CASE NodeRaises
  <2>1. /\ Running /\ UNCHANGED <<saved, parked, fresh, resumes, crashes>>
        /\ \E answer \in BOOLEAN : Raised(answer)
    BY <1>6, TInvFacts DEF NodeRaises
  <2>2. answered' \in Nat
    <3>1. answered' = answered \/ answered' = answered + 1 BY <1>6, Zenon DEF NodeRaises
    <3> QED BY <1>1, <3>1
  <2>3. CASE run' = Idle /\ result' = "raised" BY <1>1, <2>1, <2>2, <2>3, ReturnKeepsTypes
  <2>4. CASE /\ run' \in RunRec /\ run'.active = run.active /\ run'.at = run.at
             /\ run'.failures < MaxAttempts[Node] /\ run'.left = run.left /\ UNCHANGED result
    <3>1. run.at \in 1..Len(run.active) /\ run.left \in 1..MaxSupersteps
          /\ run.at \in 1..(Len(run.active) + 1)
      BY <2>1, NodeIs, TInvFacts DEF TInv
    <3>2. run'.failures < MaxAttempts[run'.active[run'.at]] BY <2>4 DEF Node
    <3> QED BY <1>1, <2>1, <2>2, <2>4, <3>1, <3>2, TInvFrom
  <2> QED BY <2>1, <2>3, <2>4, RaisedFacts
<1>7. CASE NodeInterrupts
  <2>1. /\ Running /\ UNCHANGED <<fresh, resumes, answered, crashes>>
        /\ parked' = [step |-> run.step, applied |-> run.applied, frontier |-> Parked]
        /\ saved' = Put(parked') /\ run' = Idle /\ result' = "interrupted"
    BY <1>7 DEF NodeInterrupts, Return
  <2>2. parked' \in Row BY <2>1, ParkedTyped
  <2>3. saved' \in Row BY <1>1, <2>1, <2>2 DEF Put
  <2> QED BY <1>1, <2>1, <2>2, <2>3, ReturnKeepsTypes
<1>8. CASE Barrier
  <2> DEFINE row == [step |-> run.step + 1, applied |-> run.applied, frontier |-> run.next]
  <2>1. /\ row \in Row /\ saved' = Put(row)
        /\ UNCHANGED <<parked, fresh, resumes, answered, crashes>>
    BY <1>8, BarrierFacts
  <2> HIDE DEF row
  <2>2. saved' \in Row BY <1>1, <2>1, PutTyped
  <2>3. CASE run' = Idle /\ result' = "returned" BY <1>1, <2>1, <2>2, <2>3, ReturnKeepsTypes
  <2>4. CASE /\ run' \in RunRec /\ run'.at = 1 /\ run'.left \in 1..MaxSupersteps
             /\ run'.failures = 0 /\ UNCHANGED result
    <3>1. Len(run'.active) \in Nat BY <2>4 DEF RunRec
    <3>2. run'.at \in 1..(Len(run'.active) + 1) BY <2>4, <3>1
    <3> QED BY <1>1, <2>1, <2>2, <2>4, <3>2, TInvFrom
  <2> QED BY <1>8, <2>3, <2>4, BarrierFacts
<1>9. CASE NothingToDo BY <1>1, <1>9, ReturnKeepsTypes DEF NothingToDo, Return
<1>10. CASE Crash
  <2>1. crashes' \in Nat BY <1>1, <1>10 DEF Crash
  <2> QED BY <1>1, <1>10, <2>1, ReturnKeepsTypes DEF Crash, Return
<1>11. CASE UNCHANGED vars BY <1>11 DEF vars, TInv, TypeOK, Running
<1> QED BY <1>3, <1>4, <1>5, <1>6, <1>7, <1>8, <1>9, <1>10, <1>11 DEF Next, Engine

\* Every field of an invocation and of a checkpoint has its type, and a node
\* that runs has attempts left.
THEOREM TypeCorrect == Spec => []TypeOK
<1>1. Init => TInv BY TInvInit
<1>2. TInv /\ [Next]_vars => TInv' BY TInvStep
<1>3. TInv => TypeOK BY DEF TInv
<1> QED BY <1>1, <1>2, <1>3, PTL DEF Spec

-----------------------------------------------------------------------------
(* One superstep after the other: how an invocation stands to what is saved *)
(* of the thread.                                                           *)

\* What an invocation starts from, as long as it has not reached a barrier.
Base == IF saved = NoRow THEN FirstRow ELSE saved
\* The nodes of the superstep that have run.
Done == {run.active[i] : i \in 1..(run.at - 1)}
\* One route of each of them, together what is queued.
Queued ==
  \E routes \in [Done -> SUBSET Nodes] :
    /\ \A n \in Done : routes[n] \in Abstract!Targets(n)
    /\ \A m : m \in Range(run.next) <=> \E n \in Done : m \in routes[n]

Along ==
  /\ run.step = Base.step
  /\ run.active = Base.frontier
  /\ run.applied = [n \in Nodes |-> IF n \in Done THEN Base.applied[n] + 1
                                                  ELSE Base.applied[n]]
  /\ \A n \in Nodes : Once(n, run.next)
  /\ Queued

RInv ==
  /\ TInv
  /\ fresh = 0 => saved = NoRow /\ ~run.on
  /\ \A n \in Nodes : Once(n, saved.frontier)
  /\ run.on => Along

\* Only the first node of a superstep interrupts.
FirstAsks == NodeInterrupts => run.at = 1

LEMMA BaseFacts ==
  ASSUME RInv
  PROVE  /\ Base \in Row /\ Base.step \in Nat /\ Base.applied \in Applied
         /\ Base.frontier \in Seq(Nodes) /\ \A n \in Nodes : Once(n, Base.frontier)
         /\ saved.step \in Nat /\ saved.step <= Base.step
<1>1. saved \in Row BY TInvFacts DEF RInv
<1>2. Base \in Row BY <1>1, RowsTyped DEF Base
<1>3. \A n \in Nodes : Once(n, Base.frontier)
  <2>1. \A n \in Nodes : Once(n, <<Entry>>) BY OneEntry, GraphAssumption
  <2> QED BY <2>1, RowsTyped DEF RInv, Base
<1>4. saved.step \in Nat /\ saved.step <= Base.step
  <2>1. saved.step \in Nat BY <1>1 DEF Row
  <2> QED BY <2>1, RowsTyped DEF Base
<1> QED BY <1>2, <1>3, <1>4 DEF Row

\* What the abstraction sees of the thread.
LEMMA Seen ==
  ASSUME saved \in Row
  PROVE  /\ Base.applied = IF saved = NoRow THEN FirstRow.applied ELSE saved.applied
         /\ Range(Base.frontier) = IF saved = NoRow THEN {Entry} ELSE Range(saved.frontier)
<1>1. Range(<<Entry>>) = {Entry} BY OneEntry, GraphAssumption
<1> QED BY <1>1, RowsTyped DEF Base

\* A checkpoint an invocation puts is the one that is read next.
LEMMA PutCounts ==
  ASSUME RInv, NEW row \in Row, row.step \in Nat, row.step >= Base.step
  PROVE  Put(row) = row
<1>1. ~(saved.step > row.step) BY BaseFacts
<1> QED BY <1>1 DEF Put

\* An invocation starts where the thread stands.
LEMMA StartsAlong ==
  ASSUME RInv, Start(Base, TRUE) \/ Start(Base, FALSE), UNCHANGED saved
  PROVE  Along'
<1>1. /\ run'.step = Base.step /\ run'.applied = Base.applied /\ run'.active = Base.frontier
      /\ run'.next = <<>> /\ run'.at = 1
  BY BaseFacts, StartFacts
<1>2. Base' = Base BY DEF Base
<1>3. Done' = {}
  <2>1. 1..(run'.at - 1) = {} BY <1>1
  <2> QED BY <2>1 DEF Done
<1>4. Range(<<>>) = {} BY DEF Range
<1>5. Queued'
  <2> DEFINE routes == [n \in {} |-> {}]
  <2>1. routes \in [{} -> SUBSET Nodes] OBVIOUS
  <2>2. Range(run'.next) = {} BY <1>1, <1>4
  <2> HIDE DEF routes
  <2>3. routes \in [Done' -> SUBSET Nodes] BY <1>3, <2>1
  <2>4. \A n \in Done' : routes[n] \in Abstract!Targets(n)' BY <1>3
  <2>5. \A m : m \in Range(run'.next) <=> \E n \in Done' : m \in routes[n] BY <1>3, <2>2
  <2> QED BY <2>3, <2>4, <2>5, Zenon DEF Queued
<1>6. \A n \in Nodes : Once(n, <<>>) BY DEF Once
<1>7. run'.applied = [n \in Nodes |-> IF n \in Done' THEN Base'.applied[n] + 1
                                                     ELSE Base'.applied[n]]
  <2>1. Base.applied = [n \in Nodes |-> Base.applied[n]] BY BaseFacts DEF Applied
  <2> QED BY <1>1, <1>2, <1>3, <2>1
<1> QED BY <1>1, <1>2, <1>5, <1>6, <1>7 DEF Along

\* A node that returns has run once in its superstep, and what it routes to is
\* queued.
LEMMA ReturnsAlong ==
  ASSUME RInv, NodeReturns
  PROVE  Along'
<1>1. TInv /\ Running /\ UNCHANGED saved BY NodeReturnsFacts DEF RInv
<1>2. Node \in Nodes /\ run.at \in 1..Len(run.active) /\ run.on BY <1>1, NodeIs
<1>3. Along BY <1>2 DEF RInv
<1>4. Base' = Base BY <1>1 DEF Base
<1>5. PICK targets \in Choices(Node) :
        /\ run'.step = run.step /\ run'.active = run.active
        /\ run'.applied = [n \in Nodes |-> IF n = Node THEN run.applied[n] + 1
                                                       ELSE run.applied[n]]
        /\ run'.next = Extend(run.next, targets) /\ run'.at = run.at + 1
  BY <1>1, NodeReturnsFacts
<1>6. Done' = Done \cup {Node}
  <2>1. Done' = {run.active[i] : i \in 1..(run'.at - 1)} BY <1>5 DEF Done
  <2>2. run'.at - 1 = run.at BY <1>2, <1>5
  <2>3. \A i \in Int : i \in 1..run.at <=> i \in 1..(run.at - 1) \/ i = run.at BY <1>2
  <2>4. Done' = {run.active[i] : i \in 1..run.at} BY <2>1, <2>2
  <2>5. Done = {run.active[i] : i \in 1..(run.at - 1)} /\ Node = run.active[run.at]
    BY DEF Done, Node
  <2>6. 1..run.at = 1..(run.at - 1) \cup {run.at} BY <1>2, <2>3
  <2> QED BY <2>4, <2>5, <2>6
<1>7. Node \notin Done
  <2>1. Once(Node, run.active) BY <1>2, <1>3, BaseFacts DEF Along
  <2>2. \A i \in 1..(run.at - 1) : i \in 1..Len(run.active) /\ i # run.at
    BY <1>2, TInvFacts, <1>1
  <2> QED BY <1>2, <2>1, <2>2 DEF Done, Node, Once
<1>8. run'.applied = [n \in Nodes |-> IF n \in Done' THEN Base'.applied[n] + 1
                                                     ELSE Base'.applied[n]]
  <2>1. \A n \in Nodes : run.applied[n] = IF n \in Done THEN Base.applied[n] + 1
                                                        ELSE Base.applied[n]
    BY <1>3 DEF Along
  <2>2. \A n \in Nodes : (IF n = Node THEN run.applied[n] + 1 ELSE run.applied[n])
                         = IF n \in Done' THEN Base'.applied[n] + 1 ELSE Base'.applied[n]
    BY <1>4, <1>6, <1>7, <2>1
  <2> QED BY <1>5, <2>2, Zenon
<1>9. /\ targets \in Seq(Nodes \cup {End}) /\ \A x : Once(x, targets)
      /\ Range(targets) \ {End} \in Abstract!Targets(Node)
      /\ run.next \in Seq(Nodes)
  BY <1>1, <1>2, ChoicesFacts, TInvFacts
<1>10. /\ \A n \in Nodes : Once(n, run'.next)
       /\ Range(run'.next) = Range(run.next) \cup (Range(targets) \ {End})
  BY <1>3, <1>5, <1>9, ExtendFacts DEF Along
<1>11. Queued'
  <2>1. PICK routes \in [Done -> SUBSET Nodes] :
          /\ \A n \in Done : routes[n] \in Abstract!Targets(n)
          /\ \A m : m \in Range(run.next) <=> \E n \in Done : m \in routes[n]
    BY <1>3 DEF Along, Queued
  <2> DEFINE route == Range(targets) \ {End}
             all == [n \in Done \cup {Node} |-> IF n = Node THEN route ELSE routes[n]]
  <2>2. route \in SUBSET Nodes BY <1>9, RangeIs
  <2>3. route \in Abstract!Targets(Node) /\ Range(run'.next) = Range(run.next) \cup route
    BY <1>9, <1>10
  <2> HIDE DEF route
  <2>4. all \in [Done' -> SUBSET Nodes] BY <1>6, <2>2
  <2>5. \A n \in Done : all[n] = routes[n] BY <1>7
  <2>6. all[Node] = route OBVIOUS
  <2> HIDE DEF all
  <2>7. \A n \in Done' : all[n] \in Abstract!Targets(n)
    BY <1>6, <2>1, <2>3, <2>5, <2>6
  <2>8. \A m : (\E n \in Done' : m \in all[n])
               <=> (\E n \in Done : m \in routes[n]) \/ m \in route
    BY <1>6, <2>5, <2>6
  <2>9. \A m : m \in Range(run'.next) <=> \E n \in Done' : m \in all[n]
    BY <2>1, <2>3, <2>8
  <2> QED BY <2>4, <2>7, <2>9, Zenon DEF Queued
<1> QED BY <1>3, <1>4, <1>5, <1>8, <1>10, <1>11 DEF Along

\* A list is its first element and the others.
LEMMA Whole ==
  ASSUME NEW S, NEW s \in Seq(S), 1 \in 1..Len(s)
  PROVE  <<s[1]>> \o SubSeq(s, 2, Len(s)) = s
<1> DEFINE t == SubSeq(s, 2, Len(s))
           u == <<s[1]>> \o t
<1>1. Len(s) \in Nat \ {0} /\ s[1] \in S OBVIOUS
<1>2. t \in Seq(S) /\ Len(t) = Len(s) - 1 /\ \A i \in 1..Len(t) : t[i] = s[i + 1]
  <2>1. \A i \in 2..Len(s) : s[i] \in S BY <1>1
  <2>2. /\ t \in Seq(S) /\ Len(t) = IF 2 <= Len(s) THEN Len(s) - 2 + 1 ELSE 0
        /\ \A i \in 1..(Len(s) - 2 + 1) : t[i] = s[2 + i - 1]
    BY <1>1, <2>1, SubSeqProperties
  <2> HIDE DEF t
  <2>3. Len(t) = Len(s) - 1
    <3>1. Len(t) = IF 2 <= Len(s) THEN Len(s) - 2 + 1 ELSE 0 BY <2>2
    <3>2. Len(s) \in Nat /\ Len(s) >= 1 BY <1>1
    <3> QED BY <3>1, <3>2
  <2>4. ASSUME NEW i \in 1..Len(t) PROVE t[i] = s[i + 1]
    <3>1. i \in 1..(Len(s) - 2 + 1) /\ 2 + i - 1 = i + 1 BY <1>1, <2>3
    <3> QED BY <2>2, <3>1
  <2> QED BY <2>2, <2>3, <2>4
<1> HIDE DEF t
<1>3. <<s[1]>> \in Seq(S) /\ Len(<<s[1]>>) = 1 BY <1>1
<1>4. /\ u \in Seq(S) /\ Len(u) = Len(s) /\ u[1] = s[1]
      /\ \A i \in 1..Len(t) : u[i + 1] = t[i]
  BY <1>1, <1>2, <1>3
<1> HIDE DEF u
<1>5. \A i \in 1..Len(s) : u[i] = s[i]
  <2> SUFFICES ASSUME NEW i \in 1..Len(s), i # 1 PROVE u[i] = s[i] BY <1>4
  <2>1. i - 1 \in 1..Len(t) /\ (i - 1) + 1 = i BY <1>1, <1>2
  <2> QED BY <1>2, <1>4, <2>1
<1>6. u = s BY <1>1, <1>4, <1>5
<1> QED BY <1>6 DEF u, t

\* What the first node parks is its superstep, of which nothing has run.
LEMMA FirstParks ==
  ASSUME RInv, Running, run.at = 1
  PROVE  /\ run.applied = Base.applied /\ run.step = Base.step
         /\ Parked \in Seq(Nodes) /\ Parked # <<>>
         /\ Range(Parked) = Range(Base.frontier) /\ \A n \in Nodes : Once(n, Parked)
<1>1. TInv /\ Along BY NodeIs DEF RInv
<1>2. Node \in Nodes /\ 1 \in 1..Len(run.active) /\ run.active \in Seq(Nodes)
      /\ run.next \in Seq(Nodes) /\ Node = run.active[1]
  BY <1>1, NodeIs, TInvFacts DEF Node
<1>3. Done = {}
  <2>1. 1..(run.at - 1) = {} OBVIOUS
  <2> QED BY <2>1 DEF Done
<1>4. run.applied = Base.applied
  <2>1. run.applied = [n \in Nodes |-> Base.applied[n]] BY <1>1, <1>3 DEF Along
  <2> QED BY <2>1, BaseFacts DEF Applied
<1>5. Range(run.next) = {}
  <2>1. PICK routes : \A m : m \in Range(run.next) <=> \E n \in Done : m \in routes[n]
    BY <1>1 DEF Along, Queued
  <2> QED BY <1>3, <2>1
<1>6. <<Node>> \o SubSeq(run.active, 2, Len(run.active)) = run.active
  BY <1>2, Whole
<1>7. Parked = Extend(run.active, run.next)
  <2>1. run.at + 1 = 2 OBVIOUS
  <2> QED BY <1>6, <2>1, Zenon DEF Parked
<1>8. /\ Parked \in Seq(Nodes) /\ Range(Parked) = Range(run.active)
      /\ \A n \in Nodes : Once(n, Parked)
  <2>1. run.next \in Seq(Nodes \cup {End}) BY <1>2
  <2>2. \A n \in Nodes : Once(n, run.active) /\ Once(n, run.next)
    BY <1>1, BaseFacts DEF Along
  <2>3. /\ Extend(run.active, run.next) \in Seq(Nodes)
        /\ Range(Extend(run.active, run.next)) = Range(run.active) \cup (Range(run.next) \ {End})
        /\ \A n : Once(n, run.active) /\ Once(n, run.next)
               => Once(n, Extend(run.active, run.next))
    BY <1>2, <2>1, ExtendFacts
  <2> QED BY <1>5, <1>7, <2>2, <2>3
<1>9. Parked # <<>>
  <2>1. Node \in Range(run.active) BY <1>2 DEF Range
  <2>2. Range(<<>>) = {} BY DEF Range
  <2> QED BY <1>8, <2>1, <2>2
<1> QED BY <1>1, <1>4, <1>8, <1>9 DEF Along

\* The thread as Supersteps sees it.
SeenApplied == IF saved = NoRow THEN FirstRow.applied ELSE saved.applied
SeenFrontier == IF saved = NoRow THEN {Entry} ELSE Range(saved.frontier)

LEMMA RInvInit == ASSUME Init PROVE RInv /\ Abstract!Init
<1>1. saved = NoRow /\ run = Idle /\ fresh = 0 BY DEF Init
<1>2. TInv BY TInvInit
<1>3. \A n \in Nodes : Once(n, saved.frontier)
  <2>1. saved.frontier = <<>> /\ Len(<<>>) = 0 BY <1>1, RowsTyped
  <2> QED BY <2>1 DEF Once
<1>4. ~run.on BY <1>1, IdleIs
<1>5. Abstract!Init BY <1>1, RowsTyped DEF Abstract!Init
<1> QED BY <1>1, <1>2, <1>3, <1>4, <1>5 DEF RInv

\* Nothing is saved.
LEMMA SavedKept == ASSUME UNCHANGED saved PROVE UNCHANGED <<SeenApplied, SeenFrontier>>
BY DEF SeenApplied, SeenFrontier

\* The first node of a superstep interrupts: to the caller nothing has happened.
LEMMA InterruptsAlong ==
  ASSUME RInv, NodeInterrupts, run.at = 1
  PROVE  /\ saved' # NoRow /\ \A n \in Nodes : Once(n, saved'.frontier)
         /\ UNCHANGED <<SeenApplied, SeenFrontier>>
<1> DEFINE row == [step |-> run.step, applied |-> run.applied, frontier |-> Parked]
<1>1. Running /\ saved' = Put(row) BY DEF NodeInterrupts
<1>2. /\ run.applied = Base.applied /\ run.step = Base.step
      /\ Parked \in Seq(Nodes) /\ Parked # <<>>
      /\ Range(Parked) = Range(Base.frontier) /\ \A n \in Nodes : Once(n, Parked)
  BY <1>1, FirstParks
<1>3. row \in Row BY <1>1, ParkedTyped DEF RInv
<1>4. row.step = run.step /\ row.applied = run.applied /\ row.frontier = Parked OBVIOUS
<1> HIDE DEF row
<1>5. saved' = row
  <2>1. row.step \in Nat /\ row.step >= Base.step BY <1>2, <1>4, BaseFacts
  <2> QED BY <1>1, <1>3, <2>1, PutCounts
<1>6. saved' # NoRow BY <1>2, <1>4, <1>5, RowsTyped
<1>7. Base.applied = SeenApplied /\ Range(Base.frontier) = SeenFrontier
  BY Seen, TInvFacts DEF RInv, SeenApplied, SeenFrontier
<1>8. SeenApplied' = row.applied /\ SeenFrontier' = Range(row.frontier)
  BY <1>5, <1>6 DEF SeenApplied, SeenFrontier
<1> QED BY <1>2, <1>4, <1>5, <1>6, <1>7, <1>8

\* The barrier: what it saves is one superstep further.
LEMMA BarrierAlong ==
  ASSUME RInv, Barrier
  PROVE  /\ saved' # NoRow /\ \A n \in Nodes : Once(n, saved'.frontier)
         /\ run'.on => Along'
         /\ Abstract!Superstep
<1> DEFINE row == [step |-> run.step + 1, applied |-> run.applied, frontier |-> run.next]
<1>1. /\ run.on = TRUE /\ ~Running /\ run.active # <<>> /\ row \in Row
      /\ row.step = run.step + 1 /\ row.applied = run.applied /\ row.frontier = run.next
      /\ saved' = Put(row)
      /\ \/ run' = Idle
         \/ /\ run'.step = run.step + 1 /\ run'.applied = run.applied
            /\ run'.active = run.next /\ run'.next = <<>> /\ run'.at = 1
  BY BarrierFacts DEF RInv
<1> HIDE DEF row
<1>2. Along /\ TInv BY <1>1 DEF RInv
<1>3. run.step \in Nat /\ run.step = Base.step BY <1>2, TInvFacts DEF Along
<1>4. saved' = row
  <2>1. row.step \in Nat /\ row.step >= Base.step BY <1>1, <1>3
  <2> QED BY <1>1, <2>1, PutCounts
<1>5. saved' # NoRow
  <2>1. row.step # 0 BY <1>1, <1>3
  <2> QED BY <1>4, <2>1, RowsTyped
<1>6. Base' = row BY <1>4, <1>5 DEF Base
<1>7. \A n \in Nodes : Once(n, saved'.frontier) BY <1>1, <1>2, <1>4 DEF Along
<1>8. run'.on => Along'
  <2> SUFFICES ASSUME run'.on PROVE Along' OBVIOUS
  <2>1. /\ run'.step = row.step /\ run'.applied = row.applied /\ run'.active = row.frontier
        /\ run'.next = <<>> /\ run'.at = 1
    BY <1>1, IdleIs
  <2>2. Done' = {}
    <3>1. 1..(run'.at - 1) = {} BY <2>1
    <3> QED BY <3>1 DEF Done
  <2>3. Range(<<>>) = {} BY DEF Range
  <2>4. Queued'
    <3> DEFINE routes == [n \in {} |-> {}]
    <3>1. routes \in [{} -> SUBSET Nodes] OBVIOUS
    <3> HIDE DEF routes
    <3>2. routes \in [Done' -> SUBSET Nodes] BY <2>2, <3>1
    <3>3. \A n \in Done' : routes[n] \in Abstract!Targets(n)' BY <2>2
    <3>4. \A m : m \in Range(run'.next) <=> \E n \in Done' : m \in routes[n]
      BY <2>1, <2>2, <2>3
    <3> QED BY <3>2, <3>3, <3>4, Zenon DEF Queued
  <2>5. \A n \in Nodes : Once(n, <<>>) BY DEF Once
  <2>6. run'.applied = [n \in Nodes |-> IF n \in Done' THEN Base'.applied[n] + 1
                                                       ELSE Base'.applied[n]]
    <3>1. row.applied \in [Nodes -> Nat] BY <1>1 DEF Row, Applied
    <3>2. row.applied = [n \in Nodes |-> row.applied[n]] BY <3>1
    <3> QED BY <1>6, <2>1, <2>2, <3>2
  <2> QED BY <1>6, <2>1, <2>4, <2>5, <2>6 DEF Along
<1>9. Done = Range(run.active)
  <2>1. run.at \in 1..(Len(run.active) + 1) /\ run.at \notin DOMAIN run.active
    BY <1>1, <1>2 DEF TInv, Running
  <2>2. run.at - 1 = Len(run.active) /\ DOMAIN run.active = 1..Len(run.active)
    BY <1>2, <2>1, TInvFacts
  <2> QED BY <2>2, Zenon DEF Done, Range
<1>10. Base.applied = SeenApplied /\ Range(Base.frontier) = SeenFrontier
  BY Seen, TInvFacts DEF RInv, SeenApplied, SeenFrontier
<1>11. SeenApplied' = row.applied /\ SeenFrontier' = Range(row.frontier)
  BY <1>4, <1>5 DEF SeenApplied, SeenFrontier
<1>12. Done = SeenFrontier BY <1>2, <1>9, <1>10 DEF Along
<1>13. SeenFrontier # {}
  <2>1. 1 \in DOMAIN run.active BY <1>1, <1>2, TInvFacts
  <2> QED BY <1>9, <1>12, <2>1 DEF Range
<1>14. SeenApplied' = [n \in Nodes |-> IF n \in SeenFrontier THEN SeenApplied[n] + 1
                                                            ELSE SeenApplied[n]]
  BY <1>1, <1>2, <1>10, <1>11, <1>12 DEF Along
<1>15. PICK routes \in [SeenFrontier -> SUBSET Nodes] :
         /\ \A n \in SeenFrontier : routes[n] \in Abstract!Targets(n)
         /\ \A m : m \in Range(run.next) <=> \E n \in SeenFrontier : m \in routes[n]
  BY <1>2, <1>12 DEF Along, Queued
<1>16. SeenFrontier' = UNION Abstract!Range(routes)
  <2>1. Abstract!Range(routes) = {routes[n] : n \in SeenFrontier}
    <3>1. DOMAIN routes = SeenFrontier BY <1>15
    <3> QED BY <3>1, Zenon DEF Abstract!Range
  <2>2. \A m : m \in UNION Abstract!Range(routes) <=> \E n \in SeenFrontier : m \in routes[n]
    BY <2>1
  <2> QED BY <1>1, <1>11, <1>15, <2>2
<1>17. Abstract!Superstep
  BY <1>13, <1>14, <1>15, <1>16, Zenon DEF Abstract!Superstep, SeenApplied, SeenFrontier
<1> QED BY <1>5, <1>7, <1>8, <1>17

LEMMA RInvStep ==
  ASSUME MaxFresh <= 1, RInv, [Next]_vars, FirstAsks \/ UNCHANGED vars
  PROVE  RInv' /\ [Abstract!Superstep]_<<SeenApplied, SeenFrontier>>
<1>1. /\ TInv' /\ TInv /\ (fresh = 0 => saved = NoRow /\ ~run.on) /\ fresh \in Nat
      /\ (run.on => Along) /\ \A n \in Nodes : Once(n, saved.frontier)
  BY TInvStep DEF RInv, TInv, TypeOK
\* A step that saves nothing.
<1>2. ASSUME UNCHANGED saved, run'.on => Along', fresh' = 0 => fresh = 0 /\ ~run'.on
      PROVE  RInv' /\ [Abstract!Superstep]_<<SeenApplied, SeenFrontier>>
  BY <1>1, <1>2, SavedKept DEF RInv
<1>3. CASE Invoke
  <2>1. fresh = 0 /\ fresh' = 1
    <3>1. fresh < MaxFresh /\ fresh' = fresh + 1 BY <1>3 DEF Invoke
    <3>2. MaxFresh \in Nat BY GraphAssumption
    <3> QED BY <1>1, <3>1, <3>2
  <2>2. saved = NoRow BY <1>1, <2>1
  <2>3. Start(Base, FALSE) /\ UNCHANGED saved BY <1>3, <2>2 DEF Invoke, Base
  <2> QED BY <1>2, <2>1, <2>3, StartsAlong
<1>4. CASE Resume
  <2>1. Start(Base, TRUE) /\ UNCHANGED <<saved, fresh>> /\ fresh > 0
    BY <1>4 DEF Resume, Base
  <2>2. fresh' # 0 BY <1>1, <2>1
  <2> QED BY <1>2, <2>1, <2>2, StartsAlong
<1>5. CASE NodeReturns
  <2>1. UNCHANGED <<saved, fresh>> /\ Running BY <1>1, <1>5, NodeReturnsFacts
  <2>2. fresh # 0 BY <1>1, <2>1 DEF Running
  <2> QED BY <1>2, <1>5, <2>1, <2>2, ReturnsAlong
<1>6. CASE NodeRaises
  <2>1. /\ Running /\ UNCHANGED <<saved, fresh>> /\ \E answer \in BOOLEAN : Raised(answer)
    BY <1>1, <1>6, TInvFacts DEF NodeRaises
  <2>2. fresh # 0 /\ Along BY <1>1, <2>1 DEF Running
  <2>3. CASE run' = Idle
    BY <1>2, <2>1, <2>2, <2>3, IdleIs
  <2>4. CASE /\ run'.step = run.step /\ run'.applied = run.applied
             /\ run'.active = run.active /\ run'.next = run.next /\ run'.at = run.at
    <3>1. Base' = Base BY <2>1 DEF Base
    <3>2. Done' = Done BY <2>4 DEF Done
    <3>3. Queued' BY <2>2, <2>4, <3>2 DEF Queued, Along
    <3>4. Along' BY <2>2, <2>4, <3>1, <3>2, <3>3 DEF Along
    <3> QED BY <1>2, <2>1, <2>2, <3>4
  <2> QED BY <1>1, <2>1, <2>3, <2>4, RaisedFacts
<1>7. CASE NodeInterrupts
  <2>1. run' = Idle /\ UNCHANGED fresh /\ Running
    BY <1>7 DEF NodeInterrupts, Return
  <2>2. run' # run /\ fresh # 0 /\ ~run'.on BY <1>1, <2>1, IdleIs DEF Running
  <2>3. run.at = 1 BY <1>7, <2>2 DEF FirstAsks, vars
  <2>4. /\ saved' # NoRow /\ \A n \in Nodes : Once(n, saved'.frontier)
        /\ UNCHANGED <<SeenApplied, SeenFrontier>>
    BY <1>7, <2>3, InterruptsAlong
  <2> QED BY <1>1, <2>1, <2>2, <2>4 DEF RInv
<1>8. CASE Barrier
  <2>1. /\ saved' # NoRow /\ \A n \in Nodes : Once(n, saved'.frontier)
        /\ run'.on => Along'
        /\ Abstract!Superstep
    BY <1>8, BarrierAlong
  <2>2. fresh # 0 /\ UNCHANGED fresh BY <1>1, <1>8 DEF Barrier
  <2> QED BY <1>1, <2>1, <2>2 DEF RInv
<1>9. CASE NothingToDo \/ Crash
  <2>1. run' = Idle /\ UNCHANGED <<saved, fresh>> BY <1>9 DEF NothingToDo, Crash, Return
  <2> QED BY <1>1, <1>2, <2>1, IdleIs
<1>10. CASE UNCHANGED vars
  <2>1. UNCHANGED <<saved, run, fresh>> BY <1>10 DEF vars
  <2>2. Base' = Base /\ Done' = Done BY <2>1 DEF Base, Done
  <2>3. run'.on => Along' BY <1>1, <2>1, <2>2 DEF Along, Queued
  <2> QED BY <1>1, <1>2, <2>1, <2>3
<1> QED BY <1>3, <1>4, <1>5, <1>6, <1>7, <1>8, <1>9, <1>10 DEF Next, Engine

\* A thread that is invoked afresh once, where only the first node of a superstep
\* interrupts, moves by whole supersteps: crashes, errors, retries and resumes
\* lose no superstep and apply no node twice, for every graph and saver.
THEOREM SuperstepsSound ==
  ASSUME MaxFresh <= 1
  PROVE  Spec /\ [][FirstAsks]_vars => ImplementsSupersteps
<1>1. Init => RInv /\ Abstract!Init BY RInvInit
<1>2. RInv /\ [Next]_vars /\ [FirstAsks]_vars
        => RInv' /\ [Abstract!Superstep]_<<SeenApplied, SeenFrontier>>
  BY RInvStep
<1> QED BY <1>1, <1>2, PTL
        DEF Spec, ImplementsSupersteps, Abstract!Spec, SeenApplied, SeenFrontier
=============================================================================
