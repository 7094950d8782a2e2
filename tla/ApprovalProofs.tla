--------------------------- MODULE ApprovalProofs ---------------------------
(***************************************************************************)
(* What ApprovalResume keeps for any number of calls, workers, reviewers,  *)
(* owners, reconcilers and crashes.                                        *)
(***************************************************************************)
EXTENDS ApprovalResume, TLAPS

\* A step that is checkpointed, resolved or filed is one the loop really took, and
\* a stream that ended has an outcome.
Sane(l) ==
    /\ l.pc \in {"resolve", "file"} => l.step < MaxSteps
    /\ l.pc = "end" => l.outcome # "none"

StepInv ==
    /\ ckpt.kind \in {"step", "pending"} => ckpt.step < MaxSteps
    /\ \A a \in Actors : Sane(act[a])

TypeInv == TypeOK /\ StepInv

-----------------------------------------------------------------------------
\* Local states: what the operators on them give.

LEMMA IdleState == Idle \in Local /\ Idle.pc = "idle" /\ Idle.decision = "none"
  BY ApprovalAssumption DEF Idle, Local, Steps

LEMMA CasState ==
    ASSUME NEW d \in {"none"} \cup Decisions
    PROVE  LET l == [Idle EXCEPT !.pc = "cas", !.decision = d] IN
           l \in Local /\ l.pc = "cas" /\ l.decision = d
  BY IdleState DEF Local

LEMMA LoadState ==
    LET l == [Idle EXCEPT !.pc = "load"] IN
    l \in Local /\ l.pc = "load" /\ l.decision = "none"
  BY IdleState DEF Local

LEMMA AnsweredState ==
    LET l == [Idle EXCEPT !.pc = "answered"] IN
    l \in Local /\ l.pc = "answered" /\ l.decision = "none"
  BY IdleState DEF Local

LEMMA EndedState ==
    ASSUME NEW o \in {"completed", "failed", "paused"}
    PROVE  /\ Ended(o) \in Local /\ Ended(o).pc = "end"
           /\ Ended(o).decision = "none" /\ Ended(o).outcome = o
  BY IdleState DEF Local, Ended

LEMMA AtTurnState ==
    ASSUME NEW s \in Steps
    PROVE  /\ AtTurn(s) \in Local /\ AtTurn(s).pc = "turn"
           /\ AtTurn(s).decision = "none" /\ AtTurn(s).step = s
  BY IdleState DEF Local, AtTurn

LEMMA OverState ==
    ASSUME NEW a
    PROVE  Over(a) \in Local /\ Over(a).pc \in {"idle", "answered"} /\ Over(a).decision = "none"
  BY IdleState, AnsweredState DEF Over

\* An actor that goes on with its own local state.
LEMMA PcState ==
    ASSUME NEW r \in Local, NEW pc \in {"cas", "look", "load"}
    PROVE  LET l == [r EXCEPT !.pc = pc] IN
           l \in Local /\ l.pc = pc /\ l.decision = r.decision
  BY DEF Local

LEMMA HeldState ==
    ASSUME NEW r \in Local, NEW C \in SUBSET Calls
    PROVE  LET l == [r EXCEPT !.held = C] IN
           /\ l \in Local /\ l.pc = r.pc /\ l.step = r.step /\ l.held = C
           /\ l.decision = r.decision
  BY DEF Local

LEMMA FilingState ==
    ASSUME NEW r \in Local, NEW C \in SUBSET Calls
    PROVE  LET l == [r EXCEPT !.pc = "file", !.held = C, !.unfiled = C] IN
           /\ l \in Local /\ l.pc = "file" /\ l.step = r.step
           /\ l.decision = r.decision
  BY DEF Local

LEMMA UnfiledState ==
    ASSUME NEW r \in Local, NEW C \in SUBSET Calls
    PROVE  LET l == [r EXCEPT !.unfiled = C] IN
           /\ l \in Local /\ l.pc = r.pc /\ l.step = r.step
           /\ l.decision = r.decision
  BY DEF Local

LEMMA SteppedState ==
    ASSUME NEW r \in Local, NEW s \in Steps
    PROVE  LET l == [r EXCEPT !.step = s] IN
           l \in Local /\ l.pc = r.pc /\ l.step = s /\ l.decision = r.decision
  BY DEF Local

\* An actor that moves: it alone changes.
LEMMA GoTyped ==
    ASSUME TypeInv, NEW a \in Actors, NEW l \in Local, Go(a, l),
           Sane(l)
    PROVE  /\ act' \in [Actors -> Local]
           /\ act'[a] = l
           /\ \A b \in Actors : b # a => act'[b] = act[b]
           /\ \A b \in Actors : Sane(act'[b])
  BY DEF TypeInv, TypeOK, StepInv, Go

LEMMA TypeInit == Init => TypeInv
<1> SUFFICES ASSUME Init PROVE TypeInv
  OBVIOUS
<1>1. ckpt \in Checkpoint /\ ckpt.kind = "none"
  BY ApprovalAssumption DEF Init, Checkpoint, Steps
<1>2. act \in [Actors -> Local] /\ \A a \in Actors : act[a].pc = "idle"
  BY IdleState DEF Init
<1>3. /\ verdict \in [Calls -> Verdicts]
      /\ filed \in Seq(Calls)
      /\ ran \in [Steps \X Calls -> Nat]
  BY DEF Init, Verdicts
<1> QED BY <1>1, <1>2, <1>3 DEF Init, TypeInv, TypeOK, StepInv, Sane

-----------------------------------------------------------------------------
\* Type correctness

StatusTyped == status \in {"queued", "running", "paused", "completed", "failed"}

\* One actor moves and whatever else changes keeps its type.
LEMMA MoveTyped ==
    ASSUME TypeInv, NEW a \in Actors, NEW l \in Local, Go(a, l),
           Sane(l),
           StatusTyped', leased' \in BOOLEAN,
           ckpt' \in Checkpoint,
           ckpt'.kind \in {"step", "pending"} => ckpt'.step < MaxSteps,
           verdict' \in [Calls -> Verdicts], filed' \in Seq(Calls),
           asked' \in BOOLEAN, ran' \in [Steps \X Calls -> Nat], crashes' \in Nat
    PROVE  TypeInv'
<1>1. /\ act' \in [Actors -> Local]
      /\ \A b \in Actors : Sane(act'[b])
  BY GoTyped
<1> QED BY <1>1 DEF TypeInv, TypeOK, StepInv, StatusTyped

\* Nothing but local states changes.
LEMMA LocalMoveTyped ==
    ASSUME TypeInv, NEW a \in Actors, NEW l \in Local, Go(a, l),
           Sane(l),
           UNCHANGED <<stores, history, crashes>>
    PROVE  TypeInv'
<1>1. UNCHANGED <<status, leased, ckpt, verdict, filed, asked, ran, crashes>>
  BY DEF stores, history
<1> QED BY <1>1, MoveTyped DEF TypeInv, TypeOK, StepInv, StatusTyped

LEMMA TypeFacts ==
    ASSUME TypeInv
    PROVE  /\ StatusTyped /\ leased \in BOOLEAN
           /\ ckpt \in Checkpoint
           /\ ckpt.kind \in {"none", "step", "pending", "finished"}
           /\ ckpt.step \in Steps /\ ckpt.held \in SUBSET Calls
           /\ ckpt.kind \in {"step", "pending"} => ckpt.step < MaxSteps
           /\ verdict \in [Calls -> Verdicts] /\ filed \in Seq(Calls)
           /\ asked \in BOOLEAN /\ ran \in [Steps \X Calls -> Nat] /\ crashes \in Nat
           /\ act \in [Actors -> Local]
           /\ \A a \in Actors :
                 /\ act[a] \in Local
                 /\ act[a].decision \in {"none"} \cup Decisions
                 /\ act[a].step \in Steps
                 /\ act[a].held \in SUBSET Calls /\ act[a].unfiled \in SUBSET Calls
                 /\ act[a].outcome \in {"none", "completed", "failed", "paused"}
                 /\ act[a].pc \in {"resolve", "file"} => act[a].step < MaxSteps
                 /\ act[a].pc = "end" => act[a].outcome # "none"
                 /\ Sane(act[a])
<1>1. \A a \in Actors : act[a] \in Local
  BY DEF TypeInv, TypeOK
<1>2. \A r \in Local : /\ r.decision \in {"none"} \cup Decisions
                       /\ r.step \in Steps
                       /\ r.held \in SUBSET Calls /\ r.unfiled \in SUBSET Calls
                       /\ r.outcome \in {"none", "completed", "failed", "paused"}
  BY DEF Local
<1>3. ckpt \in Checkpoint
  BY DEF TypeInv, TypeOK
<1>4. /\ ckpt.kind \in {"none", "step", "pending", "finished"}
      /\ ckpt.step \in Steps /\ ckpt.held \in SUBSET Calls
  BY <1>3 DEF Checkpoint
<1> QED BY <1>1, <1>2, <1>3, <1>4 DEF TypeInv, TypeOK, StepInv, Sane, StatusTyped

LEMMA StepNumbers ==
    /\ 0 \in Steps /\ MaxSteps \in Steps
    /\ \A s \in Steps : s < MaxSteps => s + 1 \in Steps
  BY ApprovalAssumption DEF Steps

LEMMA LoadTyped == ASSUME TypeInv, NEW a \in Actors, Load(a) PROVE TypeInv'
<1>1. UNCHANGED <<stores, history, crashes>>
  BY DEF Load
<1>2. CASE ckpt.kind = "finished"
  <2>1. Go(a, Ended("completed"))
    BY <1>2 DEF Load
  <2> QED BY <1>1, <2>1, EndedState, LocalMoveTyped DEF Sane
<1>3. CASE ckpt.kind = "pending"
  <2>1. Go(a, [act[a] EXCEPT !.pc = "resolve", !.held = ckpt.held, !.step = ckpt.step])
    BY <1>3 DEF Load
  <2>2. /\ ckpt.held \in SUBSET Calls /\ ckpt.step \in Steps /\ ckpt.step < MaxSteps
        /\ act[a] \in Local
    BY <1>3, TypeFacts
  <2> DEFINE l == [act[a] EXCEPT !.pc = "resolve", !.held = ckpt.held, !.step = ckpt.step]
  <2>3. l \in Local /\ l.pc = "resolve" /\ l.step = ckpt.step
    BY <2>2 DEF Local
  <2> HIDE DEF l
  <2> QED BY <1>1, <2>1, <2>2, <2>3, LocalMoveTyped DEF Sane, l
<1>4. CASE ckpt.kind = "step"
  <2>1. Go(a, AtTurn(ckpt.step + 1))
    BY <1>4 DEF Load
  <2> QED BY <1>1, <1>4, <2>1, TypeFacts, StepNumbers, AtTurnState, LocalMoveTyped DEF Sane
<1>5. CASE ckpt.kind = "none"
  <2>1. Go(a, AtTurn(0))
    BY <1>5 DEF Load
  <2> QED BY <1>1, <2>1, StepNumbers, AtTurnState, LocalMoveTyped DEF Sane
<1> QED BY <1>2, <1>3, <1>4, <1>5, TypeFacts

LEMMA ResolveTyped ==
    ASSUME TypeInv, NEW a \in Actors, NEW c \in Calls, Resolve(a, c) PROVE TypeInv'
<1> DEFINE rest == act[a].held \ {c}
<1>1. UNCHANGED <<status, leased, ckpt, verdict, filed, asked, crashes>>
  BY DEF Resolve, stores
<1>2. /\ act[a].step \in Steps /\ act[a].step < MaxSteps /\ act[a].pc = "resolve"
      /\ rest \in SUBSET Calls
  BY TypeFacts DEF Resolve
<1>3. ran' \in [Steps \X Calls -> Nat]
  BY <1>2, TypeFacts DEF Resolve
<1>4. CASE rest = {}
  <2>1. Go(a, AtTurn(act[a].step + 1))
    BY <1>4 DEF Resolve
  <2>2. act[a].step + 1 \in Steps
    BY <1>2, StepNumbers
  <2> QED BY <1>1, <1>3, <2>1, <2>2, TypeFacts, AtTurnState, MoveTyped DEF Sane, StatusTyped
<1>5. CASE rest # {}
  <2>1. Go(a, [act[a] EXCEPT !.held = rest])
    BY <1>5 DEF Resolve
  <2> DEFINE l == [act[a] EXCEPT !.held = rest]
  <2>2. l \in Local /\ l.pc = act[a].pc /\ l.step = act[a].step
    <3> HIDE DEF rest
    <3> QED BY <1>2, TypeFacts, HeldState
  <2>3. Go(a, l)
    BY <2>1
  <2> HIDE DEF l, rest
  <2> QED BY <1>1, <1>2, <1>3, <2>2, <2>3, TypeFacts, MoveTyped DEF Sane, StatusTyped
<1> QED BY <1>4, <1>5

LEMMA FileTyped ==
    ASSUME TypeInv, NEW a \in Actors, NEW c \in Calls, File(a, c) PROVE TypeInv'
<1> DEFINE rest == act[a].unfiled \ {c}
<1>1. UNCHANGED <<status, leased, ckpt, asked, ran, crashes>>
  BY DEF File, history
<1>2. verdict' \in [Calls -> Verdicts] /\ filed' \in Seq(Calls)
  BY TypeFacts DEF File, Filed, Verdicts
<1>3. Go(a, [act[a] EXCEPT !.unfiled = rest])
  BY DEF File
<1>4. rest \in SUBSET Calls /\ act[a].pc = "file"
  BY TypeFacts DEF File
<1> DEFINE l == [act[a] EXCEPT !.unfiled = rest]
<1>5. l \in Local /\ l.pc = act[a].pc /\ l.step = act[a].step
  <2> HIDE DEF rest
  <2> QED BY <1>4, TypeFacts, UnfiledState
<1>6. Go(a, l)
  BY <1>3
<1> HIDE DEF l, rest
<1> QED BY <1>1, <1>2, <1>4, <1>5, <1>6, TypeFacts, MoveTyped DEF Sane, StatusTyped

LEMMA AskTyped ==
    ASSUME TypeInv, NEW a \in Actors, NEW C \in SUBSET Calls, Ask(a, C) PROVE TypeInv'
<1>1. /\ Go(a, [act[a] EXCEPT !.pc = "file", !.held = C, !.unfiled = C])
      /\ act[a].step < MaxSteps
      /\ UNCHANGED <<stores, history, crashes>>
  BY DEF Ask, StepsLeft
<1> DEFINE l == [act[a] EXCEPT !.pc = "file", !.held = C, !.unfiled = C]
<1>2. l \in Local /\ l.pc = "file" /\ l.step < MaxSteps
  BY <1>1, TypeFacts, FilingState
<1>3. Go(a, l)
  BY <1>1
<1> HIDE DEF l
<1> QED BY <1>1, <1>2, <1>3, LocalMoveTyped DEF Sane

\* The steps at the head of a model turn and at its end.
LEMMA TurnTyped ==
    ASSUME TypeInv, NEW a \in Actors, Answer(a) \/ ToolRound(a) \/ Fail(a) \/ Park(a)
    PROVE  TypeInv'
<1> USE TypeFacts
<1>1. CASE Answer(a)
  <2>1. ckpt' \in Checkpoint /\ ckpt'.kind = "finished"
    BY <1>1, StepNumbers DEF Answer, Checkpoint
  <2>2. Go(a, Ended("completed"))
    BY <1>1 DEF Answer
  <2> QED BY <1>1, <2>1, <2>2, EndedState, MoveTyped DEF Sane, Answer, history, StatusTyped
<1>2. CASE ToolRound(a)
  <2>1. act[a].step \in Steps /\ act[a].step < MaxSteps /\ act[a].pc = "turn"
    BY <1>2 DEF ToolRound, StepsLeft
  <2>2. ckpt' \in Checkpoint /\ ckpt'.step < MaxSteps
    BY <1>2, <2>1 DEF ToolRound, StepMarker, Checkpoint
  <2> DEFINE l == [act[a] EXCEPT !.step = @ + 1]
  <2>3. l \in Local /\ l.pc = "turn"
    BY <2>1, StepNumbers DEF Local
  <2>4. Go(a, l)
    BY <1>2 DEF ToolRound
  <2> HIDE DEF l
  <2> QED BY <1>2, <2>2, <2>3, <2>4, MoveTyped DEF Sane, ToolRound, history, StatusTyped
<1>3. CASE Fail(a)
  BY <1>3, EndedState, LocalMoveTyped DEF Sane, Fail
<1>4. CASE Park(a)
  <2>1. act[a].step \in Steps /\ act[a].step < MaxSteps /\ act[a].held \in SUBSET Calls
    BY <1>4 DEF Park
  <2>2. ckpt' \in Checkpoint /\ ckpt'.step < MaxSteps
    BY <1>4, <2>1 DEF Park, PendingMarker, Checkpoint
  <2>3. Go(a, Ended("paused"))
    BY <1>4 DEF Park
  <2> QED BY <1>4, <2>2, <2>3, EndedState, MoveTyped DEF Sane, Park, history, StatusTyped
<1> QED BY <1>1, <1>2, <1>3, <1>4

LEMMA StreamTyped == ASSUME TypeInv, NEW a \in Actors, Stream(a) PROVE TypeInv'
  BY LoadTyped, ResolveTyped, FileTyped, AskTyped, TurnTyped DEF Stream

LEMMA ResumeTyped == ASSUME TypeInv, NEW a \in Actors, Resume(a) PROVE TypeInv'
<1> USE TypeFacts
<1>1. CASE CompareAndSet(a)
  <2>1. CASE status \in Resumable
    <3>1. Go(a, [act[a] EXCEPT !.pc = "load"]) /\ StatusTyped'
      BY <1>1, <2>1 DEF CompareAndSet, StatusTyped
    <3> QED BY <1>1, <3>1, PcState, MoveTyped DEF Sane, CompareAndSet, history
  <2>2. CASE status \notin Resumable
    <3>1. Go(a, [act[a] EXCEPT !.pc = "look"]) /\ StatusTyped'
      BY <1>1, <2>2 DEF CompareAndSet, StatusTyped
    <3> QED BY <1>1, <3>1, PcState, MoveTyped DEF Sane, CompareAndSet, history
  <2> QED BY <2>1, <2>2
<1>2. CASE Look(a)
  <2>1. UNCHANGED <<stores, history, crashes>>
    BY <1>2 DEF Look
  <2>2. CASE Go(a, [act[a] EXCEPT !.pc = "cas"])
    BY <2>1, <2>2, PcState, LocalMoveTyped DEF Sane
  <2>3. CASE Go(a, Over(a))
    BY <2>1, <2>3, OverState, LocalMoveTyped DEF Sane
  <2> QED BY <1>2, <2>2, <2>3 DEF Look
<1>3. CASE SettleResumed(a)
  BY <1>3, OverState, MoveTyped DEF Sane, SettleResumed, history, StatusTyped
<1> QED BY <1>1, <1>2, <1>3 DEF Resume

LEMMA TypeNext == TypeInv /\ [Next]_vars => TypeInv'
<1> SUFFICES ASSUME TypeInv, [Next]_vars PROVE TypeInv'
  OBVIOUS
<1> USE TypeFacts
<1>1. ASSUME NEW w \in Workers, Claim(w) PROVE TypeInv'
  BY <1>1, LoadState, MoveTyped DEF Sane, Claim, history, StatusTyped, Actors
<1>2. ASSUME NEW w \in Workers, Settle(w) PROVE TypeInv'
  <2>1. status' \in {"none", "completed", "failed", "paused"}
    BY <1>2 DEF Settle, Actors
  <2> QED BY <1>2, <2>1, IdleState, MoveTyped DEF Sane, Settle, history, StatusTyped, Actors
<1>3. CASE Reap
  BY <1>3 DEF Reap, history, TypeInv, TypeOK, StepInv
<1>4. ASSUME NEW a \in Actors, Crash(a) PROVE TypeInv'
  BY <1>4, OverState, MoveTyped DEF Sane, Crash, stores, history, StatusTyped
<1>5. ASSUME NEW q \in Reviewers, NEW c \in Calls, NEW d \in Decisions, Decide(q, c, d)
      PROVE  TypeInv'
  <2>1. verdict' \in [Calls -> Verdicts] /\ asked' \in BOOLEAN
    BY <1>5 DEF Decide, Decided, Verdicts
  <2> QED BY <1>5, <2>1, CasState, MoveTyped DEF Sane, Decide, StatusTyped, Actors
<1>6. ASSUME NEW o \in Owners, NEW d \in {"none", "approved"}, ResumeByHand(o, d)
      PROVE  TypeInv'
  <2>1. d \in {"none"} \cup Decisions
    BY DEF Decisions
  <2> QED BY <1>6, <2>1, CasState, MoveTyped DEF Sane, ResumeByHand, stores, StatusTyped, Actors
<1>7. ASSUME NEW k \in Reconcilers, Reconcile(k) PROVE TypeInv'
  <2>1. PICK i \in FirstDecided :
            Go(k, [Idle EXCEPT !.pc = "cas", !.decision = verdict[filed[i]]])
    BY <1>7 DEF Reconcile
  <2>2. verdict[filed[i]] \in {"none"} \cup Decisions
    BY <2>1 DEF FirstDecided
  <2> QED BY <1>7, <2>1, <2>2, CasState, LocalMoveTyped DEF Sane, Reconcile, Actors
<1>8. CASE UNCHANGED vars
  BY <1>8 DEF vars, TypeInv, TypeOK, StepInv
<1> QED
  BY <1>1, <1>2, <1>3, <1>4, <1>5, <1>6, <1>7, <1>8, StreamTyped, ResumeTyped DEF Next

\* Every reachable state is well typed; in particular no resume goes on behind
\* the agent's last step (run_stream's start_step).
THEOREM TypeCorrect == Spec => []TypeOK
<1>1. TypeInv => TypeOK
  BY DEF TypeInv
<1> QED BY <1>1, TypeInit, TypeNext, PTL DEF Spec

-----------------------------------------------------------------------------
\* What each action does to the state of the actor that takes it, and that it
\* leaves the others alone.

Others(a) == \A b \in Actors : b # a => act'[b] = act[b]

LEMMA GoFacts ==
    ASSUME TypeInv, NEW a \in Actors, NEW l, Go(a, l)
    PROVE  act'[a] = l /\ Others(a)
  BY DEF TypeInv, TypeOK, Go, Others

LEMMA LoadFacts ==
    ASSUME TypeInv, NEW a \in Actors, Load(a)
    PROVE  /\ Others(a) /\ act[a].pc = "load"
           /\ UNCHANGED <<status, leased, ckpt, verdict, filed, asked, ran, crashes>>
           /\ act'[a].decision \in {act[a].decision, "none"}
           /\ \/ ckpt.kind = "finished" /\ act'[a].pc = "end" /\ act'[a].outcome = "completed"
              \/ ckpt.kind = "pending" /\ act'[a].pc = "resolve" /\ act'[a].step = ckpt.step
              \/ ckpt.kind = "step" /\ act'[a].pc = "turn" /\ act'[a].step = ckpt.step + 1
              \/ ckpt.kind = "none" /\ act'[a].pc = "turn" /\ act'[a].step = 0
<1> USE TypeFacts
<1>1. /\ act[a].pc = "load"
      /\ UNCHANGED <<status, leased, ckpt, verdict, filed, asked, ran, crashes>>
  BY DEF Load, stores, history
<1>2. CASE ckpt.kind = "finished"
  <2>1. Go(a, Ended("completed"))
    BY <1>2 DEF Load
  <2>2. act'[a] = Ended("completed") /\ Others(a)
    BY <2>1, GoFacts
  <2> QED BY <1>1, <1>2, <2>2, EndedState
<1>3. CASE ckpt.kind = "pending"
  <2> DEFINE l == [act[a] EXCEPT !.pc = "resolve", !.held = ckpt.held, !.step = ckpt.step]
  <2>1. Go(a, l)
    BY <1>3 DEF Load
  <2>2. l.pc = "resolve" /\ l.step = ckpt.step /\ l.decision = act[a].decision
    BY DEF Local
  <2> HIDE DEF l
  <2>3. act'[a] = l /\ Others(a)
    BY <2>1, GoFacts
  <2> QED BY <1>1, <1>3, <2>2, <2>3
<1>4. CASE ckpt.kind = "step"
  <2>1. Go(a, AtTurn(ckpt.step + 1))
    BY <1>4 DEF Load
  <2>2. act'[a] = AtTurn(ckpt.step + 1) /\ Others(a)
    BY <2>1, GoFacts
  <2> QED BY <1>1, <1>4, <2>2, StepNumbers, AtTurnState
<1>5. CASE ckpt.kind = "none"
  <2>1. Go(a, AtTurn(0))
    BY <1>5 DEF Load
  <2>2. act'[a] = AtTurn(0) /\ Others(a)
    BY <2>1, GoFacts
  <2> QED BY <1>1, <1>5, <2>2, StepNumbers, AtTurnState
<1> QED BY <1>2, <1>3, <1>4, <1>5

LEMMA ResolveFacts ==
    ASSUME TypeInv, NEW a \in Actors, NEW c \in Calls, Resolve(a, c)
    PROVE  /\ Others(a) /\ act[a].pc = "resolve" /\ c \in act[a].held
           /\ UNCHANGED <<status, leased, ckpt, verdict, filed, asked, crashes>>
           /\ \/ ran' = ran
              \/ /\ act[a].decision = "approved"
                 /\ ran' = [ran EXCEPT ![<<act[a].step, c>>] = @ + 1]
           /\ act'[a].decision \in {act[a].decision, "none"}
           /\ \/ /\ act'[a].pc = "resolve" /\ act'[a].step = act[a].step
                 /\ act'[a].held = act[a].held \ {c}
              \/ act'[a].pc = "turn" /\ act'[a].step = act[a].step + 1
<1> USE TypeFacts
<1> DEFINE rest == act[a].held \ {c}
<1>1. /\ act[a].pc = "resolve" /\ c \in act[a].held
      /\ UNCHANGED <<status, leased, ckpt, verdict, filed, asked, crashes>>
      /\ \/ ran' = ran
         \/ /\ act[a].decision = "approved"
            /\ ran' = [ran EXCEPT ![<<act[a].step, c>>] = @ + 1]
  BY DEF Resolve, stores, ExecutingDecisions
<1>2. CASE rest = {}
  <2>1. Go(a, AtTurn(act[a].step + 1))
    BY <1>2 DEF Resolve
  <2>2. act'[a] = AtTurn(act[a].step + 1) /\ Others(a)
    BY <2>1, GoFacts
  <2>3. act[a].step + 1 \in Steps
    BY <1>1, StepNumbers
  <2> QED BY <1>1, <2>2, <2>3, AtTurnState
<1>3. CASE rest # {}
  <2> DEFINE l == [act[a] EXCEPT !.held = rest]
  <2>1. Go(a, l)
    BY <1>3 DEF Resolve
  <2>2. /\ l.pc = act[a].pc /\ l.step = act[a].step /\ l.held = rest
        /\ l.decision = act[a].decision
    BY DEF Local
  <2> HIDE DEF l
  <2>3. act'[a] = l /\ Others(a)
    BY <2>1, GoFacts
  <2> QED BY <1>1, <2>2, <2>3
<1> QED BY <1>2, <1>3

LEMMA AskFacts ==
    ASSUME TypeInv, NEW a \in Actors, NEW C \in SUBSET Calls, Ask(a, C)
    PROVE  /\ Others(a) /\ act[a].pc = "turn" /\ C # {}
           /\ UNCHANGED <<status, leased, ckpt, verdict, filed, asked, ran, crashes>>
           /\ act'[a].pc = "file" /\ act'[a].step = act[a].step
           /\ act'[a].held = C /\ act'[a].unfiled = C
           /\ act'[a].decision = act[a].decision
<1> USE TypeFacts
<1> DEFINE l == [act[a] EXCEPT !.pc = "file", !.held = C, !.unfiled = C]
<1>1. /\ act[a].pc = "turn" /\ C # {} /\ Go(a, l)
      /\ UNCHANGED <<status, leased, ckpt, verdict, filed, asked, ran, crashes>>
  BY DEF Ask, stores, history
<1>2. /\ l.pc = "file" /\ l.step = act[a].step /\ l.held = C /\ l.unfiled = C
      /\ l.decision = act[a].decision
  BY DEF Local
<1> HIDE DEF l
<1>3. act'[a] = l /\ Others(a)
  BY <1>1, GoFacts
<1> QED BY <1>1, <1>2, <1>3

LEMMA FileFacts ==
    ASSUME TypeInv, NEW a \in Actors, NEW c \in Calls, File(a, c)
    PROVE  /\ Others(a) /\ act[a].pc = "file"
           /\ UNCHANGED <<status, leased, ckpt, asked, ran, crashes>>
           /\ act'[a].pc = "file" /\ act'[a].step = act[a].step
           /\ act'[a].held = act[a].held /\ act'[a].unfiled = act[a].unfiled \ {c}
           /\ act'[a].decision = act[a].decision
           /\ verdict' \in [Calls -> Verdicts] /\ verdict'[c] # "absent"
           /\ \A d \in Calls : verdict[d] # "absent" => verdict'[d] = verdict[d]
           /\ \A d \in Calls : verdict[d] = "absent" => verdict'[d] \in {"absent", "pending"}
<1> USE TypeFacts
<1> DEFINE l == [act[a] EXCEPT !.unfiled = act[a].unfiled \ {c}]
<1>1. /\ act[a].pc = "file" /\ Go(a, l)
      /\ UNCHANGED <<status, leased, ckpt, asked, ran, crashes>>
  BY DEF File, history
<1>2. /\ l.pc = "file" /\ l.step = act[a].step /\ l.held = act[a].held
      /\ l.unfiled = act[a].unfiled \ {c} /\ l.decision = act[a].decision
  BY <1>1 DEF Local
<1> HIDE DEF l
<1>3. act'[a] = l /\ Others(a)
  BY <1>1, GoFacts
<1>4. verdict' = [verdict EXCEPT ![c] = Filed(c)]
  BY DEF File
<1>5. Filed(c) = IF verdict[c] = "absent" THEN "pending" ELSE verdict[c]
  BY DEF Filed
<1>6. /\ verdict' \in [Calls -> Verdicts] /\ verdict'[c] # "absent"
      /\ \A d \in Calls : verdict[d] # "absent" => verdict'[d] = verdict[d]
      /\ \A d \in Calls : verdict[d] = "absent" => verdict'[d] \in {"absent", "pending"}
  BY <1>4, <1>5 DEF Verdicts
<1> QED BY <1>1, <1>2, <1>3, <1>6

LEMMA AnswerFacts ==
    ASSUME TypeInv, NEW a \in Actors, Answer(a)
    PROVE  /\ Others(a) /\ act[a].pc = "turn"
           /\ UNCHANGED <<status, leased, verdict, filed, asked, ran, crashes>>
           /\ ckpt'.kind = "finished"
           /\ act'[a].pc = "end" /\ act'[a].outcome = "completed"
           /\ act'[a].decision = "none"
<1>1. /\ act[a].pc = "turn" /\ Go(a, Ended("completed")) /\ ckpt'.kind = "finished"
      /\ UNCHANGED <<status, leased, verdict, filed, asked, ran, crashes>>
  BY DEF Answer, history
<1> QED BY <1>1, GoFacts, EndedState

LEMMA ToolRoundFacts ==
    ASSUME TypeInv, NEW a \in Actors, ToolRound(a)
    PROVE  /\ Others(a) /\ act[a].pc = "turn"
           /\ UNCHANGED <<status, leased, verdict, filed, asked, ran, crashes>>
           /\ ckpt'.kind = "step" /\ ckpt'.step = act[a].step
           /\ act'[a].pc = "turn" /\ act'[a].step = act[a].step + 1
           /\ act'[a].decision = act[a].decision
<1> USE TypeFacts
<1> DEFINE l == [act[a] EXCEPT !.step = @ + 1]
<1>1. /\ act[a].pc = "turn" /\ Go(a, l)
      /\ ckpt'.kind = "step" /\ ckpt'.step = act[a].step
      /\ UNCHANGED <<status, leased, verdict, filed, asked, ran, crashes>>
  BY DEF ToolRound, history, StepMarker
<1>2. /\ l.pc = act[a].pc /\ l.step = act[a].step + 1
      /\ l.decision = act[a].decision
  BY DEF Local
<1> HIDE DEF l
<1>3. act'[a] = l /\ Others(a)
  BY <1>1, GoFacts
<1> QED BY <1>1, <1>2, <1>3

LEMMA FailFacts ==
    ASSUME TypeInv, NEW a \in Actors, Fail(a)
    PROVE  /\ Others(a) /\ act[a].pc \in {"load", "resolve", "turn", "file"}
           /\ UNCHANGED <<status, leased, ckpt, verdict, filed, asked, ran, crashes>>
           /\ act'[a].pc = "end" /\ act'[a].outcome = "failed"
           /\ act'[a].decision = "none"
<1>1. /\ act[a].pc \in {"load", "resolve", "turn", "file"} /\ Go(a, Ended("failed"))
      /\ UNCHANGED <<status, leased, ckpt, verdict, filed, asked, ran, crashes>>
  BY DEF Fail, stores, history
<1> QED BY <1>1, GoFacts, EndedState

LEMMA ParkFacts ==
    ASSUME TypeInv, NEW a \in Actors, Park(a)
    PROVE  /\ Others(a) /\ act[a].pc = "file" /\ act[a].unfiled = {}
           /\ UNCHANGED <<status, leased, verdict, filed, asked, ran, crashes>>
           /\ ckpt'.kind = "pending" /\ ckpt'.step = act[a].step
           /\ ckpt'.held = act[a].held
           /\ act'[a].pc = "end" /\ act'[a].outcome = "paused"
           /\ act'[a].decision = "none"
<1>1. /\ act[a].pc = "file" /\ act[a].unfiled = {} /\ Go(a, Ended("paused"))
      /\ ckpt'.kind = "pending" /\ ckpt'.step = act[a].step /\ ckpt'.held = act[a].held
      /\ UNCHANGED <<status, leased, verdict, filed, asked, ran, crashes>>
  BY DEF Park, history, PendingMarker
<1> QED BY <1>1, GoFacts, EndedState

\* The actor keeps its decision and goes on.
LEMMA GoOnFacts ==
    ASSUME TypeInv, NEW a \in Actors, NEW pc \in {"cas", "look", "load"},
           Go(a, [act[a] EXCEPT !.pc = pc])
    PROVE  Others(a) /\ act'[a].pc = pc /\ act'[a].decision = act[a].decision
<1> DEFINE l == [act[a] EXCEPT !.pc = pc]
<1>1. l.pc = pc /\ l.decision = act[a].decision
  BY TypeFacts DEF Local
<1>2. Go(a, l)
  OBVIOUS
<1> HIDE DEF l
<1> QED BY <1>1, <1>2, GoFacts

LEMMA CompareAndSetFacts ==
    ASSUME TypeInv, NEW a \in Actors, CompareAndSet(a)
    PROVE  /\ Others(a) /\ act[a].pc = "cas"
           /\ UNCHANGED <<leased, ckpt, verdict, filed, asked, ran, crashes>>
           /\ act'[a].decision = act[a].decision
           /\ \/ status = "paused" /\ status' = "running" /\ act'[a].pc = "load"
              \/ status' = status /\ act'[a].pc = "look"
<1> USE TypeFacts
<1>1. /\ act[a].pc = "cas"
      /\ UNCHANGED <<leased, ckpt, verdict, filed, asked, ran, crashes>>
      /\ \/ /\ status = "paused" /\ status' = "running"
            /\ Go(a, [act[a] EXCEPT !.pc = "load"])
         \/ status' = status /\ Go(a, [act[a] EXCEPT !.pc = "look"])
  BY DEF CompareAndSet, history, Resumable
<1> QED BY <1>1, GoOnFacts

LEMMA LookFacts ==
    ASSUME TypeInv, NEW a \in Actors, Look(a)
    PROVE  /\ Others(a) /\ act[a].pc = "look"
           /\ UNCHANGED <<status, leased, ckpt, verdict, filed, asked, ran, crashes>>
           /\ act'[a].pc \in {"cas", "idle", "answered"}
           /\ act'[a].decision \in {act[a].decision, "none"}
<1> USE TypeFacts
<1>1. /\ act[a].pc = "look"
      /\ UNCHANGED <<status, leased, ckpt, verdict, filed, asked, ran, crashes>>
      /\ Go(a, [act[a] EXCEPT !.pc = "cas"]) \/ Go(a, Over(a))
  BY DEF Look, stores, history
<1>2. CASE Go(a, [act[a] EXCEPT !.pc = "cas"])
  BY <1>1, <1>2, GoOnFacts
<1>3. CASE Go(a, Over(a))
  BY <1>1, <1>3, GoFacts, OverState
<1> QED BY <1>1, <1>2, <1>3

LEMMA SettleResumedFacts ==
    ASSUME TypeInv, NEW a \in Actors, SettleResumed(a)
    PROVE  /\ Others(a) /\ act[a].pc = "end" /\ a \notin Workers
           /\ UNCHANGED <<leased, ckpt, verdict, filed, asked, ran, crashes>>
           /\ status' \in {"completed", "failed"}
           /\ act'[a].pc \in {"idle", "answered"} /\ act'[a].decision = "none"
<1>1. /\ act[a].pc = "end" /\ a \notin Workers /\ Go(a, Over(a))
      /\ status' \in {"completed", "failed"}
      /\ UNCHANGED <<leased, ckpt, verdict, filed, asked, ran, crashes>>
  BY DEF SettleResumed, history
<1> QED BY <1>1, GoFacts, OverState

LEMMA ClaimFacts ==
    ASSUME TypeInv, NEW w \in Workers, Claim(w)
    PROVE  /\ Others(w) /\ act[w].pc = "idle"
           /\ status = "queued" /\ status' = "running" /\ leased'
           /\ UNCHANGED <<ckpt, verdict, filed, asked, ran, crashes>>
           /\ act'[w].pc = "load" /\ act'[w].decision = "none"
<1>1. /\ act[w].pc = "idle" /\ Go(w, [Idle EXCEPT !.pc = "load"])
      /\ status = "queued" /\ status' = "running" /\ leased'
      /\ UNCHANGED <<ckpt, verdict, filed, asked, ran, crashes>>
  BY DEF Claim, history
<1> QED BY <1>1, GoFacts, LoadState DEF Actors

LEMMA SettleFacts ==
    ASSUME TypeInv, NEW w \in Workers, Settle(w)
    PROVE  /\ Others(w) /\ act[w].pc = "end"
           /\ status' = act[w].outcome /\ ~leased'
           /\ UNCHANGED <<ckpt, verdict, filed, asked, ran, crashes>>
           /\ act'[w].pc = "idle" /\ act'[w].decision = "none"
<1>1. /\ act[w].pc = "end" /\ Go(w, Idle)
      /\ status' = act[w].outcome /\ ~leased'
      /\ UNCHANGED <<ckpt, verdict, filed, asked, ran, crashes>>
  BY DEF Settle, history
<1> QED BY <1>1, GoFacts, IdleState DEF Actors

LEMMA CrashFacts ==
    ASSUME TypeInv, NEW a \in Actors, Crash(a)
    PROVE  /\ Others(a)
           /\ UNCHANGED <<status, leased, ckpt, verdict, filed, asked, ran>>
           /\ act'[a].pc \in {"idle", "answered"} /\ act'[a].decision = "none"
<1>1. /\ Go(a, Over(a))
      /\ UNCHANGED <<status, leased, ckpt, verdict, filed, asked, ran>>
  BY DEF Crash, stores, history
<1> QED BY <1>1, GoFacts, OverState

\* A reviewer, an owner or a reconciler sets out to resume.
LEMMA TriggerFacts ==
    ASSUME TypeInv, NEW a \in Actors, NEW d \in {"none"} \cup Decisions,
           Go(a, [Idle EXCEPT !.pc = "cas", !.decision = d])
    PROVE  Others(a) /\ act'[a].pc = "cas" /\ act'[a].decision = d
  BY GoFacts, CasState

LEMMA DecideFacts ==
    ASSUME TypeInv, NEW q \in Reviewers, NEW c \in Calls, NEW d \in Decisions,
           Decide(q, c, d)
    PROVE  /\ Others(q) /\ act[q].pc = "idle"
           /\ act'[q].pc = "cas" /\ act'[q].decision = d
           /\ UNCHANGED <<status, leased, ckpt, filed, ran, crashes>>
           /\ asked' = (asked \/ d = "approved")
           /\ \A e \in Calls : verdict[e] # "pending" => verdict'[e] = verdict[e]
           /\ \A e \in Calls : verdict[e] = "pending" => verdict'[e] \in {"pending", d}
<1>1. /\ act[q].pc = "idle" /\ Go(q, [Idle EXCEPT !.pc = "cas", !.decision = d])
      /\ UNCHANGED <<status, leased, ckpt, filed, ran, crashes>>
      /\ asked' = (asked \/ d = "approved")
  BY DEF Decide
<1>2. verdict' = [verdict EXCEPT ![c] = IF verdict[c] = "pending" THEN d ELSE verdict[c]]
  BY DEF Decide, Decided
<1>3. /\ \A e \in Calls : verdict[e] # "pending" => verdict'[e] = verdict[e]
      /\ \A e \in Calls : verdict[e] = "pending" => verdict'[e] \in {"pending", d}
  BY <1>2, TypeFacts
<1>4. Others(q) /\ act'[q].pc = "cas" /\ act'[q].decision = d
  BY <1>1, TriggerFacts DEF Actors
<1> QED BY <1>1, <1>3, <1>4, Zenon

LEMMA ResumeByHandFacts ==
    ASSUME TypeInv, NEW o \in Owners, NEW d \in {"none", "approved"}, ResumeByHand(o, d)
    PROVE  /\ Others(o) /\ act[o].pc = "idle"
           /\ act'[o].pc = "cas" /\ act'[o].decision = d
           /\ UNCHANGED <<status, leased, ckpt, verdict, filed, ran, crashes>>
           /\ asked' = (asked \/ d = "approved")
<1>1. /\ act[o].pc = "idle" /\ Go(o, [Idle EXCEPT !.pc = "cas", !.decision = d])
      /\ UNCHANGED <<status, leased, ckpt, verdict, filed, ran, crashes>>
      /\ asked' = (asked \/ d = "approved")
  BY DEF ResumeByHand, stores
<1>2. d \in {"none"} \cup Decisions
  BY DEF Decisions
<1>3. Others(o) /\ act'[o].pc = "cas" /\ act'[o].decision = d
  BY <1>1, <1>2, TriggerFacts DEF Actors
<1> QED BY <1>1, <1>3, Zenon

LEMMA ReconcileFacts ==
    ASSUME TypeInv, NEW k \in Reconcilers, Reconcile(k)
    PROVE  /\ Others(k) /\ act[k].pc = "idle" /\ act'[k].pc = "cas"
           /\ UNCHANGED <<status, leased, ckpt, verdict, filed, asked, ran, crashes>>
           /\ \E c \in Calls : act'[k].decision = verdict[c]
<1>1. /\ act[k].pc = "idle"
      /\ UNCHANGED <<status, leased, ckpt, verdict, filed, asked, ran, crashes>>
  BY DEF Reconcile, stores, history
<1>2. PICK i \in FirstDecided :
          Go(k, [Idle EXCEPT !.pc = "cas", !.decision = verdict[filed[i]]])
  BY DEF Reconcile
<1>3. verdict[filed[i]] \in {"none"} \cup Decisions /\ filed[i] \in Calls
  BY <1>2, TypeFacts DEF FirstDecided
<1> QED BY <1>1, <1>2, <1>3, TriggerFacts DEF Actors

-----------------------------------------------------------------------------
\* One driver

\* A lease means that a worker drives or drove the run; resumed streams have none.
DriverInv ==
    /\ SoleDriver
    /\ leased => status = "running"
    /\ \A a \in Actors : Driving(a) => (leased <=> a \in Workers)
    /\ \A w \in Workers : act[w].pc \notin {"cas", "look"} /\ act[w].decision = "none"

LEMMA WorkersAct == Workers \subseteq Actors
  BY DEF Actors

\* One actor moves; the driver, if there is one, stays the only one.
LEMMA DriverKept ==
    ASSUME DriverInv, NEW a \in Actors, Others(a), UNCHANGED <<status, leased>>,
           Driving(a)' => Driving(a),
           a \in Workers => /\ act'[a].pc \notin {"cas", "look"}
                            /\ act'[a].decision = "none"
    PROVE  DriverInv'
  BY WorkersAct DEF DriverInv, SoleDriver, Driving, Others

LEMMA DriverInit == Init => DriverInv
  BY IdleState, WorkersAct DEF Init, DriverInv, SoleDriver, Driving

LEMMA DriverNext == TypeInv /\ DriverInv /\ [Next]_vars => DriverInv'
<1> SUFFICES ASSUME TypeInv, DriverInv, [Next]_vars PROVE DriverInv'
  OBVIOUS
<1>0. \A w \in Workers : act[w].pc \notin {"cas", "look"} /\ act[w].decision = "none"
  BY DEF DriverInv
<1>1. ASSUME NEW a \in Actors, Stream(a) PROVE DriverInv'
  <2>1. CASE Load(a)
    BY <1>0, <2>1, LoadFacts, DriverKept DEF Driving
  <2>2. ASSUME NEW c \in Calls, Resolve(a, c) PROVE DriverInv'
    BY <1>0, <2>2, ResolveFacts, DriverKept DEF Driving
  <2>3. ASSUME NEW c \in Calls, File(a, c) PROVE DriverInv'
    BY <1>0, <2>3, FileFacts, DriverKept DEF Driving
  <2>4. ASSUME NEW C \in SUBSET Calls, Ask(a, C) PROVE DriverInv'
    BY <1>0, <2>4, AskFacts, DriverKept DEF Driving
  <2>5. CASE Answer(a)
    BY <1>0, <2>5, AnswerFacts, DriverKept DEF Driving
  <2>6. CASE ToolRound(a)
    BY <1>0, <2>6, ToolRoundFacts, DriverKept DEF Driving
  <2>7. CASE Fail(a)
    BY <1>0, <2>7, FailFacts, DriverKept DEF Driving
  <2>8. CASE Park(a)
    BY <1>0, <2>8, ParkFacts, DriverKept DEF Driving
  <2> QED BY <1>1, <2>1, <2>2, <2>3, <2>4, <2>5, <2>6, <2>7, <2>8 DEF Stream
<1>2. ASSUME NEW a \in Actors, CompareAndSet(a) PROVE DriverInv'
  <2>0. a \notin Workers
    BY <1>0, <1>2, CompareAndSetFacts
  <2>1. CASE status = "paused" /\ status' = "running" /\ act'[a].pc = "load"
    <3>1. ~leased /\ ~leased' /\ \A b \in Actors : ~Driving(b)
      BY <1>2, <2>1, CompareAndSetFacts DEF DriverInv, SoleDriver
    <3>2. \A b \in Actors : Driving(b)' => b = a
      BY <1>2, <3>1, CompareAndSetFacts DEF Driving, Others
    <3> QED
      BY <1>0, <1>2, <2>0, <2>1, <3>1, <3>2, CompareAndSetFacts, WorkersAct
      DEF DriverInv, SoleDriver, Others
  <2>2. CASE status' = status /\ act'[a].pc = "look"
    BY <1>2, <2>0, <2>2, CompareAndSetFacts, DriverKept DEF Driving
  <2> QED BY <1>2, <2>1, <2>2, CompareAndSetFacts
<1>3. ASSUME NEW a \in Actors, Look(a) PROVE DriverInv'
  BY <1>0, <1>3, LookFacts, DriverKept DEF Driving
<1>4. ASSUME NEW a \in Actors, SettleResumed(a) PROVE DriverInv'
  <2>1. Driving(a)
    BY <1>4, SettleResumedFacts DEF Driving
  <2>2. ~leased /\ ~leased' /\ \A b \in Actors : ~Driving(b)'
    BY <1>4, <2>1, SettleResumedFacts DEF DriverInv, SoleDriver, Driving, Others
  <2> QED
    BY <1>0, <1>4, <2>2, SettleResumedFacts, WorkersAct DEF DriverInv, SoleDriver, Others
<1>5. ASSUME NEW w \in Workers, Claim(w) PROVE DriverInv'
  <2>1. \A b \in Actors : ~Driving(b)
    BY <1>5, ClaimFacts DEF DriverInv, SoleDriver
  <2>2. \A b \in Actors : Driving(b)' => b = w
    BY <1>5, <2>1, ClaimFacts DEF Driving, Others
  <2> QED
    BY <1>0, <1>5, <2>2, ClaimFacts, WorkersAct DEF DriverInv, SoleDriver, Others
<1>6. ASSUME NEW w \in Workers, Settle(w) PROVE DriverInv'
  <2>1. Driving(w)
    BY <1>6, SettleFacts DEF Driving
  <2>2. ~leased' /\ \A b \in Actors : ~Driving(b)'
    BY <1>6, <2>1, SettleFacts, WorkersAct DEF DriverInv, SoleDriver, Driving, Others
  <2> QED
    BY <1>0, <1>6, <2>2, SettleFacts, WorkersAct DEF DriverInv, SoleDriver, Others
<1>7. CASE Reap
  <2>1. \A a \in Actors : ~Driving(a)
    BY <1>7 DEF Reap, DriverInv
  <2> QED BY <1>7, <2>1, <1>0 DEF Reap, DriverInv, SoleDriver, Driving
<1>8. ASSUME NEW a \in Actors, Crash(a) PROVE DriverInv'
  BY <1>0, <1>8, CrashFacts, DriverKept DEF Driving
<1>9. ASSUME NEW q \in Reviewers, NEW c \in Calls, NEW d \in Decisions, Decide(q, c, d)
      PROVE  DriverInv'
  BY <1>9, DecideFacts, DriverKept, ApprovalAssumption DEF Driving, Actors
<1>10. ASSUME NEW o \in Owners, NEW d \in {"none", "approved"}, ResumeByHand(o, d)
       PROVE  DriverInv'
  BY <1>10, ResumeByHandFacts, DriverKept, ApprovalAssumption DEF Driving, Actors
<1>11. ASSUME NEW k \in Reconcilers, Reconcile(k) PROVE DriverInv'
  BY <1>11, ReconcileFacts, DriverKept, ApprovalAssumption DEF Driving, Actors
<1>12. CASE UNCHANGED vars
  BY <1>12 DEF vars, DriverInv, SoleDriver, Driving
<1> QED
  BY <1>1, <1>2, <1>3, <1>4, <1>5, <1>6, <1>7, <1>8, <1>9, <1>10, <1>11, <1>12
  DEF Next, Resume

\* One actor at most drives the run, while its record says running (_resume_run's
\* compare-and-set, claim_next and the reaper together).
THEOREM DriverSound == Spec => []SoleDriver
<1>1. DriverInv => SoleDriver
  BY DEF DriverInv
<1>2. TypeInv /\ DriverInv /\ [Next]_vars => (TypeInv /\ DriverInv)'
  BY TypeNext, DriverNext
<1> QED BY <1>1, <1>2, TypeInit, DriverInit, PTL DEF Spec

-----------------------------------------------------------------------------
\* A run on record as running is leased or driven, unless an actor died

\* One actor moves and goes on driving if it drove.
LEMMA DrivenKept ==
    ASSUME RunningIsDriven, NEW a \in Actors, Others(a),
           UNCHANGED <<status, leased, crashes>>,
           Driving(a) => Driving(a)'
    PROVE  RunningIsDriven'
  BY DEF RunningIsDriven, Driving, Others

LEMMA DrivenNext == TypeInv /\ RunningIsDriven /\ [Next]_vars => RunningIsDriven'
<1> SUFFICES ASSUME TypeInv, RunningIsDriven, [Next]_vars PROVE RunningIsDriven'
  OBVIOUS
<1>1. ASSUME NEW a \in Actors, Stream(a) PROVE RunningIsDriven'
  <2>1. CASE Load(a)
    BY <2>1, LoadFacts, DrivenKept DEF Driving
  <2>2. ASSUME NEW c \in Calls, Resolve(a, c) PROVE RunningIsDriven'
    BY <2>2, ResolveFacts, DrivenKept DEF Driving
  <2>3. ASSUME NEW c \in Calls, File(a, c) PROVE RunningIsDriven'
    BY <2>3, FileFacts, DrivenKept DEF Driving
  <2>4. ASSUME NEW C \in SUBSET Calls, Ask(a, C) PROVE RunningIsDriven'
    BY <2>4, AskFacts, DrivenKept DEF Driving
  <2>5. CASE Answer(a)
    BY <2>5, AnswerFacts, DrivenKept DEF Driving
  <2>6. CASE ToolRound(a)
    BY <2>6, ToolRoundFacts, DrivenKept DEF Driving
  <2>7. CASE Fail(a)
    BY <2>7, FailFacts, DrivenKept DEF Driving
  <2>8. CASE Park(a)
    BY <2>8, ParkFacts, DrivenKept DEF Driving
  <2> QED BY <1>1, <2>1, <2>2, <2>3, <2>4, <2>5, <2>6, <2>7, <2>8 DEF Stream
<1>2. ASSUME NEW a \in Actors, CompareAndSet(a) PROVE RunningIsDriven'
  <2>1. CASE act'[a].pc = "load"
    BY <2>1 DEF RunningIsDriven, Driving
  <2>2. CASE status' = status
    BY <1>2, <2>2, CompareAndSetFacts, DrivenKept DEF Driving
  <2> QED BY <1>2, <2>1, <2>2, CompareAndSetFacts
<1>3. ASSUME NEW a \in Actors, Look(a) PROVE RunningIsDriven'
  BY <1>3, LookFacts, DrivenKept DEF Driving
<1>4. ASSUME NEW a \in Actors, SettleResumed(a) PROVE RunningIsDriven'
  BY <1>4, SettleResumedFacts DEF RunningIsDriven
<1>5. ASSUME NEW w \in Workers, Claim(w) PROVE RunningIsDriven'
  BY <1>5, ClaimFacts DEF RunningIsDriven
<1>6. ASSUME NEW w \in Workers, Settle(w) PROVE RunningIsDriven'
  <2>1. act[w].outcome # "running"
    BY WorkersAct, TypeFacts DEF Local
  <2> QED BY <1>6, <2>1, SettleFacts DEF RunningIsDriven
<1>7. CASE Reap
  BY <1>7 DEF Reap, RunningIsDriven
<1>8. ASSUME NEW a \in Actors, Crash(a) PROVE RunningIsDriven'
  <2>1. crashes \in Nat /\ crashes' = crashes + 1
    BY <1>8 DEF Crash, TypeInv, TypeOK
  <2> QED BY <2>1 DEF RunningIsDriven
<1>9. ASSUME NEW q \in Reviewers, NEW c \in Calls, NEW d \in Decisions, Decide(q, c, d)
      PROVE  RunningIsDriven'
  BY <1>9, DecideFacts, DrivenKept DEF Driving, Actors
<1>10. ASSUME NEW o \in Owners, NEW d \in {"none", "approved"}, ResumeByHand(o, d)
       PROVE  RunningIsDriven'
  BY <1>10, ResumeByHandFacts, DrivenKept DEF Driving, Actors
<1>11. ASSUME NEW k \in Reconcilers, Reconcile(k) PROVE RunningIsDriven'
  BY <1>11, ReconcileFacts, DrivenKept DEF Driving, Actors
<1>12. CASE UNCHANGED vars
  BY <1>12 DEF vars, RunningIsDriven, Driving
<1> QED
  BY <1>1, <1>2, <1>3, <1>4, <1>5, <1>6, <1>7, <1>8, <1>9, <1>10, <1>11, <1>12
  DEF Next, Resume

\* Without a death no order of claims, parks, reaps, decisions and resumes leaves
\* a run RUNNING with neither a lease nor a driver (_resume_run, reap_expired_leases).
THEOREM DrivenSound == Spec => []RunningIsDriven
<1>1. Init => RunningIsDriven
  BY DEF Init, RunningIsDriven
<1>2. TypeInv /\ RunningIsDriven /\ [Next]_vars => (TypeInv /\ RunningIsDriven)'
  BY TypeNext, DrivenNext
<1> QED BY <1>1, <1>2, TypeInit, PTL DEF Spec

-----------------------------------------------------------------------------
\* Approvals: where a decision comes from

AskedInv ==
    /\ \A a \in Actors : act[a].decision = "approved" => asked
    /\ \A c \in Calls : verdict[c] = "approved" => asked
    /\ FailsClosed

\* A step of an actor that keeps its decision or drops it.
LEMMA AskedKept ==
    ASSUME AskedInv, NEW a \in Actors, Others(a),
           act'[a].decision \in {act[a].decision, "none"},
           UNCHANGED <<asked, ran>>,
           \A c \in Calls : verdict'[c] = "approved" => verdict[c] = "approved"
    PROVE  AskedInv'
  BY DEF AskedInv, FailsClosed, Others

LEMMA AskedInit == Init => AskedInv
  BY IdleState DEF Init, AskedInv, FailsClosed

LEMMA AskedNext == TypeInv /\ DriverInv /\ AskedInv /\ [Next]_vars => AskedInv'
<1> SUFFICES ASSUME TypeInv, DriverInv, AskedInv, [Next]_vars PROVE AskedInv'
  OBVIOUS
<1>1. ASSUME NEW a \in Actors, Stream(a) PROVE AskedInv'
  <2>1. CASE Load(a)
    BY <2>1, LoadFacts, AskedKept
  <2>2. ASSUME NEW c \in Calls, Resolve(a, c) PROVE AskedInv'
    <3>1. CASE ran' = ran
      BY <2>2, <3>1, ResolveFacts, AskedKept
    <3>2. CASE act[a].decision = "approved"
      <4>1. asked
        BY <3>2, Zenon DEF AskedInv
      <4>2. asked' = asked
        BY <2>2, ResolveFacts
      <4>3. asked'
        BY <4>1, <4>2, Zenon
      <4> QED BY <4>3, Zenon DEF AskedInv, FailsClosed
    <3> QED BY <2>2, <3>1, <3>2, ResolveFacts
  <2>3. ASSUME NEW c \in Calls, File(a, c) PROVE AskedInv'
    <3>1. \A d \in Calls : verdict'[d] = "approved" => verdict[d] = "approved"
      BY <2>3, FileFacts
    <3> QED BY <2>3, <3>1, FileFacts, AskedKept
  <2>4. ASSUME NEW C \in SUBSET Calls, Ask(a, C) PROVE AskedInv'
    BY <2>4, AskFacts, AskedKept
  <2>5. CASE Answer(a)
    BY <2>5, AnswerFacts, AskedKept
  <2>6. CASE ToolRound(a)
    BY <2>6, ToolRoundFacts, AskedKept
  <2>7. CASE Fail(a)
    BY <2>7, FailFacts, AskedKept
  <2>8. CASE Park(a)
    BY <2>8, ParkFacts, AskedKept
  <2> QED BY <1>1, <2>1, <2>2, <2>3, <2>4, <2>5, <2>6, <2>7, <2>8 DEF Stream
<1>2. ASSUME NEW a \in Actors, Resume(a) PROVE AskedInv'
  <2>1. CASE CompareAndSet(a)
    BY <2>1, CompareAndSetFacts, AskedKept
  <2>2. CASE Look(a)
    BY <2>2, LookFacts, AskedKept
  <2>3. CASE SettleResumed(a)
    BY <2>3, SettleResumedFacts, AskedKept
  <2> QED BY <1>2, <2>1, <2>2, <2>3 DEF Resume
<1>3. ASSUME NEW w \in Workers, Claim(w) PROVE AskedInv'
  BY <1>3, ClaimFacts, AskedKept, WorkersAct
<1>4. ASSUME NEW w \in Workers, Settle(w) PROVE AskedInv'
  BY <1>4, SettleFacts, AskedKept, WorkersAct
<1>5. CASE Reap
  BY <1>5 DEF Reap, history, AskedInv, FailsClosed
<1>6. ASSUME NEW a \in Actors, Crash(a) PROVE AskedInv'
  BY <1>6, CrashFacts, AskedKept
<1>7. ASSUME NEW q \in Reviewers, NEW c \in Calls, NEW d \in Decisions, Decide(q, c, d)
      PROVE  AskedInv'
  <2>1. CASE d = "approved"
    <3>1. asked'
      BY <1>7, <2>1, DecideFacts
    <3> QED BY <3>1 DEF AskedInv, FailsClosed
  <2>2. CASE d # "approved"
    <3>1. asked' = asked
      BY <1>7, <2>2, DecideFacts, TypeFacts
    <3>2. \A e \in Calls : verdict'[e] = "approved" => verdict[e] = "approved"
      BY <1>7, <2>2, DecideFacts
    <3>3. /\ Others(q) /\ act'[q].decision # "approved"
          /\ ran' = ran
      BY <1>7, <2>2, DecideFacts
    <3> QED
      BY <3>1, <3>2, <3>3 DEF AskedInv, FailsClosed, Others, Actors
  <2> QED BY <2>1, <2>2
<1>8. ASSUME NEW o \in Owners, NEW d \in {"none", "approved"}, ResumeByHand(o, d)
      PROVE  AskedInv'
  <2>1. CASE d = "approved"
    <3>1. asked'
      BY <1>8, <2>1, ResumeByHandFacts
    <3> QED BY <3>1 DEF AskedInv, FailsClosed
  <2>2. CASE d = "none"
    <3>1. asked' = asked
      BY <1>8, <2>2, ResumeByHandFacts, TypeFacts
    <3> QED
      BY <1>8, <2>2, <3>1, ResumeByHandFacts, AskedKept DEF Actors
  <2> QED BY <2>1, <2>2
<1>9. ASSUME NEW k \in Reconcilers, Reconcile(k) PROVE AskedInv'
  BY <1>9, ReconcileFacts DEF AskedInv, FailsClosed, Others
<1>10. CASE UNCHANGED vars
  BY <1>10 DEF vars, AskedInv, FailsClosed
<1> QED
  BY <1>1, <1>2, <1>3, <1>4, <1>5, <1>6, <1>7, <1>8, <1>9, <1>10 DEF Next

\* A held call is never executed before somebody's request said "approved"
\* (_resume_pending's else branch).
THEOREM FailsClosedSound == Spec => []FailsClosed
<1>1. AskedInv => FailsClosed
  BY DEF AskedInv
<1>2. TypeInv /\ DriverInv /\ AskedInv /\ [Next]_vars => (TypeInv /\ DriverInv /\ AskedInv)'
  BY TypeNext, DriverNext, AskedNext
<1> QED BY <1>1, <1>2, TypeInit, DriverInit, AskedInit, PTL DEF Spec

-----------------------------------------------------------------------------
\* A paused run can be decided

\* The calls a marker holds have been filed, those of a turn that is being filed
\* as far as it has come, and a stream ends "paused" on a pending marker only.
PauseInv ==
    /\ ckpt.kind = "pending" =>
          /\ ckpt.held # {}
          /\ \A c \in ckpt.held : verdict[c] # "absent"
    /\ \A a \in Actors : act[a].pc = "file" =>
          /\ act[a].held # {}
          /\ \A c \in act[a].held \ act[a].unfiled : verdict[c] # "absent"
    /\ \A a \in Actors : act[a].pc = "end" /\ act[a].outcome = "paused" => ckpt.kind = "pending"
    /\ status = "paused" => ckpt.kind = "pending"

\* A step of an actor that neither files nor parks.
LEMMA PauseKept ==
    ASSUME TypeInv, PauseInv, NEW a \in Actors, Others(a), UNCHANGED ckpt,
           status' = "paused" => status = "paused",
           \A c \in Calls : verdict[c] # "absent" => verdict'[c] # "absent",
           act'[a].pc # "file",
           act'[a].pc = "end" => act'[a].outcome # "paused"
    PROVE  PauseInv'
  BY TypeFacts DEF PauseInv, Others

\* A step of an actor that is filing a turn's calls afterwards.
LEMMA PauseFiling ==
    ASSUME TypeInv, PauseInv, NEW a \in Actors, Others(a), UNCHANGED <<ckpt, status>>,
           \A c \in Calls : verdict[c] # "absent" => verdict'[c] # "absent",
           act'[a].pc = "file", act'[a].held # {},
           \A c \in act'[a].held \ act'[a].unfiled : verdict'[c] # "absent"
    PROVE  PauseInv'
<1>1. /\ \A b \in Actors : act'[b].pc = "file" =>
            /\ act'[b].held # {}
            /\ \A d \in act'[b].held \ act'[b].unfiled : verdict'[d] # "absent"
      /\ \A b \in Actors :
            act'[b].pc = "end" /\ act'[b].outcome = "paused" => ckpt'.kind = "pending"
  BY TypeFacts DEF PauseInv, Others
<1>2. ckpt'.kind = "pending" =>
        ckpt'.held # {} /\ \A d \in ckpt'.held : verdict'[d] # "absent"
  BY TypeFacts DEF PauseInv
<1> QED BY <1>1, <1>2 DEF PauseInv

LEMMA PauseInit == Init => PauseInv
  BY IdleState DEF Init, PauseInv

\* The driver writes the checkpoint: nobody else is at the end of a stream.
LEMMA SoleEnd ==
    ASSUME DriverInv, NEW a \in Actors, Driving(a)
    PROVE  status = "running" /\ \A b \in Actors : b # a => ~Driving(b)
  BY DEF DriverInv, SoleDriver

LEMMA PauseStream ==
    ASSUME TypeInv, DriverInv, PauseInv, NEW a \in Actors, Stream(a) PROVE PauseInv'
<1>1. CASE Load(a)
  BY <1>1, LoadFacts, PauseKept
<1>2. ASSUME NEW c \in Calls, Resolve(a, c) PROVE PauseInv'
  BY <1>2, ResolveFacts, PauseKept
<1>3. ASSUME NEW c \in Calls, File(a, c) PROVE PauseInv'
  <2>1. \A d \in Calls : verdict[d] # "absent" => verdict'[d] # "absent"
    BY <1>3, FileFacts
  <2>2. \A d \in act[a].held \ act[a].unfiled : d \in Calls /\ verdict[d] # "absent"
    BY <1>3, FileFacts, TypeFacts DEF PauseInv
  <2>3. /\ act'[a].held = act[a].held /\ act'[a].unfiled = act[a].unfiled \ {c}
        /\ verdict'[c] # "absent"
    BY <1>3, FileFacts
  <2>4. \A d \in act'[a].held \ act'[a].unfiled : verdict'[d] # "absent"
    BY <2>1, <2>2, <2>3
  <2>5. /\ UNCHANGED <<ckpt, status>> /\ Others(a)
        /\ act'[a].pc = "file" /\ act'[a].held # {}
    BY <1>3, FileFacts DEF PauseInv
  <2> QED BY <2>1, <2>4, <2>5, PauseFiling
<1>4. ASSUME NEW C \in SUBSET Calls, Ask(a, C) PROVE PauseInv'
  <2>1. /\ UNCHANGED <<ckpt, status, verdict>> /\ Others(a)
        /\ act'[a].pc = "file" /\ act'[a].held = C /\ act'[a].unfiled = C /\ C # {}
    BY <1>4, AskFacts
  <2> QED BY <2>1, PauseFiling
<1>5. CASE Answer(a)
  BY <1>5, AnswerFacts, SoleEnd DEF PauseInv, Others, Driving
<1>6. CASE ToolRound(a)
  BY <1>6, ToolRoundFacts, SoleEnd DEF PauseInv, Others, Driving
<1>7. CASE Fail(a)
  BY <1>7, FailFacts, PauseKept
<1>8. CASE Park(a)
  BY <1>8, ParkFacts, SoleEnd DEF PauseInv, Others, Driving
<1> QED BY <1>1, <1>2, <1>3, <1>4, <1>5, <1>6, <1>7, <1>8 DEF Stream

LEMMA PauseNext == TypeInv /\ DriverInv /\ PauseInv /\ [Next]_vars => PauseInv'
<1> SUFFICES ASSUME TypeInv, DriverInv, PauseInv, [Next]_vars PROVE PauseInv'
  OBVIOUS
<1>1. ASSUME NEW a \in Actors, Stream(a) PROVE PauseInv'
  BY <1>1, PauseStream
<1>2. ASSUME NEW a \in Actors, Resume(a) PROVE PauseInv'
  <2>1. CASE CompareAndSet(a)
    BY <2>1, CompareAndSetFacts, PauseKept
  <2>2. CASE Look(a)
    BY <2>2, LookFacts, PauseKept
  <2>3. CASE SettleResumed(a)
    BY <2>3, SettleResumedFacts, PauseKept
  <2> QED BY <1>2, <2>1, <2>2, <2>3 DEF Resume
<1>3. ASSUME NEW w \in Workers, Claim(w) PROVE PauseInv'
  BY <1>3, ClaimFacts, PauseKept, WorkersAct
<1>4. ASSUME NEW w \in Workers, Settle(w) PROVE PauseInv'
  <2>1. status' = "paused" => ckpt'.kind = "pending"
    BY <1>4, SettleFacts, WorkersAct DEF PauseInv
  <2> QED BY <1>4, <2>1, SettleFacts, WorkersAct DEF PauseInv, Others
<1>5. CASE Reap
  BY <1>5 DEF Reap, PauseInv
<1>6. ASSUME NEW a \in Actors, Crash(a) PROVE PauseInv'
  BY <1>6, CrashFacts, PauseKept
<1>7. ASSUME NEW q \in Reviewers, NEW c \in Calls, NEW d \in Decisions, Decide(q, c, d)
      PROVE  PauseInv'
  <2>1. \A e \in Calls : verdict[e] # "absent" => verdict'[e] # "absent"
    BY <1>7, DecideFacts DEF Decisions
  <2> QED BY <1>7, <2>1, DecideFacts, PauseKept DEF Actors
<1>8. ASSUME NEW o \in Owners, NEW d \in {"none", "approved"}, ResumeByHand(o, d)
      PROVE  PauseInv'
  BY <1>8, ResumeByHandFacts, PauseKept DEF Actors
<1>9. ASSUME NEW k \in Reconcilers, Reconcile(k) PROVE PauseInv'
  BY <1>9, ReconcileFacts, PauseKept DEF Actors
<1>10. CASE UNCHANGED vars
  BY <1>10 DEF vars, PauseInv
<1> QED
  BY <1>1, <1>2, <1>3, <1>4, <1>5, <1>6, <1>7, <1>8, <1>9, <1>10 DEF Next

\* Whenever the record says paused, the checkpoint holds calls and each has a
\* request a reviewer can find (_queue_and_pause's order of writes).
THEOREM PausedSound == Spec => []PausedIsDecidable
<1>1. PauseInv => PausedIsDecidable
  BY DEF PauseInv, PausedIsDecidable
<1>2. TypeInv /\ DriverInv /\ PauseInv /\ [Next]_vars => (TypeInv /\ DriverInv /\ PauseInv)'
  BY TypeNext, DriverNext, PauseNext
<1> QED BY <1>1, <1>2, TypeInit, DriverInit, PauseInit, PTL DEF Spec

-----------------------------------------------------------------------------
\* A decision is permanent

LEMMA PermanentStep ==
    ASSUME TypeInv, [Next]_vars
    PROVE  \A c \in Calls : verdict[c] \in Decisions => verdict'[c] = verdict[c]
<1> DEFINE Kept == \A c \in Calls : verdict[c] \in Decisions => verdict'[c] = verdict[c]
<1>1. CASE UNCHANGED verdict
  BY <1>1
<1>2. ASSUME NEW a \in Actors, NEW c \in Calls, File(a, c) PROVE Kept
  BY <1>2, FileFacts DEF Decisions
<1>3. ASSUME NEW q \in Reviewers, NEW c \in Calls, NEW d \in Decisions, Decide(q, c, d)
      PROVE  Kept
  BY <1>3, DecideFacts DEF Decisions
<1>4. ASSUME NEW a \in Actors, Stream(a) PROVE Kept
  <2>1. (\E c \in Calls : File(a, c)) \/ UNCHANGED verdict
    BY <1>4 DEF Stream, Load, Answer, ToolRound, Fail, Park, Resolve, Ask, stores
  <2> QED BY <1>1, <1>2, <2>1
<1>5. \/ \E q \in Reviewers, c \in Calls, d \in Decisions : Decide(q, c, d)
      \/ \E a \in Actors : Stream(a)
      \/ UNCHANGED verdict
  BY DEF Next, vars, Claim, Settle, Reap, Resume, CompareAndSet, Look, SettleResumed,
         Crash, ResumeByHand, Reconcile, stores
<1> QED BY <1>1, <1>3, <1>4, <1>5

\* No step changes a decision on record (approvals.py: create returns what it
\* finds, decide answers only a pending request).
THEOREM PermanentSound == Spec => DecisionIsPermanent
<1>1. TypeInv /\ [Next]_vars =>
          [\A c \in Calls : verdict[c] \in Decisions => verdict'[c] = verdict[c]]_vars
  BY PermanentStep
<1> QED BY <1>1, TypeInit, TypeNext, PTL DEF Spec, DecisionIsPermanent

-----------------------------------------------------------------------------
\* A held call runs once

\* Where a stream stands in relation to the checkpoint.
Tracks(l) ==
    /\ l.pc = "resolve" => ckpt.kind = "pending" /\ l.step = ckpt.step
    /\ l.pc \in {"turn", "file"} =>
          \/ ckpt.kind = "none"
          \/ ckpt.kind \in {"step", "pending"} /\ l.step > ckpt.step

\* The stream is behind the call: it has resolved it, or it is gone.
Behind(l, c) ==
    \/ l.pc = "resolve" /\ c \notin l.held
    \/ l.pc \in {"turn", "file"}
    \/ l.pc = "end" /\ l.outcome = "failed"
    \/ l.pc \in {"idle", "cas", "look", "answered"}

\* The marker still holds a call that ran: the one stream that could run it again
\* is behind it, and nothing will open another (no lease, and not paused).
Spent(s, c) ==
    /\ status = "running" /\ ~leased
    /\ ckpt.kind = "pending" /\ ckpt.step = s
    /\ \A a \in Actors : Behind(act[a], c)

Past(s, c) ==
    \/ status \in {"completed", "failed"}
    \/ ckpt.kind = "finished"
    \/ ckpt.kind \in {"step", "pending"} /\ ckpt.step > s
    \/ Spent(s, c)

OnceInv ==
    /\ \A a \in Actors : Tracks(act[a])
    /\ \A s \in Steps, c \in Calls : ran[<<s, c>>] <= 1
    /\ \A s \in Steps, c \in Calls : ran[<<s, c>>] # 0 => Past(s, c)

\* A step of an actor that leaves the checkpoint, the record and the count alone.
LEMMA OnceKept ==
    ASSUME OnceInv, NEW a \in Actors, Others(a), UNCHANGED <<status, leased, ckpt, ran>>,
           Tracks(act[a])',
           \A c \in Calls : Behind(act[a], c) => Behind(act[a], c)'
    PROVE  OnceInv'
<1>1. \A b \in Actors : Tracks(act[b])'
  BY DEF OnceInv, Others, Tracks
<1>2. \A b \in Actors, c \in Calls : Behind(act[b], c) => Behind(act[b], c)'
  BY DEF Others, Behind
<1>3. \A s \in Steps, c \in Calls : Past(s, c) => Past(s, c)'
  BY <1>2 DEF Past, Spent
<1> QED BY <1>1, <1>3 DEF OnceInv

\* A step that moves the record: it was not running without a lease before.
LEMMA OnceMoved ==
    ASSUME OnceInv, NEW a \in Actors, Others(a), UNCHANGED <<ckpt, ran>>,
           act'[a].pc \notin {"resolve", "turn", "file"},
           status \notin {"completed", "failed"},
           status # "running" \/ leased
    PROVE  OnceInv'
<1>1. \A b \in Actors : Tracks(act[b])'
  BY DEF OnceInv, Others, Tracks
<1>2. \A s \in Steps, c \in Calls : Past(s, c) => Past(s, c)'
  BY DEF Past, Spent
<1> QED BY <1>1, <1>2 DEF OnceInv

LEMMA OnceInit == Init => OnceInv
<1> SUFFICES ASSUME Init PROVE OnceInv
  OBVIOUS
<1>1. \A a \in Actors : Tracks(act[a])
  BY IdleState DEF Init, Tracks
<1>2. \A s \in Steps, c \in Calls : ran[<<s, c>>] = 0
  BY DEF Init
<1> QED BY <1>1, <1>2 DEF OnceInv

LEMMA OnceResolve ==
    ASSUME TypeInv, DriverInv, OnceInv, NEW a \in Actors, NEW c \in Calls, Resolve(a, c)
    PROVE  OnceInv'
<1>1. /\ Others(a) /\ act[a].pc = "resolve" /\ c \in act[a].held
      /\ UNCHANGED <<status, leased, ckpt>>
  BY ResolveFacts
<1>2. status = "running" /\ \A b \in Actors : b # a => ~Driving(b)
  BY <1>1, SoleEnd DEF Driving
<1>3. PICK step \in Steps : step = act[a].step
  BY TypeFacts
<1>4. ckpt.kind = "pending" /\ step = ckpt.step
  BY <1>1, <1>3 DEF OnceInv, Tracks
<1>5. Tracks(act[a])'
  <2>1. step + 1 > step
    BY <1>3, ApprovalAssumption DEF Steps
  <2>2. \/ act'[a].pc = "resolve" /\ act'[a].step = step
        \/ act'[a].pc = "turn" /\ act'[a].step = step + 1
    BY <1>3, ResolveFacts
  <2> QED BY <1>1, <1>4, <2>1, <2>2 DEF Tracks
<1>6. \A d \in Calls : Behind(act[a], d) => Behind(act[a], d)'
  BY <1>1, ResolveFacts DEF Behind
<1>7. CASE ran' = ran
  BY <1>1, <1>5, <1>6, <1>7, OnceKept
<1>8. CASE act[a].decision = "approved" /\ ran' = [ran EXCEPT ![<<step, c>>] = @ + 1]
  <2>1. ~leased
    BY <1>1, <1>8 DEF DriverInv, Driving
  <2>2. ~Past(step, c)
    <3>1. ~Behind(act[a], c)
      BY <1>1 DEF Behind
    <3>2. ~(ckpt.step > step)
      BY <1>4, ApprovalAssumption DEF Steps
    <3> QED BY <1>2, <1>4, <3>1, <3>2 DEF Past, Spent
  <2>3. ran[<<step, c>>] = 0
    BY <2>2 DEF OnceInv
  <2>4. ran'[<<step, c>>] = 1
    BY <1>8, <2>3, TypeFacts
  <2>5. \A s \in Steps, d \in Calls :
           <<s, d>> # <<step, c>> => ran'[<<s, d>>] = ran[<<s, d>>]
    BY <1>8, TypeFacts
  <2>6. \A b \in Actors : Behind(act[b], c)'
    <3>1. Behind(act[a], c)'
      BY <1>1, ResolveFacts DEF Behind
    <3>2. \A b \in Actors : act[b].pc \in {"idle", "cas", "look", "load", "resolve",
                                           "turn", "file", "end", "answered"}
      BY TypeFacts DEF Local
    <3>3. \A b \in Actors : b # a => act[b].pc \in {"idle", "cas", "look", "answered"}
      BY <1>2, <3>2 DEF Driving
    <3> QED BY <1>1, <3>1, <3>3 DEF Behind, Others
  <2>7. Past(step, c)'
    BY <1>1, <1>2, <1>4, <2>1, <2>6 DEF Past, Spent
  <2>8. \A s \in Steps, d \in Calls : Past(s, d) => Past(s, d)'
    <3>1. \A b \in Actors, d \in Calls : Behind(act[b], d) => Behind(act[b], d)'
      BY <1>1, <1>6 DEF Others, Behind
    <3> QED BY <1>1, <3>1 DEF Past, Spent
  <2>9. \A b \in Actors : Tracks(act[b])'
    BY <1>1, <1>5 DEF OnceInv, Others, Tracks
  <2>10. \A s \in Steps, d \in Calls : ran'[<<s, d>>] <= 1
    <3> TAKE s \in Steps, d \in Calls
    <3>1. CASE <<s, d>> = <<step, c>>
      BY <2>4, <3>1
    <3>2. CASE <<s, d>> # <<step, c>>
      BY <2>5, <3>2 DEF OnceInv
    <3> QED BY <3>1, <3>2
  <2>11. ASSUME NEW s \in Steps, NEW d \in Calls, ran'[<<s, d>>] # 0 PROVE Past(s, d)'
    <3>1. CASE <<s, d>> = <<step, c>>
      BY <2>7, <3>1
    <3>2. CASE <<s, d>> # <<step, c>>
      BY <2>5, <2>8, <2>11, <3>2 DEF OnceInv
    <3> QED BY <3>1, <3>2
  <2> QED BY <2>9, <2>10, <2>11 DEF OnceInv
<1> QED BY <1>3, <1>7, <1>8, ResolveFacts

\* The driver writes the marker of the step it is in, or the final one.
LEMMA OnceMarker ==
    ASSUME TypeInv, DriverInv, OnceInv, NEW a \in Actors, Others(a),
           act[a].pc \in {"turn", "file"}, UNCHANGED <<status, leased, ran>>,
           \/ ckpt'.kind = "finished"
           \/ ckpt'.kind \in {"step", "pending"} /\ ckpt'.step = act[a].step,
           Tracks(act[a])'
    PROVE  OnceInv'
<1>1. status = "running" /\ \A b \in Actors : b # a => ~Driving(b)
  BY SoleEnd DEF Driving
<1>2. \A b \in Actors : Tracks(act[b])'
  BY <1>1 DEF Tracks, Others, Driving
<1>3. ASSUME NEW s \in Steps, NEW c \in Calls, Past(s, c) PROVE Past(s, c)'
  <2>1. \/ ckpt.kind = "none"
        \/ ckpt.kind \in {"step", "pending"} /\ act[a].step > ckpt.step
    BY DEF OnceInv, Tracks
  <2>2. ckpt.kind \in {"step", "pending"} /\ ckpt.step >= s
    <3>1. s >= s
      BY ApprovalAssumption DEF Steps
    <3> QED BY <1>1, <1>3, <2>1, <3>1, TypeFacts DEF Past, Spent, Steps
  <2>3. act[a].step > s
    BY <2>1, <2>2, TypeFacts, ApprovalAssumption DEF Steps
  <2> QED BY <2>3 DEF Past
<1> QED BY <1>2, <1>3 DEF OnceInv

LEMMA OnceStream ==
    ASSUME TypeInv, DriverInv, OnceInv, NEW a \in Actors, Stream(a) PROVE OnceInv'
<1>1. CASE Load(a)
  <2>1. \A c \in Calls : ~Behind(act[a], c)
    BY <1>1, LoadFacts DEF Behind
  <2>2. Tracks(act[a])'
    <3>1. ckpt.step + 1 > ckpt.step
      BY TypeFacts, ApprovalAssumption DEF Steps
    <3> QED BY <1>1, <3>1, LoadFacts DEF Tracks
  <2> QED BY <1>1, <2>1, <2>2, LoadFacts, OnceKept
<1>2. ASSUME NEW c \in Calls, Resolve(a, c) PROVE OnceInv'
  BY <1>2, OnceResolve
<1>3. ASSUME NEW c \in Calls, File(a, c) PROVE OnceInv'
  <2>1. Tracks(act[a])' /\ \A d \in Calls : Behind(act[a], d)'
    BY <1>3, FileFacts DEF OnceInv, Tracks, Behind
  <2> QED BY <1>3, <2>1, FileFacts, OnceKept
<1>4. ASSUME NEW C \in SUBSET Calls, Ask(a, C) PROVE OnceInv'
  <2>1. Tracks(act[a])' /\ \A d \in Calls : Behind(act[a], d)'
    BY <1>4, AskFacts DEF OnceInv, Tracks, Behind
  <2> QED BY <1>4, <2>1, AskFacts, OnceKept
<1>5. CASE Answer(a)
  <2>1. Tracks(act[a])'
    BY <1>5, AnswerFacts DEF Tracks
  <2> QED BY <1>5, <2>1, AnswerFacts, OnceMarker
<1>6. CASE ToolRound(a)
  <2>1. Tracks(act[a])'
    <3>1. act[a].step + 1 > act[a].step
      BY TypeFacts, ApprovalAssumption DEF Steps
    <3> QED BY <1>6, <3>1, ToolRoundFacts DEF Tracks
  <2> QED BY <1>6, <2>1, ToolRoundFacts, OnceMarker
<1>7. CASE Fail(a)
  <2>1. Tracks(act[a])' /\ \A d \in Calls : Behind(act[a], d)'
    BY <1>7, FailFacts DEF Tracks, Behind
  <2> QED BY <1>7, <2>1, FailFacts, OnceKept
<1>8. CASE Park(a)
  <2>1. Tracks(act[a])'
    BY <1>8, ParkFacts DEF Tracks
  <2> QED BY <1>8, <2>1, ParkFacts, OnceMarker
<1> QED BY <1>1, <1>2, <1>3, <1>4, <1>5, <1>6, <1>7, <1>8 DEF Stream

LEMMA OnceNext == TypeInv /\ DriverInv /\ OnceInv /\ [Next]_vars => OnceInv'
<1> SUFFICES ASSUME TypeInv, DriverInv, OnceInv, [Next]_vars PROVE OnceInv'
  OBVIOUS
<1>1. ASSUME NEW a \in Actors, Stream(a) PROVE OnceInv'
  BY <1>1, OnceStream
<1>2. ASSUME NEW a \in Actors, CompareAndSet(a) PROVE OnceInv'
  <2>1. CASE status = "paused" /\ status' = "running" /\ act'[a].pc = "load"
    BY <1>2, <2>1, CompareAndSetFacts, OnceMoved
  <2>2. CASE status' = status /\ act'[a].pc = "look"
    <3>1. Tracks(act[a])' /\ \A c \in Calls : Behind(act[a], c)'
      BY <2>2 DEF Tracks, Behind
    <3> QED BY <1>2, <2>2, <3>1, CompareAndSetFacts, OnceKept
  <2> QED BY <1>2, <2>1, <2>2, CompareAndSetFacts
<1>3. ASSUME NEW a \in Actors, Look(a) PROVE OnceInv'
  <2>1. Tracks(act[a])' /\ \A c \in Calls : Behind(act[a], c)'
    BY <1>3, LookFacts DEF Tracks, Behind
  <2> QED BY <1>3, <2>1, LookFacts, OnceKept
<1>4. ASSUME NEW a \in Actors, SettleResumed(a) PROVE OnceInv'
  <2>1. \A b \in Actors : Tracks(act[b])'
    BY <1>4, SettleResumedFacts DEF OnceInv, Others, Tracks
  <2>2. status' \in {"completed", "failed"} /\ ran' = ran
    BY <1>4, SettleResumedFacts
  <2> QED BY <2>1, <2>2 DEF OnceInv, Past
<1>5. ASSUME NEW w \in Workers, Claim(w) PROVE OnceInv'
  BY <1>5, ClaimFacts, OnceMoved, WorkersAct
<1>6. ASSUME NEW w \in Workers, Settle(w) PROVE OnceInv'
  <2>1. Driving(w) /\ w \in Actors
    BY <1>6, SettleFacts, WorkersAct DEF Driving
  <2>2. status = "running" /\ leased
    BY <2>1, SoleEnd DEF DriverInv
  <2> QED BY <1>6, <2>1, <2>2, SettleFacts, OnceMoved
<1>7. CASE Reap
  <2>1. /\ status = "running" /\ leased
        /\ UNCHANGED <<ckpt, act, ran>>
    BY <1>7 DEF Reap, history
  <2>2. \A s \in Steps, c \in Calls : Past(s, c) => Past(s, c)'
    BY <2>1 DEF Past, Spent
  <2> QED BY <2>1, <2>2 DEF OnceInv, Tracks
<1>8. ASSUME NEW a \in Actors, Crash(a) PROVE OnceInv'
  <2>1. Tracks(act[a])' /\ \A c \in Calls : Behind(act[a], c)'
    BY <1>8, CrashFacts DEF Tracks, Behind
  <2> QED BY <1>8, <2>1, CrashFacts, OnceKept
<1>9. ASSUME NEW a \in Actors, Others(a), act'[a].pc = "cas",
             UNCHANGED <<status, leased, ckpt, ran>>
      PROVE  OnceInv'
  <2>1. Tracks(act[a])' /\ \A c \in Calls : Behind(act[a], c)'
    BY <1>9 DEF Tracks, Behind
  <2> QED BY <1>9, <2>1, OnceKept
<1>10. ASSUME NEW q \in Reviewers, NEW c \in Calls, NEW d \in Decisions, Decide(q, c, d)
       PROVE  OnceInv'
  BY <1>9, <1>10, DecideFacts DEF Actors
<1>11. ASSUME NEW o \in Owners, NEW d \in {"none", "approved"}, ResumeByHand(o, d)
       PROVE  OnceInv'
  BY <1>9, <1>11, ResumeByHandFacts DEF Actors
<1>12. ASSUME NEW k \in Reconcilers, Reconcile(k) PROVE OnceInv'
  BY <1>9, <1>12, ReconcileFacts DEF Actors
<1>13. CASE UNCHANGED vars
  BY <1>13 DEF vars, OnceInv, Tracks, Past, Spent, Behind
<1> QED
  BY <1>1, <1>2, <1>3, <1>4, <1>5, <1>6, <1>7, <1>8, <1>10, <1>11, <1>12, <1>13
  DEF Next, Resume

\* No held call is executed twice, whoever resumes the run and whoever dies on
\* the way (_resume_run's compare-and-set, _resume_pending, _checkpoint_step).
THEOREM HeldSound == Spec => []HeldRunsOnce
<1>1. OnceInv => HeldRunsOnce
  BY DEF OnceInv, HeldRunsOnce
<1>2. TypeInv /\ DriverInv /\ OnceInv /\ [Next]_vars => (TypeInv /\ DriverInv /\ OnceInv)'
  BY TypeNext, DriverNext, OnceNext
<1> QED BY <1>1, <1>2, TypeInit, DriverInit, OnceInit, PTL DEF Spec

=============================================================================
