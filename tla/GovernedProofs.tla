--------------------------- MODULE GovernedProofs ---------------------------
(* Of GovernedRuns, for any number of runs, invocations, slots and permits, *)
(* any cards and any mode: its type invariant, the breaker, the gate, the   *)
(* audit trail and the budgets.                                             *)
EXTENDS GovernedRuns, FiniteSetTheorems, SequenceTheorems, TLAPS

Actions == {"registry", "run_start", "error", "run_end"}

-----------------------------------------------------------------------------
\* An agent that was taken out of use has not the approval the gate asks for.
AgentAgrees == withdrawn => card.status # "approved"

\* A run that is to go on has a call left.
CallsLeft == \A r \in Run : pc[r] = "waiting" => left[r] > 0

IInv == TypeOK /\ AgentAgrees /\ BreakerHonest /\ TrailIsComplete /\ CallsLeft

-----------------------------------------------------------------------------
(* What is recorded, and what it tells of an invocation.                    *)
Begun == Recorded(<<"run_start">>)
Going == {"started", "admitted", "waiting", "calling", "tools", "closing", "paused"}

LEMMA TwoRecords == ASSUME NEW a \in Actions, NEW b \in Actions PROVE <<a>> \o <<b>> = <<a, b>>
<1> DEFINE s == <<a>> \o <<b>>
           t == <<a, b>>
<1>1. <<a>> \in Seq(Actions) /\ <<b>> \in Seq(Actions)
  OBVIOUS
<1>2. s \in Seq(Actions) /\ Len(s) = 2 /\ s[1] = a /\ s[2] = b
  BY <1>1
<1>3. t \in Seq(Actions) /\ Len(t) = 2 /\ t[1] = a /\ t[2] = b
  OBVIOUS
<1> HIDE DEF s, t
<1>4. \A i \in 1..Len(s) : s[i] = t[i]
  BY <1>2, <1>3
<1>5. s = t
  BY <1>2, <1>3, <1>4, SeqEqual
<1> QED  BY <1>5 DEF s, t

LEMMA ThreeRecords ==
  ASSUME NEW a \in Actions, NEW b \in Actions, NEW c \in Actions
  PROVE  <<a>> \o <<b, c>> = <<a, b, c>>
<1> DEFINE s == <<a>> \o <<b, c>>
           t == <<a, b, c>>
<1>1. <<a>> \in Seq(Actions) /\ <<b, c>> \in Seq(Actions)
  OBVIOUS
<1>2. s \in Seq(Actions) /\ Len(s) = 3 /\ s[1] = a /\ s[2] = b /\ s[3] = c
  BY <1>1
<1>3. t \in Seq(Actions) /\ Len(t) = 3 /\ t[1] = a /\ t[2] = b /\ t[3] = c
  OBVIOUS
<1> HIDE DEF s, t
<1>4. \A i \in 1..Len(s) : s[i] = t[i]
  BY <1>2, <1>3
<1>5. s = t
  BY <1>2, <1>3, <1>4, SeqEqual
<1> QED  BY <1>5 DEF s, t

\* An error after no, one or two records.
LEMMA Errors ==
  /\ <<>> \o <<>> = <<>> /\ <<>> \o <<"error">> = <<"error">>
  /\ \A a \in Actions : <<a>> \o <<"error">> = <<a, "error">>
  /\ <<"run_start">> \o <<"run_end">> = <<"run_start", "run_end">>
  /\ <<"run_start">> \o <<"run_end", "error">> = <<"run_start", "run_end", "error">>
<1>1. "error" \in Actions /\ "run_start" \in Actions /\ "run_end" \in Actions
  BY DEF Actions
<1>2. <<>> \o <<>> = <<>> /\ <<>> \o <<"error">> = <<"error">>
  OBVIOUS
<1> QED  BY <1>1, <1>2, TwoRecords, ThreeRecords, Zenon

LEMMA RecordTypes ==
  /\ Begun \in Seq(Actions) /\ RunEnd \in Seq(Actions) /\ <<>> \in Seq(Actions)
  /\ \A kinds \in Seq(Actions) : Failing(kinds) \in Seq(Actions)
<1>1. <<"run_start">> \in Seq(Actions) /\ <<"run_end">> \in Seq(Actions) /\ <<>> \in Seq(Actions)
  BY DEF Actions
<1>2. ASSUME NEW kinds \in Seq(Actions) PROVE Failing(kinds) \in Seq(Actions)
  <2>1. <<"error">> \in Seq(Actions)  BY DEF Actions
  <2> QED  BY <2>1 DEF Failing
<1> QED  BY <1>1, <1>2 DEF Begun, RunEnd, Recorded

\* An invocation that goes on has begun; cut off it may stand the same.
LEMMA BegunTells ==
  /\ \A place \in Going \cup {"gone"} : Tells(Begun, place)
  /\ \A place \in Going : \A kinds : Tells(kinds, place) => kinds = Begun
<1>1. CASE Mode = "off"
  BY <1>1 DEF Going, Tells, ToldWhenOff, Begun, Recorded
<1>2. CASE Mode # "off"
  BY <1>2 DEF Going, Tells, Told, Begun, Recorded
<1> QED  BY <1>1, <1>2

\* How one that has begun may go on.
LEMMA ClosedTells ==
  /\ Tells(Begun \o Failing(<<>>), "failed")
  /\ Tells(Begun \o Failing(RunEnd), "failed")
  /\ Tells(Begun \o RunEnd, "ended")
  /\ Tells(Begun \o RunEnd, "gone")
<1>1. CASE Mode = "off"
  <2>1. Begun = <<>> /\ RunEnd = <<>>
    BY <1>1 DEF Begun, RunEnd, Recorded
  <2>2. /\ Begun \o Failing(<<>>) = <<"error">> /\ Begun \o Failing(RunEnd) = <<"error">>
        /\ Begun \o RunEnd = <<>>
    BY <2>1, Errors, Zenon DEF Failing
  <2>3. /\ <<"error">> \in ToldWhenOff("failed") /\ <<>> \in ToldWhenOff("ended")
        /\ <<>> \in ToldWhenOff("gone")
    BY DEF ToldWhenOff
  <2> QED  BY <1>1, <2>2, <2>3, Zenon DEF Tells
<1>2. CASE Mode # "off"
  <2>1. Begun = <<"run_start">> /\ RunEnd = <<"run_end">>
    BY <1>2 DEF Begun, RunEnd, Recorded
  <2>2. Failing(<<>>) = <<"error">> /\ Failing(RunEnd) = <<"run_end", "error">>
    <3>1. "run_end" \in Actions  BY DEF Actions
    <3> QED  BY <2>1, <3>1, Errors, Zenon DEF Failing
  <2>3. /\ Begun \o Failing(<<>>) = <<"run_start", "error">>
        /\ Begun \o Failing(RunEnd) = <<"run_start", "run_end", "error">>
        /\ Begun \o RunEnd = <<"run_start", "run_end">>
    <3>1. "run_start" \in Actions  BY DEF Actions
    <3> QED  BY <2>1, <2>2, <3>1, Errors, Zenon
  <2>4. /\ <<"run_start", "error">> \in Told("failed")
        /\ <<"run_start", "run_end", "error">> \in Told("failed")
        /\ <<"run_start", "run_end">> \in Told("ended")
        /\ <<"run_start", "run_end">> \in Told("gone")
    BY DEF Told
  <2> QED  BY <1>2, <2>3, <2>4, Zenon DEF Tells
<1> QED  BY <1>1, <1>2

LEMMA RefusedTells ==
  ASSUME Mode = "enforcing", NEW kinds \in {<<"registry">>, <<>>}
  PROVE  Failing(kinds) \in Seq(Actions) /\ Tells(Failing(kinds), "failed")
<1>1. "registry" \in Actions
  BY DEF Actions
<1>2. kinds \in Seq(Actions)
  <2>1. <<"registry">> \in Seq(Actions) /\ <<>> \in Seq(Actions)  BY <1>1
  <2> QED  BY <2>1
<1>3. Failing(kinds) \in {<<"registry", "error">>, <<"error">>}
  BY <1>1, Errors, Zenon DEF Failing
<1>4. {<<"registry", "error">>, <<"error">>} \subseteq Told("failed")
  BY DEF Told
<1>5. Mode # "off"
  OBVIOUS
<1>6. Tells(Failing(kinds), "failed")
  BY <1>3, <1>4, <1>5, Zenon DEF Tells
<1> QED  BY <1>2, <1>6, RecordTypes

(* The records of a run when an invocation is added, ...                    *)
LEMMA AppendComplete ==
  ASSUME NEW s \in Seq(Seq(Actions)), NEW t \in Seq(Actions),
         NEW p \in {"new", "paused", "failed", "gone"}, NEW q \in Place \ {"new"},
         Complete(s, p), Tells(t, q)
  PROVE  Append(s, t) \in Seq(Seq(Actions)) /\ Complete(Append(s, t), q)
<1> DEFINE u == Append(s, t)
<1>0. /\ u \in Seq(Seq(Actions)) /\ Len(u) = Len(s) + 1 /\ u[Len(s) + 1] = t
      /\ \A i \in 1..Len(s) : u[i] = s[i]
  BY AppendProperties
<1>1. /\ u \in Seq(Seq(Actions)) /\ Len(u) = Len(s) + 1 /\ u[Len(s) + 1] = t /\ u # <<>>
      /\ \A i \in 1..Len(s) : u[i] = s[i]
      /\ DOMAIN u = 1..(Len(s) + 1) /\ DOMAIN s = 1..Len(s) /\ Len(s) \in Nat
  <2> HIDE DEF u
  <2> QED  BY <1>0
<1> HIDE DEF u
<1>2. ASSUME NEW i \in DOMAIN u, i # Len(u)
      PROVE  \E outcome \in {"paused", "failed", "gone"} : Tells(u[i], outcome)
  <2>1. i \in 1..Len(s) /\ u[i] = s[i] /\ s # <<>>
    BY <1>1, <1>2
  <2>2. p # "new"
    BY <2>1 DEF Complete
  <2>3. CASE i = Len(s)
    <3>1. Tells(s[i], p)  BY <2>1, <2>3, <1>1 DEF Complete
    <3> QED  BY <3>1, <2>1, <2>2
  <2>4. CASE i # Len(s)
    <3>1. \E outcome \in {"paused", "failed", "gone"} : Tells(s[i], outcome)
      BY <2>1, <2>4, <1>1 DEF Complete
    <3> QED  BY <3>1, <2>1
  <2> QED  BY <2>3, <2>4
<1>3. Tells(u[Len(u)], q)
  BY <1>1
<1>4. Complete(u, q)
  BY <1>1, <1>2, <1>3, Zenon DEF Complete
<1> QED  BY <1>1, <1>4 DEF u

(* ... when the last one goes on, ...                                       *)
LEMMA LastComplete ==
  ASSUME NEW s \in Seq(Seq(Actions)), NEW e \in Seq(Actions),
         NEW p \in Place \ {"new"}, NEW q \in Place \ {"new"},
         Complete(s, p), Tells(e, q)
  PROVE  /\ [s EXCEPT ![Len(s)] = e] \in Seq(Seq(Actions))
         /\ Complete([s EXCEPT ![Len(s)] = e], q)
<1> DEFINE u == [s EXCEPT ![Len(s)] = e]
<1>1. s # <<>>
  BY DEF Complete
<1>2. Len(s) \in Nat \ {0} /\ DOMAIN s = 1..Len(s) /\ Len(s) \in DOMAIN s
  BY <1>1
<1>3. /\ u \in Seq(Seq(Actions)) /\ Len(u) = Len(s) /\ DOMAIN u = DOMAIN s /\ u[Len(s)] = e
      /\ \A i \in DOMAIN s : i # Len(s) => u[i] = s[i]
  BY <1>2
<1> HIDE DEF u
<1>4. u # <<>>
  BY <1>2, <1>3
<1>5. ASSUME NEW i \in DOMAIN u, i # Len(u)
      PROVE  \E outcome \in {"paused", "failed", "gone"} : Tells(u[i], outcome)
  <2>1. i \in DOMAIN s /\ i # Len(s) /\ u[i] = s[i]  BY <1>3, <1>5
  <2>2. \E outcome \in {"paused", "failed", "gone"} : Tells(s[i], outcome)
    BY <2>1, Zenon DEF Complete
  <2> QED  BY <2>1, <2>2
<1>6. Tells(u[Len(u)], q)
  BY <1>3
<1>7. Complete(u, q)
  BY <1>4, <1>5, <1>6, Zenon DEF Complete
<1> QED  BY <1>3, <1>7 DEF u

(* ... and when it stands somewhere else with the same records.             *)
LEMMA SameComplete ==
  ASSUME NEW s, NEW p \in Place \ {"new"}, NEW q \in Place \ {"new"},
         Complete(s, p), Tells(s[Len(s)], q)
  PROVE  Complete(s, q)
  BY DEF Complete

\* The last invocation of a run that was invoked.
LEMMA LastTells ==
  ASSUME IInv, NEW r \in Run, pc[r] # "new"
  PROVE  /\ trail[r] \in Seq(Seq(Actions)) /\ Complete(trail[r], pc[r])
         /\ Tells(trail[r][Len(trail[r])], pc[r])
         /\ pc[r] \in Going => trail[r][Len(trail[r])] = Begun
<1>1. trail[r] \in Seq(Seq(Actions)) /\ Complete(trail[r], pc[r])
  BY DEF IInv, TypeOK, TrailIsComplete, Actions
<1>2. trail[r] # <<>>
  BY <1>1 DEF Complete
<1>3. Len(trail[r]) \in DOMAIN trail[r]
  BY <1>1, <1>2
<1>4. Tells(trail[r][Len(trail[r])], pc[r])
  BY <1>1, <1>3, Zenon DEF Complete
<1> QED  BY <1>1, <1>4, BegunTells

-----------------------------------------------------------------------------
(* A step of one run.                                                       *)
\* From one place to another, with the records of both.
LEMMA RunMoves ==
  ASSUME IInv, NEW r \in Run, NEW q \in Place, pc' = [pc EXCEPT ![r] = q],
         NEW s \in Seq(Seq(Actions)), trail' = [trail EXCEPT ![r] = s], Complete(s, q)
  PROVE  /\ pc' \in [Run -> Place]
         /\ trail' \in [Run -> Seq(Seq({"registry", "run_start", "error", "run_end"}))]
         /\ TrailIsComplete'
<1>1. pc \in [Run -> Place] /\ trail \in [Run -> Seq(Seq(Actions))]
  BY DEF IInv, TypeOK, Actions
<1>2. pc' \in [Run -> Place] /\ trail' \in [Run -> Seq(Seq(Actions))]
  BY <1>1
<1>3. ASSUME NEW u \in Run PROVE Complete(trail'[u], pc'[u])
  <2>1. CASE u = r
    BY <2>1, <1>1
  <2>2. CASE u # r
    <3>1. trail'[u] = trail[u] /\ pc'[u] = pc[u]  BY <2>2, <1>1
    <3>2. Complete(trail[u], pc[u])  BY DEF IInv, TrailIsComplete
    <3> QED  BY <3>1, <3>2
  <2> QED  BY <2>1, <2>2
<1>4. TrailIsComplete'
  BY <1>3 DEF TrailIsComplete, Complete, Tells
<1> QED  BY <1>2, <1>4 DEF Actions

\* An invocation opens.
LEMMA OpenStep ==
  ASSUME IInv, NEW r \in Run, pc[r] \in {"new", "paused", "failed", "gone"},
         NEW t \in Seq(Actions), Opens(r, t),
         NEW q \in Place \ {"new"}, pc' = [pc EXCEPT ![r] = q], Tells(t, q)
  PROVE  /\ pc' \in [Run -> Place]
         /\ trail' \in [Run -> Seq(Seq({"registry", "run_start", "error", "run_end"}))]
         /\ TrailIsComplete'
<1> DEFINE s == Append(trail[r], t)
<1>1. trail[r] \in Seq(Seq(Actions)) /\ Complete(trail[r], pc[r])
  BY DEF IInv, TypeOK, TrailIsComplete, Actions
<1>2. s \in Seq(Seq(Actions)) /\ Complete(s, q)
  BY <1>1, AppendComplete
<1>3. trail' = [trail EXCEPT ![r] = s]
  BY DEF Opens
<1> HIDE DEF s
<1> QED  BY <1>2, <1>3, RunMoves

\* More is recorded of it.
LEMMA NoteStep ==
  ASSUME IInv, NEW r \in Run, pc[r] \in Going, NEW kinds \in Seq(Actions), Notes(r, kinds),
         NEW q \in Place \ {"new"}, pc' = [pc EXCEPT ![r] = q], Tells(Begun \o kinds, q)
  PROVE  /\ pc' \in [Run -> Place]
         /\ trail' \in [Run -> Seq(Seq({"registry", "run_start", "error", "run_end"}))]
         /\ TrailIsComplete'
<1> DEFINE e == trail[r][Len(trail[r])] \o kinds
           s == [trail[r] EXCEPT ![Len(trail[r])] = e]
<1>1. pc[r] \in Place \ {"new"} /\ trail \in [Run -> Seq(Seq(Actions))]
  BY DEF IInv, TypeOK, Going, Place, Actions
<1>2. /\ trail[r] \in Seq(Seq(Actions)) /\ Complete(trail[r], pc[r])
      /\ trail[r][Len(trail[r])] = Begun
  BY <1>1, LastTells
<1>3. e = Begun \o kinds /\ e \in Seq(Actions)
  BY <1>2, RecordTypes
<1>4. trail' = [trail EXCEPT ![r] = s]
  BY <1>1 DEF Notes
<1> HIDE DEF e
<1>5. s \in Seq(Seq(Actions)) /\ Complete(s, q)
  BY <1>1, <1>2, <1>3, LastComplete
<1> HIDE DEF s
<1> QED  BY <1>4, <1>5, RunMoves

\* Nothing is.
LEMMA MoveStep ==
  ASSUME IInv, NEW r \in Run, pc[r] \in Going, trail' = trail,
         NEW q \in Going \cup {"gone"}, pc' = [pc EXCEPT ![r] = q]
  PROVE  /\ pc' \in [Run -> Place]
         /\ trail' \in [Run -> Seq(Seq({"registry", "run_start", "error", "run_end"}))]
         /\ TrailIsComplete'
<1>1. /\ pc[r] \in Place \ {"new"} /\ q \in Place \ {"new"}
      /\ trail \in [Run -> Seq(Seq(Actions))]
  BY DEF IInv, TypeOK, Going, Place, Actions
<1>2. /\ trail[r] \in Seq(Seq(Actions)) /\ Complete(trail[r], pc[r])
      /\ trail[r][Len(trail[r])] = Begun
  BY <1>1, LastTells
<1>3. Complete(trail[r], q)
  BY <1>1, <1>2, BegunTells, SameComplete
<1>4. trail' = [trail EXCEPT ![r] = trail[r]]
  BY <1>1
<1> QED  BY <1>1, <1>2, <1>3, <1>4, RunMoves

\* What a run has left when an invocation stops, ...
LEMMA StopStep ==
  ASSUME IInv, NEW r \in Run, NEW outcome \in Place \ {"waiting"}, NEW calls \in 0..MaxSteps,
         Stops(r, outcome, calls)
  PROVE  /\ pc' = [pc EXCEPT ![r] = outcome]
         /\ left' \in [Run -> 0..MaxSteps] /\ saved' \in [Run -> 0..MaxSteps] /\ CallsLeft'
  BY DEF IInv, TypeOK, Stops, CallsLeft

\* ... and when it goes on but not to wait for a permit.
LEMMA StayStep ==
  ASSUME IInv, NEW r \in Run, NEW q \in Place \ {"waiting"}, pc' = [pc EXCEPT ![r] = q],
         left' = left
  PROVE  CallsLeft'
  BY DEF IInv, TypeOK, CallsLeft

LEMMA ErrorStep ==
  ASSUME IInv, NEW r \in Run, pc[r] \in Going, NEW kinds \in {<<>>, RunEnd},
         NEW calls \in 0..MaxSteps,
         Notes(r, Failing(kinds)), Stops(r, "failed", calls)
  PROVE  /\ pc' \in [Run -> Place]
         /\ trail' \in [Run -> Seq(Seq({"registry", "run_start", "error", "run_end"}))]
         /\ TrailIsComplete'
         /\ left' \in [Run -> 0..MaxSteps] /\ saved' \in [Run -> 0..MaxSteps] /\ CallsLeft'
<1>1. "failed" \in Place \ {"new", "waiting"}
  BY DEF Place
<1>2. /\ pc' = [pc EXCEPT ![r] = "failed"]
      /\ left' \in [Run -> 0..MaxSteps] /\ saved' \in [Run -> 0..MaxSteps] /\ CallsLeft'
  BY <1>1, StopStep
<1>3. Failing(kinds) \in Seq(Actions) /\ Tells(Begun \o Failing(kinds), "failed")
  BY RecordTypes, ClosedTells
<1> QED  BY <1>1, <1>2, <1>3, NoteStep

LEMMA SavedType == ASSUME IInv, NEW r \in Run PROVE saved[r] \in 0..MaxSteps /\ left[r] \in 0..MaxSteps
  BY DEF IInv, TypeOK

-----------------------------------------------------------------------------
(* Each action keeps the invariant.                                         *)
LEMMA CardKeeps ==
  ASSUME IInv, (\E to \in LifecycleState : Transition(to)) \/ (\E c \in Cards : Register(c))
  PROVE  IInv'
<1>1. UNCHANGED <<pc, left, saved, trail, spent, model>>
  BY DEF Transition, Register
<1>2. card' \in AgentCard /\ withdrawn' \in BOOLEAN /\ AgentAgrees'
  <2>1. ASSUME NEW to \in LifecycleState, Transition(to)
        PROVE  card' \in AgentCard /\ withdrawn' \in BOOLEAN /\ AgentAgrees'
    <3>1. card.status \in ApprovalStatus /\ (withdrawn => card.status # "approved")
          /\ withdrawn \in BOOLEAN
      BY DEF IInv, TypeOK, AgentCard, AgentAgrees
    <3>2. /\ card' = [state |-> to, status |-> StatusAfter(to, card.status)]
          /\ withdrawn' = \/ to \in {"SUSPENDED", "REJECTED", "DECOMMISSIONED"}
                          \/ withdrawn /\ to # "APPROVED"
      BY <2>1 DEF Transition
    <3>3. StatusAfter(to, card.status) \in ApprovalStatus
      BY <3>1 DEF StatusAfter, ApprovalStatus
    <3>4. withdrawn' => StatusAfter(to, card.status) # "approved"
      BY <3>1, <3>2 DEF StatusAfter
    <3>5. card' \in AgentCard
      BY <3>2, <3>3 DEF AgentCard
    <3>6. card'.status = StatusAfter(to, card.status)
      BY <3>2
    <3>7. AgentAgrees'
      BY <3>4, <3>6 DEF AgentAgrees
    <3>8. withdrawn' \in BOOLEAN
      BY <3>2
    <3> QED  BY <3>5, <3>7, <3>8
  <2>2. ASSUME NEW c \in Cards, Register(c)
        PROVE  card' \in AgentCard /\ withdrawn' \in BOOLEAN /\ AgentAgrees'
    BY <2>2, GovernedAssumption DEF Register, AgentAgrees
  <2> QED  BY <2>1, <2>2
<1> QED
  BY <1>1, <1>2 DEF IInv, TypeOK, model, BreakerHonest, TrailIsComplete, Complete, Tells, CallsLeft

LEMMA StartKeeps == ASSUME IInv, NEW r \in Run, Start(r) PROVE IInv'
<1>1. /\ pc[r] \in {"new", "paused", "failed", "gone"}
      /\ UNCHANGED <<agent, left, saved, spent, model>>
  BY DEF Start, Refuse, Enter, Ready
<1>2. PICK q \in Place \ {"new", "waiting"}, t \in Seq(Actions) :
        Opens(r, t) /\ pc' = [pc EXCEPT ![r] = q] /\ Tells(t, q)
  <2>1. CASE Refuse(r)
    <3>1. PICK kinds \in {<<"registry">>, <<>>} : Opens(r, Failing(kinds))
      BY <2>1 DEF Refuse
    <3>2. Mode = "enforcing" /\ pc' = [pc EXCEPT ![r] = "failed"]
      BY <2>1 DEF Refuse, Gated
    <3>3. Failing(kinds) \in Seq(Actions) /\ Tells(Failing(kinds), "failed")
      BY <3>2, RefusedTells
    <3>4. "failed" \in Place \ {"new", "waiting"}
      BY DEF Place
    <3> QED  BY <3>1, <3>2, <3>3, <3>4
  <2>2. CASE Enter(r)
    <3>1. Opens(r, Begun) /\ pc' = [pc EXCEPT ![r] = "started"]
      BY <2>2 DEF Enter, Begun
    <3>2. "started" \in Going /\ "started" \in Place \ {"new", "waiting"}
      BY DEF Place, Going
    <3> QED  BY <3>1, <3>2, RecordTypes, BegunTells
  <2> QED  BY <2>1, <2>2 DEF Start
<1>3. /\ pc' \in [Run -> Place]
      /\ trail' \in [Run -> Seq(Seq({"registry", "run_start", "error", "run_end"}))]
      /\ TrailIsComplete'
  BY <1>1, <1>2, OpenStep
<1>4. CallsLeft'
  BY <1>1, <1>2, StayStep
<1> QED  BY <1>1, <1>3, <1>4 DEF IInv, TypeOK, agent, model, BreakerHonest, AgentAgrees

LEMMA RefuseSpendKeeps == ASSUME IInv, NEW r \in Run, RefuseSpend(r) PROVE IInv'
<1>1. /\ pc[r] \in Going /\ Notes(r, Failing(<<>>)) /\ Stops(r, "failed", saved[r])
      /\ UNCHANGED <<agent, spent, model>>
  BY DEF RefuseSpend, Error, Going
<1>2. /\ pc' \in [Run -> Place]
      /\ trail' \in [Run -> Seq(Seq({"registry", "run_start", "error", "run_end"}))]
      /\ TrailIsComplete'
      /\ left' \in [Run -> 0..MaxSteps] /\ saved' \in [Run -> 0..MaxSteps] /\ CallsLeft'
  BY <1>1, ErrorStep, SavedType
<1> QED  BY <1>1, <1>2 DEF IInv, TypeOK, agent, model, BreakerHonest, AgentAgrees

LEMMA AdmitKeeps == ASSUME IInv, NEW r \in Run, Admit(r) PROVE IInv'
<1>1. /\ pc[r] \in Going /\ pc' = [pc EXCEPT ![r] = "admitted"]
      /\ UNCHANGED <<agent, left, saved, trail, spent, model>>
  BY DEF Admit, Going
<1>2. "admitted" \in Going /\ "admitted" \in Place \ {"waiting"}
  BY DEF Going, Place
<1>3. /\ pc' \in [Run -> Place]
      /\ trail' \in [Run -> Seq(Seq({"registry", "run_start", "error", "run_end"}))]
      /\ TrailIsComplete'
  BY <1>1, <1>2, MoveStep
<1>4. CallsLeft'
  BY <1>1, <1>2, StayStep
<1> QED  BY <1>1, <1>3, <1>4 DEF IInv, TypeOK, agent, model, BreakerHonest, AgentAgrees

LEMMA GoOnKeeps == ASSUME IInv, NEW r \in Run, GoOn(r) PROVE IInv'
<1>1. pc[r] \in Going /\ UNCHANGED <<agent, spent, model>>
  BY DEF GoOn, Going
<1>2. Kept(r) \in 0..MaxSteps
  BY SavedType DEF Kept
<1>3. ASSUME NEW calls \in {saved[r], Kept(r)}, Notes(r, Failing(<<>>)), Stops(r, "failed", calls)
      PROVE  IInv'
  <2>1. calls \in 0..MaxSteps
    BY <1>2, SavedType
  <2>2. /\ pc' \in [Run -> Place]
        /\ trail' \in [Run -> Seq(Seq({"registry", "run_start", "error", "run_end"}))]
        /\ TrailIsComplete'
        /\ left' \in [Run -> 0..MaxSteps] /\ saved' \in [Run -> 0..MaxSteps] /\ CallsLeft'
    BY <1>1, <1>3, <2>1, ErrorStep
  <2> QED  BY <1>1, <2>2 DEF IInv, TypeOK, agent, model, BreakerHonest, AgentAgrees
<1>4. CASE /\ left[r] > 0 /\ pc' = [pc EXCEPT ![r] = "waiting"]
           /\ saved' = [saved EXCEPT ![r] = Kept(r)] /\ UNCHANGED <<left, trail>>
  <2>1. /\ pc' \in [Run -> Place]
        /\ trail' \in [Run -> Seq(Seq({"registry", "run_start", "error", "run_end"}))]
        /\ TrailIsComplete'
    <3>1. "waiting" \in Going  BY DEF Going
    <3> QED  BY <1>1, <1>4, <3>1, MoveStep
  <2>2. saved' \in [Run -> 0..MaxSteps]
    BY <1>2, <1>4 DEF IInv, TypeOK
  <2>3. CallsLeft'
    BY <1>4 DEF IInv, TypeOK, CallsLeft
  <2> QED  BY <1>1, <1>4, <2>1, <2>2, <2>3 DEF IInv, TypeOK, agent, model, BreakerHonest, AgentAgrees
<1> QED  BY <1>3, <1>4 DEF GoOn

LEMMA PermitKeeps == ASSUME IInv, NEW r \in Run, Permit(r) PROVE IInv'
<1>1. pc[r] \in Going /\ "calling" \in Going
  BY DEF Permit, Going
<1>2. /\ pc' \in [Run -> Place]
      /\ trail' \in [Run -> Seq(Seq({"registry", "run_start", "error", "run_end"}))]
      /\ TrailIsComplete'
  BY <1>1, MoveStep DEF Permit
<1>3. left' \in [Run -> 0..MaxSteps] /\ tokens' \in 0..Rate
  BY GovernedAssumption DEF IInv, TypeOK, CallsLeft, Permit, HasPermit
<1>4. CallsLeft'
  BY DEF IInv, TypeOK, CallsLeft, Permit
<1> QED  BY <1>2, <1>3, <1>4 DEF IInv, TypeOK, Permit, agent, BreakerHonest, AgentAgrees

LEMMA FailKeeps == ASSUME IInv, NEW r \in Run, Fail(r) PROVE IInv'
<1>1. pc[r] \in Going /\ Notes(r, Failing(<<>>)) /\ Stops(r, "failed", saved[r])
  BY DEF Fail, Error, Going
<1>2. /\ pc' \in [Run -> Place]
      /\ trail' \in [Run -> Seq(Seq({"registry", "run_start", "error", "run_end"}))]
      /\ TrailIsComplete'
      /\ left' \in [Run -> 0..MaxSteps] /\ saved' \in [Run -> 0..MaxSteps] /\ CallsLeft'
  BY <1>1, ErrorStep, SavedType
<1>3. failures' \in Nat /\ breaker' \in {"closed", "open", "half_open"} /\ BreakerHonest'
  BY GovernedAssumption DEF IInv, TypeOK, BreakerHonest, Fail, Failure
<1>4. UNCHANGED <<agent, spent, tokens>>
  BY DEF Fail
<1> QED  BY <1>2, <1>3, <1>4 DEF IInv, TypeOK, agent, AgentAgrees

LEMMA AnswerKeeps == ASSUME IInv, NEW r \in Run, Answer(r) PROVE IInv'
<1>1. PICK cost \in 0..MaxCost : Charge(KeysOf[r], cost)
  BY DEF Answer
<1>2. cost \in Nat
  BY GovernedAssumption
<1>3. spent' \in [Key -> Nat]
  BY <1>1, <1>2 DEF IInv, TypeOK, Charge
<1>4. failures' = 0 /\ breaker' = "closed"
  BY DEF Answer, Success
<1>5. BreakerHonest'
  BY <1>4, GovernedAssumption DEF BreakerHonest
<1>6. pc[r] \in Going /\ UNCHANGED <<agent, left, saved, trail, tokens>>
  BY DEF Answer, Going
<1>7. PICK q \in Going \ {"waiting"} : pc' = [pc EXCEPT ![r] = q]
  BY DEF Answer, Going
<1>8. /\ pc' \in [Run -> Place]
      /\ trail' \in [Run -> Seq(Seq({"registry", "run_start", "error", "run_end"}))]
      /\ TrailIsComplete'
  BY <1>6, <1>7, MoveStep
<1>9. CallsLeft'
  <2>1. q \in Place  BY <1>7 DEF Going, Place
  <2> QED  BY <2>1, <1>6, <1>7, StayStep
<1> QED  BY <1>3, <1>4, <1>5, <1>6, <1>8, <1>9 DEF IInv, TypeOK, agent, AgentAgrees

LEMMA PauseKeeps == ASSUME IInv, NEW r \in Run, Pause(r) PROVE IInv'
<1>1. /\ pc[r] \in Going /\ "paused" \in Going /\ "paused" \in Place \ {"waiting"}
      /\ Stops(r, "paused", left[r]) /\ UNCHANGED <<agent, trail, spent, model>>
  BY DEF Pause, Going, Place
<1>2. /\ pc' = [pc EXCEPT ![r] = "paused"]
      /\ left' \in [Run -> 0..MaxSteps] /\ saved' \in [Run -> 0..MaxSteps] /\ CallsLeft'
  BY <1>1, StopStep, SavedType
<1>3. /\ pc' \in [Run -> Place]
      /\ trail' \in [Run -> Seq(Seq({"registry", "run_start", "error", "run_end"}))]
      /\ TrailIsComplete'
  BY <1>1, <1>2, MoveStep
<1> QED  BY <1>1, <1>2, <1>3 DEF IInv, TypeOK, agent, model, BreakerHonest, AgentAgrees

LEMMA CloseKeeps == ASSUME IInv, NEW r \in Run, Close(r) PROVE IInv'
<1>1. pc[r] \in Going /\ UNCHANGED <<agent, spent, model>>
  BY DEF Close, Going
<1>2. /\ pc' \in [Run -> Place]
      /\ trail' \in [Run -> Seq(Seq({"registry", "run_start", "error", "run_end"}))]
      /\ TrailIsComplete'
      /\ left' \in [Run -> 0..MaxSteps] /\ saved' \in [Run -> 0..MaxSteps] /\ CallsLeft'
  <2>1. CASE \E kinds \in {<<>>, RunEnd} : Error(r, kinds)
    <3>1. PICK kinds \in {<<>>, RunEnd} : Error(r, kinds)
      BY <2>1
    <3>2. Notes(r, Failing(kinds)) /\ Stops(r, "failed", saved[r])
      BY <3>1 DEF Error
    <3> QED  BY <1>1, <3>2, ErrorStep, SavedType
  <2>2. CASE Notes(r, RunEnd) /\ Stops(r, "ended", saved[r])
    <3>1. "ended" \in Place \ {"new", "waiting"}
      BY DEF Place
    <3>2. /\ pc' = [pc EXCEPT ![r] = "ended"]
          /\ left' \in [Run -> 0..MaxSteps] /\ saved' \in [Run -> 0..MaxSteps] /\ CallsLeft'
      BY <2>2, <3>1, StopStep, SavedType
    <3>3. /\ pc' \in [Run -> Place]
          /\ trail' \in [Run -> Seq(Seq({"registry", "run_start", "error", "run_end"}))]
          /\ TrailIsComplete'
      BY <1>1, <2>2, <3>1, <3>2, RecordTypes, ClosedTells, NoteStep
    <3> QED  BY <3>2, <3>3
  <2> QED  BY <2>1, <2>2 DEF Close
<1> QED  BY <1>1, <1>2 DEF IInv, TypeOK, agent, model, BreakerHonest, AgentAgrees

LEMMA DisconnectKeeps == ASSUME IInv, NEW r \in Run, Disconnect(r) PROVE IInv'
<1>1. /\ pc[r] \in Going /\ "gone" \in Place \ {"waiting"}
      /\ Stops(r, "gone", saved[r]) /\ UNCHANGED <<agent, trail, spent, model>>
  BY DEF Disconnect, InFlight, Admitted, Going, Place
<1>2. /\ pc' = [pc EXCEPT ![r] = "gone"]
      /\ left' \in [Run -> 0..MaxSteps] /\ saved' \in [Run -> 0..MaxSteps] /\ CallsLeft'
  BY <1>1, StopStep, SavedType
<1>3. /\ pc' \in [Run -> Place]
      /\ trail' \in [Run -> Seq(Seq({"registry", "run_start", "error", "run_end"}))]
      /\ TrailIsComplete'
  BY <1>1, <1>2, MoveStep
<1> QED  BY <1>1, <1>2, <1>3 DEF IInv, TypeOK, agent, model, BreakerHonest, AgentAgrees

LEMMA ClockKeeps ==
  ASSUME IInv, Cooldown \/ Accrue \/ \E k \in Key : WindowRolls(k)
  PROVE  IInv'
<1>1. UNCHANGED <<agent, pc, left, saved, trail, failures>>
  BY DEF Cooldown, Accrue, WindowRolls, model
<1>2. tokens' \in 0..Rate
  BY GovernedAssumption DEF IInv, TypeOK, Cooldown, Accrue, Accrues, WindowRolls, model
<1>3. spent' \in [Key -> Nat]
  BY DEF IInv, TypeOK, Cooldown, Accrue, WindowRolls
<1>4. breaker' \in {"closed", "open", "half_open"} /\ BreakerHonest'
  BY DEF IInv, TypeOK, BreakerHonest, Cooldown, Accrue, WindowRolls, model
<1>5. TrailIsComplete'
  BY <1>1 DEF IInv, TrailIsComplete, Complete, Tells
<1> QED
  BY <1>1, <1>2, <1>3, <1>4, <1>5 DEF IInv, TypeOK, agent, AgentAgrees, CallsLeft

\* The records of a run that was in flight in a process that died tell of one cut off.
LEMMA CrashComplete ==
  ASSUME IInv, Crash, NEW r \in Run
  PROVE  trail'[r] \in Seq(Seq(Actions)) /\ Complete(trail'[r], pc'[r])
<1>1. /\ pc' = [u \in Run |-> IF u \in InFlight THEN "gone" ELSE pc[u]]
      /\ pc'[r] = IF r \in InFlight THEN "gone" ELSE pc[r]
      /\ pc[r] \in Place /\ trail[r] \in Seq(Seq(Actions)) /\ trail \in [Run -> Seq(Seq(Actions))]
      /\ Complete(trail[r], pc[r])
  BY DEF Crash, IInv, TypeOK, TrailIsComplete, Actions
<1>2. "gone" \in Place \ {"new"} /\ (r \in InFlight => pc[r] \in Going /\ pc[r] \in Place \ {"new"})
  BY <1>1 DEF InFlight, Admitted, Going, Place
<1>3. CASE trail'[r] = trail[r] /\ r \notin InFlight
  BY <1>1, <1>3
<1>4. CASE trail'[r] = trail[r] /\ r \in InFlight
  <2>1. trail[r][Len(trail[r])] = Begun
    BY <1>2, <1>4, LastTells
  <2>2. Tells(trail[r][Len(trail[r])], "gone")
    BY <2>1, BegunTells
  <2> QED  BY <1>1, <1>2, <1>4, <2>2, SameComplete
<1>5. CASE pc[r] = "closing" /\ Notes(r, RunEnd)
  <2> DEFINE e == trail[r][Len(trail[r])] \o RunEnd
             s == [trail[r] EXCEPT ![Len(trail[r])] = e]
  <2>1. r \in InFlight
    BY <1>5 DEF InFlight
  <2>2. trail[r][Len(trail[r])] = Begun
    BY <1>2, <2>1, LastTells
  <2>3. e = Begun \o RunEnd /\ e \in Seq(Actions)
    BY <2>2, RecordTypes
  <2>4. Tells(e, "gone")
    BY <2>3, ClosedTells
  <2>5. trail' = [trail EXCEPT ![r] = s]
    BY <1>1, <1>5 DEF Notes
  <2> HIDE DEF e
  <2>6. s \in Seq(Seq(Actions)) /\ Complete(s, "gone")
    BY <1>1, <1>2, <2>1, <2>3, <2>4, LastComplete
  <2> HIDE DEF s
  <2> QED  BY <1>1, <2>1, <2>5, <2>6
<1>6. trail' = trail \/ \E c \in Run : pc[c] = "closing" /\ Notes(c, RunEnd)
  BY DEF Crash
<1>7. \A c \in Run \ {r} : Notes(c, RunEnd) => trail'[r] = trail[r]
  BY <1>1 DEF Notes
<1> QED  BY <1>3, <1>4, <1>5, <1>6, <1>7

LEMMA CrashKeeps == ASSUME IInv, Crash PROVE IInv'
<1>1. /\ UNCHANGED <<agent, saved>> /\ failures' = 0 /\ breaker' = "closed" /\ tokens' = Rate
      /\ pc' = [r \in Run |-> IF r \in InFlight THEN "gone" ELSE pc[r]] /\ left' = saved
  BY DEF Crash
<1>2. spent' \in [Key -> Nat]
  <2>1. CASE UNCHANGED spent
    BY <2>1 DEF IInv, TypeOK
  <2>2. CASE \E cost \in 1..MaxCost, keys \in SUBSET Key : Charge(keys, cost)
    BY <2>2, GovernedAssumption DEF IInv, TypeOK, Charge
  <2>3. \A r \in Run : SUBSET KeysOf[r] \subseteq SUBSET Key
    BY GovernedAssumption
  <2> QED  BY <2>1, <2>2, <2>3 DEF Crash
<1>3. pc' \in [Run -> Place] /\ left' \in [Run -> 0..MaxSteps]
  BY <1>1 DEF IInv, TypeOK, Place
<1>4. \A r \in Run : trail'[r] \in Seq(Seq(Actions)) /\ Complete(trail'[r], pc'[r])
  BY CrashComplete
<1>5. trail' \in [Run -> Seq(Seq(Actions))]
  <2>1. trail' = trail \/ \E c \in Run : Notes(c, RunEnd)
    BY DEF Crash
  <2>2. trail' = [u \in Run |-> trail'[u]]
    BY <2>1 DEF Notes, IInv, TypeOK
  <2> QED  BY <1>4, <2>2
<1>6. TrailIsComplete'
  BY <1>4 DEF TrailIsComplete, Complete, Tells
<1>7. CallsLeft'
  BY <1>1 DEF CallsLeft, InFlight, Admitted
<1>8. BreakerHonest' /\ tokens' \in 0..Rate
  BY <1>1, GovernedAssumption DEF BreakerHonest
<1> QED
  BY <1>1, <1>2, <1>3, <1>5, <1>6, <1>7, <1>8 DEF IInv, TypeOK, agent, AgentAgrees, Actions

LEMMA StutterKeeps == ASSUME IInv, UNCHANGED vars PROVE IInv'
  BY DEF IInv, TypeOK, vars, AgentAgrees, BreakerHonest, TrailIsComplete, Complete, Tells, CallsLeft

-----------------------------------------------------------------------------
LEMMA InitHolds == Init => IInv
<1> SUFFICES ASSUME Init PROVE IInv
  OBVIOUS
<1>1. TypeOK
  <2>1. card \in AgentCard /\ withdrawn \in BOOLEAN
    BY GovernedAssumption DEF Init
  <2>2. pc \in [Run -> Place]
    BY DEF Init, Place
  <2>3. MaxSteps \in 0..MaxSteps /\ left \in [Run -> 0..MaxSteps] /\ saved \in [Run -> 0..MaxSteps]
    BY GovernedAssumption DEF Init
  <2>4. trail \in [Run -> Seq(Seq({"registry", "run_start", "error", "run_end"}))]
    BY DEF Init
  <2>5. /\ spent \in [Key -> Nat] /\ failures \in Nat /\ breaker \in {"closed", "open", "half_open"}
        /\ tokens \in 0..Rate
    BY GovernedAssumption DEF Init
  <2> QED  BY <2>1, <2>2, <2>3, <2>4, <2>5 DEF TypeOK
<1>2. TrailIsComplete
  BY DEF Init, TrailIsComplete, Complete
<1>3. AgentAgrees /\ BreakerHonest /\ CallsLeft
  BY GovernedAssumption DEF Init, AgentAgrees, BreakerHonest, CallsLeft
<1> QED  BY <1>1, <1>2, <1>3 DEF IInv

LEMMA NextKeeps == IInv /\ [Next]_vars => IInv'
<1> SUFFICES ASSUME IInv, [Next]_vars PROVE IInv'
  OBVIOUS
<1>1. CASE (\E to \in LifecycleState : Transition(to)) \/ (\E c \in Cards : Register(c))
  BY <1>1, CardKeeps
<1>2. ASSUME NEW r \in Run, Start(r) PROVE IInv'
  BY <1>2, StartKeeps
<1>3. ASSUME NEW r \in Run, Drive(r) PROVE IInv'
  <2>1. CASE RefuseSpend(r)  BY <2>1, RefuseSpendKeeps
  <2>2. CASE Admit(r)  BY <2>2, AdmitKeeps
  <2>3. CASE GoOn(r)  BY <2>3, GoOnKeeps
  <2>4. CASE Permit(r)  BY <2>4, PermitKeeps
  <2>5. CASE Fail(r)  BY <2>5, FailKeeps
  <2>6. CASE Answer(r)  BY <2>6, AnswerKeeps
  <2>7. CASE Pause(r)  BY <2>7, PauseKeeps
  <2>8. CASE Close(r)  BY <2>8, CloseKeeps
  <2> QED  BY <1>3, <2>1, <2>2, <2>3, <2>4, <2>5, <2>6, <2>7, <2>8 DEF Drive
<1>4. ASSUME NEW r \in Run, Disconnect(r) PROVE IInv'
  BY <1>4, DisconnectKeeps
<1>5. CASE Cooldown \/ Accrue \/ \E k \in Key : WindowRolls(k)
  BY <1>5, ClockKeeps
<1>6. CASE Crash
  BY <1>6, CrashKeeps
<1>7. CASE UNCHANGED vars
  BY <1>7, StutterKeeps
<1> QED  BY <1>1, <1>2, <1>3, <1>4, <1>5, <1>6, <1>7 DEF Next

LEMMA Invariant == Spec => []IInv
  BY InitHolds, NextKeeps, PTL DEF Spec

-----------------------------------------------------------------------------
(* The limiter never hands out more permits than it holds, no invocation of *)
(* a run calls its model more than max_steps times, and every variable      *)
(* keeps its type (RateLimiter.acquire and the step loop of the runner).    *)
THEOREM TypeCorrect == Spec => []TypeOK
<1>1. IInv => TypeOK
  BY DEF IInv
<1> QED  BY <1>1, Invariant, PTL

(* However the calls in flight come back, the breaker is closed exactly     *)
(* while fewer than Threshold failures in a row are on record               *)
(* (CircuitBreaker.record_failure and record_success).                      *)
THEOREM BreakerIsHonest == Spec => []BreakerHonest
<1>1. IInv => BreakerHonest
  BY DEF IInv
<1> QED  BY <1>1, Invariant, PTL

(* In enforcing mode no run starts and none goes on for an agent that was   *)
(* suspended, rejected or decommissioned, on whatever path of transitions   *)
(* and registrations, until a transition or a registration approves it      *)
(* (LifecycleManager.transition, AgentRegistry.register, check_registered). *)
THEOREM GateHolds == Spec => WithdrawnStaysOut
<1> DEFINE A == \A r \in Run : Mode = "enforcing" /\ pc[r] # "started" /\ pc'[r] = "started"
                               => ~withdrawn
<1>1. IInv /\ [Next]_vars => [A]_vars
  <2> SUFFICES ASSUME IInv, Next, NEW r \in Run, Mode = "enforcing",
                      pc[r] # "started", pc'[r] = "started", withdrawn
               PROVE  FALSE
    OBVIOUS
  <2>1. ~Gated
    BY DEF IInv, AgentAgrees, Gated, Approved
  <2>2. pc \in [Run -> Place]
    BY DEF IInv, TypeOK
  <2>3. ASSUME NEW s \in Run, Start(s) PROVE FALSE
    BY <2>1, <2>2, <2>3 DEF Start, Refuse, Enter
  <2>4. ASSUME NEW s \in Run, Drive(s) \/ Disconnect(s) PROVE FALSE
    BY <2>2, <2>4 DEF Drive, Disconnect, RefuseSpend, Admit, GoOn, Permit, Fail, Answer, Pause,
                      Close, Error, Stops
  <2>5. ~Crash
    BY DEF Crash
  <2>6. ASSUME NEW to \in LifecycleState, Transition(to) PROVE FALSE
    BY <2>6 DEF Transition
  <2>7. ASSUME NEW c \in Cards, Register(c) PROVE FALSE
    BY <2>7 DEF Register
  <2>8. ~(Cooldown \/ Accrue \/ (\E k \in Key : WindowRolls(k)))
    BY DEF Cooldown, Accrue, WindowRolls
  <2> QED  BY <2>3, <2>4, <2>5, <2>6, <2>7, <2>8 DEF Next
<1> QED  BY <1>1, Invariant, PTL DEF Spec, WithdrawnStaysOut

(* However often a run is invoked, refused, paused, cut off or fails, the   *)
(* records of each invocation tell its outcome, in any mode of governance   *)
(* (record_run_start, record_run_end and the handler of run_stream).        *)
THEOREM TrailTells == Spec => []TrailIsComplete
<1>1. IInv => TrailIsComplete
  BY DEF IInv
<1> QED  BY <1>1, Invariant, PTL

-----------------------------------------------------------------------------
(* The budgets.  A key may still be charged for the calls ahead of it: as   *)
(* many as the runs in flight have left, and the one each of them waits     *)
(* for.  A step that charges a call takes that call out of the set, so that *)
(* spent plus MaxCost for each call ahead never grows but when a run is let *)
(* in; and then the key is below its limit and at most Slots runs of        *)
(* MaxSteps calls are in flight.                                            *)
AtMostSlots == IsFiniteSet(InFlight) /\ Cardinality(InFlight) <= Slots
\* The call a run waits for has been taken off what it has left.
CallTaken == \A r \in Run : pc[r] = "calling" => left[r] < MaxSteps

SpendInv == IInv /\ AtMostSlots /\ CallTaken /\ SpendBounded

LEMMA Products ==
  ASSUME NEW m \in Nat, NEW a \in Nat, NEW b \in Nat, a <= b
  PROVE  m * a \in Nat /\ m * b \in Nat /\ m * a <= m * b
<1>1. b - a \in Nat /\ m * (b - a) \in Nat /\ m * a \in Nat
  OBVIOUS
<1>2. m * b = m * a + m * (b - a)
  OBVIOUS
<1> QED  BY <1>1, <1>2

\* One call costs MaxCost.
LEMMA OneCall ==
  ASSUME NEW m \in Nat, NEW a \in Nat, NEW b \in Nat, a + 1 <= b
  PROVE  m * a \in Nat /\ m * b \in Nat /\ m * a + m <= m * b
<1>1. a + 1 \in Nat /\ m * (a + 1) <= m * b /\ m * b \in Nat
  BY Products
<1>2. m * (a + 1) = m * a + m /\ m * a \in Nat
  OBVIOUS
<1> QED  BY <1>1, <1>2

LEMMA PendingType ==
  ASSUME IInv, CallTaken, NEW r \in Run
  PROVE  Pending(r) \in 0..MaxSteps
<1>1. left[r] \in 0..MaxSteps /\ MaxSteps \in Nat
  BY GovernedAssumption DEF IInv, TypeOK
<1> QED  BY <1>1 DEF CallTaken, Pending

LEMMA PendingTypeNext ==
  ASSUME IInv', CallTaken', NEW r \in Run
  PROVE  Pending(r)' \in 0..MaxSteps
<1>1. left'[r] \in 0..MaxSteps /\ MaxSteps \in Nat
  BY GovernedAssumption DEF IInv, TypeOK
<1> QED  BY <1>1 DEF CallTaken, Pending

\* What is ahead of a key, call by call.
LEMMA CallsIn ==
  ASSUME NEW k \in Key
  PROVE  /\ \A x : x \in CallsAhead(k) <=>
              \E r \in Admitted : k \in KeysOf[r] /\ \E i \in 1..Pending(r) : x = <<r, i>>
         /\ \A x : x \in CallsAhead(k)' <=>
              \E r \in Admitted' : k \in KeysOf[r] /\ \E i \in 1..Pending(r)' : x = <<r, i>>
<1>1. ASSUME NEW x
      PROVE  x \in CallsAhead(k) <=>
              \E r \in Admitted : k \in KeysOf[r] /\ \E i \in 1..Pending(r) : x = <<r, i>>
  <2>1. x \in CallsAhead(k) <=> \E r \in Ahead(k) : x \in {r} \X (1..Pending(r))
    BY Zenon DEF CallsAhead
  <2>2. \A r : x \in {r} \X (1..Pending(r)) <=> \E i \in 1..Pending(r) : x = <<r, i>>
    OBVIOUS
  <2>3. \A r : r \in Ahead(k) <=> r \in Admitted /\ k \in KeysOf[r]
    BY DEF Ahead
  <2> QED  BY <2>1, <2>2, <2>3, Zenon
<1>2. ASSUME NEW x
      PROVE  x \in CallsAhead(k)' <=>
              \E r \in Admitted' : k \in KeysOf[r] /\ \E i \in 1..Pending(r)' : x = <<r, i>>
  <2>1. x \in CallsAhead(k)' <=> \E r \in Ahead(k)' : x \in {r} \X (1..Pending(r)')
    BY Zenon DEF CallsAhead
  <2>2. \A r : x \in {r} \X (1..Pending(r)') <=> \E i \in 1..Pending(r)' : x = <<r, i>>
    OBVIOUS
  <2>3. \A r : r \in Ahead(k)' <=> r \in Admitted' /\ k \in KeysOf[r]
    BY DEF Ahead
  <2> QED  BY <2>1, <2>2, <2>3, Zenon
<1> QED  BY <1>1, <1>2

\* The runs that may still be charged are among those in flight.
LEMMA FewAdmitted ==
  /\ AtMostSlots => IsFiniteSet(Admitted) /\ Cardinality(Admitted) <= Slots
  /\ AtMostSlots' => IsFiniteSet(Admitted') /\ Cardinality(Admitted') <= Slots
<1>1. Slots \in Nat
  BY GovernedAssumption
<1>2. ASSUME NEW I, NEW A \in SUBSET I, IsFiniteSet(I), Cardinality(I) <= Slots
      PROVE  IsFiniteSet(A) /\ Cardinality(A) <= Slots
  <2>1. IsFiniteSet(A) /\ Cardinality(A) <= Cardinality(I)
    BY <1>2, FS_Subset
  <2>2. Cardinality(A) \in Nat /\ Cardinality(I) \in Nat
    BY <1>2, <2>1, FS_CardinalityType
  <2> QED  BY <1>1, <1>2, <2>1, <2>2
<1>3. Admitted \in SUBSET InFlight /\ Admitted' \in SUBSET InFlight'
  BY DEF InFlight
<1> QED  BY <1>2, <1>3 DEF AtMostSlots

\* A set of calls of at most Slots runs.
LEMMA CountCalls ==
  ASSUME NEW I, IsFiniteSet(I), Cardinality(I) <= Slots,
         NEW C \in SUBSET (I \X (1..MaxSteps))
  PROVE  /\ IsFiniteSet(C) /\ Cardinality(C) \in Nat
         /\ Cardinality(C) <= MaxSteps * Slots
<1>0. MaxSteps \in Nat /\ Slots \in Nat /\ MaxSteps > 0
  BY GovernedAssumption
<1>1. IsFiniteSet(1..MaxSteps) /\ Cardinality(1..MaxSteps) = MaxSteps
  BY <1>0, FS_Interval
<1>2. Cardinality(I) \in Nat
  BY FS_CardinalityType
<1>3. /\ IsFiniteSet(I \X (1..MaxSteps))
      /\ Cardinality(I \X (1..MaxSteps)) = Cardinality(I) * MaxSteps
  BY <1>1, FS_Product
<1>4. IsFiniteSet(C) /\ Cardinality(C) <= Cardinality(I) * MaxSteps
  BY <1>3, FS_Subset
<1>5. Cardinality(C) \in Nat
  BY <1>4, FS_CardinalityType
<1>6. MaxSteps * Cardinality(I) <= MaxSteps * Slots /\ MaxSteps * Slots \in Nat
  BY <1>0, <1>2, Products
<1>7. Cardinality(I) * MaxSteps = MaxSteps * Cardinality(I) /\ MaxSteps * Cardinality(I) \in Nat
  BY <1>0, <1>2
<1> QED  BY <1>4, <1>5, <1>6, <1>7

LEMMA FewCalls ==
  ASSUME IInv, AtMostSlots, CallTaken, NEW k \in Key
  PROVE  /\ IsFiniteSet(CallsAhead(k)) /\ Cardinality(CallsAhead(k)) \in Nat
         /\ Cardinality(CallsAhead(k)) <= MaxSteps * Slots
<1>1. \A r \in Admitted : 1..Pending(r) \subseteq 1..MaxSteps
  BY PendingType, GovernedAssumption DEF Admitted
<1>2. ASSUME NEW x \in CallsAhead(k) PROVE x \in Admitted \X (1..MaxSteps)
  <2>0. x \in CallsAhead(k) <=>
          \E r \in Admitted : k \in KeysOf[r] /\ \E i \in 1..Pending(r) : x = <<r, i>>
    BY CallsIn
  <2>1. PICK r \in Admitted : \E i \in 1..Pending(r) : x = <<r, i>>
    BY <1>2, <2>0, Zenon
  <2>2. PICK i \in 1..Pending(r) : x = <<r, i>>
    BY <2>1, Zenon
  <2>3. i \in 1..MaxSteps
    BY <1>1, Zenon
  <2> QED  BY <2>2, <2>3, Zenon
<1>3. CallsAhead(k) \in SUBSET (Admitted \X (1..MaxSteps))
  BY <1>2, Zenon
<1> QED  BY <1>3, CountCalls, FewAdmitted

LEMMA FewCallsNext ==
  ASSUME IInv', AtMostSlots', CallTaken', NEW k \in Key
  PROVE  /\ IsFiniteSet(CallsAhead(k)') /\ Cardinality(CallsAhead(k)') \in Nat
         /\ Cardinality(CallsAhead(k)') <= MaxSteps * Slots
<1>1. \A r \in Admitted' : 1..Pending(r)' \subseteq 1..MaxSteps
  BY PendingTypeNext, GovernedAssumption DEF Admitted
<1>2. ASSUME NEW x \in CallsAhead(k)' PROVE x \in Admitted' \X (1..MaxSteps)
  <2>0. x \in CallsAhead(k)' <=>
          \E r \in Admitted' : k \in KeysOf[r] /\ \E i \in 1..Pending(r)' : x = <<r, i>>
    BY CallsIn
  <2>1. PICK r \in Admitted' : \E i \in 1..Pending(r)' : x = <<r, i>>
    BY <1>2, <2>0, Zenon
  <2>2. PICK i \in 1..Pending(r)' : x = <<r, i>>
    BY <2>1, Zenon
  <2>3. i \in 1..MaxSteps
    BY <1>1, Zenon
  <2> QED  BY <2>2, <2>3, Zenon
<1>3. CallsAhead(k)' \in SUBSET (Admitted' \X (1..MaxSteps))
  BY <1>2, Zenon
<1> QED  BY <1>3, CountCalls, FewAdmitted

\* A run in flight moves on or leaves: no call is added, and one it was to make
\* may be taken out.
LEMMA CallsShrink ==
  ASSUME IInv, CallTaken, IInv', CallTaken', NEW k \in Key,
         Admitted' \subseteq Admitted,
         \A s \in Admitted' : Pending(s)' <= Pending(s)
  PROVE  /\ CallsAhead(k)' \subseteq CallsAhead(k)
         /\ \A r \in Admitted :
              k \in KeysOf[r] /\ Pending(r) > 0 /\ (r \in Admitted' => Pending(r)' < Pending(r))
              => /\ <<r, Pending(r)>> \in CallsAhead(k)
                 /\ CallsAhead(k)' \subseteq CallsAhead(k) \ {<<r, Pending(r)>>}
<1>1. /\ \A s \in Admitted : Pending(s) \in Nat
      /\ \A s \in Admitted' : Pending(s)' \in Nat
  BY PendingType, PendingTypeNext, GovernedAssumption DEF Admitted
<1>2. \A s \in Admitted' : 1..Pending(s)' \subseteq 1..Pending(s)
  BY <1>1
<1>3. CallsAhead(k)' \subseteq CallsAhead(k)
  BY <1>2, CallsIn, Zenon
<1>4. ASSUME NEW r \in Admitted, k \in KeysOf[r], Pending(r) > 0,
             r \in Admitted' => Pending(r)' < Pending(r)
      PROVE  /\ <<r, Pending(r)>> \in CallsAhead(k)
             /\ CallsAhead(k)' \subseteq CallsAhead(k) \ {<<r, Pending(r)>>}
  <2>1. Pending(r) \in 1..Pending(r)
    BY <1>1, <1>4
  <2>2. <<r, Pending(r)>> \in CallsAhead(k)
    BY <2>1, <1>4, CallsIn, Zenon
  <2>3. ASSUME <<r, Pending(r)>> \in CallsAhead(k)' PROVE FALSE
    <3>1. PICK s \in Admitted' : \E i \in 1..Pending(s)' : <<r, Pending(r)>> = <<s, i>>
      BY <2>3, CallsIn, Zenon
    <3>2. s = r /\ Pending(r) \in 1..Pending(r)'
      BY <3>1
    <3> QED  BY <3>1, <3>2, <1>1, <1>4
  <2> QED  BY <1>3, <2>2, <2>3
<1> QED  BY <1>3, <1>4

LEMMA SlotsKept ==
  ASSUME AtMostSlots, InFlight' \subseteq InFlight
  PROVE  AtMostSlots'
<1>1. IsFiniteSet(InFlight') /\ Cardinality(InFlight') <= Cardinality(InFlight)
  BY FS_Subset DEF AtMostSlots
<1>2. Cardinality(InFlight) \in Nat /\ Cardinality(InFlight') \in Nat
  BY <1>1, FS_CardinalityType DEF AtMostSlots
<1> QED  BY <1>1, <1>2, GovernedAssumption DEF AtMostSlots

\* Every step but the one that admits a run: what a key is charged is a call that is
\* not ahead of it any more.
LEMMA Charged ==
  ASSUME SpendInv, IInv', AtMostSlots', CallTaken', Admitted' \subseteq Admitted,
         \A s \in Admitted' : Pending(s)' <= Pending(s),
         \A k \in Key :
           \/ spent'[k] <= spent[k]
           \/ /\ spent'[k] <= spent[k] + MaxCost
              /\ \E r \in Admitted : /\ k \in KeysOf[r] /\ Pending(r) > 0
                                     /\ r \in Admitted' => Pending(r)' < Pending(r)
  PROVE  SpendInv'
<1>1. AtMostSlots'
  OBVIOUS
<1>2. ASSUME NEW k \in Key
      PROVE  spent'[k] + MaxCost * Cardinality(CallsAhead(k)')
               <= Limit[k] - 1 + MaxCost * MaxSteps * Slots
  <2> DEFINE c == Cardinality(CallsAhead(k))
             d == Cardinality(CallsAhead(k)')
             B == Limit[k] - 1 + MaxCost * MaxSteps * Slots
  <2>1. IsFiniteSet(CallsAhead(k)) /\ c \in Nat /\ d \in Nat
    BY <1>1, FewCalls, FewCallsNext DEF SpendInv
  <2>2. spent[k] + MaxCost * c <= B
    BY DEF SpendInv, SpendBounded
  <2>3. /\ spent[k] \in Nat /\ spent'[k] \in Nat /\ MaxCost \in Nat /\ B \in Int
    <3>1. spent[k] \in Nat /\ spent'[k] \in Nat  BY DEF SpendInv, IInv, TypeOK
    <3>2. Limit[k] \in Nat /\ MaxCost \in Nat /\ MaxSteps \in Nat /\ Slots \in Nat
      BY GovernedAssumption
    <3>3. MaxCost * MaxSteps \in Nat /\ (MaxCost * MaxSteps) * Slots \in Nat
      BY <3>2
    <3> QED  BY <3>1, <3>2, <3>3
  <2>4. CallsAhead(k)' \subseteq CallsAhead(k)
    BY CallsShrink DEF SpendInv
  <2>5. CASE spent'[k] <= spent[k]
    <3>1. d <= c
      BY <2>1, <2>4, FS_Subset
    <3>2. MaxCost * d \in Nat /\ MaxCost * c \in Nat /\ MaxCost * d <= MaxCost * c
      BY <3>1, <2>1, <2>3, Products
    <3> HIDE DEF c, d, B
    <3>3. spent'[k] + MaxCost * d <= B
      BY <3>2, <2>2, <2>3, <2>5
    <3> QED  BY <3>3 DEF d, B
  <2>6. ASSUME NEW r \in Admitted, k \in KeysOf[r], Pending(r) > 0,
               r \in Admitted' => Pending(r)' < Pending(r),
               spent'[k] <= spent[k] + MaxCost
        PROVE  spent'[k] + MaxCost * d <= B
    <3> DEFINE x == <<r, Pending(r)>>
    <3>1. x \in CallsAhead(k) /\ CallsAhead(k)' \subseteq CallsAhead(k) \ {x}
      BY <2>6, CallsShrink DEF SpendInv
    <3> HIDE DEF x
    <3>2. IsFiniteSet(CallsAhead(k) \ {x}) /\ Cardinality(CallsAhead(k) \ {x}) = c - 1
      BY <3>1, <2>1, FS_RemoveElement
    <3>3. d <= c - 1
      BY <3>1, <3>2, FS_Subset
    <3> HIDE DEF c, d, B
    <3>4. d + 1 <= c
      BY <3>3, <2>1
    <3>5. MaxCost * d \in Nat /\ MaxCost * c \in Nat /\ MaxCost * d + MaxCost <= MaxCost * c
      BY <3>4, <2>1, <2>3, OneCall
    <3> QED  BY <3>5, <2>2, <2>3, <2>6
  <2> QED  BY <2>5, <2>6
<1> QED  BY <1>1, <1>2 DEF SpendInv, SpendBounded

\* A charge of at most MaxCost to some keys.
LEMMA ChargeFacts ==
  ASSUME IInv, NEW keys, NEW cost \in 0..MaxCost, Charge(keys, cost)
  PROVE  /\ \A k \in Key : spent'[k] <= spent[k] + MaxCost
         /\ \A k \in Key \ keys : spent'[k] = spent[k]
<1>1. \A k \in Key : spent'[k] = IF k \in keys THEN spent[k] + cost ELSE spent[k]
  BY DEF Charge
<1>2. MaxCost \in Nat /\ cost \in Nat /\ cost <= MaxCost /\ \A k \in Key : spent[k] \in Nat
  BY GovernedAssumption DEF IInv, TypeOK
<1> QED  BY <1>1, <1>2

-----------------------------------------------------------------------------
\* A step of one run, or of none: what it may do to the calls ahead.
Placed == {"admitted", "waiting", "calling", "tools"}
Moves(r) ==
  /\ \A s \in Run \ {r} : pc'[s] = pc[s] /\ left'[s] = left[s]
  /\ \/ pc'[r] \notin Placed
     \/ pc[r] \in Placed /\ pc'[r] # "calling" /\ left'[r] = left[r]
     \/ pc[r] = "waiting" /\ pc'[r] = "calling" /\ left'[r] = left[r] - 1

LEMMA OneMoves ==
  ASSUME SpendInv, IInv', AtMostSlots', NEW r \in Run, Moves(r),
         \/ \A k \in Key : spent'[k] <= spent[k]
         \/ /\ pc[r] = "calling" /\ pc'[r] # "calling"
            /\ \A k \in KeysOf[r] : spent'[k] <= spent[k] + MaxCost
            /\ \A k \in Key \ KeysOf[r] : spent'[k] <= spent[k]
  PROVE  SpendInv'
<1>1. left \in [Run -> 0..MaxSteps] /\ MaxSteps \in Nat
  BY GovernedAssumption DEF SpendInv, IInv, TypeOK
<1>2. Admitted' \subseteq Admitted
  BY DEF Admitted, Moves, Placed
<1>3. CallTaken'
  <2>1. \A s \in Run \ {r} : pc'[s] = "calling" => left'[s] < MaxSteps
    BY DEF Moves, CallTaken, SpendInv
  <2>2. pc'[r] = "calling" => left'[r] < MaxSteps
    BY <1>1 DEF Moves, Placed
  <2> QED  BY <2>1, <2>2 DEF CallTaken
<1>4. \A s \in Run : Pending(s) \in Nat
  BY PendingType, GovernedAssumption DEF SpendInv
<1>5. \A s \in Admitted' \ {r} : Pending(s)' <= Pending(s)
  <2>1. \A s \in Admitted' \ {r} : s \in Run /\ Pending(s)' = Pending(s)
    BY DEF Moves, Pending, Admitted
  <2> QED  BY <1>4, <2>1
<1>6. r \in Admitted' => Pending(r)' <= Pending(r)
  BY <1>1 DEF Moves, Pending, Admitted, Placed
<1>7. pc[r] = "calling" => r \in Admitted /\ Pending(r) > 0
  BY <1>1 DEF Pending, Admitted
<1>8. pc[r] = "calling" /\ pc'[r] # "calling" /\ r \in Admitted' => Pending(r)' < Pending(r)
  BY <1>1 DEF Moves, Pending, Admitted, Placed
<1>9. ASSUME NEW k \in Key
      PROVE  \/ spent'[k] <= spent[k]
             \/ /\ spent'[k] <= spent[k] + MaxCost
                /\ \E s \in Admitted : /\ k \in KeysOf[s] /\ Pending(s) > 0
                                       /\ s \in Admitted' => Pending(s)' < Pending(s)
  <2>1. CASE spent'[k] <= spent[k]
    BY <2>1
  <2>2. CASE /\ pc[r] = "calling" /\ pc'[r] # "calling" /\ k \in KeysOf[r]
             /\ spent'[k] <= spent[k] + MaxCost
    BY <1>7, <1>8, <2>2
  <2> QED  BY <2>1, <2>2
<1> QED  BY <1>2, <1>3, <1>5, <1>6, <1>9, Charged

\* Nothing moves and nothing is charged.
LEMMA NoMove ==
  ASSUME SpendInv, IInv', pc' = pc, left' = left,
         \A k \in Key : spent'[k] <= spent[k]
  PROVE  SpendInv'
<1>1. InFlight' = InFlight /\ Admitted' = Admitted /\ \A s \in Admitted : Pending(s)' = Pending(s)
  BY DEF InFlight, Admitted, Pending
<1>2. \A s \in Admitted : Pending(s) \in Nat
  BY PendingType, GovernedAssumption DEF SpendInv, Admitted
<1>3. CallTaken' /\ AtMostSlots'
  BY <1>1 DEF SpendInv, CallTaken, AtMostSlots
<1>4. \A s \in Admitted' : Pending(s)' <= Pending(s)
  BY <1>1, <1>2
<1> QED  BY <1>1, <1>3, <1>4, Charged

\* A run is admitted while its keys are below their limits.
LEMMA AdmitSpends == ASSUME SpendInv, IInv', NEW r \in Run, Admit(r) PROVE SpendInv'
<1>1. /\ pc \in [Run -> Place] /\ pc[r] = "started" /\ pc' = [pc EXCEPT ![r] = "admitted"]
      /\ left' = left /\ spent' = spent /\ ~OverBudget(r)
      /\ \A k \in Key : spent[k] \in Nat /\ Limit[k] \in Nat
      /\ MaxCost \in Nat /\ MaxSteps \in Nat /\ Slots \in Nat
  BY GovernedAssumption DEF SpendInv, IInv, TypeOK, Admit
<1>2. Admitted' = Admitted \cup {r} /\ InFlight' \subseteq InFlight
  BY <1>1 DEF InFlight, Admitted
<1>3. AtMostSlots'
  BY <1>2, SlotsKept DEF SpendInv
<1>4. CallTaken'
  BY <1>1 DEF SpendInv, CallTaken
<1>5. ASSUME NEW k \in Key
      PROVE  spent'[k] + MaxCost * Cardinality(CallsAhead(k)')
               <= Limit[k] - 1 + MaxCost * MaxSteps * Slots
  <2> DEFINE d == Cardinality(CallsAhead(k)')
             s == MaxSteps * Slots
  <2>1. d \in Nat /\ d <= s /\ s \in Nat
    BY <1>1, <1>3, <1>4, FewCallsNext
  <2>2. CASE k \in KeysOf[r]
    <3>1. spent[k] <= Limit[k] - 1
      BY <1>1, <2>2 DEF OverBudget
    <3>2. MaxCost * MaxSteps * Slots = MaxCost * s
      BY <1>1
    <3> HIDE DEF d, s
    <3>3. MaxCost * d \in Nat /\ MaxCost * s \in Nat /\ MaxCost * d <= MaxCost * s
      BY <1>1, <2>1, Products
    <3>4. spent'[k] + MaxCost * d <= Limit[k] - 1 + MaxCost * s
      BY <1>1, <3>1, <3>3
    <3> QED  BY <3>2, <3>4 DEF d
  <2>3. CASE k \notin KeysOf[r]
    <3>1. Ahead(k)' = Ahead(k) /\ \A u \in Ahead(k) : Pending(u)' = Pending(u)
      BY <1>1, <1>2, <2>3 DEF Ahead, Pending, Admitted
    <3>2. CallsAhead(k)' = CallsAhead(k)
      <4>1. ASSUME NEW x PROVE x \in CallsAhead(k)' <=> x \in CallsAhead(k)
        <5>1. /\ x \in CallsAhead(k) <=> \E u \in Ahead(k) : x \in {u} \X (1..Pending(u))
              /\ x \in CallsAhead(k)' <=> \E u \in Ahead(k)' : x \in {u} \X (1..Pending(u)')
          BY Zenon DEF CallsAhead
        <5> QED  BY <3>1, <5>1, Zenon
      <4> QED  BY <4>1
    <3> QED  BY <1>1, <3>2 DEF SpendInv, SpendBounded
  <2> QED  BY <2>2, <2>3
<1> QED  BY <1>3, <1>4, <1>5 DEF SpendInv, SpendBounded

LEMMA StartSpends == ASSUME SpendInv, IInv', NEW r \in Run, Start(r) PROVE SpendInv'
<1>1. PICK p \in {"failed", "started"} : pc' = [pc EXCEPT ![r] = p]
  BY DEF Start, Refuse, Enter
<1>2. /\ Ready(r) /\ left' = left /\ spent' = spent /\ pc \in [Run -> Place]
      /\ \A k \in Key : spent[k] \in Nat
  BY DEF Start, Refuse, Enter, SpendInv, IInv, TypeOK
<1>3. Moves(r) /\ \A k \in Key : spent'[k] <= spent[k]
  BY <1>1, <1>2 DEF Moves, Placed
<1>4. AtMostSlots'
  <2>1. IsFiniteSet(InFlight) /\ Cardinality(InFlight) \in Nat /\ Cardinality(InFlight) < Slots
    BY <1>2, FS_CardinalityType DEF SpendInv, AtMostSlots, Ready
  <2>2. r \notin InFlight
    BY <1>2 DEF Ready, InFlight, Admitted
  <2>3. CASE p = "failed"
    <3>1. InFlight' \subseteq InFlight
      BY <1>1, <1>2, <2>3 DEF InFlight, Admitted
    <3> QED  BY <3>1, SlotsKept DEF SpendInv
  <2>4. CASE p = "started"
    <3>1. InFlight' = InFlight \cup {r}
      BY <1>1, <1>2, <2>4 DEF InFlight, Admitted
    <3>2. /\ IsFiniteSet(InFlight \cup {r})
          /\ Cardinality(InFlight \cup {r}) = Cardinality(InFlight) + 1
      BY <2>1, <2>2, FS_AddElement
    <3> QED  BY <2>1, <3>1, <3>2, GovernedAssumption DEF AtMostSlots
  <2> QED  BY <1>1, <2>3, <2>4
<1> QED  BY <1>3, <1>4, OneMoves

LEMMA DriveSpends ==
  ASSUME SpendInv, IInv', NEW r \in Run, Drive(r) \/ Disconnect(r), ~Admit(r)
  PROVE  SpendInv'
<1>1. /\ pc \in [Run -> Place] /\ left \in [Run -> 0..MaxSteps] /\ \A k \in Key : spent[k] \in Nat
  BY DEF SpendInv, IInv, TypeOK
<1>2. r \in InFlight
  BY DEF Drive, Disconnect, RefuseSpend, GoOn, Permit, Fail, Answer, Pause, Close, InFlight, Admitted
<1>3. /\ \E p \in Place : pc' = [pc EXCEPT ![r] = p]
      /\ left' = left \/ \E c : left' = [left EXCEPT ![r] = c]
  BY DEF Drive, Disconnect, RefuseSpend, GoOn, Permit, Fail, Answer, Pause, Close, Error, Stops, Place
<1>4. AtMostSlots'
  <2>1. InFlight' \subseteq InFlight
    BY <1>1, <1>2, <1>3 DEF InFlight, Admitted
  <2> QED  BY <2>1, SlotsKept DEF SpendInv
<1>5. \A s \in Run \ {r} : pc'[s] = pc[s] /\ left'[s] = left[s]
  BY <1>1, <1>3
<1>6. Moves(r)
  <2>1. CASE RefuseSpend(r) \/ Fail(r) \/ Pause(r) \/ Close(r) \/ Disconnect(r)
    <3>1. pc'[r] \notin Placed
      BY <1>1, <2>1 DEF RefuseSpend, Fail, Pause, Close, Disconnect, Error, Stops, Placed
    <3> QED  BY <1>5, <3>1 DEF Moves
  <2>2. CASE GoOn(r)
    <3>1. \/ pc'[r] = "failed"
          \/ pc[r] \in Placed /\ pc'[r] = "waiting" /\ left' = left
      BY <1>1, <2>2 DEF GoOn, Stops, Placed
    <3> QED  BY <1>5, <3>1 DEF Moves, Placed
  <2>3. CASE Answer(r)
    <3>1. pc[r] \in Placed /\ pc'[r] \in {"tools", "closing"} /\ left' = left
      BY <1>1, <2>3 DEF Answer, Placed
    <3> QED  BY <1>5, <3>1 DEF Moves
  <2>4. CASE Permit(r)
    <3>1. pc[r] = "waiting" /\ pc'[r] = "calling" /\ left'[r] = left[r] - 1
      BY <1>1, <2>4 DEF Permit
    <3> QED  BY <1>5, <3>1 DEF Moves
  <2> QED  BY <2>1, <2>2, <2>3, <2>4 DEF Drive
<1>7. \/ \A k \in Key : spent'[k] <= spent[k]
      \/ /\ pc[r] = "calling" /\ pc'[r] # "calling"
         /\ \A k \in KeysOf[r] : spent'[k] <= spent[k] + MaxCost
         /\ \A k \in Key \ KeysOf[r] : spent'[k] <= spent[k]
  <2>1. CASE Answer(r)
    <3>1. PICK cost \in 0..MaxCost : Charge(KeysOf[r], cost)
      BY <2>1 DEF Answer
    <3>2. /\ \A k \in Key : spent'[k] <= spent[k] + MaxCost
          /\ \A k \in Key \ KeysOf[r] : spent'[k] = spent[k]
      BY <3>1, ChargeFacts DEF SpendInv
    <3>3. pc[r] = "calling" /\ pc'[r] # "calling"
      BY <1>1, <2>1 DEF Answer
    <3>4. \A k \in KeysOf[r] : k \in Key
      BY GovernedAssumption
    <3>5. \A k \in Key \ KeysOf[r] : spent'[k] <= spent[k]
      BY <1>1, <3>2
    <3> QED  BY <3>2, <3>3, <3>4, <3>5
  <2>2. CASE ~Answer(r)
    <3>1. spent' = spent
      BY <2>2 DEF Drive, Disconnect, RefuseSpend, GoOn, Permit, Fail, Pause, Close
    <3> QED  BY <1>1, <3>1
  <2> QED  BY <2>1, <2>2
<1> QED  BY <1>4, <1>6, <1>7, OneMoves

LEMMA CrashSpends == ASSUME SpendInv, IInv', Crash PROVE SpendInv'
<1>1. pc \in [Run -> Place] /\ \A k \in Key : spent[k] \in Nat
  BY DEF SpendInv, IInv, TypeOK
<1>2. Admitted' = {} /\ InFlight' = {}
  BY <1>1 DEF Crash, InFlight, Admitted
<1>3. CallTaken' /\ AtMostSlots'
  <2>1. CallTaken'
    BY <1>2 DEF CallTaken, Admitted
  <2>2. AtMostSlots'
    BY <1>2, SlotsKept DEF SpendInv
  <2> QED  BY <2>1, <2>2
<1>4. ASSUME NEW k \in Key
      PROVE  \/ spent'[k] <= spent[k]
             \/ /\ spent'[k] <= spent[k] + MaxCost
                /\ \E r \in Admitted : /\ k \in KeysOf[r] /\ Pending(r) > 0
                                       /\ r \in Admitted' => Pending(r)' < Pending(r)
  <2>1. CASE UNCHANGED spent
    BY <2>1, <1>1
  <2>2. ASSUME NEW r \in Run, NEW cost \in 1..MaxCost, pc[r] = "calling",
               NEW keys \in SUBSET KeysOf[r], Charge(keys, cost)
        PROVE  \/ spent'[k] <= spent[k]
               \/ /\ spent'[k] <= spent[k] + MaxCost
                  /\ \E u \in Admitted : /\ k \in KeysOf[u] /\ Pending(u) > 0
                                         /\ u \in Admitted' => Pending(u)' < Pending(u)
    <3>1. cost \in 0..MaxCost
      BY GovernedAssumption
    <3>2. /\ spent'[k] <= spent[k] + MaxCost
          /\ k \notin keys => spent'[k] = spent[k]
      BY <2>2, <3>1, ChargeFacts DEF SpendInv
    <3>3. CASE k \notin keys
      BY <1>1, <3>2, <3>3
    <3>4. CASE k \in keys
      <4>1. r \in Admitted /\ k \in KeysOf[r]
        BY <2>2, <3>4 DEF Admitted
      <4>2. left[r] \in Nat
        BY GovernedAssumption DEF SpendInv, IInv, TypeOK
      <4>3. Pending(r) > 0
        BY <2>2, <4>2 DEF Pending
      <4> QED  BY <1>2, <3>2, <4>1, <4>3
    <3> QED  BY <3>3, <3>4
  <2> QED  BY <2>1, <2>2 DEF Crash
<1> QED  BY <1>2, <1>3, <1>4, Charged

LEMMA SpendInit == Init => SpendInv
<1> SUFFICES ASSUME Init PROVE SpendInv
  OBVIOUS
<1>1. Admitted = {} /\ InFlight = {} /\ IsFiniteSet(InFlight) /\ Cardinality(InFlight) = 0
  <2>1. Admitted = {} /\ InFlight = {}  BY DEF Init, InFlight, Admitted
  <2> QED  BY <2>1, FS_EmptySet
<1>2. ASSUME NEW k \in Key
      PROVE  spent[k] + MaxCost * Cardinality(CallsAhead(k))
               <= Limit[k] - 1 + MaxCost * MaxSteps * Slots
  <2>1. CallsAhead(k) = {}  BY <1>1, CallsIn, Zenon
  <2>2. Cardinality(CallsAhead(k)) = 0  BY <2>1, FS_EmptySet
  <2>3. /\ Limit[k] - 1 \in Nat /\ MaxCost \in Nat /\ MaxSteps \in Nat /\ Slots \in Nat
        /\ spent[k] = 0
    BY GovernedAssumption DEF Init
  <2>4. MaxCost * MaxSteps \in Nat /\ (MaxCost * MaxSteps) * Slots \in Nat
    BY <2>3
  <2>5. MaxCost * 0 = 0
    BY <2>3
  <2> QED  BY <2>2, <2>3, <2>4, <2>5
<1>3. AtMostSlots
  BY <1>1, GovernedAssumption DEF AtMostSlots
<1>4. CallTaken
  BY DEF Init, CallTaken
<1> QED  BY <1>2, <1>3, <1>4, InitHolds DEF SpendInv, SpendBounded

LEMMA SpendNext == SpendInv /\ [Next]_vars => SpendInv'
<1> SUFFICES ASSUME SpendInv, [Next]_vars PROVE SpendInv'
  OBVIOUS
<1>0. IInv'
  BY NextKeeps DEF SpendInv
<1>t. spent \in [Key -> Nat]
  BY DEF SpendInv, IInv, TypeOK
<1>1. ASSUME pc' = pc, left' = left, spent' = spent PROVE SpendInv'
  <2>1. \A k \in Key : spent'[k] <= spent[k]  BY <1>1, <1>t
  <2> QED  BY <1>0, <1>1, <2>1, NoMove
<1>2. CASE (\E to \in LifecycleState : Transition(to)) \/ (\E c \in Cards : Register(c))
  BY <1>1, <1>2 DEF Transition, Register
<1>3. ASSUME NEW r \in Run, Start(r) \/ Drive(r) \/ Disconnect(r) PROVE SpendInv'
  BY <1>0, <1>3, StartSpends, DriveSpends, AdmitSpends
<1>4. CASE Cooldown \/ Accrue \/ UNCHANGED vars
  BY <1>1, <1>4 DEF Cooldown, Accrue, vars
<1>5. CASE Crash
  BY <1>0, <1>5, CrashSpends
<1>6. ASSUME NEW j \in Key, WindowRolls(j) PROVE SpendInv'
  <2>1. pc' = pc /\ left' = left
    BY <1>6 DEF WindowRolls
  <2>2. PICK rest \in 0..(spent[j] - 1) : spent' = [spent EXCEPT ![j] = rest]
    BY <1>6 DEF WindowRolls
  <2>3. \A k \in Key : spent'[k] <= spent[k]
    BY <1>t, <2>2
  <2> QED  BY <1>0, <2>1, <2>3, NoMove
<1> QED  BY <1>2, <1>3, <1>4, <1>5, <1>6 DEF Next

(* However runs overlap, fail, are cancelled or die with their process, and *)
(* whatever part of a call's keys is charged by then, no key costs more in  *)
(* a window than its limit and what the runs in flight may spend when the   *)
(* last was let in (SpendGovernancePlugin: before_run and after_model).     *)
THEOREM SpendSound == Spec => []SpendBounded
<1>1. SpendInv => SpendBounded
  BY DEF SpendInv
<1> QED  BY <1>1, SpendInit, SpendNext, PTL DEF Spec
=============================================================================
