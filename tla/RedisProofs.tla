---------------------------- MODULE RedisProofs ----------------------------
(***************************************************************************)
(* Of RedisRunStore, for any number of processes and runs, any number of    *)
(* crashes and lapses: its types, that a run no call was torn on is listed  *)
(* where its status says and once, and that its record only moves forward.  *)
(***************************************************************************)
EXTENDS RedisRunStore, ListProofs, FiniteSetTheorems

CallRec == [at : Steps, run : Run \cup {NoRun}, seen : Row \cup {NoRow},
            copy : Row \cup {NoRow}, rest : Seq(Run)]

-----------------------------------------------------------------------------
(* Types, and what the place of a call says of its fields.                  *)
Busy(p) == call[p].at \notin {"idle", "reap"}
Reaping(p) ==
  call[p].at \in {"reap", "expired", "requeue", "remove", "append", "release", "drop"}
Copying(p) == call[p].at \in {"cancel", "claim", "refresh", "finish", "expired", "requeue"}
CallTyped(p) ==
  /\ InHand(p) \in Run <=> Busy(p)
  /\ Busy(p) => row[InHand(p)] \in Row
  /\ Busy(p) /\ call[p].at # "push" => call[p].seen \in Row
  /\ Copying(p) => call[p].copy \in Row
  /\ Reaping(p) => call[p].rest # <<>>
  /\ \A r \in Run : InSeq(r, call[p].rest) => row[r] \in Row
Listed ==
  /\ \A r \in Run : InSeq(r, queue) \/ InSeq(r, processing) => row[r] \in Row
  /\ \A t \in tasks : row[t.run] \in Row
Typed == TypeOK /\ Listed /\ \A p \in Pod : CallTyped(p)

-----------------------------------------------------------------------------
(* Two records but for their deadlines: the same, and one later than the    *)
(* other.                                                                   *)
Same(a, b) ==
  /\ a.status = b.status /\ a.lease_generation = b.lease_generation
  /\ a.cancel_requested = b.cancel_requested
Before(a, b) ==
  /\ a.lease_generation <= b.lease_generation
  /\ a.cancel_requested => b.cancel_requested
  /\ a.status = "ended" => b.status = "ended"
  /\ a.lease_generation = b.lease_generation => a.status = b.status \/ b.status = "ended"

\* What a call has read is not later than the record, and it acts on a status
\* of the right kind.
LooksBack(p) ==
  LET c == call[p] IN
  /\ c.at # "push" => Before(c.seen, row[c.run])
  /\ c.at \in {"refresh", "finish"} => Before(c.seen, c.copy) /\ Before(c.copy, row[c.run])
  /\ c.at = "cancel" => Same(c.copy, c.seen)
  /\ c.at \in {"claim", "expired", "requeue"} => c.copy = c.seen
  /\ c.at = "claim" => c.seen.status = "queued"
  /\ c.at \in {"expired", "requeue"} => c.seen.status = "running"
  /\ c.at = "drop" => c.seen.status # "running"

\* A run is in one place: on one of the lists, or in the hands of one call that
\* moves it; which, its status says.
Mover(p, r) == InHand(p) = r /\ Moving(p)
Placed(r) ==
  /\ Once(r, queue) /\ Once(r, processing) /\ ~(InSeq(r, queue) /\ InSeq(r, processing))
  /\ row[r] \in Row =>
     /\ row[r].status = "queued" => InSeq(r, queue) \/ \E p \in Pod : Mover(p, r)
     /\ row[r].status = "running" => InSeq(r, processing)
     /\ row[r].status # "queued" => ~InSeq(r, queue) /\ \A p \in Pod : ~Mover(p, r)
  /\ \A p \in Pod : Mover(p, r) =>
       /\ ~InSeq(r, queue)
       /\ call[p].at \in {"push", "append"} => ~InSeq(r, processing)
       /\ call[p].at = "claim" => InSeq(r, processing)
       /\ \A q \in Pod : Mover(q, r) => q = p

\* An execution is the only one of its generation, which is not ahead of the
\* record's, and while it is the record's the record says running.
Tasked(r) ==
  /\ \A t \in tasks : t.run = r =>
       /\ t.generation <= row[r].lease_generation
       /\ t.generation = row[r].lease_generation => row[r].status = "running"
  /\ \A t, u \in tasks : t.run = r /\ u.run = r /\ t.generation = u.generation => t = u

\* The execution whose end a call writes is still there.
OwnTask(p) ==
  call[p].at \in {"check", "finish"} =>
    \E t \in tasks : /\ t.pod = p /\ t.run = InHand(p)
                     /\ t.generation = call[p].seen.lease_generation

IInv ==
  /\ Typed
  /\ \A p \in Pod : OwnTask(p) /\ (InHand(p) \in Run \ torn => LooksBack(p))
  /\ \A r \in Run \ torn : Placed(r) /\ Tasked(r)

Forward == \A r \in Run \ torn' : row[r] # NoRow => row'[r] \in Row /\ Before(row[r], row'[r])

-----------------------------------------------------------------------------
(* Records.                                                                 *)
LEMMA RowFields ==
  ASSUME NEW a \in Row
  PROVE  /\ a # NoRow
         /\ a.status \in {"queued", "running", "ended"}
         /\ a.lease_generation \in Nat
         /\ a.lease \in {"none", "ahead", "past"}
         /\ a.cancel_requested \in BOOLEAN
BY NoRowAssumption DEF Row

LEMMA TimelessSame ==
  ASSUME NEW a \in Row, NEW b \in Row
  PROVE  Timeless(a) = Timeless(b) <=> Same(a, b)
<1>1. /\ a = [status |-> a.status, lease_generation |-> a.lease_generation,
              lease |-> a.lease, cancel_requested |-> a.cancel_requested]
      /\ b = [status |-> b.status, lease_generation |-> b.lease_generation,
              lease |-> b.lease, cancel_requested |-> b.cancel_requested]
  BY DEF Row
<1>2. /\ Timeless(a) = [status |-> a.status, lease_generation |-> a.lease_generation,
                        lease |-> "none", cancel_requested |-> a.cancel_requested]
      /\ Timeless(b) = [status |-> b.status, lease_generation |-> b.lease_generation,
                        lease |-> "none", cancel_requested |-> b.cancel_requested]
  BY DEF Timeless, Row
<1> QED BY <1>2 DEF Same

LEMMA BeforeFacts ==
  ASSUME NEW a \in Row, NEW b \in Row, NEW c \in Row
  PROVE  /\ Same(a, b) => Before(a, b)
         /\ Before(a, b) /\ Before(b, c) => Before(a, c)
         /\ Same(a, c) /\ Before(a, b) /\ Before(b, c) => Same(b, c)
BY RowFields DEF Same, Before

\* A call that was not torn has found the record as it had seen it.
LEMMA NotStale ==
  ASSUME NEW p \in Pod, InHand(p) \in Run, row[InHand(p)] \in Row, call[p].seen \in Row
  PROVE  Stale(p) <=> ~Same(row[InHand(p)], call[p].seen)
BY TimelessSame DEF Stale

-----------------------------------------------------------------------------
(* What a step of process p has to show; of the other calls it needs to     *)
(* show nothing.                                                            *)
Shown(p) ==
  /\ call' \in [Pod -> CallRec] /\ \A q \in Pod \ {p} : call'[q] = call[q]
  /\ row' \in [Run -> Row \cup {NoRow}] /\ \A r \in Run : row[r] \in Row => row'[r] \in Row
  /\ queue' \in Seq(Run) /\ processing' \in Seq(Run) /\ leases' \subseteq Run
  /\ tasks' \subseteq Task /\ \A t \in tasks : t.pod # p => t \in tasks'
  /\ torn' \subseteq Run /\ torn \subseteq torn'
  /\ crashes' \in 0..MaxCrashes /\ lapses' \in 0..MaxLapses
  /\ Listed' /\ CallTyped(p)' /\ OwnTask(p)'
  /\ InHand(p)' \in Run \ torn' => LooksBack(p)'
  /\ \A r \in Run \ torn' :
       /\ row[r] \in Row => Before(row[r], row'[r])
       /\ Placed(r)' /\ Tasked(r)'

LEMMA TypedFacts ==
  ASSUME Typed
  PROVE  /\ row \in [Run -> Row \cup {NoRow}]
         /\ queue \in Seq(Run) /\ processing \in Seq(Run) /\ leases \subseteq Run
         /\ call \in [Pod -> CallRec] /\ \A p \in Pod : call[p] \in CallRec
         /\ tasks \subseteq Task /\ torn \subseteq Run
         /\ crashes \in 0..MaxCrashes /\ lapses \in 0..MaxLapses
         /\ Listed /\ \A p \in Pod : CallTyped(p)
BY DEF Typed, TypeOK, CallRec

LEMMA StepKeeps ==
  ASSUME IInv, NEW p \in Pod, Shown(p)
  PROVE  IInv' /\ Forward
<1>1. Forward
  BY NoRowAssumption, TypedFacts DEF Forward, Shown, IInv
<1>2. ASSUME NEW q \in Pod PROVE CallTyped(q)'
  <2>1. CASE q = p BY <2>1 DEF Shown
  <2>2. CASE q # p
    <3>1. CallTyped(q) /\ call'[q] = call[q] BY <2>2 DEF IInv, Typed, Shown
    <3>2. \A r \in Run : row[r] \in Row => row'[r] \in Row BY DEF Shown
    <3> QED BY <3>1, <3>2 DEF CallTyped, Busy, Reaping, Copying, InHand
  <2> QED BY <2>1, <2>2
<1>3. Typed'
  BY <1>2 DEF Shown, Typed, TypeOK, CallRec
<1>4. ASSUME NEW q \in Pod PROVE OwnTask(q)'
  <2>1. CASE q = p BY <2>1 DEF Shown
  <2>2. CASE q # p
    <3>1. OwnTask(q) /\ call'[q] = call[q] BY <2>2 DEF IInv, Shown
    <3>2. \A t \in tasks : t.pod = q => t \in tasks' BY <2>2 DEF Shown
    <3> QED BY <3>1, <3>2 DEF OwnTask, InHand
  <2> QED BY <2>1, <2>2
<1>5. ASSUME NEW q \in Pod, InHand(q)' \in Run \ torn' PROVE LooksBack(q)'
  <2>1. CASE q = p BY <1>5, <2>1 DEF Shown
  <2>2. CASE q # p
    <3> DEFINE r == InHand(q)
    <3>1. call'[q] = call[q] BY <2>2 DEF Shown
    <3>2. r \in Run \ torn' /\ r \in Run \ torn BY <1>5, <3>1 DEF Shown, InHand
    <3>3. LooksBack(q) /\ CallTyped(q) BY <3>2 DEF IInv, Typed
    <3>4. row[r] \in Row /\ row'[r] \in Row /\ Before(row[r], row'[r])
      BY <3>2, <3>3 DEF CallTyped, Shown
    <3>5. \A a \in Row : Before(a, row[r]) => Before(a, row'[r]) BY <3>4, BeforeFacts
    <3>6. Busy(q) /\ r = call[q].run BY <3>2, <3>3 DEF CallTyped, InHand
    <3>7. call[q].at # "push" => call[q].seen \in Row BY <3>3, <3>6 DEF CallTyped
    <3>8. call[q].at \in {"refresh", "finish"} => call[q].copy \in Row
      BY <3>3, <3>6 DEF CallTyped, Copying
    <3> QED BY <3>1, <3>3, <3>5, <3>6, <3>7, <3>8 DEF LooksBack
  <2> QED BY <2>1, <2>2
<1> QED BY <1>1, <1>3, <1>4, <1>5 DEF IInv, Shown

-----------------------------------------------------------------------------
(* Calls.                                                                   *)
LEMMA IdleFacts ==
  /\ Idle \in CallRec
  /\ Idle.at = "idle" /\ Idle.run = NoRun /\ Idle.seen = NoRow /\ Idle.copy = NoRow
  /\ Idle.rest = <<>>
BY DEF Idle, CallRec, Steps

\* The fields of a call that is in a place.
LEMMA CallFields ==
  ASSUME Typed, NEW p \in Pod
  PROVE  /\ call[p] \in CallRec
         /\ call[p].at \in Steps /\ call[p].run \in Run \cup {NoRun}
         /\ call[p].seen \in Row \cup {NoRow} /\ call[p].copy \in Row \cup {NoRow}
         /\ call[p].rest \in Seq(Run)
         /\ Busy(p) => InHand(p) \in Run /\ row[InHand(p)] \in Row
         /\ ~Busy(p) => InHand(p) = NoRun
BY TypedFacts, BoundsAssumption DEF CallRec, CallTyped, InHand

LEMMA GotoFacts ==
  ASSUME Typed, NEW p \in Pod, NEW c \in CallRec, Goto(p, c)
  PROVE  /\ call' \in [Pod -> CallRec] /\ call'[p] = c
         /\ \A q \in Pod \ {p} : call'[q] = call[q]
BY TypedFacts DEF Goto

\* The call goes on to another command.
LEMMA ProceedFacts ==
  ASSUME Typed, NEW p \in Pod, NEW step \in Steps, Proceed(p, step)
  PROVE  /\ call' \in [Pod -> CallRec] /\ \A q \in Pod \ {p} : call'[q] = call[q]
         /\ call'[p].at = step /\ call'[p].run = call[p].run
         /\ call'[p].seen = call[p].seen /\ call'[p].copy = call[p].copy
         /\ call'[p].rest = call[p].rest
<1> DEFINE c == [call[p] EXCEPT !.at = step]
<1>1. call[p] \in CallRec BY CallFields
<1>2. c \in CallRec /\ c.at = step /\ c.run = call[p].run /\ c.seen = call[p].seen
      /\ c.copy = call[p].copy /\ c.rest = call[p].rest
  BY <1>1 DEF CallRec
<1>3. Goto(p, c) BY DEF Proceed
<1> HIDE DEF c
<1> QED BY <1>2, <1>3, GotoFacts

\* The call returns.
LEMMA ReturnFacts ==
  ASSUME Typed, NEW p \in Pod, Return(p)
  PROVE  /\ call' \in [Pod -> CallRec] /\ \A q \in Pod \ {p} : call'[q] = call[q]
         /\ call'[p] = Idle
BY IdleFacts, GotoFacts DEF Return

\* An idle call has nothing to show.
LEMMA IdleShown ==
  ASSUME NEW p \in Pod, call'[p] = Idle
  PROVE  CallTyped(p)' /\ OwnTask(p)' /\ ~(InHand(p)' \in Run)
BY IdleFacts, BoundsAssumption DEF CallTyped, OwnTask, InHand, Busy, Reaping, Copying, InSeq

-----------------------------------------------------------------------------
(* What keeps a run in its place and its executions in order.               *)
LEMMA PlacedKept ==
  ASSUME IInv, NEW r \in Run \ torn, NEW p \in Pod,
         \A q \in Pod \ {p} : call'[q] = call[q],
         InSeq(r, queue') <=> InSeq(r, queue), Once(r, queue'),
         InSeq(r, processing') <=> InSeq(r, processing), Once(r, processing'),
         row'[r] \in Row => row[r] \in Row /\ row'[r].status = row[r].status,
         Mover(p, r)' <=> Mover(p, r), Mover(p, r) => call'[p].at = call[p].at
  PROVE  Placed(r)'
<1>1. \A q \in Pod : Mover(q, r)' <=> Mover(q, r) BY DEF Mover, InHand, Moving
<1>2. \A q \in Pod : Mover(q, r) => call'[q].at = call[q].at OBVIOUS
<1>3. Placed(r) BY DEF IInv
<1> QED BY <1>1, <1>2, <1>3 DEF Placed

LEMMA TaskedKept ==
  ASSUME IInv, NEW r \in Run \ torn,
         \A t \in tasks' : t.run = r => t \in tasks,
         row[r] \in Row => /\ row'[r] \in Row /\ Before(row[r], row'[r])
                           /\ row'[r].lease_generation = row[r].lease_generation
                              => row'[r].status = row[r].status
  PROVE  Tasked(r)'
<1>1. Tasked(r) BY DEF IInv
<1>2. \A t \in tasks : t.run = r => row[r] \in Row /\ t.generation \in Nat
  BY TypedFacts DEF IInv, Listed, Task
<1>3. row[r] \in Row => /\ row[r].lease_generation \in Nat /\ row'[r].lease_generation \in Nat
                        /\ row[r].lease_generation <= row'[r].lease_generation
  BY RowFields DEF Before
<1>4. ASSUME NEW t \in tasks', t.run = r
      PROVE  /\ t.generation <= row'[r].lease_generation
             /\ t.generation = row'[r].lease_generation => row'[r].status = "running"
  <2>1. t \in tasks /\ row[r] \in Row /\ t.generation \in Nat BY <1>2, <1>4
  <2>2. /\ t.generation <= row[r].lease_generation
        /\ t.generation = row[r].lease_generation => row[r].status = "running"
    BY <1>1, <1>4, <2>1 DEF Tasked
  <2> QED BY <1>3, <2>1, <2>2
<1>5. \A t, u \in tasks' : t.run = r /\ u.run = r /\ t.generation = u.generation => t = u
  BY <1>1 DEF Tasked
<1> QED BY <1>4, <1>5 DEF Tasked

\* A command that reads, or leaves the row and the lists alone.
LEMMA LookStep ==
  ASSUME IInv, NEW p \in Pod,
         call' \in [Pod -> CallRec], \A q \in Pod \ {p} : call'[q] = call[q],
         UNCHANGED <<row, queue, processing, crashes, lapses>>,
         leases' \subseteq Run, tasks' \subseteq tasks,
         \A t \in tasks : t.pod # p => t \in tasks',
         torn' \subseteq Run, torn \subseteq torn',
         CallTyped(p)', OwnTask(p)', InHand(p)' \in Run \ torn' => LooksBack(p)',
         ~Moving(p), ~Moving(p)'
  PROVE  IInv' /\ Forward
<1>1. /\ row' \in [Run -> Row \cup {NoRow}] /\ queue' \in Seq(Run) /\ processing' \in Seq(Run)
      /\ tasks' \subseteq Task /\ crashes' \in 0..MaxCrashes /\ lapses' \in 0..MaxLapses
  BY TypedFacts DEF IInv
<1>2. Listed' BY TypedFacts DEF IInv, Listed
<1>3. ASSUME NEW r \in Run \ torn'
      PROVE  /\ row[r] \in Row => Before(row[r], row'[r])
             /\ Placed(r)' /\ Tasked(r)'
  <2>1. r \in Run \ torn OBVIOUS
  <2>2. Placed(r) BY <2>1 DEF IInv
  <2>3. Placed(r)' BY <2>1, <2>2, PlacedKept DEF Mover, Placed
  <2>4. row[r] \in Row => Before(row[r], row'[r]) BY BeforeFacts DEF Same
  <2>5. Tasked(r)' BY <2>1, <2>4, TaskedKept
  <2> QED BY <2>3, <2>4, <2>5
<1>4. Shown(p) BY <1>1, <1>2, <1>3 DEF Shown
<1> QED BY <1>4, StepKeeps

-----------------------------------------------------------------------------
(* The commands that only look.                                             *)
LEMMA CancelReadKeeps ==
  ASSUME IInv, NEW p \in Pod, NEW r \in Run, CancelRead(p, r) PROVE IInv' /\ Forward
<1> DEFINE c == [Idle EXCEPT !.at = "cancel", !.run = r, !.seen = row[r], !.copy = row[r]]
<1>1. row[r] \in Row BY TypedFacts DEF IInv, CancelRead
<1>2. /\ c \in CallRec /\ c.at = "cancel" /\ c.run = r /\ c.seen = row[r] /\ c.copy = row[r]
      /\ c.rest = <<>>
  BY <1>1, IdleFacts DEF CallRec, Steps, Idle
<1>3. Goto(p, c) /\ call[p].at = "idle" BY DEF CancelRead, Free
<1> HIDE DEF c
<1>4. /\ call' \in [Pod -> CallRec] /\ call'[p] = c
      /\ \A q \in Pod \ {p} : call'[q] = call[q]
  BY <1>2, <1>3, GotoFacts DEF IInv
<1>5. UNCHANGED <<row, queue, processing, leases, tasks, torn, crashes, lapses>>
  BY DEF CancelRead
<1>6. CallTyped(p)' /\ OwnTask(p)'
  BY <1>1, <1>2, <1>4, <1>5 DEF CallTyped, OwnTask, InHand, Busy, Reaping, Copying, InSeq
<1>7. LooksBack(p)'
  BY <1>1, <1>2, <1>4, <1>5, BeforeFacts DEF LooksBack, Same
<1>8. ~Moving(p) /\ ~Moving(p)' BY <1>2, <1>3, <1>4 DEF Moving
<1> QED BY <1>4, <1>5, <1>6, <1>7, <1>8, TypedFacts, LookStep DEF IInv

LEMMA LookFacts ==
  ASSUME IInv, NEW t \in tasks, NEW step \in {"beat", "check"}, Look(t.pod, t, step),
         Current(t), Free(t.pod), UNCHANGED row, UNCHANGED tasks
  PROVE  /\ t.pod \in Pod
         /\ call' \in [Pod -> CallRec]
         /\ \A q \in Pod \ {t.pod} : call'[q] = call[q]
         /\ CallTyped(t.pod)' /\ OwnTask(t.pod)' /\ LooksBack(t.pod)'
         /\ ~Moving(t.pod) /\ ~Moving(t.pod)'
<1> DEFINE p == t.pod
           c == [Idle EXCEPT !.at = step, !.run = t.run, !.seen = row[t.run]]
<1>1. p \in Pod /\ t.run \in Run /\ t.generation \in Nat
  BY TypedFacts DEF IInv, Task
<1>2. row[t.run] \in Row /\ row[t.run].lease_generation = t.generation
  BY <1>1, TypedFacts DEF IInv, Listed, Current
<1>3. /\ c \in CallRec /\ c.at = step /\ c.run = t.run /\ c.seen = row[t.run] /\ c.copy = NoRow
      /\ c.rest = <<>>
  BY <1>1, <1>2, IdleFacts DEF CallRec, Steps, Idle
<1>4. Goto(p, c) /\ call[p].at = "idle" BY DEF Look, Free
<1> HIDE DEF c, p
<1>5. /\ call' \in [Pod -> CallRec] /\ call'[p] = c
      /\ \A q \in Pod \ {p} : call'[q] = call[q]
  BY <1>1, <1>3, <1>4, GotoFacts DEF IInv
<1>6. CallTyped(p)'
  BY <1>1, <1>2, <1>3, <1>5 DEF CallTyped, InHand, Busy, Reaping, Copying, InSeq
<1>7. OwnTask(p)'
  BY <1>1, <1>2, <1>3, <1>5 DEF OwnTask, InHand, p
<1>8. LooksBack(p)'
  BY <1>2, <1>3, <1>5, BeforeFacts DEF LooksBack, Same
<1>9. ~Moving(p) /\ ~Moving(p)' BY <1>3, <1>4, <1>5 DEF Moving
<1> QED BY <1>1, <1>5, <1>6, <1>7, <1>8, <1>9 DEF p

LEMMA BeatKeeps == ASSUME IInv, NEW t \in tasks, Beat(t) PROVE IInv' /\ Forward
<1>1. /\ Free(t.pod) /\ Current(t) /\ Look(t.pod, t, "beat")
      /\ UNCHANGED <<row, queue, processing, leases, tasks, torn, crashes, lapses>>
  BY DEF Beat
<1>2. /\ t.pod \in Pod /\ call' \in [Pod -> CallRec]
      /\ \A q \in Pod \ {t.pod} : call'[q] = call[q]
      /\ CallTyped(t.pod)' /\ OwnTask(t.pod)' /\ LooksBack(t.pod)'
      /\ ~Moving(t.pod) /\ ~Moving(t.pod)'
  BY <1>1, LookFacts
<1> QED BY <1>1, <1>2, TypedFacts, LookStep DEF IInv

LEMMA FinishCheckKeeps == ASSUME IInv, NEW t \in tasks, FinishCheck(t) PROVE IInv' /\ Forward
<1>1. /\ Free(t.pod)
      /\ UNCHANGED <<row, queue, processing, leases, torn, crashes, lapses>>
  BY DEF FinishCheck
<1>2. CASE Current(t) /\ Look(t.pod, t, "check") /\ UNCHANGED tasks
  <2>1. /\ t.pod \in Pod /\ call' \in [Pod -> CallRec]
        /\ \A q \in Pod \ {t.pod} : call'[q] = call[q]
        /\ CallTyped(t.pod)' /\ OwnTask(t.pod)' /\ LooksBack(t.pod)'
        /\ ~Moving(t.pod) /\ ~Moving(t.pod)'
    BY <1>1, <1>2, LookFacts
  <2> QED BY <1>1, <1>2, <2>1, TypedFacts, LookStep DEF IInv
<1>3. CASE tasks' = tasks \ {t} /\ UNCHANGED call
  <2> DEFINE p == t.pod
  <2>1. p \in Pod BY TypedFacts DEF IInv, Task
  <2>2. call[p].at = "idle" BY <1>1 DEF Free
  <2>3. InHand(p) \notin Run BY <2>1, <2>2, CallFields DEF IInv, CallTyped, Typed, Busy
  <2>4. CallTyped(p)'
    BY <1>1, <1>3, <2>1 DEF IInv, Typed, CallTyped, InHand, Busy, Reaping, Copying
  <2>5. OwnTask(p)' /\ ~(InHand(p)' \in Run) /\ ~Moving(p) /\ ~Moving(p)'
    BY <1>3, <2>2, <2>3 DEF OwnTask, InHand, Moving
  <2>6. \A u \in tasks : u.pod # p => u \in tasks' BY <1>3
  <2> HIDE DEF p
  <2> QED BY <1>1, <1>3, <2>1, <2>4, <2>5, <2>6, TypedFacts, LookStep DEF IInv
<1> QED BY <1>2, <1>3 DEF FinishCheck

\* A call that goes on to a command that neither moves its run nor writes.
LEMMA ProceedKeeps ==
  ASSUME IInv, NEW p \in Pod, NEW step \in Steps, Proceed(p, step),
         UNCHANGED <<row, queue, processing, tasks, crashes, lapses>>,
         leases' \subseteq Run, torn' \subseteq Run, torn \subseteq torn',
         \/ call[p].at = "beat" /\ step = "extend"
         \/ call[p].at = "expired" /\ step = "requeue"
  PROVE  IInv' /\ Forward
<1>1. /\ call' \in [Pod -> CallRec] /\ \A q \in Pod \ {p} : call'[q] = call[q]
      /\ call'[p].at = step /\ call'[p].run = call[p].run
      /\ call'[p].seen = call[p].seen /\ call'[p].copy = call[p].copy
      /\ call'[p].rest = call[p].rest
  BY ProceedFacts DEF IInv
<1>2. CallTyped(p)'
  <2>1. CallTyped(p) BY DEF IInv, Typed
  <2> QED BY <1>1, <2>1 DEF CallTyped, InHand, Busy, Reaping, Copying
<1>3. OwnTask(p)' /\ ~Moving(p) /\ ~Moving(p)' BY <1>1 DEF OwnTask, Moving
<1>4. InHand(p)' \in Run \ torn' => LooksBack(p)'
  <2>1. InHand(p) \in Run \ torn => LooksBack(p) BY DEF IInv
  <2> QED BY <1>1, <2>1 DEF LooksBack, InHand
<1> QED BY <1>1, <1>2, <1>3, <1>4, LookStep

LEMMA BeatKeyKeeps == ASSUME IInv, NEW p \in Pod, BeatKey(p) PROVE IInv' /\ Forward
<1>1. call[p].at = "beat" /\ leases' = leases \cup {InHand(p)} /\ Proceed(p, "extend")
      /\ UNCHANGED <<row, queue, processing, tasks, torn, crashes, lapses>>
  BY DEF BeatKey, At
<1>2. InHand(p) \in Run BY <1>1, CallFields DEF IInv, Busy
<1>3. leases' \subseteq Run /\ torn' \subseteq Run BY <1>1, <1>2, TypedFacts DEF IInv
<1>4. "extend" \in Steps BY DEF Steps
<1> QED BY <1>1, <1>3, <1>4, ProceedKeeps

\* The second look of a call: what it copies is not before what it saw.
LEMMA SecondLook ==
  ASSUME IInv, NEW p \in Pod, NEW step \in Steps,
         Goto(p, [call[p] EXCEPT !.at = step, !.copy = row[InHand(p)]]),
         UNCHANGED <<row, queue, processing, leases, tasks, torn, crashes, lapses>>,
         \/ call[p].at = "extend" /\ step = "refresh"
         \/ call[p].at = "check" /\ step = "finish"
  PROVE  IInv' /\ Forward
<1> DEFINE c == [call[p] EXCEPT !.at = step, !.copy = row[InHand(p)]]
<1>1. /\ call[p] \in CallRec /\ InHand(p) \in Run /\ row[InHand(p)] \in Row
      /\ call[p].seen \in Row /\ CallTyped(p)
  BY CallFields DEF IInv, Typed, CallTyped, Busy
<1>2. /\ c \in CallRec /\ c.at = step /\ c.run = call[p].run /\ c.seen = call[p].seen
      /\ c.copy = row[InHand(p)] /\ c.rest = call[p].rest
  BY <1>1 DEF CallRec
<1>3. Goto(p, c) OBVIOUS
<1> HIDE DEF c
<1>4. /\ call' \in [Pod -> CallRec] /\ call'[p] = c
      /\ \A q \in Pod \ {p} : call'[q] = call[q]
  BY <1>2, <1>3, GotoFacts DEF IInv
<1>5. CallTyped(p)'
  BY <1>1, <1>2, <1>4 DEF CallTyped, InHand, Busy, Reaping, Copying
<1>6. OwnTask(p)'
  <2>1. OwnTask(p) BY DEF IInv
  <2> QED BY <1>2, <1>4, <2>1 DEF OwnTask, InHand
<1>7. InHand(p)' \in Run \ torn' => LooksBack(p)'
  <2>1. InHand(p) \in Run \ torn => LooksBack(p) BY DEF IInv
  <2>2. Before(row[InHand(p)], row[InHand(p)]) BY <1>1, BeforeFacts DEF Same
  <2> QED BY <1>2, <1>4, <2>1, <2>2 DEF LooksBack, InHand
<1>8. ~Moving(p) /\ ~Moving(p)' BY <1>2, <1>4 DEF Moving
<1> QED BY <1>4, <1>5, <1>6, <1>7, <1>8, TypedFacts, LookStep DEF IInv

LEMMA BeatReadKeeps == ASSUME IInv, NEW p \in Pod, BeatRead(p) PROVE IInv' /\ Forward
<1>1. call[p].at = "extend" /\ Goto(p, [call[p] EXCEPT !.at = "refresh", !.copy = row[InHand(p)]])
      /\ UNCHANGED <<row, queue, processing, leases, tasks, torn, crashes, lapses>>
  BY DEF BeatRead, At
<1>2. "refresh" \in Steps BY DEF Steps
<1> QED BY <1>1, <1>2, SecondLook

LEMMA FinishReadKeeps == ASSUME IInv, NEW p \in Pod, FinishRead(p) PROVE IInv' /\ Forward
<1>1. call[p].at = "check" /\ Goto(p, [call[p] EXCEPT !.at = "finish", !.copy = row[InHand(p)]])
      /\ UNCHANGED <<row, queue, processing, leases, tasks, torn, crashes, lapses>>
  BY DEF FinishRead, At
<1>2. "finish" \in Steps BY DEF Steps
<1> QED BY <1>1, <1>2, SecondLook

LEMMA ReapListKeeps == ASSUME IInv, NEW p \in Pod, ReapList(p) PROVE IInv' /\ Forward
<1> DEFINE c == [Idle EXCEPT !.at = "reap", !.rest = processing]
<1>1. /\ Goto(p, c) /\ call[p].at = "idle" /\ processing # <<>>
      /\ UNCHANGED <<row, queue, processing, leases, tasks, torn, crashes, lapses>>
  BY DEF ReapList, Free
<1>2. /\ c \in CallRec /\ c.at = "reap" /\ c.run = NoRun /\ c.rest = processing
  BY IdleFacts, TypedFacts DEF CallRec, Steps, Idle, IInv
<1> HIDE DEF c
<1>3. /\ call' \in [Pod -> CallRec] /\ call'[p] = c
      /\ \A q \in Pod \ {p} : call'[q] = call[q]
  BY <1>1, <1>2, GotoFacts DEF IInv
<1>4. CallTyped(p)'
  <2>1. \A r \in Run : InSeq(r, processing) => row[r] \in Row
    BY TypedFacts DEF IInv, Listed
  <2> QED BY <1>1, <1>2, <1>3, <2>1, BoundsAssumption
          DEF CallTyped, InHand, Busy, Reaping, Copying
<1>5. OwnTask(p)' /\ ~(InHand(p)' \in Run) /\ ~Moving(p) /\ ~Moving(p)'
  BY <1>1, <1>2, <1>3, BoundsAssumption DEF OwnTask, InHand, Moving
<1> QED BY <1>1, <1>3, <1>4, <1>5, TypedFacts, LookStep DEF IInv

LEMMA ReapReadKeeps == ASSUME IInv, NEW p \in Pod, ReapRead(p) PROVE IInv' /\ Forward
<1> DEFINE r == Head(call[p].rest)
           step == IF row[r].status = "running" THEN "expired" ELSE "drop"
           c == [call[p] EXCEPT !.run = r, !.seen = row[r], !.copy = row[r], !.at = step]
<1>1. /\ Goto(p, c) /\ call[p].at = "reap"
      /\ UNCHANGED <<row, queue, processing, leases, tasks, torn, crashes, lapses>>
  BY DEF ReapRead, At
<1>2. call[p] \in CallRec /\ CallTyped(p) /\ call[p].rest \in Seq(Run) /\ call[p].rest # <<>>
  BY <1>1, CallFields DEF IInv, Typed, CallTyped, Reaping
<1>3. r \in Run /\ row[r] \in Row
  <2>1. r \in Run /\ InSeq(r, call[p].rest) BY <1>2, TailFacts
  <2> QED BY <1>2, <2>1 DEF CallTyped
<1>4. /\ c \in CallRec /\ c.at = step /\ c.run = r /\ c.seen = row[r] /\ c.copy = row[r]
      /\ c.rest = call[p].rest
  <2>1. step \in Steps BY DEF Steps
  <2> HIDE DEF step, r
  <2> QED BY <1>2, <1>3, <2>1 DEF CallRec
<1> HIDE DEF c, r
<1>5. /\ call' \in [Pod -> CallRec] /\ call'[p] = c
      /\ \A q \in Pod \ {p} : call'[q] = call[q]
  BY <1>1, <1>4, GotoFacts DEF IInv
<1>6. CallTyped(p)' /\ OwnTask(p)'
  BY <1>1, <1>2, <1>3, <1>4, <1>5 DEF CallTyped, OwnTask, InHand, Busy, Reaping, Copying
<1>7. LooksBack(p)'
  BY <1>1, <1>3, <1>4, <1>5, BeforeFacts DEF LooksBack, Same
<1>8. ~Moving(p) /\ ~Moving(p)' BY <1>1, <1>4, <1>5 DEF Moving
<1> QED BY <1>1, <1>5, <1>6, <1>7, <1>8, TypedFacts, LookStep DEF IInv

\* The reaper turns to the next id.
LEMMA NextEntryFacts ==
  ASSUME IInv, NEW p \in Pod, Reaping(p), Goto(p, NextEntry(p)),
         \A r \in Run : row[r] \in Row => row'[r] \in Row
  PROVE  /\ call' \in [Pod -> CallRec] /\ \A q \in Pod \ {p} : call'[q] = call[q]
         /\ CallTyped(p)' /\ OwnTask(p)' /\ ~(InHand(p)' \in Run) /\ ~Moving(p)'
<1> DEFINE c == NextEntry(p)
           s == call[p].rest
<1>1. /\ s \in Seq(Run) /\ s # <<>> /\ \A r \in Run : InSeq(r, s) => row[r] \in Row
  BY CallFields DEF IInv, Typed, CallTyped
<1>2. CASE Len(s) > 1
  <2>1. c = [Idle EXCEPT !.at = "reap", !.rest = Tail(s)] BY <1>2 DEF NextEntry
  <2>2. /\ Tail(s) \in Seq(Run) /\ Tail(s) # <<>>
        /\ \A r \in Run : InSeq(r, Tail(s)) => row[r] \in Row
    <3>1. Tail(s) # <<>> BY <1>1, <1>2, LongTail
    <3> QED BY <1>1, <3>1, TailFacts
  <2>3. c \in CallRec /\ c.at = "reap" /\ c.run = NoRun /\ c.rest = Tail(s)
    BY <2>1, <2>2, IdleFacts DEF CallRec, Steps, Idle
  <2>4. /\ call' \in [Pod -> CallRec] /\ call'[p] = c
        /\ \A q \in Pod \ {p} : call'[q] = call[q]
    BY <2>3, GotoFacts DEF IInv
  <2> HIDE DEF c, s
  <2> QED BY <2>2, <2>3, <2>4, BoundsAssumption
          DEF CallTyped, OwnTask, InHand, Busy, Reaping, Copying, Moving
<1>3. CASE ~(Len(s) > 1)
  <2>1. c = Idle BY <1>3 DEF NextEntry
  <2>2. /\ call' \in [Pod -> CallRec] /\ call'[p] = Idle
        /\ \A q \in Pod \ {p} : call'[q] = call[q]
    BY <2>1, IdleFacts, GotoFacts DEF IInv
  <2>3. ~Moving(p)' BY <2>2, IdleFacts DEF Moving
  <2> QED BY <2>2, <2>3, IdleShown
<1> QED BY <1>2, <1>3

LEMMA ReapExpiredKeeps == ASSUME IInv, NEW p \in Pod, ReapExpired(p) PROVE IInv' /\ Forward
<1>1. call[p].at = "expired"
      /\ UNCHANGED <<row, queue, processing, leases, tasks, torn, crashes, lapses>>
  BY DEF ReapExpired, At
<1>2. CASE Proceed(p, "requeue")
  <2>1. "requeue" \in Steps BY DEF Steps
  <2> QED BY <1>1, <1>2, <2>1, TypedFacts, ProceedKeeps DEF IInv
<1>3. CASE Goto(p, NextEntry(p))
  <2>1. ~Moving(p) /\ Reaping(p) BY <1>1 DEF Moving, Reaping
  <2>2. /\ call' \in [Pod -> CallRec] /\ \A q \in Pod \ {p} : call'[q] = call[q]
        /\ CallTyped(p)' /\ OwnTask(p)' /\ ~(InHand(p)' \in Run) /\ ~Moving(p)'
    BY <1>1, <1>3, <2>1, NextEntryFacts
  <2> QED BY <1>1, <2>1, <2>2, TypedFacts, LookStep DEF IInv
<1> QED BY <1>2, <1>3 DEF ReapExpired

\* What Tear does to the history, and to a run it does not tear.
LEMMA TearFacts ==
  ASSUME IInv, NEW p \in Pod, NEW condition, Tear(p, condition), InHand(p) \in Run
  PROVE  /\ torn' \subseteq Run /\ torn \subseteq torn'
         /\ InHand(p) \notin torn' => ~condition
         /\ \A r \in Run \ torn' : r \in Run \ torn
BY TypedFacts DEF IInv, Tear

LEMMA ReapReleaseKeeps == ASSUME IInv, NEW p \in Pod, ReapRelease(p) PROVE IInv' /\ Forward
<1>1. /\ call[p].at = "release" /\ Goto(p, NextEntry(p)) /\ Tear(p, Stale(p))
      /\ leases' = leases \ {InHand(p)}
      /\ UNCHANGED <<row, queue, processing, tasks, crashes, lapses>>
  BY DEF ReapRelease, At
<1>2. ~Moving(p) /\ Reaping(p) /\ InHand(p) \in Run
  BY <1>1, CallFields DEF Moving, Reaping, IInv, Busy
<1>3. /\ call' \in [Pod -> CallRec] /\ \A q \in Pod \ {p} : call'[q] = call[q]
      /\ CallTyped(p)' /\ OwnTask(p)' /\ ~(InHand(p)' \in Run) /\ ~Moving(p)'
  BY <1>1, <1>2, NextEntryFacts
<1>4. torn' \subseteq Run /\ torn \subseteq torn' BY <1>1, <1>2, TearFacts
<1> QED BY <1>1, <1>2, <1>3, <1>4, TypedFacts, LookStep DEF IInv

-----------------------------------------------------------------------------
(* The commands that write: of the other runs they have nothing to show.    *)
LEMMA HandStep ==
  ASSUME IInv, NEW p \in Pod, NEW h \in Run,
         call' \in [Pod -> CallRec], \A q \in Pod \ {p} : call'[q] = call[q],
         InHand(p) \in {h, NoRun}, InHand(p)' \in {h, NoRun},
         row' \in [Run -> Row \cup {NoRow}], row'[h] \in Row,
         \A r \in Run \ {h} : row'[r] = row[r],
         queue' \in Seq(Run), processing' \in Seq(Run), leases' \subseteq Run,
         \A r \in Run \ {h} : /\ InSeq(r, queue') <=> InSeq(r, queue)
                              /\ Once(r, queue) => Once(r, queue')
                              /\ InSeq(r, processing') <=> InSeq(r, processing)
                              /\ Once(r, processing) => Once(r, processing'),
         tasks' \subseteq Task, \A t \in tasks : t.pod # p => t \in tasks',
         \A t \in tasks' : t.run # h => t \in tasks,
         torn' \subseteq Run, torn \subseteq torn',
         crashes' \in 0..MaxCrashes, lapses' \in 0..MaxLapses,
         CallTyped(p)', OwnTask(p)', InHand(p)' \in Run \ torn' => LooksBack(p)',
         h \notin torn' => /\ row[h] \in Row => Before(row[h], row'[h])
                           /\ Placed(h)' /\ Tasked(h)'
  PROVE  IInv' /\ Forward
<1>1. \A r \in Run : row[r] \in Row => row'[r] \in Row OBVIOUS
<1>2. Listed'
  <2>1. Listed BY TypedFacts DEF IInv
  <2>2. ASSUME NEW r \in Run, InSeq(r, queue') \/ InSeq(r, processing') PROVE row'[r] \in Row
    BY <1>1, <2>1, <2>2 DEF Listed
  <2>3. ASSUME NEW t \in tasks' PROVE row'[t.run] \in Row
    <3>1. t.run \in Run BY DEF Task
    <3> QED BY <1>1, <2>1, <3>1 DEF Listed
  <2> QED BY <2>2, <2>3 DEF Listed
<1>3. ASSUME NEW r \in Run \ torn'
      PROVE  /\ row[r] \in Row => Before(row[r], row'[r])
             /\ Placed(r)' /\ Tasked(r)'
  <2>1. CASE r = h BY <2>1
  <2>2. CASE r # h
    <3>1. r \in Run \ torn /\ row'[r] = row[r] BY <2>2
    <3>2. Placed(r) BY <3>1 DEF IInv
    <3>3. ~Mover(p, r) /\ ~Mover(p, r)' BY <2>2, BoundsAssumption DEF Mover, InHand
    <3>4. Placed(r)' BY <2>2, <3>1, <3>2, <3>3, PlacedKept DEF Placed
    <3>5. row[r] \in Row => Before(row[r], row'[r]) BY <3>1, BeforeFacts DEF Same
    <3>6. \A t \in tasks' : t.run = r => t \in tasks BY <2>2
    <3>7. Tasked(r)' BY <3>1, <3>5, <3>6, TaskedKept
    <3> QED BY <3>4, <3>5, <3>7
  <2> QED BY <2>1, <2>2
<1>4. Shown(p) BY <1>1, <1>2, <1>3 DEF Shown
<1> QED BY <1>4, StepKeeps

LEMMA SetRowFacts ==
  ASSUME IInv, NEW p \in Pod, InHand(p) \in Run, NEW value \in Row, SetRow(p, value)
  PROVE  /\ row' \in [Run -> Row \cup {NoRow}] /\ row'[InHand(p)] = value
         /\ \A r \in Run \ {InHand(p)} : row'[r] = row[r]
BY TypedFacts DEF IInv, SetRow

\* The call returns, and its run keeps its status and its place.
LEMMA WriteBack ==
  ASSUME IInv, NEW p \in Pod, Busy(p), ~Moving(p), NEW value \in Row,
         SetRow(p, value), Return(p),
         UNCHANGED <<queue, processing, leases, tasks, crashes, lapses>>,
         NEW condition, Tear(p, condition),
         InHand(p) \notin torn' =>
            /\ Before(row[InHand(p)], value)
            /\ value.status = row[InHand(p)].status
  PROVE  IInv' /\ Forward
<1>1. PICK h \in Run : h = InHand(p) /\ row[h] \in Row BY CallFields DEF IInv
<1>2. /\ row' \in [Run -> Row \cup {NoRow}] /\ row'[h] = value
      /\ \A r \in Run \ {h} : row'[r] = row[r]
  BY <1>1, SetRowFacts
<1>3. torn' \subseteq Run /\ torn \subseteq torn' /\ \A r \in Run \ torn' : r \in Run \ torn
  BY <1>1, TearFacts
<1>4. /\ call' \in [Pod -> CallRec] /\ \A q \in Pod \ {p} : call'[q] = call[q]
      /\ call'[p] = Idle
  BY ReturnFacts DEF IInv
<1>5. CallTyped(p)' /\ OwnTask(p)' /\ ~(InHand(p)' \in Run) BY <1>4, IdleShown
<1>6. InHand(p)' = NoRun /\ ~Moving(p)' BY <1>4, IdleFacts DEF InHand, Moving
<1>7. ASSUME h \notin torn' PROVE Placed(h)' /\ Tasked(h)'
  <2>1. h \in Run \ torn BY <1>1, <1>3, <1>7
  <2>2. Placed(h) BY <2>1 DEF IInv
  <2>3. ~Mover(p, h) /\ ~Mover(p, h)' BY <1>6 DEF Mover
  <2>4. row'[h].status = row[h].status BY <1>1, <1>2, <1>7
  <2>5. Placed(h)'
    <3>1. Once(h, queue') /\ Once(h, processing') BY <2>2 DEF Placed
    <3> QED BY <1>1, <1>4, <2>1, <2>3, <2>4, <3>1, PlacedKept
  <2>6. Before(row[h], row'[h]) BY <1>1, <1>2, <1>7
  <2>7. Tasked(h)' BY <1>2, <2>1, <2>4, <2>6, TaskedKept
  <2> QED BY <2>5, <2>7
<1>8. /\ queue' \in Seq(Run) /\ processing' \in Seq(Run) /\ leases' \subseteq Run
      /\ tasks' \subseteq Task /\ crashes' \in 0..MaxCrashes /\ lapses' \in 0..MaxLapses
  BY TypedFacts DEF IInv
<1> QED BY <1>1, <1>2, <1>3, <1>4, <1>5, <1>6, <1>7, <1>8, HandStep

LEMMA CancelWriteKeeps == ASSUME IInv, NEW p \in Pod, CancelWrite(p) PROVE IInv' /\ Forward
<1> DEFINE h == InHand(p)
           value == [call[p].copy EXCEPT !.cancel_requested = TRUE]
<1>1. /\ call[p].at = "cancel" /\ SetRow(p, value) /\ Tear(p, Stale(p)) /\ Return(p)
      /\ UNCHANGED <<queue, processing, leases, tasks, crashes, lapses>>
  BY DEF CancelWrite, At
<1>2. Busy(p) /\ ~Moving(p) BY <1>1 DEF Busy, Moving
<1>3. /\ h \in Run /\ row[h] \in Row /\ call[p].seen \in Row /\ call[p].copy \in Row
  BY <1>1, <1>2, CallFields DEF IInv, Typed, CallTyped, Copying
<1>4. /\ value \in Row /\ value.status = call[p].copy.status
      /\ value.lease_generation = call[p].copy.lease_generation
      /\ value.cancel_requested = TRUE
  BY <1>3 DEF Row
<1> HIDE DEF value
<1>5. ASSUME h \notin torn' PROVE Before(row[h], value) /\ value.status = row[h].status
  <2>1. ~Stale(p) /\ h \in Run \ torn BY <1>1, <1>3, <1>5, TearFacts
  <2>2. Same(row[h], call[p].seen) BY <1>3, <2>1, NotStale
  <2>3. Same(call[p].copy, call[p].seen) BY <1>1, <2>1 DEF IInv, LooksBack
  <2> QED BY <1>3, <1>4, <2>2, <2>3, RowFields DEF Same, Before
<1> QED BY <1>1, <1>2, <1>4, <1>5, WriteBack

LEMMA BeatWriteKeeps == ASSUME IInv, NEW p \in Pod, BeatWrite(p) PROVE IInv' /\ Forward
<1> DEFINE h == InHand(p)
           value == [call[p].copy EXCEPT !.lease = "ahead"]
<1>1. /\ call[p].at = "refresh" /\ SetRow(p, value) /\ Tear(p, Stale(p)) /\ Return(p)
      /\ UNCHANGED <<queue, processing, leases, tasks, crashes, lapses>>
  BY DEF BeatWrite, At
<1>2. Busy(p) /\ ~Moving(p) BY <1>1 DEF Busy, Moving
<1>3. /\ h \in Run /\ row[h] \in Row /\ call[p].seen \in Row /\ call[p].copy \in Row
  BY <1>1, <1>2, CallFields DEF IInv, Typed, CallTyped, Copying
<1>4. value \in Row /\ Same(call[p].copy, value) BY <1>3 DEF Row, Same
<1> HIDE DEF value
<1>5. ASSUME h \notin torn' PROVE Before(row[h], value) /\ value.status = row[h].status
  <2>1. ~Stale(p) /\ h \in Run \ torn BY <1>1, <1>3, <1>5, TearFacts
  <2>2. Same(row[h], call[p].seen) BY <1>3, <2>1, NotStale
  <2>3. Before(call[p].seen, call[p].copy) /\ Before(call[p].copy, row[h])
    BY <1>1, <2>1 DEF IInv, LooksBack, InHand
  <2>4. Same(call[p].seen, row[h]) BY <2>2 DEF Same
  <2>5. Same(call[p].copy, row[h]) BY <1>3, <2>3, <2>4, BeforeFacts
  <2> QED BY <1>3, <1>4, <2>5, RowFields DEF Same, Before
<1> QED BY <1>1, <1>2, <1>4, <1>5, WriteBack
LEMMA FinishWriteKeeps == ASSUME IInv, NEW p \in Pod, FinishWrite(p) PROVE IInv' /\ Forward
<1> DEFINE value == [call[p].copy EXCEPT !.status = "ended", !.lease = "none"]
           own == Owner(p)
<1>1. /\ call[p].at = "finish" /\ SetRow(p, value) /\ Tear(p, Stale(p)) /\ Return(p)
      /\ tasks' = tasks \ {own}
      /\ UNCHANGED <<queue, processing, leases, crashes, lapses>>
  BY DEF FinishWrite, At
<1>2. Busy(p) /\ Copying(p) /\ ~Moving(p) BY <1>1 DEF Busy, Copying, Moving
<1>3. PICK h \in Run : h = InHand(p) /\ row[h] \in Row BY <1>2, CallFields DEF IInv
<1>4. call[p].seen \in Row /\ call[p].copy \in Row
  BY <1>1, <1>2 DEF IInv, Typed, CallTyped
<1>5. /\ value \in Row /\ value.status = "ended"
      /\ value.lease_generation = call[p].copy.lease_generation
      /\ value.cancel_requested = call[p].copy.cancel_requested
  BY <1>4 DEF Row
<1>6. /\ own \in tasks /\ own.pod = p /\ own.run = h
      /\ own.generation = call[p].seen.lease_generation
  <2>1. \E t \in tasks : t.pod = p /\ t.run = InHand(p)
                         /\ t.generation = call[p].seen.lease_generation
    BY <1>1 DEF IInv, OwnTask
  <2> QED BY <1>3, <2>1, Zenon DEF Owner
<1> HIDE DEF value, own
<1>7. /\ row' \in [Run -> Row \cup {NoRow}] /\ row'[h] = value
      /\ \A r \in Run \ {h} : row'[r] = row[r]
  BY <1>1, <1>3, <1>5, SetRowFacts
<1>8. /\ torn' \subseteq Run /\ torn \subseteq torn' /\ \A r \in Run \ torn' : r \in Run \ torn
      /\ h \notin torn' => ~Stale(p)
  BY <1>1, <1>3, TearFacts
<1>9. /\ call' \in [Pod -> CallRec] /\ \A q \in Pod \ {p} : call'[q] = call[q]
      /\ call'[p] = Idle
  BY <1>1, ReturnFacts DEF IInv
<1>10. CallTyped(p)' /\ OwnTask(p)' /\ ~(InHand(p)' \in Run) BY <1>9, IdleShown
<1>11. InHand(p)' = NoRun /\ ~Moving(p)' BY <1>9, IdleFacts DEF InHand, Moving
<1>12. ASSUME h \notin torn'
       PROVE  Before(row[h], row'[h]) /\ Placed(h)' /\ Tasked(h)'
  <2>1. ~Stale(p) /\ h \in Run \ torn BY <1>8, <1>12
  <2>2. Placed(h) /\ Tasked(h) /\ LooksBack(p) BY <1>3, <2>1 DEF IInv
  <2>3. Same(row[h], call[p].seen) BY <1>3, <1>4, <2>1, NotStale
  <2>4. Before(call[p].seen, call[p].copy) /\ Before(call[p].copy, row[h])
    BY <1>1, <1>3, <2>2 DEF LooksBack, InHand
  <2>5. Same(call[p].copy, row[h])
    <3>1. Same(call[p].seen, row[h]) BY <2>3 DEF Same
    <3> QED BY <1>3, <1>4, <2>4, <3>1, BeforeFacts
  <2>6. row[h].status = "running" BY <1>6, <2>2, <2>3 DEF Tasked, Same
  <2>7. Before(row[h], row'[h]) BY <1>3, <1>5, <1>7, <2>5, RowFields DEF Before, Same
  <2>8. Placed(h)'
    <3>1. /\ Once(h, queue) /\ Once(h, processing) /\ ~InSeq(h, queue)
          /\ \A q \in Pod : ~Mover(q, h)
      BY <1>3, <2>2, <2>6 DEF Placed
    <3>2. \A q \in Pod : ~Mover(q, h)'
      BY <1>9, <1>11, <3>1 DEF Mover, InHand, Moving
    <3> QED BY <1>1, <1>5, <1>7, <3>1, <3>2 DEF Placed
  <2>9. Tasked(h)'
    <3>1. \A t \in tasks' : t \in tasks /\ t # own BY <1>1
    <3>2. value.lease_generation = row[h].lease_generation BY <1>5, <2>5 DEF Same
    <3>3. own.generation = row[h].lease_generation BY <1>6, <2>3 DEF Same
    <3> QED BY <1>6, <1>7, <2>2, <3>1, <3>2, <3>3 DEF Tasked
  <2> QED BY <2>7, <2>8, <2>9
<1>13. /\ queue' \in Seq(Run) /\ processing' \in Seq(Run) /\ leases' \subseteq Run
       /\ tasks' \subseteq Task /\ crashes' \in 0..MaxCrashes /\ lapses' \in 0..MaxLapses
       /\ \A t \in tasks : t.pod # p => t \in tasks'
       /\ \A t \in tasks' : t \in tasks
  BY <1>1, <1>6, TypedFacts DEF IInv
<1> QED BY <1>1, <1>3, <1>5, <1>7, <1>8, <1>9, <1>10, <1>11, <1>12, <1>13, HandStep

\* A claim and a requeue count the generation on.
LEMMA CountedOn ==
  ASSUME NEW a \in Row
  PROVE  /\ Claimed(a) \in Row /\ Claimed(a).status = "running"
         /\ Reaped(a) \in Row /\ Reaped(a).status = "queued"
         /\ \A b \in {Claimed(a), Reaped(a)} :
              /\ b.lease_generation = a.lease_generation + 1
              /\ b.cancel_requested = a.cancel_requested
<1> DEFINE g == a.lease_generation + 1
<1>1. Claimed(a) = [status |-> "running", lease_generation |-> g,
                    lease |-> "ahead", cancel_requested |-> a.cancel_requested]
  <2>1. Claimed(a) = [a EXCEPT !.status = "running", !.lease = "ahead", !.lease_generation = g]
    BY Zenon DEF Claimed
  <2> HIDE DEF g
  <2> QED BY <2>1 DEF Row
<1>2. Reaped(a) = [status |-> "queued", lease_generation |-> g,
                   lease |-> "none", cancel_requested |-> a.cancel_requested]
  <2>1. Reaped(a) = [a EXCEPT !.status = "queued", !.lease = "none", !.lease_generation = g]
    BY Zenon DEF Reaped
  <2> HIDE DEF g
  <2> QED BY <2>1 DEF Row
<1>3. g \in Nat /\ a.cancel_requested \in BOOLEAN BY RowFields
<1>4. Claimed(a) \in Row /\ Reaped(a) \in Row BY <1>1, <1>2, <1>3 DEF Row
<1> QED BY <1>1, <1>2, <1>4

LEMMA ClaimWriteKeeps == ASSUME IInv, NEW p \in Pod, ClaimWrite(p) PROVE IInv' /\ Forward
<1> DEFINE value == Claimed(call[p].copy)
           new == [pod |-> p, run |-> InHand(p), generation |-> value.lease_generation]
<1>1. /\ call[p].at = "claim" /\ SetRow(p, value) /\ Tear(p, Stale(p)) /\ Return(p)
      /\ tasks' = tasks \cup {new} /\ leases' = leases \cup {InHand(p)}
      /\ UNCHANGED <<queue, processing, crashes, lapses>>
  BY DEF ClaimWrite, At
<1>2. Busy(p) /\ Copying(p) /\ Moving(p) BY <1>1 DEF Busy, Copying, Moving
<1>3. PICK h \in Run : h = InHand(p) /\ row[h] \in Row BY <1>2, CallFields DEF IInv
<1>4. call[p].seen \in Row /\ call[p].copy \in Row
  BY <1>1, <1>2 DEF IInv, Typed, CallTyped
<1>5. /\ value \in Row /\ value.status = "running"
      /\ value.lease_generation = call[p].copy.lease_generation + 1
      /\ value.cancel_requested = call[p].copy.cancel_requested
      /\ call[p].copy.lease_generation \in Nat
  BY <1>4, RowFields, CountedOn
<1> HIDE DEF value
<1>6. /\ new \in Task /\ new.pod = p /\ new.run = h /\ new.generation = value.lease_generation
  <2>1. value.lease_generation \in Nat \ {0} BY <1>5
  <2> QED BY <1>3, <2>1 DEF Task
<1> HIDE DEF new
<1>7. /\ row' \in [Run -> Row \cup {NoRow}] /\ row'[h] = value
      /\ \A r \in Run \ {h} : row'[r] = row[r]
  BY <1>1, <1>3, <1>5, SetRowFacts
<1>8. /\ torn' \subseteq Run /\ torn \subseteq torn' /\ \A r \in Run \ torn' : r \in Run \ torn
      /\ h \notin torn' => ~Stale(p)
  BY <1>1, <1>3, TearFacts
<1>9. /\ call' \in [Pod -> CallRec] /\ \A q \in Pod \ {p} : call'[q] = call[q]
      /\ call'[p] = Idle
  BY <1>1, ReturnFacts DEF IInv
<1>10. CallTyped(p)' /\ OwnTask(p)' /\ ~(InHand(p)' \in Run) BY <1>9, IdleShown
<1>11. InHand(p)' = NoRun /\ ~Moving(p)' BY <1>9, IdleFacts DEF InHand, Moving
<1>12. ASSUME h \notin torn'
       PROVE  Before(row[h], row'[h]) /\ Placed(h)' /\ Tasked(h)'
  <2>1. ~Stale(p) /\ h \in Run \ torn BY <1>8, <1>12
  <2>2. Placed(h) /\ Tasked(h) /\ LooksBack(p) BY <1>3, <2>1 DEF IInv
  <2>3. Same(row[h], call[p].seen) BY <1>3, <1>4, <2>1, NotStale
  <2>4. call[p].copy = call[p].seen /\ row[h].status = "queued"
    BY <1>1, <2>2, <2>3 DEF LooksBack, Same
  <2>5. value.lease_generation = row[h].lease_generation + 1
        /\ row[h].lease_generation \in Nat
        /\ value.cancel_requested = row[h].cancel_requested
    BY <1>3, <1>5, <2>3, <2>4, RowFields DEF Same
  <2>6. Before(row[h], row'[h]) BY <1>7, <2>4, <2>5 DEF Before
  <2>7. Placed(h)'
    <3>1. Mover(p, h) BY <1>2, <1>3 DEF Mover
    <3>2. /\ Once(h, queue) /\ Once(h, processing) /\ ~InSeq(h, queue) /\ InSeq(h, processing)
          /\ \A q \in Pod : Mover(q, h) => q = p
      BY <1>1, <2>2, <3>1 DEF Placed
    <3>3. \A q \in Pod : ~Mover(q, h)'
      BY <1>9, <1>11, <3>2 DEF Mover, InHand, Moving
    <3> QED BY <1>1, <1>5, <1>7, <3>2, <3>3 DEF Placed
  <2>8. Tasked(h)'
    <3>1. \A t \in tasks' : t \in tasks \/ t = new BY <1>1
    <3>2. \A t \in tasks : t.run = h => t.generation < value.lease_generation
      <4>1. \A t \in tasks : t.generation \in Nat BY TypedFacts DEF IInv, Task
      <4> QED BY <2>2, <2>5, <4>1 DEF Tasked
    <3>3. \A t \in tasks : t.run = h => t.generation # value.lease_generation
                                        /\ t.generation <= value.lease_generation
      <4>1. \A t \in tasks : t.generation \in Nat BY TypedFacts DEF IInv, Task
      <4> QED BY <2>5, <3>2, <4>1
    <3>4. value.lease_generation <= value.lease_generation BY <2>5
    <3> QED BY <1>5, <1>6, <1>7, <2>2, <3>1, <3>3, <3>4 DEF Tasked
  <2> QED BY <2>6, <2>7, <2>8
<1>13. /\ queue' \in Seq(Run) /\ processing' \in Seq(Run) /\ leases' \subseteq Run
       /\ tasks' \subseteq Task /\ crashes' \in 0..MaxCrashes /\ lapses' \in 0..MaxLapses
       /\ \A t \in tasks : t.pod # p => t \in tasks'
       /\ \A t \in tasks' : t.run # h => t \in tasks
  BY <1>1, <1>3, <1>6, TypedFacts DEF IInv
<1> QED BY <1>1, <1>3, <1>5, <1>7, <1>8, <1>9, <1>10, <1>11, <1>12, <1>13, HandStep

LEMMA ReapWriteKeeps == ASSUME IInv, NEW p \in Pod, ReapWrite(p) PROVE IInv' /\ Forward
<1> DEFINE value == Reaped(call[p].copy)
           c == [call[p] EXCEPT !.at = "remove", !.seen = value]
<1>1. /\ call[p].at = "requeue" /\ SetRow(p, value) /\ Tear(p, Stale(p)) /\ Goto(p, c)
      /\ UNCHANGED <<queue, processing, leases, tasks, crashes, lapses>>
  BY DEF ReapWrite, At
<1>2. Busy(p) /\ Copying(p) /\ Reaping(p) /\ ~Moving(p)
  BY <1>1 DEF Busy, Copying, Reaping, Moving
<1>3. PICK h \in Run : h = InHand(p) /\ row[h] \in Row BY <1>2, CallFields DEF IInv
<1>4. call[p] \in CallRec /\ call[p].seen \in Row /\ call[p].copy \in Row /\ CallTyped(p)
  BY <1>1, <1>2, CallFields DEF IInv, Typed, CallTyped
<1>5. /\ value \in Row /\ value.status = "queued"
      /\ value.lease_generation = call[p].copy.lease_generation + 1
      /\ value.cancel_requested = call[p].copy.cancel_requested
      /\ call[p].copy.lease_generation \in Nat
  BY <1>4, RowFields, CountedOn
<1> HIDE DEF value
<1>6. /\ c \in CallRec /\ c.at = "remove" /\ c.run = h /\ c.seen = value
      /\ c.rest = call[p].rest
  BY <1>3, <1>4, <1>5 DEF CallRec, Steps, InHand
<1> HIDE DEF c
<1>7. /\ row' \in [Run -> Row \cup {NoRow}] /\ row'[h] = value
      /\ \A r \in Run \ {h} : row'[r] = row[r]
  BY <1>1, <1>3, <1>5, SetRowFacts
<1>8. /\ torn' \subseteq Run /\ torn \subseteq torn' /\ \A r \in Run \ torn' : r \in Run \ torn
      /\ h \notin torn' => ~Stale(p)
  BY <1>1, <1>3, TearFacts
<1>9. /\ call' \in [Pod -> CallRec] /\ \A q \in Pod \ {p} : call'[q] = call[q]
      /\ call'[p] = c
  BY <1>1, <1>6, GotoFacts DEF IInv
<1>10. CallTyped(p)'
  <2>1. \A r \in Run : InSeq(r, c.rest) => row'[r] \in Row
    BY <1>4, <1>5, <1>6, <1>7 DEF CallTyped
  <2>2. c.rest # <<>> BY <1>2, <1>4, <1>6 DEF CallTyped
  <2> QED BY <1>5, <1>6, <1>7, <1>9, <2>1, <2>2
          DEF CallTyped, InHand, Busy, Reaping, Copying
<1>11. InHand(p)' = h /\ Moving(p)' /\ OwnTask(p)'
  BY <1>6, <1>9 DEF InHand, Moving, OwnTask
<1>12. LooksBack(p)'
  <2>1. Before(value, value) BY <1>5, BeforeFacts DEF Same
  <2> QED BY <1>6, <1>7, <1>9, <2>1 DEF LooksBack
<1>13. ASSUME h \notin torn'
       PROVE  Before(row[h], row'[h]) /\ Placed(h)' /\ Tasked(h)'
  <2>1. ~Stale(p) /\ h \in Run \ torn BY <1>8, <1>13
  <2>2. Placed(h) /\ LooksBack(p) BY <1>3, <2>1 DEF IInv
  <2>3. Same(row[h], call[p].seen) BY <1>3, <1>4, <2>1, NotStale
  <2>4. call[p].copy = call[p].seen /\ row[h].status = "running"
    BY <1>1, <2>2, <2>3 DEF LooksBack, Same
  <2>5. value.lease_generation = row[h].lease_generation + 1
        /\ row[h].lease_generation \in Nat
        /\ value.cancel_requested = row[h].cancel_requested
    BY <1>3, <1>5, <2>3, <2>4, RowFields DEF Same
  <2>6. Before(row[h], row'[h]) BY <1>7, <2>4, <2>5 DEF Before
  <2>7. Placed(h)'
    <3>1. /\ Once(h, queue) /\ Once(h, processing) /\ ~InSeq(h, queue)
          /\ \A q \in Pod : ~Mover(q, h)
      BY <1>3, <2>2, <2>4 DEF Placed
    <3>2. \A q \in Pod : Mover(q, h)' => q = p
      BY <1>9, <3>1 DEF Mover, InHand, Moving
    <3>3. Mover(p, h)' BY <1>11 DEF Mover
    <3> QED BY <1>1, <1>5, <1>6, <1>7, <1>9, <3>1, <3>2, <3>3 DEF Placed
  <2>8. Tasked(h)' BY <1>1, <1>5, <1>7, <2>1, <2>5, <2>6, TaskedKept
  <2> QED BY <2>6, <2>7, <2>8
<1>14. /\ queue' \in Seq(Run) /\ processing' \in Seq(Run) /\ leases' \subseteq Run
       /\ tasks' \subseteq Task /\ crashes' \in 0..MaxCrashes /\ lapses' \in 0..MaxLapses
  BY <1>1, TypedFacts DEF IInv
<1> QED BY <1>1, <1>3, <1>5, <1>7, <1>8, <1>9, <1>10, <1>11, <1>12, <1>13, <1>14, HandStep

-----------------------------------------------------------------------------
(* The commands that put a run on a list or take it off one.                *)
LEMMA CreateKeeps == ASSUME IInv, NEW p \in Pod, NEW h \in Run, Create(p, h) PROVE IInv' /\ Forward
<1> DEFINE c == [Idle EXCEPT !.at = "push", !.run = h]
<1>1. /\ call[p].at = "idle" /\ row[h] = NoRow /\ row' = [row EXCEPT ![h] = Fresh]
      /\ Goto(p, c)
      /\ UNCHANGED <<queue, processing, leases, tasks, torn, crashes, lapses>>
  BY DEF Create, Free
<1>2. Fresh \in Row /\ Fresh.status = "queued" BY DEF Fresh, Row
<1>3. c \in CallRec /\ c.at = "push" /\ c.run = h /\ c.rest = <<>>
  BY IdleFacts DEF CallRec, Steps, Idle
<1> HIDE DEF c
<1>4. /\ row' \in [Run -> Row \cup {NoRow}] /\ row'[h] = Fresh
      /\ \A r \in Run \ {h} : row'[r] = row[r]
  BY <1>1, <1>2, TypedFacts DEF IInv
<1>5. /\ call' \in [Pod -> CallRec] /\ \A q \in Pod \ {p} : call'[q] = call[q]
      /\ call'[p] = c
  BY <1>1, <1>3, GotoFacts DEF IInv
<1>6. InHand(p) = NoRun BY <1>1, CallFields DEF IInv, Busy
<1>7. InHand(p)' = h /\ OwnTask(p)' /\ LooksBack(p)' /\ Moving(p)'
  BY <1>3, <1>5 DEF InHand, OwnTask, LooksBack, Moving
<1>8. CallTyped(p)'
  BY <1>2, <1>3, <1>4, <1>5 DEF CallTyped, InHand, Busy, Reaping, Copying, InSeq
<1>9. row[h] \notin Row BY <1>1, NoRowAssumption
<1>10. /\ ~InSeq(h, queue) /\ ~InSeq(h, processing) /\ \A q \in Pod : ~Mover(q, h)
       /\ \A t \in tasks : t.run # h
  <2>1. Listed BY TypedFacts DEF IInv
  <2>2. \A q \in Pod : Mover(q, h) => row[h] \in Row
    BY CallFields DEF IInv, Mover, Moving, Busy
  <2> QED BY <1>9, <2>1, <2>2 DEF Listed
<1>11. ASSUME h \notin torn' PROVE Placed(h)' /\ Tasked(h)'
  <2>1. Once(h, queue) /\ Once(h, processing) BY <1>10 DEF Once, InSeq
  <2>2. \A q \in Pod : Mover(q, h)' => q = p BY <1>5, <1>10 DEF Mover, InHand, Moving
  <2>3. Mover(p, h)' BY <1>7 DEF Mover
  <2>4. Placed(h)' BY <1>1, <1>2, <1>3, <1>4, <1>5, <1>10, <2>1, <2>2, <2>3 DEF Placed
  <2>5. Tasked(h)' BY <1>1, <1>10 DEF Tasked
  <2> QED BY <2>4, <2>5
<1>12. /\ queue' \in Seq(Run) /\ processing' \in Seq(Run) /\ leases' \subseteq Run
       /\ tasks' \subseteq Task /\ torn' \subseteq Run
       /\ crashes' \in 0..MaxCrashes /\ lapses' \in 0..MaxLapses
  BY <1>1, TypedFacts DEF IInv
<1> QED BY <1>1, <1>2, <1>4, <1>5, <1>6, <1>7, <1>8, <1>9, <1>11, <1>12, HandStep

\* A run that is in the hands of a call that moves it onto the queue.
LEMMA OntoQueue ==
  ASSUME IInv, NEW p \in Pod, NEW h \in Run \ torn, Mover(p, h), row[h] \in Row,
         call[p].at \in {"push", "append"}, queue' = Append(queue, h), UNCHANGED <<row, processing>>,
         ~Moving(p)', \A q \in Pod \ {p} : call'[q] = call[q]
  PROVE  Placed(h)'
<1>1. Placed(h) BY DEF IInv
<1>2. queue \in Seq(Run) BY TypedFacts DEF IInv
<1>3. /\ row[h].status \in {"queued", "running", "ended"}
      /\ row[h].status = "queued"
  BY <1>1, RowFields DEF Placed
<1>4. /\ ~InSeq(h, queue) /\ ~InSeq(h, processing) /\ Once(h, queue) /\ Once(h, processing)
      /\ \A q \in Pod : Mover(q, h) => q = p
  BY <1>1 DEF Placed
<1>5. InSeq(h, queue') /\ Once(h, queue') BY <1>2, <1>4, AppendFacts
<1>6. \A q \in Pod : ~Mover(q, h)' BY <1>4 DEF Mover, InHand, Moving
<1> QED BY <1>3, <1>4, <1>5, <1>6 DEF Placed

LEMMA PushKeeps == ASSUME IInv, NEW p \in Pod, Push(p) PROVE IInv' /\ Forward
<1>1. /\ call[p].at = "push" /\ queue' = Append(queue, InHand(p)) /\ Return(p)
      /\ UNCHANGED <<row, processing, leases, tasks, torn, crashes, lapses>>
  BY DEF Push, At
<1>2. Busy(p) /\ Moving(p) BY <1>1 DEF Busy, Moving
<1>3. PICK h \in Run : h = InHand(p) /\ row[h] \in Row BY <1>2, CallFields DEF IInv
<1>4. /\ call' \in [Pod -> CallRec] /\ \A q \in Pod \ {p} : call'[q] = call[q]
      /\ call'[p] = Idle
  BY <1>1, ReturnFacts DEF IInv
<1>5. CallTyped(p)' /\ OwnTask(p)' /\ ~(InHand(p)' \in Run) BY <1>4, IdleShown
<1>6. InHand(p)' = NoRun /\ ~Moving(p)' BY <1>4, IdleFacts DEF InHand, Moving
<1>7. /\ queue' \in Seq(Run)
      /\ \A r \in Run \ {h} : /\ InSeq(r, queue') <=> InSeq(r, queue)
                              /\ Once(r, queue) => Once(r, queue')
  BY <1>1, <1>3, AppendFacts, TypedFacts DEF IInv
<1>8. ASSUME h \notin torn' PROVE Placed(h)' /\ Tasked(h)'
  <2>1. h \in Run \ torn BY <1>1, <1>8
  <2>2. Mover(p, h) BY <1>2, <1>3 DEF Mover
  <2>3. Placed(h)' BY <1>1, <1>3, <1>4, <1>6, <2>1, <2>2, OntoQueue
  <2>4. Before(row[h], row'[h]) BY <1>1, <1>3, BeforeFacts DEF Same
  <2>5. Tasked(h)' BY <1>1, <2>1, <2>4, TaskedKept
  <2> QED BY <2>3, <2>5
<1>9. Before(row[h], row'[h]) BY <1>1, <1>3, BeforeFacts DEF Same
<1>10. /\ row' \in [Run -> Row \cup {NoRow}] /\ processing' \in Seq(Run) /\ leases' \subseteq Run
       /\ tasks' \subseteq Task /\ torn' \subseteq Run
       /\ crashes' \in 0..MaxCrashes /\ lapses' \in 0..MaxLapses
  BY <1>1, TypedFacts DEF IInv
<1> QED BY <1>1, <1>3, <1>4, <1>5, <1>6, <1>7, <1>8, <1>9, <1>10, HandStep

LEMMA ReapAppendKeeps == ASSUME IInv, NEW p \in Pod, ReapAppend(p) PROVE IInv' /\ Forward
<1>1. /\ call[p].at = "append" /\ queue' = Append(queue, InHand(p)) /\ Proceed(p, "release")
      /\ Tear(p, Stale(p))
      /\ UNCHANGED <<row, processing, leases, tasks, crashes, lapses>>
  BY DEF ReapAppend, At
<1>2. Busy(p) /\ Moving(p) /\ Reaping(p) BY <1>1 DEF Busy, Moving, Reaping
<1>3. PICK h \in Run : h = InHand(p) /\ row[h] \in Row BY <1>2, CallFields DEF IInv
<1>4. /\ torn' \subseteq Run /\ torn \subseteq torn' /\ \A r \in Run \ torn' : r \in Run \ torn
  BY <1>1, <1>3, TearFacts
<1>5. /\ call' \in [Pod -> CallRec] /\ \A q \in Pod \ {p} : call'[q] = call[q]
      /\ call'[p].at = "release" /\ call'[p].run = call[p].run
      /\ call'[p].seen = call[p].seen /\ call'[p].copy = call[p].copy
      /\ call'[p].rest = call[p].rest
  BY <1>1, ProceedFacts DEF IInv, Steps
<1>6. CallTyped(p)' /\ OwnTask(p)'
  <2>1. CallTyped(p) BY DEF IInv, Typed
  <2> QED BY <1>1, <1>5, <2>1 DEF CallTyped, InHand, Busy, Reaping, Copying, OwnTask
<1>7. InHand(p)' = h /\ ~Moving(p)' BY <1>3, <1>5 DEF InHand, Moving
<1>8. h \notin torn' => LooksBack(p)'
  <2>1. h \notin torn' => LooksBack(p) BY <1>3, <1>4 DEF IInv
  <2> QED BY <1>1, <1>5, <2>1 DEF LooksBack
<1>9. /\ queue' \in Seq(Run)
      /\ \A r \in Run \ {h} : /\ InSeq(r, queue') <=> InSeq(r, queue)
                              /\ Once(r, queue) => Once(r, queue')
  BY <1>1, <1>3, AppendFacts, TypedFacts DEF IInv
<1>10. Before(row[h], row'[h]) BY <1>1, <1>3, BeforeFacts DEF Same
<1>11. ASSUME h \notin torn' PROVE Placed(h)' /\ Tasked(h)'
  <2>1. h \in Run \ torn BY <1>4, <1>11
  <2>2. Mover(p, h) BY <1>2, <1>3 DEF Mover
  <2>3. Placed(h)' BY <1>1, <1>3, <1>5, <1>7, <2>1, <2>2, OntoQueue
  <2>4. Tasked(h)' BY <1>1, <1>10, <2>1, TaskedKept
  <2> QED BY <2>3, <2>4
<1>12. /\ row' \in [Run -> Row \cup {NoRow}] /\ processing' \in Seq(Run) /\ leases' \subseteq Run
       /\ tasks' \subseteq Task
       /\ crashes' \in 0..MaxCrashes /\ lapses' \in 0..MaxLapses
  BY <1>1, TypedFacts DEF IInv
<1> QED BY <1>1, <1>3, <1>4, <1>5, <1>6, <1>7, <1>8, <1>9, <1>10, <1>11, <1>12, HandStep

LEMMA ClaimPopKeeps == ASSUME IInv, NEW p \in Pod, ClaimPop(p) PROVE IInv' /\ Forward
<1>1. PICK h : h = Head(queue) OBVIOUS
<1> DEFINE c == [Idle EXCEPT !.at = "claim", !.run = h, !.seen = row[h], !.copy = row[h]]
<1>2. /\ call[p].at = "idle" /\ queue # <<>> /\ queue' = Tail(queue)
      /\ processing' = Append(processing, h) /\ Goto(p, c)
      /\ UNCHANGED <<row, leases, tasks, torn, crashes, lapses>>
  BY <1>1 DEF ClaimPop, Free, PoppedOnto
<1>3. queue \in Seq(Run) /\ processing \in Seq(Run) /\ Listed BY TypedFacts DEF IInv
<1>4. h \in Run /\ InSeq(h, queue) BY <1>1, <1>2, <1>3, TailFacts
<1>5. row[h] \in Row BY <1>3, <1>4 DEF Listed
<1>6. /\ c \in CallRec /\ c.at = "claim" /\ c.run = h /\ c.seen = row[h] /\ c.copy = row[h]
      /\ c.rest = <<>>
  BY <1>4, <1>5, IdleFacts DEF CallRec, Steps, Idle
<1> HIDE DEF c
<1>7. /\ call' \in [Pod -> CallRec] /\ \A q \in Pod \ {p} : call'[q] = call[q]
      /\ call'[p] = c
  BY <1>2, <1>6, GotoFacts DEF IInv
<1>8. InHand(p) = NoRun BY <1>2, CallFields DEF IInv, Busy
<1>9. InHand(p)' = h /\ OwnTask(p)' /\ Moving(p)'
  BY <1>6, <1>7 DEF InHand, OwnTask, Moving
<1>10. CallTyped(p)'
  BY <1>2, <1>4, <1>5, <1>6, <1>7 DEF CallTyped, InHand, Busy, Reaping, Copying, InSeq
<1>11. /\ queue' \in Seq(Run) /\ processing' \in Seq(Run)
       /\ \A r \in Run \ {h} : /\ InSeq(r, queue') <=> InSeq(r, queue)
                               /\ Once(r, queue) => Once(r, queue')
                               /\ InSeq(r, processing') <=> InSeq(r, processing)
                               /\ Once(r, processing) => Once(r, processing')
       /\ Once(h, queue) => Once(h, queue') /\ ~InSeq(h, queue')
       /\ InSeq(h, processing')
       /\ Once(h, processing) /\ ~InSeq(h, processing) => Once(h, processing')
  BY <1>1, <1>2, <1>3, <1>4, TailFacts, AppendFacts
<1>12. Before(row[h], row'[h]) BY <1>2, <1>5, BeforeFacts DEF Same
<1>13. ASSUME h \notin torn PROVE Placed(h) /\ row[h].status = "queued"
  <2>1. Placed(h) BY <1>4, <1>13 DEF IInv
  <2> QED BY <1>4, <1>5, <2>1 DEF Placed
<1>14. h \notin torn' => LooksBack(p)'
  BY <1>2, <1>5, <1>6, <1>7, <1>12, <1>13 DEF LooksBack, Same
<1>15. ASSUME h \notin torn' PROVE Placed(h)' /\ Tasked(h)'
  <2>1. h \in Run \ torn BY <1>2, <1>4, <1>15
  <2>2. Placed(h) /\ row[h].status = "queued" BY <1>13, <2>1
  <2>3. /\ Once(h, queue) /\ Once(h, processing) /\ ~InSeq(h, processing)
        /\ \A q \in Pod : ~Mover(q, h)
    BY <1>4, <2>2 DEF Placed
  <2>4. \A q \in Pod : Mover(q, h)' => q = p BY <1>7, <2>3 DEF Mover, InHand, Moving
  <2>5. Mover(p, h)' BY <1>9 DEF Mover
  <2>6. Placed(h)' BY <1>2, <1>6, <1>7, <1>11, <2>2, <2>3, <2>4, <2>5 DEF Placed
  <2>7. Tasked(h)' BY <1>2, <1>12, <2>1, TaskedKept
  <2> QED BY <2>6, <2>7
<1>16. /\ row' \in [Run -> Row \cup {NoRow}] /\ leases' \subseteq Run
       /\ tasks' \subseteq Task /\ torn' \subseteq Run
       /\ crashes' \in 0..MaxCrashes /\ lapses' \in 0..MaxLapses
  BY <1>2, TypedFacts DEF IInv
<1> QED BY <1>2, <1>4, <1>5, <1>7, <1>8, <1>9, <1>10, <1>11, <1>12, <1>14, <1>15, <1>16, HandStep

\* LREM takes the run off the list, and no other.
LEMMA LRemFacts ==
  ASSUME NEW h \in Run, NEW s \in Seq(Run)
  PROVE  /\ LRem(h, s) \in Seq(Run) /\ ~InSeq(h, LRem(h, s))
         /\ \A r \in Run \ {h} : InSeq(r, LRem(h, s)) <=> InSeq(r, s)
         /\ \A r \in Run : Once(r, s) => Once(r, LRem(h, s))
<1>1. Filter(s, Run \ {h}) \in Seq(Run \cap (Run \ {h})) BY FilterFacts
<1>2. Filter(s, Run \ {h}) \in Seq(Run) BY <1>1
<1> QED BY <1>2, FilterFacts DEF LRem

LEMMA ReapDropKeeps == ASSUME IInv, NEW p \in Pod, ReapDrop(p) PROVE IInv' /\ Forward
<1> DEFINE popped == \E q \in Pod : PoppedBy(q, InHand(p))
<1>1. /\ call[p].at = "drop" /\ processing' = LRem(InHand(p), processing)
      /\ Goto(p, NextEntry(p)) /\ Tear(p, Stale(p) \/ popped)
      /\ UNCHANGED <<row, queue, leases, tasks, crashes, lapses>>
  BY DEF ReapDrop, At
<1>2. Busy(p) /\ ~Moving(p) /\ Reaping(p) BY <1>1 DEF Busy, Moving, Reaping
<1>3. PICK h \in Run : h = InHand(p) /\ row[h] \in Row BY <1>2, CallFields DEF IInv
<1>4. call[p].seen \in Row BY <1>1, <1>2 DEF IInv, Typed, CallTyped
<1>5. /\ torn' \subseteq Run /\ torn \subseteq torn' /\ \A r \in Run \ torn' : r \in Run \ torn
      /\ h \notin torn' => ~Stale(p) /\ ~popped
  <2> HIDE DEF popped
  <2> QED BY <1>1, <1>3, TearFacts
<1>6. /\ call' \in [Pod -> CallRec] /\ \A q \in Pod \ {p} : call'[q] = call[q]
      /\ CallTyped(p)' /\ OwnTask(p)' /\ ~(InHand(p)' \in Run) /\ ~Moving(p)'
  BY <1>1, <1>2, NextEntryFacts
<1>7. InHand(p)' = NoRun
  <2>1. call'[p].run \in Run \cup {NoRun} BY <1>6 DEF CallRec
  <2> QED BY <1>6, <2>1 DEF InHand
<1>8. /\ processing' \in Seq(Run) /\ ~InSeq(h, processing')
      /\ \A r \in Run \ {h} : InSeq(r, processing') <=> InSeq(r, processing)
      /\ \A r \in Run : Once(r, processing) => Once(r, processing')
  <2>1. processing \in Seq(Run) BY TypedFacts DEF IInv
  <2> QED BY <1>1, <1>3, <2>1, LRemFacts
<1>9. Before(row[h], row'[h]) BY <1>1, <1>3, BeforeFacts DEF Same
<1>10. ASSUME h \notin torn' PROVE Placed(h)' /\ Tasked(h)'
  <2>1. ~Stale(p) /\ ~popped /\ h \in Run \ torn BY <1>5, <1>10
  <2>2. Placed(h) /\ LooksBack(p) BY <1>3, <2>1 DEF IInv
  <2>3. Same(row[h], call[p].seen) BY <1>3, <1>4, <2>1, NotStale
  <2>4. row[h].status # "running" BY <1>1, <2>2, <2>3 DEF LooksBack, Same
  <2>5. \A q \in Pod : Mover(q, h) => call[q].at # "claim"
    BY <1>3, <2>1 DEF PoppedBy, Mover, At
  <2>6. \A q \in Pod : Mover(q, h)' <=> Mover(q, h)
    BY <1>2, <1>6 DEF Mover, InHand, Moving
  <2>7. \A q \in Pod : Mover(q, h) => call'[q].at = call[q].at
    BY <1>2, <1>6 DEF Mover
  <2>8. Placed(h)' BY <1>1, <1>8, <2>2, <2>4, <2>5, <2>6, <2>7 DEF Placed
  <2>9. Tasked(h)' BY <1>1, <1>9, <2>1, TaskedKept
  <2> QED BY <2>8, <2>9
<1>11. /\ row' \in [Run -> Row \cup {NoRow}] /\ queue' \in Seq(Run) /\ leases' \subseteq Run
       /\ tasks' \subseteq Task
       /\ crashes' \in 0..MaxCrashes /\ lapses' \in 0..MaxLapses
  BY <1>1, TypedFacts DEF IInv
<1> QED BY <1>1, <1>3, <1>5, <1>6, <1>7, <1>8, <1>9, <1>10, <1>11, HandStep

LEMMA ReapRemoveKeeps == ASSUME IInv, NEW p \in Pod, ReapRemove(p) PROVE IInv' /\ Forward
<1>1. /\ call[p].at = "remove" /\ processing' = LRem(InHand(p), processing)
      /\ Proceed(p, "append") /\ Tear(p, Stale(p))
      /\ UNCHANGED <<row, queue, leases, tasks, crashes, lapses>>
  BY DEF ReapRemove, At
<1>2. Busy(p) /\ Moving(p) /\ Reaping(p) BY <1>1 DEF Busy, Moving, Reaping
<1>3. PICK h \in Run : h = InHand(p) /\ row[h] \in Row BY <1>2, CallFields DEF IInv
<1>4. /\ torn' \subseteq Run /\ torn \subseteq torn' /\ \A r \in Run \ torn' : r \in Run \ torn
  BY <1>1, <1>3, TearFacts
<1>5. /\ call' \in [Pod -> CallRec] /\ \A q \in Pod \ {p} : call'[q] = call[q]
      /\ call'[p].at = "append" /\ call'[p].run = call[p].run
      /\ call'[p].seen = call[p].seen /\ call'[p].copy = call[p].copy
      /\ call'[p].rest = call[p].rest
  BY <1>1, ProceedFacts DEF IInv, Steps
<1>6. CallTyped(p)' /\ OwnTask(p)'
  <2>1. CallTyped(p) BY DEF IInv, Typed
  <2> QED BY <1>1, <1>5, <2>1 DEF CallTyped, InHand, Busy, Reaping, Copying, OwnTask
<1>7. InHand(p)' = h /\ Moving(p)' BY <1>3, <1>5 DEF InHand, Moving
<1>8. h \notin torn' => LooksBack(p)'
  <2>1. h \notin torn' => LooksBack(p) BY <1>3, <1>4 DEF IInv
  <2> QED BY <1>1, <1>5, <2>1 DEF LooksBack
<1>9. /\ processing' \in Seq(Run) /\ ~InSeq(h, processing')
      /\ \A r \in Run \ {h} : InSeq(r, processing') <=> InSeq(r, processing)
      /\ \A r \in Run : Once(r, processing) => Once(r, processing')
  <2>1. processing \in Seq(Run) BY TypedFacts DEF IInv
  <2> QED BY <1>1, <1>3, <2>1, LRemFacts
<1>10. Before(row[h], row'[h]) BY <1>1, <1>3, BeforeFacts DEF Same
<1>11. ASSUME h \notin torn' PROVE Placed(h)' /\ Tasked(h)'
  <2>1. h \in Run \ torn BY <1>4, <1>11
  <2>2. Placed(h) BY <2>1 DEF IInv
  <2>3. Mover(p, h) /\ Mover(p, h)' BY <1>2, <1>3, <1>7 DEF Mover
  <2>4. /\ row[h].status = "queued" /\ ~InSeq(h, queue) /\ Once(h, queue) /\ Once(h, processing)
        /\ \A q \in Pod : Mover(q, h) => q = p
    BY <1>3, <2>2, <2>3, RowFields DEF Placed
  <2>5. \A q \in Pod : Mover(q, h)' => q = p BY <1>5, <2>4 DEF Mover, InHand, Moving
  <2>6. Placed(h)' BY <1>1, <1>5, <1>9, <2>3, <2>4, <2>5 DEF Placed
  <2>7. Tasked(h)' BY <1>1, <1>10, <2>1, TaskedKept
  <2> QED BY <2>6, <2>7
<1>12. /\ row' \in [Run -> Row \cup {NoRow}] /\ queue' \in Seq(Run) /\ leases' \subseteq Run
       /\ tasks' \subseteq Task
       /\ crashes' \in 0..MaxCrashes /\ lapses' \in 0..MaxLapses
  BY <1>1, TypedFacts DEF IInv
<1> QED BY <1>1, <1>3, <1>4, <1>5, <1>6, <1>7, <1>8, <1>9, <1>10, <1>11, <1>12, HandStep

-----------------------------------------------------------------------------
(* Crashes and the clock.                                                   *)
LEMMA CrashKeeps == ASSUME IInv, NEW p \in Pod, Crash(p) PROVE IInv' /\ Forward
<1>1. /\ crashes < MaxCrashes /\ crashes' = crashes + 1 /\ tasks' = {t \in tasks : t.pod # p}
      /\ Tear(p, Moving(p)) /\ Return(p)
      /\ UNCHANGED <<row, queue, processing, leases, lapses>>
  BY DEF Crash
<1>2. /\ call' \in [Pod -> CallRec] /\ \A q \in Pod \ {p} : call'[q] = call[q]
      /\ call'[p] = Idle
  BY <1>1, ReturnFacts DEF IInv
<1>3. CallTyped(p)' /\ OwnTask(p)' /\ ~(InHand(p)' \in Run) BY <1>2, IdleShown
<1>4. InHand(p)' = NoRun /\ ~Moving(p)' BY <1>2, IdleFacts DEF InHand, Moving
<1>5. crashes' \in 0..MaxCrashes
  <2>1. crashes \in 0..MaxCrashes /\ MaxCrashes \in Nat
    BY TypedFacts, BoundsAssumption DEF IInv
  <2> QED BY <1>1, <2>1
<1>6. /\ row' \in [Run -> Row \cup {NoRow}] /\ queue' \in Seq(Run) /\ processing' \in Seq(Run)
      /\ leases' \subseteq Run /\ tasks' \subseteq Task /\ tasks' \subseteq tasks
      /\ \A t \in tasks : t.pod # p => t \in tasks'
      /\ lapses' \in 0..MaxLapses
  BY <1>1, TypedFacts DEF IInv
<1>7. CASE InHand(p) \in Run
  <2>1. PICK h \in Run : h = InHand(p) BY <1>7
  <2>2. row[h] \in Row BY <2>1, CallFields, BoundsAssumption DEF IInv
  <2>3. /\ torn' \subseteq Run /\ torn \subseteq torn' /\ \A r \in Run \ torn' : r \in Run \ torn
        /\ h \notin torn' => ~Moving(p)
    <3> DEFINE moving == Moving(p)
    <3>1. Tear(p, moving) BY <1>1
    <3> HIDE DEF moving
    <3>2. h \notin torn' => ~moving BY <1>7, <2>1, <3>1, TearFacts
    <3>3. torn' \subseteq Run /\ torn \subseteq torn' /\ \A r \in Run \ torn' : r \in Run \ torn
      BY <1>7, <3>1, TearFacts
    <3> QED BY <3>2, <3>3 DEF moving
  <2>4. Before(row[h], row'[h]) BY <1>1, <2>2, BeforeFacts DEF Same
  <2>5. ASSUME h \notin torn' PROVE Placed(h)' /\ Tasked(h)'
    <3>1. h \in Run \ torn /\ ~Mover(p, h) /\ ~Mover(p, h)' BY <1>4, <2>3, <2>5 DEF Mover
    <3>2. Once(h, queue') /\ Once(h, processing') BY <1>1, <3>1 DEF IInv, Placed
    <3>3. Placed(h)' BY <1>1, <1>2, <2>2, <3>1, <3>2, PlacedKept
    <3>4. Tasked(h)' BY <1>1, <1>6, <2>2, <2>4, <3>1, TaskedKept
    <3> QED BY <3>3, <3>4
  <2> QED BY <1>1, <1>2, <1>3, <1>4, <1>5, <1>6, <2>1, <2>2, <2>3, <2>4, <2>5, HandStep
<1>8. CASE InHand(p) \notin Run
  <2>1. InHand(p) = NoRun /\ ~Moving(p) BY <1>8, CallFields DEF IInv, Moving, Busy
  <2>2. torn' = torn /\ torn \subseteq Run BY <1>1, <2>1, TypedFacts DEF Tear, IInv
  <2>3. ASSUME NEW r \in Run \ torn' PROVE Placed(r)' /\ Tasked(r)'
    <3>1. r \in Run \ torn /\ ~Mover(p, r) /\ ~Mover(p, r)' BY <1>4, <2>1, <2>2 DEF Mover
    <3>2. Once(r, queue') /\ Once(r, processing') BY <1>1, <3>1 DEF IInv, Placed
    <3>3. Placed(r)' BY <1>1, <1>2, <3>1, <3>2, PlacedKept
    <3>4. row[r] \in Row => Before(row[r], row'[r]) BY <1>1, BeforeFacts DEF Same
    <3>5. Tasked(r)' BY <1>1, <1>6, <3>1, <3>4, TaskedKept
    <3> QED BY <3>3, <3>5
  <2>4. Listed' BY <1>1, TypedFacts DEF IInv, Listed
  <2>5. \A r \in Run : row[r] \in Row => Before(row[r], row'[r]) BY <1>1, BeforeFacts DEF Same
  <2>6. Shown(p) BY <1>1, <1>2, <1>3, <1>5, <1>6, <2>2, <2>3, <2>4, <2>5 DEF Shown
  <2> QED BY <2>6, StepKeeps
<1> QED BY <1>7, <1>8

\* Nothing the invariant speaks of has changed.
LEMMA NothingSeen ==
  ASSUME IInv, UNCHANGED <<row, queue, processing, call, tasks, torn>>,
         leases' \subseteq Run, crashes' \in 0..MaxCrashes, lapses' \in 0..MaxLapses
  PROVE  IInv' /\ Forward
<1>1. TypeOK' BY DEF IInv, Typed, TypeOK
<1>2. Listed' BY DEF IInv, Typed, Listed
<1>3. \A p \in Pod : CallTyped(p)'
  BY DEF IInv, Typed, CallTyped, Busy, Reaping, Copying, InHand
<1>4. \A p \in Pod : OwnTask(p)' /\ (InHand(p)' \in Run \ torn' => LooksBack(p)')
  BY DEF IInv, OwnTask, LooksBack, InHand
<1>5. \A r \in Run \ torn' : Placed(r)' /\ Tasked(r)'
  BY DEF IInv, Placed, Tasked, Mover, InHand, Moving
<1>6. Forward BY TypedFacts, BeforeFacts DEF IInv, Forward, Same
<1> QED BY <1>1, <1>2, <1>3, <1>4, <1>5, <1>6 DEF IInv, Typed

LEMMA KeyEndsKeeps == ASSUME IInv, NEW r \in Run, KeyEnds(r) PROVE IInv' /\ Forward
<1>1. /\ lapses < MaxLapses /\ leases' = leases \ {r} /\ lapses' = lapses + 1
      /\ UNCHANGED <<row, queue, processing, call, tasks, torn, crashes>>
  BY DEF KeyEnds
<1>2. lapses \in 0..MaxLapses /\ MaxLapses \in Nat /\ crashes' \in 0..MaxCrashes /\ leases' \subseteq Run
  BY <1>1, TypedFacts, BoundsAssumption DEF IInv
<1>3. lapses' \in 0..MaxLapses BY <1>1, <1>2
<1> QED BY <1>1, <1>2, <1>3, NothingSeen

LEMMA DeadlinePassesKeeps ==
  ASSUME IInv, NEW h \in Run, DeadlinePasses(h) PROVE IInv' /\ Forward
<1>1. /\ lapses < MaxLapses /\ row[h] # NoRow /\ row' = [row EXCEPT ![h].lease = "past"]
      /\ call' = [p \in Pod |-> IF At(p, "cancel") /\ InHand(p) = h /\ call[p].copy.lease = "ahead"
                                THEN [call[p] EXCEPT !.copy.lease = "past"] ELSE call[p]]
      /\ lapses' = lapses + 1
      /\ UNCHANGED <<queue, processing, leases, tasks, torn, crashes>>
  BY DEF DeadlinePasses
<1>2. lapses' \in 0..MaxLapses
  <2>1. lapses \in 0..MaxLapses /\ MaxLapses \in Nat BY TypedFacts, BoundsAssumption DEF IInv
  <2> QED BY <1>1, <2>1
<1>3. ASSUME NEW a \in Row
      PROVE [a EXCEPT !.lease = "past"] \in Row /\ Same([a EXCEPT !.lease = "past"], a)
  BY DEF Row, Same
<1>4. /\ row' \in [Run -> Row \cup {NoRow}]
      /\ \A r \in Run : row[r] \in Row => row'[r] \in Row /\ Same(row'[r], row[r])
      /\ \A r \in Run : row'[r] \in Row => row[r] \in Row
  <2>1. row[h] \in Row BY <1>1, TypedFacts DEF IInv
  <2>2. /\ row' \in [Run -> Row \cup {NoRow}]
        /\ row'[h] = [row[h] EXCEPT !.lease = "past"] /\ \A r \in Run \ {h} : row'[r] = row[r]
    BY <1>1, <1>3, <2>1, TypedFacts DEF IInv
  <2> DEFINE a == [row[h] EXCEPT !.lease = "past"]
  <2>3. a \in Row /\ Same(a, row[h]) BY <1>3, <2>1
  <2> HIDE DEF a
  <2>4. row'[h] = a BY <2>2 DEF a
  <2>5. \A r \in Run : Same(row[r], row[r]) BY DEF Same
  <2> QED BY <2>1, <2>2, <2>3, <2>4, <2>5
<1>5. ASSUME NEW p \in Pod
      PROVE  /\ call'[p] \in CallRec /\ call'[p].at = call[p].at /\ call'[p].run = call[p].run
             /\ call'[p].seen = call[p].seen /\ call'[p].rest = call[p].rest
             /\ call[p].at # "cancel" => call'[p].copy = call[p].copy
             /\ call[p].copy \in Row => call'[p].copy \in Row /\ Same(call'[p].copy, call[p].copy)
  <2>1. call[p] \in CallRec BY CallFields DEF IInv
  <2>2. CASE call'[p] = call[p] BY <2>1, <2>2 DEF Same
  <2>3. CASE At(p, "cancel") /\ call'[p] = [call[p] EXCEPT !.copy.lease = "past"]
    <3>1. call[p].copy \in Row BY <2>3 DEF IInv, Typed, CallTyped, At, Copying
    <3> DEFINE a == [call[p].copy EXCEPT !.lease = "past"]
    <3>2. call'[p] = [call[p] EXCEPT !.copy = a] BY <2>3, Zenon
    <3>3. a \in Row /\ Same(a, call[p].copy) BY <1>3, <3>1
    <3> HIDE DEF a
    <3> QED BY <2>1, <2>3, <3>2, <3>3 DEF CallRec, At
  <2> QED BY <1>1, <2>2, <2>3
<1>6. call' \in [Pod -> CallRec] BY <1>1, <1>5
<1>7. TypeOK' BY <1>1, <1>2, <1>4, <1>6, TypedFacts DEF IInv, TypeOK, CallRec
<1>8. Listed'
  <2>1. Listed /\ tasks \subseteq Task BY TypedFacts DEF IInv
  <2> QED BY <1>1, <1>4, <2>1 DEF Listed, Task
<1>9. ASSUME NEW p \in Pod PROVE CallTyped(p)' /\ OwnTask(p)'
  <2>1. CallTyped(p) /\ OwnTask(p) BY DEF IInv, Typed
  <2>2. CallTyped(p)' BY <1>4, <1>5, <2>1 DEF CallTyped, Busy, Reaping, Copying, InHand
  <2>3. OwnTask(p)' BY <1>1, <1>5, <2>1 DEF OwnTask, InHand
  <2> QED BY <2>2, <2>3
<1>10. ASSUME NEW p \in Pod, InHand(p)' \in Run \ torn' PROVE LooksBack(p)'
  <2>1. InHand(p) \in Run \ torn /\ InHand(p)' = InHand(p) BY <1>1, <1>5, <1>10 DEF InHand
  <2>2. LooksBack(p) /\ CallTyped(p) BY <2>1 DEF IInv, Typed
  <2>3. Busy(p) /\ row[InHand(p)] \in Row BY <2>1, <2>2 DEF CallTyped
  <2>4. \A a \in Row : Before(a, row[InHand(p)]) => Before(a, row'[InHand(p)])
    BY <1>4, <2>1, <2>3 DEF Same, Before
  <2>5. call[p].at # "push" => call[p].seen \in Row BY <2>2, <2>3 DEF CallTyped
  <2>6. Copying(p) => call[p].copy \in Row BY <2>2 DEF CallTyped
  <2>7. call[p].at = "cancel" => Same(call'[p].copy, call[p].seen)
    BY <1>5, <2>2, <2>6 DEF LooksBack, Same, Copying
  <2> QED BY <1>5, <2>1, <2>2, <2>4, <2>5, <2>6, <2>7 DEF LooksBack, InHand, Copying
<1>11. ASSUME NEW r \in Run \ torn' PROVE Placed(r)' /\ Tasked(r)'
  <2>1. r \in Run \ torn BY <1>1
  <2>2. Placed(r) BY <2>1 DEF IInv
  <2>3. \A p \in Pod : call'[p].at = call[p].at /\ (Mover(p, r)' <=> Mover(p, r))
    BY <1>5 DEF Mover, Moving, InHand
  <2>4. row'[r] \in Row => row[r] \in Row /\ row'[r].status = row[r].status
    BY <1>4 DEF Same
  <2>5. Placed(r)' BY <1>1, <2>2, <2>3, <2>4 DEF Placed
  <2>6. row[r] \in Row => row'[r] \in Row /\ Before(row[r], row'[r])
                          /\ row'[r].status = row[r].status
    <3>1. row[r] \in Row => Same(row[r], row'[r]) BY <1>4 DEF Same
    <3> QED BY <1>4, <3>1, BeforeFacts DEF Same
  <2>7. Tasked(r)' BY <1>1, <2>1, <2>6, TaskedKept
  <2> QED BY <2>5, <2>7
<1>12. Forward
  <2>1. \A r \in Run : row[r] # NoRow => row[r] \in Row BY TypedFacts DEF IInv
  <2>2. \A r \in Run : row[r] \in Row => Same(row[r], row'[r]) BY <1>4 DEF Same
  <2> QED BY <1>4, <2>1, <2>2, BeforeFacts DEF Forward
<1> QED BY <1>7, <1>8, <1>9, <1>10, <1>11, <1>12 DEF IInv, Typed

-----------------------------------------------------------------------------
LEMMA InitHolds == ASSUME Init PROVE IInv
<1>1. /\ row = [r \in Run |-> NoRow] /\ queue = <<>> /\ processing = <<>> /\ leases = {}
      /\ call = [p \in Pod |-> Idle] /\ tasks = {} /\ torn = {} /\ crashes = 0 /\ lapses = 0
  BY DEF Init
<1>2. Len(<<>>) = 0 /\ 1..0 = {} /\ <<>> \in Seq(Run) OBVIOUS
<1>3. \A r \in Run : ~InSeq(r, queue) /\ ~InSeq(r, processing)
                     /\ Once(r, queue) /\ Once(r, processing) /\ row[r] = NoRow
  BY <1>1, <1>2 DEF InSeq, Once
<1>4. \A p \in Pod : call[p] = Idle BY <1>1
<1>5. TypeOK
  <2>1. call \in [Pod -> CallRec] BY <1>1, IdleFacts
  <2>2. 0 \in 0..MaxCrashes /\ 0 \in 0..MaxLapses BY BoundsAssumption
  <2>3. row \in [Run -> Row \cup {NoRow}] BY <1>1
  <2> QED BY <1>1, <1>2, <2>1, <2>2, <2>3 DEF TypeOK, CallRec
<1>6. Listed BY <1>1, <1>3 DEF Listed
<1>7. \A p \in Pod : CallTyped(p) /\ OwnTask(p) /\ InHand(p) \notin Run
  BY <1>2, <1>4, IdleFacts, BoundsAssumption
     DEF CallTyped, OwnTask, InHand, Busy, Reaping, Copying, InSeq
<1>8. \A r \in Run : Placed(r) /\ Tasked(r)
  <2>1. \A p \in Pod : ~Moving(p) BY <1>4, IdleFacts DEF Moving
  <2> QED BY <1>1, <1>3, <2>1, NoRowAssumption DEF Placed, Tasked, Mover
<1> QED BY <1>5, <1>6, <1>7, <1>8 DEF IInv, Typed

LEMMA NextKeeps == ASSUME IInv, [Next]_vars PROVE IInv' /\ Forward
<1>1. ASSUME NEW p \in Pod, Store(p) PROVE IInv' /\ Forward
  BY <1>1, PushKeeps, CancelWriteKeeps, ClaimPopKeeps, ClaimWriteKeeps, BeatKeyKeeps,
     BeatReadKeeps, BeatWriteKeeps, FinishReadKeeps, FinishWriteKeeps, ReapListKeeps,
     ReapReadKeeps, ReapDropKeeps, ReapExpiredKeeps, ReapWriteKeeps, ReapRemoveKeeps,
     ReapAppendKeeps, ReapReleaseKeeps DEF Store
<1>2. CASE UNCHANGED vars BY <1>2, TypedFacts, NothingSeen DEF vars, IInv
<1>3. CASE \E p \in Pod : Store(p) \/ Crash(p) BY <1>1, <1>3, CrashKeeps
<1>4. CASE \E p \in Pod, r \in Run : Create(p, r) \/ CancelRead(p, r)
  BY <1>4, CreateKeeps, CancelReadKeeps
<1>5. CASE \E t \in tasks : Beat(t) \/ FinishCheck(t) BY <1>5, BeatKeeps, FinishCheckKeeps
<1>6. CASE \E r \in Run : DeadlinePasses(r) \/ KeyEnds(r)
  BY <1>6, DeadlinePassesKeeps, KeyEndsKeeps
<1> QED BY <1>2, <1>3, <1>4, <1>5, <1>6 DEF Next

THEOREM Inductive == Spec => []IInv
<1>1. Init => IInv BY InitHolds
<1>2. IInv /\ [Next]_vars => IInv' BY NextKeeps
<1> QED BY <1>1, <1>2, PTL DEF Spec

-----------------------------------------------------------------------------
\* Every record, list and call of the store keeps its type, and an execution
\* runs under a positive generation, as a claim leaves it (claim_next).
THEOREM TypeCorrect == Spec => []TypeOK
<1>1. IInv => TypeOK BY DEF IInv, Typed
<1> QED BY <1>1, Inductive, PTL

\* Between any two commands of any calls a run that no call was torn on can
\* still be claimed, or reaped, or is about to be listed.
THEOREM ReachableSound == Spec => []Reachable
<1>1. ASSUME IInv PROVE Reachable
  <2> SUFFICES ASSUME NEW r \in Run \ torn, row[r] # NoRow
               PROVE  /\ row[r].status = "queued" => InSeq(r, queue) \/ Moved(r)
                      /\ row[r].status = "running" => InSeq(r, processing)
    BY DEF Reachable
  <2>1. row[r] \in Row /\ Placed(r) BY <1>1, TypedFacts DEF IInv
  <2> QED BY <2>1 DEF Placed, Mover, Moved
<1> QED BY <1>1, Inductive, PTL

\* No interleaving of claims, reaps and cancellations lists an untorn run
\* twice, on one list or on both.
THEOREM ListedOnceSound == Spec => []ListedOnce
<1>1. ASSUME IInv PROVE ListedOnce
  <2> SUFFICES ASSUME NEW r \in Run \ torn PROVE Cardinality(Entries(r)) <= 1
    BY DEF ListedOnce
  <2> DEFINE Q == {i \in 1..Len(queue) : queue[i] = r}
             P == {j \in 1..Len(processing) : processing[j] = r}
  <2>1. /\ Once(r, queue) /\ Once(r, processing) /\ ~(InSeq(r, queue) /\ InSeq(r, processing))
    BY <1>1 DEF IInv, Placed
  <2>2. \A i, j \in Q : i = j BY <2>1 DEF Once
  <2>3. \A i, j \in P : i = j BY <2>1 DEF Once
  <2>4. Q = {} \/ P = {} BY <2>1 DEF InSeq
  <2>5. Entries(r) = Q \cup {-i : i \in P} BY DEF Entries
  <2> HIDE DEF Q, P
  <2>6. \A i, j \in Entries(r) : i = j
    <3>1. CASE P = {}
      <4>1. Entries(r) = Q BY <2>5, <3>1
      <4> QED BY <2>2, <4>1
    <3>2. CASE Q = {}
      <4>1. \A i \in Entries(r) : \E k \in P : i = -k BY <2>5, <3>2
      <4> QED BY <2>3, <4>1, Zenon
    <3> QED BY <2>4, <3>1, <3>2
  <2>7. Entries(r) = {} \/ \E x : Entries(r) = {x} BY <2>6
  <2> HIDE DEF Entries
  <2>8. CASE Entries(r) = {} BY <2>8, FS_EmptySet
  <2>9. CASE \E x : Entries(r) = {x}
    <3>1. PICK x : Entries(r) = {x} BY <2>9
    <3>2. Cardinality(Entries(r)) = 1 BY <3>1, FS_Singleton, Zenon
    <3> QED BY <3>2
  <2> QED BY <2>7, <2>8, <2>9
<1> QED BY <1>1, Inductive, PTL

\* A whole-record write takes nothing back that another call has written in
\* between, unless that write is counted as torn.
THEOREM ForwardSound == Spec => MovesForward
<1>1. ASSUME IInv, [Next]_vars
      PROVE [\A r \in Run : row[r] # NoRow /\ r \notin torn' =>
               /\ row'[r].lease_generation >= row[r].lease_generation
               /\ row[r].cancel_requested => row'[r].cancel_requested
               /\ row[r].status = "ended" => row'[r].status = "ended"]_vars
  <2>1. Forward BY <1>1, NextKeeps
  <2>2. ASSUME NEW r \in Run, row[r] # NoRow, r \notin torn'
        PROVE  /\ row'[r].lease_generation >= row[r].lease_generation
               /\ row[r].cancel_requested => row'[r].cancel_requested
               /\ row[r].status = "ended" => row'[r].status = "ended"
    <3>1. row[r] \in Row BY <1>1, <2>2, TypedFacts DEF IInv
    <3>2. row'[r] \in Row /\ Before(row[r], row'[r]) BY <2>1, <2>2 DEF Forward
    <3> QED BY <3>1, <3>2, RowFields DEF Before
  <2> QED BY <2>2
<1> QED BY <1>1, Inductive, PTL DEF Spec, MovesForward
=============================================================================
