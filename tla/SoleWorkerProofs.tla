-------------------------- MODULE SoleWorkerProofs --------------------------
(***************************************************************************)
(* What one process over a store adds: between reading the fence and the   *)
(* update that relies on it no other coroutine runs, so an outcome is only *)
(* ever written by the holder of a running run.                            *)
(***************************************************************************)
EXTENDS RunWorkerProofs

SoleInv == FleetInv /\ SoleWorkerInv

\* One process, the only one that claims from the store.
OneProcess == \E p \in Pods : Pods = {p}

-----------------------------------------------------------------------------
\* Rows that keep their status and fence, whatever else a store call did.
RowsRest ==
    \A r \in Runs :
        /\ rec'[r].status = rec[r].status
        /\ rec'[r].lease_generation = rec[r].lease_generation
        /\ rec[r].cancel_requested => rec'[r].cancel_requested

\* Nobody advances: tasks stay as they are or go away.
LEMMA RestingTasks ==
    ASSUME SoleInv, FleetInv', RowsRest, posts' = posts, tasks' \subseteq tasks
    PROVE  SoleInv'
<1>0. /\ \A t \in tasks : t.run \in Runs
      /\ \A c \in posts : c.run \in Runs
  BY DEF SoleInv, FleetInv, TypeInv, TypeOK, Task, Post
<1>1. HolderRuns'
  BY <1>0 DEF SoleInv, SoleWorkerInv, HolderRuns, GenerationCurrent, RowsRest
<1>2. WriterIsCurrent'
  BY <1>0 DEF SoleInv, SoleWorkerInv, WriterIsCurrent, GenerationCurrent, RowsRest
<1>3. OutcomesAreEarned'
  BY <1>0 DEF SoleInv, SoleWorkerInv, OutcomesAreEarned, RowsRest
<1>4. CallbackIsTruthful'
  BY <1>0 DEF SoleInv, SoleWorkerInv, CallbackIsTruthful, RowsRest
<1> QED
  BY <1>1, <1>2, <1>3, <1>4 DEF SoleInv, SoleWorkerInv, FleetInv

\* One task advances to a point where its claims still hold.
LEMMA AdvancingTask ==
    ASSUME SoleInv, FleetInv', RowsRest, posts' = posts,
           NEW t \in tasks, NEW u \in Task, SameClaim(t, u), Advance(t, u),
           t.pc = "callback" => u.pc = "callback",
           u.pc = "write" => GenerationCurrent(t),
           u.pc \in {"ended", "write"} =>
               /\ u.outcome \in Rested
               /\ u.outcome = "cancelled" => rec[t.run].cancel_requested,
           u.pc = "callback" => t.pc = "callback" /\ u.outcome = t.outcome
    PROVE  SoleInv'
<1>0. /\ \A v \in tasks : v.run \in Runs
      /\ \A c \in posts : c.run \in Runs
  BY DEF SoleInv, FleetInv, TypeInv, TypeOK, Task, Post
<1>u. u.run = t.run /\ u.gen = t.gen
  BY DEF SameClaim
<1>a. tasks' = (tasks \ {t}) \cup {u}
  BY DEF Advance
<1>1. HolderRuns'
  BY <1>0, <1>u, <1>a DEF SoleInv, SoleWorkerInv, HolderRuns, GenerationCurrent, RowsRest
<1>2. WriterIsCurrent'
  BY <1>0, <1>u, <1>a DEF SoleInv, SoleWorkerInv, WriterIsCurrent, GenerationCurrent, RowsRest
<1>3. OutcomesAreEarned'
  <2>1. OutcomesAreEarned
    BY DEF SoleInv, SoleWorkerInv
  <2>2. ASSUME NEW v \in tasks'
        PROVE  /\ v.pc \in {"ended", "write"} => v.outcome \in Rested
               /\ v.pc \in {"ended", "write"} /\ v.outcome = "cancelled"
                     => rec'[v.run].cancel_requested
               /\ v.pc = "callback" => /\ v.outcome \in TERMINAL_STATUSES
                                       /\ rec'[v.run].status = v.outcome
                                       /\ \A c \in posts' : c.run # v.run
    BY <2>1, <2>2, <1>0, <1>u, <1>a DEF OutcomesAreEarned, RowsRest
  <2>3. ASSUME NEW v \in tasks', NEW w \in tasks', v.pc = "callback", w.pc = "callback",
               w.run = v.run
        PROVE  w = v
    BY <2>1, <2>3, <1>u, <1>a DEF OutcomesAreEarned
  <2> QED
    BY <2>2, <2>3 DEF OutcomesAreEarned
<1>4. CallbackIsTruthful'
  BY <1>0 DEF SoleInv, SoleWorkerInv, CallbackIsTruthful, RowsRest
<1> QED
  BY <1>1, <1>2, <1>3, <1>4 DEF SoleInv, SoleWorkerInv, FleetInv

-----------------------------------------------------------------------------
\* What the inductive steps use of the invariant

LEMMA SoleFacts ==
    ASSUME SoleInv
    PROVE  /\ TypeInv
           /\ \A r \in Runs : rec[r] \in RunRecord /\ rec[r].lease_generation \in Nat
           /\ rec \in [Runs -> RunRecord]
           /\ \A t \in tasks : /\ t \in Task /\ t.run \in Runs /\ t.pod \in Pods
                               /\ t.gen \in Nat
                               /\ t.gen <= rec[t.run].lease_generation
                               /\ rec[t.run].status # "absent"
           /\ \A t, u \in tasks : t.run = u.run /\ t.gen = u.gen => t = u
           /\ \A t \in tasks : GenerationCurrent(t) /\ t.pc # "callback"
                                 => rec[t.run].status = "running"
           /\ \A c \in posts : /\ c.run \in Runs
                               /\ c.status \in TERMINAL_STATUSES
                               /\ rec[c.run].status = c.status
           /\ \A t \in tasks : t.pc = "callback" => /\ t.outcome \in TERMINAL_STATUSES
                                                    /\ rec[t.run].status = t.outcome
<1>1. TypeInv
  BY DEF SoleInv, FleetInv
<1>2. /\ \A t \in tasks : /\ t \in Task /\ t.run \in Runs /\ t.pod \in Pods
                          /\ t.gen \in 1 .. rec[t.run].lease_generation
  BY <1>1 DEF SoleInv, FleetInv, FencesAreNotAhead, TypeInv, TypeOK, Task
<1>3. NoRecord.lease_generation = 0
  BY DEF NoRecord
<1>4. \A t \in tasks : rec[t.run].status # "absent"
  BY <1>2, <1>3 DEF SoleInv, FleetInv, FencesAreNotAhead
<1>5. /\ \A r \in Runs : rec[r] \in RunRecord /\ rec[r].lease_generation \in Nat
      /\ rec \in [Runs -> RunRecord]
  BY <1>1 DEF TypeInv, TypeOK, RunRecord
<1>6. \A t, u \in tasks : t.run = u.run /\ t.gen = u.gen => t = u
  BY DEF SoleInv, FleetInv, FencesAreUnique
<1>7. \A t \in tasks : GenerationCurrent(t) /\ t.pc # "callback"
                         => rec[t.run].status = "running"
  BY DEF SoleInv, SoleWorkerInv, HolderRuns
<1>8. \A c \in posts : /\ c.run \in Runs
                       /\ c.status \in TERMINAL_STATUSES
                       /\ rec[c.run].status = c.status
  BY <1>1 DEF SoleInv, SoleWorkerInv, CallbackIsTruthful, TypeInv, TypeOK, Post
<1>9. \A t \in tasks : t.pc = "callback" => /\ t.outcome \in TERMINAL_STATUSES
                                            /\ rec[t.run].status = t.outcome
  BY DEF SoleInv, SoleWorkerInv, OutcomesAreEarned
<1> QED
  BY <1>1, <1>2, <1>4, <1>5, <1>6, <1>7, <1>8, <1>9

\* In one process nobody claims or sweeps while an outcome is being written.
LEMMA NoWriterOutside ==
    ASSUME SoleInv, OneProcess, NEW p \in Pods, ~InSection(p)
    PROVE  \A t \in tasks : t.pc # "write"
<1>1. \A t \in tasks : t.pod = p
  BY SoleFacts DEF OneProcess
<1> QED
  BY <1>1 DEF InSection, TasksOf

LEMMA SoleInit == Init => SoleInv
  BY FleetInit
  DEF Init, SoleInv, FleetInv, SoleWorkerInv, HolderRuns, WriterIsCurrent,
      OutcomesAreEarned, CallbackIsTruthful

LEMMA SoleNext == SoleInv /\ OneProcess /\ [Next]_vars => SoleInv'
<1> SUFFICES ASSUME SoleInv, OneProcess, [Next]_vars PROVE SoleInv'
  OBVIOUS
<1>fleet. FleetInv'
  BY FleetNext DEF SoleInv
<1>parts. /\ HolderRuns /\ WriterIsCurrent /\ OutcomesAreEarned /\ CallbackIsTruthful
          /\ FencesAreUnique' /\ FencesAreNotAhead'
  BY <1>fleet DEF SoleInv, SoleWorkerInv, FleetInv
<1>goal. HolderRuns' /\ WriterIsCurrent' /\ OutcomesAreEarned' /\ CallbackIsTruthful'
            => SoleInv'
  BY <1>fleet, <1>parts DEF SoleInv, SoleWorkerInv
<1>distinct. "running" \notin TERMINAL_STATUSES /\ "queued" \notin TERMINAL_STATUSES
             /\ "absent" \notin TERMINAL_STATUSES /\ "paused" \notin TERMINAL_STATUSES
             /\ TERMINAL_STATUSES \subseteq Rested /\ "running" \notin Rested
  BY DEF TERMINAL_STATUSES, Rested
<1>rest. rec' = rec => RowsRest
  BY DEF RowsRest
<1>1. ASSUME NEW r \in Runs, RequestCancel(r) PROVE SoleInv'
  <2>1. RowsRest
    BY <1>1, SoleFacts, CancelRequestedRow DEF RequestCancel, RowsRest
  <2> QED
    BY <2>1, <1>1, <1>fleet, RestingTasks DEF RequestCancel, podVars
<1>2. ASSUME NEW r \in Runs, NEW h \in Hooks, Submit(r, h) PROVE SoleInv'
  <2>1. /\ \A t \in tasks : t.run # r
        /\ \A c \in posts : c.run # r
    BY <1>2, <1>distinct, SoleFacts DEF Submit
  <2>2. /\ \A q \in Runs : q # r => rec'[q] = rec[q]
        /\ tasks' = tasks /\ posts' = posts
    BY <1>2, SoleFacts DEF Submit, podVars
  <2>3. HolderRuns'
    BY <2>1, <2>2, <1>parts, SoleFacts DEF HolderRuns, GenerationCurrent
  <2>4. WriterIsCurrent'
    BY <2>1, <2>2, <1>parts, SoleFacts DEF WriterIsCurrent, GenerationCurrent
  <2>5. OutcomesAreEarned'
    BY <2>1, <2>2, <1>parts, SoleFacts DEF OutcomesAreEarned
  <2>6. CallbackIsTruthful'
    BY <2>1, <2>2, <1>parts, SoleFacts DEF CallbackIsTruthful
  <2> QED
    BY <2>3, <2>4, <2>5, <2>6, <1>goal
<1>3. ASSUME NEW p \in Pods, Reap(p) PROVE SoleInv'
  <2> DEFINE R == {r \in Runs : Reapable(rec[r])}
  <2>1. \A t \in tasks : t.pc # "write"
    BY <1>3, NoWriterOutside DEF Reap
  <2>2. /\ \A r \in R : /\ rec'[r].lease_generation = rec[r].lease_generation + 1
                        /\ rec[r].status = "running"
                        /\ rec'[r].cancel_requested = rec[r].cancel_requested
        /\ \A r \in Runs : r \notin R => rec'[r] = rec[r]
        /\ tasks' = tasks /\ posts' = posts /\ R \subseteq Runs
    BY <1>3, SoleFacts, ReapedRow DEF Reap, Reapable
  <2> HIDE DEF R
  <2>3. \A t \in tasks : t.run \in R => ~GenerationCurrent(t)'
    BY <2>2, SoleFacts DEF GenerationCurrent
  <2>4. HolderRuns'
    BY <2>2, <2>3, SoleFacts DEF HolderRuns, GenerationCurrent
  <2>5. WriterIsCurrent'
    BY <2>1, <2>2 DEF WriterIsCurrent
  <2>6. OutcomesAreEarned'
    BY <2>2, <1>parts, <1>distinct, SoleFacts DEF OutcomesAreEarned
  <2>7. CallbackIsTruthful'
    BY <2>2, <1>parts, <1>distinct, SoleFacts DEF CallbackIsTruthful
  <2> QED
    BY <2>4, <2>5, <2>6, <2>7, <1>goal
<1>4. ASSUME NEW p \in Pods, NEW r \in Runs, ClaimNext(p, r) PROVE SoleInv'
  <2> DEFINE u == [pod |-> p, run |-> r, gen |-> rec'[r].lease_generation,
                   hook |-> rec'[r].webhook, pc |-> "claimed", hb |-> "sleep",
                   outcome |-> "none"]
  <2>1. \A t \in tasks : t.pc # "write"
    BY <1>4, NoWriterOutside DEF ClaimNext
  <2>2. /\ rec[r].status = "queued"
        /\ tasks' = tasks \cup {u} /\ posts' = posts
        /\ rec' = [rec EXCEPT ![r] = Claimed(rec[r], p)]
    BY <1>4 DEF ClaimNext, OldestQueued
  <2>3. u.run = r /\ u.pc = "claimed" /\ u.gen = rec'[r].lease_generation
    OBVIOUS
  <2> HIDE DEF u
  <2>4. /\ rec'[r].lease_generation = rec[r].lease_generation + 1
        /\ rec'[r].status = "running"
        /\ rec'[r].cancel_requested = rec[r].cancel_requested
        /\ \A q \in Runs : q # r => rec'[q] = rec[q]
    BY <2>2, SoleFacts, ClaimedRow
  <2>5. /\ \A t \in tasks : t.run = r => t.pc # "callback"
        /\ \A c \in posts : c.run # r
    BY <2>2, <1>distinct, SoleFacts
  <2>6. HolderRuns'
    BY <2>2, <2>3, <2>4, SoleFacts DEF HolderRuns, GenerationCurrent
  <2>7. WriterIsCurrent'
    BY <2>1, <2>2, <2>3 DEF WriterIsCurrent
  <2>8. OutcomesAreEarned'
    BY <2>2, <2>3, <2>4, <2>5, <1>parts, SoleFacts DEF OutcomesAreEarned
  <2>9. CallbackIsTruthful'
    BY <2>2, <2>4, <2>5, <1>parts, SoleFacts DEF CallbackIsTruthful
  <2> QED
    BY <2>6, <2>7, <2>8, <2>9, <1>goal
<1>5. ASSUME NEW p \in Pods, Loop(p) \/ ClaimFails(p) \/ Stop(p),
             ~Reap(p), \A r \in Runs : ~ClaimNext(p, r)
      PROVE  SoleInv'
  <2>1. rec' = rec /\ tasks' = tasks /\ posts' = posts
    BY <1>5 DEF Loop, SkipReap, ClaimNothing, ClaimFails, Stop, LeaveLoop, Drained,
                Restart, storeVars
  <2> QED
    BY <2>1, <1>rest, <1>fleet, RestingTasks
\* A task at its stream, its checks or its heartbeat.
<1>end. ASSUME NEW t \in tasks, NEW o \in Rested, EndStream(t, o), RowsRest, posts' = posts,
               t.pc # "callback", o = "cancelled" => rec[t.run].cancel_requested
        PROVE  SoleInv'
  <2>1. CASE t.hb = "broken"
    <3>1. tasks' \subseteq tasks
      BY <1>end, <2>1 DEF EndStream, Release
    <3> QED
      BY <3>1, <1>end, <1>fleet, RestingTasks
  <2>2. CASE t.hb # "broken"
    <3> DEFINE u == [t EXCEPT !.pc = "ended", !.hb = "off", !.outcome = o]
    <3>0. t \in Task /\ o \in Outcome
      BY SoleFacts DEF Outcome, Rested, TERMINAL_STATUSES
    <3>1. u \in Task /\ SameClaim(t, u) /\ u.pc = "ended" /\ u.outcome = o
      BY <3>0 DEF Task, SameClaim, TaskPc, Heartbeat
    <3>2. Advance(t, u)
      BY <1>end, <2>2 DEF EndStream
    <3> HIDE DEF u
    <3> QED
      BY <3>1, <3>2, <1>end, <1>fleet, AdvancingTask
  <2> QED
    BY <2>1, <2>2
<1>6. ASSUME NEW t \in tasks, StartStream(t) PROVE SoleInv'
  <2>1. rec' = rec /\ posts' = posts /\ t.pc = "claimed"
    BY <1>6 DEF StartStream, storeVars
  <2>2. CASE EndStream(t, "completed")
    BY <2>1, <2>2, <1>rest, <1>end, <1>distinct DEF TERMINAL_STATUSES
  <2>3. CASE EndStream(t, "cancelled") /\ rec[t.run].cancel_requested
    BY <2>1, <2>3, <1>rest, <1>end, <1>distinct DEF TERMINAL_STATUSES
  <2>4. CASE Advance(t, [t EXCEPT !.pc = "streaming"])
    <3> DEFINE u == [t EXCEPT !.pc = "streaming"]
    <3>1. u \in Task /\ SameClaim(t, u) /\ u.pc = "streaming"
      BY SoleFacts DEF Task, SameClaim, TaskPc
    <3>2. Advance(t, u)
      BY <2>4
    <3> HIDE DEF u
    <3> QED
      BY <3>1, <3>2, <2>1, <1>rest, <1>fleet, AdvancingTask
  <2> QED
    BY <2>2, <2>3, <2>4, <1>6 DEF StartStream
<1>7. ASSUME NEW t \in tasks, SeeCancel(t) PROVE SoleInv'
  <2>1. rec' = rec /\ posts' = posts /\ t.pc = "streaming" /\ rec[t.run].cancel_requested
        /\ EndStream(t, "cancelled")
    BY <1>7 DEF SeeCancel, storeVars
  <2> QED
    BY <2>1, <1>rest, <1>end, <1>distinct DEF TERMINAL_STATUSES
<1>8. ASSUME NEW t \in tasks, NEW o \in Outcome, StreamEnds(t, o) PROVE SoleInv'
  <2>1. rec' = rec /\ posts' = posts /\ t.pc = "streaming" /\ EndStream(t, o)
        /\ o \in {"completed", "failed", "paused"}
    BY <1>8 DEF StreamEnds
  <2>2. o \in Rested /\ o # "cancelled"
    BY <2>1 DEF Rested, TERMINAL_STATUSES
  <2> QED
    BY <2>1, <2>2, <1>rest, <1>end
<1>9. ASSUME NEW t \in tasks, CheckGeneration(t) PROVE SoleInv'
  <2>1. rec' = rec /\ posts' = posts /\ t.pc = "ended"
    BY <1>9 DEF CheckGeneration, storeVars
  <2>2. CASE Release(t)
    <3>1. tasks' \subseteq tasks
      BY <2>2 DEF Release
    <3> QED
      BY <3>1, <2>1, <1>rest, <1>fleet, RestingTasks
  <2>3. CASE GenerationCurrent(t) /\ Advance(t, [t EXCEPT !.pc = "write"])
    <3> DEFINE u == [t EXCEPT !.pc = "write"]
    <3>1. u \in Task /\ SameClaim(t, u) /\ u.pc = "write" /\ u.outcome = t.outcome
      BY SoleFacts DEF Task, SameClaim, TaskPc
    <3>2. Advance(t, u)
      BY <2>3
    <3> HIDE DEF u
    <3>3. t.outcome \in Rested /\ (t.outcome = "cancelled" => rec[t.run].cancel_requested)
      BY <2>1, <1>parts DEF OutcomesAreEarned
    <3> QED
      BY <3>1, <3>2, <3>3, <2>1, <2>3, <1>rest, <1>fleet, AdvancingTask
  <2> QED
    BY <2>2, <2>3, <1>9 DEF CheckGeneration
<1>10. ASSUME NEW t \in tasks, WriteOutcome(t) PROVE SoleInv'
  <2>1. /\ t.pc = "write" /\ t.outcome \in Rested /\ GenerationCurrent(t)
        /\ rec' = [rec EXCEPT ![t.run] = Settled(rec[t.run], t.outcome)]
        /\ posts' = posts
    BY <1>10, <1>parts DEF WriteOutcome, WriterIsCurrent, OutcomesAreEarned
  <2>2. rec[t.run].status = "running"
    BY <2>1, SoleFacts
  <2>3. /\ \A v \in tasks : v.run = t.run => v.pc # "callback"
        /\ \A v \in tasks : v.run = t.run /\ GenerationCurrent(v) => v = t
        /\ \A c \in posts : c.run # t.run
    <3>1. \A v \in tasks : v.run = t.run => v.pc # "callback"
      BY <2>2, <1>distinct, SoleFacts
    <3>2. \A c \in posts : c.run # t.run
      BY <2>2, <1>distinct, SoleFacts
    <3>3. \A v \in tasks : v.run = t.run /\ GenerationCurrent(v) => v = t
      <4>1. FencesAreUnique
        BY DEF SoleInv, SoleWorkerInv
      <4> QED
        BY <4>1, <2>1 DEF FencesAreUnique, GenerationCurrent
    <3> QED
      BY <3>1, <3>2, <3>3
  <2>4. /\ rec'[t.run].status = t.outcome
        /\ rec'[t.run].lease_generation = rec[t.run].lease_generation
        /\ rec'[t.run].cancel_requested = rec[t.run].cancel_requested
        /\ \A q \in Runs : q # t.run => rec'[q] = rec[q]
    BY <2>1, SoleFacts, SettledRow
  <2>5. ASSUME \A v \in tasks' : \/ v \in tasks /\ v # t
                                 \/ /\ v.pc = "callback" /\ v.run = t.run
                                    /\ v.outcome = t.outcome
                                    /\ t.outcome \in TERMINAL_STATUSES
                                    /\ \A w \in tasks' \ {v} : w \in tasks
        PROVE SoleInv'
    <3>1. HolderRuns'
      BY <2>3, <2>4, <2>5, SoleFacts DEF HolderRuns, GenerationCurrent
    <3>2. WriterIsCurrent'
      BY <2>4, <2>5, <1>parts, SoleFacts DEF WriterIsCurrent, GenerationCurrent
    <3>3. OutcomesAreEarned'
      <4>1. ASSUME NEW v \in tasks'
            PROVE  /\ v.pc \in {"ended", "write"} => v.outcome \in Rested
                   /\ v.pc \in {"ended", "write"} /\ v.outcome = "cancelled"
                         => rec'[v.run].cancel_requested
                   /\ v.pc = "callback" => /\ v.outcome \in TERMINAL_STATUSES
                                           /\ rec'[v.run].status = v.outcome
                                           /\ \A c \in posts' : c.run # v.run
        BY <2>1, <2>3, <2>4, <2>5, <1>parts, SoleFacts DEF OutcomesAreEarned
      <4>2. ASSUME NEW v \in tasks', NEW w \in tasks', v.pc = "callback",
                   w.pc = "callback", w.run = v.run
            PROVE  w = v
        BY <4>2, <2>3, <2>5, <1>parts DEF OutcomesAreEarned
      <4> QED
        BY <4>1, <4>2 DEF OutcomesAreEarned
    <3>4. CallbackIsTruthful'
      BY <2>1, <2>3, <2>4, <1>parts, SoleFacts DEF CallbackIsTruthful
    <3> QED
      BY <3>1, <3>2, <3>3, <3>4, <1>goal
  <2>6. CASE Release(t)
    BY <2>5, <2>6 DEF Release
  <2>7. CASE t.outcome # "paused" /\ Advance(t, [t EXCEPT !.pc = "callback"])
    <3> DEFINE u == [t EXCEPT !.pc = "callback"]
    <3>1. u.pc = "callback" /\ u.run = t.run /\ u.outcome = t.outcome
      BY SoleFacts DEF Task
    <3>2. tasks' = (tasks \ {t}) \cup {u}
      BY <2>7 DEF Advance
    <3> HIDE DEF u
    <3>3. t.outcome \in TERMINAL_STATUSES
      BY <2>1, <2>7 DEF Rested
    <3> QED
      BY <3>1, <3>2, <3>3, <2>5
  <2> QED
    BY <2>6, <2>7, <1>10 DEF WriteOutcome
<1>11. ASSUME NEW t \in tasks, OutcomeFails(t) PROVE SoleInv'
  <2>1. rec' = rec /\ posts' = posts /\ tasks' \subseteq tasks
    BY <1>11 DEF OutcomeFails, Release, storeVars
  <2> QED
    BY <2>1, <1>rest, <1>fleet, RestingTasks
<1>12. ASSUME NEW t \in tasks, PostWebhook(t) PROVE SoleInv'
  <2> DEFINE c == [run |-> t.run, gen |-> t.gen, status |-> t.outcome]
  <2>1. /\ t.pc = "callback" /\ rec' = rec /\ tasks' = tasks \ {t}
        /\ posts' = posts \cup {c}
    BY <1>12 DEF PostWebhook, Release, storeVars
  <2>2. c.run = t.run /\ c.status = t.outcome
    OBVIOUS
  <2> HIDE DEF c
  <2>3. /\ rec[t.run].status = t.outcome
        /\ \A d \in posts : d.run # t.run
        /\ \A v \in tasks' : v.pc = "callback" => v.run # t.run
    BY <2>1, <1>parts DEF OutcomesAreEarned
  <2>4. HolderRuns' /\ WriterIsCurrent'
    BY <2>1, <1>parts DEF HolderRuns, WriterIsCurrent, GenerationCurrent
  <2>5. OutcomesAreEarned'
    BY <2>1, <2>2, <2>3, <1>parts DEF OutcomesAreEarned
  <2>6. CallbackIsTruthful'
    BY <2>1, <2>2, <2>3, <1>parts DEF CallbackIsTruthful
  <2> QED
    BY <2>4, <2>5, <2>6, <1>goal
<1>13. ASSUME NEW t \in tasks, HeartbeatCheck(t) \/ Beat(t) \/ HeartbeatFails(t)
       PROVE SoleInv'
  <2>1. PICK h \in Heartbeat : Advance(t, [t EXCEPT !.hb = h])
    BY <1>13 DEF HeartbeatCheck, Beat, HeartbeatFails, Heartbeat
  <2> DEFINE u == [t EXCEPT !.hb = h]
  <2>2. u \in Task /\ SameClaim(t, u) /\ u.pc = t.pc /\ u.outcome = t.outcome
    BY SoleFacts DEF Task, SameClaim
  <2>3. Advance(t, u)
    BY <2>1
  <2> HIDE DEF u
  <2>4. RowsRest /\ posts' = posts
    BY <1>13, <1>rest, SoleFacts, HeartbeatenRow
    DEF HeartbeatCheck, Beat, HeartbeatFails, RowsRest, storeVars
  <2>5. /\ t.pc = "write" => GenerationCurrent(t)
        /\ t.pc \in {"ended", "write"} =>
               /\ t.outcome \in Rested
               /\ t.outcome = "cancelled" => rec[t.run].cancel_requested
    BY <1>parts DEF WriterIsCurrent, OutcomesAreEarned
  <2> QED
    BY <2>2, <2>3, <2>4, <2>5, <1>fleet, AdvancingTask
<1>14. ASSUME NEW p \in Pods, Crash(p) PROVE SoleInv'
  <2>1. rec' = rec /\ posts' = posts /\ tasks' \subseteq tasks
    BY <1>14 DEF Crash, storeVars
  <2> QED
    BY <2>1, <1>rest, <1>fleet, RestingTasks
<1>15. ASSUME NEW r \in Runs, LeaseRunsOut(r) \/ HolderStalls(r) PROVE SoleInv'
  <2>1. /\ rec' = [rec EXCEPT ![r] = [rec[r] EXCEPT !.lease = "past"]]
        /\ posts' = posts /\ tasks' = tasks
    BY <1>15 DEF LeaseRunsOut, HolderStalls, podVars
  <2>2. RowsRest
    BY <2>1, SoleFacts, ExpiredRow DEF RowsRest
  <2> QED
    BY <2>1, <2>2, <1>fleet, RestingTasks
<1>16. CASE UNCHANGED vars
  BY <1>16, <1>rest, <1>fleet, RestingTasks DEF vars
<1> QED
  BY <1>1, <1>2, <1>3, <1>4, <1>5, <1>6, <1>7, <1>8, <1>9, <1>10, <1>11, <1>12,
     <1>13, <1>14, <1>15, <1>16
  DEF Next, Api, Loop, Execute, HeartbeatLoop, StoreFaults, Environment

-----------------------------------------------------------------------------
\* The results

\* A terminal status is final when one process works the store: nothing a late
\* task, a sweep, a claim or a caller does moves the run.
LEMMA FinalStep == SoleInv /\ [Next]_vars =>
    \A r \in Runs : rec[r].status \in TERMINAL_STATUSES => rec'[r].status = rec[r].status
<1> SUFFICES ASSUME SoleInv, [Next]_vars, NEW r \in Runs, rec[r].status \in TERMINAL_STATUSES
             PROVE  rec'[r].status = rec[r].status
  OBVIOUS
<1>distinct. "running" \notin TERMINAL_STATUSES /\ "queued" \notin TERMINAL_STATUSES
             /\ "absent" \notin TERMINAL_STATUSES
  BY DEF TERMINAL_STATUSES
<1>1. ASSUME NEW q \in Runs, RequestCancel(q) PROVE rec'[r].status = rec[r].status
  BY <1>1, SoleFacts, CancelRequestedRow DEF RequestCancel
<1>2. ASSUME NEW q \in Runs, NEW h \in Hooks, Submit(q, h) PROVE rec'[r].status = rec[r].status
  BY <1>2, <1>distinct, SoleFacts DEF Submit
<1>3. ASSUME NEW p \in Pods, Reap(p) PROVE rec'[r].status = rec[r].status
  BY <1>3, <1>distinct DEF Reap, Reapable
<1>4. ASSUME NEW p \in Pods, NEW q \in Runs, ClaimNext(p, q)
      PROVE  rec'[r].status = rec[r].status
  BY <1>4, <1>distinct, SoleFacts DEF ClaimNext, OldestQueued
<1>5. ASSUME NEW t \in tasks, WriteOutcome(t) PROVE rec'[r].status = rec[r].status
  <2>1. rec[t.run].status = "running" /\ rec' = [rec EXCEPT ![t.run] = Settled(rec[t.run], t.outcome)]
    BY <1>5, SoleFacts DEF WriteOutcome, SoleInv, SoleWorkerInv, WriterIsCurrent
  <2> QED
    BY <2>1, <1>distinct, SoleFacts
<1>6. ASSUME NEW t \in tasks, Beat(t) PROVE rec'[r].status = rec[r].status
  BY <1>6, SoleFacts, HeartbeatenRow DEF Beat
<1>7. ASSUME NEW q \in Runs, LeaseRunsOut(q) \/ HolderStalls(q)
      PROVE  rec'[r].status = rec[r].status
  <2>1. rec' = [rec EXCEPT ![q] = [rec[q] EXCEPT !.lease = "past"]]
    BY <1>7 DEF LeaseRunsOut, HolderStalls
  <2> QED
    BY <2>1, SoleFacts, ExpiredRow
<1>8. CASE rec' = rec
  BY <1>8
<1> QED
  BY <1>1, <1>2, <1>3, <1>4, <1>5, <1>6, <1>7, <1>8
  DEF Next, Api, Loop, Execute, HeartbeatLoop, StoreFaults, Environment, vars, storeVars,
      SkipReap, ClaimNothing, ClaimFails, Stop, LeaveLoop, Drained, Restart, StartStream,
      SeeCancel, StreamEnds, CheckGeneration, PostWebhook, HeartbeatCheck, OutcomeFails,
      HeartbeatFails, Crash

\* With one process over the store the holder of a run's current fence always
\* finds it running, and every callback sent is the only one and says the truth:
\* worker.py's fence needs no compare-and-set there.
THEOREM SoleWorkerSafe ==
    ASSUME OneProcess
    PROVE  Spec => [](SoleWorkerInv /\ CallbackIsTruthful)
<1>1. SoleInv => SoleWorkerInv /\ CallbackIsTruthful
  BY DEF SoleInv, SoleWorkerInv
<1>2. SoleInv /\ [Next]_vars => SoleInv'
  BY SoleNext
<1> QED
  BY <1>1, <1>2, SoleInit, PTL DEF Spec

\* With one process a callback is sent for runs that rest, with the status they
\* rest in, once at most per claim (_maybe_webhook after _finalize).
THEOREM SoleWorkerTruthful ==
    ASSUME OneProcess
    PROVE  Spec => []CallbackIsTruthful
  BY SoleWorkerSafe, PTL

\* A terminal status is final: base.py's TERMINAL_STATUSES, "statuses a run can
\* no longer move out of", with one process over the store.
THEOREM SoleWorkerFinality ==
    ASSUME OneProcess
    PROVE  Spec => TerminalIsFinal
<1>1. SoleInv /\ [Next]_vars => SoleInv'
  BY SoleNext
<1>2. SoleInv /\ [Next]_vars =>
        [\A r \in Runs : rec[r].status \in TERMINAL_STATUSES
                           => rec'[r].status = rec[r].status]_vars
  BY FinalStep
<1> QED
  BY <1>1, <1>2, SoleInit, PTL DEF Spec, TerminalIsFinal

-----------------------------------------------------------------------------
\* The refinement

\* Rows are created in the order of submitted.
OrderInv == \A r \in Runs : rec[r].created_at <= submitted

LEMMA OrderNext == SoleInv /\ OrderInv /\ [Next]_vars => OrderInv'
<1> SUFFICES ASSUME SoleInv, OrderInv, [Next]_vars, NEW r \in Runs
             PROVE  rec'[r].created_at <= submitted'
  BY DEF OrderInv
<1>0. /\ submitted \in Nat /\ rec[r].created_at \in Nat
      /\ rec[r].created_at <= submitted
  BY SoleFacts DEF TypeInv, TypeOK, OrderInv, RunRecord
<1>1. ASSUME NEW q \in Runs, RequestCancel(q) PROVE rec'[r].created_at <= submitted'
  BY <1>0, <1>1, SoleFacts, CancelRequestedRow DEF RequestCancel
<1>2. ASSUME NEW q \in Runs, NEW h \in Hooks, Submit(q, h)
      PROVE  rec'[r].created_at <= submitted'
  <2>1. Created(submitted + 1, h).created_at = submitted + 1
    BY DEF Created, NoRecord
  <2> QED
    BY <2>1, <1>0, <1>2, SoleFacts DEF Submit
<1>3. ASSUME NEW p \in Pods, Reap(p) PROVE rec'[r].created_at <= submitted'
  BY <1>0, <1>3, SoleFacts, ReapedRow DEF Reap
<1>4. ASSUME NEW p \in Pods, NEW q \in Runs, ClaimNext(p, q)
      PROVE  rec'[r].created_at <= submitted'
  BY <1>0, <1>4, SoleFacts, ClaimedRow DEF ClaimNext
<1>5. ASSUME NEW t \in tasks, WriteOutcome(t) PROVE rec'[r].created_at <= submitted'
  <2>1. t.outcome \in Rested
    BY <1>5 DEF WriteOutcome, SoleInv, SoleWorkerInv, OutcomesAreEarned
  <2> QED
    BY <2>1, <1>0, <1>5, SoleFacts, SettledRow DEF WriteOutcome
<1>6. ASSUME NEW t \in tasks, Beat(t) PROVE rec'[r].created_at <= submitted'
  BY <1>0, <1>6, SoleFacts, HeartbeatenRow DEF Beat
<1>7. ASSUME NEW q \in Runs, LeaseRunsOut(q) \/ HolderStalls(q)
      PROVE  rec'[r].created_at <= submitted'
  <2>1. /\ rec' = [rec EXCEPT ![q] = [rec[q] EXCEPT !.lease = "past"]]
        /\ submitted' = submitted
    BY <1>7 DEF LeaseRunsOut, HolderStalls
  <2> QED
    BY <2>1, <1>0, SoleFacts, ExpiredRow
<1>8. CASE rec' = rec /\ submitted' = submitted
  BY <1>0, <1>8
<1> QED
  BY <1>1, <1>2, <1>3, <1>4, <1>5, <1>6, <1>7, <1>8
  DEF Next, Api, Loop, Execute, HeartbeatLoop, StoreFaults, Environment, vars, storeVars,
      SkipReap, ClaimNothing, ClaimFails, Stop, LeaveLoop, Drained, Restart, StartStream,
      SeeCancel, StreamEnds, CheckGeneration, PostWebhook, HeartbeatCheck, OutcomeFails,
      HeartbeatFails, Crash

\* Functions on the runs that differ at most at r.
LEMMA DiffersAt ==
    ASSUME NEW f, NEW g, NEW r \in Runs,
           f = [q \in Runs |-> f[q]], g = [q \in Runs |-> g[q]],
           \A q \in Runs : q # r => g[q] = f[q]
    PROVE  g = [f EXCEPT ![r] = g[r]]
  OBVIOUS

LEMMA RefineInit == Init => Lifecycle!Init
  BY DEF Init, Lifecycle!Init, StatusOf, AskedOf, OrderOf, ToldOf, NoRecord

LEMMA RefineNext == SoleInv /\ OrderInv /\ [Next]_vars => [Lifecycle!Next]_Lifecycle!vars
<1> SUFFICES ASSUME SoleInv, OrderInv, [Next]_vars
             PROVE  [Lifecycle!Next]_Lifecycle!vars
  OBVIOUS
<1>told. posts' = posts => ToldOf' = ToldOf
  BY DEF ToldOf
<1>rows. (\A r \in Runs : /\ rec'[r].status = rec[r].status
                          /\ rec'[r].cancel_requested = rec[r].cancel_requested
                          /\ rec'[r].created_at = rec[r].created_at)
           => StatusOf' = StatusOf /\ AskedOf' = AskedOf /\ OrderOf' = OrderOf
  BY DEF StatusOf, AskedOf, OrderOf
<1>maps. \A r \in Runs : /\ StatusOf[r] = rec[r].status
                         /\ AskedOf[r] = rec[r].cancel_requested
                         /\ OrderOf[r] = rec[r].created_at
  BY DEF StatusOf, AskedOf, OrderOf
<1>types. /\ submitted \in Nat
          /\ \A r \in Runs : rec[r].created_at \in Nat /\ rec[r].cancel_requested \in BOOLEAN
          /\ \A r \in Runs : rec[r].created_at <= submitted
  BY SoleFacts DEF TypeInv, TypeOK, OrderInv, RunRecord
<1>functions. /\ StatusOf = [r \in Runs |-> StatusOf[r]]
              /\ OrderOf = [r \in Runs |-> OrderOf[r]]
              /\ ToldOf = [r \in Runs |-> ToldOf[r]]
              /\ StatusOf' = [r \in Runs |-> StatusOf'[r]]
              /\ OrderOf' = [r \in Runs |-> OrderOf'[r]]
              /\ ToldOf' = [r \in Runs |-> ToldOf'[r]]
  BY DEF StatusOf, OrderOf, ToldOf
<1>maps2. \A r \in Runs : StatusOf'[r] = rec'[r].status /\ OrderOf'[r] = rec'[r].created_at
  BY DEF StatusOf, OrderOf
<1>same. rec' = rec /\ posts' = posts => UNCHANGED Lifecycle!vars
  BY <1>told, <1>rows DEF Lifecycle!vars
<1>1. ASSUME NEW r \in Runs, RequestCancel(r) PROVE Lifecycle!Next
  <2>1. /\ rec[r].status # "absent"
        /\ rec'[r].status = rec[r].status /\ rec'[r].created_at = rec[r].created_at
        /\ rec'[r].cancel_requested = TRUE
        /\ \A q \in Runs : q # r => rec'[q] = rec[q]
    BY <1>1, SoleFacts, CancelRequestedRow DEF RequestCancel, RunRecord
  <2>2. AskedOf' = [AskedOf EXCEPT ![r] = TRUE]
    BY <2>1 DEF AskedOf
  <2>3. StatusOf' = StatusOf /\ OrderOf' = OrderOf
    BY <2>1 DEF StatusOf, OrderOf
  <2>4. ToldOf' = ToldOf
    BY <1>1, <1>told DEF RequestCancel
  <2>5. Lifecycle!Ask(r)
    BY <2>1, <2>2, <2>3, <2>4, <1>maps DEF Lifecycle!Ask
  <2> QED
    BY <2>5 DEF Lifecycle!Next
<1>2. ASSUME NEW r \in Runs, NEW h \in Hooks, Submit(r, h) PROVE Lifecycle!Next
  <2>1. /\ NoRecord.cancel_requested = FALSE
        /\ Created(submitted + 1, h).status = "queued"
        /\ Created(submitted + 1, h).created_at = submitted + 1
        /\ Created(submitted + 1, h).cancel_requested = FALSE
    BY DEF Created, NoRecord
  <2>2. /\ rec[r].status = "absent" /\ rec[r] = NoRecord
        /\ rec'[r] = Created(submitted + 1, h)
        /\ \A q \in Runs : q # r => rec'[q] = rec[q]
    BY <1>2, SoleFacts DEF Submit, SoleInv, SoleWorkerInv, FencesAreNotAhead
  <2>3. /\ StatusOf' = [StatusOf EXCEPT ![r] = "queued"]
        /\ AskedOf' = AskedOf
    BY <2>1, <2>2 DEF StatusOf, AskedOf
  <2>4. /\ OrderOf' = [OrderOf EXCEPT ![r] = OrderOf'[r]]
        /\ \A q \in Runs : OrderOf[q] < OrderOf'[r]
    <3>1. \A q \in Runs : q # r => OrderOf'[q] = OrderOf[q]
      BY <2>2, <1>maps, <1>maps2
    <3>2. OrderOf' = [OrderOf EXCEPT ![r] = OrderOf'[r]]
      BY <3>1, <1>functions, DiffersAt
    <3>3. OrderOf'[r] = submitted + 1
      BY <2>1, <2>2, <1>maps2
    <3> QED
      BY <3>2, <3>3, <1>types, <1>maps
  <2>5. ToldOf' = ToldOf
    BY <1>2, <1>told DEF Submit
  <2>6. Lifecycle!Submit(r)
    BY <2>2, <2>3, <2>4, <2>5, <1>maps DEF Lifecycle!Submit
  <2> QED
    BY <2>6 DEF Lifecycle!Next
<1>3. ASSUME NEW p \in Pods, Reap(p) PROVE Lifecycle!Next
  <2> DEFINE R == {r \in Runs : Reapable(rec[r])}
  <2>1. /\ R \in SUBSET Runs
        /\ \A r \in R : rec[r].status = "running" /\ rec'[r].status = "queued"
        /\ \A r \in Runs : r \notin R => rec'[r].status = rec[r].status
        /\ \A r \in Runs : /\ rec'[r].cancel_requested = rec[r].cancel_requested
                           /\ rec'[r].created_at = rec[r].created_at
    BY <1>3, SoleFacts, ReapedRow DEF Reap, Reapable
  <2> HIDE DEF R
  <2>2. StatusOf' = [r \in Runs |-> IF r \in R THEN "queued" ELSE StatusOf[r]]
    BY <2>1 DEF StatusOf
  <2>3. AskedOf' = AskedOf /\ OrderOf' = OrderOf
    BY <2>1 DEF AskedOf, OrderOf
  <2>4. ToldOf' = ToldOf
    BY <1>3, <1>told DEF Reap
  <2>5. Lifecycle!GiveUp(R)
    BY <2>1, <2>2, <2>3, <2>4, <1>maps DEF Lifecycle!GiveUp
  <2> QED
    BY <2>1, <2>5 DEF Lifecycle!Next
<1>4. ASSUME NEW p \in Pods, NEW r \in Runs, ClaimNext(p, r) PROVE Lifecycle!Next
  <2>1. /\ rec[r].status = "queued"
        /\ \A q \in Runs : rec[q].status = "queued" => rec[r].created_at <= rec[q].created_at
    BY <1>4 DEF ClaimNext, OldestQueued
  <2>2. /\ rec'[r].status = "running"
        /\ rec'[r].cancel_requested = rec[r].cancel_requested
        /\ rec'[r].created_at = rec[r].created_at
        /\ \A q \in Runs : q # r => rec'[q] = rec[q]
    BY <1>4, SoleFacts, ClaimedRow DEF ClaimNext
  <2>3. StatusOf' = [StatusOf EXCEPT ![r] = "running"]
    BY <2>2 DEF StatusOf
  <2>4. AskedOf' = AskedOf /\ OrderOf' = OrderOf
    BY <2>2 DEF AskedOf, OrderOf
  <2>5. ToldOf' = ToldOf
    BY <1>4, <1>told DEF ClaimNext
  <2>6. Lifecycle!Attempt(r)
    BY <2>1, <2>3, <2>4, <2>5, <1>maps DEF Lifecycle!Attempt
  <2> QED
    BY <2>6 DEF Lifecycle!Next
<1>5. ASSUME NEW t \in tasks, WriteOutcome(t) PROVE Lifecycle!Next
  <2>1. /\ t.run \in Runs /\ t.outcome \in Rested
        /\ rec[t.run].status = "running"
        /\ t.outcome = "cancelled" => rec[t.run].cancel_requested
        /\ rec' = [rec EXCEPT ![t.run] = Settled(rec[t.run], t.outcome)]
        /\ posts' = posts
    BY <1>5, SoleFacts
    DEF WriteOutcome, SoleInv, SoleWorkerInv, WriterIsCurrent, OutcomesAreEarned
  <2>2. /\ rec'[t.run].status = t.outcome
        /\ rec'[t.run].cancel_requested = rec[t.run].cancel_requested
        /\ rec'[t.run].created_at = rec[t.run].created_at
        /\ \A q \in Runs : q # t.run => rec'[q] = rec[q]
    BY <2>1, SoleFacts, SettledRow
  <2>3. StatusOf' = [StatusOf EXCEPT ![t.run] = t.outcome]
    <3>1. \A q \in Runs : q # t.run => StatusOf'[q] = StatusOf[q]
      BY <2>2, <1>maps, <1>maps2
    <3>2. StatusOf' = [StatusOf EXCEPT ![t.run] = StatusOf'[t.run]]
      BY <2>1, <3>1, <1>functions, DiffersAt
    <3> QED
      BY <2>1, <2>2, <3>2, <1>maps2
  <2>4. AskedOf' = AskedOf /\ OrderOf' = OrderOf
    BY <2>2 DEF AskedOf, OrderOf
  <2>5. ToldOf' = ToldOf
    BY <2>1, <1>told
  <2>6. Lifecycle!Settle(t.run, t.outcome)
    BY <2>1, <2>3, <2>4, <2>5, <1>maps DEF Lifecycle!Settle
  <2> QED
    BY <2>1, <2>6
    DEF Lifecycle!Next, Lifecycle!Terminal, Rested, TERMINAL_STATUSES
<1>6. ASSUME NEW t \in tasks, PostWebhook(t) PROVE Lifecycle!Next
  <2> DEFINE c == [run |-> t.run, gen |-> t.gen, status |-> t.outcome]
  <2>1. /\ t.pc = "callback" /\ rec' = rec /\ posts' = posts \cup {c} /\ t.run \in Runs
    BY <1>6, SoleFacts DEF PostWebhook, storeVars
  <2>2. c.run = t.run /\ c.status = t.outcome
    OBVIOUS
  <2> HIDE DEF c
  <2>3. /\ rec[t.run].status = t.outcome /\ t.outcome \in TERMINAL_STATUSES
        /\ \A d \in posts : d.run # t.run
    BY <2>1 DEF SoleInv, SoleWorkerInv, OutcomesAreEarned
  <2>4. ToldOf[t.run] = "absent"
    BY <2>1, <2>3 DEF ToldOf
  <2>5. ToldOf'[t.run] = t.outcome
    <3>1. \A d \in posts' : d.run = t.run => d = c
      BY <2>1, <2>3
    <3>2. c \in posts' /\ c.run = t.run
      BY <2>1, <2>2
    <3>3. (CHOOSE d \in posts' : d.run = t.run) = c
      BY <3>1, <3>2
    <3> QED
      BY <3>2, <3>3, <2>1, <2>2 DEF ToldOf
  <2>6. ASSUME NEW q \in Runs, q # t.run PROVE ToldOf'[q] = ToldOf[q]
    <3>1. \A d : (d \in posts' /\ d.run = q) <=> (d \in posts /\ d.run = q)
      BY <2>1, <2>2, <2>6
    <3>2. (CHOOSE d \in posts' : d.run = q) = (CHOOSE d \in posts : d.run = q)
      BY <3>1
    <3> QED
      BY <3>1, <3>2 DEF ToldOf
  <2>7. ToldOf' = [ToldOf EXCEPT ![t.run] = StatusOf[t.run]]
    <3>1. ToldOf' = [ToldOf EXCEPT ![t.run] = ToldOf'[t.run]]
      BY <2>1, <2>6, <1>functions, DiffersAt
    <3> QED
      BY <2>1, <2>3, <2>5, <3>1, <1>maps
  <2>8. StatusOf' = StatusOf /\ AskedOf' = AskedOf /\ OrderOf' = OrderOf
    BY <2>1, <1>rows
  <2>9. Lifecycle!Tell(t.run)
    BY <2>1, <2>3, <2>4, <2>7, <2>8, <1>maps
    DEF Lifecycle!Tell, Lifecycle!Terminal, TERMINAL_STATUSES
  <2> QED
    BY <2>1, <2>9 DEF Lifecycle!Next
<1>7. ASSUME NEW t \in tasks, Beat(t) PROVE UNCHANGED Lifecycle!vars
  BY <1>7, <1>told, <1>rows, SoleFacts, HeartbeatenRow DEF Beat, Lifecycle!vars
<1>8. ASSUME NEW r \in Runs, LeaseRunsOut(r) \/ HolderStalls(r)
      PROVE  UNCHANGED Lifecycle!vars
  <2>1. /\ rec' = [rec EXCEPT ![r] = [rec[r] EXCEPT !.lease = "past"]]
        /\ posts' = posts
    BY <1>8 DEF LeaseRunsOut, HolderStalls
  <2> QED
    BY <2>1, <1>told, <1>rows, SoleFacts, ExpiredRow DEF Lifecycle!vars
<1>9. CASE rec' = rec /\ posts' = posts
  BY <1>9, <1>same
<1> QED
  BY <1>1, <1>2, <1>3, <1>4, <1>5, <1>6, <1>7, <1>8, <1>9
  DEF Next, Api, Loop, Execute, HeartbeatLoop, StoreFaults, Environment, vars, storeVars,
      SkipReap, ClaimNothing, ClaimFails, Stop, LeaveLoop, Drained, Restart, StartStream,
      SeeCancel, StreamEnds, CheckGeneration, HeartbeatCheck, OutcomeFails,
      HeartbeatFails, Crash

\* One process over a store gives its callers exactly the run lifecycle they are
\* promised, with leases, fences, slots, crashes and store errors out of sight.
THEOREM SoleWorkerImplements ==
    ASSUME OneProcess
    PROVE  Spec => KeepsLifecycle
<1>1. Init => SoleInv /\ OrderInv
  <2>1. Init => OrderInv
    BY DEF Init, OrderInv, NoRecord
  <2> QED
    BY <2>1, SoleInit
<1>2. SoleInv /\ OrderInv /\ [Next]_vars => SoleInv' /\ OrderInv'
  BY SoleNext, OrderNext
<1> QED
  BY <1>1, <1>2, RefineInit, RefineNext, PTL DEF Spec, KeepsLifecycle, Lifecycle!Spec

-----------------------------------------------------------------------------
\* A clean stop

\* Nothing has gone wrong but what a stop of the process is: of one shutdown with
\* the stop event still set, the shutdown was the stop, as a crash clears it.
Untroubled ==
    faults = 0 /\ (shutdowns = 0 \/ (shutdowns = 1 /\ \E p \in Pods : stopping[p]))

\* Who will settle a running run.
Holds(t, r) == t.run = r /\ GenerationCurrent(t) /\ t.pc # "callback"
AllHeld == \A r \in Runs : rec[r].status = "running" => \E t \in tasks : Holds(t, r)

StopInv ==
    /\ SoleInv
    /\ \A p \in Pods : loop[p] \in {"drain", "stopped"} => stopping[p]
    /\ faults = 0 => \A t \in tasks : t.hb # "broken"
    /\ Untroubled => AllHeld

\* What a process keeps of its place, and that no trouble is undone.
LEMMA StoppingStep ==
    ASSUME SoleInv, OneProcess, [Next]_vars,
           \A p \in Pods : loop[p] \in {"drain", "stopped"} => stopping[p]
    PROVE  /\ \A p \in Pods : loop'[p] \in {"drain", "stopped"} => stopping'[p]
           /\ faults' = 0 => faults = 0
           /\ Untroubled' => Untroubled
<1>0. /\ faults \in Nat /\ shutdowns \in Nat
      /\ loop \in [Pods -> {"sweep", "acquire", "drain", "stopped", "dead"}]
      /\ stopping \in [Pods -> BOOLEAN]
      /\ \A t \in tasks : t.pod \in Pods
  BY SoleFacts DEF TypeInv, TypeOK
<1>a. \A p, q \in Pods : p = q BY DEF OneProcess
<1>1. CASE UNCHANGED <<loop, stopping, shutdowns>> /\ faults' \in {faults, faults + 1}
  <2>1. faults' = 0 => faults' = faults BY <1>0, <1>1
  <2> QED BY <1>1, <2>1 DEF Untroubled
<1>2. ASSUME NEW p \in Pods,
             Reap(p) \/ SkipReap(p) \/ ClaimNothing(p) \/ \E r \in Runs : ClaimNext(p, r)
      PROVE  /\ loop'[p] \in {"sweep", "acquire"} /\ UNCHANGED <<stopping, shutdowns, faults>>
             /\ \A q \in Pods : q # p => loop'[q] = loop[q]
  BY <1>0, <1>2 DEF Reap, SkipReap, ClaimNothing, ClaimNext, boundVars
<1>3. ASSUME NEW p \in Pods, LeaveLoop(p) \/ Drained(p)
      PROVE  stopping[p] /\ UNCHANGED <<stopping, shutdowns, faults>>
  BY <1>3 DEF LeaveLoop, Drained, boundVars
<1>4. ASSUME NEW p \in Pods, Restart(p)
      PROVE  loop'[p] = "sweep" /\ stopping'[p] = FALSE /\ UNCHANGED <<shutdowns, faults>>
  BY <1>0, <1>4 DEF Restart, boundVars
<1>5. ASSUME NEW p \in Pods, ClaimFails(p)
      PROVE  loop'[p] = "dead" /\ faults' = faults + 1 /\ UNCHANGED <<stopping, shutdowns>>
  BY <1>0, <1>5 DEF ClaimFails
<1>6. ASSUME NEW p \in Pods, Stop(p)
      PROVE  /\ shutdowns' = shutdowns + 1 /\ UNCHANGED <<loop, faults>> /\ stopping'[p]
             /\ loop[p] \in {"sweep", "acquire"}
  BY <1>0, <1>6 DEF Stop
<1>7. ASSUME NEW p \in Pods, Crash(p)
      PROVE  /\ shutdowns' = shutdowns + 1 /\ faults' = faults /\ ~stopping'[p]
             /\ loop'[p] = "sweep"
  BY <1>0, <1>7 DEF Crash
<1>8. ASSUME NEW p \in Pods, Loop(p) \/ ClaimFails(p) \/ Stop(p) \/ Crash(p)
      PROVE  /\ \A q \in Pods : loop'[q] \in {"drain", "stopped"} => stopping'[q]
             /\ faults' = 0 => faults = 0
             /\ Untroubled' => Untroubled
  <2>1. CASE Reap(p) \/ SkipReap(p) \/ ClaimNothing(p) \/ \E r \in Runs : ClaimNext(p, r)
    BY <1>2, <1>a, <2>1 DEF Untroubled
  <2>2. CASE LeaveLoop(p) \/ Drained(p)
    BY <1>3, <1>a, <2>2 DEF Untroubled
  <2>3. CASE Restart(p)
    BY <1>4, <1>a, <2>3 DEF Untroubled
  <2>4. CASE ClaimFails(p)
    BY <1>0, <1>5, <1>a, <2>4 DEF Untroubled
  <2>5. CASE Stop(p)
    BY <1>0, <1>6, <1>a, <2>5 DEF Untroubled
  <2>6. CASE Crash(p)
    BY <1>0, <1>7, <1>a, <2>6 DEF Untroubled
  <2> QED BY <1>8, <2>1, <2>2, <2>3, <2>4, <2>5, <2>6 DEF Loop
<1>9. \/ \E p \in Pods : Loop(p) \/ ClaimFails(p) \/ Stop(p) \/ Crash(p)
      \/ UNCHANGED <<loop, stopping, shutdowns>> /\ faults' \in {faults, faults + 1}
  BY DEF Next, Api, RequestCancel, Submit, Execute, HeartbeatLoop, StoreFaults, Environment,
         StartStream, SeeCancel, StreamEnds, CheckGeneration, WriteOutcome, PostWebhook,
         HeartbeatCheck, Beat, OutcomeFails, HeartbeatFails, LeaseRunsOut, HolderStalls,
         vars, podVars, boundVars
<1> QED BY <1>1, <1>8, <1>9

\* Rows keep their fence while they run; who holds one goes on holding it, or
\* the run no longer runs.
LEMMA HeldOn ==
    ASSUME SoleInv, AllHeld,
           \A r \in Runs : rec'[r].status = "running" =>
               /\ rec[r].status = "running"
               /\ rec'[r].lease_generation = rec[r].lease_generation,
           \A t \in tasks : t.pc # "callback" =>
               \/ rec'[t.run].status # "running"
               \/ ~GenerationCurrent(t)
               \/ \E u \in tasks' : u.run = t.run /\ u.gen = t.gen /\ u.pc # "callback"
    PROVE  AllHeld'
<1> SUFFICES ASSUME NEW r \in Runs, rec'[r].status = "running"
             PROVE  \E t \in tasks' : Holds(t, r)'
  BY DEF AllHeld
<1>1. PICK t \in tasks : Holds(t, r) BY DEF AllHeld
<1>2. PICK u \in tasks' : u.run = t.run /\ u.gen = t.gen /\ u.pc # "callback"
  BY <1>1 DEF Holds
<1> QED BY <1>1, <1>2 DEF Holds, GenerationCurrent

\* A task advances: its claim is held as before.
LEMMA HeldByOne ==
    ASSUME SoleInv, AllHeld, RowsRest, NEW t \in tasks, NEW u \in Task, SameClaim(t, u),
           Advance(t, u), t.pc # "callback" => u.pc # "callback"
    PROVE  AllHeld'
<1>1. \A v \in tasks : v.pc # "callback" =>
        \E w \in tasks' : w.run = v.run /\ w.gen = v.gen /\ w.pc # "callback"
  BY DEF Advance, SameClaim
<1> QED BY <1>1, HeldOn DEF RowsRest

LEMMA HeldStep ==
    ASSUME StopInv, OneProcess, [Next]_vars, Untroubled'
    PROVE  AllHeld'
<1>0. /\ SoleInv /\ Untroubled /\ AllHeld
      /\ \A t \in tasks : t.hb # "broken"
      /\ faults \in Nat /\ shutdowns \in Nat
      /\ stopping \in [Pods -> BOOLEAN]
  <2>1. SoleInv /\ Untroubled BY StoppingStep DEF StopInv
  <2> QED BY <2>1, SoleFacts DEF StopInv, Untroubled, TypeInv, TypeOK
<1>rest. rec' = rec => RowsRest
  BY DEF RowsRest
<1>same. RowsRest /\ tasks' = tasks => AllHeld'
  BY <1>0, HeldOn DEF RowsRest
<1>1. ASSUME NEW r \in Runs, RequestCancel(r) PROVE AllHeld'
  <2>1. RowsRest
    BY <1>0, <1>1, SoleFacts, CancelRequestedRow DEF RequestCancel, RowsRest
  <2> QED BY <1>1, <1>same, <2>1 DEF RequestCancel, podVars
<1>2. ASSUME NEW r \in Runs, NEW h \in Hooks, Submit(r, h) PROVE AllHeld'
  <2>1. /\ \A q \in Runs : q # r => rec'[q] = rec[q]
        /\ rec'[r].status = "queued" /\ tasks' = tasks
    BY <1>0, <1>2, SoleFacts DEF Submit, podVars, Created, NoRecord
  <2> QED BY <1>0, <2>1, HeldOn
<1>3. ASSUME NEW p \in Pods, Reap(p) PROVE AllHeld'
  <2>1. \A r \in Runs : \/ rec'[r] = rec[r]
                        \/ rec'[r].status = "queued"
    BY <1>0, <1>3, SoleFacts, ReapedRow DEF Reap, Reapable
  <2> QED BY <1>0, <1>3, <2>1, HeldOn DEF Reap
<1>4. ASSUME NEW p \in Pods, NEW r \in Runs, ClaimNext(p, r) PROVE AllHeld'
  <2> DEFINE u == [pod |-> p, run |-> r, gen |-> rec'[r].lease_generation,
                   hook |-> rec'[r].webhook, pc |-> "claimed", hb |-> "sleep",
                   outcome |-> "none"]
  <2>1. /\ tasks' = tasks \cup {u}
        /\ rec' = [rec EXCEPT ![r] = Claimed(rec[r], p)]
    BY <1>4 DEF ClaimNext
  <2>2. u.run = r /\ u.pc = "claimed" /\ u.gen = rec'[r].lease_generation
    OBVIOUS
  <2> HIDE DEF u
  <2>3. \A q \in Runs : q # r => rec'[q] = rec[q] BY <1>0, <2>1, SoleFacts
  <2> SUFFICES ASSUME NEW q \in Runs, rec'[q].status = "running"
               PROVE  \E t \in tasks' : Holds(t, q)'
    BY DEF AllHeld
  <2>4. CASE q = r BY <2>1, <2>2, <2>4 DEF Holds, GenerationCurrent
  <2>5. CASE q # r
    <3>1. PICK t \in tasks : Holds(t, q) BY <1>0, <2>3, <2>5 DEF AllHeld
    <3> QED BY <2>1, <2>3, <2>5, <3>1 DEF Holds, GenerationCurrent
  <2> QED BY <2>4, <2>5
<1>5. ASSUME NEW p \in Pods, Loop(p) \/ Stop(p), ~Reap(p), \A r \in Runs : ~ClaimNext(p, r)
      PROVE  AllHeld'
  <2>1. rec' = rec /\ tasks' = tasks
    BY <1>5 DEF Loop, SkipReap, ClaimNothing, Stop, LeaveLoop, Drained, Restart, storeVars
  <2> QED BY <2>1, <1>rest, <1>same
\* The stream of a task whose heartbeat lives.
<1>end. ASSUME NEW t \in tasks, NEW o \in Outcome, EndStream(t, o), rec' = rec
        PROVE  AllHeld'
  <2> DEFINE u == [t EXCEPT !.pc = "ended", !.hb = "off", !.outcome = o]
  <2>1. u \in Task /\ SameClaim(t, u) /\ u.pc = "ended"
    BY <1>0, SoleFacts DEF Task, SameClaim, TaskPc, Heartbeat
  <2>2. Advance(t, u) BY <1>0, <1>end DEF EndStream
  <2> HIDE DEF u
  <2> QED BY <1>0, <1>rest, <1>end, <2>1, <2>2, HeldByOne
<1>6. ASSUME NEW t \in tasks, StartStream(t) PROVE AllHeld'
  <2>1. rec' = rec BY <1>6 DEF StartStream, storeVars
  <2>2. CASE EndStream(t, "completed") \/ EndStream(t, "cancelled")
    BY <2>1, <2>2, <1>end DEF Outcome
  <2>3. CASE Advance(t, [t EXCEPT !.pc = "streaming"])
    <3> DEFINE u == [t EXCEPT !.pc = "streaming"]
    <3>1. u \in Task /\ SameClaim(t, u) /\ u.pc = "streaming"
      BY <1>0, SoleFacts DEF Task, SameClaim, TaskPc
    <3>2. Advance(t, u) BY <2>3
    <3> HIDE DEF u
    <3> QED BY <1>0, <1>rest, <2>1, <3>1, <3>2, HeldByOne
  <2> QED BY <2>2, <2>3, <1>6 DEF StartStream
<1>7. ASSUME NEW t \in tasks, SeeCancel(t) \/ \E o \in Outcome : StreamEnds(t, o)
      PROVE  AllHeld'
  BY <1>7, <1>end DEF SeeCancel, StreamEnds, storeVars, Outcome
<1>8. ASSUME NEW t \in tasks, CheckGeneration(t) PROVE AllHeld'
  <2>1. rec' = rec BY <1>8 DEF CheckGeneration, storeVars
  <2>2. CASE GenerationCurrent(t) /\ Advance(t, [t EXCEPT !.pc = "write"])
    <3> DEFINE u == [t EXCEPT !.pc = "write"]
    <3>1. u \in Task /\ SameClaim(t, u) /\ u.pc = "write"
      BY <1>0, SoleFacts DEF Task, SameClaim, TaskPc
    <3>2. Advance(t, u) BY <2>2
    <3> HIDE DEF u
    <3> QED BY <1>0, <1>rest, <2>1, <3>1, <3>2, HeldByOne
  <2>3. CASE ~GenerationCurrent(t) /\ Release(t)
    BY <1>0, <2>1, <2>3, HeldOn DEF Release
  <2> QED BY <2>2, <2>3, <1>8 DEF CheckGeneration
<1>9. ASSUME NEW t \in tasks, WriteOutcome(t) PROVE AllHeld'
  <2>1. /\ t.outcome \in Rested /\ t.run \in Runs
        /\ rec' = [rec EXCEPT ![t.run] = Settled(rec[t.run], t.outcome)]
    BY <1>0, <1>9, SoleFacts
    DEF WriteOutcome, SoleInv, SoleWorkerInv, OutcomesAreEarned
  <2>2. /\ \A q \in Runs : q # t.run => rec'[q] = rec[q]
        /\ rec'[t.run].status = t.outcome
    BY <1>0, <2>1, SoleFacts, SettledRow
  <2>3. rec'[t.run].status # "running" BY <2>1, <2>2 DEF Rested, TERMINAL_STATUSES
  <2>4. \A v \in tasks : v # t => v \in tasks'
    BY <1>9 DEF WriteOutcome, Advance, Release
  <2> QED BY <1>0, <2>2, <2>3, <2>4, SoleFacts, HeldOn
<1>10. ASSUME NEW t \in tasks, PostWebhook(t) PROVE AllHeld'
  <2>1. t.pc = "callback" /\ rec' = rec /\ tasks' = tasks \ {t}
    BY <1>10 DEF PostWebhook, Release, storeVars
  <2> QED BY <1>0, <2>1, HeldOn
<1>11. ASSUME NEW t \in tasks, HeartbeatCheck(t) \/ Beat(t) PROVE AllHeld'
  <2>1. PICK h \in Heartbeat : Advance(t, [t EXCEPT !.hb = h])
    BY <1>11 DEF HeartbeatCheck, Beat, Heartbeat
  <2> DEFINE u == [t EXCEPT !.hb = h]
  <2>2. u \in Task /\ SameClaim(t, u) /\ u.pc = t.pc
    BY <1>0, SoleFacts DEF Task, SameClaim
  <2>3. Advance(t, u) BY <2>1
  <2> HIDE DEF u
  <2>4. RowsRest
    <3>1. CASE HeartbeatCheck(t) BY <1>rest, <3>1 DEF HeartbeatCheck, storeVars
    <3>2. CASE Beat(t)
      <4>1. rec' = [rec EXCEPT ![t.run] = Heartbeaten(rec[t.run], t.pod)]
        BY <3>2 DEF Beat
      <4>2. t.run \in Runs /\ t.pod \in Pods BY <1>0, SoleFacts
      <4> QED BY <1>0, <4>1, <4>2, SoleFacts, HeartbeatenRow DEF RowsRest
    <3> QED BY <1>11, <3>1, <3>2
  <2> QED BY <1>0, <2>2, <2>3, <2>4, HeldByOne
<1>12. ASSUME NEW r \in Runs, LeaseRunsOut(r) \/ HolderStalls(r) PROVE AllHeld'
  <2>1. /\ rec' = [rec EXCEPT ![r] = [rec[r] EXCEPT !.lease = "past"]]
        /\ tasks' = tasks
    BY <1>12 DEF LeaseRunsOut, HolderStalls, podVars
  <2>2. RowsRest BY <1>0, <2>1, SoleFacts, ExpiredRow DEF RowsRest
  <2> QED BY <2>1, <2>2, <1>same
<1>13. \A p \in Pods : ~ClaimFails(p) /\ ~Crash(p)
  <2>2. \A p, q \in Pods : p = q BY DEF OneProcess
  <2>3. \A p \in Pods : ClaimFails(p) => faults' = faults + 1 BY DEF ClaimFails
  <2>4. \A p \in Pods : Crash(p) => shutdowns' = shutdowns + 1 /\ ~stopping'[p]
    BY <1>0 DEF Crash
  <2> QED BY <1>0, <2>2, <2>3, <2>4 DEF Untroubled
<1>14. \A t \in tasks : ~OutcomeFails(t) /\ ~HeartbeatFails(t)
  <2>1. \A t \in tasks : OutcomeFails(t) \/ HeartbeatFails(t) => faults' = faults + 1
    BY DEF OutcomeFails, HeartbeatFails
  <2> QED BY <1>0, <2>1 DEF Untroubled
<1>15. CASE UNCHANGED vars
  BY <1>15, <1>rest, <1>same DEF vars
<1> QED
  BY <1>1, <1>2, <1>3, <1>4, <1>5, <1>6, <1>7, <1>8, <1>9, <1>10, <1>11, <1>12, <1>13, <1>14,
     <1>15
  DEF Next, Api, Loop, Execute, HeartbeatLoop, StoreFaults, Environment

\* As long as no store call raises, every heartbeat is alive or was cancelled.
LEMMA HeartbeatsStep ==
    ASSUME SoleInv, [Next]_vars, faults = 0, faults' = 0, \A t \in tasks : t.hb # "broken"
    PROVE  \A t \in tasks' : t.hb # "broken"
<1>0. \A t \in tasks : t \in Task /\ t.hb # "broken" BY SoleFacts
<1>1. CASE tasks' \subseteq tasks
  BY <1>0, <1>1
<1>2. ASSUME NEW t \in tasks, NEW u, Advance(t, u), u.hb # "broken"
      PROVE  \A v \in tasks' : v.hb # "broken"
  BY <1>0, <1>2 DEF Advance
<1>3. ASSUME NEW t \in tasks, NEW c, Advance(t, [t EXCEPT !.pc = c])
      PROVE  \A v \in tasks' : v.hb # "broken"
  <2> DEFINE u == [t EXCEPT !.pc = c]
  <2>1. Advance(t, u) /\ u.hb = t.hb BY <1>0, <1>3 DEF Task
  <2> HIDE DEF u
  <2> QED BY <1>0, <1>2, <2>1
<1>4. ASSUME NEW t \in tasks, NEW o, EndStream(t, o)
      PROVE  \A v \in tasks' : v.hb # "broken"
  <2> DEFINE u == [t EXCEPT !.pc = "ended", !.hb = "off", !.outcome = o]
  <2>1. Advance(t, u) /\ u.hb = "off" BY <1>0, <1>4 DEF Task, EndStream
  <2> HIDE DEF u
  <2> QED BY <1>2, <2>1
<1>5. ASSUME NEW t \in tasks, Release(t) PROVE \A v \in tasks' : v.hb # "broken"
  BY <1>0, <1>5 DEF Release
<1>6. ASSUME NEW t \in tasks, Execute(t) PROVE \A v \in tasks' : v.hb # "broken"
  BY <1>3, <1>4, <1>5, <1>6
  DEF Execute, StartStream, SeeCancel, StreamEnds, CheckGeneration, WriteOutcome, PostWebhook
<1>7. ASSUME NEW t \in tasks, HeartbeatLoop(t) PROVE \A v \in tasks' : v.hb # "broken"
  <2>1. PICK h \in Heartbeat \ {"broken"} : Advance(t, [t EXCEPT !.hb = h])
    BY <1>7 DEF HeartbeatLoop, HeartbeatCheck, Beat, Heartbeat
  <2> DEFINE u == [t EXCEPT !.hb = h]
  <2>2. Advance(t, u) /\ u.hb = h BY <1>0, <2>1 DEF Task
  <2> HIDE DEF u
  <2> QED BY <1>2, <2>1, <2>2
<1>8. ASSUME NEW p \in Pods, NEW r \in Runs, ClaimNext(p, r)
      PROVE  \A v \in tasks' : v.hb # "broken"
  BY <1>0, <1>8 DEF ClaimNext
<1>9. \A t \in tasks : ~OutcomeFails(t) /\ ~HeartbeatFails(t)
  <2>1. \A t \in tasks : OutcomeFails(t) \/ HeartbeatFails(t) => faults' = faults + 1
    BY DEF OutcomeFails, HeartbeatFails
  <2> QED BY <2>1
<1>10. \/ tasks' \subseteq tasks
       \/ \E t \in tasks : Execute(t) \/ HeartbeatLoop(t)
       \/ \E p \in Pods, r \in Runs : ClaimNext(p, r)
  BY <1>9
  DEF Next, Api, RequestCancel, Submit, Loop, Reap, SkipReap, ClaimNothing, LeaveLoop, Drained,
      Restart, StoreFaults, ClaimFails, Environment, Stop, Crash, LeaseRunsOut, HolderStalls,
      vars, podVars
<1> QED BY <1>1, <1>6, <1>7, <1>8, <1>10

LEMMA StopInit == Init => StopInv
<1> SUFFICES ASSUME Init PROVE StopInv OBVIOUS
<1>1. SoleInv BY SoleInit
<1>2. \A p \in Pods : loop[p] = "sweep" BY DEF Init
<1>3. tasks = {} BY DEF Init
<1>4. \A r \in Runs : rec[r].status = "absent" BY DEF Init, NoRecord
<1>5. AllHeld BY <1>4 DEF AllHeld
<1> QED BY <1>1, <1>2, <1>3, <1>5 DEF StopInv

LEMMA StopStep == StopInv /\ OneProcess /\ [Next]_vars => StopInv'
<1> SUFFICES ASSUME StopInv, OneProcess, [Next]_vars PROVE StopInv' OBVIOUS
<1>1. SoleInv' BY SoleNext DEF StopInv
<1>2. /\ \A p \in Pods : loop'[p] \in {"drain", "stopped"} => stopping'[p]
      /\ faults' = 0 => faults = 0
  BY StoppingStep DEF StopInv
<1>3. faults' = 0 => \A t \in tasks' : t.hb # "broken"
  BY <1>2, HeartbeatsStep DEF StopInv
<1>4. Untroubled' => AllHeld' BY HeldStep
<1> QED BY <1>1, <1>2, <1>3, <1>4 DEF StopInv

\* With one process, a stop that is not disturbed leaves no running row behind:
\* run_forever drains the tasks in flight, and each settles its run, whatever
\* leases ran out meanwhile and whoever asked for a cancellation.
THEOREM SoleWorkerStops ==
    ASSUME OneProcess
    PROVE  Spec => CleanStop
<1>1. StopInv /\ [Next]_vars => StopInv'
  BY StopStep
<1>2. StopInv /\ [Next]_vars =>
        [\A p \in Pods :
           loop[p] # "stopped" /\ loop'[p] = "stopped" /\ faults = 0 /\ shutdowns = 1
              => \A r \in Runs : rec[r].status = "running" => rec[r].owner_pod # p]_vars
  <2> SUFFICES ASSUME StopInv, [Next]_vars, NEW p \in Pods,
                      loop[p] # "stopped", loop'[p] = "stopped", faults = 0, shutdowns = 1
               PROVE  \A r \in Runs : rec[r].status # "running"
    OBVIOUS
  <2>0. loop \in [Pods -> {"sweep", "acquire", "drain", "stopped", "dead"}]
        /\ \A t \in tasks : t.pod \in Pods
    BY SoleFacts DEF StopInv, TypeInv, TypeOK
  <2>1. Drained(p)
    <3>1. UNCHANGED loop \/ \E q \in Pods : Loop(q) \/ ClaimFails(q) \/ Crash(q)
      BY DEF Next, Api, RequestCancel, Submit, Execute, HeartbeatLoop, StoreFaults,
             Environment, StartStream, SeeCancel, StreamEnds, CheckGeneration, WriteOutcome,
             PostWebhook, HeartbeatCheck, Beat, OutcomeFails, HeartbeatFails, LeaseRunsOut,
             HolderStalls, Stop, vars, podVars
    <3>2. PICK q \in Pods : Loop(q) \/ ClaimFails(q) \/ Crash(q) BY <3>1
    <3>3. q = p BY DEF OneProcess
    <3> QED
      BY <2>0, <3>2, <3>3
      DEF Loop, Reap, SkipReap, ClaimNext, ClaimNothing, LeaveLoop, Restart, ClaimFails, Crash
  <2>2. tasks = {}
    <3>1. \A t \in tasks : t.pod = p BY <2>0 DEF OneProcess
    <3> QED BY <2>1, <3>1 DEF Drained, TasksOf
  <2>3. stopping[p] BY <2>1 DEF Drained, StopInv
  <2>4. AllHeld BY <2>3 DEF StopInv, Untroubled
  <2> QED BY <2>2, <2>4 DEF AllHeld
<1> QED
  BY <1>1, <1>2, StopInit, PTL DEF Spec, CleanStop
=============================================================================
