--------------------------- MODULE RedisRunStore ---------------------------
(***************************************************************************)
(* The run store on Redis (runs/redis.py), shared by several processes.     *)
(*                                                                          *)
(* A call of the store is a sequence of Redis commands.  The client is      *)
(* synchronous, so inside one process nothing runs between them; another    *)
(* process, or a crash, may come between any two.  (RunStore and RunWorker  *)
(* are the same protocol over a store whose calls are atomic.)              *)
(*                                                                          *)
(* `torn' is a history variable: the runs a call was cut short on by a      *)
(* crash, or whose row or queue entry moved between a call's look at it     *)
(* and the write that relies on that look.                                  *)
(***************************************************************************)
EXTENDS Integers, Sequences, FiniteSets, Lists

CONSTANTS
  Pod, Run,
  NoRun, NoRow, \* no run in hand; no record under the key
  MaxCrashes,   \* bound: processes that die
  MaxLapses,    \* bound: leases that run out, by deadline or by TTL
  MaxTorn       \* bound: nothing is followed once more runs than this are torn

ASSUME BoundsAssumption ==
  /\ NoRun \notin Run
  /\ MaxCrashes \in Nat /\ MaxLapses \in Nat /\ MaxTorn \in Nat

VARIABLES
  row,        \* {prefix}:rec:<id>
  queue,      \* {prefix}:queued
  processing, \* {prefix}:processing
  leases,     \* the runs with a {prefix}:lease:<id> key
  call,       \* the store call each process is in
  tasks,      \* the executions in flight: who runs what under which generation
  torn,       \* history, see above
  crashes, lapses

vars == <<row, queue, processing, leases, call, tasks, torn, crashes, lapses>>

\* A RunRecord: terminal statuses are one, pauses are left to ApprovalResume.
Row == [status : {"queued", "running", "ended"},
        lease_generation : Nat,
        lease : {"none", "ahead", "past"},  \* lease_expires_at against the clock
        cancel_requested : BOOLEAN]
ASSUME NoRowAssumption == NoRow \notin Row
Fresh == [status |-> "queued", lease_generation |-> 0, lease |-> "none",
          cancel_requested |-> FALSE]
Task == [pod : Pod, run : Run, generation : Nat \ {0}]

\* Where a process is in a call: the next command, the run it is about, the row
\* it first looked at and the copy it last read, and what a reaper has left.
Steps == {"idle", "push", "cancel", "claim", "beat", "extend", "refresh", "check",
          "finish", "reap", "expired", "requeue", "remove", "append", "release", "drop"}
Idle == [at |-> "idle", run |-> NoRun, seen |-> NoRow, copy |-> NoRow, rest |-> <<>>]

Init ==
  /\ row = [r \in Run |-> NoRow]
  /\ queue = <<>> /\ processing = <<>> /\ leases = {}
  /\ call = [p \in Pod |-> Idle]
  /\ tasks = {} /\ torn = {} /\ crashes = 0 /\ lapses = 0

-----------------------------------------------------------------------------
LRemNothing(r, s) == s
LRem(r, s) == Filter(s, Run \ {r})

Free(p) == call[p].at = "idle"
At(p, step) == call[p].at = step
InHand(p) == call[p].run
Goto(p, c) == call' = [call EXCEPT ![p] = c]
Proceed(p, step) == Goto(p, [call[p] EXCEPT !.at = step])
Return(p) == Goto(p, Idle)

\* SET {prefix}:rec:<id>: the whole record, whatever the key holds now.
SetRow(p, value) == row' = [row EXCEPT ![InHand(p)] = value]
Timeless(value) == [value EXCEPT !.lease = "none"]
Stale(p) == Timeless(row[InHand(p)]) # Timeless(call[p].seen)
Tear(p, condition) == torn' = IF condition THEN torn \cup {InHand(p)} ELSE torn

-----------------------------------------------------------------------------
\* create: SET the record ...
Create(p, r) ==
  /\ Free(p) /\ row[r] = NoRow
  /\ row' = [row EXCEPT ![r] = Fresh]
  /\ Goto(p, [Idle EXCEPT !.at = "push", !.run = r])
  /\ UNCHANGED <<queue, processing, leases, tasks, torn, crashes, lapses>>
\* ... and RPUSH its id.
Push(p) ==
  /\ At(p, "push")
  /\ queue' = Append(queue, InHand(p))
  /\ Return(p)
  /\ UNCHANGED <<row, processing, leases, tasks, torn, crashes, lapses>>

\* request_cancel: GET ...
CancelRead(p, r) ==
  /\ Free(p) /\ row[r] # NoRow
  /\ Goto(p, [Idle EXCEPT !.at = "cancel", !.run = r, !.seen = row[r], !.copy = row[r]])
  /\ UNCHANGED <<row, queue, processing, leases, tasks, torn, crashes, lapses>>
\* ... and SET.
CancelWrite(p) ==
  /\ At(p, "cancel")
  /\ SetRow(p, [call[p].copy EXCEPT !.cancel_requested = TRUE])
  /\ Tear(p, Stale(p))
  /\ Return(p)
  /\ UNCHANGED <<queue, processing, leases, tasks, crashes, lapses>>

-----------------------------------------------------------------------------
\* claim_next: the script moves the oldest id over and reads its record ...
PoppedOntoNothing(s, r) == s
PoppedOnto(s, r) == Append(s, r)
ClaimPop(p) ==
  /\ Free(p) /\ queue # <<>>
  /\ LET r == Head(queue) IN
     /\ queue' = Tail(queue)
     /\ processing' = PoppedOnto(processing, r)
     /\ Goto(p, [Idle EXCEPT !.at = "claim", !.run = r, !.seen = row[r], !.copy = row[r]])
  /\ UNCHANGED <<row, leases, tasks, torn, crashes, lapses>>
\* ... and a pipeline writes the record, whatever its status was, and the lease.
ClaimedUnfenced(old) == [old EXCEPT !.status = "running", !.lease = "ahead"]
Claimed(old) ==
  [old EXCEPT !.status = "running", !.lease = "ahead", !.lease_generation = @ + 1]
ClaimWrite(p) ==
  /\ At(p, "claim")
  /\ LET new == Claimed(call[p].copy) IN
     /\ SetRow(p, new)
     /\ tasks' = tasks \cup
          {[pod |-> p, run |-> InHand(p), generation |-> new.lease_generation]}
  /\ leases' = leases \cup {InHand(p)}
  /\ Tear(p, Stale(p))
  /\ Return(p)
  /\ UNCHANGED <<queue, processing, crashes, lapses>>

-----------------------------------------------------------------------------
\* What the heartbeat and the outcome of a task rely on: the generation is the
\* one claimed under.
Current(t) == row[t.run] # NoRow /\ row[t.run].lease_generation = t.generation
Look(p, t, step) ==
  Goto(p, [Idle EXCEPT !.at = step, !.run = t.run, !.seen = row[t.run]])

\* The heartbeat's check; then SET of the lease key, GET and SET of the record.
Beat(t) ==
  /\ Free(t.pod) /\ Current(t)
  /\ Look(t.pod, t, "beat")
  /\ UNCHANGED <<row, queue, processing, leases, tasks, torn, crashes, lapses>>
BeatKey(p) ==
  /\ At(p, "beat")
  /\ leases' = leases \cup {InHand(p)}
  /\ Proceed(p, "extend")
  /\ UNCHANGED <<row, queue, processing, tasks, torn, crashes, lapses>>
BeatRead(p) ==
  /\ At(p, "extend")
  /\ Goto(p, [call[p] EXCEPT !.at = "refresh", !.copy = row[InHand(p)]])
  /\ UNCHANGED <<row, queue, processing, leases, tasks, torn, crashes, lapses>>
BeatWrite(p) ==
  /\ At(p, "refresh")
  /\ SetRow(p, [call[p].copy EXCEPT !.lease = "ahead"])
  /\ Tear(p, Stale(p))
  /\ Return(p)
  /\ UNCHANGED <<queue, processing, leases, tasks, crashes, lapses>>

\* The stream of a task has ended: the fence is read and a stale task leaves its
\* run alone; then update() reads and writes the record.
Owner(p) == CHOOSE t \in tasks : t.pod = p /\ t.run = InHand(p)
                                 /\ t.generation = call[p].seen.lease_generation
FinishCheck(t) ==
  /\ Free(t.pod)
  /\ IF Current(t) THEN Look(t.pod, t, "check") /\ UNCHANGED tasks
                   ELSE tasks' = tasks \ {t} /\ UNCHANGED call
  /\ UNCHANGED <<row, queue, processing, leases, torn, crashes, lapses>>
FinishRead(p) ==
  /\ At(p, "check")
  /\ Goto(p, [call[p] EXCEPT !.at = "finish", !.copy = row[InHand(p)]])
  /\ UNCHANGED <<row, queue, processing, leases, tasks, torn, crashes, lapses>>
FinishWrite(p) ==
  /\ At(p, "finish")
  /\ SetRow(p, [call[p].copy EXCEPT !.status = "ended", !.lease = "none"])
  /\ tasks' = tasks \ {Owner(p)}
  /\ Tear(p, Stale(p))
  /\ Return(p)
  /\ UNCHANGED <<queue, processing, leases, crashes, lapses>>

-----------------------------------------------------------------------------
\* reap_expired_leases: LRANGE, then each id in turn.
NextEntry(p) ==
  IF Len(call[p].rest) > 1
  THEN [Idle EXCEPT !.at = "reap", !.rest = Tail(call[p].rest)] ELSE Idle
ReapList(p) ==
  /\ Free(p) /\ processing # <<>>
  /\ Goto(p, [Idle EXCEPT !.at = "reap", !.rest = processing])
  /\ UNCHANGED <<row, queue, processing, leases, tasks, torn, crashes, lapses>>
\* GET: what does not run is taken off the list ...
ReapRead(p) ==
  /\ At(p, "reap")
  /\ LET r == Head(call[p].rest) IN
     Goto(p, [call[p] EXCEPT !.run = r, !.seen = row[r], !.copy = row[r],
                             !.at = IF row[r].status = "running" THEN "expired" ELSE "drop"])
  /\ UNCHANGED <<row, queue, processing, leases, tasks, torn, crashes, lapses>>
\* (a claimant that has popped the id and not written its record yet loses it)
PoppedBy(q, r) == At(q, "claim") /\ InHand(q) = r
ReapDrop(p) ==
  /\ At(p, "drop")
  /\ processing' = LRem(InHand(p), processing)
  /\ Tear(p, Stale(p) \/ \E q \in Pod : PoppedBy(q, InHand(p)))
  /\ Goto(p, NextEntry(p))
  /\ UNCHANGED <<row, queue, leases, tasks, crashes, lapses>>
\* ... EXISTS: and what has a lease key and time left is left alone.
Expired(p) == InHand(p) \notin leases \/ call[p].copy.lease = "past"
ReapExpired(p) ==
  /\ At(p, "expired")
  /\ IF Expired(p) THEN Proceed(p, "requeue") ELSE Goto(p, NextEntry(p))
  /\ UNCHANGED <<row, queue, processing, leases, tasks, torn, crashes, lapses>>
\* SET, LREM, RPUSH, DEL.
ReapedWithoutFence(old) == [old EXCEPT !.status = "queued", !.lease = "none"]
Reaped(old) == [old EXCEPT !.status = "queued", !.lease = "none", !.lease_generation = @ + 1]
ReapWrite(p) ==
  /\ At(p, "requeue")
  /\ SetRow(p, Reaped(call[p].copy))
  /\ Tear(p, Stale(p))
  /\ Goto(p, [call[p] EXCEPT !.at = "remove", !.seen = Reaped(call[p].copy)])
  /\ UNCHANGED <<queue, processing, leases, tasks, crashes, lapses>>
ReapRemove(p) ==
  /\ At(p, "remove")
  /\ processing' = LRem(InHand(p), processing)
  /\ Tear(p, Stale(p))
  /\ Proceed(p, "append")
  /\ UNCHANGED <<row, queue, leases, tasks, crashes, lapses>>
ReapAppend(p) ==
  /\ At(p, "append")
  /\ queue' = Append(queue, InHand(p))
  /\ Tear(p, Stale(p))
  /\ Proceed(p, "release")
  /\ UNCHANGED <<row, processing, leases, tasks, crashes, lapses>>
ReapRelease(p) ==
  /\ At(p, "release")
  /\ leases' = leases \ {InHand(p)}
  /\ Tear(p, Stale(p))
  /\ Goto(p, NextEntry(p))
  /\ UNCHANGED <<row, queue, processing, tasks, crashes, lapses>>

-----------------------------------------------------------------------------
\* The deadline of a record passes, the TTL of a lease key ends.
DeadlinePasses(r) ==
  /\ lapses < MaxLapses /\ row[r] # NoRow /\ row[r].lease = "ahead"
  /\ row' = [row EXCEPT ![r].lease = "past"]
  /\ call' = [p \in Pod |-> IF At(p, "cancel") /\ InHand(p) = r /\ call[p].copy.lease = "ahead"
                            THEN [call[p] EXCEPT !.copy.lease = "past"] ELSE call[p]]
  /\ lapses' = lapses + 1
  /\ UNCHANGED <<queue, processing, leases, tasks, torn, crashes>>
KeyEnds(r) ==
  /\ lapses < MaxLapses /\ r \in leases
  /\ leases' = leases \ {r}
  /\ lapses' = lapses + 1
  /\ UNCHANGED <<row, queue, processing, call, tasks, torn, crashes>>

\* A process dies, perhaps in the middle of a call that was moving a run.
Moving(p) == call[p].at \in {"push", "claim", "remove", "append"}
Crash(p) ==
  /\ crashes < MaxCrashes
  /\ crashes' = crashes + 1
  /\ tasks' = {t \in tasks : t.pod # p}
  /\ Tear(p, Moving(p))
  /\ Return(p)
  /\ UNCHANGED <<row, queue, processing, leases, lapses>>

-----------------------------------------------------------------------------
Store(p) ==
  \/ Push(p) \/ CancelWrite(p) \/ ClaimPop(p) \/ ClaimWrite(p)
  \/ BeatKey(p) \/ BeatRead(p) \/ BeatWrite(p) \/ FinishRead(p) \/ FinishWrite(p)
  \/ ReapList(p) \/ ReapRead(p) \/ ReapDrop(p) \/ ReapExpired(p) \/ ReapWrite(p)
  \/ ReapRemove(p) \/ ReapAppend(p) \/ ReapRelease(p)

Next ==
  /\ Cardinality(torn) <= MaxTorn
  /\ \/ \E p \in Pod : Store(p) \/ Crash(p)
     \/ \E p \in Pod, r \in Run : Create(p, r) \/ CancelRead(p, r)
     \/ \E t \in tasks : Beat(t) \/ FinishCheck(t)
     \/ \E r \in Run : DeadlinePasses(r) \/ KeyEnds(r)

Spec == Init /\ [][Next]_vars

-----------------------------------------------------------------------------
\* Types; no execution runs under the generation of a row nobody claimed.
TypeOK ==
  /\ row \in [Run -> Row \cup {NoRow}]
  /\ queue \in Seq(Run) /\ processing \in Seq(Run)
  /\ leases \subseteq Run
  /\ call \in [Pod -> [at : Steps, run : Run \cup {NoRun}, seen : Row \cup {NoRow},
                       copy : Row \cup {NoRow}, rest : Seq(Run)]]
  /\ tasks \subseteq Task /\ torn \subseteq Run
  /\ crashes \in 0..MaxCrashes /\ lapses \in 0..MaxLapses

\* No run is lost but by a torn call: a queued run can be claimed or is in the
\* hands of a process that is about to list it, a running one can be reaped.
\* (The comment at redis.py:197 says a reaper "only ever sees it as RUNNING
\* (claimed) or still in the queue"; ReapDrop is where it does not.)
Moved(r) == \E p \in Pod : InHand(p) = r /\ Moving(p)
Reachable ==
  \A r \in Run \ torn : row[r] # NoRow =>
    /\ row[r].status = "queued"  => InSeq(r, queue) \/ Moved(r)
    /\ row[r].status = "running" => InSeq(r, processing)

\* No run is listed twice but by a torn call: claim_next does not look at the
\* status of what it pops, so a second entry is a second execution.
Entries(r) == {i \in 1..Len(queue) : queue[i] = r}
              \cup {-i : i \in {j \in 1..Len(processing) : processing[j] = r}}
ListedOnce == \A r \in Run \ torn : Cardinality(Entries(r)) <= 1

\* update() and request_cancel() write the whole record they read.  But for a
\* torn call no step takes a generation back, forgets a cancellation or
\* executes a run again that has ended.
MovesForward ==
  [][\A r \in Run : row[r] # NoRow /\ r \notin torn' =>
       /\ row'[r].lease_generation >= row[r].lease_generation
       /\ row[r].cancel_requested => row'[r].cancel_requested
       /\ row[r].status = "ended" => row'[r].status = "ended"]_vars
=============================================================================
