------------------------------ MODULE RunStore ------------------------------
(***************************************************************************)
(* The durable run record and what each transactional backend (memory,     *)
(* SQLite, Postgres) does to it in one atomic store call.  The backends    *)
(* differ in how they take the write lock (an asyncio.Lock, BEGIN          *)
(* IMMEDIATE, FOR UPDATE) and agree on the resulting record, which is what *)
(* these operators give: one row in, the row the call leaves behind out.   *)
(* The Redis backend is not one transaction per call and is not modelled.  *)
(***************************************************************************)
EXTENDS Naturals

CONSTANTS Pods,     \* worker processes, the values of owner_pod
          NoPod,    \* owner_pod = None
          Durable   \* TRUE for the backends that serialize a row to JSON

ASSUME StoreAssumption ==
    /\ NoPod \notin Pods
    /\ Durable \in BOOLEAN

\* RunStatus; "absent" stands for "no such row".
RunStatus == {"absent", "queued", "running", "paused",
              "completed", "failed", "cancelled"}

TERMINAL_STATUSES == {"completed", "failed", "cancelled"}

\* lease_expires_at against the clock: None, still ahead, already past.
LeaseState == {"none", "ahead", "past"}

RunRecord == [status           : RunStatus,
              owner_pod        : Pods \cup {NoPod},
              lease            : LeaseState,
              cancel_requested : BOOLEAN,
              lease_generation : Nat,
              created_at       : Nat,
              webhook          : BOOLEAN]

NoRecord == [status |-> "absent", owner_pod |-> NoPod, lease |-> "none",
             cancel_requested |-> FALSE, lease_generation |-> 0,
             created_at |-> 0, webhook |-> FALSE]

\* What a row read back carries.  A durable backend validates the stored JSON
\* against the base RunRecord, whose fields do not include webhook; the
\* in-memory store hands back a copy of the very object it was given.
Decoded(row) == IF Durable THEN [row EXCEPT !.webhook = FALSE] ELSE row

\* create(): a QUEUED record of the base class, or of the subclass that
\* carries a callback URL.
Created(now, hook) ==
    [NoRecord EXCEPT !.status = "queued", !.created_at = now, !.webhook = hook]

\* update(**fields) of the fields every terminal or paused write sets.
Settled(row, status) ==
    [Decoded(row) EXCEPT !.status = status, !.owner_pod = NoPod, !.lease = "none"]

CancelRequested(row) == [Decoded(row) EXCEPT !.cancel_requested = TRUE]

\* claim_next() on the row it selected.
ClaimedWithoutLease(row, pod) ==
    [Decoded(row) EXCEPT !.status = "running", !.owner_pod = pod,
                         !.lease_generation = @ + 1]
Claimed(row, pod) ==
    [Decoded(row) EXCEPT !.status = "running", !.owner_pod = pod,
                         !.lease = "ahead",
                         !.lease_generation = @ + 1]

\* heartbeat(): no look at status or owner.
Heartbeaten(row, pod) ==
    [Decoded(row) EXCEPT !.owner_pod = pod, !.lease = "ahead"]

\* reap_expired_leases(): the rows it selects, and what it leaves of them.
ReapableTooSoon(row) == row.status = "running" /\ row.lease = "ahead"
Reapable(row) == row.status = "running" /\ row.lease = "past"

ReapedWithoutFence(row) ==
    [Decoded(row) EXCEPT !.status = "queued", !.owner_pod = NoPod, !.lease = "none"]
ReapedWithFreshFence(row) ==
    [Decoded(row) EXCEPT !.status = "queued", !.owner_pod = NoPod,
                         !.lease = "none",
                         !.lease_generation = 0]
Reaped(row) ==
    [Decoded(row) EXCEPT !.status = "queued", !.owner_pod = NoPod,
                         !.lease = "none",
                         !.lease_generation = @ + 1]

=============================================================================
