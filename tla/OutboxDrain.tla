------------------------------ MODULE OutboxDrain ------------------------------
(***************************************************************************)
(* mutation_outbox and the worker that empties it.  A request inserts a    *)
(* row or re-arms the row of the same idempotency key; a heartbeat first   *)
(* retires the rows at the retry cap, then lets the dedicated drains claim *)
(* their types under a lease, then applies the generic types and parks the *)
(* rows nobody handles, and now and then prunes rows applied long ago.     *)
(*                                                                         *)
(* Each database transaction is one action.  Jobs are rows of a dedicated  *)
(* type, here pull_qbo_reference; a replica works on one between the claim *)
(* and the transaction that records the outcome, and may crash there.      *)
(***************************************************************************)
EXTENDS Naturals, FiniteSets

CONSTANTS
  Anchors,      \* keys of rows of the generic allowlist: nothing to do but apply
  Jobs,         \* keys of rows a dedicated runner claims
  Strangers,    \* keys of rows whose mutation_type nobody handles
  Workers,      \* worker replicas
  MaxRetries,   \* MUTATION_MAX_RETRIES, the dead-letter cap
  MaxRequests,  \* bound: requests made through the API
  MaxFaults,    \* bound: sweeps that fail, and replicas that stop between two transactions
  NoKey         \* a replica that works on no row

Keys == Anchors \cup Jobs \cup Strangers

ASSUME KindsAreDisjoint ==
  /\ Anchors \cap Jobs = {} /\ Anchors \cap Strangers = {} /\ Jobs \cap Strangers = {}
  /\ NoKey \notin Keys

ASSUME BoundsAreNaturals ==
  /\ MaxRetries \in Nat \ {0} /\ MaxRequests \in Nat /\ MaxFaults \in Nat
  /\ IsFiniteSet(Workers)

VARIABLES
  row,       \* the row of each key, or one whose status is "none"
  worker,    \* where each replica is in its heartbeat
  requests,  \* requests made so far
  faults,    \* failed sweeps and crashes so far
  asked,     \* history: keys requested and not attempted since
  late,      \* history: keys given an outcome by an attempt older than the request
  pulled     \* history: rows whose job's own transaction committed

vars == <<row, worker, requests, faults, asked, late, pulled>>

Queue == {"pending", "processing"}
Rest == {"applied", "failed", "dead"}

\* due: next_attempt_at <= now().  applied_at: not set, set, or set longer
\* ago than the retention window.  id: rows inserted under this key so far.
Rows ==
  [ status : Queue \cup Rest \cup {"none"},
    attempts : Nat,
    due : BOOLEAN,
    applied_at : {"null", "recent", "old"},
    id : Nat ]

NoRow == [status |-> "none", attempts |-> 0, due |-> FALSE, applied_at |-> "null", id |-> 0]

\* fresh: the row has not been requested again since the attempt began.
Replicas ==
  [ pc : {"idle", "dedicated", "pulling", "failed", "generic", "prune"},
    key : Keys \cup {NoKey}, id : Nat, fresh : BOOLEAN, busy : BOOLEAN ]

Idle == [pc |-> "idle", key |-> NoKey, id |-> 0, fresh |-> TRUE, busy |-> FALSE]

Queued(k) == row[k].status \in Queue

Init ==
  /\ row = [k \in Keys |-> NoRow]
  /\ worker = [w \in Workers |-> Idle]
  /\ requests = 0
  /\ faults = 0
  /\ asked = {} /\ late = {} /\ pulled = {}
-----------------------------------------------------------------------------
(* The API. *)

Fresh(k) ==
  [status |-> "pending", attempts |-> 0, due |-> TRUE, applied_at |-> "null", id |-> row[k].id + 1]

\* recordMutationOutbox: a conflict re-arms the row whatever its status.
Upsert(k) ==
  IF row[k].status = "none" THEN Fresh(k)
  ELSE [row[k] EXCEPT !.status = "pending", !.attempts = @ + 1, !.due = TRUE]

\* Mutant: a failed pull is not re-armed.
RearmableUnlessFailed == Rest \ {"failed"}

\* The statuses POST /api/integrations/qbo/pull re-arms.
Rearmable == Rest

\* A second click while a pull is queued changes nothing.
UpsertPull(k) ==
  IF row[k].status = "none" THEN Fresh(k)
  ELSE IF row[k].status \in Rearmable
  THEN [row[k] EXCEPT !.status = "pending", !.due = TRUE]
  ELSE row[k]

Request(k) ==
  /\ requests < MaxRequests
  /\ requests' = requests + 1
  /\ row' = [row EXCEPT ![k] = IF k \in Jobs THEN UpsertPull(k) ELSE Upsert(k)]
  /\ IF k \in Jobs /\ Queued(k)
     THEN UNCHANGED <<asked, late, worker>>
     ELSE /\ asked' = asked \cup {k}
          /\ late' = late \ {k}
          /\ worker' = [w \in Workers |->
                          IF worker[w].key = k THEN [worker[w] EXCEPT !.fresh = FALSE]
                          ELSE worker[w]]
  /\ UNCHANGED <<faults, pulled>>
-----------------------------------------------------------------------------
(* A heartbeat. *)

\* Mutant: a row whose worker died is never retired.
RetirablePending(k) == row[k].status = "pending" /\ row[k].attempts >= MaxRetries

Retirable(k) == Queued(k) /\ row[k].attempts >= MaxRetries

\* sweepDeadLetters, and the count of what is left for the generic drain.
SweepDeadLetters(w) ==
  /\ worker[w].pc = "idle"
  /\ row' = [k \in Keys |->
               IF Retirable(k)
               THEN [row[k] EXCEPT !.status = "dead", !.applied_at = "recent"]
               ELSE row[k]]
  /\ worker' = [worker EXCEPT ![w].pc = "dedicated",
                              ![w].busy = \E k \in Keys : Queued(k) /\ ~Retirable(k)]
  /\ UNCHANGED <<requests, faults, asked, late, pulled>>

\* Best effort: the sweep fails and the heartbeat goes on.
SweepFails(w) ==
  /\ worker[w].pc = "idle"
  /\ faults < MaxFaults
  /\ faults' = faults + 1
  /\ worker' = [worker EXCEPT ![w].pc = "dedicated", ![w].busy = \E k \in Keys : Queued(k)]
  /\ UNCHANGED <<row, requests, asked, late, pulled>>

\* Mutant: a claimed row is not claimed again when its lease runs out.
ClaimableWhenPending(k) == row[k].status = "pending" /\ row[k].due

Claimable(k) == Queued(k) /\ row[k].due

\* processQboPull's first transaction: one due row, leased for five minutes.
ClaimPull(w, k) ==
  /\ worker[w].pc = "dedicated"
  /\ Claimable(k)
  /\ row' = [row EXCEPT ![k].status = "processing", ![k].attempts = @ + 1, ![k].due = FALSE]
  /\ worker' = [worker EXCEPT ![w].pc = "pulling", ![w].key = k,
                              ![w].id = row[k].id, ![w].fresh = TRUE]
  /\ asked' = asked \ {k}
  /\ late' = late \ {k}
  /\ UNCHANGED <<requests, faults, pulled>>

\* The lane is paused, or nothing is due.
NoPull(w) ==
  /\ worker[w].pc = "dedicated"
  /\ worker' = [worker EXCEPT ![w].pc = "generic"]
  /\ UNCHANGED <<row, requests, faults, asked, late, pulled>>

\* An outcome is written by id: a row pruned meanwhile takes none.
Record(w, status, applied_at) ==
  LET k == worker[w].key IN
  IF row[k].status = "none" \/ row[k].id # worker[w].id
  THEN UNCHANGED <<row, late>>
  ELSE /\ row' = [row EXCEPT ![k].status = status, ![k].applied_at = applied_at]
       /\ late' = IF worker[w].fresh THEN late ELSE late \cup {k}

Goes(w, pc) == worker' = [worker EXCEPT ![w].pc = pc]

Leaves(w) ==
  worker' = [worker EXCEPT ![w].pc = "generic", ![w].key = NoKey, ![w].id = 0, ![w].fresh = TRUE]

\* The pull, its breadcrumb and the row's outcome commit together.
PullSucceeds(w) ==
  /\ worker[w].pc = "pulling"
  /\ Record(w, "applied", "recent")
  /\ pulled' = pulled \cup {<<worker[w].key, worker[w].id>>}
  /\ Leaves(w)
  /\ UNCHANGED <<requests, faults, asked>>

\* The pull throws and is rolled back; its breadcrumb may be written or not.
PullFails(w) ==
  /\ worker[w].pc = "pulling"
  /\ Goes(w, "failed")
  /\ UNCHANGED <<row, requests, faults, asked, late, pulled>>

\* markOutboxRowFailedFresh leaves applied_at as it was.
MarkFailed(w) ==
  /\ worker[w].pc = "failed"
  /\ Record(w, "failed", row[worker[w].key].applied_at)
  /\ Leaves(w)
  /\ UNCHANGED <<requests, faults, asked, pulled>>

\* The mark itself fails: the row stays leased.
MarkLost(w) ==
  /\ worker[w].pc = "failed"
  /\ Leaves(w)
  /\ UNCHANGED <<row, requests, faults, asked, late, pulled>>

\* Mutant: everything that is due, as before the contract was inverted.
GenericByDefault(k) == k \in Keys

\* GENERIC_APPLY_MUTATION_TYPES and the generic prefixes.
Generic(k) == k \in Anchors

Unroutable(k) == ~Generic(k) /\ k \notin Jobs

\* processQueue, one transaction: park the strangers, apply the generic rows.
DrainGeneric(w) ==
  /\ worker[w].pc = "generic"
  /\ worker[w].busy
  /\ row' = [k \in Keys |->
               CASE Claimable(k) /\ Unroutable(k) -> [row[k] EXCEPT !.status = "failed"]
                 [] Claimable(k) /\ Generic(k) ->
                      [row[k] EXCEPT !.status = "applied", !.attempts = @ + 1,
                                     !.due = FALSE, !.applied_at = "recent"]
                 [] OTHER -> row[k]]
  /\ asked' = {k \in asked : ~(Claimable(k) /\ (Generic(k) \/ Unroutable(k)))}
  /\ Goes(w, "prune")
  /\ UNCHANGED <<requests, faults, late, pulled>>

\* Nothing was queued when the heartbeat began.
SkipGeneric(w) ==
  /\ worker[w].pc = "generic"
  /\ ~worker[w].busy
  /\ Goes(w, "prune")
  /\ UNCHANGED <<row, requests, faults, asked, late, pulled>>

\* maybePrune: the daily pass, or a heartbeat on which it is not due.
Prune(w) ==
  /\ worker[w].pc = "prune"
  /\ \/ row' = [k \in Keys |->
                  IF row[k].applied_at = "old" THEN [NoRow EXCEPT !.id = row[k].id] ELSE row[k]]
     \/ row' = row
  /\ worker' = [worker EXCEPT ![w] = Idle]
  /\ UNCHANGED <<requests, faults, asked, late, pulled>>

\* The replica stops and starts again: its heartbeat is over.
Crash(w) ==
  /\ worker[w].pc # "idle"
  /\ faults < MaxFaults
  /\ faults' = faults + 1
  /\ worker' = [worker EXCEPT ![w] = Idle]
  /\ UNCHANGED <<row, requests, asked, late, pulled>>
-----------------------------------------------------------------------------
(* Time. *)

LeaseEnds(k) ==
  /\ row[k].status = "processing"
  /\ ~row[k].due
  /\ row' = [row EXCEPT ![k].due = TRUE]
  /\ UNCHANGED <<worker, requests, faults, asked, late, pulled>>

\* The retention window passes over a row nobody touched; no heartbeat lasts
\* that long.
GrowsOld(k) ==
  /\ row[k].applied_at = "recent"
  /\ row[k].status \in Rest
  /\ \A w \in Workers : worker[w].pc = "idle"
  /\ row' = [row EXCEPT ![k].applied_at = "old"]
  /\ UNCHANGED <<worker, requests, faults, asked, late, pulled>>

Heartbeat(w) ==
  \/ SweepDeadLetters(w) \/ SweepFails(w)
  \/ \E k \in Jobs : ClaimPull(w, k)
  \/ NoPull(w)
  \/ PullSucceeds(w) \/ PullFails(w) \/ MarkFailed(w) \/ MarkLost(w)
  \/ DrainGeneric(w) \/ SkipGeneric(w)
  \/ Prune(w)

Next ==
  \/ \E k \in Keys : Request(k) \/ LeaseEnds(k) \/ GrowsOld(k)
  \/ \E w \in Workers : Heartbeat(w) \/ Crash(w)

Spec == Init /\ [][Next]_vars

\* The lifecycle timer starts a heartbeat again and again, its steps end, and
\* leases run out.  A lane is not paused for ever: a claim that stays possible
\* is made.
FairSpec ==
  /\ Spec
  /\ \A w \in Workers : WF_vars(Heartbeat(w))
  /\ \A k \in Jobs : SF_vars(\E w \in Workers : ClaimPull(w, k)) /\ WF_vars(LeaseEnds(k))
-----------------------------------------------------------------------------
(* A replica claims only after a sweep, so the attempts begun on a job exceed
   the cap by one per other replica at most, by one per replica for each
   request that re-armed the row between their sweeps and their claims, and by
   one per sweep that failed. *)
TypeOK ==
  /\ row \in [Keys -> Rows]
  /\ worker \in [Workers -> Replicas]
  /\ \A k \in Jobs : row[k].attempts < MaxRetries + Cardinality(Workers) * requests + faults
  /\ asked \subseteq Keys /\ late \subseteq Keys

(* A row is applied only when its work was done: by the generic drain when
   there is none to do, by the dedicated runner's own transaction otherwise
   (the contract of outbox-contract.ts). *)
AppliedWasWorked ==
  \A k \in Keys :
    row[k].status = "applied" =>
      \/ k \in Anchors
      \/ k \in Jobs /\ <<k, row[k].id>> \in pulled

(* When a request comes to rest without an attempt of its own, the row had
   spent its attempts, or an older attempt's outcome came in late, or the row
   was pruned. *)
LossesAreExplained ==
  \A k \in asked :
    \/ Queued(k)
    \/ row[k].attempts >= MaxRetries
    \/ k \in late
    \/ row[k].status = "none"

(* Whatever is queued comes to rest, though replicas crash, marks are lost
   and pulls fail: the lease brings a row back and the cap ends it. *)
RequestsSettle == \A k \in Keys : Queued(k) ~> ~Queued(k)
=============================================================================
