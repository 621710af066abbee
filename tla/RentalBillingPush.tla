-------------------------- MODULE RentalBillingPush --------------------------
(***************************************************************************)
(* The rental-billing invoice saga: a run row driven by office users       *)
(* through the API, its post_qbo_invoice row in mutation_outbox, the       *)
(* worker replicas that drain it (rental-billing-invoice.ts), QuickBooks,  *)
(* and the workflow_event_log both writers append to.                      *)
(*                                                                         *)
(* Every database transaction is one action, except the per-row work       *)
(* transaction: it reads the run without a lock, calls QuickBooks while    *)
(* it is open, and only then locks the run; the read, the call and the     *)
(* locked write are separate actions.  A user's request and the locked     *)
(* write serialize on the run row's FOR UPDATE lock.                       *)
(***************************************************************************)
EXTENDS RentalBilling, Sequences, FiniteSets

CONSTANTS
  Workers,      \* worker replicas (processes) that share the queue
  BatchLimit,   \* rows one claim takes at most
  MaxRetries,   \* MUTATION_MAX_RETRIES, the dead-letter cap
  MaxVersion,   \* bound: users stop at this state_version
  NoRun         \* a worker that is between rows

ASSUME PushAssumption ==
  /\ BatchLimit \in Nat \ {0}
  /\ MaxRetries \in Nat \ {0}
  /\ MaxVersion \in Nat \ {0}
  /\ NoRun \notin Runs

VARIABLES
  run,       \* rental_billing_runs
  log,       \* workflow_event_log of each run, in insertion order
  outbox,    \* the row with key rental_billing_run:post:<run>, or "none"
  invoices,  \* invoices QuickBooks holds
  worker     \* where each replica is in its tick

vars == <<run, log, outbox, invoices, worker>>

Live == {"pending", "processing"}

\* due: next_attempt_at <= now().  A claimed row is not due until its
\* five-minute lease runs out.
OutboxRows ==
  [ status : Live \cup {"none", "applied", "failed", "dead"},
    attempt_count : 0..MaxRetries,
    due : BOOLEAN ]

NoRow == [status |-> "none", attempt_count |-> 0, due |-> FALSE]

\* attempt_count is only ever compared with MaxRetries: it saturates there.
Bump(n) == IF n < MaxRetries THEN n + 1 ELSE n

\* recordMutationOutbox: insert, or re-arm on the idempotency key's conflict.
Enqueue(row) ==
  [ status        |-> "pending",
    attempt_count |-> IF row.status = "none" THEN 0 ELSE Bump(row.attempt_count),
    due           |-> TRUE ]

\* pc: the next step; batch: claimed rows not begun; row: the row at work;
\* got: the invoice id its push returned.
Replicas ==
  [ pc    : {"idle", "swept", "rows", "pushing", "pushed", "recovering", "marking"},
    batch : SUBSET Runs,
    row   : Runs \cup {NoRun},
    got   : Runs \cup {NoInvoice} ]

Idle == [pc |-> "idle", batch |-> {}, row |-> NoRun, got |-> NoInvoice]

LogEntries == [state_version : Nat, event : Events, snapshot_after : Snapshots]

LogEntry(snapshot, event) ==
  [ state_version  |-> snapshot.state_version,
    event          |-> event,
    snapshot_after |-> Reduce(snapshot, event) ]

TypeOK ==
  /\ run \in [Runs -> Snapshots]
  /\ log \in [Runs -> Seq(LogEntries)]
  /\ outbox \in [Runs -> OutboxRows]
  /\ invoices \subseteq [run : Runs, requestid : Runs]
  /\ worker \in [Workers -> Replicas]

Init ==
  /\ run = [r \in Runs |-> InitialSnapshot]
  /\ log = [r \in Runs |-> <<>>]
  /\ outbox = [r \in Runs |-> NoRow]
  /\ invoices = {}
  /\ worker = [w \in Workers |-> Idle]
-----------------------------------------------------------------------------
(* The API: dispatchWorkflowEvent in one transaction. *)

\* Reduce, persist and append to the log: what both writers do under the lock.
Transition(r, event) ==
  /\ run' = [run EXCEPT ![r] = Reduce(run[r], event)]
  /\ log' = [log EXCEPT ![r] = Append(log[r], LogEntry(run[r], event))]

\* A user's event.  A request whose state_version is not the row's, or whose
\* event the reducer refuses, is answered 409 and changes nothing.
HumanEvent(r, type) ==
  /\ run[r].state_version < MaxVersion
  /\ Legal(run[r], type)
  /\ Transition(r, Event(type, NoInvoice))
  /\ outbox' = IF type = "POST_REQUESTED"
               THEN [outbox EXCEPT ![r] = Enqueue(outbox[r])]
               ELSE outbox
  /\ UNCHANGED <<invoices, worker>>
-----------------------------------------------------------------------------
(* The worker's tick. *)

\* sweepDeadLetters: rows at the retry cap are retired before the drain.
SweepDeadLetters(w) ==
  /\ worker[w].pc = "idle"
  /\ outbox' = [r \in Runs |->
                  IF outbox[r].status \in Live /\ outbox[r].attempt_count >= MaxRetries
                  THEN [outbox[r] EXCEPT !.status = "dead"]
                  ELSE outbox[r]]
  /\ worker' = [worker EXCEPT ![w].pc = "swept"]
  /\ UNCHANGED <<run, log, invoices>>

\* The sweep is best effort: its error is logged and the drain goes on.
SweepFails(w) ==
  /\ worker[w].pc = "idle"
  /\ worker' = [worker EXCEPT ![w].pc = "swept"]
  /\ UNCHANGED <<run, log, outbox, invoices>>

\* Mutant of Claimable: a leased row is never claimed again.
ClaimableWhenPending(r) == outbox[r].status = "pending" /\ outbox[r].due

Claimable(r) == outbox[r].status \in Live /\ outbox[r].due

\* Phase 1: FOR UPDATE SKIP LOCKED, at most BatchLimit rows, lease of 5 minutes.
Claim(w) ==
  /\ worker[w].pc = "swept"
  /\ \E batch \in SUBSET {r \in Runs : Claimable(r)} :
       /\ Cardinality(batch) <= BatchLimit
       /\ Cardinality(batch) < BatchLimit => \A r \in Runs : Claimable(r) => r \in batch
       /\ outbox' = [r \in Runs |->
                       IF r \in batch
                       THEN [ status        |-> "processing",
                              attempt_count |-> Bump(outbox[r].attempt_count),
                              due           |-> FALSE ]
                       ELSE outbox[r]]
       /\ worker' = [worker EXCEPT ![w] =
                       [Idle EXCEPT !.pc = IF batch = {} THEN "idle" ELSE "rows",
                                    !.batch = batch]]
  /\ UNCHANGED <<run, log, invoices>>

\* Mutant of AlreadyPushed: the invoice id is not looked at.
AlreadyPushedByState(r) == run[r].state = "posting"

\* A prior attempt recorded the invoice but not the outcome.
AlreadyPushed(r) == run[r].state = "posting" /\ run[r].qbo_invoice_id # NoInvoice

\* Phase 2, per row: begin and the unlocked idempotency read.
ReadRun(w) ==
  /\ worker[w].pc = "rows"
  /\ \E r \in worker[w].batch :
       worker' = [worker EXCEPT ![w] =
         [ pc    |-> IF AlreadyPushed(r) THEN "pushed" ELSE "pushing",
           batch |-> worker[w].batch \ {r},
           row   |-> r,
           got   |-> run[r].qbo_invoice_id ]]
  /\ UNCHANGED <<run, log, outbox, invoices>>

\* Mutant of RequestId: a key of the attempt's own.
RequestIdPerReplica(w) == <<worker[w].row, w>>

\* The Intuit requestid of a push: the run id, the same on every retry.
RequestId(w) == worker[w].row

\* QuickBooks mints an invoice unless it has seen the requestid.
Minted(w) == invoices \cup {[run |-> worker[w].row, requestid |-> RequestId(w)]}

PushAccepted(w) ==
  /\ worker[w].pc = "pushing"
  /\ invoices' = Minted(w)
  /\ worker' = [worker EXCEPT ![w].pc = "pushed", ![w].got = RequestId(w)]
  /\ UNCHANGED <<run, log, outbox>>

\* The push throws: refused before it reached QuickBooks (no connection, no
\* mapping, circuit open, 4xx/5xx), or accepted and the answer lost.
PushThrows(w) ==
  /\ worker[w].pc = "pushing"
  /\ invoices' \in {invoices, Minted(w)}
  /\ worker' = [worker EXCEPT ![w].pc = "recovering"]
  /\ UNCHANGED <<run, log, outbox>>

\* Mutant of ApplyWorkerEvent: the status re-check under the lock is dropped.
ApplyWorkerEventUnguarded(r, event) == Transition(r, event)

\* applyWorkerEmittedEvent: a run that is no longer posting is left alone.
ApplyWorkerEvent(r, event) ==
  IF Legal(run[r], event.type)
  THEN Transition(r, event)
  ELSE UNCHANGED <<run, log>>

NextRow(w) ==
  worker' = [worker EXCEPT ![w] =
    [Idle EXCEPT !.pc = IF worker[w].batch = {} THEN "idle" ELSE "rows",
                 !.batch = worker[w].batch]]

\* The locked half of the work transaction: run, log and outbox row commit together.
CommitSuccess(w) ==
  LET r == worker[w].row IN
  /\ worker[w].pc = "pushed"
  /\ ApplyWorkerEvent(r, Event("POST_SUCCEEDED", worker[w].got))
  /\ outbox' = [outbox EXCEPT ![r].status = "applied"]
  /\ NextRow(w)
  /\ UNCHANGED invoices

\* The same transaction aborted by the database: nothing of it remains.
CommitFails(w) ==
  /\ worker[w].pc = "pushed"
  /\ worker' = [worker EXCEPT ![w].pc = "recovering"]
  /\ UNCHANGED <<run, log, outbox, invoices>>

\* First recovery transaction: POST_FAILED.  It is best effort.
RecordFailure(w) ==
  /\ worker[w].pc = "recovering"
  /\ \/ ApplyWorkerEvent(worker[w].row, Event("POST_FAILED", NoInvoice))
     \/ UNCHANGED <<run, log>>
  /\ worker' = [worker EXCEPT ![w].pc = "marking"]
  /\ UNCHANGED <<outbox, invoices>>

\* Second recovery transaction, markOutboxRowFailedFresh: parks the row by id,
\* whatever its status has become.  If it cannot commit, the lease remains.
MarkFailed(w) ==
  /\ worker[w].pc = "marking"
  /\ \/ outbox' = [outbox EXCEPT ![worker[w].row].status = "failed"]
     \/ UNCHANGED outbox
  /\ NextRow(w)
  /\ UNCHANGED <<run, log, invoices>>

\* The process dies (or, between the sweep and the claim, the claim's own
\* transaction fails): what was open rolls back, its claims stay leased.
Crash(w) ==
  /\ worker[w].pc # "idle"
  /\ worker' = [worker EXCEPT ![w] = Idle]
  /\ UNCHANGED <<run, log, outbox, invoices>>

\* Five minutes pass on a claimed row, whether or not its worker is alive: the
\* push has no timeout of its own and a batch is worked row by row.
LeaseExpires(r) ==
  /\ outbox[r].status = "processing"
  /\ ~outbox[r].due
  /\ outbox' = [outbox EXCEPT ![r].due = TRUE]
  /\ UNCHANGED <<run, log, invoices, worker>>

WorkerStep(w) ==
  \/ SweepDeadLetters(w)
  \/ SweepFails(w)
  \/ Claim(w)
  \/ ReadRun(w)
  \/ PushAccepted(w)
  \/ PushThrows(w)
  \/ CommitSuccess(w)
  \/ CommitFails(w)
  \/ RecordFailure(w)
  \/ MarkFailed(w)

Next ==
  \/ \E r \in Runs, type \in HumanEvents : HumanEvent(r, type)
  \/ \E w \in Workers : WorkerStep(w) \/ Crash(w)
  \/ \E r \in Runs : LeaseExpires(r)

Spec == Init /\ [][Next]_vars

\* The replicas keep ticking (a crashed one is restarted by its supervisor), no
\* replica dies at every single tick before it gets to claim, not every sweep
\* fails, and time passes.  Nothing is assumed of users, of QuickBooks, or of
\* crashes and lost transactions at work.
FairSpec ==
  /\ Spec
  /\ \A w \in Workers :
       /\ WF_vars(WorkerStep(w))
       /\ SF_vars(SweepDeadLetters(w))
       /\ SF_vars(Claim(w))
  /\ \A r \in Runs : WF_vars(LeaseExpires(r))
-----------------------------------------------------------------------------
(* Safety. *)

\* A run shows an invoice id exactly when it is posted, and QuickBooks holds
\* that invoice for it: no cancel, retry, replica race or crash between the
\* push and its commit leaves a posted run without one (applyWorkerEmittedEvent).
PostedIsInvoiced ==
  \A r \in Runs :
    /\ run[r].state = "posted" <=> run[r].qbo_invoice_id # NoInvoice
    /\ run[r].state = "posted" =>
         [run |-> r, requestid |-> run[r].qbo_invoice_id] \in invoices

\* However often a run is pushed (expired lease, lost answer, retry after a
\* cancel, two replicas at once), QuickBooks holds one invoice for it: the
\* requestid comment of qbo-invoice-push.ts.
OneInvoicePerRun ==
  \A i, j \in invoices : i.run = j.run => i = j

\* The snapshot the i-th logged event was reduced from.
Before(r, i) == IF i = 1 THEN InitialSnapshot ELSE log[r][i - 1].snapshot_after

\* The event log is the run's history: one entry per version, each a legal
\* transition of the reducer from the one before, ending in the row itself.
\* This is what replay asserts of the log both writers share.
LogIsHistory ==
  \A r \in Runs :
    /\ run[r] = Before(r, Len(log[r]) + 1)
    /\ run[r].state_version = Len(log[r]) + 1
    /\ \A i \in 1..Len(log[r]) :
         /\ Legal(Before(r, i), log[r][i].event.type)
         /\ log[r][i] = LogEntry(Before(r, i), log[r][i].event)
         /\ log[r][i].state_version = i

\* A run that waits for its invoice has an outbox row, and that row is not
\* marked applied: marking it applied and settling the run are one commit.
PostingIsNotApplied ==
  \A r \in Runs : run[r].state = "posting" => outbox[r].status \notin {"none", "applied"}

\* The saga implements what rental billing promises the office.
Requested == {r \in Runs : \E i \in 1..Len(log[r]) : log[r][i].event.type = "POST_REQUESTED"}

Booked == {r \in Runs : \E i \in invoices : i.run = r}

Promise == INSTANCE BillingRun WITH requested <- Requested, booked <- Booked

KeepsPromise == Promise!ASpec
-----------------------------------------------------------------------------
(* Liveness. *)

\* A requested post is answered, or its row is parked where operators look
\* (failed, dead): no crash, lost answer or lost recovery leaves the run
\* waiting on a row that is still queued.
PostingIsAnswered ==
  \A r \in Runs :
    run[r].state = "posting" ~> run[r].state # "posting" \/ outbox[r].status \in {"failed", "dead"}
-----------------------------------------------------------------------------
(* What a comment of the repository says of this saga and the code does not do. *)

\* rental-billing.ts on CANCEL_POST: a live push is never voided, so that no
\* real invoice is orphaned.
VoidedHasNoInvoice ==
  \A r \in Runs : run[r].state = "voided" => \A i \in invoices : i.run # r
=============================================================================
