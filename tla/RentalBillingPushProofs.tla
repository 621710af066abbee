----------------------- MODULE RentalBillingPushProofs -----------------------
(***************************************************************************)
(* Proofs about the rental-billing invoice saga, for any number of runs,   *)
(* replicas, retries and versions.                                         *)
(***************************************************************************)
EXTENDS RentalBillingPush, TLAPS

\* The steps in which a replica is inside one row's work.
Working == {"pushing", "pushed", "recovering", "marking"}

\* A replica inside a row's work holds a run.
RowHeld == \A w \in Workers : worker[w].pc \in Working => worker[w].row \in Runs

TypeInv == TypeOK /\ RowHeld

\* The reducer maps a snapshot and an event to a snapshot (rental-billing.ts
\* never leaves its state set), one version later.
LEMMA ReduceType ==
  ASSUME NEW snapshot \in Snapshots, NEW event \in Events
  PROVE  /\ Reduce(snapshot, event) \in Snapshots
         /\ Reduce(snapshot, event).state_version = snapshot.state_version + 1
         /\ Reduce(snapshot, event).state = Target[event.type]
BY DEF Snapshots, Events, Reduce, Target, States, EventTypes, HumanEvents, WorkerEvents

\* A logged entry has the shape of the log's type.
LEMMA LogEntryType ==
  ASSUME NEW snapshot \in Snapshots, NEW event \in Events
  PROVE  LogEntry(snapshot, event) \in LogEntries
BY ReduceType DEF LogEntry, LogEntries, Snapshots

\* Reduce-persist-append keeps the row and the log well typed.
LEMMA TransitionType ==
  ASSUME TypeOK, NEW r \in Runs, NEW event \in Events, Transition(r, event)
  PROVE  run' \in [Runs -> Snapshots] /\ log' \in [Runs -> Seq(LogEntries)]
<1>1. run[r] \in Snapshots /\ log[r] \in Seq(LogEntries)
  BY DEF TypeOK
<1>2. Reduce(run[r], event) \in Snapshots
  BY <1>1, ReduceType
<1>3. LogEntry(run[r], event) \in LogEntries
  BY <1>1, LogEntryType
<1>4. Append(log[r], LogEntry(run[r], event)) \in Seq(LogEntries)
  BY <1>1, <1>3
<1>. QED
  BY <1>2, <1>4 DEF TypeOK, Transition

\* Every constructor of an event yields an event.
LEMMA EventType ==
  ASSUME NEW type \in EventTypes, NEW invoice \in Runs \cup {NoInvoice}
  PROVE  Event(type, invoice) \in Events /\ Event(type, invoice).type = type
BY DEF Event, Events

\* A worker-emitted event keeps the row and the log well typed, applied or not.
LEMMA ApplyType ==
  ASSUME TypeOK, NEW r \in Runs, NEW event \in Events, ApplyWorkerEvent(r, event)
  PROVE  run' \in [Runs -> Snapshots] /\ log' \in [Runs -> Seq(LogEntries)]
<1>1. CASE Legal(run[r], event.type)
  BY <1>1, TransitionType DEF ApplyWorkerEvent
<1>2. CASE ~Legal(run[r], event.type)
  BY <1>2 DEF ApplyWorkerEvent, TypeOK
<1>. QED
  BY <1>1, <1>2

\* attempt_count stays within the cap.
LEMMA BumpType ==
  ASSUME NEW n \in 0..MaxRetries
  PROVE  Bump(n) \in 0..MaxRetries
BY PushAssumption DEF Bump

\* A re-armed or inserted outbox row is an outbox row.
LEMMA EnqueueType ==
  ASSUME NEW row \in OutboxRows
  PROVE  Enqueue(row) \in OutboxRows /\ Enqueue(row).status = "pending"
<1>1. row.attempt_count \in 0..MaxRetries /\ 0 \in 0..MaxRetries
  BY PushAssumption DEF OutboxRows
<1>. QED
  BY <1>1, BumpType DEF Enqueue, OutboxRows, Live

\* Marking a row with a status keeps it an outbox row.
LEMMA StatusType ==
  ASSUME NEW row \in OutboxRows, NEW status \in Live \cup {"none", "applied", "failed", "dead"}
  PROVE  [row EXCEPT !.status = status] \in OutboxRows
BY DEF OutboxRows

\* So does marking one row of the table.
LEMMA MarkRowType ==
  ASSUME NEW table \in [Runs -> OutboxRows], NEW r \in Runs,
         NEW status \in Live \cup {"none", "applied", "failed", "dead"}
  PROVE  [table EXCEPT ![r].status = status] \in [Runs -> OutboxRows]
<1>1. [table[r] EXCEPT !.status = status] \in OutboxRows
  BY StatusType
<1>. QED
  BY <1>1

\* Between rows a replica is idle or has rows left.
LEMMA NextRowType ==
  ASSUME TypeInv, NEW w \in Workers, NextRow(w)
  PROVE  worker' \in [Workers -> Replicas] /\ RowHeld'
BY DEF TypeInv, TypeOK, NextRow, Idle, Replicas, RowHeld, Working

-----------------------------------------------------------------------------
(* Type correctness. *)

LEMMA HumanEventTypeInv ==
  ASSUME TypeInv, NEW r \in Runs, NEW type \in HumanEvents, HumanEvent(r, type)
  PROVE  TypeInv'
<1>1. Event(type, NoInvoice) \in Events
  BY EventType DEF EventTypes
<1>2. run' \in [Runs -> Snapshots] /\ log' \in [Runs -> Seq(LogEntries)]
  BY <1>1, TransitionType DEF HumanEvent, TypeInv
<1>3. outbox' \in [Runs -> OutboxRows]
  BY EnqueueType DEF HumanEvent, TypeInv, TypeOK
<1>. QED
  BY <1>2, <1>3 DEF HumanEvent, TypeInv, TypeOK, RowHeld

LEMMA SweepTypeInv ==
  ASSUME TypeInv, NEW w \in Workers, SweepDeadLetters(w)
  PROVE  TypeInv'
<1>1. outbox' \in [Runs -> OutboxRows]
  BY StatusType DEF SweepDeadLetters, TypeInv, TypeOK
<1>2. worker' \in [Workers -> Replicas] /\ RowHeld'
  BY DEF SweepDeadLetters, TypeInv, TypeOK, Replicas, RowHeld, Working
<1>. QED
  BY <1>1, <1>2 DEF SweepDeadLetters, TypeInv, TypeOK

LEMMA ClaimTypeInv ==
  ASSUME TypeInv, NEW w \in Workers, Claim(w)
  PROVE  TypeInv'
<1>1. PICK batch \in SUBSET {r \in Runs : Claimable(r)} :
        /\ outbox' = [r \in Runs |->
                        IF r \in batch
                        THEN [ status        |-> "processing",
                               attempt_count |-> Bump(outbox[r].attempt_count),
                               due           |-> FALSE ]
                        ELSE outbox[r]]
        /\ worker' = [worker EXCEPT ![w] =
                        [Idle EXCEPT !.pc = IF batch = {} THEN "idle" ELSE "rows",
                                     !.batch = batch]]
  BY DEF Claim
<1>2. outbox' \in [Runs -> OutboxRows]
  <2>1. SUFFICES ASSUME NEW r \in Runs
                 PROVE  [ status        |-> "processing",
                          attempt_count |-> Bump(outbox[r].attempt_count),
                          due           |-> FALSE ] \in OutboxRows
    BY <1>1 DEF TypeInv, TypeOK
  <2>2. Bump(outbox[r].attempt_count) \in 0..MaxRetries
    BY BumpType DEF TypeInv, TypeOK, OutboxRows
  <2>. QED
    BY <2>2 DEF OutboxRows, Live
<1>3. worker' \in [Workers -> Replicas] /\ RowHeld'
  BY <1>1 DEF TypeInv, TypeOK, Replicas, Idle, RowHeld, Working
<1>. QED
  BY <1>2, <1>3 DEF Claim, TypeInv, TypeOK

LEMMA ReadRunTypeInv ==
  ASSUME TypeInv, NEW w \in Workers, ReadRun(w)
  PROVE  TypeInv'
<1>1. worker' \in [Workers -> Replicas] /\ RowHeld'
  BY DEF ReadRun, TypeInv, TypeOK, Replicas, Snapshots, RowHeld, Working
<1>. QED
  BY <1>1 DEF ReadRun, TypeInv, TypeOK

LEMMA PushTypeInv ==
  ASSUME TypeInv, NEW w \in Workers, PushAccepted(w) \/ PushThrows(w)
  PROVE  TypeInv'
<1>1. worker[w].row \in Runs
  BY DEF PushAccepted, PushThrows, TypeInv, RowHeld, Working
<1>2. Minted(w) \subseteq [run : Runs, requestid : Runs]
  BY <1>1 DEF TypeInv, TypeOK, Minted, RequestId
<1>3. invoices' \subseteq [run : Runs, requestid : Runs]
  BY <1>2 DEF PushAccepted, PushThrows, TypeInv, TypeOK
<1>4. worker' \in [Workers -> Replicas] /\ RowHeld'
  <2>1. CASE PushAccepted(w)
    BY <1>1, <2>1 DEF PushAccepted, RequestId, TypeInv, TypeOK, Replicas, RowHeld, Working
  <2>2. CASE PushThrows(w)
    BY <1>1, <2>2 DEF PushThrows, TypeInv, TypeOK, Replicas, RowHeld, Working
  <2>. QED
    BY <2>1, <2>2
<1>. QED
  BY <1>3, <1>4 DEF PushAccepted, PushThrows, TypeInv, TypeOK

LEMMA CommitSuccessTypeInv ==
  ASSUME TypeInv, NEW w \in Workers, CommitSuccess(w)
  PROVE  TypeInv'
<1>1. worker[w].row \in Runs /\ worker[w].got \in Runs \cup {NoInvoice}
  BY DEF CommitSuccess, TypeInv, TypeOK, RowHeld, Working, Replicas
<1>2. Event("POST_SUCCEEDED", worker[w].got) \in Events
  BY <1>1, EventType DEF EventTypes, WorkerEvents
<1>3. run' \in [Runs -> Snapshots] /\ log' \in [Runs -> Seq(LogEntries)]
  BY <1>1, <1>2, ApplyType DEF CommitSuccess, TypeInv
<1>4. outbox' \in [Runs -> OutboxRows]
  <2>1. outbox \in [Runs -> OutboxRows]
    BY DEF TypeInv, TypeOK
  <2>2. [outbox EXCEPT ![worker[w].row].status = "applied"] \in [Runs -> OutboxRows]
    BY <1>1, <2>1, MarkRowType
  <2>. QED
    BY <2>2 DEF CommitSuccess
<1>. QED
  BY <1>3, <1>4, NextRowType DEF CommitSuccess, TypeInv, TypeOK

LEMMA RecordFailureTypeInv ==
  ASSUME TypeInv, NEW w \in Workers, RecordFailure(w)
  PROVE  TypeInv'
<1>1. worker[w].row \in Runs
  BY DEF RecordFailure, TypeInv, RowHeld, Working
<1>2. Event("POST_FAILED", NoInvoice) \in Events
  BY EventType DEF EventTypes, WorkerEvents
<1>3. run' \in [Runs -> Snapshots] /\ log' \in [Runs -> Seq(LogEntries)]
  BY <1>1, <1>2, ApplyType DEF RecordFailure, TypeInv, TypeOK
<1>4. worker' \in [Workers -> Replicas] /\ RowHeld'
  BY <1>1 DEF RecordFailure, TypeInv, TypeOK, Replicas, RowHeld, Working
<1>. QED
  BY <1>3, <1>4 DEF RecordFailure, TypeInv, TypeOK

LEMMA MarkFailedTypeInv ==
  ASSUME TypeInv, NEW w \in Workers, MarkFailed(w)
  PROVE  TypeInv'
<1>1. worker[w].row \in Runs
  BY DEF MarkFailed, TypeInv, RowHeld, Working
<1>2. outbox' \in [Runs -> OutboxRows]
  <2>1. outbox \in [Runs -> OutboxRows]
    BY DEF TypeInv, TypeOK
  <2>2. [outbox EXCEPT ![worker[w].row].status = "failed"] \in [Runs -> OutboxRows]
    BY <1>1, <2>1, MarkRowType
  <2>. QED
    BY <2>1, <2>2 DEF MarkFailed
<1>. QED
  BY <1>2, NextRowType DEF MarkFailed, TypeInv, TypeOK

LEMMA NextTypeInv == TypeInv /\ [Next]_vars => TypeInv'
<1>. SUFFICES ASSUME TypeInv, [Next]_vars PROVE TypeInv'
  OBVIOUS
<1>1. ASSUME NEW r \in Runs, NEW type \in HumanEvents, HumanEvent(r, type)
      PROVE  TypeInv'
  BY <1>1, HumanEventTypeInv
<1>2. ASSUME NEW w \in Workers, WorkerStep(w)
      PROVE  TypeInv'
  <2>1. CASE SweepDeadLetters(w)
    BY <2>1, SweepTypeInv
  <2>2. CASE Claim(w)
    BY <2>2, ClaimTypeInv
  <2>3. CASE ReadRun(w)
    BY <2>3, ReadRunTypeInv
  <2>4. CASE PushAccepted(w) \/ PushThrows(w)
    BY <2>4, PushTypeInv
  <2>5. CASE CommitSuccess(w)
    BY <2>5, CommitSuccessTypeInv
  <2>6. CASE CommitFails(w)
    BY <2>6 DEF CommitFails, TypeInv, TypeOK, Replicas, RowHeld, Working
  <2>9. CASE SweepFails(w)
    BY <2>9 DEF SweepFails, TypeInv, TypeOK, Replicas, RowHeld, Working
  <2>7. CASE RecordFailure(w)
    BY <2>7, RecordFailureTypeInv
  <2>8. CASE MarkFailed(w)
    BY <2>8, MarkFailedTypeInv
  <2>. QED
    BY <1>2, <2>1, <2>2, <2>3, <2>4, <2>5, <2>6, <2>7, <2>8, <2>9 DEF WorkerStep
<1>3. ASSUME NEW w \in Workers, Crash(w)
      PROVE  TypeInv'
  BY <1>3 DEF Crash, Idle, TypeInv, TypeOK, Replicas, RowHeld, Working
<1>4. ASSUME NEW r \in Runs, LeaseExpires(r)
      PROVE  TypeInv'
  BY <1>4 DEF LeaseExpires, TypeInv, TypeOK, OutboxRows, RowHeld
<1>5. CASE UNCHANGED vars
  BY <1>5 DEF vars, TypeInv, TypeOK, RowHeld
<1>. QED
  BY <1>1, <1>2, <1>3, <1>4, <1>5 DEF Next

LEMMA InitTypeInv == Init => TypeInv
BY PushAssumption DEF Init, TypeInv, TypeOK, RowHeld, Working, Idle, Replicas, NoRow, OutboxRows, Live,
   InitialSnapshot, Snapshots, States

\* The saga keeps its types: every row, log entry, invoice and replica is one
\* the code can produce, whatever the interleaving.
THEOREM TypeCorrect == Spec => [](TypeOK /\ RowHeld)
<1>1. Init => TypeInv
  BY InitTypeInv
<1>2. TypeInv /\ [Next]_vars => TypeInv'
  BY NextTypeInv
<1>. QED
  BY <1>1, <1>2, PTL DEF Spec, TypeInv
-----------------------------------------------------------------------------
(* The inductive invariant.  PostedIsInvoiced is not inductive alone: the   *)
(* invoice a replica is about to record was minted steps earlier, and the   *)
(* run may have been cancelled, retried or settled by another replica since.*)

\* An invoice carries the id of the run it bills.
InvoicesById == \A i \in invoices : i.requestid = i.run

\* A replica that came back from a push holds the id of an existing invoice.
PushedIsMinted ==
  \A w \in Workers : worker[w].pc = "pushed" =>
    /\ worker[w].got = worker[w].row
    /\ [run |-> worker[w].row, requestid |-> worker[w].row] \in invoices

\* Only a request puts a row into the outbox, and only a row of the outbox
\* gets a replica to work on a run.
QueuedIsRequested == \A r \in Runs : outbox[r].status # "none" => r \in Requested

WorkIsRequested ==
  \A w \in Workers :
    /\ worker[w].batch \subseteq Requested
    /\ worker[w].pc \in Working => worker[w].row \in Requested

BillingInv == InvoicesById /\ PushedIsMinted /\ PostedIsInvoiced

RequestInv == QueuedIsRequested /\ WorkIsRequested

SafetyInv == TypeInv /\ BillingInv /\ LogIsHistory /\ PostingIsNotApplied /\ RequestInv

\* What a transition does to one log: one entry more, the others as before.
LEMMA AppendedLog ==
  ASSUME TypeOK, NEW r \in Runs, NEW event \in Events, Transition(r, event)
  PROVE  /\ log[r] \in Seq(LogEntries)
         /\ Len(log[r]) \in Nat
         /\ Len(log'[r]) = Len(log[r]) + 1
         /\ \A i \in 1..Len(log[r]) : log'[r][i] = log[r][i]
         /\ log'[r][Len(log[r]) + 1] = LogEntry(run[r], event)
         /\ run'[r] = Reduce(run[r], event)
         /\ \A q \in Runs : q # r => log'[q] = log[q] /\ run'[q] = run[q]
<1>1. log[r] \in Seq(LogEntries) /\ run[r] \in Snapshots
  BY DEF TypeOK
<1>2. log'[r] = Append(log[r], LogEntry(run[r], event)) /\ run'[r] = Reduce(run[r], event)
  BY DEF TypeOK, Transition
<1>3. \A q \in Runs : q # r => log'[q] = log[q] /\ run'[q] = run[q]
  BY DEF TypeOK, Transition
<1>4. LogEntry(run[r], event) \in LogEntries
  BY <1>1, LogEntryType
<1>. QED
  BY <1>1, <1>2, <1>3, <1>4

\* A legal transition extends the history.
LEMMA HistoryStep ==
  ASSUME TypeOK, LogIsHistory, NEW r \in Runs, NEW event \in Events,
         Legal(run[r], event.type), Transition(r, event)
  PROVE  LogIsHistory'
<1>. DEFINE n == Len(log[r])
<1>1. /\ n \in Nat
      /\ Len(log'[r]) = n + 1
      /\ \A i \in 1..n : log'[r][i] = log[r][i]
      /\ log'[r][n + 1] = LogEntry(run[r], event)
      /\ run'[r] = Reduce(run[r], event)
      /\ \A q \in Runs : q # r => log'[q] = log[q] /\ run'[q] = run[q]
  BY AppendedLog
<1>2. run[r] = Before(r, n + 1) /\ run[r].state_version = n + 1
  BY DEF LogIsHistory
<1>3. \A i \in 1..(n + 1) : Before(r, i)' = Before(r, i)
  BY <1>1 DEF Before
<1>4. Before(r, Len(log[r]) + 1)' = run'[r]
  <2>1. Len(log'[r]) + 1 # 1 /\ (Len(log'[r]) + 1) - 1 = n + 1
    BY <1>1
  <2>2. Before(r, Len(log[r]) + 1)' = log'[r][n + 1].snapshot_after
    BY <2>1 DEF Before
  <2>. QED
    BY <1>1, <2>2 DEF LogEntry
<1>5. run'[r].state_version = n + 2
  BY <1>1, <1>2 DEF Reduce
<1>6. ASSUME NEW i \in 1..(n + 1)
      PROVE  /\ Legal(Before(r, i), log[r][i].event.type)'
             /\ (log[r][i] = LogEntry(Before(r, i), log[r][i].event))'
             /\ log'[r][i].state_version = i
  <2>1. CASE i = n + 1
    <3>1. Before(r, i)' = run[r]
      BY <1>2, <1>3, <2>1
    <3>2. log'[r][i] = LogEntry(run[r], event) /\ log'[r][i].event = event /\ log'[r][i].state_version = i
      BY <1>1, <1>2, <2>1 DEF LogEntry
    <3>. QED
      BY <3>1, <3>2 DEF Legal
  <2>2. CASE i \in 1..n
    BY <1>1, <1>3, <2>2 DEF LogIsHistory, Legal
  <2>. QED
    BY <1>1, <2>1, <2>2
<1>7. ASSUME NEW q \in Runs, q # r
      PROVE  /\ (run[q] = Before(q, Len(log[q]) + 1))'
             /\ run'[q].state_version = Len(log'[q]) + 1
             /\ \A i \in 1..Len(log'[q]) :
                  /\ Legal(Before(q, i), log[q][i].event.type)'
                  /\ (log[q][i] = LogEntry(Before(q, i), log[q][i].event))'
                  /\ log'[q][i].state_version = i
  <2>1. log'[q] = log[q] /\ run'[q] = run[q] /\ \A i : Before(q, i)' = Before(q, i)
    BY <1>1, <1>7 DEF Before
  <2>. QED
    BY <2>1 DEF LogIsHistory, Legal
<1>8. /\ (run[r] = Before(r, Len(log[r]) + 1))'
      /\ run'[r].state_version = Len(log'[r]) + 1
      /\ \A i \in 1..Len(log'[r]) :
           /\ Legal(Before(r, i), log[r][i].event.type)'
           /\ (log[r][i] = LogEntry(Before(r, i), log[r][i].event))'
           /\ log'[r][i].state_version = i
  BY <1>1, <1>4, <1>5, <1>6
<1>. QED
  BY <1>7, <1>8 DEF LogIsHistory

\* A transition requests the run's post or leaves the requests alone.
LEMMA RequestedStep ==
  ASSUME TypeOK, NEW r \in Runs, NEW event \in Events, Transition(r, event)
  PROVE  Requested' = IF event.type = "POST_REQUESTED" THEN Requested \cup {r} ELSE Requested
<1>1. /\ Len(log[r]) \in Nat
      /\ Len(log'[r]) = Len(log[r]) + 1
      /\ \A i \in 1..Len(log[r]) : log'[r][i] = log[r][i]
      /\ log'[r][Len(log[r]) + 1].event = event
      /\ \A q \in Runs : q # r => log'[q] = log[q]
  <2>1. log'[r][Len(log[r]) + 1] = LogEntry(run[r], event)
    BY AppendedLog
  <2>2. LogEntry(run[r], event).event = event
    BY DEF LogEntry
  <2>. QED
    BY <2>1, <2>2, AppendedLog
<1>2. \A q \in Runs : q # r => (q \in Requested' <=> q \in Requested)
  BY <1>1 DEF Requested
<1>3. r \in Requested' <=> (r \in Requested \/ event.type = "POST_REQUESTED")
  <2>. DEFINE n == Len(log[r])
  <2>1. 1..(n + 1) = (1..n) \cup {n + 1}
    BY <1>1
  <2>2. (\E i \in 1..Len(log'[r]) : log'[r][i].event.type = "POST_REQUESTED")
        <=> \/ \E i \in 1..n : log'[r][i].event.type = "POST_REQUESTED"
            \/ log'[r][n + 1].event.type = "POST_REQUESTED"
    BY <1>1, <2>1
  <2>3. (\E i \in 1..n : log'[r][i].event.type = "POST_REQUESTED")
        <=> (\E i \in 1..n : log[r][i].event.type = "POST_REQUESTED")
    BY <1>1
  <2>. QED
    BY <1>1, <2>2, <2>3 DEF Requested
<1>4. Requested \subseteq Runs /\ Requested' \subseteq Runs
  BY DEF Requested
<1>. QED
  BY <1>2, <1>3, <1>4

\* Steps that touch neither the runs nor their logs touch no history.
LEMMA HistoryFrame ==
  ASSUME UNCHANGED <<run, log>>
  PROVE  (LogIsHistory => LogIsHistory') /\ Requested' = Requested
<1>1. \A r, i : Before(r, i)' = Before(r, i)
  BY DEF Before
<1>. QED
  BY <1>1 DEF LogIsHistory, Legal, Requested

\* No user's event is legal in posted, or leads there; only POST_REQUESTED
\* leads to posting (the reducer's table).
LEMMA HumanTransitions ==
  ASSUME NEW snapshot \in Snapshots, NEW type \in HumanEvents, Legal(snapshot, type)
  PROVE  /\ snapshot.state # "posted"
         /\ Target[type] # "posted"
         /\ Target[type] = "posting" <=> type = "POST_REQUESTED"
BY DEF Legal, HumanEvents, Sources, Target

\* A worker's event is legal exactly in posting (applyWorkerEmittedEvent's guard).
LEMMA WorkerTransitions ==
  ASSUME NEW snapshot \in Snapshots
  PROVE  /\ Legal(snapshot, "POST_SUCCEEDED") <=> snapshot.state = "posting"
         /\ Legal(snapshot, "POST_FAILED") <=> snapshot.state = "posting"
         /\ Target["POST_SUCCEEDED"] = "posted"
         /\ Target["POST_FAILED"] = "failed"
BY DEF Legal, Sources, Target

LEMMA HumanEventSafetyInv ==
  ASSUME SafetyInv, NEW r \in Runs, NEW type \in HumanEvents, HumanEvent(r, type)
  PROVE  SafetyInv'
<1>. DEFINE event == Event(type, NoInvoice)
<1>1. TypeOK /\ run[r] \in Snapshots /\ outbox[r] \in OutboxRows
  BY DEF SafetyInv, TypeInv, TypeOK
<1>2. event \in Events /\ event.type = type
  BY EventType DEF EventTypes
<1>3. Legal(run[r], type) /\ Transition(r, event)
  BY DEF HumanEvent
<1>4. TypeInv'
  BY HumanEventTypeInv DEF SafetyInv
<1>5. LogIsHistory'
  BY <1>1, <1>2, <1>3, HistoryStep DEF SafetyInv
<1>6. /\ run'[r] = Reduce(run[r], event)
      /\ \A q \in Runs : q # r => run'[q] = run[q]
  BY <1>1, <1>2, <1>3, AppendedLog
<1>7. /\ run[r].state # "posted"
      /\ run'[r].state = Target[type]
      /\ run'[r].state # "posted"
      /\ run'[r].state = "posting" <=> type = "POST_REQUESTED"
      /\ run'[r].qbo_invoice_id = run[r].qbo_invoice_id
  <2>1. run'[r].state = Target[type]
    BY <1>1, <1>2, <1>6, ReduceType
  <2>2. type # "POST_SUCCEEDED"
    BY DEF HumanEvents
  <2>3. run'[r].qbo_invoice_id = run[r].qbo_invoice_id
    BY <1>2, <1>6, <2>2 DEF Reduce
  <2>. QED
    BY <1>1, <1>3, <2>1, <2>3, HumanTransitions
<1>8. BillingInv'
  <2>1. PostedIsInvoiced'
    BY <1>6, <1>7 DEF SafetyInv, BillingInv, PostedIsInvoiced, HumanEvent
  <2>. QED
    BY <2>1 DEF SafetyInv, BillingInv, InvoicesById, PushedIsMinted, HumanEvent
<1>9. PostingIsNotApplied'
  <2>1. CASE type = "POST_REQUESTED"
    <3>1. outbox' = [outbox EXCEPT ![r] = Enqueue(outbox[r])]
      BY <2>1 DEF HumanEvent
    <3>2. outbox'[r].status = "pending" /\ \A q \in Runs : q # r => outbox'[q] = outbox[q]
      BY <1>1, <3>1, EnqueueType DEF TypeOK
    <3>. QED
      BY <1>6, <3>2 DEF SafetyInv, PostingIsNotApplied
  <2>2. CASE type # "POST_REQUESTED"
    BY <1>6, <1>7, <2>2 DEF SafetyInv, PostingIsNotApplied, HumanEvent
  <2>. QED
    BY <2>1, <2>2
<1>10. RequestInv'
  <2>1. Requested' = IF type = "POST_REQUESTED" THEN Requested \cup {r} ELSE Requested
    BY <1>1, <1>2, <1>3, RequestedStep
  <2>2. WorkIsRequested'
    BY <2>1 DEF SafetyInv, RequestInv, WorkIsRequested, HumanEvent
  <2>3. QueuedIsRequested'
    BY <1>1, <2>1 DEF SafetyInv, RequestInv, QueuedIsRequested, HumanEvent, TypeOK
  <2>. QED
    BY <2>2, <2>3 DEF RequestInv
<1>. QED
  BY <1>4, <1>5, <1>8, <1>9, <1>10 DEF SafetyInv

\* A worker's event, applied or refused: what it does to history, requests and
\* the states of the runs.
LEMMA WorkerEventStep ==
  ASSUME SafetyInv, NEW r \in Runs, NEW event \in Events, event.type \in WorkerEvents,
         ApplyWorkerEvent(r, event)
  PROVE  /\ LogIsHistory'
         /\ Requested' = Requested
         /\ \A q \in Runs : run'[q].state = "posting" => q # r /\ run[q].state = "posting"
         /\ \A q \in Runs : run'[q] # run[q] =>
           q = r /\ run[q].state = "posting" /\ run'[q] = Reduce(run[q], event)
<1>1. TypeOK /\ run[r] \in Snapshots
  BY DEF SafetyInv, TypeInv, TypeOK
<1>2. Legal(run[r], event.type) <=> run[r].state = "posting"
  BY <1>1, WorkerTransitions DEF WorkerEvents
<1>3. CASE Legal(run[r], event.type)
  <2>1. Transition(r, event)
    BY <1>3 DEF ApplyWorkerEvent
  <2>2. LogIsHistory'
    BY <1>1, <1>3, <2>1, HistoryStep DEF SafetyInv
  <2>3. Requested' = Requested
    <3>1. event.type # "POST_REQUESTED"
      BY DEF WorkerEvents
    <3>. QED
      BY <1>1, <2>1, <3>1, RequestedStep
  <2>4. run'[r] = Reduce(run[r], event) /\ \A q \in Runs : q # r => run'[q] = run[q]
    BY <1>1, <2>1, AppendedLog
  <2>5. run'[r].state # "posting"
    BY <2>4 DEF Reduce, Target, WorkerEvents
  <2>. QED
    BY <1>2, <1>3, <2>2, <2>3, <2>4, <2>5
<1>4. CASE ~Legal(run[r], event.type)
  BY <1>2, <1>4, HistoryFrame DEF ApplyWorkerEvent, SafetyInv
<1>. QED
  BY <1>3, <1>4

LEMMA CommitSuccessSafetyInv ==
  ASSUME SafetyInv, NEW w \in Workers, CommitSuccess(w)
  PROVE  SafetyInv'
<1>. DEFINE r == worker[w].row
            event == Event("POST_SUCCEEDED", worker[w].got)
<1>1. r \in Runs /\ r \in Requested
  BY DEF CommitSuccess, SafetyInv, TypeInv, RowHeld, RequestInv, WorkIsRequested, Working
<1>2. worker[w].got = r /\ [run |-> r, requestid |-> r] \in invoices
  BY DEF CommitSuccess, SafetyInv, BillingInv, PushedIsMinted
<1>3. event \in Events /\ event.type = "POST_SUCCEEDED" /\ event.qbo_invoice_id = r
  BY <1>1, <1>2, EventType DEF EventTypes, WorkerEvents, Event
<1>4. ApplyWorkerEvent(r, event)
  BY DEF CommitSuccess
<1>5. /\ LogIsHistory'
      /\ Requested' = Requested
      /\ \A q \in Runs : run'[q].state = "posting" => q # r /\ run[q].state = "posting"
      /\ \A q \in Runs : run'[q] # run[q] =>
           q = r /\ run[q].state = "posting" /\ run'[q] = Reduce(run[q], event)
  BY <1>1, <1>3, <1>4, WorkerEventStep DEF WorkerEvents
<1>6. TypeInv'
  BY CommitSuccessTypeInv DEF SafetyInv
<1>7. \A v \in Workers : /\ worker'[v].pc = "pushed" => worker'[v] = worker[v]
                         /\ worker'[v].pc \in Working => worker'[v] = worker[v]
                         /\ worker'[v].batch = worker[v].batch
  BY DEF CommitSuccess, NextRow, Idle, Working, SafetyInv, TypeInv, TypeOK
<1>8. BillingInv'
  <2>1. invoices' = invoices
    BY DEF CommitSuccess
  <2>2. PostedIsInvoiced'
    <3>1. Reduce(run[r], event).state = "posted" /\ Reduce(run[r], event).qbo_invoice_id = r
      BY <1>3 DEF Reduce, Target
    <3>2. NoInvoice # r
      BY <1>1, NoInvoiceAssumption
    <3>. QED
      BY <1>2, <1>5, <2>1, <3>1, <3>2 DEF SafetyInv, BillingInv, PostedIsInvoiced
  <2>. QED
    BY <1>7, <2>1, <2>2 DEF SafetyInv, BillingInv, InvoicesById, PushedIsMinted
<1>9. outbox'[r].status = "applied" /\ \A q \in Runs : q # r => outbox'[q] = outbox[q]
  BY <1>1 DEF CommitSuccess, SafetyInv, TypeInv, TypeOK, OutboxRows
<1>10. PostingIsNotApplied'
  BY <1>5, <1>9 DEF SafetyInv, PostingIsNotApplied
<1>11. RequestInv'
  BY <1>1, <1>5, <1>7, <1>9
     DEF SafetyInv, RequestInv, QueuedIsRequested, WorkIsRequested
<1>. QED
  BY <1>5, <1>6, <1>8, <1>10, <1>11 DEF SafetyInv

LEMMA RecordFailureSafetyInv ==
  ASSUME SafetyInv, NEW w \in Workers, RecordFailure(w)
  PROVE  SafetyInv'
<1>. DEFINE r == worker[w].row
            event == Event("POST_FAILED", NoInvoice)
<1>1. r \in Runs
  BY DEF RecordFailure, SafetyInv, TypeInv, RowHeld, Working
<1>2. event \in Events /\ event.type = "POST_FAILED"
  BY EventType DEF EventTypes, WorkerEvents
<1>3. /\ LogIsHistory'
      /\ Requested' = Requested
      /\ \A q \in Runs : run'[q].state = "posting" => run[q].state = "posting"
      /\ \A q \in Runs : run'[q] # run[q] =>
           q = r /\ run[q].state = "posting" /\ run'[q] = Reduce(run[q], event)
  <2>1. CASE ApplyWorkerEvent(r, event)
    BY <1>1, <1>2, <2>1, WorkerEventStep DEF WorkerEvents
  <2>2. CASE UNCHANGED <<run, log>>
    BY <2>2, HistoryFrame DEF SafetyInv
  <2>. QED
    BY <2>1, <2>2 DEF RecordFailure
<1>4. TypeInv'
  BY RecordFailureTypeInv DEF SafetyInv
<1>5. \A v \in Workers : /\ worker'[v].pc = "pushed" => worker'[v] = worker[v]
                         /\ worker'[v].pc \in Working => worker[v].pc \in Working
                         /\ worker'[v].row = worker[v].row
                         /\ worker'[v].batch = worker[v].batch
  BY DEF RecordFailure, Working, SafetyInv, TypeInv, TypeOK
<1>6. outbox' = outbox /\ invoices' = invoices
  BY DEF RecordFailure
<1>7. BillingInv'
  <2>1. Reduce(run[r], event).state = "failed"
        /\ Reduce(run[r], event).qbo_invoice_id = run[r].qbo_invoice_id
    BY <1>2 DEF Reduce, Target
  <2>2. PostedIsInvoiced'
    BY <1>3, <1>6, <2>1 DEF SafetyInv, BillingInv, PostedIsInvoiced
  <2>. QED
    BY <1>5, <1>6, <2>2 DEF SafetyInv, BillingInv, InvoicesById, PushedIsMinted
<1>8. PostingIsNotApplied'
  BY <1>3, <1>6 DEF SafetyInv, PostingIsNotApplied
<1>9. RequestInv'
  BY <1>3, <1>5, <1>6 DEF SafetyInv, RequestInv, QueuedIsRequested, WorkIsRequested
<1>. QED
  BY <1>3, <1>4, <1>7, <1>8, <1>9 DEF SafetyInv

LEMMA SweepSafetyInv ==
  ASSUME SafetyInv, NEW w \in Workers, SweepDeadLetters(w)
  PROVE  SafetyInv'
<1>1. TypeInv' /\ LogIsHistory' /\ Requested' = Requested
  BY SweepTypeInv, HistoryFrame DEF SafetyInv, SweepDeadLetters
<1>2. \A r \in Runs : /\ outbox'[r].status = "none" <=> outbox[r].status = "none"
                      /\ outbox'[r].status = "applied" <=> outbox[r].status = "applied"
  BY DEF SafetyInv, TypeInv, TypeOK, OutboxRows, SweepDeadLetters, Live
<1>3. \A v \in Workers : /\ worker'[v].pc \in Working => worker'[v] = worker[v]
                         /\ worker'[v].batch = worker[v].batch
  BY DEF SafetyInv, TypeInv, TypeOK, SweepDeadLetters, Working
<1>4. BillingInv'
  BY <1>3 DEF SafetyInv, BillingInv, InvoicesById, PushedIsMinted, PostedIsInvoiced, Working,
              SweepDeadLetters
<1>5. PostingIsNotApplied'
  BY <1>2 DEF SafetyInv, PostingIsNotApplied, SweepDeadLetters
<1>6. RequestInv'
  BY <1>1, <1>2, <1>3 DEF SafetyInv, RequestInv, QueuedIsRequested, WorkIsRequested
<1>. QED
  BY <1>1, <1>4, <1>5, <1>6 DEF SafetyInv

LEMMA ClaimSafetyInv ==
  ASSUME SafetyInv, NEW w \in Workers, Claim(w)
  PROVE  SafetyInv'
<1>1. PICK batch \in SUBSET {r \in Runs : Claimable(r)} :
        /\ outbox' = [r \in Runs |->
                        IF r \in batch
                        THEN [ status        |-> "processing",
                               attempt_count |-> Bump(outbox[r].attempt_count),
                               due           |-> FALSE ]
                        ELSE outbox[r]]
        /\ worker' = [worker EXCEPT ![w] =
                        [Idle EXCEPT !.pc = IF batch = {} THEN "idle" ELSE "rows",
                                     !.batch = batch]]
  BY DEF Claim
<1>2. TypeInv' /\ LogIsHistory' /\ Requested' = Requested
  BY ClaimTypeInv, HistoryFrame DEF SafetyInv, Claim
<1>3. \A r \in Runs : outbox'[r] = outbox[r] \/ (Claimable(r) /\ outbox'[r].status = "processing")
  BY <1>1
<1>4. batch \subseteq Requested
  BY DEF SafetyInv, RequestInv, QueuedIsRequested, Claimable, Live
<1>5. \A v \in Workers : /\ worker'[v].pc \in Working => worker'[v] = worker[v]
                         /\ worker'[v].batch \in {worker[v].batch, batch}
  BY <1>1 DEF SafetyInv, TypeInv, TypeOK, Idle, Working
<1>6. BillingInv'
  BY <1>5 DEF SafetyInv, BillingInv, InvoicesById, PushedIsMinted, PostedIsInvoiced, Working, Claim
<1>7. PostingIsNotApplied'
  BY <1>3 DEF SafetyInv, PostingIsNotApplied, Claim
<1>8. RequestInv'
  BY <1>2, <1>3, <1>4, <1>5
     DEF SafetyInv, RequestInv, QueuedIsRequested, WorkIsRequested, Claimable, Live
<1>. QED
  BY <1>2, <1>6, <1>7, <1>8 DEF SafetyInv

LEMMA ReadRunSafetyInv ==
  ASSUME SafetyInv, NEW w \in Workers, ReadRun(w)
  PROVE  SafetyInv'
<1>1. PICK r \in worker[w].batch :
        worker' = [worker EXCEPT ![w] =
          [ pc    |-> IF AlreadyPushed(r) THEN "pushed" ELSE "pushing",
            batch |-> worker[w].batch \ {r},
            row   |-> r,
            got   |-> run[r].qbo_invoice_id ]]
  BY DEF ReadRun
<1>2. TypeInv' /\ LogIsHistory' /\ Requested' = Requested
  BY ReadRunTypeInv, HistoryFrame DEF SafetyInv, ReadRun
<1>3. r \in Runs /\ r \in Requested
  BY DEF SafetyInv, TypeInv, TypeOK, Replicas, RequestInv, WorkIsRequested
<1>4. ~AlreadyPushed(r)
  BY <1>3 DEF SafetyInv, BillingInv, PostedIsInvoiced, AlreadyPushed
<1>5. \A v \in Workers : /\ worker'[v].pc = "pushed" => worker'[v] = worker[v]
                         /\ worker'[v].pc \in Working => worker'[v] = worker[v] \/ worker'[v].row = r
                         /\ worker'[v].batch \subseteq worker[v].batch
  BY <1>1, <1>4 DEF SafetyInv, TypeInv, TypeOK
<1>6. BillingInv'
  BY <1>5 DEF SafetyInv, BillingInv, InvoicesById, PushedIsMinted, PostedIsInvoiced, ReadRun
<1>7. PostingIsNotApplied'
  BY DEF SafetyInv, PostingIsNotApplied, ReadRun
<1>8. QueuedIsRequested'
  BY <1>2 DEF SafetyInv, RequestInv, QueuedIsRequested, ReadRun
<1>9. WorkIsRequested'
  BY <1>2, <1>3, <1>5 DEF SafetyInv, RequestInv, WorkIsRequested
<1>. QED
  BY <1>2, <1>6, <1>7, <1>8, <1>9 DEF SafetyInv, RequestInv

\* Whether the answer arrives or is lost, QuickBooks holds the invoice of the
\* run the replica works on, or nothing new.
LEMMA PushSafetyInv ==
  ASSUME SafetyInv, NEW w \in Workers, PushAccepted(w) \/ PushThrows(w)
  PROVE  SafetyInv'
<1>. DEFINE r == worker[w].row
<1>1. TypeInv' /\ LogIsHistory' /\ Requested' = Requested
  BY PushTypeInv, HistoryFrame DEF SafetyInv, PushAccepted, PushThrows
<1>2. Minted(w) = invoices \cup {[run |-> r, requestid |-> r]}
  BY DEF Minted, RequestId
<1>3. invoices' \in {invoices, Minted(w)}
  BY DEF PushAccepted, PushThrows
<1>4. \A v \in Workers :
        /\ worker'[v].pc \in Working => worker[v].pc \in Working /\ worker'[v].row = worker[v].row
        /\ worker'[v].batch = worker[v].batch
        /\ v # w => worker'[v] = worker[v]
  <2>1. CASE PushAccepted(w)
    BY <2>1 DEF SafetyInv, TypeInv, TypeOK, PushAccepted, Working
  <2>2. CASE PushThrows(w)
    BY <2>2 DEF SafetyInv, TypeInv, TypeOK, PushThrows, Working
  <2>. QED
    BY <2>1, <2>2
<1>5. InvoicesById'
  BY <1>2, <1>3 DEF SafetyInv, BillingInv, InvoicesById
<1>6. PostedIsInvoiced'
  BY <1>2, <1>3 DEF SafetyInv, BillingInv, PostedIsInvoiced, PushAccepted, PushThrows
<1>7. PushedIsMinted'
  <2>1. CASE PushAccepted(w)
    <3>1. worker'[w].got = r /\ worker'[w].row = r /\ invoices' = Minted(w)
      BY <2>1 DEF PushAccepted, RequestId, SafetyInv, TypeInv, TypeOK
    <3>. QED
      BY <1>2, <1>4, <3>1 DEF SafetyInv, BillingInv, PushedIsMinted
  <2>2. CASE PushThrows(w)
    <3>1. worker'[w].pc = "recovering"
      BY <2>2 DEF PushThrows, SafetyInv, TypeInv, TypeOK
    <3>. QED
      BY <1>2, <1>3, <1>4, <3>1 DEF SafetyInv, BillingInv, PushedIsMinted
  <2>. QED
    BY <2>1, <2>2
<1>8. PostingIsNotApplied'
  BY DEF SafetyInv, PostingIsNotApplied, PushAccepted, PushThrows
<1>9. RequestInv'
  BY <1>1, <1>4 DEF SafetyInv, RequestInv, QueuedIsRequested, WorkIsRequested, PushAccepted, PushThrows
<1>. QED
  BY <1>1, <1>5, <1>6, <1>7, <1>8, <1>9 DEF SafetyInv, BillingInv

LEMMA MarkFailedSafetyInv ==
  ASSUME SafetyInv, NEW w \in Workers, MarkFailed(w)
  PROVE  SafetyInv'
<1>. DEFINE r == worker[w].row
<1>1. TypeInv' /\ LogIsHistory' /\ Requested' = Requested
  BY MarkFailedTypeInv, HistoryFrame DEF SafetyInv, MarkFailed
<1>2. r \in Runs /\ r \in Requested
  BY DEF SafetyInv, TypeInv, RowHeld, RequestInv, WorkIsRequested, MarkFailed, Working
<1>3. \A q \in Runs : outbox'[q] = outbox[q] \/ (q = r /\ outbox'[q].status = "failed")
  BY <1>2 DEF MarkFailed, SafetyInv, TypeInv, TypeOK, OutboxRows
<1>4. \A v \in Workers : /\ worker'[v].pc \in Working => worker'[v] = worker[v]
                         /\ worker'[v].batch = worker[v].batch
  BY DEF SafetyInv, TypeInv, TypeOK, MarkFailed, NextRow, Idle, Working
<1>5. BillingInv'
  BY <1>4 DEF SafetyInv, BillingInv, InvoicesById, PushedIsMinted, PostedIsInvoiced, Working,
              MarkFailed
<1>6. PostingIsNotApplied'
  BY <1>3 DEF SafetyInv, PostingIsNotApplied, MarkFailed
<1>7. RequestInv'
  BY <1>1, <1>2, <1>3, <1>4 DEF SafetyInv, RequestInv, QueuedIsRequested, WorkIsRequested
<1>. QED
  BY <1>1, <1>5, <1>6, <1>7 DEF SafetyInv

LEMMA CrashSafetyInv ==
  ASSUME SafetyInv, NEW w \in Workers, Crash(w) \/ CommitFails(w) \/ SweepFails(w)
  PROVE  SafetyInv'
<1>1. TypeInv'
  BY NextTypeInv DEF SafetyInv, Next, WorkerStep
<1>2. LogIsHistory' /\ Requested' = Requested
  BY HistoryFrame DEF SafetyInv, Crash, CommitFails, SweepFails
<1>3. \A v \in Workers : /\ worker'[v].pc = "pushed" => worker'[v] = worker[v]
                         /\ worker'[v].pc \in Working => worker[v].pc \in Working
                                                        /\ worker'[v].row = worker[v].row
                         /\ worker'[v].batch \subseteq worker[v].batch
  <2>1. CASE Crash(w)
    BY <2>1 DEF SafetyInv, TypeInv, TypeOK, Crash, Idle, Working
  <2>2. CASE CommitFails(w)
    BY <2>2 DEF SafetyInv, TypeInv, TypeOK, CommitFails, Working
  <2>3. CASE SweepFails(w)
    BY <2>3 DEF SafetyInv, TypeInv, TypeOK, SweepFails, Working
  <2>. QED
    BY <2>1, <2>2, <2>3
<1>4. BillingInv'
  BY <1>3 DEF SafetyInv, BillingInv, InvoicesById, PushedIsMinted, PostedIsInvoiced, Crash, CommitFails, SweepFails
<1>5. PostingIsNotApplied'
  BY DEF SafetyInv, PostingIsNotApplied, Crash, CommitFails, SweepFails
<1>6. QueuedIsRequested'
  BY <1>2 DEF SafetyInv, RequestInv, QueuedIsRequested, Crash, CommitFails, SweepFails
<1>7. WorkIsRequested'
  BY <1>2, <1>3 DEF SafetyInv, RequestInv, WorkIsRequested
<1>. QED
  BY <1>1, <1>2, <1>4, <1>5, <1>6, <1>7 DEF SafetyInv, RequestInv

LEMMA LeaseSafetyInv ==
  ASSUME SafetyInv, NEW r \in Runs, LeaseExpires(r)
  PROVE  SafetyInv'
<1>1. TypeInv' /\ LogIsHistory' /\ Requested' = Requested
  BY NextTypeInv, HistoryFrame DEF SafetyInv, Next, LeaseExpires
<1>2. \A q \in Runs : outbox'[q].status = outbox[q].status
  BY DEF SafetyInv, TypeInv, TypeOK, OutboxRows, LeaseExpires
<1>3. BillingInv'
  BY DEF SafetyInv, BillingInv, InvoicesById, PushedIsMinted, PostedIsInvoiced, LeaseExpires
<1>4. PostingIsNotApplied'
  BY <1>2 DEF SafetyInv, PostingIsNotApplied, LeaseExpires
<1>5. RequestInv'
  BY <1>1, <1>2 DEF SafetyInv, RequestInv, QueuedIsRequested, WorkIsRequested, LeaseExpires
<1>. QED
  BY <1>1, <1>3, <1>4, <1>5 DEF SafetyInv

LEMMA InitSafetyInv == Init => SafetyInv
<1>. SUFFICES ASSUME Init PROVE SafetyInv
  OBVIOUS
<1>1. TypeInv
  BY InitTypeInv
<1>2. BillingInv
  BY DEF Init, BillingInv, InvoicesById, PushedIsMinted, PostedIsInvoiced, InitialSnapshot, Idle
<1>3. LogIsHistory
  <2>1. ASSUME NEW r \in Runs
        PROVE  Len(log[r]) = 0 /\ run[r] = InitialSnapshot
    BY DEF Init
  <2>2. ASSUME NEW r \in Runs
        PROVE  Before(r, Len(log[r]) + 1) = InitialSnapshot
    BY <2>1 DEF Before
  <2>3. InitialSnapshot.state_version = 1
    BY DEF InitialSnapshot
  <2>4. ASSUME NEW r \in Runs
        PROVE  1..Len(log[r]) = {} /\ run[r].state_version = Len(log[r]) + 1
    BY <2>1, <2>3
  <2>. QED
    BY <2>1, <2>2, <2>4 DEF LogIsHistory
<1>4. PostingIsNotApplied
  BY DEF Init, PostingIsNotApplied, InitialSnapshot
<1>5. RequestInv
  BY DEF Init, RequestInv, QueuedIsRequested, WorkIsRequested, NoRow, Idle, Working
<1>. QED
  BY <1>1, <1>2, <1>3, <1>4, <1>5 DEF SafetyInv

LEMMA NextSafetyInv == SafetyInv /\ [Next]_vars => SafetyInv'
<1>. SUFFICES ASSUME SafetyInv, [Next]_vars PROVE SafetyInv'
  OBVIOUS
<1>1. ASSUME NEW r \in Runs, NEW type \in HumanEvents, HumanEvent(r, type)
      PROVE  SafetyInv'
  BY <1>1, HumanEventSafetyInv
<1>2. ASSUME NEW w \in Workers, WorkerStep(w) \/ Crash(w)
      PROVE  SafetyInv'
  <2>1. CASE SweepDeadLetters(w)
    BY <2>1, SweepSafetyInv
  <2>2. CASE Claim(w)
    BY <2>2, ClaimSafetyInv
  <2>3. CASE ReadRun(w)
    BY <2>3, ReadRunSafetyInv
  <2>4. CASE PushAccepted(w) \/ PushThrows(w)
    BY <2>4, PushSafetyInv
  <2>5. CASE CommitSuccess(w)
    BY <2>5, CommitSuccessSafetyInv
  <2>6. CASE Crash(w) \/ CommitFails(w) \/ SweepFails(w)
    BY <2>6, CrashSafetyInv
  <2>7. CASE RecordFailure(w)
    BY <2>7, RecordFailureSafetyInv
  <2>8. CASE MarkFailed(w)
    BY <2>8, MarkFailedSafetyInv
  <2>. QED
    BY <1>2, <2>1, <2>2, <2>3, <2>4, <2>5, <2>6, <2>7, <2>8 DEF WorkerStep
<1>3. ASSUME NEW r \in Runs, LeaseExpires(r)
      PROVE  SafetyInv'
  BY <1>3, LeaseSafetyInv
<1>4. CASE UNCHANGED vars
  <2>1. TypeInv' /\ LogIsHistory' /\ Requested' = Requested
    BY <1>4, NextTypeInv, HistoryFrame DEF SafetyInv, vars
  <2>. QED
    BY <1>4, <2>1 DEF vars, SafetyInv, BillingInv, InvoicesById, PushedIsMinted, PostedIsInvoiced,
       PostingIsNotApplied, RequestInv, QueuedIsRequested, WorkIsRequested
<1>. QED
  BY <1>1, <1>2, <1>3, <1>4 DEF Next

\* The strengthening is an invariant of the saga.
THEOREM SafetyInvariant == Spec => []SafetyInv
<1>. QED
  BY InitSafetyInv, NextSafetyInv, PTL DEF Spec

\* A posted run has its QuickBooks invoice, through cancels, retries, replica
\* races and crashes between the push and its commit.
THEOREM PostedRunsAreInvoiced == Spec => []PostedIsInvoiced
<1>1. SafetyInv => PostedIsInvoiced
  BY DEF SafetyInv, BillingInv
<1>. QED
  BY <1>1, SafetyInvariant, PTL

\* However often a run is pushed, QuickBooks holds at most one invoice for it.
THEOREM RunsAreInvoicedOnce == Spec => []OneInvoicePerRun
<1>1. SafetyInv => OneInvoicePerRun
  <2>. SUFFICES ASSUME SafetyInv, NEW i \in invoices, NEW j \in invoices, i.run = j.run
                PROVE  i = j
    BY DEF OneInvoicePerRun
  <2>1. i.requestid = j.requestid
    BY DEF SafetyInv, BillingInv, InvoicesById
  <2>2. i \in [run : Runs, requestid : Runs] /\ j \in [run : Runs, requestid : Runs]
    BY DEF SafetyInv, TypeInv, TypeOK
  <2>. QED
    BY <2>1, <2>2
<1>. QED
  BY <1>1, SafetyInvariant, PTL

\* The event log replays to the row, whoever wrote its entries.
THEOREM LogReplays == Spec => []LogIsHistory
<1>1. SafetyInv => LogIsHistory
  BY DEF SafetyInv
<1>. QED
  BY <1>1, SafetyInvariant, PTL

\* A run that waits for its invoice never has an applied row, or none.
THEOREM PostingRunsAreQueued == Spec => []PostingIsNotApplied
<1>1. SafetyInv => PostingIsNotApplied
  BY DEF SafetyInv
<1>. QED
  BY <1>1, SafetyInvariant, PTL
-----------------------------------------------------------------------------
(* The saga implements BillingRun. *)

\* The abstract reducer is the saga's.
LEMMA SameReducer ==
  /\ \A snapshot, event : Promise!Reduce(snapshot, event) = Reduce(snapshot, event)
  /\ \A snapshot, type : Promise!Legal(snapshot, type) <=> Legal(snapshot, type)
  /\ \A type, invoice : Promise!Event(type, invoice) = Event(type, invoice)
  /\ Promise!InitialSnapshot = InitialSnapshot
  /\ Promise!HumanEvents = HumanEvents
BY DEF Promise!Reduce, Reduce, Promise!Target, Target, Promise!Legal, Legal, Promise!Sources, Sources,
       Promise!Event, Event, Promise!InitialSnapshot, InitialSnapshot, Promise!HumanEvents, HumanEvents

LEMMA InitRefines == Init => Promise!AInit
<1>. SUFFICES ASSUME Init PROVE Promise!AInit
  OBVIOUS
<1>1. \A r \in Runs : Len(log[r]) = 0
  BY DEF Init
<1>2. Requested = {}
  BY <1>1 DEF Requested
<1>3. Booked = {}
  BY DEF Init, Booked
<1>. QED
  BY <1>2, <1>3, SameReducer DEF Init, Promise!AInit

\* A user's event is a decision.
LEMMA HumanEventRefines ==
  ASSUME SafetyInv, NEW r \in Runs, NEW type \in HumanEvents, HumanEvent(r, type)
  PROVE  Promise!ANext
<1>1. Event(type, NoInvoice) \in Events /\ Event(type, NoInvoice).type = type
  BY EventType DEF EventTypes
<1>2. TypeOK /\ Legal(run[r], type) /\ Transition(r, Event(type, NoInvoice))
  BY DEF SafetyInv, TypeInv, HumanEvent
<1>3. run' = [run EXCEPT ![r] = Reduce(run[r], Event(type, NoInvoice))]
  BY <1>2 DEF Transition
<1>4. Requested' = IF type = "POST_REQUESTED" THEN Requested \cup {r} ELSE Requested
  BY <1>1, <1>2, RequestedStep
<1>5. Booked' = Booked
  BY DEF HumanEvent, Booked
<1>6. Promise!Decide(r, type)
  BY <1>2, <1>3, <1>4, <1>5, SameReducer DEF Promise!Decide
<1>. QED
  BY <1>6, SameReducer DEF Promise!ANext

\* A push books the run's invoice, or leaves QuickBooks as it was.
LEMMA PushRefines ==
  ASSUME SafetyInv, NEW w \in Workers, PushAccepted(w) \/ PushThrows(w)
  PROVE  Promise!ANext \/ UNCHANGED Promise!avars
<1>. DEFINE r == worker[w].row
<1>1. r \in Runs /\ r \in Requested
  BY DEF SafetyInv, TypeInv, RowHeld, RequestInv, WorkIsRequested, PushAccepted, PushThrows, Working
<1>2. run' = run /\ Requested' = Requested
  BY HistoryFrame DEF PushAccepted, PushThrows
<1>3. CASE invoices' = Minted(w)
  <2>1. Booked' = Booked \cup {r}
    <3>1. \A i : i \in invoices' <=> i \in invoices \/ i = [run |-> r, requestid |-> RequestId(w)]
      BY <1>3 DEF Minted
    <3>2. [run |-> r, requestid |-> RequestId(w)].run = r
      OBVIOUS
    <3>. QED
      BY <1>1, <3>1, <3>2 DEF Booked
  <2>2. Promise!Book(r)
    BY <1>1, <1>2, <2>1 DEF Promise!Book
  <2>. QED
    BY <1>1, <2>2 DEF Promise!ANext
<1>4. CASE invoices' = invoices
  BY <1>2, <1>4 DEF Promise!avars, Booked
<1>. QED
  BY <1>3, <1>4 DEF PushAccepted, PushThrows

\* A commit is a success the abstract run still waited for, or nothing.
LEMMA CommitSuccessRefines ==
  ASSUME SafetyInv, NEW w \in Workers, CommitSuccess(w)
  PROVE  Promise!ANext \/ UNCHANGED Promise!avars
<1>. DEFINE r == worker[w].row
            event == Event("POST_SUCCEEDED", r)
<1>1. /\ r \in Runs
      /\ worker[w].got = r
      /\ [run |-> r, requestid |-> r] \in invoices
  BY DEF SafetyInv, TypeInv, RowHeld, BillingInv, PushedIsMinted, CommitSuccess, Working
<1>2. event \in Events /\ event.type = "POST_SUCCEEDED" /\ run[r] \in Snapshots
  BY <1>1, EventType DEF EventTypes, WorkerEvents, SafetyInv, TypeInv, TypeOK
<1>3. ApplyWorkerEvent(r, event) /\ invoices' = invoices
  BY <1>1 DEF CommitSuccess
<1>4. Requested' = Requested /\ Booked' = Booked
  BY <1>1, <1>2, <1>3, WorkerEventStep DEF WorkerEvents, Booked
<1>5. CASE Legal(run[r], event.type)
  <2>1. run' = [run EXCEPT ![r] = Reduce(run[r], event)]
    BY <1>3, <1>5 DEF ApplyWorkerEvent, Transition
  <2>2. run[r].state = "posting"
    BY <1>2, <1>5, WorkerTransitions
  <2>3. r \in Booked
    <3>1. [run |-> r, requestid |-> r].run = r
      OBVIOUS
    <3>. QED
      BY <1>1, <3>1 DEF Booked
  <2>4. Promise!Succeed(r)
    BY <1>4, <2>1, <2>2, <2>3, SameReducer DEF Promise!Succeed
  <2>. QED
    BY <1>1, <2>4 DEF Promise!ANext
<1>6. CASE ~Legal(run[r], event.type)
  BY <1>3, <1>4, <1>6 DEF ApplyWorkerEvent, Promise!avars
<1>. QED
  BY <1>5, <1>6

\* A recorded failure is a failure the abstract run still waited for, or nothing.
LEMMA RecordFailureRefines ==
  ASSUME SafetyInv, NEW w \in Workers, RecordFailure(w)
  PROVE  Promise!ANext \/ UNCHANGED Promise!avars
<1>. DEFINE r == worker[w].row
            event == Event("POST_FAILED", NoInvoice)
<1>1. r \in Runs
  BY DEF SafetyInv, TypeInv, RowHeld, RecordFailure, Working
<1>2. event \in Events /\ event.type = "POST_FAILED" /\ run[r] \in Snapshots
  BY <1>1, EventType DEF EventTypes, WorkerEvents, SafetyInv, TypeInv, TypeOK
<1>3. Booked' = Booked
  BY DEF RecordFailure, Booked
<1>4. CASE ApplyWorkerEvent(r, event) /\ Legal(run[r], event.type)
  <2>1. run' = [run EXCEPT ![r] = Reduce(run[r], event)]
    BY <1>4 DEF ApplyWorkerEvent, Transition
  <2>2. run[r].state = "posting"
    BY <1>2, <1>4, WorkerTransitions
  <2>3. Requested' = Requested
    BY <1>1, <1>2, <1>4, WorkerEventStep DEF WorkerEvents
  <2>4. Promise!Fail(r)
    BY <1>3, <2>1, <2>2, <2>3, SameReducer DEF Promise!Fail
  <2>. QED
    BY <1>1, <2>4 DEF Promise!ANext
<1>5. CASE UNCHANGED <<run, log>>
  BY <1>3, <1>5, HistoryFrame DEF Promise!avars
<1>. QED
  BY <1>4, <1>5 DEF RecordFailure, ApplyWorkerEvent

\* Everything else a replica, a crash or the clock does is invisible.
LEMMA QueueRefines ==
  ASSUME UNCHANGED <<run, log, invoices>>
  PROVE  UNCHANGED Promise!avars
BY HistoryFrame DEF Promise!avars, Booked

\* Every step of the saga is a step the office was promised, or invisible to it.
LEMMA NextRefines ==
  SafetyInv /\ [Next]_vars => [Promise!ANext]_(Promise!avars)
<1>. SUFFICES ASSUME SafetyInv, [Next]_vars
              PROVE  Promise!ANext \/ UNCHANGED Promise!avars
  OBVIOUS
<1>1. ASSUME NEW r \in Runs, NEW type \in HumanEvents, HumanEvent(r, type)
      PROVE  Promise!ANext
  BY <1>1, HumanEventRefines
<1>2. ASSUME NEW w \in Workers, WorkerStep(w) \/ Crash(w)
      PROVE  Promise!ANext \/ UNCHANGED Promise!avars
  <2>1. CASE PushAccepted(w) \/ PushThrows(w)
    BY <2>1, PushRefines
  <2>2. CASE CommitSuccess(w)
    BY <2>2, CommitSuccessRefines
  <2>3. CASE RecordFailure(w)
    BY <2>3, RecordFailureRefines
  <2>4. CASE \/ SweepDeadLetters(w) \/ SweepFails(w) \/ Claim(w) \/ ReadRun(w)
             \/ CommitFails(w) \/ MarkFailed(w) \/ Crash(w)
    BY <2>4, QueueRefines DEF SweepDeadLetters, SweepFails, Claim, ReadRun, CommitFails, MarkFailed, Crash
  <2>. QED
    BY <1>2, <2>1, <2>2, <2>3, <2>4 DEF WorkerStep
<1>3. ASSUME NEW r \in Runs, LeaseExpires(r)
      PROVE  UNCHANGED Promise!avars
  BY <1>3, QueueRefines DEF LeaseExpires
<1>4. CASE UNCHANGED vars
  BY <1>4, QueueRefines DEF vars
<1>. QED
  BY <1>1, <1>2, <1>3, <1>4 DEF Next

\* The saga keeps its promise: seen through the requests in its log and the
\* invoices in QuickBooks, it is a behaviour of BillingRun.
THEOREM SagaKeepsPromise == Spec => KeepsPromise
<1>. QED
  BY InitRefines, NextRefines, SafetyInvariant, PTL DEF Spec, KeepsPromise, Promise!ASpec
=============================================================================
