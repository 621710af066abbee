---------------------------- MODULE LaborPayrollPush ----------------------------
(***************************************************************************)
(* One labor payroll run on its way to QuickBooks: the office's events, the *)
(* weekly automatic post, the run's row in mutation_outbox, the replicas    *)
(* that post one time activity after another for the entries it covers     *)
(* (labor-payroll-push.ts), and the crew that goes on editing and deleting *)
(* those entries meanwhile, since no route asks whether they are locked.   *)
(*                                                                         *)
(* The work transaction holds no lock until its end, so each request to    *)
(* QuickBooks is an action of its own; the hours of a batch are those the  *)
(* transaction read before the first one.                                  *)
(***************************************************************************)
EXTENDS LaborPayroll, FiniteSets, FiniteSetsExt

CONSTANTS
  Entries,     \* the labor entries the run covers
  Worked,      \* the hours of each entry when the run is made
  Hours,       \* the hours an edit may write
  Workers,     \* worker replicas
  MaxRetries,  \* MUTATION_MAX_RETRIES, the dead-letter cap
  MaxVersion,  \* bound: the office and the automatic post stop at this version
  MaxEdits     \* bound: edits of entries and of the overtime setting

\* splitStraightAndOt: what is over eight hours a day is overtime.
Threshold == 8

ASSUME PayrollAssumption ==
  /\ Hours \subseteq Nat \ {0}
  /\ Worked \in [Entries -> Nat \ {0}]
  /\ MaxRetries \in Nat \ {0} /\ MaxVersion \in Nat /\ MaxEdits \in Nat

VARIABLES
  run,      \* the labor_payroll_runs row
  row,      \* the outbox row labor_payroll_run:post:<run>, or "none"
  hours,    \* the entries' hours; 0 once an entry is deleted
  split,    \* companies.ot_service_item_code is set
  books,    \* the time activities QuickBooks holds
  worker,   \* where each replica is in its heartbeat
  edits,    \* edits so far
  touched   \* history: entries changed after a batch that holds them was read

vars == <<run, row, hours, split, books, worker, edits, touched>>

Kinds == {"straight", "ot"}

\* One time activity of a batch.
PartRecords == [entry : Entries, kind : Kinds, hours : Nat]

\* decideTimeActivityPayloads.
Parts(e) ==
  LET part(kind, h) == [entry |-> e, kind |-> kind, hours |-> h] IN
  CASE hours[e] = 0 -> {}
    [] split /\ hours[e] > Threshold -> {part("straight", Threshold), part("ot", hours[e] - Threshold)}
    [] OTHER -> {part("straight", hours[e])}

Live == {"pending", "processing"}

Rows ==
  [ status : Live \cup {"none", "applied", "failed", "dead"},
    attempts : 0..MaxRetries,
    due : BOOLEAN ]

\* todo: activities still to post; got: the ids of those posted.
Idle == [pc |-> "idle", todo |-> {}, got |-> {}]

Init ==
  /\ run = Initial
  /\ row = [status |-> "none", attempts |-> 0, due |-> FALSE]
  /\ hours = Worked
  /\ split \in BOOLEAN
  /\ books = {}
  /\ worker = [w \in Workers |-> Idle]
  /\ edits = 0
  /\ touched = {}
-----------------------------------------------------------------------------
(* The office and the crew. *)

\* attempts is only compared with MaxRetries: it saturates there.
Bump(n) == IF n < MaxRetries THEN n + 1 ELSE n

\* recordLedger and recordMutationOutbox under the run's one key.
Enqueue ==
  row' = [ status   |-> "pending",
           attempts |-> IF row.status = "none" THEN 0 ELSE Bump(row.attempts),
           due      |-> TRUE ]

Moves(type, ids) == run' = Reduce(run, type, ids)

HumanEvent(type) ==
  /\ run.state_version < MaxVersion
  /\ Legal(run, type)
  /\ Moves(type, {})
  /\ IF type = "POST_REQUESTED" THEN Enqueue ELSE UNCHANGED row
  /\ UNCHANGED <<hours, split, books, worker, edits, touched>>

\* Some batch has read e: it is about to be posted, or was.
IsRead(e) ==
  \/ \E b \in books : b.entry = e
  \/ \E w \in Workers : \E p \in worker[w].todo : p.entry = e

\* PATCH and DELETE /api/labor-entries/:id ask only that the entry is there.
EditEntry(e, h) ==
  /\ edits < MaxEdits
  /\ edits' = edits + 1
  /\ hours[e] # 0 /\ h # hours[e]
  /\ hours' = [hours EXCEPT ![e] = h]
  /\ touched' = IF IsRead(e) THEN touched \cup {e} ELSE touched
  /\ UNCHANGED <<run, row, split, books, worker>>

\* The company sets or clears its overtime item.
SetOvertimeItem ==
  /\ edits < MaxEdits
  /\ edits' = edits + 1
  /\ split' = ~split
  /\ touched' = touched \cup {e \in Entries : IsRead(e)}
  /\ UNCHANGED <<run, row, hours, books, worker>>
-----------------------------------------------------------------------------
(* A heartbeat: the sweep, the automatic post, the push. *)

Goes(w, pc) == worker' = [worker EXCEPT ![w].pc = pc]

SweepDeadLetters(w) ==
  /\ worker[w].pc = "idle"
  /\ row' = IF row.status \in Live /\ row.attempts >= MaxRetries
            THEN [row EXCEPT !.status = "dead"] ELSE row
  /\ Goes(w, "swept")
  /\ UNCHANGED <<run, hours, split, books, edits, touched>>

\* The weekly window is open and the first query finds the run.
ListGenerated(w) ==
  /\ worker[w].pc = "swept"
  /\ run.state = "generated"
  /\ run.state_version < MaxVersion
  /\ Goes(w, "approving")
  /\ UNCHANGED <<run, row, hours, split, books, edits, touched>>

\* The run is locked and looked at again.
AutoApprove(w) ==
  /\ worker[w].pc = "approving"
  /\ IF Legal(run, "AUTO_APPROVE") THEN Moves("AUTO_APPROVE", {}) ELSE UNCHANGED run
  /\ Goes(w, "approved")
  /\ UNCHANGED <<row, hours, split, books, edits, touched>>

\* Mutant of AutoPostable: any approved run.
AutoPostableByState == run.state = "approved"

\* Only what the automatic post itself approved.
AutoPostable == run.state = "approved" /\ run.auto_posted

ListApproved(w) ==
  /\ worker[w].pc \in {"swept", "approved"}
  /\ AutoPostable
  /\ run.state_version < MaxVersion
  /\ Goes(w, "requesting")
  /\ UNCHANGED <<run, row, hours, split, books, edits, touched>>

AutoPost(w) ==
  /\ worker[w].pc = "requesting"
  /\ IF AutoPostable THEN Moves("AUTO_POST_REQUESTED", {}) /\ Enqueue ELSE UNCHANGED <<run, row>>
  /\ Goes(w, "listed")
  /\ UNCHANGED <<hours, split, books, edits, touched>>

\* Mutant of Claimable: a leased row is never claimed again.
ClaimableWhenPending == row.status = "pending" /\ row.due

Claimable == row.status \in Live /\ row.due

\* The claim's own transaction: a lease of five minutes.
Claim(w) ==
  /\ worker[w].pc \in {"swept", "approved", "listed"}
  /\ IF Claimable
     THEN /\ row' = [status |-> "processing", attempts |-> Bump(row.attempts), due |-> FALSE]
          /\ Goes(w, "claimed")
     ELSE Goes(w, "idle") /\ UNCHANGED row
  /\ UNCHANGED <<run, hours, split, books, edits, touched>>

\* Begin, the unlocked read of the run, the overtime setting and the entries.
\* Only a recorded batch reference spares the push; the state alone does not
\* stop it.  A batch of no entries throws.
ReadBatch(w) ==
  LET batch == UNION {Parts(e) : e \in Entries} IN
  /\ worker[w].pc = "claimed"
  /\ worker' = [worker EXCEPT ![w] =
       CASE run.state = "posting" /\ run.ref # {} -> [pc |-> "pushed", todo |-> {}, got |-> run.ref]
         [] batch = {} -> [pc |-> "recovering", todo |-> {}, got |-> {}]
         [] OTHER -> [pc |-> "pushing", todo |-> batch, got |-> {}]]
  /\ UNCHANGED <<run, row, hours, split, books, edits, touched>>

\* Mutants of RequestId: the attempt's own; the entry's, whatever the kind.
RequestIdPerReplica(w, part) == <<part.entry, part.kind, w>>
RequestIdPerEntry(w, part) == <<part.entry>>

\* laborTimeActivityRequestId: run, entry and kind, the same on every retry.
RequestId(w, part) == <<part.entry, part.kind>>

Post(w, part) ==
  LET id == RequestId(w, part) IN
  IF \E b \in books : b.id = id
  THEN books
  ELSE books \cup {[entry |-> part.entry, kind |-> part.kind, hours |-> part.hours, id |-> id]}

\* The parts of an entry go in order, the straight one first.
NextParts(w) ==
  {p \in worker[w].todo :
     p.kind = "ot" => \A q \in worker[w].todo : q.entry = p.entry => q.kind = "ot"}

IsLast(w, part) == worker[w].todo = {part}

PostActivity(w) ==
  /\ worker[w].pc = "pushing"
  /\ \E part \in NextParts(w) :
       /\ books' = Post(w, part)
       /\ worker' = [worker EXCEPT ![w] =
            [ pc   |-> IF IsLast(w, part) THEN "pushed" ELSE "pushing",
              todo |-> worker[w].todo \ {part},
              got  |-> worker[w].got \cup {RequestId(w, part)} ]]
  /\ UNCHANGED <<run, row, hours, split, edits, touched>>

\* The push throws: before anything reached QuickBooks, or when an answer is
\* lost.  What was posted stays posted.
PushThrows(w) ==
  /\ worker[w].pc = "pushing"
  /\ \/ books' = books
     \/ \E part \in NextParts(w) : books' = Post(w, part)
  /\ worker' = [worker EXCEPT ![w] = [Idle EXCEPT !.pc = "recovering"]]
  /\ UNCHANGED <<run, row, hours, split, edits, touched>>

\* applyLaborPayrollWorkerEvent: a run that is no longer posting is left alone.
WorkerEvent(type, ids) == IF Legal(run, type) THEN Moves(type, ids) ELSE UNCHANGED run

\* The run, its event and the row's outcome commit together.
CommitSuccess(w) ==
  /\ worker[w].pc = "pushed"
  /\ WorkerEvent("POST_SUCCEEDED", worker[w].got)
  /\ row' = [row EXCEPT !.status = "applied"]
  /\ worker' = [worker EXCEPT ![w] = Idle]
  /\ UNCHANGED <<hours, split, books, edits, touched>>

CommitFails(w) ==
  /\ worker[w].pc = "pushed"
  /\ worker' = [worker EXCEPT ![w] = [Idle EXCEPT !.pc = "recovering"]]
  /\ UNCHANGED <<run, row, hours, split, books, edits, touched>>

\* POST_FAILED, in a transaction of its own that may be lost.
RecordFailure(w) ==
  /\ worker[w].pc = "recovering"
  /\ WorkerEvent("POST_FAILED", {}) \/ UNCHANGED run
  /\ Goes(w, "marking")
  /\ UNCHANGED <<row, hours, split, books, edits, touched>>

\* markOutboxRowFailedFresh, another one: if it is lost the lease remains.
MarkFailed(w) ==
  /\ worker[w].pc = "marking"
  /\ row' \in {row, [row EXCEPT !.status = "failed"]}
  /\ worker' = [worker EXCEPT ![w] = Idle]
  /\ UNCHANGED <<run, hours, split, books, edits, touched>>

\* The replica dies: its transaction rolls back, its claim stays leased.
Crash(w) ==
  /\ worker[w].pc # "idle"
  /\ worker' = [worker EXCEPT ![w] = Idle]
  /\ UNCHANGED <<run, row, hours, split, books, edits, touched>>

\* Five minutes pass, whether or not the push is still at work.
LeaseExpires ==
  /\ row.status = "processing" /\ ~row.due
  /\ row' = [row EXCEPT !.due = TRUE]
  /\ UNCHANGED <<run, hours, split, books, worker, edits, touched>>

WorkerStep(w) ==
  \/ SweepDeadLetters(w)
  \/ ListGenerated(w) \/ AutoApprove(w)
  \/ ListApproved(w) \/ AutoPost(w)
  \/ Claim(w) \/ ReadBatch(w)
  \/ PostActivity(w) \/ PushThrows(w)
  \/ CommitSuccess(w) \/ CommitFails(w)
  \/ RecordFailure(w) \/ MarkFailed(w)

Next ==
  \/ \E type \in HumanEvents : HumanEvent(type)
  \/ \E e \in Entries, h \in Hours \cup {0} : EditEntry(e, h)
  \/ SetOvertimeItem
  \/ \E w \in Workers : WorkerStep(w) \/ Crash(w)
  \/ LeaseExpires

Spec == Init /\ [][Next]_vars

\* As in RentalBillingPush: the replicas tick, not each of them dies before
\* every claim, and time passes.
FairSpec ==
  /\ Spec
  /\ \A w \in Workers : WF_vars(WorkerStep(w)) /\ SF_vars(Claim(w))
  /\ WF_vars(LeaseExpires)
-----------------------------------------------------------------------------
(* Types; and a replica holds ids only of activities QuickBooks has. *)
TypeOK ==
  /\ run \in [ state : States, state_version : Nat \ {0},
               approved_by : {"nobody", "user", "auto"}, auto_posted : BOOLEAN,
               ref : SUBSET {b.id : b \in books} ]
  /\ row \in Rows
  /\ hours \in [Entries -> Nat]
  /\ split \in BOOLEAN
  /\ {[entry |-> b.entry, kind |-> b.kind, hours |-> b.hours] : b \in books} \subseteq PartRecords
  /\ \A w \in Workers :
       /\ worker[w].pc \in {"idle", "swept", "approving", "approved", "requesting", "listed",
                            "claimed", "pushing", "pushed", "recovering", "marking"}
       /\ worker[w].todo \subseteq PartRecords
       /\ worker[w].got \subseteq {b.id : b \in books}
       /\ worker[w].todo # {} <=> worker[w].pc = "pushing"
  /\ edits \in 0..MaxEdits /\ touched \subseteq Entries

Activities(e) == {b \in books : b.entry = e}

HoursPaid(e) == LET paid(b) == b.hours IN MapThenSumSet(paid, Activities(e))

(* However a batch is cut short, retried whole or raced by another replica,
   QuickBooks holds at most one activity of each kind for every entry: the
   request id makes it so, and not, as the comment on createQboLaborPayrollPush
   has it, an admin who reconciles the duplicates.  So nobody is paid for more
   hours than worked, unless the entry or the overtime setting changed after a
   batch had read it: the retry then adds overtime to the old straight hours. *)
NothingOverpaid ==
  /\ \A a, b \in books : a.entry = b.entry /\ a.kind = b.kind => a = b
  /\ \A e \in Entries \ touched : HoursPaid(e) <= hours[e]

(* A posted run has paid every entry it covers in full, straight and overtime
   hours each as such, and lists each of those activities: a batch that
   stopped half way never passes for a posted one. *)
PostedPaysEveryEntry ==
  run.state = "posted" =>
    \A e \in Entries \ touched :
      /\ {<<b.kind, b.hours>> : b \in Activities(e)} = {<<p.kind, p.hours>> : p \in Parts(e)}
      /\ \A b \in Activities(e) : b.id \in run.ref

(* The badge is true: a run is marked auto-posted only if it was the automatic
   post that approved it, whatever the office did between the tick's list and
   its lock (labor-payroll-auto-post.ts: it never posts a run that a human
   approved by hand). *)
AutoPostedWasAutoApproved == run.auto_posted => run.approved_by = "auto"

(* A requested post is answered, or its row parked where operators look. *)
PostingIsAnswered == run.state = "posting" ~> run.state # "posting" \/ row.status \in {"failed", "dead"}
=============================================================================
