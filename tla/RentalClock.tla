------------------------------ MODULE RentalClock ------------------------------
(***************************************************************************)
(* The billing clock of one rental: the office delivers, returns,          *)
(* transfers and closes it; each worker tick bills it when it is due       *)
(* (rental-invoice.ts) and then pushes the billed periods of a returned    *)
(* rental to QuickBooks (rental-cadence-invoice.ts); office users bill it  *)
(* by hand (POST /api/rentals/:id/invoice).                                *)
(*                                                                         *)
(* A billing reads the rental without a lock, and computes the period and  *)
(* the next status from what it read and from the day on which it writes.  *)
(* It writes the status directly, past the rental workflow's reducer.      *)
(*                                                                         *)
(* Days are whole (dates in UTC).  The rental is linked to a project and   *)
(* its rate is positive, so that every period has an amount.  Rentals      *)
(* share no row, so one is enough; a transfer's new rental is not          *)
(* followed.                                                               *)
(***************************************************************************)
EXTENDS Integers, FiniteSets

CONSTANTS
  Workers,         \* worker replicas
  Clerks,          \* office users billing by hand
  LastDay,         \* bound: time stops on this day
  Delivered,       \* delivered_on
  Cadence,         \* invoice_cadence_days
  PlannedReturns,  \* return dates the rental may be created with
  TransferDates,   \* dates given when the rental is transferred
  MaxVersion,      \* bound: the office stops at this state_version
  MaxBilled,       \* bound: how often a day is counted as billed
  Nothing          \* nothing read, no claimed row

NoDay == 0

Days == 1..LastDay

ASSUME ClockAssumption ==
  /\ LastDay \in Nat
  /\ Delivered \in Days
  /\ Cadence \in Nat \ {0}
  /\ PlannedReturns \subseteq Days
  /\ TransferDates \subseteq Days
  /\ MaxVersion \in Nat \ {0}
  /\ MaxBilled \in Nat \ {0}

VARIABLES
  today,
  rental,    \* the rentals row
  billed,    \* how many material_bills rows cover each day
  row,       \* post_rental_invoice outbox rows, keyed by state_version
  actor,     \* where each replica and each clerk is
  invoices,  \* QuickBooks: the invoices made, with their requestid
  disputed   \* the days that stale billings found billed already; only kept to state properties

vars == <<today, rental, billed, row, actor, invoices, disputed>>

Actors == Workers \cup Clerks

Statuses == {"active", "returned", "closed"}

\* last_invoiced_through null is the day before delivery: both mean that the
\* next period starts on delivered_on.
Rentals ==
  [ status : Statuses, state_version : Nat \ {0}, returned_on : Days \cup {NoDay},
    through : Delivered - 1..LastDay, next_invoice_at : Nat, deleted : BOOLEAN ]

Periods == [from : Days, to : Days]

NoPeriod == [from |-> NoDay, to |-> NoDay]

Live == {"pending", "processing"}

\* due: next_attempt_at <= now().
Rows == [status : Live \cup {"applied", "failed", "dead"}, due : BOOLEAN, period : Periods]

\* A claimed row with the payload its claim returned.
Claims == [version : Nat, period : Periods]

\* seen: the rental as a billing read it.
ActorStates ==
  [ pc : {"idle", "read", "drained", "rows", "pushing", "pushed", "failing"},
    seen : Rentals \cup {Nothing}, batch : SUBSET Claims, claim : Claims \cup {Nothing} ]

Idle == [pc |-> "idle", seen |-> Nothing, batch |-> {}, claim |-> Nothing]

Init ==
  /\ today = 1
  /\ \E planned \in PlannedReturns \cup {NoDay} :
       rental = [ status |-> "active", state_version |-> 1, returned_on |-> planned,
                  through |-> Delivered - 1, next_invoice_at |-> Delivered + Cadence,
                  deleted |-> FALSE ]
  /\ billed = [d \in Days |-> 0]
  /\ row = [v \in {} |-> NoPeriod]
  /\ actor = [a \in Actors |-> Idle]
  /\ invoices = {}
  /\ disputed = {}

DayPasses ==
  /\ today < LastDay
  /\ today' = today + 1
  /\ UNCHANGED <<rental, billed, row, actor, invoices, disputed>>
-----------------------------------------------------------------------------
(* The office. *)

Open == ~rental.deleted

\* An event of the rental workflow.  A return dates the rental unless it has a
\* date already.
Event(sources, target, returned_on) ==
  /\ Open
  /\ rental.status \in sources
  /\ rental.state_version < MaxVersion
  /\ rental' = [rental EXCEPT !.status = target, !.state_version = @ + 1,
                              !.returned_on = returned_on]
  /\ UNCHANGED <<today, billed, row, actor, invoices, disputed>>

Return ==
  Event({"active"}, "returned", IF rental.returned_on = NoDay THEN today ELSE rental.returned_on)

Close == Event({"active", "returned"}, "closed", rental.returned_on)

\* Closes this rental as of the date the user gave.
Transfer == \E d \in TransferDates : Event({"active", "returned"}, "closed", d)

\* PATCH with returned_on null: the date alone.
ClearReturn ==
  /\ Open
  /\ rental' = [rental EXCEPT !.returned_on = NoDay]
  /\ UNCHANGED <<today, billed, row, actor, invoices, disputed>>

Delete ==
  /\ Open
  /\ rental' = [rental EXCEPT !.deleted = TRUE]
  /\ UNCHANGED <<today, billed, row, actor, invoices, disputed>>
-----------------------------------------------------------------------------
(* calculateRentalInvoice: the next period of rental r on the present day. *)

\* Mutant of Start: a period starts on the last day that was billed.
StartOnThrough(r) == IF r.through < Delivered THEN Delivered ELSE r.through

Start(r) == r.through + 1

Back(r) == r.returned_on # NoDay

\* Nothing to bill before the period starts.
TooEarly(r) == Start(r) > today /\ ~(Back(r) /\ r.returned_on >= Start(r))

\* The end of the cadence, or the present day if that is sooner.
OpenEnd(r) == IF Start(r) + Cadence - 1 <= today THEN Start(r) + Cadence - 1 ELSE today

\* The return date ends the last period.
Final(r) == Back(r) /\ r.returned_on <= OpenEnd(r)

End(r) == IF Final(r) THEN r.returned_on ELSE OpenEnd(r)

Billable(r) == ~TooEarly(r) /\ End(r) >= Start(r)

\* Mutant of InvoicedThrough: the clock advances to the end of the cadence.
InvoicedThroughCadence(r) == Start(r) + Cadence - 1

InvoicedThrough(r) == End(r)

Period(r) == [from |-> Start(r), to |-> End(r)]

NextStatus(r) ==
  IF TooEarly(r) THEN (IF Back(r) THEN "returned" ELSE "active")
  ELSE IF ~Billable(r) \/ Final(r) THEN "closed"
  ELSE IF Back(r) THEN "returned" ELSE "active"

NextInvoice(r) ==
  IF TooEarly(r) THEN Delivered + Cadence - 1
  ELSE IF NextStatus(r) = "closed" THEN NoDay ELSE End(r) + 1
-----------------------------------------------------------------------------
(* Billing. *)

\* Mutant of Due: returned rentals are not billed.
DueActiveOnly == ~rental.deleted /\ rental.status = "active" /\ rental.next_invoice_at \in 1..today

Due ==
  /\ ~rental.deleted
  /\ rental.status \in {"active", "returned"}
  /\ rental.next_invoice_at # NoDay
  /\ rental.next_invoice_at <= today

Read(a) == actor' = [actor EXCEPT ![a] = [Idle EXCEPT !.pc = "read", !.seen = rental]]

\* Where an actor goes when its billing is over: a worker to its next lane.
Billing(a) ==
  actor' = [actor EXCEPT ![a] = [Idle EXCEPT !.pc = IF a \in Workers THEN "drained" ELSE "idle"]]

\* fetchDueRentals.
Fetch(w) ==
  /\ actor[w].pc = "idle"
  /\ IF Due THEN Read(w) ELSE Billing(w)
  /\ UNCHANGED <<today, rental, billed, row, invoices, disputed>>

\* POST /invoice reads a rental of any status.
FetchByHand(c) ==
  /\ actor[c].pc = "idle"
  /\ ~rental.deleted
  /\ Read(c)
  /\ UNCHANGED <<today, rental, billed, row, invoices, disputed>>

\* processRentalInvoice: one bill for the period, if there is one, and the
\* rental's clock and status.  If another billing came between read and write,
\* the days it billed are disputed: they are billed again, now or once
\* the clock that was set back comes by.
Invoice(r) ==
  /\ billed' = [d \in Days |-> IF Billable(r) /\ d \in Start(r)..End(r) /\ billed[d] < MaxBilled
                               THEN billed[d] + 1 ELSE billed[d]]
  /\ rental' = [rental EXCEPT !.through = IF Billable(r) THEN InvoicedThrough(r) ELSE @,
                              !.next_invoice_at = NextInvoice(r),
                              !.status = NextStatus(r)]
  /\ disputed' = IF Billable(r) THEN disputed \cup (r.through + 1..rental.through) ELSE disputed

\* The payload of a queued row is replaced, whatever became of the row.
Upserted(version, period) ==
  [ v \in DOMAIN row \cup {version} |->
      IF v = version THEN [status |-> "pending", due |-> TRUE, period |-> period] ELSE row[v] ]

\* A period of a rental that was read returned, and still is once billed, is
\* queued for QuickBooks under the rental's state_version.
Queue(r) ==
  row' = IF r.status = "returned" /\ Billable(r) /\ NextStatus(r) = "returned"
         THEN Upserted(rental.state_version, Period(r)) ELSE row

Bill(w) ==
  /\ actor[w].pc = "read"
  /\ Invoice(actor[w].seen)
  /\ Queue(actor[w].seen)
  /\ Billing(w)
  /\ UNCHANGED <<today, invoices>>

\* By hand nothing is queued.
BillByHand(c) ==
  /\ actor[c].pc = "read"
  /\ Invoice(actor[c].seen)
  /\ Billing(c)
  /\ UNCHANGED <<today, row, invoices>>

\* Mutant of BillFails: the row was queued in a transaction of its own.
BillFailsQueued(a) ==
  /\ actor[a].pc = "read"
  /\ Queue(actor[a].seen)
  /\ Billing(a)
  /\ UNCHANGED <<today, rental, billed, invoices, disputed>>

\* The transaction is rolled back; a worker goes on to its next lane.
BillFails(a) ==
  /\ actor[a].pc = "read"
  /\ Billing(a)
  /\ UNCHANGED <<today, rental, billed, row, invoices, disputed>>
-----------------------------------------------------------------------------
(* Pushing what a returned rental was billed. *)

\* The dead-letter sweep of a replica's next heartbeat.  Attempts are not
\* counted here: a row may have reached the cap, even while it is pushed.
Retire(v) ==
  /\ row[v].status \in Live
  /\ row' = [row EXCEPT ![v].status = "dead"]
  /\ UNCHANGED <<today, rental, billed, actor, invoices, disputed>>

LeaseExpires(v) ==
  /\ row[v].status = "processing"
  /\ ~row[v].due
  /\ row' = [row EXCEPT ![v].due = TRUE]
  /\ UNCHANGED <<today, rental, billed, actor, invoices, disputed>>

Claimable == {v \in DOMAIN row : row[v].status \in Live /\ row[v].due}

\* One rental has fewer rows than a claim takes (5).
Claim(w) ==
  /\ actor[w].pc = "drained"
  /\ row' = [v \in DOMAIN row |->
               IF v \in Claimable THEN [row[v] EXCEPT !.status = "processing", !.due = FALSE]
               ELSE row[v]]
  /\ actor' = [actor EXCEPT ![w] =
       [Idle EXCEPT !.pc = IF Claimable = {} THEN "idle" ELSE "rows",
                    !.batch = {[version |-> v, period |-> row[v].period] : v \in Claimable}]]
  /\ UNCHANGED <<today, rental, billed, invoices, disputed>>

NextRow(w, batch) ==
  actor' = [actor EXCEPT ![w] = [Idle EXCEPT !.pc = IF batch = {} THEN "idle" ELSE "rows",
                                             !.batch = batch]]

Settle(v, status) == row' = [row EXCEPT ![v].status = status]

\* A rental that is gone or not returned is not pushed.
StartRow(w) ==
  /\ actor[w].pc = "rows"
  /\ \E c \in actor[w].batch :
       IF ~rental.deleted /\ rental.status = "returned"
       THEN /\ actor' = [actor EXCEPT ![w] = [Idle EXCEPT !.pc = "pushing", !.claim = c,
                                                          !.batch = actor[w].batch \ {c}]]
            /\ UNCHANGED row
       ELSE /\ Settle(c.version, IF rental.deleted THEN "failed" ELSE "applied")
            /\ NextRow(w, actor[w].batch \ {c})
  /\ UNCHANGED <<today, rental, billed, invoices, disputed>>

\* requestid: the rental's id, whatever the period.
RequestId == "rental"

\* QuickBooks makes one invoice per requestid and answers a repeated request
\* with the invoice it made.
Minted(period) ==
  IF \E i \in invoices : i.request = RequestId THEN invoices
  ELSE invoices \cup {[request |-> RequestId, period |-> period]}

Reach(w, pc) == actor' = [actor EXCEPT ![w].pc = pc]

PushAccepted(w) ==
  /\ actor[w].pc = "pushing"
  /\ invoices' = Minted(actor[w].claim.period)
  /\ Reach(w, "pushed")
  /\ UNCHANGED <<today, rental, billed, row, disputed>>

\* Refused, or accepted and the answer lost.
PushThrows(w) ==
  /\ actor[w].pc = "pushing"
  /\ invoices' \in {invoices, Minted(actor[w].claim.period)}
  /\ Reach(w, "failing")
  /\ UNCHANGED <<today, rental, billed, row, disputed>>

\* INVOICE_QUEUED and INVOICE_POSTED under the rental's lock, if it is still
\* returned; the row is applied either way.
CommitRow(w) ==
  /\ actor[w].pc = "pushed"
  /\ rental' = IF ~rental.deleted /\ rental.status = "returned"
               THEN [rental EXCEPT !.state_version = @ + 2] ELSE rental
  /\ Settle(actor[w].claim.version, "applied")
  /\ NextRow(w, actor[w].batch)
  /\ UNCHANGED <<today, billed, invoices, disputed>>

CommitFails(w) ==
  /\ actor[w].pc = "pushed"
  /\ Reach(w, "failing")
  /\ UNCHANGED <<today, rental, billed, row, invoices, disputed>>

\* The row is parked by id, in a transaction that may itself fail.
MarkFailed(w) ==
  /\ actor[w].pc = "failing"
  /\ Settle(actor[w].claim.version, "failed") \/ UNCHANGED row
  /\ NextRow(w, actor[w].batch)
  /\ UNCHANGED <<today, rental, billed, invoices, disputed>>

Crash(w) ==
  /\ actor[w].pc # "idle"
  /\ actor' = [actor EXCEPT ![w] = Idle]
  /\ UNCHANGED <<today, rental, billed, row, invoices, disputed>>

WorkerStep(w) ==
  \/ Fetch(w)
  \/ Bill(w)
  \/ BillFails(w)
  \/ Claim(w)
  \/ StartRow(w)
  \/ PushAccepted(w)
  \/ PushThrows(w)
  \/ CommitRow(w)
  \/ CommitFails(w)
  \/ MarkFailed(w)

OfficeStep == Return \/ Close \/ Transfer \/ ClearReturn \/ Delete

Next ==
  \/ DayPasses
  \/ OfficeStep
  \/ \E w \in Workers : WorkerStep(w) \/ Crash(w)
  \/ \E c \in Clerks : FetchByHand(c) \/ BillByHand(c) \/ BillFails(c)
  \/ \E v \in DOMAIN row : Retire(v) \/ LeaseExpires(v)

Spec == Init /\ [][Next]_vars

\* Time passes, the worker keeps ticking, and not every billing transaction
\* fails or is cut short.  Nothing is asked of the office or of QuickBooks.
FairSpec ==
  /\ Spec
  /\ WF_vars(DayPasses)
  /\ \A w \in Workers : WF_vars(WorkerStep(w)) /\ SF_vars(Bill(w))
-----------------------------------------------------------------------------
(* Properties. *)

TypeOK ==
  /\ today \in Days
  /\ rental \in Rentals
  /\ rental.through <= today \/ rental.through = Delivered - 1
  /\ billed \in [Days -> 0..MaxBilled]
  /\ DOMAIN row \subseteq 1..rental.state_version
  /\ \A v \in DOMAIN row : row[v] \in Rows
  /\ actor \in [Actors -> ActorStates]
  /\ \A a \in Actors : actor[a].pc = "read" => actor[a].seen \in Rentals
  /\ \A a \in Actors : actor[a].pc \in {"pushing", "pushed", "failing"} => actor[a].claim \in Claims
  /\ \A i \in invoices : i.period \in Periods
  /\ disputed \subseteq Days

\* The clock never skips a day: each day from delivery through the day the
\* rental is billed through is on a bill, whatever stale reads, returns,
\* cleared returns and manual billings came between.
NoDayMissed == \A d \in Delivered..rental.through : billed[d] > 0

\* Each day from delivery through last_invoiced_through is billed once, and no
\* other day is: consecutive periods neither overlap nor leave a gap at the
\* cadence, at the present day or at the return.  Any number of replicas and
\* clerks may bill; left out are the days that a billing found billed already
\* by another, which came between its read and its write.
EachDayBilledOnce ==
  \A d \in Days \ disputed : billed[d] = IF d \in Delivered..rental.through THEN 1 ELSE 0

\* QuickBooks holds no period that was not billed: what is queued commits with
\* its bill.
InvoicedDaysAreBilled ==
  \A i \in invoices : \A d \in i.period.from..i.period.to : billed[d] > 0

\* What the comment at qbo-rental-cadence-push.ts:7-8 says: a push invoices its
\* period.  An accepted push is about to mark its row applied.
PushedPeriodsAreInvoiced ==
  \A w \in Workers : actor[w].pc = "pushed" =>
    \E i \in invoices : i.period = actor[w].claim.period

\* Once the equipment is back the rental is closed in the end, although each
\* billing moves its next tick and a tick that is cleared never comes, unless
\* the office clears the return or deletes the rental, or time stops.
ReturnedIsClosed ==
  rental.returned_on # NoDay
    ~> \/ rental.status = "closed"
       \/ rental.returned_on = NoDay
       \/ rental.deleted
       \/ rental.through = LastDay
=============================================================================
