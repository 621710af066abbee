--------------------------- MODULE RentalClockProofs ---------------------------
(***************************************************************************)
(* What the billing clock keeps for every number of replicas and clerks,   *)
(* every cadence and every length of time: no day is skipped, nothing is   *)
(* invoiced that was not billed, and no day is billed twice but for those  *)
(* that a billing from a stale read went over again.                       *)
(*                                                                         *)
(* None of these holds of the rental and the invoices alone.  A billing    *)
(* writes what it computed from a rental it read earlier, so what was read *)
(* must have been billed as well, and, for the last promise, where it is   *)
(* ahead of the rental as it is, all it is ahead by must be disputed.  A   *)
(* push invoices the payload its claim returned, so every payload that a   *)
(* row or a replica holds must have been billed.                           *)
(***************************************************************************)
EXTENDS RentalClock, TLAPS

\* Every day a rental, as it is or was, is billed through is on a bill.
Covered(r) == \A d \in Delivered..r.through : billed[d] > 0

BilledPeriod(p) == \A d \in p.from..p.to : billed[d] > 0

\* What is and what was read of the rental is covered.
ClockInv ==
  /\ Covered(rental)
  /\ \A a \in Actors : actor[a].pc = "read" => Covered(actor[a].seen)

\* Every payload on its way to QuickBooks, or there, was billed.
PushInv ==
  /\ \A v \in DOMAIN row : BilledPeriod(row[v].period)
  /\ \A a \in Actors : \A c \in actor[a].batch : BilledPeriod(c.period)
  /\ \A a \in Actors : actor[a].pc \in {"pushing", "pushed", "failing"} =>
       BilledPeriod(actor[a].claim.period)
  /\ \A i \in invoices : BilledPeriod(i.period)

Inv == TypeOK /\ ClockInv /\ PushInv

USE DEF NoDay, Days, Actors

-----------------------------------------------------------------------------
(* The period computed from a rental.  *)

\* What calculateRentalInvoice returns: a period within the days so far, that
\* starts after the last one, and a status and a tick of the right kind.
LEMMA InvoiceType ==
  ASSUME ClockAssumption, today \in Days, NEW r \in Rentals
  PROVE  /\ Start(r) \in Delivered..LastDay + 1
         /\ NextStatus(r) \in Statuses
         /\ NextInvoice(r) \in Nat
         /\ Billable(r) => /\ End(r) \in Start(r)..today
                           /\ Period(r) \in Periods
<1>1. r.through \in Delivered - 1..LastDay /\ r.returned_on \in Days \cup {NoDay}
  BY DEF Rentals
<1>2. Start(r) \in Delivered..LastDay + 1
  BY <1>1 DEF Start, ClockAssumption
<1>3. OpenEnd(r) \in Int /\ OpenEnd(r) <= today
  BY <1>2 DEF OpenEnd, ClockAssumption
<1>4. End(r) \in Int /\ End(r) <= today
  BY <1>1, <1>3 DEF End, Final, Back
<1>5. NextStatus(r) \in Statuses
  BY DEF NextStatus, Statuses
<1>6. Billable(r) => End(r) \in Start(r)..today /\ Period(r) \in Periods
  BY <1>2, <1>4 DEF Billable, Period, Periods, ClockAssumption
<1>7. NextInvoice(r) \in Nat
  <2>1. CASE TooEarly(r)
    BY <2>1 DEF NextInvoice, ClockAssumption
  <2>2. CASE ~TooEarly(r) /\ NextStatus(r) = "closed"
    BY <2>2 DEF NextInvoice
  <2>3. CASE ~TooEarly(r) /\ NextStatus(r) # "closed"
    <3>1. Billable(r)
      BY <2>3 DEF NextStatus
    <3>2. End(r) \in Nat
      BY <3>1, <1>6, <1>2 DEF ClockAssumption
    <3> QED BY <2>3, <3>2 DEF NextInvoice
  <2> QED BY <2>1, <2>2, <2>3
<1> QED BY <1>2, <1>5, <1>6, <1>7

\* A billing's transaction keeps the types of the rental and of the bills,
\* takes no bill back and bills the period it computed.
LEMMA InvoiceStep ==
  ASSUME ClockAssumption, TypeOK, NEW r \in Rentals, Invoice(r)
  PROVE  /\ rental' \in Rentals
         /\ rental'.through <= today \/ rental'.through = Delivered - 1
         /\ rental'.state_version = rental.state_version
         /\ billed' \in [Days -> 0..MaxBilled]
         /\ \A d \in Days : billed[d] > 0 => billed'[d] > 0
         /\ Billable(r) => \A d \in Start(r)..End(r) : billed'[d] > 0
         /\ Billable(r) => rental'.through = End(r)
         /\ ~Billable(r) => rental'.through = rental.through
         /\ disputed' \subseteq Days
<1>1. /\ Start(r) \in Delivered..LastDay + 1
      /\ NextStatus(r) \in Statuses
      /\ NextInvoice(r) \in Nat
      /\ Billable(r) => End(r) \in Start(r)..today
  BY InvoiceType DEF TypeOK
<1>2. rental' = [rental EXCEPT !.through = IF Billable(r) THEN End(r) ELSE @,
                               !.next_invoice_at = NextInvoice(r),
                               !.status = NextStatus(r)]
  BY DEF Invoice, InvoicedThrough
<1>3. rental \in Rentals /\ today \in Days
  BY DEF TypeOK
<1>4. (IF Billable(r) THEN End(r) ELSE rental.through) \in Delivered - 1..LastDay
  BY <1>1, <1>3 DEF Rentals, ClockAssumption
<1>5. rental' \in Rentals
  BY <1>1, <1>2, <1>3, <1>4 DEF Rentals
<1>6. /\ rental'.through = IF Billable(r) THEN End(r) ELSE rental.through
      /\ rental'.state_version = rental.state_version
  BY <1>2, <1>3 DEF Rentals
<1>7. rental'.through <= today \/ rental'.through = Delivered - 1
  BY <1>1, <1>3, <1>6 DEF TypeOK, ClockAssumption
<1>8. billed' = [d \in Days |-> IF Billable(r) /\ d \in Start(r)..End(r) /\ billed[d] < MaxBilled
                                THEN billed[d] + 1 ELSE billed[d]]
  BY DEF Invoice
<1>9. \A d \in Days : billed[d] \in 0..MaxBilled
  BY DEF TypeOK
<1>10. \A d \in Days : billed'[d] \in 0..MaxBilled /\ (billed[d] > 0 => billed'[d] > 0)
  BY <1>8, <1>9 DEF ClockAssumption
<1>11. billed' \in [Days -> 0..MaxBilled]
  BY <1>8, <1>10
<1>12. Billable(r) => \A d \in Start(r)..End(r) : d \in Days /\ billed'[d] > 0
  BY <1>1, <1>3, <1>8, <1>9 DEF ClockAssumption
<1>13. disputed' \subseteq Days
  <2>1. r.through + 1..rental.through \subseteq Days
    BY <1>3 DEF Rentals, ClockAssumption
  <2> QED BY <2>1 DEF Invoice, TypeOK
<1> QED BY <1>5, <1>6, <1>7, <1>10, <1>11, <1>12, <1>13
-----------------------------------------------------------------------------
(* Types. *)

\* The actors' part of TypeOK.
ActorsOK ==
  /\ actor \in [Actors -> ActorStates]
  /\ \A a \in Actors : actor[a].pc = "read" => actor[a].seen \in Rentals
  /\ \A a \in Actors : actor[a].pc \in {"pushing", "pushed", "failing"} => actor[a].claim \in Claims

\* One actor's move keeps the actors' types if its new state has them.
LEMMA ActorMoves ==
  ASSUME ActorsOK, NEW a \in Actors, NEW s \in ActorStates, actor' = [actor EXCEPT ![a] = s],
         s.pc = "read" => s.seen \in Rentals,
         s.pc \in {"pushing", "pushed", "failing"} => s.claim \in Claims
  PROVE  ActorsOK'
BY DEF ActorsOK

\* An actor that reads, rests, goes on to its next row or comes further with
\* the row it has keeps the types.
LEMMA ActorTypes ==
  ASSUME TypeOK, NEW a \in Actors,
         \/ Read(a)
         \/ Billing(a)
         \/ actor' = [actor EXCEPT ![a] = Idle]
         \/ \E batch \in SUBSET Claims : NextRow(a, batch)
         \/ /\ actor[a].pc \in {"pushing", "pushed"}
            /\ Reach(a, "pushed") \/ Reach(a, "failing")
  PROVE  ActorsOK'
<1>1. ActorsOK /\ rental \in Rentals /\ actor[a] \in ActorStates
  BY DEF TypeOK, ActorsOK
<1>2. CASE Read(a)
  <2> DEFINE s == [Idle EXCEPT !.pc = "read", !.seen = rental]
  <2>1. s \in ActorStates /\ s.pc = "read" /\ s.seen \in Rentals
    BY <1>1 DEF Idle, ActorStates
  <2>2. actor' = [actor EXCEPT ![a] = s]
    BY <1>2 DEF Read
  <2> QED BY <2>1, <2>2, <1>1, ActorMoves
<1>3. CASE Billing(a)
  <2> DEFINE s == [Idle EXCEPT !.pc = IF a \in Workers THEN "drained" ELSE "idle"]
  <2>1. s \in ActorStates /\ s.pc \in {"drained", "idle"}
    BY DEF Idle, ActorStates
  <2>2. actor' = [actor EXCEPT ![a] = s]
    BY <1>3 DEF Billing
  <2> QED BY <2>1, <2>2, <1>1, ActorMoves
<1>4. CASE actor' = [actor EXCEPT ![a] = Idle]
  <2>1. Idle \in ActorStates /\ Idle.pc = "idle"
    BY DEF Idle, ActorStates
  <2> QED BY <2>1, <1>4, <1>1, ActorMoves
<1>5. CASE \E batch \in SUBSET Claims : NextRow(a, batch)
  <2>1. PICK batch \in SUBSET Claims : NextRow(a, batch)
    BY <1>5
  <2> DEFINE s == [Idle EXCEPT !.pc = IF batch = {} THEN "idle" ELSE "rows", !.batch = batch]
  <2>2. s \in ActorStates /\ s.pc \in {"idle", "rows"}
    BY DEF Idle, ActorStates
  <2>3. actor' = [actor EXCEPT ![a] = s]
    BY <2>1 DEF NextRow
  <2> QED BY <2>2, <2>3, <1>1, ActorMoves
<1>6. CASE /\ actor[a].pc \in {"pushing", "pushed"}
           /\ Reach(a, "pushed") \/ Reach(a, "failing")
  <2>1. PICK pc \in {"pushed", "failing"} : actor' = [actor EXCEPT ![a] = [actor[a] EXCEPT !.pc = pc]]
    BY <1>6 DEF Reach
  <2> DEFINE s == [actor[a] EXCEPT !.pc = pc]
  <2>2. s \in ActorStates /\ s.pc \in {"pushed", "failing"} /\ s.claim = actor[a].claim
    BY <1>1 DEF ActorStates
  <2>3. actor[a].claim \in Claims
    BY <1>6 DEF TypeOK
  <2> HIDE DEF s
  <2>4. actor' = [actor EXCEPT ![a] = s]
    BY <2>1 DEF s
  <2> QED BY <2>2, <2>3, <2>4, <1>1, ActorMoves
<1> QED BY <1>2, <1>3, <1>4, <1>5, <1>6

\* Putting a row into another state keeps the rows' types.
LEMMA RowTypes ==
  ASSUME TypeOK, NEW v, NEW status \in Live \cup {"applied", "failed", "dead"}, Settle(v, status)
  PROVE  DOMAIN row' = DOMAIN row /\ \A u \in DOMAIN row' : row'[u] \in Rows /\ row'[u].period = row[u].period
<1>1. \A u \in DOMAIN row : row[u] \in Rows
  BY DEF TypeOK
<1>2. row' = [row EXCEPT ![v].status = status]
  BY DEF Settle
<1>3. DOMAIN row' = DOMAIN row
  BY <1>2
<1>4. ASSUME NEW u \in DOMAIN row
      PROVE  row'[u] \in Rows /\ row'[u].period = row[u].period
  <2>1. row'[u] = row[u] \/ row'[u] = [row[u] EXCEPT !.status = status]
    BY <1>2, <1>4
  <2> QED BY <2>1, <1>1 DEF Rows
<1> QED BY <1>3, <1>4

\* The rental's part of TypeOK, for an event that keeps the clock as it is.
LEMMA EventTypes ==
  ASSUME ClockAssumption, TypeOK, NEW sources, NEW target \in Statuses,
         NEW date \in Days \cup {NoDay}, Event(sources, target, date)
  PROVE  TypeOK'
<1>1. /\ rental' = [rental EXCEPT !.status = target, !.state_version = @ + 1, !.returned_on = date]
      /\ UNCHANGED <<today, billed, row, actor, invoices, disputed>>
  BY DEF Event
<1>2. rental \in Rentals
  BY DEF TypeOK
<1>3. /\ rental' \in Rentals
      /\ rental'.through = rental.through
      /\ rental'.state_version = rental.state_version + 1
  <2>1. rental.state_version + 1 \in Nat \ {0}
    BY <1>2 DEF Rentals
  <2> QED BY <1>1, <1>2, <2>1 DEF Rentals
<1>4. DOMAIN row \subseteq 1..rental'.state_version
  BY <1>2, <1>3 DEF TypeOK, Rentals
<1> QED BY <1>1, <1>3, <1>4 DEF TypeOK

\* The variables keep their types in the initial state and in every step.
LEMMA TypeInit ==
  ASSUME ClockAssumption, Init
  PROVE  TypeOK
<1>1. rental \in Rentals /\ rental.through = Delivered - 1
  <2>1. PICK planned \in PlannedReturns \cup {NoDay} :
          rental = [ status |-> "active", state_version |-> 1, returned_on |-> planned,
                     through |-> Delivered - 1, next_invoice_at |-> Delivered + Cadence,
                     deleted |-> FALSE ]
    BY DEF Init
  <2>2. planned \in Days \cup {NoDay} /\ Delivered + Cadence \in Nat /\ Delivered - 1 \in Delivered - 1..LastDay
    BY DEF ClockAssumption
  <2> QED BY <2>1, <2>2 DEF Rentals, Statuses
<1>2. today \in Days /\ billed \in [Days -> 0..MaxBilled]
  BY DEF Init, ClockAssumption
<1>3. Idle \in ActorStates /\ Idle.pc = "idle"
  BY DEF Idle, ActorStates
<1>4. actor \in [Actors -> ActorStates] /\ \A a \in Actors : actor[a].pc = "idle"
  BY <1>3 DEF Init
<1>5. row = [v \in {} |-> NoPeriod] /\ invoices = {} /\ disputed = {}
  BY DEF Init
<1>6. DOMAIN row = {}
  BY <1>5
<1> QED BY <1>1, <1>2, <1>4, <1>5, <1>6 DEF TypeOK

\* Queueing a period keeps the rows' types.
LEMMA QueueTypes ==
  ASSUME ClockAssumption, TypeOK, NEW r \in Rentals, Queue(r)
  PROVE  /\ DOMAIN row' \subseteq 1..rental.state_version
         /\ \A v \in DOMAIN row' : row'[v] \in Rows
<1>1. rental.state_version \in Nat \ {0}
  BY DEF TypeOK, Rentals
<1>2. CASE r.status = "returned" /\ Billable(r) /\ NextStatus(r) = "returned"
  <2>1. Period(r) \in Periods
    BY <1>2, InvoiceType DEF TypeOK
  <2>2. row' = [ v \in DOMAIN row \cup {rental.state_version} |->
                   IF v = rental.state_version
                   THEN [status |-> "pending", due |-> TRUE, period |-> Period(r)] ELSE row[v] ]
    BY <1>2 DEF Queue, Upserted
  <2>3. [status |-> "pending", due |-> TRUE, period |-> Period(r)] \in Rows
    BY <2>1 DEF Rows, Live
  <2>4. DOMAIN row' = DOMAIN row \cup {rental.state_version}
    BY <2>2
  <2>5. DOMAIN row' \subseteq 1..rental.state_version
    BY <2>4, <1>1 DEF TypeOK
  <2> QED BY <2>2, <2>3, <2>4, <2>5 DEF TypeOK
<1>3. CASE ~(r.status = "returned" /\ Billable(r) /\ NextStatus(r) = "returned")
  <2>1. row' = row
    BY <1>3 DEF Queue
  <2> QED BY <2>1 DEF TypeOK
<1> QED BY <1>2, <1>3

\* A row that an actor holds, or still has to take up, is one of the claims.
LEMMA HeldClaims ==
  ASSUME TypeOK, NEW a \in Actors
  PROVE  \A S \in SUBSET actor[a].batch : S \in SUBSET Claims
BY DEF TypeOK, ActorStates

\* What a worker claims are claims: its own state keeps the actors' types.
LEMMA ClaimTypes ==
  ASSUME TypeOK, NEW w \in Workers, Claim(w)
  PROVE  ActorsOK'
<1> DEFINE batch == {[version |-> v, period |-> row[v].period] : v \in Claimable}
           s == [Idle EXCEPT !.pc = IF Claimable = {} THEN "idle" ELSE "rows", !.batch = batch]
<1>1. ActorsOK
  BY DEF TypeOK, ActorsOK
<1>2. \A v \in Claimable : [version |-> v, period |-> row[v].period] \in Claims
  <2>1. \A v \in DOMAIN row : v \in Nat /\ row[v].period \in Periods
    BY DEF TypeOK, Rentals, Rows
  <2> QED BY <2>1 DEF Claimable, Claims
<1>3. batch \in SUBSET Claims
  BY <1>2
<1>4. actor' = [actor EXCEPT ![w] = s]
  BY DEF Claim
<1> HIDE DEF batch
<1>5. s \in ActorStates /\ s.pc \in {"idle", "rows"}
  BY <1>3 DEF Idle, ActorStates
<1> HIDE DEF s
<1> QED BY <1>1, <1>4, <1>5, ActorMoves

\* A worker that takes a row up either pushes it or settles it.
LEMMA StartRowTypes ==
  ASSUME TypeOK, NEW w \in Workers, StartRow(w)
  PROVE  TypeOK'
<1>1. ActorsOK /\ actor[w] \in ActorStates
  BY DEF TypeOK, ActorsOK
<1>2. PICK c \in actor[w].batch :
        IF ~rental.deleted /\ rental.status = "returned"
        THEN /\ actor' = [actor EXCEPT ![w] = [Idle EXCEPT !.pc = "pushing", !.claim = c,
                                                           !.batch = actor[w].batch \ {c}]]
             /\ UNCHANGED row
        ELSE /\ Settle(c.version, IF rental.deleted THEN "failed" ELSE "applied")
             /\ NextRow(w, actor[w].batch \ {c})
  BY DEF StartRow
<1>3. c \in Claims /\ actor[w].batch \ {c} \in SUBSET Claims
  BY HeldClaims, <1>1 DEF ActorStates
<1>4. UNCHANGED <<today, rental, billed, invoices, disputed>>
  BY DEF StartRow
<1>5. CASE ~rental.deleted /\ rental.status = "returned"
  <2> DEFINE s == [Idle EXCEPT !.pc = "pushing", !.claim = c,
                           !.batch = actor[w].batch \ {c}]
  <2>1. actor' = [actor EXCEPT ![w] = s] /\ row' = row
    BY <1>2, <1>5
  <2>2. s \in ActorStates /\ s.pc = "pushing" /\ s.claim = c
    BY <1>1, <1>3 DEF ActorStates, Idle
  <2> HIDE DEF s
  <2>3. ActorsOK'
    BY <1>1, <1>3, <2>1, <2>2, ActorMoves
  <2> QED BY <1>4, <2>1, <2>3 DEF TypeOK, ActorsOK
<1>6. CASE ~(~rental.deleted /\ rental.status = "returned")
  <2>1. PICK status \in {"failed", "applied"} : Settle(c.version, status)
    BY <1>2, <1>6
  <2>2. DOMAIN row' = DOMAIN row /\ \A u \in DOMAIN row' : row'[u] \in Rows
    BY <2>1, RowTypes
  <2>3. NextRow(w, actor[w].batch \ {c})
    BY <1>2, <1>6
  <2>4. ActorsOK'
    BY <1>3, <2>3, ActorTypes
  <2> QED BY <1>4, <2>2, <2>4 DEF TypeOK, ActorsOK
<1> QED BY <1>5, <1>6

\* Every other step of a worker's round that leaves the rental's clock alone.
LEMMA PushTypes ==
  ASSUME ClockAssumption, TypeOK, NEW w \in Workers,
         \/ Claim(w)
         \/ PushAccepted(w)
         \/ PushThrows(w)
         \/ CommitRow(w)
         \/ CommitFails(w)
         \/ MarkFailed(w)
  PROVE  TypeOK'
<1>1. actor[w] \in ActorStates /\ actor[w].batch \in SUBSET Claims
  BY DEF TypeOK, ActorStates
<1>2. CASE Claim(w)
  <2>1. ActorsOK'
    BY <1>2, ClaimTypes
  <2>2. row' = [v \in DOMAIN row |->
                  IF v \in Claimable THEN [row[v] EXCEPT !.status = "processing", !.due = FALSE]
                  ELSE row[v]]
    BY <1>2 DEF Claim
  <2>3. DOMAIN row' = DOMAIN row /\ \A v \in DOMAIN row : row'[v] \in Rows
    <3>1. \A v \in DOMAIN row : [row[v] EXCEPT !.status = "processing", !.due = FALSE] \in Rows
      BY DEF TypeOK, Rows, Live
    <3> QED BY <2>2, <3>1 DEF TypeOK
  <2>4. UNCHANGED <<today, rental, billed, invoices, disputed>>
    BY <1>2 DEF Claim
  <2> QED BY <2>1, <2>3, <2>4 DEF TypeOK, ActorsOK
<1>3. ASSUME actor[w].pc = "pushing"
      PROVE  /\ actor[w].claim.period \in Periods
             /\ \A i \in Minted(actor[w].claim.period) : i.period \in Periods
  BY <1>3 DEF TypeOK, Claims, Minted
<1>4. CASE PushAccepted(w)
  <2>1. ActorsOK'
    BY <1>4, ActorTypes DEF PushAccepted
  <2>2. \A i \in invoices' : i.period \in Periods
    BY <1>3, <1>4 DEF PushAccepted
  <2>3. UNCHANGED <<today, rental, billed, row, disputed>>
    BY <1>4 DEF PushAccepted
  <2> QED BY <2>1, <2>2, <2>3 DEF TypeOK, ActorsOK
<1>5. CASE PushThrows(w)
  <2>1. ActorsOK'
    BY <1>5, ActorTypes DEF PushThrows
  <2>2. \A i \in invoices' : i.period \in Periods
    BY <1>3, <1>5 DEF PushThrows, TypeOK
  <2>3. UNCHANGED <<today, rental, billed, row, disputed>>
    BY <1>5 DEF PushThrows
  <2> QED BY <2>1, <2>2, <2>3 DEF TypeOK, ActorsOK
<1>6. CASE CommitRow(w)
  <2>1. ActorsOK'
    BY <1>1, <1>6, ActorTypes DEF CommitRow
  <2>2. DOMAIN row' = DOMAIN row /\ \A u \in DOMAIN row' : row'[u] \in Rows
    BY <1>6, RowTypes DEF CommitRow
  <2>3. /\ rental' \in Rentals
        /\ rental'.through = rental.through
        /\ rental'.state_version >= rental.state_version
    <3>1. rental \in Rentals
      BY DEF TypeOK
    <3>2. rental.state_version + 2 \in Nat \ {0}
      BY <3>1 DEF Rentals
    <3>3. rental' = rental \/ rental' = [rental EXCEPT !.state_version = rental.state_version + 2]
      BY <1>6 DEF CommitRow
    <3> QED BY <3>1, <3>2, <3>3 DEF Rentals
  <2>4. DOMAIN row' \subseteq 1..rental'.state_version
    BY <2>2, <2>3 DEF TypeOK, Rentals
  <2>5. UNCHANGED <<today, billed, invoices, disputed>>
    BY <1>6 DEF CommitRow
  <2> QED BY <2>1, <2>2, <2>3, <2>4, <2>5 DEF TypeOK, ActorsOK
<1>7. CASE CommitFails(w)
  <2>1. ActorsOK'
    BY <1>7, ActorTypes DEF CommitFails
  <2> QED BY <1>7, <2>1 DEF CommitFails, TypeOK, ActorsOK
<1>8. CASE MarkFailed(w)
  <2>1. ActorsOK'
    BY <1>1, <1>8, ActorTypes DEF MarkFailed
  <2>2. DOMAIN row' = DOMAIN row /\ \A u \in DOMAIN row' : row'[u] \in Rows
    BY <1>8, RowTypes DEF MarkFailed, TypeOK
  <2>3. UNCHANGED <<today, rental, billed, invoices, disputed>>
    BY <1>8 DEF MarkFailed
  <2> QED BY <2>1, <2>2, <2>3 DEF TypeOK, ActorsOK
<1> QED BY <1>2, <1>4, <1>5, <1>6, <1>7, <1>8

\* A billing keeps the types: what it read is a rental.
LEMMA BillTypes ==
  ASSUME ClockAssumption, TypeOK, NEW a \in Actors, actor[a].pc = "read",
         Invoice(actor[a].seen), Billing(a), Queue(actor[a].seen) \/ row' = row,
         UNCHANGED <<today, invoices>>
  PROVE  TypeOK'
<1>1. actor[a].seen \in Rentals
  BY DEF TypeOK
<1>2. /\ rental' \in Rentals
      /\ rental'.through <= today \/ rental'.through = Delivered - 1
      /\ rental'.state_version = rental.state_version
      /\ billed' \in [Days -> 0..MaxBilled]
      /\ disputed' \subseteq Days
  BY <1>1, InvoiceStep
<1>3. DOMAIN row' \subseteq 1..rental.state_version /\ \A v \in DOMAIN row' : row'[v] \in Rows
  BY <1>1, QueueTypes DEF TypeOK
<1>4. ActorsOK'
  BY ActorTypes
<1> QED BY <1>2, <1>3, <1>4 DEF TypeOK, ActorsOK

\* Every step keeps the types.
LEMMA TypeStep ==
  ASSUME ClockAssumption, TypeOK, [Next]_vars
  PROVE  TypeOK'
<1>1. CASE DayPasses
  <2>1. rental.through \in Int /\ Delivered \in Int
    BY DEF TypeOK, Rentals, ClockAssumption
  <2>2. today' \in Days /\ (rental.through <= today' \/ rental.through = Delivered - 1)
    BY <1>1, <2>1 DEF DayPasses, TypeOK, ClockAssumption
  <2>3. UNCHANGED <<rental, billed, row, actor, invoices, disputed>>
    BY <1>1 DEF DayPasses
  <2> QED BY <2>2, <2>3 DEF TypeOK
<1>2. CASE OfficeStep
  <2>1. rental \in Rentals /\ today \in Days
    BY DEF TypeOK
  <2>2. CASE Return
    <3>1. (IF rental.returned_on = NoDay THEN today ELSE rental.returned_on) \in Days \cup {NoDay}
      BY <2>1 DEF Rentals
    <3> QED BY <2>2, <3>1, EventTypes DEF Return, Statuses
  <2>3. CASE Close
    BY <2>1, <2>3, EventTypes DEF Close, Statuses, Rentals
  <2>4. CASE Transfer
    BY <2>4, EventTypes DEF Transfer, Statuses, ClockAssumption
  <2>5. CASE ClearReturn
    <3>1. rental' = [rental EXCEPT !.returned_on = NoDay] /\ UNCHANGED <<today, billed, row, actor, invoices, disputed>>
      BY <2>5 DEF ClearReturn
    <3>2. rental' \in Rentals /\ rental'.through = rental.through /\ rental'.state_version = rental.state_version
      BY <2>1, <3>1 DEF Rentals
    <3> QED BY <3>1, <3>2 DEF TypeOK
  <2>6. CASE Delete
    <3>1. rental' = [rental EXCEPT !.deleted = TRUE] /\ UNCHANGED <<today, billed, row, actor, invoices, disputed>>
      BY <2>6 DEF Delete
    <3>2. rental' \in Rentals /\ rental'.through = rental.through /\ rental'.state_version = rental.state_version
      BY <2>1, <3>1 DEF Rentals
    <3> QED BY <3>1, <3>2 DEF TypeOK
  <2> QED BY <1>2, <2>2, <2>3, <2>4, <2>5, <2>6 DEF OfficeStep
<1>3. ASSUME NEW a \in Actors, Fetch(a) \/ FetchByHand(a) \/ BillFails(a) \/ Crash(a)
      PROVE  TypeOK'
  <2>1. ActorsOK'
    BY <1>3, ActorTypes DEF Fetch, FetchByHand, BillFails, Crash
  <2>2. UNCHANGED <<today, rental, billed, row, invoices, disputed>>
    BY <1>3 DEF Fetch, FetchByHand, BillFails, Crash
  <2> QED BY <2>1, <2>2 DEF TypeOK, ActorsOK
<1>4. ASSUME NEW a \in Actors, Bill(a) \/ BillByHand(a)
      PROVE  TypeOK'
  BY <1>4, BillTypes DEF Bill, BillByHand
<1>5. ASSUME NEW w \in Workers, StartRow(w)
      PROVE  TypeOK'
  BY <1>5, StartRowTypes
<1>6. ASSUME NEW w \in Workers,
             Claim(w) \/ PushAccepted(w) \/ PushThrows(w) \/ CommitRow(w) \/ CommitFails(w) \/ MarkFailed(w)
      PROVE  TypeOK'
  BY <1>6, PushTypes
<1>7. ASSUME NEW v \in DOMAIN row, Retire(v) \/ LeaseExpires(v)
      PROVE  TypeOK'
  <2>1. row' = [row EXCEPT ![v].status = "dead"] \/ row' = [row EXCEPT ![v].due = TRUE]
    BY <1>7 DEF Retire, LeaseExpires
  <2>2. DOMAIN row' = DOMAIN row /\ \A u \in DOMAIN row : row'[u] \in Rows
    <3>1. \A u \in DOMAIN row : /\ row[u] \in Rows
                                /\ [row[u] EXCEPT !.status = "dead"] \in Rows
                                /\ [row[u] EXCEPT !.due = TRUE] \in Rows
      BY DEF TypeOK, Rows, Live
    <3> QED BY <2>1, <3>1
  <2>3. UNCHANGED <<today, rental, billed, actor, invoices, disputed>>
    BY <1>7 DEF Retire, LeaseExpires
  <2> QED BY <2>2, <2>3 DEF TypeOK
<1>8. CASE UNCHANGED vars
  BY <1>8 DEF vars, TypeOK
<1> QED BY <1>1, <1>2, <1>3, <1>4, <1>5, <1>6, <1>7, <1>8 DEF Next, WorkerStep

\* The rental, the bills, the outbox rows and the actors keep their types.
THEOREM ClockTypeCorrect == Spec => []TypeOK
<1>1. Init => TypeOK
  BY ClockAssumption, TypeInit
<1>2. TypeOK /\ [Next]_vars => TypeOK'
  BY ClockAssumption, TypeStep
<1> QED BY <1>1, <1>2, PTL DEF Spec
-----------------------------------------------------------------------------
(* What was billed stays billed. *)

\* No step takes a bill back.
BillsGrow == \A d \in Days : billed[d] > 0 => billed'[d] > 0

\* What was covered, and what was billed, stays so.
LEMMA BillsKept ==
  ASSUME ClockAssumption, BillsGrow
  PROVE  /\ \A r \in Rentals : Covered(r) => Covered(r)'
         /\ \A p \in Periods : BilledPeriod(p) => BilledPeriod(p)'
<1>1. \A r \in Rentals : Delivered..r.through \subseteq Days
  BY DEF Rentals, ClockAssumption
<1>2. \A p \in Periods : p.from..p.to \subseteq Days
  BY DEF Periods, ClockAssumption
<1> QED BY <1>1, <1>2 DEF BillsGrow, Covered, BilledPeriod

\* A billing covers the rental it writes, if it read a covered one.
LEMMA InvoiceCovers ==
  ASSUME ClockAssumption, TypeOK, Covered(rental), NEW r \in Rentals, Covered(r), Invoice(r)
  PROVE  /\ BillsGrow
         /\ Covered(rental)'
         /\ Billable(r) => \A d \in Period(r).from..Period(r).to : billed'[d] > 0
<1>1. /\ rental' \in Rentals
      /\ BillsGrow
      /\ Billable(r) => \A d \in Start(r)..End(r) : billed'[d] > 0
      /\ Billable(r) => rental'.through = End(r)
      /\ ~Billable(r) => rental'.through = rental.through
  BY InvoiceStep DEF BillsGrow
<1>2. Covered(r)' /\ \A d \in Delivered..rental.through : billed'[d] > 0
  BY <1>1, BillsKept DEF TypeOK, Covered
<1>3. CASE Billable(r)
  <2>1. End(r) \in Int /\ r.through \in Int /\ Start(r) = r.through + 1
    BY <1>3, InvoiceType DEF TypeOK, Start, Rentals, ClockAssumption
  <2>2. \A d \in Delivered..End(r) : d \in Delivered..r.through \/ d \in Start(r)..End(r)
    BY <2>1 DEF ClockAssumption
  <2>3. \A d \in Delivered..End(r) : billed'[d] > 0
    BY <1>1, <1>2, <1>3, <2>2 DEF Covered
  <2>4. \A d \in Start(r)..End(r) : billed'[d] > 0
    BY <1>1, <1>3
  <2> QED BY <1>1, <1>3, <2>3, <2>4 DEF Covered, Period
<1>4. CASE ~Billable(r)
  BY <1>1, <1>2, <1>4 DEF Covered
<1> QED BY <1>1, <1>3, <1>4

\* The actors' part of what is covered and billed.
ActorsBilled ==
  /\ \A a \in Actors : actor[a].pc = "read" => Covered(actor[a].seen)
  /\ \A a \in Actors : \A c \in actor[a].batch : BilledPeriod(c.period)
  /\ \A a \in Actors : actor[a].pc \in {"pushing", "pushed", "failing"} =>
       BilledPeriod(actor[a].claim.period)

\* While bills grow, one actor's move leaves the actors with covered rentals
\* and billed periods if its new state has them.
LEMMA ActorBills ==
  ASSUME ClockAssumption, TypeOK, TypeOK', ActorsBilled, BillsGrow,
         NEW a \in Actors, NEW s, actor' = [actor EXCEPT ![a] = s],
         s.pc = "read" => Covered(s.seen),
         \A c \in s.batch : BilledPeriod(c.period),
         s.pc \in {"pushing", "pushed", "failing"} => BilledPeriod(s.claim.period)
  PROVE  ActorsBilled'
<1>1. actor \in [Actors -> ActorStates]
  BY DEF TypeOK
<1>2. \A b \in Actors : /\ actor'[b].pc = "read" => Covered(actor'[b].seen)
                        /\ \A c \in actor'[b].batch : BilledPeriod(c.period)
                        /\ actor'[b].pc \in {"pushing", "pushed", "failing"} =>
                             BilledPeriod(actor'[b].claim.period)
  BY <1>1 DEF ActorsBilled
<1>3. \A b \in Actors : /\ actor'[b].pc = "read" => actor'[b].seen \in Rentals
                        /\ \A c \in actor'[b].batch : c.period \in Periods
                        /\ actor'[b].pc \in {"pushing", "pushed", "failing"} =>
                             actor'[b].claim.period \in Periods
  BY DEF TypeOK, ActorStates, Claims
<1> QED BY <1>2, <1>3, BillsKept DEF ActorsBilled, Covered, BilledPeriod

\* An actor that reads, rests, goes on to its next row or comes further with
\* the row it has holds nothing that was not billed.
LEMMA ActorStepBills ==
  ASSUME ClockAssumption, Inv, TypeOK', BillsGrow, NEW a \in Actors,
         \/ Read(a)
         \/ Billing(a)
         \/ actor' = [actor EXCEPT ![a] = Idle]
         \/ \E batch \in SUBSET actor[a].batch : NextRow(a, batch)
         \/ /\ actor[a].pc \in {"pushing", "pushed"}
            /\ Reach(a, "pushed") \/ Reach(a, "failing")
  PROVE  ActorsBilled'
<1>1. TypeOK /\ ActorsBilled /\ Covered(rental) /\ actor[a] \in ActorStates
  BY DEF Inv, ClockInv, PushInv, ActorsBilled, TypeOK
<1>2. CASE Read(a)
  <2> DEFINE s == [Idle EXCEPT !.pc = "read", !.seen = rental]
  <2>1. s.pc = "read" /\ s.seen = rental /\ s.batch = {} /\ actor' = [actor EXCEPT ![a] = s]
    BY <1>2 DEF Read, Idle
  <2> HIDE DEF s
  <2> QED BY <1>1, <2>1, ActorBills
<1>3. CASE Billing(a) \/ actor' = [actor EXCEPT ![a] = Idle]
  <2>1. PICK pc \in {"drained", "idle"} : actor' = [actor EXCEPT ![a] = [Idle EXCEPT !.pc = pc]]
    BY <1>3 DEF Billing, Idle
  <2> DEFINE s == [Idle EXCEPT !.pc = pc]
  <2>2. s.pc \in {"drained", "idle"} /\ s.batch = {} /\ actor' = [actor EXCEPT ![a] = s]
    BY <2>1 DEF Idle
  <2> HIDE DEF s
  <2> QED BY <1>1, <2>2, ActorBills
<1>4. CASE \E batch \in SUBSET actor[a].batch : NextRow(a, batch)
  <2>1. PICK batch \in SUBSET actor[a].batch : NextRow(a, batch)
    BY <1>4
  <2> DEFINE s == [Idle EXCEPT !.pc = IF batch = {} THEN "idle" ELSE "rows", !.batch = batch]
  <2>2. s.pc \in {"idle", "rows"} /\ s.batch = batch /\ actor' = [actor EXCEPT ![a] = s]
    BY <2>1 DEF NextRow, Idle
  <2>3. \A c \in batch : BilledPeriod(c.period)
    BY <1>1, <2>1 DEF ActorsBilled
  <2> HIDE DEF s
  <2> QED BY <1>1, <2>2, <2>3, ActorBills
<1>5. CASE /\ actor[a].pc \in {"pushing", "pushed"}
           /\ Reach(a, "pushed") \/ Reach(a, "failing")
  <2>1. PICK pc \in {"pushed", "failing"} : actor' = [actor EXCEPT ![a] = [actor[a] EXCEPT !.pc = pc]]
    BY <1>5 DEF Reach
  <2> DEFINE s == [actor[a] EXCEPT !.pc = pc]
  <2>2. /\ s.pc \in {"pushed", "failing"}
        /\ s.claim = actor[a].claim
        /\ s.batch = actor[a].batch
        /\ actor' = [actor EXCEPT ![a] = s]
    BY <1>1, <2>1 DEF ActorStates
  <2>3. BilledPeriod(actor[a].claim.period) /\ \A c \in actor[a].batch : BilledPeriod(c.period)
    BY <1>1, <1>5 DEF ActorsBilled
  <2> HIDE DEF s
  <2> QED BY <1>1, <2>2, <2>3, ActorBills
<1> QED BY <1>2, <1>3, <1>4, <1>5

\* What a billing queues was billed by it; the other rows' payloads stand.
LEMMA QueueBills ==
  ASSUME ClockAssumption, Inv, NEW r \in Rentals, Covered(r), Invoice(r), Queue(r)
  PROVE  \A v \in DOMAIN row' : BilledPeriod(row[v].period)'
<1>1. TypeOK /\ Covered(rental) /\ \A v \in DOMAIN row : row[v] \in Rows /\ BilledPeriod(row[v].period)
  BY DEF Inv, ClockInv, PushInv, TypeOK
<1>2. BillsGrow /\ (Billable(r) => \A d \in Period(r).from..Period(r).to : billed'[d] > 0)
  BY <1>1, InvoiceCovers
<1>3. \A v \in DOMAIN row : \A d \in row[v].period.from..row[v].period.to : billed'[d] > 0
  <2>1. \A v \in DOMAIN row : row[v].period.from..row[v].period.to \subseteq Days
    BY <1>1 DEF Rows, Periods, ClockAssumption
  <2> QED BY <1>1, <1>2, <2>1 DEF BillsGrow, BilledPeriod
<1>4. \A v \in DOMAIN row' : \/ (Billable(r) /\ row'[v].period = Period(r))
                            \/ (v \in DOMAIN row /\ row'[v] = row[v])
  BY DEF Queue, Upserted
<1> HIDE DEF Queue
<1>5. \A v \in DOMAIN row' : \A d \in row'[v].period.from..row'[v].period.to : billed'[d] > 0
  BY <1>2, <1>3, <1>4
<1> QED BY <1>5 DEF BilledPeriod

\* A step that makes no bill keeps the invariant if it keeps the clock, the
\* rows' payloads and the actors' part of it, and invoices only what is claimed.
LEMMA QuietStep ==
  ASSUME Inv, TypeOK', UNCHANGED billed, rental'.through = rental.through, ActorsBilled',
         \A v \in DOMAIN row' : v \in DOMAIN row /\ row'[v].period = row[v].period,
         \A i \in invoices' : \/ i \in invoices
                             \/ \E a \in Actors : /\ actor[a].pc = "pushing"
                                                  /\ i.period = actor[a].claim.period
  PROVE  Inv'
<1>1. Covered(rental)'
  BY DEF Inv, ClockInv, Covered
<1>2. \A v \in DOMAIN row' : BilledPeriod(row'[v].period)
  BY DEF Inv, PushInv
<1>3. \A i \in invoices' : BilledPeriod(i.period)
  BY DEF Inv, PushInv
<1> QED BY <1>1, <1>2, <1>3 DEF Inv, ClockInv, PushInv, ActorsBilled, BilledPeriod

\* A billing keeps the invariant: it read a covered rental.
LEMMA BillKeepsInv ==
  ASSUME ClockAssumption, Inv, TypeOK', NEW a \in Actors, actor[a].pc = "read",
         Invoice(actor[a].seen), Billing(a), Queue(actor[a].seen) \/ row' = row,
         UNCHANGED <<today, invoices>>
  PROVE  Inv'
<1>1. /\ TypeOK
      /\ Covered(rental)
      /\ actor[a].seen \in Rentals
      /\ Covered(actor[a].seen)
  BY DEF Inv, ClockInv, TypeOK
<1>2. BillsGrow /\ Covered(rental)'
  BY <1>1, InvoiceCovers
<1>3. ActorsBilled'
  BY <1>2, ActorStepBills
<1>4. \A v \in DOMAIN row' : BilledPeriod(row[v].period)'
  <2>1. CASE Queue(actor[a].seen)
    BY <1>1, <2>1, QueueBills
  <2>2. CASE row' = row
    <3>1. \A v \in DOMAIN row : row[v].period \in Periods
      BY <1>1 DEF TypeOK, Rows
    <3> QED BY <1>2, <2>2, <3>1, BillsKept DEF Inv, PushInv, BilledPeriod
  <2> QED BY <2>1, <2>2
<1>5. \A i \in invoices' : BilledPeriod(i.period)'
  <2>1. \A i \in invoices : i.period \in Periods
    BY <1>1 DEF TypeOK
  <2> QED BY <1>2, <2>1, BillsKept DEF Inv, PushInv, BilledPeriod
<1> QED BY <1>2, <1>3, <1>4, <1>5 DEF Inv, ClockInv, PushInv, ActorsBilled, BilledPeriod

\* A worker's step on the outbox keeps the invariant: it pushes what it claimed
\* and claims what the rows hold.
LEMMA PushKeepsInv ==
  ASSUME ClockAssumption, Inv, TypeOK', NEW w \in Workers,
         \/ Claim(w)
         \/ StartRow(w)
         \/ PushAccepted(w)
         \/ PushThrows(w)
         \/ CommitRow(w)
         \/ CommitFails(w)
         \/ MarkFailed(w)
  PROVE  Inv'
<1>1. TypeOK /\ ActorsBilled /\ rental \in Rentals /\ actor[w] \in ActorStates
  BY DEF Inv, ClockInv, PushInv, ActorsBilled, TypeOK
<1>2. UNCHANGED billed
  BY DEF Claim, StartRow, PushAccepted, PushThrows, CommitRow, CommitFails, MarkFailed
<1>3. BillsGrow
  BY <1>2 DEF BillsGrow
<1>4. rental'.through = rental.through
  BY <1>1 DEF Claim, StartRow, PushAccepted, PushThrows, CommitRow, CommitFails, MarkFailed, Rentals
<1>5. \A v, status : Settle(v, status) =>
        \A u \in DOMAIN row' : u \in DOMAIN row /\ row'[u].period = row[u].period
  <2> SUFFICES ASSUME NEW v, NEW status, Settle(v, status), NEW u \in DOMAIN row'
               PROVE  u \in DOMAIN row /\ row'[u].period = row[u].period
    OBVIOUS
  <2>1. row' = [row EXCEPT ![v].status = status]
    BY DEF Settle
  <2>2. u \in DOMAIN row /\ (row'[u] = row[u] \/ row'[u] = [row[u] EXCEPT !.status = status])
    BY <2>1
  <2>3. row[u] \in Rows
    BY <1>1, <2>2 DEF TypeOK
  <2> QED BY <2>2, <2>3 DEF Rows
<1>6. CASE Claim(w)
  <2> DEFINE batch == {[version |-> v, period |-> row[v].period] : v \in Claimable}
             s == [Idle EXCEPT !.pc = IF Claimable = {} THEN "idle" ELSE "rows", !.batch = batch]
  <2>1. actor' = [actor EXCEPT ![w] = s]
    BY <1>6 DEF Claim
  <2>2. s.pc \in {"idle", "rows"} /\ s.batch = batch
    BY DEF Idle
  <2>3. \A c \in batch : BilledPeriod(c.period)
    BY DEF Claimable, Inv, PushInv
  <2> HIDE DEF batch, s
  <2>4. ActorsBilled'
    BY <1>1, <1>3, <2>1, <2>2, <2>3, ActorBills
  <2>5. \A v \in DOMAIN row' : v \in DOMAIN row /\ row'[v].period = row[v].period
    <3>1. row' = [v \in DOMAIN row |->
                    IF v \in Claimable THEN [row[v] EXCEPT !.status = "processing", !.due = FALSE]
                    ELSE row[v]]
      BY <1>6 DEF Claim
    <3>2. \A v \in DOMAIN row : [row[v] EXCEPT !.status = "processing", !.due = FALSE].period = row[v].period
      BY <1>1 DEF TypeOK, Rows
    <3> QED BY <3>1, <3>2
  <2>6. invoices' = invoices
    BY <1>6 DEF Claim
  <2> QED BY <1>2, <1>4, <2>4, <2>5, <2>6, QuietStep
<1>7. CASE StartRow(w)
  <2>1. PICK c \in actor[w].batch :
          IF ~rental.deleted /\ rental.status = "returned"
          THEN /\ actor' = [actor EXCEPT ![w] = [Idle EXCEPT !.pc = "pushing", !.claim = c,
                                                             !.batch = actor[w].batch \ {c}]]
               /\ UNCHANGED row
          ELSE /\ Settle(c.version, IF rental.deleted THEN "failed" ELSE "applied")
               /\ NextRow(w, actor[w].batch \ {c})
    BY <1>7 DEF StartRow
  <2>2. invoices' = invoices
    BY <1>7 DEF StartRow
  <2>3. \A d \in actor[w].batch : BilledPeriod(d.period)
    BY <1>1 DEF ActorsBilled
  <2>4. CASE ~rental.deleted /\ rental.status = "returned"
    <3> DEFINE s == [Idle EXCEPT !.pc = "pushing", !.claim = c, !.batch = actor[w].batch \ {c}]
    <3>1. actor' = [actor EXCEPT ![w] = s] /\ row' = row
      BY <2>1, <2>4
    <3>2. s.pc = "pushing" /\ s.claim = c /\ s.batch = actor[w].batch \ {c}
      BY DEF Idle
    <3> HIDE DEF s
    <3>3. ActorsBilled'
      BY <1>1, <1>3, <2>3, <3>1, <3>2, ActorBills
    <3> QED BY <1>2, <1>4, <2>2, <3>1, <3>3, QuietStep
  <2>5. CASE ~(~rental.deleted /\ rental.status = "returned")
    <3>1. /\ \E status : Settle(c.version, status)
          /\ NextRow(w, actor[w].batch \ {c})
      BY <2>1, <2>5
    <3>2. ActorsBilled'
      BY <1>3, <3>1, ActorStepBills
    <3> QED BY <1>2, <1>4, <1>5, <2>2, <3>1, <3>2, QuietStep
  <2> QED BY <2>4, <2>5
<1>8. CASE PushAccepted(w) \/ PushThrows(w)
  <2>1. actor[w].pc = "pushing" /\ row' = row
    BY <1>8 DEF PushAccepted, PushThrows
  <2>2. ActorsBilled'
    BY <1>3, <1>8, ActorStepBills DEF PushAccepted, PushThrows
  <2>3. \A i \in invoices' : i \in invoices \/ i.period = actor[w].claim.period
    BY <1>8 DEF PushAccepted, PushThrows, Minted
  <2> QED BY <1>2, <1>4, <2>1, <2>2, <2>3, QuietStep
<1>9. CASE CommitRow(w) \/ MarkFailed(w)
  <2>1. ActorsBilled'
    BY <1>3, <1>9, ActorStepBills DEF CommitRow, MarkFailed
  <2>2. \A v \in DOMAIN row' : v \in DOMAIN row /\ row'[v].period = row[v].period
    BY <1>5, <1>9 DEF CommitRow, MarkFailed
  <2>3. invoices' = invoices
    BY <1>9 DEF CommitRow, MarkFailed
  <2> QED BY <1>2, <1>4, <2>1, <2>2, <2>3, QuietStep
<1>10. CASE CommitFails(w)
  <2>1. ActorsBilled'
    BY <1>3, <1>10, ActorStepBills DEF CommitFails
  <2> QED BY <1>2, <1>4, <1>10, <2>1, QuietStep DEF CommitFails
<1> QED BY <1>6, <1>7, <1>8, <1>9, <1>10

\* The invariant holds initially: nothing is billed, read, queued or invoiced.
LEMMA InvInit ==
  ASSUME ClockAssumption, Init
  PROVE  Inv
<1>1. rental.through = Delivered - 1
  BY DEF Init
<1>2. Covered(rental)
  BY <1>1 DEF Covered, ClockAssumption
<1>3. \A a \in Actors : actor[a].pc = "idle" /\ actor[a].batch = {}
  BY DEF Init, Idle
<1>4. row = [v \in {} |-> NoPeriod] /\ invoices = {}
  BY DEF Init
<1>5. DOMAIN row = {}
  BY <1>4
<1> QED BY <1>2, <1>3, <1>4, <1>5, TypeInit DEF Inv, ClockInv, PushInv

\* Every step keeps the invariant.
LEMMA InvStep ==
  ASSUME ClockAssumption, Inv, [Next]_vars
  PROVE  Inv'
<1>1. TypeOK /\ TypeOK' /\ ActorsBilled /\ rental \in Rentals
  BY TypeStep DEF Inv, ClockInv, PushInv, ActorsBilled, TypeOK
<1>2. CASE DayPasses \/ OfficeStep \/ UNCHANGED vars
  <2>1. UNCHANGED <<billed, row, actor, invoices, disputed>>
    BY <1>2 DEF DayPasses, OfficeStep, Return, Close, Transfer, Event, ClearReturn, Delete, vars
  <2>2. rental'.through = rental.through
    BY <1>1, <1>2 DEF DayPasses, OfficeStep, Return, Close, Transfer, Event, ClearReturn, Delete, vars, Rentals
  <2>3. ActorsBilled'
    BY <1>1, <2>1 DEF ActorsBilled, Covered, BilledPeriod
  <2> QED BY <1>1, <2>1, <2>2, <2>3, QuietStep
<1>3. ASSUME NEW a \in Actors, Fetch(a) \/ FetchByHand(a) \/ BillFails(a) \/ Crash(a)
      PROVE  Inv'
  <2>1. UNCHANGED <<rental, billed, row, invoices, disputed>>
    BY <1>3 DEF Fetch, FetchByHand, BillFails, Crash
  <2>2. ActorsBilled'
    BY <1>1, <1>3, <2>1, ActorStepBills DEF BillsGrow, Fetch, FetchByHand, BillFails, Crash
  <2> QED BY <1>1, <2>1, <2>2, QuietStep
<1>4. ASSUME NEW a \in Actors, Bill(a) \/ BillByHand(a)
      PROVE  Inv'
  BY <1>1, <1>4, BillKeepsInv DEF Bill, BillByHand
<1>5. ASSUME NEW w \in Workers,
             \/ Claim(w)
             \/ StartRow(w)
             \/ PushAccepted(w)
             \/ PushThrows(w)
             \/ CommitRow(w)
             \/ CommitFails(w)
             \/ MarkFailed(w)
      PROVE  Inv'
  BY <1>1, <1>5, PushKeepsInv
<1>6. ASSUME NEW v \in DOMAIN row, Retire(v) \/ LeaseExpires(v)
      PROVE  Inv'
  <2>1. UNCHANGED <<rental, billed, actor, invoices, disputed>>
    BY <1>6 DEF Retire, LeaseExpires
  <2>2. \A u \in DOMAIN row' : u \in DOMAIN row /\ row'[u].period = row[u].period
    <3>1. row' = [row EXCEPT ![v].status = "dead"] \/ row' = [row EXCEPT ![v].due = TRUE]
      BY <1>6 DEF Retire, LeaseExpires
    <3>2. \A u \in DOMAIN row : /\ [row[u] EXCEPT !.status = "dead"].period = row[u].period
                                /\ [row[u] EXCEPT !.due = TRUE].period = row[u].period
      BY <1>1 DEF TypeOK, Rows
    <3> QED BY <3>1, <3>2
  <2>3. ActorsBilled'
    BY <1>1, <2>1 DEF ActorsBilled, Covered, BilledPeriod
  <2> QED BY <1>1, <2>1, <2>2, <2>3, QuietStep
<1> QED BY <1>2, <1>3, <1>4, <1>5, <1>6 DEF Next, WorkerStep

\* What the rental, the reads, the rows and the claims hold was billed, always.
THEOREM ClockInvariant == Spec => []Inv
<1>1. Init => Inv
  BY ClockAssumption, InvInit
<1>2. Inv /\ [Next]_vars => Inv'
  BY ClockAssumption, InvStep
<1> QED BY <1>1, <1>2, PTL DEF Spec

\* However many replicas and clerks bill from stale reads, no day before
\* last_invoiced_through is left without a bill.
THEOREM NoDayIsMissed == Spec => []NoDayMissed
<1>1. Inv => NoDayMissed
  BY DEF Inv, ClockInv, Covered, NoDayMissed
<1> QED BY <1>1, ClockInvariant, PTL

\* Whatever rows are claimed, lost, pushed again or replaced, QuickBooks holds
\* only days that were billed.
THEOREM InvoicedDaysWereBilled == Spec => []InvoicedDaysAreBilled
<1>1. Inv => InvoicedDaysAreBilled
  BY DEF Inv, PushInv, BilledPeriod, InvoicedDaysAreBilled
<1> QED BY <1>1, ClockInvariant, PTL
-----------------------------------------------------------------------------
(* Days billed once.  Where nothing bills between a read and the billing   *)
(* that follows it, the periods meet.  A billing from an older clock goes  *)
(* over days that are billed and may set the clock back; whoever read the  *)
(* clock before that is then ahead of it, by days that are disputed.       *)

\* A billing that has read a clock ahead of the rental's is ahead by disputed
\* days only.
AheadIsDisputed ==
  \A a \in Actors : actor[a].pc = "read" =>
    rental.through + 1..actor[a].seen.through \subseteq disputed

OnceInv == EachDayBilledOnce /\ AheadIsDisputed

\* A billing bills the days that follow the last one of the clock it read: the
\* undisputed ones among them for the first time.
LEMMA InvoiceOnce ==
  ASSUME ClockAssumption, TypeOK, EachDayBilledOnce, NEW r \in Rentals,
         rental.through + 1..r.through \subseteq disputed, Invoice(r)
  PROVE  EachDayBilledOnce'
<1>1. /\ Billable(r) => rental'.through = End(r)
      /\ ~Billable(r) => rental'.through = rental.through
  BY InvoiceStep
<1>2. \A d \in Days : billed'[d] = IF Billable(r) /\ d \in Start(r)..End(r) /\ billed[d] < MaxBilled
                                   THEN billed[d] + 1 ELSE billed[d]
  BY DEF Invoice
<1>3. /\ rental.through \in Delivered - 1..LastDay
      /\ r.through \in Delivered - 1..LastDay
      /\ Start(r) = r.through + 1
  BY DEF TypeOK, Rentals, Start
<1>4. \A d \in Days \ disputed : billed[d] = IF d \in Delivered..rental.through THEN 1 ELSE 0
  BY DEF EachDayBilledOnce
<1>5. disputed' = IF Billable(r) THEN disputed \cup (r.through + 1..rental.through) ELSE disputed
  BY DEF Invoice
<1>6. CASE Billable(r)
  <2>1. End(r) \in Start(r)..today /\ today \in Days
    BY <1>6, InvoiceType DEF TypeOK
  <2>2. ASSUME NEW d \in Days \ disputed'
        PROVE  billed'[d] = IF d \in Delivered..rental'.through THEN 1 ELSE 0
    <3>1. /\ d \in Days \ disputed
          /\ d \notin r.through + 1..rental.through
          /\ d \notin rental.through + 1..r.through
      BY <1>5, <1>6, <2>2
    <3>2. CASE d \in Start(r)..End(r)
      <4>1. billed[d] = 0 /\ d \in Delivered..rental'.through
        BY <1>1, <1>3, <1>4, <1>6, <2>1, <3>1, <3>2 DEF ClockAssumption
      <4>2. billed[d] < MaxBilled
        BY <4>1 DEF ClockAssumption
      <4> QED BY <1>2, <1>6, <3>2, <4>1, <4>2
    <3>3. CASE d \notin Start(r)..End(r)
      <4>1. d \in Delivered..rental'.through <=> d \in Delivered..rental.through
        BY <1>1, <1>3, <1>6, <2>1, <3>1, <3>3 DEF ClockAssumption
      <4> QED BY <1>2, <1>4, <3>1, <3>3, <4>1
    <3> QED BY <3>2, <3>3
  <2> QED BY <2>2 DEF EachDayBilledOnce
<1>7. CASE ~Billable(r)
  BY <1>1, <1>2, <1>4, <1>5, <1>7 DEF EachDayBilledOnce
<1> QED BY <1>6, <1>7

\* Whoever is ahead of the clock that a billing leaves is ahead by disputed days:
\* those it was ahead by before, and those the billing went over again.
LEMMA InvoiceAhead ==
  ASSUME ClockAssumption, TypeOK, NEW r \in Rentals, Invoice(r),
         NEW seen \in Rentals, rental.through + 1..seen.through \subseteq disputed
  PROVE  rental'.through + 1..seen.through \subseteq disputed'
<1>1. /\ Billable(r) => rental'.through = End(r)
      /\ ~Billable(r) => rental'.through = rental.through
  BY InvoiceStep
<1>2. disputed' = IF Billable(r) THEN disputed \cup (r.through + 1..rental.through) ELSE disputed
  BY DEF Invoice
<1>3. /\ rental.through \in Int
      /\ r.through \in Int
      /\ seen.through \in Int
      /\ Start(r) = r.through + 1
  BY DEF TypeOK, Rentals, Start, ClockAssumption
<1>4. CASE Billable(r)
  <2>1. End(r) \in Start(r)..today /\ today \in Days
    BY <1>4, InvoiceType DEF TypeOK
  <2>2. ASSUME NEW d \in rental'.through + 1..seen.through
        PROVE  d \in disputed'
    <3>1. CASE d <= rental.through
      BY <1>1, <1>2, <1>3, <1>4, <2>1, <2>2, <3>1
    <3>2. CASE d > rental.through
      BY <1>2, <1>3, <1>4, <2>2, <3>2, <1>1, <2>1
    <3> QED BY <1>1, <1>3, <1>4, <2>1, <2>2, <3>1, <3>2
  <2> QED BY <2>2
<1>5. CASE ~Billable(r)
  BY <1>1, <1>2, <1>5
<1> QED BY <1>4, <1>5

\* Only a billing writes a bill or the clock.
LEMMA ClockStands ==
  ASSUME TypeOK, [Next]_vars,
         \A a \in Actors : ~Bill(a) /\ ~BillByHand(a)
  PROVE  UNCHANGED <<billed, disputed>> /\ rental'.through = rental.through
<1>1. rental \in Rentals
  BY DEF TypeOK
<1>2. CASE DayPasses \/ OfficeStep \/ UNCHANGED vars
  BY <1>1, <1>2
     DEF DayPasses, OfficeStep, Return, Close, Transfer, Event, ClearReturn, Delete, vars, Rentals
<1>3. ASSUME NEW w \in Workers, WorkerStep(w) \/ Crash(w)
      PROVE  UNCHANGED <<billed, disputed>> /\ rental'.through = rental.through
  BY <1>1, <1>3
     DEF WorkerStep, Fetch, BillFails, Claim, StartRow, PushAccepted, PushThrows, CommitRow,
         CommitFails, MarkFailed, Crash, Rentals
<1>4. ASSUME NEW c \in Clerks, FetchByHand(c) \/ BillByHand(c) \/ BillFails(c)
      PROVE  UNCHANGED <<billed, disputed>> /\ rental'.through = rental.through
  BY <1>4 DEF FetchByHand, BillFails
<1>5. ASSUME NEW v \in DOMAIN row, Retire(v) \/ LeaseExpires(v)
      PROVE  UNCHANGED <<billed, disputed>> /\ rental'.through = rental.through
  BY <1>5 DEF Retire, LeaseExpires
<1> QED BY <1>2, <1>3, <1>4, <1>5 DEF Next

\* An actor that has read after a step had read before it, or read then.
LEMMA ReadsAreFresh ==
  ASSUME TypeOK, [Next]_vars, NEW a \in Actors, actor'[a].pc = "read"
  PROVE  actor'[a] = actor[a] \/ actor'[a].seen = rental
<1> DEFINE Fresh == actor'[a] = actor[a] \/ actor'[a].seen = rental
           Moved(b, s) == actor' = [actor EXCEPT ![b] = s]
<1>1. actor \in [Actors -> ActorStates]
  BY DEF TypeOK
<1>2. ASSUME NEW b \in Actors, NEW s, Moved(b, s), s.pc # "read" \/ s.seen = rental
      PROVE  Fresh
  BY <1>1, <1>2
<1>3. Idle.pc # "read"
  BY DEF Idle
<1>4. ASSUME NEW b \in Actors, Read(b)
      PROVE  Fresh
  <2> DEFINE s == [Idle EXCEPT !.pc = "read", !.seen = rental]
  <2>1. s.seen = rental /\ Moved(b, s)
    BY <1>4 DEF Read, Idle
  <2> HIDE DEF s, Fresh, Moved
  <2> QED BY <1>2, <2>1
<1>5. ASSUME NEW b \in Actors, Billing(b)
      PROVE  Fresh
  <2> DEFINE s == [Idle EXCEPT !.pc = IF b \in Workers THEN "drained" ELSE "idle"]
  <2>1. s.pc # "read" /\ Moved(b, s)
    BY <1>5 DEF Billing, Idle
  <2> HIDE DEF s, Fresh, Moved
  <2> QED BY <1>2, <2>1
<1>6. ASSUME NEW b \in Actors, NEW batch, NextRow(b, batch)
      PROVE  Fresh
  <2> DEFINE s == [Idle EXCEPT !.pc = IF batch = {} THEN "idle" ELSE "rows", !.batch = batch]
  <2>1. s.pc # "read" /\ Moved(b, s)
    BY <1>6 DEF NextRow, Idle
  <2> HIDE DEF s, Fresh, Moved
  <2> QED BY <1>2, <2>1
<1>7. ASSUME NEW b \in Actors, NEW pc \in {"pushed", "failing"}, Reach(b, pc)
      PROVE  Fresh
  <2> DEFINE s == [actor[b] EXCEPT !.pc = pc]
  <2>1. actor[b] \in ActorStates
    BY <1>1
  <2>2. s.pc # "read" /\ Moved(b, s)
    BY <1>7, <2>1 DEF Reach, ActorStates
  <2> HIDE DEF s, Fresh, Moved
  <2> QED BY <1>2, <2>2
<1>8. ASSUME NEW w \in Workers, Claim(w)
      PROVE  Fresh
  <2> DEFINE batch == {[version |-> v, period |-> row[v].period] : v \in Claimable}
             s == [Idle EXCEPT !.pc = IF Claimable = {} THEN "idle" ELSE "rows", !.batch = batch]
  <2>1. s.pc # "read" /\ Moved(w, s)
    BY <1>8 DEF Claim, Idle
  <2> HIDE DEF s, Fresh, Moved
  <2> QED BY <1>2, <2>1
<1>9. ASSUME NEW w \in Workers, StartRow(w)
      PROVE  Fresh
  <2>1. PICK c \in actor[w].batch :
             \/ actor' = [actor EXCEPT ![w] = [Idle EXCEPT !.pc = "pushing", !.claim = c,
                                                           !.batch = actor[w].batch \ {c}]]
             \/ NextRow(w, actor[w].batch \ {c})
    BY <1>9 DEF StartRow
  <2> DEFINE s == [Idle EXCEPT !.pc = "pushing", !.claim = c, !.batch = actor[w].batch \ {c}]
  <2>2. s.pc # "read" /\ (Moved(w, s) \/ NextRow(w, actor[w].batch \ {c}))
    BY <2>1 DEF Idle
  <2> HIDE DEF s, Fresh, Moved
  <2> QED BY <1>2, <1>6, <2>2
<1>10. ASSUME NEW b \in Actors, Crash(b)
       PROVE  Fresh
  <2>1. Moved(b, Idle)
    BY <1>10 DEF Crash
  <2> HIDE DEF Fresh, Moved
  <2> QED BY <1>2, <1>3, <2>1
<1>11. CASE UNCHANGED actor
  BY <1>11
<1> HIDE DEF Fresh, Moved
<1>12. ASSUME NEW w \in Workers, WorkerStep(w)
       PROVE  Fresh
  BY <1>4, <1>5, <1>6, <1>7, <1>8, <1>9, <1>12
     DEF WorkerStep, Fetch, Bill, BillFails, PushAccepted, PushThrows, CommitRow, CommitFails, MarkFailed
<1>13. ASSUME NEW c \in Clerks, FetchByHand(c) \/ BillByHand(c) \/ BillFails(c)
       PROVE  Fresh
  BY <1>4, <1>5, <1>13 DEF FetchByHand, BillByHand, BillFails
<1>14. CASE DayPasses \/ OfficeStep \/ (\E v \in DOMAIN row : Retire(v) \/ LeaseExpires(v)) \/ UNCHANGED vars
  BY <1>11, <1>14
     DEF DayPasses, OfficeStep, Return, Close, Transfer, Event, ClearReturn, Delete, Retire,
         LeaseExpires, vars
<1> QED BY <1>10, <1>12, <1>13, <1>14 DEF Next, Fresh

LEMMA OnceStep ==
  ASSUME ClockAssumption, TypeOK, OnceInv, [Next]_vars
  PROVE  OnceInv'
<1>1. rental \in Rentals
  BY DEF TypeOK
<1>2. CASE \E a \in Actors : Bill(a) \/ BillByHand(a)
  <2>1. PICK a \in Actors : Bill(a) \/ BillByHand(a)
    BY <1>2
  <2>2. actor[a].pc = "read" /\ Invoice(actor[a].seen) /\ Billing(a)
    BY <2>1 DEF Bill, BillByHand
  <2>3. actor[a].seen \in Rentals /\ rental.through + 1..actor[a].seen.through \subseteq disputed
    BY <2>2 DEF TypeOK, OnceInv, AheadIsDisputed
  <2>4. EachDayBilledOnce'
    BY <2>2, <2>3, InvoiceOnce DEF OnceInv
  <2>5. ASSUME NEW b \in Actors, actor'[b].pc = "read"
        PROVE  rental'.through + 1..actor'[b].seen.through \subseteq disputed'
    <3>1. actor'[b] = actor[b]
      BY <2>2, <2>5 DEF TypeOK, Billing, Idle
    <3>2. actor[b].seen \in Rentals /\ rental.through + 1..actor[b].seen.through \subseteq disputed
      BY <2>5, <3>1 DEF TypeOK, OnceInv, AheadIsDisputed
    <3> QED BY <2>2, <2>3, <3>1, <3>2, InvoiceAhead
  <2> QED BY <2>4, <2>5 DEF OnceInv, AheadIsDisputed
<1>3. CASE ~ \E a \in Actors : Bill(a) \/ BillByHand(a)
  <2>1. UNCHANGED <<billed, disputed>> /\ rental'.through = rental.through
    BY <1>3, ClockStands
  <2>2. EachDayBilledOnce'
    BY <2>1 DEF OnceInv, EachDayBilledOnce
  <2>3. ASSUME NEW b \in Actors, actor'[b].pc = "read"
        PROVE  rental'.through + 1..actor'[b].seen.through \subseteq disputed'
    <3>1. CASE actor'[b] = actor[b]
      BY <2>1, <2>3, <3>1 DEF OnceInv, AheadIsDisputed
    <3>2. CASE actor'[b].seen = rental
      <4>1. rental.through \in Int
        BY <1>1 DEF Rentals, ClockAssumption
      <4>2. rental.through + 1..rental.through = {}
        BY <4>1
      <4> QED BY <2>1, <3>2, <4>2
    <3> QED BY <2>3, <3>1, <3>2, ReadsAreFresh
  <2> QED BY <2>2, <2>3 DEF OnceInv, AheadIsDisputed
<1> QED BY <1>2, <1>3

LEMMA OnceInit ==
  ASSUME ClockAssumption, Init
  PROVE  OnceInv
<1>1. rental.through = Delivered - 1 /\ billed = [d \in Days |-> 0]
  BY DEF Init
<1>2. EachDayBilledOnce
  BY <1>1 DEF EachDayBilledOnce, ClockAssumption
<1>3. AheadIsDisputed
  BY DEF AheadIsDisputed, Init, Idle
<1> QED BY <1>2, <1>3 DEF OnceInv

\* However many replicas and clerks bill, each day from delivery through
\* last_invoiced_through is billed once and no other day is, but for the days
\* that a billing from a stale read went over again: for every cadence, every
\* return or transfer date, every event of the office between a read and its
\* billing, and every crash.
THEOREM UndisputedDaysBilledOnce == Spec => []EachDayBilledOnce
<1>1. Init => OnceInv
  BY ClockAssumption, OnceInit
<1>2. TypeOK /\ OnceInv /\ [Next]_vars => OnceInv'
  BY ClockAssumption, OnceStep
<1>3. OnceInv => EachDayBilledOnce
  BY DEF OnceInv
<1> QED BY <1>1, <1>2, <1>3, ClockTypeCorrect, PTL DEF Spec
=============================================================================
