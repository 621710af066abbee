------------------------ MODULE LaborPayrollPushProofs ------------------------
(***************************************************************************)
(* A payroll run shows posted only when all it covers was paid, nobody is  *)
(* paid for more hours than worked, and a run shows auto-posted only when  *)
(* the automatic post approved it, for any entries, hours, replicas and    *)
(* limits.                                                                 *)
(*                                                                         *)
(* A replica works from hours it read before its first request, the run    *)
(* may be failed, posted again or worked by another replica meanwhile, and *)
(* QuickBooks keeps whatever was posted first.  The proof rests on what a  *)
(* batch holds of an entry nobody touched: each of its parts is still to   *)
(* be posted, or its id is in hand and QuickBooks holds it.                *)
(***************************************************************************)
EXTENDS LaborPayrollPush, TLAPS

Ids == Entries \X Kinds

BookRecords == [entry : Entries, kind : Kinds, hours : Nat, id : Ids]

RunRecords ==
  [ state : States, state_version : Nat \ {0}, approved_by : {"nobody", "user", "auto"},
    auto_posted : BOOLEAN, ref : SUBSET Ids ]

Steps ==
  {"idle", "swept", "approving", "approved", "requesting", "listed", "claimed", "pushing",
   "pushed", "recovering", "marking"}

Replicas == [pc : Steps, todo : SUBSET PartRecords, got : SUBSET Ids]

BookIds == {b.id : b \in books}

Untouched == Entries \ touched

Desk == hours \in [Entries -> Nat] /\ split \in BOOLEAN /\ edits \in 0..MaxEdits /\ touched \subseteq Entries

\* The ledger keeps one activity of each request id.
Ledger ==
  /\ books \subseteq BookRecords
  /\ \A b \in books : b.id = <<b.entry, b.kind>>
  /\ \A b, c \in books : b.id = c.id => b = c

\* QuickBooks holds of an untouched entry only what is due to it.
BooksFit ==
  \A e \in Untouched : \A b \in books :
    b.entry = e => [entry |-> e, kind |-> b.kind, hours |-> b.hours] \in Parts(e)

\* A replica's batch, of an untouched entry, is what is due to it.
Fits(todo, got, batched) ==
  \A e \in Untouched :
    /\ \A p \in todo : p.entry = e => p \in Parts(e)
    /\ batched => \A p \in Parts(e) : p \in todo \/ <<e, p.kind>> \in got

Batched(pc) == pc \in {"pushing", "pushed"}

Hands ==
  /\ worker \in [Workers -> Replicas]
  /\ \A w \in Workers :
       /\ worker[w].todo # {} <=> worker[w].pc = "pushing"
       /\ worker[w].got \subseteq BookIds
       /\ Fits(worker[w].todo, worker[w].got, Batched(worker[w].pc))

Badge == AutoPostedWasAutoApproved /\ (run.state = "generated" => ~run.auto_posted)

PostedListsAll ==
  run.state = "posted" => \A e \in Untouched : \A p \in Parts(e) : <<e, p.kind>> \in run.ref

Listed ==
  /\ run \in RunRecords
  /\ run.ref \subseteq BookIds
  /\ run.ref # {} => run.state = "posted"
  /\ PostedListsAll

IInv == Desk /\ row \in Rows /\ Ledger /\ BooksFit /\ Hands /\ Listed /\ Badge

(***************************************************************************)
(* The parts of an entry.                                                  *)
(***************************************************************************)
LEMMA PartsOfEntry ==
  ASSUME Desk, NEW e \in Entries
  PROVE  /\ \A p \in Parts(e) : p \in PartRecords /\ p.entry = e
         /\ \A p, q \in Parts(e) : p.kind = q.kind => p = q
         /\ hours[e] = 0 => Parts(e) = {}
         /\ hours[e] # 0 => Parts(e) # {}
<1>1. hours[e] \in Nat
  BY DEF Desk
<1>2. CASE hours[e] = 0
  <2>1. ~(hours[e] > Threshold)
    BY <1>2 DEF Threshold
  <2>2. Parts(e) = {}
    BY <1>2, <2>1, Zenon DEF Parts
  <2> QED
    BY <1>2, <2>2
<1>3. CASE hours[e] # 0 /\ split /\ hours[e] > Threshold
  <2>1. Parts(e) = {[entry |-> e, kind |-> "straight", hours |-> 8],
                    [entry |-> e, kind |-> "ot", hours |-> hours[e] - 8]}
    BY <1>3 DEF Parts, Threshold
  <2>2. hours[e] - 8 \in Nat
    BY <1>1, <1>3 DEF Threshold
  <2> QED
    BY <1>3, <2>1, <2>2 DEF PartRecords, Kinds
<1>4. CASE hours[e] # 0 /\ ~(split /\ hours[e] > Threshold)
  <2>1. Parts(e) = {[entry |-> e, kind |-> "straight", hours |-> hours[e]]}
    BY <1>4 DEF Parts
  <2> QED
    BY <1>1, <1>4, <2>1 DEF PartRecords, Kinds
<1> QED
  BY <1>2, <1>3, <1>4

LEMMA InitIInv == Init => IInv
<1> SUFFICES ASSUME Init PROVE IInv
  OBVIOUS
<1>1. Desk /\ row \in Rows
  BY PayrollAssumption DEF Init, Desk, Rows, Live
<1>2. Ledger /\ BooksFit
  BY DEF Init, Ledger, BooksFit
<1>3. Idle \in Replicas /\ Idle.todo = {} /\ Idle.got = {} /\ Idle.pc = "idle"
  BY DEF Idle, Replicas, Steps
<1>4. Hands
  BY <1>3 DEF Init, Hands, Fits, Batched
<1>5. Listed /\ Badge
  BY DEF Init, Initial, Listed, RunRecords, States, PostedListsAll, Badge, AutoPostedWasAutoApproved
<1> QED
  BY <1>1, <1>2, <1>4, <1>5 DEF IInv

(***************************************************************************)
(* Events of the run.                                                      *)
(***************************************************************************)
Types ==
  {"APPROVE", "POST_REQUESTED", "POST_SUCCEEDED", "POST_FAILED", "RETRY_POST", "VOID",
   "AUTO_APPROVE", "AUTO_POST_REQUESTED"}

LEMMA MovesTypes ==
  ASSUME run \in RunRecords, Badge, NEW type \in Types, NEW ids \in SUBSET Ids,
         Legal(run, type), Moves(type, ids),
         type = "AUTO_POST_REQUESTED" => run.auto_posted
  PROVE  /\ run' \in RunRecords /\ Badge'
         /\ run.state # "posted"
         /\ run'.state = "posted" <=> type = "POST_SUCCEEDED"
         /\ run'.ref = IF type = "POST_SUCCEEDED" THEN ids ELSE run.ref
<1>1. /\ run'.state = Target[type] /\ run'.state_version = run.state_version + 1
      /\ run'.approved_by = CASE type = "APPROVE" -> "user"
                              [] type = "AUTO_APPROVE" -> "auto"
                              [] OTHER -> run.approved_by
      /\ run'.auto_posted = (run.auto_posted \/ type \in {"AUTO_APPROVE", "AUTO_POST_REQUESTED"})
      /\ run'.ref = IF type = "POST_SUCCEEDED" THEN ids ELSE run.ref
  BY DEF Moves, Reduce
<1>2. Target[type] \in States \ {"generated"} /\ (Target[type] = "posted" <=> type = "POST_SUCCEEDED")
  BY DEF Types, Target, States
<1>3. run.state \in Sources[type] /\ run.state # "posted"
  BY DEF Legal, Sources, Types
<1>4. run' \in RunRecords
  <2>1. run.state_version + 1 \in Nat \ {0} /\ run.ref \in SUBSET Ids
        /\ run.approved_by \in {"nobody", "user", "auto"}
    BY DEF RunRecords
  <2>2. run' = [ state |-> run'.state, state_version |-> run'.state_version,
                 approved_by |-> run'.approved_by, auto_posted |-> run'.auto_posted,
                 ref |-> run'.ref ]
    BY DEF Moves, Reduce
  <2>3. run'.auto_posted \in BOOLEAN
    BY <1>1
  <2>4. run'.approved_by \in {"nobody", "user", "auto"}
    BY <1>1, <2>1
  <2> QED
    BY <1>1, <1>2, <2>1, <2>2, <2>3, <2>4 DEF RunRecords
<1>5. Badge'
  <2>1. run'.state # "generated"
    BY <1>1, <1>2
  <2>2. run'.auto_posted => run'.approved_by = "auto"
    <3>1. CASE type = "APPROVE"
      <4>1. run.state = "generated"
        BY <1>3, <3>1 DEF Sources
      <4> QED
        BY <1>1, <3>1, <4>1 DEF Badge
    <3>2. CASE type = "AUTO_APPROVE"
      BY <1>1, <3>2
    <3>3. CASE type \notin {"APPROVE", "AUTO_APPROVE"}
      BY <1>1, <3>3 DEF Badge, AutoPostedWasAutoApproved
    <3> QED
      BY <3>1, <3>2, <3>3
  <2> QED
    BY <2>1, <2>2 DEF Badge, AutoPostedWasAutoApproved
<1> QED
  BY <1>1, <1>2, <1>3, <1>4, <1>5

(***************************************************************************)
(* What a step of one replica has to show to keep Hands.                   *)
(***************************************************************************)
LEMMA SameParts ==
  ASSUME UNCHANGED <<hours, split, touched>>
  PROVE  Untouched' = Untouched /\ \A e \in Entries : Parts(e)' = Parts(e)
<1>1. Untouched' = Untouched
  BY DEF Untouched
<1>2. ASSUME NEW e \in Entries PROVE Parts(e)' = Parts(e)
  BY DEF Parts
<1> QED
  BY <1>1, <1>2

LEMMA HandsKept ==
  ASSUME Hands, UNCHANGED <<hours, split, touched>>, BookIds \subseteq BookIds',
         NEW w \in Workers, NEW next \in Replicas,
         worker' = [worker EXCEPT ![w] = next],
         next.todo # {} <=> next.pc = "pushing",
         next.got \subseteq BookIds',
         Fits(next.todo, next.got, Batched(next.pc))
  PROVE  Hands'
<1>1. worker' \in [Workers -> Replicas]
  BY DEF Hands
<1>2. Untouched' = Untouched /\ \A e \in Entries : Parts(e)' = Parts(e)
  BY SameParts
<1>3. Untouched \subseteq Entries
  BY DEF Untouched
<1>4. ASSUME NEW v \in Workers
      PROVE  /\ worker'[v].todo # {} <=> worker'[v].pc = "pushing"
             /\ worker'[v].got \subseteq BookIds'
             /\ Fits(worker'[v].todo, worker'[v].got, Batched(worker'[v].pc))
  <2>1. CASE v = w
    <3>1. worker'[v] = next
      BY <2>1 DEF Hands
    <3> QED
      BY <3>1
  <2>2. CASE v # w
    <3>1. worker'[v] = worker[v]
      BY <2>2 DEF Hands
    <3> QED
      BY <3>1 DEF Hands
  <2> QED
    BY <2>1, <2>2
<1>5. ASSUME NEW v \in Workers
      PROVE  \A e \in Untouched' :
               /\ \A p \in worker'[v].todo : p.entry = e => p \in Parts(e)'
               /\ Batched(worker'[v].pc) =>
                    \A p \in Parts(e)' : p \in worker'[v].todo \/ <<e, p.kind>> \in worker'[v].got
  BY <1>2, <1>3, <1>4 DEF Fits
<1> QED
  BY <1>1, <1>4, <1>5 DEF Hands, Fits, Batched

(***************************************************************************)
(* The ledger and the run under a step that leaves entries and books alone.*)
(***************************************************************************)
LEMMA LedgerStays ==
  ASSUME Ledger, BooksFit, UNCHANGED <<hours, split, touched, books>>
  PROVE  Ledger' /\ BooksFit' /\ BookIds' = BookIds
<1>1. Untouched' = Untouched /\ \A e \in Entries : Parts(e)' = Parts(e)
  BY SameParts
<1>2. Untouched \subseteq Entries
  BY DEF Untouched
<1>3. Ledger' /\ BookIds' = BookIds
  BY DEF Ledger, BookIds
<1>4. \A e \in Untouched' : \A b \in books' :
        b.entry = e => [entry |-> e, kind |-> b.kind, hours |-> b.hours] \in Parts(e)'
  BY <1>1, <1>2 DEF BooksFit
<1> QED
  BY <1>3, <1>4 DEF BooksFit

LEMMA HandsStay ==
  ASSUME Hands, UNCHANGED <<hours, split, touched, books, worker>>
  PROVE  Hands'
<1>1. Untouched' = Untouched /\ \A e \in Entries : Parts(e)' = Parts(e)
  BY SameParts
<1>2. Untouched \subseteq Entries
  BY DEF Untouched
<1>3. BookIds' = BookIds
  BY DEF BookIds
<1>4. ASSUME NEW v \in Workers
      PROVE  \A e \in Untouched' :
               /\ \A p \in worker'[v].todo : p.entry = e => p \in Parts(e)'
               /\ Batched(worker'[v].pc) =>
                    \A p \in Parts(e)' : p \in worker'[v].todo \/ <<e, p.kind>> \in worker'[v].got
  BY <1>1, <1>2 DEF Hands, Fits
<1> QED
  BY <1>3, <1>4 DEF Hands, Fits, Batched

LEMMA ListedStays ==
  ASSUME Listed, UNCHANGED <<hours, split, touched, run>>, BookIds \subseteq BookIds'
  PROVE  Listed'
<1>1. Untouched' = Untouched /\ \A e \in Entries : Parts(e)' = Parts(e)
  BY SameParts
<1>2. Untouched \subseteq Entries
  BY DEF Untouched
<1>3. run'.state = "posted" =>
        \A e \in Untouched' : \A p \in Parts(e)' : <<e, p.kind>> \in run'.ref
  BY <1>1, <1>2 DEF Listed, PostedListsAll
<1> QED
  BY <1>3 DEF Listed, PostedListsAll

\* An event of the run itself; only POST_SUCCEEDED needs the listing shown.
LEMMA ListedMoves ==
  ASSUME Listed, Badge, UNCHANGED <<hours, split, touched>>, BookIds \subseteq BookIds',
         NEW type \in Types, NEW ids \in SUBSET Ids, ids \subseteq BookIds,
         Legal(run, type), Moves(type, ids),
         type = "AUTO_POST_REQUESTED" => run.auto_posted,
         type = "POST_SUCCEEDED" =>
           \A e \in Untouched : \A p \in Parts(e) : <<e, p.kind>> \in ids
  PROVE  Listed' /\ Badge'
<1>1. Untouched' = Untouched /\ \A e \in Entries : Parts(e)' = Parts(e)
  BY SameParts
<1>2. Untouched \subseteq Entries
  BY DEF Untouched
<1>3. /\ run' \in RunRecords /\ Badge'
      /\ run.state # "posted"
      /\ run'.state = "posted" <=> type = "POST_SUCCEEDED"
      /\ run'.ref = IF type = "POST_SUCCEEDED" THEN ids ELSE run.ref
  BY MovesTypes DEF Listed
<1>4. run'.ref \subseteq BookIds' /\ (run'.ref # {} => run'.state = "posted")
  BY <1>3 DEF Listed
<1>5. run'.state = "posted" =>
        \A e \in Untouched' : \A p \in Parts(e)' : <<e, p.kind>> \in run'.ref
  BY <1>1, <1>2, <1>3
<1> QED
  BY <1>3, <1>4, <1>5 DEF Listed, PostedListsAll

LEMMA EnqueueRows ==
  ASSUME row \in Rows
  PROVE  /\ Enqueue => row' \in Rows
         /\ Bump(row.attempts) \in 0..MaxRetries
<1>1. row.attempts \in 0..MaxRetries /\ MaxRetries \in Nat
  BY PayrollAssumption DEF Rows
<1>2. Bump(row.attempts) \in 0..MaxRetries /\ 0 \in 0..MaxRetries
  BY <1>1 DEF Bump
<1>3. ASSUME NEW n \in 0..MaxRetries
      PROVE  [status |-> "pending", attempts |-> n, due |-> TRUE] \in Rows
  BY DEF Rows, Live
<1> QED
  BY <1>2, <1>3 DEF Enqueue

(***************************************************************************)
(* The office, and the crew's edits.                                       *)
(***************************************************************************)
LEMMA HumanKeeps ==
  ASSUME IInv, NEW type \in HumanEvents, HumanEvent(type)
  PROVE  IInv'
<1>1. UNCHANGED <<hours, split, books, worker, edits, touched>> /\ Legal(run, type) /\ Moves(type, {})
  BY DEF HumanEvent
<1>2. Ledger' /\ BooksFit' /\ BookIds' = BookIds /\ Hands' /\ Desk'
  BY <1>1, LedgerStays, HandsStay DEF IInv, Desk
<1>3. type \in Types /\ type \notin {"AUTO_POST_REQUESTED", "POST_SUCCEEDED"}
  BY DEF HumanEvents, Types
<1>4. Listed' /\ Badge'
  BY <1>1, <1>2, <1>3, ListedMoves DEF IInv
<1>5. row' \in Rows
  BY EnqueueRows DEF HumanEvent, IInv
<1> QED
  BY <1>2, <1>4, <1>5 DEF IInv

\* Whoever has all that is due to an entry has read it.
LEMMA ReadWhenPushed ==
  ASSUME IInv, NEW e \in Untouched, hours[e] # 0, ~IsRead(e)
  PROVE  /\ \A b \in books : b.entry # e
         /\ \A w \in Workers : ~Batched(worker[w].pc) /\ \A p \in worker[w].todo : p.entry # e
         /\ run.state # "posted"
<1>1. /\ \A b \in books : b.entry # e
      /\ \A w \in Workers : \A p \in worker[w].todo : p.entry # e
  BY DEF IsRead
<1>2. e \in Entries
  BY DEF Untouched
<1>3. PICK p \in Parts(e) : p.entry = e
  BY <1>2, PartsOfEntry DEF IInv
<1>4. <<e, p.kind>> \notin BookIds
  <2>1. SUFFICES ASSUME NEW b \in books, b.id = <<e, p.kind>> PROVE FALSE
    BY DEF BookIds
  <2>2. <<b.entry, b.kind>> = <<e, p.kind>>
    BY <2>1 DEF IInv, Ledger
  <2> QED
    BY <1>1, <2>2
<1>5. ASSUME NEW w \in Workers PROVE ~Batched(worker[w].pc)
  BY <1>1, <1>3, <1>4 DEF IInv, Hands, Fits
<1>6. run.state # "posted"
  BY <1>3, <1>4 DEF IInv, Listed, PostedListsAll
<1> QED
  BY <1>1, <1>5, <1>6

\* Entries change; those still untouched either kept their parts or are in
\* nobody's hands.
LEMMA ChangeKeeps ==
  ASSUME IInv, Desk', UNCHANGED <<run, row, books, worker>>, touched \subseteq touched',
         \A e \in Untouched' : Parts(e)' = Parts(e) \/ (hours[e] # 0 /\ ~IsRead(e))
  PROVE  IInv'
<1>1. Untouched' \subseteq Untouched /\ BookIds' = BookIds
  BY DEF Untouched, BookIds
<1>2. Ledger'
  BY DEF IInv, Ledger
<1>3. \A e \in Untouched' : \A b \in books' :
        b.entry = e => [entry |-> e, kind |-> b.kind, hours |-> b.hours] \in Parts(e)'
  <2> SUFFICES ASSUME NEW e \in Untouched', NEW b \in books, b.entry = e
               PROVE  [entry |-> e, kind |-> b.kind, hours |-> b.hours] \in Parts(e)'
    OBVIOUS
  <2>1. Parts(e)' = Parts(e)
    BY <1>1, ReadWhenPushed
  <2> QED
    BY <1>1, <2>1 DEF IInv, BooksFit
<1>4. BooksFit'
  BY <1>3 DEF BooksFit
<1>5. ASSUME NEW v \in Workers, NEW e \in Untouched'
      PROVE  /\ \A p \in worker'[v].todo : p.entry = e => p \in Parts(e)'
             /\ Batched(worker'[v].pc) =>
                  \A p \in Parts(e)' : p \in worker'[v].todo \/ <<e, p.kind>> \in worker'[v].got
  BY <1>1, ReadWhenPushed DEF IInv, Hands, Fits
<1>6. Hands'
  BY <1>1, <1>5 DEF IInv, Hands, Fits, Batched
<1>7. run'.state = "posted" =>
        \A e \in Untouched' : \A p \in Parts(e)' : <<e, p.kind>> \in run'.ref
  BY <1>1, ReadWhenPushed DEF IInv, Listed, PostedListsAll
<1>8. Listed' /\ Badge'
  BY <1>1, <1>7 DEF IInv, Listed, PostedListsAll, Badge, AutoPostedWasAutoApproved
<1> QED
  BY <1>2, <1>4, <1>6, <1>8 DEF IInv

LEMMA EditKeeps ==
  ASSUME IInv, NEW e \in Entries, NEW h \in Hours \cup {0}, EditEntry(e, h)
  PROVE  IInv'
<1>1. /\ UNCHANGED <<run, row, split, books, worker>>
      /\ edits < MaxEdits /\ edits' = edits + 1
      /\ hours[e] # 0
      /\ hours' = [hours EXCEPT ![e] = h]
      /\ touched' = IF IsRead(e) THEN touched \cup {e} ELSE touched
  BY DEF EditEntry
<1>2. Desk' /\ touched \subseteq touched'
  BY <1>1, PayrollAssumption DEF IInv, Desk
<1>3. ASSUME NEW f \in Untouched'
      PROVE  Parts(f)' = Parts(f) \/ (hours[f] # 0 /\ ~IsRead(f))
  <2>1. f \in Entries /\ f \notin touched'
    BY <1>1 DEF Untouched
  <2>2. CASE f = e
    BY <1>1, <2>1, <2>2
  <2>3. CASE f # e
    <3>1. hours'[f] = hours[f] /\ split' = split
      BY <1>1, <2>1, <2>3 DEF IInv, Desk
    <3> QED
      BY <3>1 DEF Parts
  <2> QED
    BY <2>2, <2>3
<1> QED
  BY <1>1, <1>2, <1>3, ChangeKeeps

LEMMA OvertimeKeeps ==
  ASSUME IInv, SetOvertimeItem
  PROVE  IInv'
<1>1. /\ UNCHANGED <<run, row, hours, books, worker>>
      /\ edits < MaxEdits /\ edits' = edits + 1
      /\ split' = ~split
      /\ touched' = touched \cup {e \in Entries : IsRead(e)}
  BY DEF SetOvertimeItem
<1>2. Desk' /\ touched \subseteq touched'
  BY <1>1, PayrollAssumption DEF IInv, Desk
<1>3. ASSUME NEW f \in Untouched'
      PROVE  Parts(f)' = Parts(f) \/ (hours[f] # 0 /\ ~IsRead(f))
  <2>1. f \in Entries /\ ~IsRead(f)
    BY <1>1 DEF Untouched
  <2>2. CASE hours[f] = 0
    <3>1. hours'[f] = 0
      BY <1>1, <2>2
    <3>2. Parts(f) = {}
      BY <2>1, <2>2, PartsOfEntry DEF IInv
    <3>3. ~(hours'[f] > Threshold)
      BY <3>1 DEF Threshold
    <3>4. Parts(f)' = {}
      BY <3>1, <3>3, Zenon DEF Parts
    <3> QED
      BY <3>2, <3>4
  <2> QED
    BY <2>1, <2>2
<1> QED
  BY <1>1, <1>2, <1>3, ChangeKeeps

(***************************************************************************)
(* The steps of a replica.                                                 *)
(***************************************************************************)

\* A replica that holds no batch goes on.
LEMMA WalkKeeps ==
  ASSUME IInv, NEW w \in Workers, NEW pc \in Steps \ {"pushing", "pushed"},
         UNCHANGED <<hours, split, books, edits, touched>>,
         Goes(w, pc), worker[w].pc # "pushing",
         row' \in Rows,
         Listed', Badge'
  PROVE  IInv'
<1> DEFINE next == [worker[w] EXCEPT !.pc = pc]
<1>1. Ledger' /\ BooksFit' /\ BookIds' = BookIds /\ Desk'
  BY LedgerStays DEF IInv, Desk
<1>2. worker' = [worker EXCEPT ![w] = next]
  BY DEF Goes
<1>3. next \in Replicas /\ next.pc = pc /\ next.todo = {} /\ next.got \subseteq BookIds
  <2>1. worker[w] \in Replicas /\ worker[w].got \subseteq BookIds /\ worker[w].todo = {}
    BY DEF IInv, Hands
  <2> QED
    BY <2>1 DEF Replicas
<1> HIDE DEF next
<1>4. Fits(next.todo, next.got, Batched(next.pc))
  BY <1>3 DEF Fits, Batched
<1>5. Hands'
  BY <1>1, <1>2, <1>3, <1>4, HandsKept DEF IInv
<1> QED
  BY <1>1, <1>5 DEF IInv

\* A replica drops whatever it holds.
Drops(w, pc) == worker' = [worker EXCEPT ![w] = [Idle EXCEPT !.pc = pc]]

LEMMA DropHands ==
  ASSUME Hands, NEW w \in Workers, NEW pc \in Steps \ {"pushing", "pushed"},
         UNCHANGED <<hours, split, touched>>, BookIds \subseteq BookIds',
         Drops(w, pc)
  PROVE  Hands'
<1> DEFINE next == [Idle EXCEPT !.pc = pc]
<1>1. worker' = [worker EXCEPT ![w] = next]
  BY DEF Drops
<1>2. next \in Replicas /\ next.pc = pc /\ next.todo = {} /\ next.got = {}
  BY DEF Replicas, Idle
<1> HIDE DEF next
<1>3. Fits(next.todo, next.got, Batched(next.pc))
  BY <1>2 DEF Fits, Batched
<1> QED
  BY <1>1, <1>2, <1>3, HandsKept

LEMMA DropKeeps ==
  ASSUME IInv, NEW w \in Workers, NEW pc \in Steps \ {"pushing", "pushed"},
         UNCHANGED <<hours, split, books, edits, touched>>,
         Drops(w, pc),
         row' \in Rows,
         Listed', Badge'
  PROVE  IInv'
<1>1. Ledger' /\ BooksFit' /\ BookIds' = BookIds /\ Desk'
  BY LedgerStays DEF IInv, Desk
<1>2. Hands'
  BY <1>1, DropHands DEF IInv
<1> QED
  BY <1>1, <1>2 DEF IInv

\* The run stays as it is.
LEMMA RunStays ==
  ASSUME IInv, UNCHANGED <<hours, split, touched, run>>, BookIds \subseteq BookIds'
  PROVE  Listed' /\ Badge'
BY ListedStays DEF IInv, Badge, AutoPostedWasAutoApproved

LEMMA RowChanges ==
  ASSUME row \in Rows
  PROVE  /\ \A s \in {"dead", "applied", "failed"} : [row EXCEPT !.status = s] \in Rows
         /\ [row EXCEPT !.due = TRUE] \in Rows
         /\ [status |-> "processing", attempts |-> Bump(row.attempts), due |-> FALSE] \in Rows
<1>1. ASSUME NEW n \in 0..MaxRetries
      PROVE  [status |-> "processing", attempts |-> n, due |-> FALSE] \in Rows
  BY DEF Rows, Live
<1>2. /\ \A s \in {"dead", "applied", "failed"} : [row EXCEPT !.status = s] \in Rows
      /\ [row EXCEPT !.due = TRUE] \in Rows
  BY DEF Rows
<1> QED
  BY <1>1, <1>2, EnqueueRows

LEMMA SweepKeeps ==
  ASSUME IInv, NEW w \in Workers,
         SweepDeadLetters(w) \/ ListGenerated(w) \/ ListApproved(w) \/ Claim(w) \/ MarkFailed(w)
  PROVE  IInv'
<1>1. /\ UNCHANGED <<run, hours, split, books, edits, touched>>
      /\ worker[w].pc # "pushing"
  BY DEF SweepDeadLetters, ListGenerated, ListApproved, Claim, MarkFailed
<1>2. row' \in Rows
  BY RowChanges DEF SweepDeadLetters, ListGenerated, ListApproved, Claim, MarkFailed, IInv
<1>3. Listed' /\ Badge'
  BY <1>1, RunStays DEF BookIds
<1>4. CASE SweepDeadLetters(w) \/ ListGenerated(w) \/ ListApproved(w) \/ Claim(w)
  <2>1. PICK pc \in {"swept", "approving", "requesting", "claimed", "idle"} : Goes(w, pc)
    BY <1>4 DEF SweepDeadLetters, ListGenerated, ListApproved, Claim
  <2>2. pc \in Steps \ {"pushing", "pushed"}
    BY DEF Steps
  <2> QED
    BY <1>1, <1>2, <1>3, <2>1, <2>2, WalkKeeps
<1>5. CASE MarkFailed(w)
  <2>1. Drops(w, "idle") /\ "idle" \in Steps \ {"pushing", "pushed"}
    BY <1>5 DEF MarkFailed, Drops, Idle, Steps
  <2> QED
    BY <1>1, <1>2, <1>3, <2>1, DropKeeps
<1> QED
  BY <1>4, <1>5

LEMMA AutomaticKeeps ==
  ASSUME IInv, NEW w \in Workers, AutoApprove(w) \/ AutoPost(w)
  PROVE  IInv'
<1>1. /\ UNCHANGED <<hours, split, books, edits, touched>>
      /\ worker[w].pc # "pushing"
      /\ BookIds \subseteq BookIds'
  BY DEF AutoApprove, AutoPost, BookIds
<1>2. PICK pc \in {"approved", "listed"} : Goes(w, pc)
  BY DEF AutoApprove, AutoPost
<1>3. pc \in Steps \ {"pushing", "pushed"}
  BY DEF Steps
<1>4. row' \in Rows /\ Listed' /\ Badge'
  <2>1. CASE AutoApprove(w) /\ Legal(run, "AUTO_APPROVE")
    BY <1>1, <2>1, ListedMoves DEF AutoApprove, Types, IInv
  <2>2. CASE AutoApprove(w) /\ ~Legal(run, "AUTO_APPROVE")
    BY <1>1, <2>2, RunStays DEF AutoApprove, IInv
  <2>3. CASE AutoPost(w) /\ AutoPostable
    <3>1. Legal(run, "AUTO_POST_REQUESTED") /\ run.auto_posted
      BY <2>3 DEF AutoPostable, Legal, Sources
    <3> QED
      BY <1>1, <2>3, <3>1, ListedMoves, EnqueueRows DEF AutoPost, Types, IInv
  <2>4. CASE AutoPost(w) /\ ~AutoPostable
    BY <1>1, <2>4, RunStays DEF AutoPost, IInv
  <2> QED
    BY <2>1, <2>2, <2>3, <2>4
<1> QED
  BY <1>1, <1>2, <1>3, <1>4, WalkKeeps

LEMMA CrashKeeps ==
  ASSUME IInv, NEW w \in Workers, Crash(w) \/ CommitFails(w)
  PROVE  IInv'
<1>1. /\ UNCHANGED <<run, row, hours, split, books, edits, touched>>
  BY DEF Crash, CommitFails
<1>2. PICK pc \in {"idle", "recovering"} : Drops(w, pc)
  BY DEF Crash, CommitFails, Drops, Idle
<1>3. pc \in Steps \ {"pushing", "pushed"}
  BY DEF Steps
<1>4. Listed' /\ Badge' /\ row' \in Rows
  BY <1>1, RunStays DEF BookIds, IInv
<1> QED
  BY <1>1, <1>2, <1>3, <1>4, DropKeeps

LEMMA FailureKeeps ==
  ASSUME IInv, NEW w \in Workers, RecordFailure(w)
  PROVE  IInv'
<1>1. /\ UNCHANGED <<row, hours, split, books, edits, touched>>
      /\ worker[w].pc # "pushing"
      /\ BookIds \subseteq BookIds'
      /\ Goes(w, "marking") /\ "marking" \in Steps \ {"pushing", "pushed"}
  BY DEF RecordFailure, BookIds, Steps
<1>2. Listed' /\ Badge'
  <2>1. CASE Legal(run, "POST_FAILED") /\ Moves("POST_FAILED", {})
    BY <1>1, <2>1, ListedMoves DEF Types, IInv
  <2>2. CASE UNCHANGED run
    BY <1>1, <2>2, RunStays
  <2> QED
    BY <2>1, <2>2 DEF RecordFailure, WorkerEvent
<1> QED
  BY <1>1, <1>2, WalkKeeps DEF IInv

LEMMA LeaseKeeps ==
  ASSUME IInv, LeaseExpires
  PROVE  IInv'
<1>1. UNCHANGED <<run, hours, split, books, worker, edits, touched>> /\ row' \in Rows
  BY RowChanges DEF LeaseExpires, IInv
<1>2. Ledger' /\ BooksFit' /\ BookIds' = BookIds /\ Hands' /\ Desk'
  BY <1>1, LedgerStays, HandsStay DEF IInv, Desk
<1> QED
  BY <1>1, <1>2, RunStays DEF IInv

\* A batch is read: every part of every entry is still to post.
LEMMA ReadKeeps ==
  ASSUME IInv, NEW w \in Workers, ReadBatch(w)
  PROVE  IInv'
<1> DEFINE batch == UNION {Parts(e) : e \in Entries}
           next == IF batch = {} THEN [pc |-> "recovering", todo |-> {}, got |-> {}]
                                 ELSE [pc |-> "pushing", todo |-> batch, got |-> {}]
<1>1. batch \subseteq PartRecords
  BY PartsOfEntry DEF IInv
<1>2. UNCHANGED <<run, row, hours, split, books, edits, touched>> /\ worker[w].pc = "claimed"
  BY DEF ReadBatch
<1>3. ~(run.state = "posting" /\ run.ref # {})
  BY DEF IInv, Listed
<1>4. worker' = [worker EXCEPT ![w] = next]
  BY <1>3 DEF ReadBatch
<1>5. /\ next \in Replicas
      /\ next.todo # {} <=> next.pc = "pushing"
      /\ next.got = {}
  BY <1>1 DEF Replicas, Steps
<1>6. Fits(next.todo, next.got, Batched(next.pc))
  <2>1. \A e \in Entries : \A p \in Parts(e) : p \in batch /\ p.entry = e
    BY PartsOfEntry DEF IInv
  <2>2. \A e \in Entries : \A p \in batch : p.entry = e => p \in Parts(e)
    BY <2>1
  <2>3. next.todo = batch \/ (next.todo = {} /\ ~Batched(next.pc))
    BY DEF Batched
  <2> HIDE DEF batch, next
  <2> QED
    BY <2>1, <2>2, <2>3 DEF Fits, Untouched
<1>7. Ledger' /\ BooksFit' /\ BookIds' = BookIds /\ Desk' /\ Listed' /\ Badge'
  BY <1>2, LedgerStays, RunStays DEF IInv, Desk
<1>8. Hands'
  <2> HIDE DEF batch, next
  <2> QED
    BY <1>2, <1>4, <1>5, <1>6, <1>7, HandsKept DEF IInv
<1> QED
  BY <1>2, <1>7, <1>8 DEF IInv

\* One activity reaches QuickBooks, or had reached it before.
LEMMA PostLands ==
  ASSUME IInv, NEW w \in Workers, NEW part \in worker[w].todo, books' = Post(w, part),
         UNCHANGED <<hours, split, touched>>
  PROVE  /\ Ledger' /\ BooksFit'
         /\ BookIds \subseteq BookIds'
         /\ RequestId(w, part) = <<part.entry, part.kind>>
         /\ RequestId(w, part) \in Ids \cap BookIds'
<1> DEFINE id == <<part.entry, part.kind>>
           new == [entry |-> part.entry, kind |-> part.kind, hours |-> part.hours, id |-> id]
<1>1. RequestId(w, part) = id
  BY DEF RequestId
<1>2. part \in PartRecords /\ id \in Ids
  <2>1. part \in PartRecords
    BY DEF IInv, Hands, Replicas
  <2> QED
    BY <2>1 DEF PartRecords, Ids
<1>3. new \in BookRecords
  BY <1>2 DEF PartRecords, BookRecords
<1>4. Untouched' = Untouched /\ Untouched \subseteq Entries /\ \A e \in Entries : Parts(e)' = Parts(e)
  BY SameParts DEF Untouched
<1>5. CASE \E b \in books : b.id = id
  <2>1. books' = books
    BY <1>1, <1>5 DEF Post
  <2> QED
    BY <1>1, <1>2, <1>5, <2>1, LedgerStays DEF IInv, BookIds
<1>6. CASE ~\E b \in books : b.id = id
  <2>1. books' = books \cup {new}
    BY <1>1, <1>6 DEF Post
  <2>2. Ledger'
    <3>1. new.id = <<new.entry, new.kind>> /\ new.id = id
      OBVIOUS
    <3> HIDE DEF new, id
    <3>2. \A b \in books : b.id # new.id
      BY <1>6, <3>1
    <3>3. \A b, c \in books' : b.id = c.id => b = c
      BY <2>1, <3>2 DEF IInv, Ledger
    <3> QED
      BY <1>3, <2>1, <3>1, <3>3 DEF IInv, Ledger
  <2>3. id \in BookIds' /\ BookIds \subseteq BookIds'
    <3>1. new.id = id
      OBVIOUS
    <3> HIDE DEF new, id
    <3> QED
      BY <2>1, <3>1 DEF BookIds
  <2>4. ASSUME NEW e \in Untouched, NEW b \in books', b.entry = e
        PROVE  [entry |-> e, kind |-> b.kind, hours |-> b.hours] \in Parts(e)
    <3>1. CASE b \in books
      BY <2>4, <3>1 DEF IInv, BooksFit
    <3>2. CASE b = new
      <4>1. part.entry = e /\ b.kind = part.kind /\ b.hours = part.hours
        BY <2>4, <3>2
      <4>2. part \in Parts(e)
        BY <4>1 DEF IInv, Hands, Fits
      <4>3. part = [entry |-> e, kind |-> b.kind, hours |-> b.hours]
        BY <1>2, <4>1 DEF PartRecords
      <4> QED
        BY <4>2, <4>3
    <3> QED
      BY <2>1, <3>1, <3>2
  <2>5. \A e \in Untouched' : \A b \in books' :
          b.entry = e => [entry |-> e, kind |-> b.kind, hours |-> b.hours] \in Parts(e)'
    BY <1>4, <2>4
  <2>6. BooksFit'
    BY <2>5 DEF BooksFit
  <2> QED
    BY <1>1, <1>2, <2>2, <2>3, <2>6
<1> QED
  BY <1>5, <1>6

LEMMA PostKeeps ==
  ASSUME IInv, NEW w \in Workers, PostActivity(w)
  PROVE  IInv'
<1>1. PICK part \in NextParts(w) :
        /\ books' = Post(w, part)
        /\ worker' = [worker EXCEPT ![w] =
             [ pc   |-> IF IsLast(w, part) THEN "pushed" ELSE "pushing",
               todo |-> worker[w].todo \ {part},
               got  |-> worker[w].got \cup {RequestId(w, part)} ]]
  BY DEF PostActivity
<1>2. UNCHANGED <<run, row, hours, split, edits, touched>> /\ worker[w].pc = "pushing"
  BY DEF PostActivity
<1>3. part \in worker[w].todo
  BY DEF NextParts
<1>4. /\ Ledger' /\ BooksFit' /\ BookIds \subseteq BookIds'
      /\ RequestId(w, part) = <<part.entry, part.kind>>
      /\ RequestId(w, part) \in Ids \cap BookIds'
  BY <1>1, <1>2, <1>3, PostLands
<1> DEFINE next == [ pc   |-> IF IsLast(w, part) THEN "pushed" ELSE "pushing",
                     todo |-> worker[w].todo \ {part},
                     got  |-> worker[w].got \cup {RequestId(w, part)} ]
<1>5. worker' = [worker EXCEPT ![w] = next]
  BY <1>1
<1>6. worker[w] \in Replicas /\ worker[w].got \subseteq BookIds
  BY DEF IInv, Hands
<1>7. /\ next.pc \in {"pushed", "pushing"}
      /\ next.todo = worker[w].todo \ {part}
      /\ next.got = worker[w].got \cup {RequestId(w, part)}
      /\ next.pc = "pushed" <=> next.todo = {}
  BY <1>3 DEF IsLast
<1>8. next \in Replicas
  <2>1. worker[w].todo \subseteq PartRecords /\ worker[w].got \subseteq Ids
    BY <1>6 DEF Replicas
  <2> QED
    BY <1>4, <2>1 DEF Replicas, Steps
<1> HIDE DEF next
<1>9. Fits(next.todo, next.got, Batched(next.pc))
  <2> SUFFICES ASSUME NEW e \in Untouched
               PROVE  /\ \A p \in next.todo : p.entry = e => p \in Parts(e)
                      /\ \A p \in Parts(e) : p \in next.todo \/ <<e, p.kind>> \in next.got
    BY DEF Fits
  <2>1. /\ \A p \in worker[w].todo : p.entry = e => p \in Parts(e)
        /\ \A p \in Parts(e) : p \in worker[w].todo \/ <<e, p.kind>> \in worker[w].got
    BY <1>2 DEF IInv, Hands, Fits, Batched
  <2>2. \A p \in Parts(e) : p.entry = e
    BY PartsOfEntry DEF Untouched, IInv
  <2> QED
    BY <1>4, <1>7, <2>1, <2>2
<1>10. Hands'
  BY <1>2, <1>4, <1>5, <1>6, <1>7, <1>8, <1>9, HandsKept DEF IInv
<1>11. Listed' /\ Badge' /\ Desk'
  BY <1>2, <1>4, RunStays DEF IInv, Desk
<1> QED
  BY <1>2, <1>4, <1>10, <1>11 DEF IInv

LEMMA ThrowKeeps ==
  ASSUME IInv, NEW w \in Workers, PushThrows(w)
  PROVE  IInv'
<1>1. /\ UNCHANGED <<run, row, hours, split, edits, touched>>
      /\ Drops(w, "recovering") /\ "recovering" \in Steps \ {"pushing", "pushed"}
  BY DEF PushThrows, Drops, Steps
<1>2. Ledger' /\ BooksFit' /\ BookIds \subseteq BookIds'
  <2>1. CASE books' = books
    BY <1>1, <2>1, LedgerStays DEF IInv
  <2>2. CASE \E part \in NextParts(w) : books' = Post(w, part)
    BY <1>1, <2>2, PostLands DEF NextParts
  <2> QED
    BY <2>1, <2>2 DEF PushThrows
<1>3. Hands'
  BY <1>1, <1>2, DropHands DEF IInv
<1>4. Listed' /\ Badge' /\ Desk'
  BY <1>1, <1>2, RunStays DEF IInv, Desk
<1> QED
  BY <1>1, <1>2, <1>3, <1>4 DEF IInv

\* The whole batch is in hand: the run may show posted.
LEMMA SuccessKeeps ==
  ASSUME IInv, NEW w \in Workers, CommitSuccess(w)
  PROVE  IInv'
<1>1. /\ UNCHANGED <<hours, split, books, edits, touched>> /\ BookIds \subseteq BookIds'
      /\ worker[w].pc = "pushed"
      /\ Drops(w, "idle") /\ "idle" \in Steps \ {"pushing", "pushed"}
  BY DEF CommitSuccess, Drops, Idle, Steps, BookIds
<1>2. row' \in Rows
  BY RowChanges DEF CommitSuccess, IInv
<1>3. worker[w].got \in SUBSET Ids /\ worker[w].got \subseteq BookIds /\ worker[w].todo = {}
  BY <1>1 DEF IInv, Hands, Replicas
<1>4. \A e \in Untouched : \A p \in Parts(e) : <<e, p.kind>> \in worker[w].got
  BY <1>1, <1>3 DEF IInv, Hands, Fits, Batched
<1>5. Listed' /\ Badge'
  <2>1. CASE Legal(run, "POST_SUCCEEDED") /\ Moves("POST_SUCCEEDED", worker[w].got)
    BY <1>1, <1>3, <1>4, <2>1, ListedMoves DEF Types, IInv
  <2>2. CASE UNCHANGED run
    BY <1>1, <2>2, RunStays
  <2> QED
    BY <2>1, <2>2 DEF CommitSuccess, WorkerEvent
<1> QED
  BY <1>1, <1>2, <1>5, DropKeeps

LEMMA NextIInv == IInv /\ [Next]_vars => IInv'
<1> SUFFICES ASSUME IInv, [Next]_vars PROVE IInv'
  OBVIOUS
<1>1. ASSUME NEW type \in HumanEvents, HumanEvent(type) PROVE IInv'
  BY <1>1, HumanKeeps
<1>2. ASSUME NEW e \in Entries, NEW h \in Hours \cup {0}, EditEntry(e, h) PROVE IInv'
  BY <1>2, EditKeeps
<1>3. CASE SetOvertimeItem
  BY <1>3, OvertimeKeeps
<1>4. ASSUME NEW w \in Workers, WorkerStep(w) \/ Crash(w) PROVE IInv'
  BY <1>4, SweepKeeps, AutomaticKeeps, ReadKeeps, PostKeeps, ThrowKeeps, SuccessKeeps, CrashKeeps,
     FailureKeeps DEF WorkerStep
<1>5. CASE LeaseExpires
  BY <1>5, LeaseKeeps
<1>6. CASE UNCHANGED vars
  <2>1. UNCHANGED <<run, row, hours, split, books, worker, edits, touched>>
    BY <1>6 DEF vars
  <2>2. Ledger' /\ BooksFit' /\ BookIds' = BookIds /\ Hands' /\ Desk'
    BY <2>1, LedgerStays, HandsStay DEF IInv, Desk
  <2> QED
    BY <2>1, <2>2, RunStays DEF IInv
<1> QED
  BY <1>1, <1>2, <1>3, <1>4, <1>5, <1>6 DEF Next

LEMMA InductivePayroll == Spec => []IInv
BY InitIInv, NextIInv, PTL DEF Spec

(***************************************************************************)
(* What follows.                                                           *)
(***************************************************************************)

(* Every variable keeps its type, and a replica in the middle of a batch, like
   a posted run, holds ids only of activities QuickBooks has. *)
THEOREM PayrollTypeCorrect == Spec => []TypeOK
<1>1. IInv => TypeOK
  <2> SUFFICES ASSUME IInv PROVE TypeOK
    OBVIOUS
  <2>1. run \in [ state : States, state_version : Nat \ {0},
                  approved_by : {"nobody", "user", "auto"}, auto_posted : BOOLEAN,
                  ref : SUBSET {b.id : b \in books} ]
    <3>1. run \in RunRecords /\ run.ref \in SUBSET {b.id : b \in books}
      BY DEF IInv, Listed, BookIds
    <3> QED
      BY <3>1 DEF RunRecords
  <2>2. {[entry |-> b.entry, kind |-> b.kind, hours |-> b.hours] : b \in books} \subseteq PartRecords
    <3>1. ASSUME NEW b \in BookRecords
          PROVE  [entry |-> b.entry, kind |-> b.kind, hours |-> b.hours] \in PartRecords
      BY DEF BookRecords, PartRecords
    <3> QED
      BY <3>1 DEF IInv, Ledger
  <2>3. ASSUME NEW w \in Workers
        PROVE  /\ worker[w].pc \in Steps
               /\ worker[w].todo \subseteq PartRecords
               /\ worker[w].got \subseteq {b.id : b \in books}
               /\ worker[w].todo # {} <=> worker[w].pc = "pushing"
    BY DEF IInv, Hands, Replicas, BookIds
  <2> QED
    BY <2>1, <2>2, <2>3 DEF TypeOK, IInv, Desk, Steps
<1> QED
  BY <1>1, InductivePayroll, PTL

(* A run that shows posted has paid each entry it covers in full, straight and
   overtime hours each as such, and lists every one of those activities,
   however many batches were cut short, raced or repeated before. *)
THEOREM PostedRunsPayEveryEntry == Spec => []PostedPaysEveryEntry
<1>1. IInv => PostedPaysEveryEntry
  <2> SUFFICES ASSUME IInv, run.state = "posted", NEW e \in Entries \ touched
               PROVE  /\ {<<b.kind, b.hours>> : b \in Activities(e)} = {<<p.kind, p.hours>> : p \in Parts(e)}
                      /\ \A b \in Activities(e) : b.id \in run.ref
    BY DEF PostedPaysEveryEntry
  <2>1. e \in Untouched /\ e \in Entries
    BY DEF Untouched
  <2>2. ASSUME NEW b \in Activities(e)
        PROVE  /\ \E p \in Parts(e) : p.kind = b.kind /\ p.hours = b.hours
               /\ b.id \in run.ref
    <3> DEFINE p == [entry |-> e, kind |-> b.kind, hours |-> b.hours]
    <3>1. b \in books /\ b.entry = e /\ b.id = <<b.entry, b.kind>>
      BY DEF Activities, IInv, Ledger
    <3>2. p \in Parts(e) /\ p.kind = b.kind /\ p.hours = b.hours
      BY <2>1, <3>1 DEF IInv, BooksFit
    <3>3. <<e, p.kind>> \in run.ref
      BY <2>1, <3>2 DEF IInv, Listed, PostedListsAll
    <3> QED
      BY <3>1, <3>2, <3>3
  <2>3. ASSUME NEW p \in Parts(e)
        PROVE  \E b \in Activities(e) : p.kind = b.kind /\ p.hours = b.hours
    <3>1. <<e, p.kind>> \in BookIds
      BY <2>1 DEF IInv, Listed, PostedListsAll
    <3>2. PICK b \in books : b.id = <<e, p.kind>>
      BY <3>1 DEF BookIds
    <3>3. b.entry = e /\ b.kind = p.kind
      <4>1. <<b.entry, b.kind>> = <<e, p.kind>>
        BY <3>2 DEF IInv, Ledger
      <4> QED
        BY <4>1
    <3> DEFINE q == [entry |-> e, kind |-> b.kind, hours |-> b.hours]
    <3>4. q \in Parts(e) /\ q.kind = p.kind /\ q.hours = b.hours
      BY <2>1, <3>3 DEF IInv, BooksFit
    <3>5. q = p
      BY <2>1, <3>4, PartsOfEntry DEF IInv
    <3> QED
      BY <3>3, <3>4, <3>5 DEF Activities
  <2> QED
    BY <2>2, <2>3
<1> QED
  BY <1>1, InductivePayroll, PTL

(* A run bears the auto-posted badge only if the automatic post approved it,
   whatever the office did between the tick's list and its lock. *)
THEOREM TheBadgeIsTrue == Spec => []AutoPostedWasAutoApproved
<1>1. IInv => AutoPostedWasAutoApproved
  BY DEF IInv, Badge
<1> QED
  BY <1>1, InductivePayroll, PTL
(* A posting run has a row that somebody will work, retry or look at: one is
   there, and no late outcome of an earlier attempt has passed it for applied.
   It is what the liveness property PostingIsAnswered rests on. *)
PostingIsNotApplied == run.state = "posting" => row.status \notin {"none", "applied"}

LEMMA PostingStep ==
  ASSUME IInv, PostingIsNotApplied, [Next]_vars
  PROVE  PostingIsNotApplied'
<1>1. row.status \in Live \cup {"none", "applied", "failed", "dead"} /\ row \in Rows
  BY DEF IInv, Rows
<1>2. ASSUME NEW type, NEW ids, type \in Types, Moves(type, ids)
      PROVE  run'.state = "posting" <=> type \in {"POST_REQUESTED", "AUTO_POST_REQUESTED"}
  BY <1>2 DEF Moves, Reduce, Target, Types
<1>3. ASSUME Enqueue PROVE row'.status = "pending"
  BY <1>3 DEF Enqueue
<1>4. ASSUME NEW type \in HumanEvents, HumanEvent(type) PROVE PostingIsNotApplied'
  <2>1. type \in Types \ {"AUTO_POST_REQUESTED"} /\ Moves(type, {})
    BY <1>4 DEF HumanEvent, HumanEvents, Types
  <2>2. CASE type = "POST_REQUESTED"
    BY <1>3, <1>4, <2>2 DEF HumanEvent, PostingIsNotApplied
  <2>3. CASE type # "POST_REQUESTED"
    BY <1>2, <2>1, <2>3 DEF PostingIsNotApplied
  <2> QED
    BY <2>2, <2>3
<1>5. ASSUME NEW w \in Workers, AutoApprove(w) \/ RecordFailure(w)
      PROVE  PostingIsNotApplied'
  <2>1. row' = row
    BY <1>5 DEF AutoApprove, RecordFailure
  <2>2. run' = run \/ \E type \in {"AUTO_APPROVE", "POST_FAILED"} : Moves(type, {})
    BY <1>5 DEF AutoApprove, RecordFailure, WorkerEvent
  <2>3. run' = run \/ run'.state # "posting"
    BY <1>2, <2>2 DEF Types
  <2> QED
    BY <2>1, <2>3 DEF PostingIsNotApplied
<1>6. ASSUME NEW w \in Workers, AutoPost(w) PROVE PostingIsNotApplied'
  BY <1>3, <1>6 DEF AutoPost, PostingIsNotApplied
\* A run that is still posting settles with its row.
<1>7. ASSUME NEW w \in Workers, CommitSuccess(w) PROVE PostingIsNotApplied'
  <2>1. CASE Legal(run, "POST_SUCCEEDED")
    <3>1. Moves("POST_SUCCEEDED", worker[w].got)
      BY <1>7, <2>1 DEF CommitSuccess, WorkerEvent
    <3> QED
      BY <1>2, <3>1 DEF PostingIsNotApplied, Types
  <2>2. CASE ~Legal(run, "POST_SUCCEEDED")
    <3>1. run' = run /\ run.state # "posting"
      BY <1>7, <2>2 DEF CommitSuccess, WorkerEvent, Legal, Sources
    <3> QED
      BY <3>1 DEF PostingIsNotApplied
  <2> QED
    BY <2>1, <2>2
\* The queue moves rows that are there, and applies none.
<1>8. ASSUME run' = run, row' = row \/ row'.status \in {"processing", "failed", "dead", row.status}
      PROVE  PostingIsNotApplied'
  BY <1>8 DEF PostingIsNotApplied
<1>9. ASSUME NEW w \in Workers, SweepDeadLetters(w) \/ Claim(w) \/ MarkFailed(w)
      PROVE  PostingIsNotApplied'
  <2>1. run' = run
    BY <1>9 DEF SweepDeadLetters, Claim, MarkFailed
  <2>2. row' = row \/ row'.status \in {"processing", "failed", "dead", row.status}
    BY <1>1, <1>9 DEF SweepDeadLetters, Claim, MarkFailed, Rows
  <2> QED
    BY <1>8, <2>1, <2>2
<1>10. ASSUME LeaseExpires PROVE PostingIsNotApplied'
  <2>1. run' = run /\ row'.status = row.status
    BY <1>1, <1>10 DEF LeaseExpires, Rows
  <2> QED
    BY <1>8, <2>1
<1>11. ASSUME NEW w \in Workers,
              \/ ListGenerated(w) \/ ListApproved(w) \/ ReadBatch(w) \/ PostActivity(w)
              \/ PushThrows(w) \/ CommitFails(w) \/ Crash(w)
       PROVE  PostingIsNotApplied'
  <2>1. run' = run /\ row' = row
    BY <1>11 DEF ListGenerated, ListApproved, ReadBatch, PostActivity, PushThrows, CommitFails, Crash
  <2> QED
    BY <1>8, <2>1
<1>12. ASSUME \/ \E e \in Entries, h \in Hours \cup {0} : EditEntry(e, h)
              \/ SetOvertimeItem \/ UNCHANGED vars
       PROVE  PostingIsNotApplied'
  <2>1. run' = run /\ row' = row
    BY <1>12 DEF EditEntry, SetOvertimeItem, vars
  <2> QED
    BY <1>8, <2>1
<1>13. ASSUME NEW w \in Workers, WorkerStep(w) PROVE PostingIsNotApplied'
  BY <1>5, <1>6, <1>7, <1>9, <1>11, <1>13 DEF WorkerStep
<1> QED
  BY <1>4, <1>10, <1>11, <1>12, <1>13 DEF Next

(* While a run is posting its row is in the outbox and not applied, so that
   either a replica can still claim it or it is parked as failed or dead. *)
THEOREM PostingRunsAreQueued == Spec => []PostingIsNotApplied
<1>1. Init => PostingIsNotApplied
  BY DEF Init, Initial, PostingIsNotApplied
<1> QED
  BY <1>1, InductivePayroll, PostingStep, PTL DEF Spec
-----------------------------------------------------------------------------
(* What an entry was paid: a sum over at most two activities.                *)

PaidFor(S) == LET paid(b) == b.hours IN MapThenSumSet(paid, S)

\* The equation of the fold behind MapThenSumSet.
IsSum(sum, S) ==
  sum = [s \in SUBSET S |->
           IF s = {} THEN 0 ELSE LET x == CHOOSE y \in s : TRUE IN x.hours + sum[s \ {x}]]

\* A function that satisfies the equation makes it usable.
LEMMA SumUnfolds ==
  ASSUME NEW S, NEW g, IsSum(g, S)
  PROVE  \E sum : IsSum(sum, S) /\ PaidFor(S) = sum[S]
<1>1. PaidFor(S) = (CHOOSE sum : IsSum(sum, S))[S]
  BY DEF PaidFor, MapThenSumSet, MapThenFoldSet, IsSum
<1>2. IsSum(CHOOSE sum : IsSum(sum, S), S)
  OBVIOUS
<1> QED
  BY <1>1, <1>2

LEMMA PaidForNothing == PaidFor({}) = 0
<1> DEFINE g == [s \in SUBSET {} |-> 0]
<1>1. IsSum(g, {})
  BY DEF IsSum
<1> HIDE DEF g
<1>2. PICK sum : IsSum(sum, {}) /\ PaidFor({}) = sum[{}]
  BY <1>1, SumUnfolds
<1> QED
  BY <1>2 DEF IsSum

LEMMA PaidForOne ==
  ASSUME NEW b, b.hours \in Nat
  PROVE  PaidFor({b}) = b.hours
<1> DEFINE g == [s \in SUBSET {b} |-> IF s = {} THEN 0 ELSE b.hours]
<1>1. (CHOOSE y \in {b} : TRUE) = b /\ SUBSET {b} = {{}, {b}} /\ {b} \ {b} = {}
  OBVIOUS
<1>2. IsSum(g, {b})
  BY <1>1 DEF IsSum
<1> HIDE DEF g
<1>3. PICK sum : IsSum(sum, {b}) /\ PaidFor({b}) = sum[{b}]
  BY <1>2, SumUnfolds
<1>4. sum[{}] = 0 /\ sum[{b}] = b.hours + sum[{b} \ {b}]
  BY <1>1, <1>3 DEF IsSum
<1> QED
  BY <1>1, <1>3, <1>4

LEMMA PaidForTwo ==
  ASSUME NEW b, NEW c, b # c, b.hours \in Nat, c.hours \in Nat
  PROVE  PaidFor({b, c}) = b.hours + c.hours
<1> DEFINE S == {b, c}
           g == [s \in SUBSET S |->
                   CASE s = {} -> 0 [] s = {b} -> b.hours [] s = {c} -> c.hours
                     [] OTHER -> b.hours + c.hours]
<1>1. /\ (CHOOSE y \in {b} : TRUE) = b /\ (CHOOSE y \in {c} : TRUE) = c
      /\ (CHOOSE y \in S : TRUE) \in S
      /\ {b} \ {b} = {} /\ {c} \ {c} = {} /\ S \ {b} = {c} /\ S \ {c} = {b}
  OBVIOUS
<1>2. \A s \in SUBSET S : s = {} \/ s = {b} \/ s = {c} \/ s = S
  OBVIOUS
<1>3. g[{}] = 0 /\ g[{b}] = b.hours /\ g[{c}] = c.hours /\ g[S] = b.hours + c.hours
  OBVIOUS
<1>4. IsSum(g, S)
  <2> DEFINE step(s) == IF s = {} THEN 0
                        ELSE LET x == CHOOSE y \in s : TRUE IN x.hours + g[s \ {x}]
  <2>1. ASSUME NEW s \in SUBSET S PROVE g[s] = step(s)
    <3>1. CASE s = {} \/ s = {b} \/ s = {c}
      BY <1>1, <1>3, <3>1
    <3>2. CASE s = S
      <4>1. PICK x \in S : x = CHOOSE y \in S : TRUE
        BY <1>1
      <4>2. step(S) = x.hours + g[S \ {x}]
        BY <4>1
      <4>3. x.hours + g[S \ {x}] = b.hours + c.hours
        BY <1>1, <1>3
      <4> QED
        BY <1>3, <3>2, <4>2, <4>3
    <3> QED
      BY <1>2, <3>1, <3>2
  <2>2. g = [s \in SUBSET S |-> g[s]]
    OBVIOUS
  <2> HIDE DEF g
  <2>3. g = [s \in SUBSET S |-> step(s)]
    BY <2>1, <2>2
  <2> QED
    BY <2>3 DEF IsSum
<1> HIDE DEF g
<1>5. PICK sum : IsSum(sum, S) /\ PaidFor(S) = sum[S]
  BY <1>4, SumUnfolds
<1>6. sum[{}] = 0 /\ sum[{b}] = b.hours + sum[{b} \ {b}] /\ sum[{c}] = c.hours + sum[{c} \ {c}]
  BY <1>1, <1>5 DEF IsSum
<1>7. PICK x \in S : x = CHOOSE y \in S : TRUE
  BY <1>1
<1>8. sum[S] = x.hours + sum[S \ {x}]
  BY <1>5, <1>7 DEF IsSum
<1>9. sum[{b}] = b.hours /\ sum[{c}] = c.hours
  BY <1>1, <1>6
<1>10. CASE x = b
  <2>1. sum[S] = b.hours + sum[{c}]
    BY <1>1, <1>8, <1>10
  <2> QED
    BY <1>5, <1>9, <2>1
<1>11. CASE x = c
  <2>1. sum[S] = c.hours + sum[{b}]
    BY <1>1, <1>8, <1>11
  <2> QED
    BY <1>5, <1>9, <2>1
<1> QED
  BY <1>7, <1>10, <1>11

\* QuickBooks holds of an untouched entry no activity but its parts, each at
\* most once: the id of an activity is made of its entry and its kind.
LEMMA ActivitiesAreParts ==
  ASSUME IInv, NEW e \in Untouched
  PROVE  /\ \A b \in Activities(e) :
              /\ b.hours \in Nat
              /\ [entry |-> e, kind |-> b.kind, hours |-> b.hours] \in Parts(e)
         /\ \A b, c \in Activities(e) : b.kind = c.kind => b = c
<1>1. e \in Entries /\ Desk
  BY DEF Untouched, IInv
<1>2. ASSUME NEW b \in Activities(e)
      PROVE  /\ b \in BookRecords /\ b.entry = e /\ b.id = <<e, b.kind>>
             /\ [entry |-> e, kind |-> b.kind, hours |-> b.hours] \in Parts(e)
  BY DEF Activities, IInv, Ledger, BooksFit
<1>3. ASSUME NEW b \in Activities(e), NEW c \in Activities(e), b.kind = c.kind
      PROVE  b = c
  <2> DEFINE p == [entry |-> e, kind |-> b.kind, hours |-> b.hours]
             q == [entry |-> e, kind |-> c.kind, hours |-> c.hours]
  <2>1. p \in Parts(e) /\ q \in Parts(e) /\ p.kind = q.kind
    BY <1>2, <1>3
  <2>2. p = q
    BY <1>1, <2>1, PartsOfEntry
  <2>3. b.hours = c.hours
    <3>1. p.hours = b.hours /\ q.hours = c.hours
      OBVIOUS
    <3> HIDE DEF p, q
    <3> QED
      BY <2>2, <3>1
  <2>4. /\ b \in BookRecords /\ c \in BookRecords
        /\ b.entry = c.entry /\ b.id = c.id
    BY <1>2, <1>3
  <2> QED
    BY <1>3, <2>3, <2>4 DEF BookRecords
<1>4. \A b \in Activities(e) : b.hours \in Nat
  BY <1>2 DEF BookRecords
<1> QED
  BY <1>2, <1>3, <1>4

(* QuickBooks holds at most one activity of a kind for each entry, and nobody
   is paid for more hours than worked, whatever was cut short, retried or
   raced, as long as the entry did not change behind a batch. *)
THEOREM NobodyIsOverpaid == Spec => []NothingOverpaid
<1>1. ASSUME IInv
      PROVE  \A a, b \in books : a.entry = b.entry /\ a.kind = b.kind => a = b
  BY <1>1 DEF IInv, Ledger
<1>2. ASSUME IInv, NEW e \in Entries \ touched
      PROVE  HoursPaid(e) <= hours[e]
  <2> USE <1>2
  <2> DEFINE A == Activities(e)
  <2>1. e \in Untouched /\ e \in Entries /\ hours[e] \in Nat
    BY DEF Untouched, IInv, Desk
  <2>2. HoursPaid(e) = PaidFor(A)
    BY DEF HoursPaid, PaidFor
  <2>3. /\ \A b \in A : /\ b.hours \in Nat
                        /\ [entry |-> e, kind |-> b.kind, hours |-> b.hours] \in Parts(e)
        /\ \A b, c \in A : b.kind = c.kind => b = c
    BY <2>1, ActivitiesAreParts
  <2> HIDE DEF A
  <2>4. CASE hours[e] = 0
    <3>1. Parts(e) = {}
      BY <2>1, <2>4, PartsOfEntry DEF IInv
    <3>2. A = {}
      BY <2>3, <3>1
    <3> QED
      BY <2>2, <2>4, <3>2, PaidForNothing
  <2>5. CASE hours[e] # 0 /\ ~(split /\ hours[e] > Threshold)
    <3>1. Parts(e) = {[entry |-> e, kind |-> "straight", hours |-> hours[e]]}
      BY <2>5 DEF Parts
    <3>2. \A b \in A : b.kind = "straight" /\ b.hours = hours[e]
      BY <2>3, <3>1
    <3>3. CASE A = {}
      BY <2>1, <2>2, <3>3, PaidForNothing
    <3>4. CASE A # {}
      <4>1. PICK b \in A : TRUE
        BY <3>4
      <4>2. A = {b}
        BY <2>3, <3>2, <4>1
      <4>3. PaidFor(A) = b.hours
        BY <2>3, <4>1, <4>2, PaidForOne
      <4> QED
        BY <2>1, <2>2, <3>2, <4>1, <4>3
    <3> QED
      BY <3>3, <3>4
  <2>6. CASE hours[e] # 0 /\ split /\ hours[e] > Threshold
    <3>1. Parts(e) = {[entry |-> e, kind |-> "straight", hours |-> 8],
                      [entry |-> e, kind |-> "ot", hours |-> hours[e] - 8]}
      BY <2>6 DEF Parts, Threshold
    <3>2. hours[e] > 8
      BY <2>6 DEF Threshold
    <3>3. \A b \in A : \/ b.kind = "straight" /\ b.hours = 8
                       \/ b.kind = "ot" /\ b.hours = hours[e] - 8
      BY <2>3, <3>1
    <3>4. CASE A = {}
      BY <2>1, <2>2, <3>4, PaidForNothing
    <3>5. CASE \E b \in A : A = {b}
      <4>1. PICK b \in A : A = {b}
        BY <3>5
      <4>2. PaidFor(A) = b.hours
        BY <2>3, <4>1, PaidForOne
      <4> QED
        BY <2>1, <2>2, <3>2, <3>3, <4>1, <4>2
    <3>6. CASE \E b, c \in A : b # c
      <4>1. PICK b \in A, c \in A : b # c
        BY <3>6
      <4>2. b.hours + c.hours = hours[e] /\ A = {b, c}
        <5>1. b.kind # c.kind
          BY <2>3, <4>1
        <5>2. A = {b, c}
          BY <2>3, <3>3, <4>1, <5>1
        <5>3. \/ b.hours = 8 /\ c.hours = hours[e] - 8
              \/ c.hours = 8 /\ b.hours = hours[e] - 8
          BY <3>3, <4>1, <5>1
        <5> QED
          BY <2>1, <3>2, <5>2, <5>3
      <4>3. PaidFor(A) = b.hours + c.hours
        BY <2>3, <4>1, <4>2, PaidForTwo
      <4> QED
        BY <2>1, <2>2, <4>2, <4>3
    <3> QED
      BY <3>4, <3>5, <3>6
  <2> QED
    BY <2>4, <2>5, <2>6
<1>3. IInv => NothingOverpaid
  BY <1>1, <1>2 DEF NothingOverpaid
<1> QED
  BY <1>3, InductivePayroll, PTL
=============================================================================
