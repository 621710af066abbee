-------------------------- MODULE EstimateSharesProofs --------------------------
(***************************************************************************)
(* For any number of links, replicas and attempts: a row is applied only   *)
(* after its e-mail or for a dead link, an answer given while the project  *)
(* waits always reaches it, and the project goes on showing what the link  *)
(* shows.  The two parts of the system are proved apart: the sale (links   *)
(* and lifecycle) is not disturbed by the drain, and the drain relies on   *)
(* the sale only in that a dead link stays dead.                           *)
(*                                                                         *)
(* Of the drain two counts are kept: mails and the replicas that may still *)
(* send one are no more than the attempts, and attempts stay within the    *)
(* cap, the replicas and the faults, if the cap is no lower than the       *)
(* attempts after which a failure parks a row.                             *)
(***************************************************************************)
EXTENDS EstimateShares, FiniteSetTheorems, TLAPS

(***************************************************************************)
(* The lifecycle's table.                                                  *)
(***************************************************************************)
LEMMA EventNames ==
  DOMAIN Lifecycle = { "START_ESTIMATING", "SEND", "ACCEPT", "DECLINE", "START_WORK",
                       "COMPLETE", "ARCHIVE", "REOPEN" }
BY DEF Lifecycle, Tables!ProjectLifecycle, Tables!Step

\* Only SEND makes a project wait, and a waiting project takes both answers.
LEMMA OnlySendWaits ==
  /\ \A event \in DOMAIN Lifecycle : Lifecycle[event].to = "sent" => event = "SEND"
  /\ "sent" \in Lifecycle["ACCEPT"].from /\ "sent" \in Lifecycle["DECLINE"].from
BY EventNames DEF Lifecycle, Tables!ProjectLifecycle, Tables!Step

-----------------------------------------------------------------------------
(* The sale. *)

SaleShape ==
  /\ link \in [Shares -> Links]
  /\ deal \in Shares \cup {Nobody}
  /\ deal # Nobody => link[deal].answer \in {"ACCEPT", "DECLINE"}

Sale == SaleShape /\ AnswersReachTheProject /\ ProjectShowsTheAnswer

LEMMA InitSale == Init => Sale
<1> SUFFICES ASSUME Init PROVE Sale
  OBVIOUS
<1>1. SaleShape
  BY DEF Init, SaleShape, Links
<1> QED
  BY <1>1 DEF Init, Sale, AnswersReachTheProject, ProjectShowsTheAnswer

\* A project that moves, by the office's hand or by an answer on link s.
LEMMA MovesKeeps ==
  ASSUME Sale, NEW event \in DOMAIN Lifecycle, NEW s \in Shares \cup {Nobody}, Moves(event, s),
         link' \in [Shares -> Links], event = "SEND" => Answered' = Answered,
         s # Nobody => event \in {"ACCEPT", "DECLINE"} /\ link'[s].answer = event
  PROVE  Sale'
<1>1. project' = Lifecycle[event].to /\ deal' = s
      /\ before' = IF event = "SEND" THEN Answered ELSE {}
  BY DEF Moves
<1>2. SaleShape'
  BY <1>1 DEF SaleShape
<1>3. AnswersReachTheProject'
  <2> SUFFICES ASSUME project' = "sent" PROVE Answered' \subseteq before'
    BY DEF AnswersReachTheProject
  <2>1. event = "SEND"
    BY <1>1, OnlySendWaits
  <2> QED
    BY <1>1, <2>1
<1>4. ProjectShowsTheAnswer'
  <2> SUFFICES ASSUME deal' # Nobody PROVE project' = Lifecycle'[link'[deal'].answer].to
    BY DEF ProjectShowsTheAnswer
  <2>1. deal' = s /\ link'[s].answer = event
    BY <1>1
  <2>2. Lifecycle' = Lifecycle
    BY DEF Lifecycle
  <2> QED
    BY <1>1, <2>1, <2>2
<1> QED
  BY <1>2, <1>3, <1>4 DEF Sale

\* A project that stays: no link is answered while it waits, and no answer
\* changes.
LEMMA StaysKeeps ==
  ASSUME Sale, UNCHANGED <<project, before, deal>>, link' \in [Shares -> Links],
         \A s \in Shares : link[s].answer # "none" => link'[s].answer = link[s].answer,
         project = "sent" => Answered' = Answered
  PROVE  Sale'
<1>1. SaleShape'
  BY DEF Sale, SaleShape
<1>2. AnswersReachTheProject'
  BY DEF Sale, AnswersReachTheProject
<1>3. ProjectShowsTheAnswer'
  <2> SUFFICES ASSUME deal' # Nobody PROVE project' = Lifecycle'[link'[deal'].answer].to
    BY DEF ProjectShowsTheAnswer
  <2>1. deal \in Shares /\ deal' = deal /\ link'[deal].answer = link[deal].answer
    BY DEF Sale, SaleShape
  <2>2. project = Lifecycle[link[deal].answer].to
    BY <2>1 DEF Sale, ProjectShowsTheAnswer
  <2>3. Lifecycle' = Lifecycle
    BY DEF Lifecycle
  <2> QED
    BY <2>1, <2>2, <2>3
<1> QED
  BY <1>1, <1>2, <1>3 DEF Sale

\* A link changes in all but its answer.
LEMMA LinkChanges ==
  ASSUME NEW s \in Shares, link \in [Shares -> Links], NEW new \in Links,
         link' = [link EXCEPT ![s] = new], new.answer = link[s].answer
  PROVE  /\ link' \in [Shares -> Links]
         /\ \A q \in Shares : link'[q].answer = link[q].answer
         /\ Answered' = Answered
<1>1. link' \in [Shares -> Links] /\ \A q \in Shares : link'[q].answer = link[q].answer
  OBVIOUS
<1> QED
  BY <1>1 DEF Answered

LEMMA CreateKeeps ==
  ASSUME Sale, NEW s \in Shares, Create(s)
  PROVE  Sale'
<1> DEFINE new == [link[s] EXCEPT !.status = "sent"]
<1>1. link \in [Shares -> Links]
  BY DEF Sale, SaleShape
<1>2. new \in Links /\ new.answer = link[s].answer /\ link' = [link EXCEPT ![s] = new]
  BY <1>1 DEF Links, Create
<1> HIDE DEF new
<1>3. /\ link' \in [Shares -> Links] /\ Answered' = Answered
      /\ \A q \in Shares : link'[q].answer = link[q].answer
  BY <1>1, <1>2, LinkChanges
<1>4. CASE Moves("SEND", Nobody)
  BY <1>3, <1>4, EventNames, MovesKeeps
<1>5. CASE Stays
  BY <1>3, <1>5, StaysKeeps DEF Stays
<1> QED
  BY <1>4, <1>5 DEF Create, MaybeApply

LEMMA ClosingKeeps ==
  ASSUME Sale, NEW s \in Shares, Revoke(s) \/ Expire(s)
  PROVE  Sale'
<1>1. link \in [Shares -> Links] /\ UNCHANGED <<project, before, deal>>
  BY DEF Sale, SaleShape, Revoke, Expire
<1>2. PICK new \in Links : new.answer = link[s].answer /\ link' = [link EXCEPT ![s] = new]
  <2>1. CASE Revoke(s)
    <3> DEFINE x == [link[s] EXCEPT !.status = "revoked", !.gone = TRUE]
    <3>1. x \in Links /\ x.answer = link[s].answer /\ link' = [link EXCEPT ![s] = x]
      BY <1>1, <2>1 DEF Revoke, Links
    <3> HIDE DEF x
    <3> QED
      BY <3>1
  <2>2. CASE Expire(s)
    <3> DEFINE x == [link[s] EXCEPT !.gone = TRUE]
    <3>1. x \in Links /\ x.answer = link[s].answer /\ link' = [link EXCEPT ![s] = x]
      BY <1>1, <2>2 DEF Expire, Links
    <3> HIDE DEF x
    <3> QED
      BY <3>1
  <2> QED
    BY <2>1, <2>2
<1>3. /\ link' \in [Shares -> Links] /\ Answered' = Answered
      /\ \A q \in Shares : link'[q].answer = link[q].answer
  BY <1>1, <1>2, LinkChanges
<1> QED
  BY <1>1, <1>3, StaysKeeps

\* A first answer moves a project that waits; otherwise the project stays.
LEMMA AnswerKeeps ==
  ASSUME Sale, NEW s \in Shares, NEW event \in {"ACCEPT", "DECLINE"}, Answer(s, event)
  PROVE  Sale'
<1> DEFINE new == [link[s] EXCEPT !.answer = event]
<1>1. link \in [Shares -> Links] /\ link[s].answer = "none"
  BY DEF Sale, SaleShape, Answer, Open
<1>2. new \in Links /\ new.answer = event /\ link' = [link EXCEPT ![s] = new]
  BY <1>1 DEF Links, Answer
<1> HIDE DEF new
<1>3. /\ link' \in [Shares -> Links] /\ link'[s].answer = event
      /\ \A q \in Shares : link[q].answer # "none" => link'[q].answer = link[q].answer
  BY <1>1, <1>2
<1>4. event \in DOMAIN Lifecycle /\ event # "SEND" /\ s # Nobody
  BY EventNames, ShareAssumption
<1>5. CASE Moves(event, s)
  BY <1>3, <1>4, <1>5, MovesKeeps
<1>6. CASE Stays /\ project \notin Lifecycle[event].from
  <2>1. project # "sent"
    BY <1>6, OnlySendWaits
  <2> QED
    BY <1>3, <1>6, <2>1, StaysKeeps DEF Stays
<1> QED
  BY <1>5, <1>6 DEF Answer, MaybeApply

LEMMA StaffKeeps ==
  ASSUME Sale, NEW event \in DOMAIN Lifecycle, StaffEvent(event)
  PROVE  Sale'
<1>1. link' = link /\ link \in [Shares -> Links] /\ Moves(event, Nobody) /\ Answered' = Answered
  BY DEF Sale, SaleShape, StaffEvent, Answered
<1> QED
  BY <1>1, MovesKeeps

\* The drain and the clock leave the sale alone.
LEMMA UndisturbedKeeps ==
  ASSUME Sale, UNCHANGED sales
  PROVE  Sale'
<1>1. link' = link /\ UNCHANGED <<project, before, deal>>
  BY DEF sales
<1> QED
  BY <1>1, StaysKeeps DEF Sale, SaleShape, Answered

LEMMA NextSale == Sale /\ [Next]_vars => Sale'
<1> SUFFICES ASSUME Sale, [Next]_vars PROVE Sale'
  OBVIOUS
<1>1. ASSUME NEW s \in Shares, Create(s) \/ Revoke(s) \/ Expire(s)
                               \/ Answer(s, "ACCEPT") \/ Answer(s, "DECLINE")
      PROVE  Sale'
  BY <1>1, CreateKeeps, ClosingKeeps, AnswerKeeps
<1>2. ASSUME NEW event \in DOMAIN Lifecycle, StaffEvent(event)
      PROVE  Sale'
  BY <1>2, StaffKeeps
<1>3. ASSUME NEW w \in Workers, WorkerStep(w) \/ Crash(w)
      PROVE  Sale'
  <2>1. UNCHANGED sales
    BY <1>3 DEF WorkerStep, Sweep, SweepFails, Claim, ReadShare, SendEmail, SendFails, CommitRow,
                CommitFails, RecordFailure, Crash
  <2> QED
    BY <2>1, UndisturbedKeeps
<1>4. ASSUME NEW s \in Shares, BecomesDue(s)
      PROVE  Sale'
  BY <1>4, UndisturbedKeeps DEF BecomesDue
<1>5. CASE UNCHANGED vars
  BY <1>5, UndisturbedKeeps DEF vars, sales
<1> QED
  BY <1>1, <1>2, <1>3, <1>4, <1>5 DEF Next

(***************************************************************************)
(* A waiting project has overlooked no answer, whatever links there are    *)
(* and whoever creates, revokes, answers or marks them.                    *)
(***************************************************************************)
THEOREM NoAnswerIsOverlooked == Spec => []AnswersReachTheProject
<1>1. Sale => AnswersReachTheProject
  BY DEF Sale
<1> QED
  BY <1>1, InitSale, NextSale, PTL DEF Spec

(***************************************************************************)
(* A project moved by a customer shows the answer of the link that moved   *)
(* it for as long as it stays there.                                       *)
(***************************************************************************)
THEOREM TheProjectShowsTheAnswer == Spec => []ProjectShowsTheAnswer
<1>1. Sale => ProjectShowsTheAnswer
  BY DEF Sale
<1> QED
  BY <1>1, InitSale, NextSale, PTL DEF Spec
-----------------------------------------------------------------------------
(* The drain. *)

Delivered(s) == mailed[s] > 0 \/ link[s].gone

DeliveredNext(s) == mailed'[s] > 0 \/ link'[s].gone

DrainShape ==
  /\ row \in [Shares -> Rows]
  /\ worker \in [Workers -> Replicas]
  /\ mailed \in [Shares -> Nat]
  /\ link \in [Shares -> Links]

\* A replica in a row's work has a share, delivered once it is past sending.
WorkIsDone ==
  \A w \in Workers :
    /\ worker[w].pc \in {"sending", "sent", "failing"} => worker[w].share \in Shares
    /\ worker[w].pc = "sent" => Delivered(worker[w].share)

Drain == DrainShape /\ WorkIsDone /\ AppliedWasMailed

\* What a delivery may not lose.
Delivers == \A s \in Shares : Delivered(s) => DeliveredNext(s)

LEMMA InitDrain == Init => Drain
<1> SUFFICES ASSUME Init PROVE Drain
  OBVIOUS
<1>1. Idle \in Replicas /\ Idle.pc = "idle"
  BY DEF Idle, Replicas
<1>2. DrainShape
  BY <1>1 DEF Init, DrainShape, Links, Rows, Queue
<1> QED
  BY <1>1, <1>2 DEF Init, Drain, WorkIsDone, AppliedWasMailed

\* No row is applied but one whose work was done, and deliveries last.
LEMMA DrainFromParts ==
  ASSUME Drain, Delivers, DrainShape', WorkIsDone',
         \A s \in Shares : row'[s].status = "applied" =>
                             row[s].status = "applied" \/ Delivered(s)
  PROVE  Drain'
BY DEF Drain, Delivers, AppliedWasMailed, Delivered, DeliveredNext

\* One replica goes on to x.
LEMMA ReplicaMoves ==
  ASSUME Drain, Delivers, NEW w \in Workers, NEW x \in Replicas,
         worker' = [worker EXCEPT ![w] = x],
         x.pc \in {"sending", "sent", "failing"} => x.share \in Shares,
         x.pc = "sent" => DeliveredNext(x.share)
  PROVE  worker' \in [Workers -> Replicas] /\ WorkIsDone'
<1>1. worker \in [Workers -> Replicas] /\ WorkIsDone
  BY DEF Drain, DrainShape
<1>2. /\ worker' \in [Workers -> Replicas] /\ worker'[w] = x
      /\ \A v \in Workers \ {w} : worker'[v] = worker[v]
  BY <1>1
<1>3. ASSUME NEW v \in Workers
      PROVE  /\ worker'[v].pc \in {"sending", "sent", "failing"} => worker'[v].share \in Shares
             /\ worker'[v].pc = "sent" => DeliveredNext(worker'[v].share)
  <2>1. CASE v = w
    BY <1>2, <2>1
  <2>2. CASE v # w
    <3>1. worker'[v] = worker[v]
      BY <1>2, <2>2
    <3>2. worker[v].pc = "sent" => worker[v].share \in Shares /\ Delivered(worker[v].share)
      BY <1>1 DEF WorkIsDone
    <3> QED
      BY <1>1, <3>1, <3>2 DEF WorkIsDone, Delivers
  <2> QED
    BY <2>1, <2>2
<1> QED
  BY <1>2, <1>3 DEF WorkIsDone, Delivered, DeliveredNext

LEMMA SameDeliveries ==
  ASSUME UNCHANGED <<mailed, link>>
  PROVE  Delivers
BY DEF Delivers, Delivered, DeliveredNext

LEMMA RestIsAReplica ==
  ASSUME NEW batch \in SUBSET Shares
  PROVE  Rest(batch) \in Replicas /\ Rest(batch).pc \in {"idle", "rows"}
BY DEF Rest, Idle, Replicas

\* A replica's step that writes no row, sends nothing and changes no link.
LEMMA PlaceKeeps ==
  ASSUME Drain, UNCHANGED <<row, mailed, link>>, NEW w \in Workers, NEW x \in Replicas,
         worker' = [worker EXCEPT ![w] = x],
         x.pc \in {"sending", "sent", "failing"} => x.share \in Shares,
         x.pc = "sent" => Delivered(x.share)
  PROVE  Drain'
<1>1. Delivers
  BY SameDeliveries
<1>2. x.pc = "sent" => DeliveredNext(x.share)
  BY DEF Delivered, DeliveredNext
<1>3. worker' \in [Workers -> Replicas] /\ WorkIsDone'
  BY <1>1, <1>2, ReplicaMoves
<1>4. DrainShape'
  BY <1>3 DEF Drain, DrainShape
<1> QED
  BY <1>1, <1>3, <1>4, DrainFromParts

LEMMA SweepKeeps ==
  ASSUME Drain, NEW w \in Workers, Sweep(w) \/ SweepFails(w)
  PROVE  Drain'
<1> DEFINE x == [worker[w] EXCEPT !.pc = "swept"]
<1>1. worker \in [Workers -> Replicas] /\ row \in [Shares -> Rows]
      /\ UNCHANGED <<mailed, link>>
  BY DEF Drain, DrainShape, Sweep, SweepFails, sales
<1>2. x \in Replicas /\ x.pc = "swept" /\ worker' = [worker EXCEPT ![w] = x]
  BY <1>1 DEF Replicas, Sweep, SweepFails
<1> HIDE DEF x
<1>3. CASE SweepFails(w)
  BY <1>1, <1>2, <1>3, PlaceKeeps DEF SweepFails
<1>4. CASE Sweep(w)
  <2>1. Delivers
    BY <1>1, SameDeliveries
  <2>2. worker' \in [Workers -> Replicas] /\ WorkIsDone'
    BY <1>2, <2>1, ReplicaMoves
  <2>3. ASSUME NEW s \in Shares
        PROVE  row'[s] \in Rows /\ (row'[s].status = "applied" => row[s].status = "applied")
    <3>1. row[s] \in Rows
      BY <1>1
    <3>2. CASE Retirable(s)
      <4>1. row'[s] = [row[s] EXCEPT !.status = "dead"]
        BY <1>4, <3>2 DEF Sweep
      <4> QED
        BY <3>1, <4>1 DEF Rows
    <3>3. CASE ~Retirable(s)
      BY <1>4, <3>1, <3>3 DEF Sweep
    <3> QED
      BY <3>2, <3>3
  <2>4. row' \in [Shares -> Rows]
    BY <1>4, <2>3 DEF Sweep
  <2>5. DrainShape'
    BY <1>1, <2>2, <2>4 DEF Drain, DrainShape
  <2> QED
    BY <2>1, <2>2, <2>3, <2>5, DrainFromParts
<1> QED
  BY <1>3, <1>4

LEMMA ClaimKeeps ==
  ASSUME Drain, NEW w \in Workers, Claim(w)
  PROVE  Drain'
<1>1. worker \in [Workers -> Replicas] /\ row \in [Shares -> Rows]
      /\ UNCHANGED <<mailed, link>>
  BY DEF Drain, DrainShape, Claim, sales
<1>2. PICK batch \in SUBSET {s \in Shares : Claimable(s)} :
        /\ row' = [s \in Shares |->
                     IF s \in batch
                     THEN [status |-> "processing", attempts |-> row[s].attempts + 1, due |-> FALSE]
                     ELSE row[s]]
        /\ worker' = [worker EXCEPT ![w] = Rest(batch)]
  BY DEF Claim
<1>3. Delivers
  BY <1>1, SameDeliveries
<1>4. worker' \in [Workers -> Replicas] /\ WorkIsDone'
  BY <1>2, <1>3, RestIsAReplica, ReplicaMoves
<1>5. ASSUME NEW s \in Shares
      PROVE  row'[s] \in Rows /\ (row'[s].status = "applied" => row[s].status = "applied")
  <2>1. row[s] \in Rows /\ row[s].attempts + 1 \in Nat
    BY <1>1 DEF Rows
  <2>2. [status |-> "processing", attempts |-> row[s].attempts + 1, due |-> FALSE] \in Rows
    BY <2>1 DEF Rows, Queue
  <2>3. CASE s \in batch
    <3>1. row'[s] = [status |-> "processing", attempts |-> row[s].attempts + 1, due |-> FALSE]
      BY <1>2, <2>3
    <3> QED
      BY <2>2, <3>1
  <2>4. CASE s \notin batch
    BY <1>2, <2>1, <2>4
  <2> QED
    BY <2>3, <2>4
<1>6. row' \in [Shares -> Rows]
  BY <1>2, <1>5
<1>7. DrainShape'
  BY <1>1, <1>4, <1>6 DEF Drain, DrainShape
<1> QED
  BY <1>3, <1>4, <1>5, <1>7, DrainFromParts

\* The guard's read: past sending only for a link that is dead.
LEMMA ReadKeeps ==
  ASSUME Drain, NEW w \in Workers, ReadShare(w)
  PROVE  Drain'
<1>1. PICK s \in worker[w].batch : Works(w, s, IF link[s].gone THEN "sent" ELSE "sending")
  BY DEF ReadShare
<1> DEFINE pc == IF link[s].gone THEN "sent" ELSE "sending"
           x == [pc |-> pc, batch |-> worker[w].batch \ {s}, share |-> s]
<1>2. worker[w] \in Replicas /\ s \in Shares
  BY <1>1 DEF Drain, DrainShape, Replicas
<1>3. x \in Replicas /\ x.pc = pc /\ x.share = s /\ worker' = [worker EXCEPT ![w] = x]
  BY <1>1, <1>2 DEF Works, Replicas
<1>4. pc = "sent" => Delivered(s)
  BY DEF Delivered
<1>5. UNCHANGED <<row, mailed, link>>
  BY DEF ReadShare, sales
<1> HIDE DEF x, pc
<1> QED
  BY <1>2, <1>3, <1>4, <1>5, PlaceKeeps

\* The provider takes the message, or throws with or without having taken it.
LEMMA SendKeeps ==
  ASSUME Drain, NEW w \in Workers, SendEmail(w) \/ SendFails(w)
  PROVE  Drain'
<1> DEFINE s == worker[w].share
           sent == [mailed EXCEPT ![s] = mailed[s] + 1]
<1>1. /\ worker \in [Workers -> Replicas] /\ mailed \in [Shares -> Nat] /\ s \in Shares
      /\ UNCHANGED <<row, link>>
  BY DEF Drain, DrainShape, WorkIsDone, SendEmail, SendFails, sales
<1>2. sent \in [Shares -> Nat] /\ sent[s] > 0 /\ \A q \in Shares : sent[q] >= mailed[q]
  BY <1>1
<1>3. mailed' \in {mailed, sent} /\ (SendEmail(w) => mailed' = sent)
  BY <1>1 DEF SendEmail, SendFails
<1> HIDE DEF sent
<1>4. mailed' \in [Shares -> Nat] /\ \A q \in Shares : mailed'[q] >= mailed[q]
  BY <1>1, <1>2, <1>3
<1>5. Delivers
  BY <1>1, <1>4 DEF Delivers, Delivered, DeliveredNext
<1>6. PICK x \in Replicas : /\ worker' = [worker EXCEPT ![w] = x] /\ x.share = s
                            /\ x.pc = IF SendEmail(w) THEN "sent" ELSE "failing"
  <2> DEFINE pc == IF SendEmail(w) THEN "sent" ELSE "failing"
             y == [worker[w] EXCEPT !.pc = pc]
  <2>1. pc \in {"sent", "failing"}
    OBVIOUS
  <2>2. worker' = [worker EXCEPT ![w] = y]
    <3>1. worker' = [worker EXCEPT ![w].pc = pc]
      BY DEF SendEmail, SendFails, Throws, Goes
    <3> QED
      BY <1>1, <3>1
  <2> HIDE DEF pc
  <2>3. y \in Replicas /\ y.share = s /\ y.pc = pc
    BY <1>1, <2>1 DEF Replicas
  <2> HIDE DEF y
  <2> QED
    BY <2>2, <2>3 DEF pc
<1>7. x.pc = "sent" => DeliveredNext(x.share)
  BY <1>2, <1>3, <1>6 DEF DeliveredNext
<1>8. worker' \in [Workers -> Replicas] /\ WorkIsDone'
  BY <1>1, <1>5, <1>6, <1>7, ReplicaMoves
<1>9. DrainShape'
  BY <1>1, <1>4, <1>8 DEF Drain, DrainShape
<1> QED
  BY <1>1, <1>5, <1>8, <1>9, DrainFromParts

\* The row's outcome, good or bad, and on to the next row.
LEMMA OutcomeKeeps ==
  ASSUME Drain, NEW w \in Workers, CommitRow(w) \/ RecordFailure(w)
  PROVE  Drain'
<1> DEFINE s == worker[w].share
<1>1. /\ worker \in [Workers -> Replicas] /\ row \in [Shares -> Rows]
      /\ s \in Shares /\ row[s] \in Rows /\ UNCHANGED <<mailed, link>>
  BY DEF Drain, DrainShape, WorkIsDone, CommitRow, RecordFailure, sales
<1>2. Delivers
  BY <1>1, SameDeliveries
<1>3. worker' = [worker EXCEPT ![w] = Rest(worker[w].batch)] /\ worker[w].batch \in SUBSET Shares
  BY <1>1 DEF CommitRow, RecordFailure, NextRow, Replicas
<1>4. worker' \in [Workers -> Replicas] /\ WorkIsDone'
  BY <1>2, <1>3, RestIsAReplica, ReplicaMoves
<1>5. PICK new \in Rows : /\ row' = [row EXCEPT ![s] = new]
                          /\ new.status = "applied" => row[s].status = "applied" \/ Delivered(s)
  <2>1. CASE CommitRow(w)
    <3> DEFINE y == [row[s] EXCEPT !.status = "applied"]
    <3>1. y \in Rows /\ row' = [row EXCEPT ![s] = y] /\ Delivered(s)
      BY <1>1, <2>1 DEF CommitRow, Rows, Drain, WorkIsDone
    <3> HIDE DEF y
    <3> QED
      BY <3>1
  <2>2. CASE RecordFailure(w)
    <3>1. Parked(s) \in Rows /\ Parked(s).status # "applied"
      BY <1>1 DEF Parked, Rows, Queue
    <3>2. row = [row EXCEPT ![s] = row[s]]
      BY <1>1
    <3>3. row' = row \/ row' = [row EXCEPT ![s] = Parked(s)]
      BY <2>2 DEF RecordFailure
    <3> QED
      BY <1>1, <3>1, <3>2, <3>3
  <2> QED
    BY <2>1, <2>2
<1>6. /\ row' \in [Shares -> Rows]
      /\ \A q \in Shares : row'[q].status = "applied" => row[q].status = "applied" \/ Delivered(q)
  BY <1>1, <1>5
<1>7. DrainShape'
  BY <1>1, <1>4, <1>6 DEF Drain, DrainShape
<1> QED
  BY <1>2, <1>4, <1>6, <1>7, DrainFromParts

LEMMA GiveUpKeeps ==
  ASSUME Drain, NEW w \in Workers, CommitFails(w) \/ Crash(w)
  PROVE  Drain'
<1>1. worker \in [Workers -> Replicas] /\ UNCHANGED <<row, mailed, link>>
  BY DEF Drain, DrainShape, CommitFails, Crash, sales
<1>2. CASE CommitFails(w)
  <2> DEFINE x == [worker[w] EXCEPT !.pc = "failing"]
  <2>1. x \in Replicas /\ x.pc = "failing" /\ x.share = worker[w].share
        /\ worker' = [worker EXCEPT ![w] = x]
    BY <1>1, <1>2 DEF CommitFails, Goes, Replicas
  <2>2. worker[w].share \in Shares
    BY <1>2 DEF CommitFails, Drain, WorkIsDone
  <2> HIDE DEF x
  <2> QED
    BY <1>1, <2>1, <2>2, PlaceKeeps
<1>3. CASE Crash(w)
  <2>1. Idle \in Replicas /\ Idle.pc = "idle" /\ worker' = [worker EXCEPT ![w] = Idle]
    BY <1>3 DEF Idle, Replicas, Crash
  <2> QED
    BY <1>1, <2>1, PlaceKeeps
<1> QED
  BY <1>2, <1>3

\* The office, the customer and the clock: a dead link stays dead, and no row
\* is applied by them.
LEMMA OutsideKeeps ==
  ASSUME Drain, UNCHANGED <<worker, mailed>>, row' \in [Shares -> Rows],
         link' \in [Shares -> Links],
         \A s \in Shares : link[s].gone => link'[s].gone,
         \A s \in Shares : row'[s].status = "applied" => row[s].status = "applied"
  PROVE  Drain'
<1>1. Delivers
  BY DEF Delivers, Delivered, DeliveredNext
<1>2. DrainShape'
  BY DEF Drain, DrainShape
<1>3. WorkIsDone'
  <2>1. ASSUME NEW w \in Workers, worker[w].pc = "sent"
        PROVE  DeliveredNext(worker[w].share)
    BY <1>1, <2>1 DEF Drain, WorkIsDone, Delivers
  <2> QED
    BY <2>1 DEF Drain, WorkIsDone, Delivered, DeliveredNext
<1> QED
  BY <1>1, <1>2, <1>3, DrainFromParts

LEMMA RequestsKeep ==
  ASSUME Drain, NEW s \in Shares,
         Create(s) \/ Revoke(s) \/ Expire(s) \/ Answer(s, "ACCEPT") \/ Answer(s, "DECLINE")
         \/ BecomesDue(s)
  PROVE  Drain'
<1>1. row \in [Shares -> Rows] /\ link \in [Shares -> Links]
      /\ row[s] \in Rows /\ link[s] \in Links /\ UNCHANGED <<worker, mailed>>
  BY DEF Drain, DrainShape, Create, Revoke, Expire, Answer, BecomesDue
<1>2. PICK new \in Links : /\ link' = [link EXCEPT ![s] = new]
                           /\ link[s].gone => new.gone
  <2>1. ASSUME NEW status \in {"none", "sent", "revoked"}, NEW gone \in BOOLEAN,
               NEW answer \in {"none", "ACCEPT", "DECLINE"}
        PROVE  [status |-> status, gone |-> gone, answer |-> answer] \in Links
    BY DEF Links
  <2>2. link[s] = [status |-> link[s].status, gone |-> link[s].gone, answer |-> link[s].answer]
    BY <1>1 DEF Links
  <2>3. CASE Create(s)
    <3> DEFINE y == [link[s] EXCEPT !.status = "sent"]
    <3>1. y \in Links /\ y.gone = link[s].gone /\ link' = [link EXCEPT ![s] = y]
      BY <1>1, <2>3 DEF Links, Create
    <3> HIDE DEF y
    <3> QED
      BY <3>1
  <2>4. CASE Revoke(s)
    <3> DEFINE y == [link[s] EXCEPT !.status = "revoked", !.gone = TRUE]
    <3>1. y \in Links /\ y.gone /\ link' = [link EXCEPT ![s] = y]
      BY <1>1, <2>4 DEF Links, Revoke
    <3> HIDE DEF y
    <3> QED
      BY <3>1
  <2>5. CASE Expire(s)
    <3> DEFINE y == [link[s] EXCEPT !.gone = TRUE]
    <3>1. y \in Links /\ y.gone /\ link' = [link EXCEPT ![s] = y]
      BY <1>1, <2>5 DEF Links, Expire
    <3> HIDE DEF y
    <3> QED
      BY <3>1
  <2>6. ASSUME NEW event \in {"ACCEPT", "DECLINE"}, Answer(s, event)
        PROVE  \E new \in Links : link' = [link EXCEPT ![s] = new] /\ (link[s].gone => new.gone)
    <3> DEFINE y == [link[s] EXCEPT !.answer = event]
    <3>1. y \in Links /\ y.gone = link[s].gone /\ link' = [link EXCEPT ![s] = y]
      BY <1>1, <2>6 DEF Links, Answer
    <3> HIDE DEF y
    <3> QED
      BY <3>1
  <2>7. CASE BecomesDue(s)
    <3>1. link' = [link EXCEPT ![s] = link[s]]
      BY <1>1, <2>7 DEF BecomesDue, sales
    <3> QED
      BY <1>1, <3>1
  <2> QED
    BY <2>3, <2>4, <2>5, <2>6, <2>7
<1>3. PICK fresh \in Rows : /\ row' = [row EXCEPT ![s] = fresh]
                            /\ fresh.status = "applied" => row[s].status = "applied"
  <2>1. CASE Create(s)
    <3> DEFINE y == [status |-> "pending", attempts |-> 0, due |-> TRUE]
    <3>1. y \in Rows /\ y.status = "pending" /\ row' = [row EXCEPT ![s] = y]
      BY <1>1, <2>1 DEF Rows, Queue, Create
    <3> HIDE DEF y
    <3> QED
      BY <3>1
  <2>2. CASE BecomesDue(s)
    <3> DEFINE y == [row[s] EXCEPT !.due = TRUE]
    <3>1. y \in Rows /\ y.status = row[s].status /\ row' = [row EXCEPT ![s] = y]
      BY <1>1, <2>2 DEF Rows, BecomesDue
    <3> HIDE DEF y
    <3> QED
      BY <3>1
  <2>3. CASE row' = row
    <3>1. row' = [row EXCEPT ![s] = row[s]]
      BY <1>1, <2>3
    <3> QED
      BY <1>1, <3>1
  <2> QED
    BY <2>1, <2>2, <2>3 DEF Revoke, Expire, Answer
<1>4. /\ row' \in [Shares -> Rows] /\ link' \in [Shares -> Links]
      /\ \A q \in Shares : link[q].gone => link'[q].gone
      /\ \A q \in Shares : row'[q].status = "applied" => row[q].status = "applied"
  BY <1>1, <1>2, <1>3
<1> QED
  BY <1>1, <1>4, OutsideKeeps

LEMMA NextDrain == Drain /\ [Next]_vars => Drain'
<1> SUFFICES ASSUME Drain, [Next]_vars PROVE Drain'
  OBVIOUS
<1>1. ASSUME NEW s \in Shares,
             Create(s) \/ Revoke(s) \/ Expire(s) \/ Answer(s, "ACCEPT") \/ Answer(s, "DECLINE")
             \/ BecomesDue(s)
      PROVE  Drain'
  BY <1>1, RequestsKeep
<1>2. ASSUME NEW w \in Workers, WorkerStep(w) \/ Crash(w)
      PROVE  Drain'
  <2>1. CASE Sweep(w) \/ SweepFails(w)
    BY <2>1, SweepKeeps
  <2>2. CASE Claim(w)
    BY <2>2, ClaimKeeps
  <2>3. CASE ReadShare(w)
    BY <2>3, ReadKeeps
  <2>4. CASE SendEmail(w) \/ SendFails(w)
    BY <2>4, SendKeeps
  <2>5. CASE CommitRow(w) \/ RecordFailure(w)
    BY <2>5, OutcomeKeeps
  <2>6. CASE CommitFails(w) \/ Crash(w)
    BY <2>6, GiveUpKeeps
  <2> QED
    BY <1>2, <2>1, <2>2, <2>3, <2>4, <2>5, <2>6 DEF WorkerStep
<1>3. CASE UNCHANGED <<link, row, worker, mailed>>
  BY <1>3, OutsideKeeps DEF Drain, DrainShape
<1>4. ASSUME NEW event \in DOMAIN Lifecycle, StaffEvent(event)
      PROVE  Drain'
  BY <1>3, <1>4 DEF StaffEvent
<1>5. CASE UNCHANGED vars
  BY <1>3, <1>5 DEF vars
<1> QED
  BY <1>1, <1>2, <1>4, <1>5 DEF Next

(***************************************************************************)
(* The e-mail behind a row marked applied was sent, unless its link was    *)
(* dead, for any number of replicas, attempts and lapsed leases.           *)
(***************************************************************************)
THEOREM AppliedRowsWereMailed == Spec => []AppliedWasMailed
<1>1. Drain => AppliedWasMailed
  BY DEF Drain
<1> QED
  BY <1>1, InitDrain, NextDrain, PTL DEF Spec
-----------------------------------------------------------------------------
(* The count of e-mails.  A row may be claimed again while a replica whose   *)
(* lease has lapsed still has it to send, so that mailed <= attempts is not  *)
(* inductive: each replica that has yet to send a link counts against the    *)
(* attempts too.                                                             *)

Bit(b) == IF b THEN 1 ELSE 0

\* A replica in this place has yet to send s.
Holds(x, s) == s \in x.batch \/ (x.pc = "sending" /\ x.share = s)

Holders(s) == {w \in Workers : Holds(worker[w], s)}

MailsAndHolders == \A s \in Shares : mailed[s] + Cardinality(Holders(s)) <= row[s].attempts

\* A replica that rests has no rows, and the row in work is out of its batch.
Orderly ==
  \A w \in Workers :
    /\ worker[w].pc \in {"idle", "swept"} => worker[w].batch = {}
    /\ worker[w].pc \in {"sending", "sent", "failing"} => worker[w].share \notin worker[w].batch

\* A link not created yet has no row, no e-mail and no replica at work on it.
Unheard(s) ==
  /\ row[s].status = "none"
  /\ mailed[s] = 0
  /\ \A w \in Workers : /\ s \notin worker[w].batch
                        /\ worker[w].pc \in {"sending", "sent", "failing"} => worker[w].share # s

NewIsUnheard == \A s \in Shares : link[s].status = "none" => Unheard(s)

Mails == Orderly /\ NewIsUnheard /\ MailsAndHolders

\* Two sets of replicas that differ in w at most.
LEMMA Recount ==
  ASSUME IsFiniteSet(Workers), NEW w \in Workers, NEW S \in SUBSET Workers, NEW T \in SUBSET Workers,
         \A v \in Workers \ {w} : v \in S <=> v \in T
  PROVE  /\ Cardinality(S) \in Nat
         /\ Cardinality(T) = Cardinality(S) + Bit(w \in T) - Bit(w \in S)
<1>1. IsFiniteSet(S) /\ IsFiniteSet(T) /\ Cardinality(S) \in Nat /\ Cardinality(T) \in Nat
  BY FS_Subset, FS_CardinalityType
<1>2. CASE w \in T /\ w \notin S
  <2>1. T = S \cup {w}
    BY <1>2
  <2> QED
    BY <1>1, <1>2, <2>1, FS_AddElement DEF Bit
<1>3. CASE w \notin T /\ w \in S
  <2>1. T = S \ {w}
    BY <1>3
  <2> QED
    BY <1>1, <1>3, <2>1, FS_RemoveElement DEF Bit
<1>4. CASE w \in T <=> w \in S
  <2>1. T = S
    BY <1>4
  <2> QED
    BY <1>1, <1>4, <2>1 DEF Bit
<1> QED
  BY <1>2, <1>3, <1>4

LEMMA HoldersMove ==
  ASSUME Drain, NEW w \in Workers, NEW x, worker' = [worker EXCEPT ![w] = x], NEW s \in Shares
  PROVE  /\ Cardinality(Holders(s)) \in Nat
         /\ Cardinality(Holders(s))' = Cardinality(Holders(s)) + Bit(Holds(x, s)) - Bit(Holds(worker[w], s))
<1> DEFINE T == {v \in Workers : Holds(worker'[v], s)}
<1>1. /\ worker'[w] = x /\ \A v \in Workers \ {w} : worker'[v] = worker[v]
  BY DEF Drain, DrainShape
<1>2. /\ Holders(s) \in SUBSET Workers /\ T \in SUBSET Workers
      /\ w \in T <=> Holds(x, s)
      /\ w \in Holders(s) <=> Holds(worker[w], s)
      /\ \A v \in Workers \ {w} : v \in Holders(s) <=> v \in T
  BY <1>1 DEF Holders
<1>3. Cardinality(Holders(s))' = Cardinality(T)
  BY DEF Holders, Holds
<1> HIDE DEF T
<1>4. Bit(w \in T) = Bit(Holds(x, s)) /\ Bit(w \in Holders(s)) = Bit(Holds(worker[w], s))
  BY <1>2 DEF Bit
<1> QED
  BY <1>2, <1>3, <1>4, Recount, ShareAssumption

\* A step in which replica w goes on to x: what it takes up is counted as an
\* attempt, and what it mails it had yet to send.
LEMMA MailsMove ==
  ASSUME Drain, Drain', Mails, NEW w \in Workers, NEW x,
         worker' = [worker EXCEPT ![w] = x], UNCHANGED link,
         x.pc \in {"idle", "swept"} => x.batch = {},
         x.pc \in {"sending", "sent", "failing"} => x.share \notin x.batch,
         \A s \in Shares : link[s].status = "none" =>
           /\ row'[s].status = "none" /\ mailed'[s] = mailed[s]
           /\ s \notin x.batch /\ (x.pc \in {"sending", "sent", "failing"} => x.share # s),
         \A s \in Shares : mailed'[s] + Bit(Holds(x, s)) + row[s].attempts
                             <= mailed[s] + Bit(Holds(worker[w], s)) + row'[s].attempts
  PROVE  Mails'
<1>1. worker'[w] = x /\ \A v \in Workers \ {w} : worker'[v] = worker[v]
  BY DEF Drain, DrainShape
<1>2. Orderly'
  BY <1>1 DEF Mails, Orderly
<1>3. NewIsUnheard'
  BY <1>1 DEF Mails, NewIsUnheard, Unheard
<1>4. MailsAndHolders'
  <2> SUFFICES ASSUME NEW s \in Shares
               PROVE  mailed'[s] + Cardinality(Holders(s))' <= row'[s].attempts
    BY DEF MailsAndHolders
  <2>1. /\ mailed[s] \in Nat /\ mailed'[s] \in Nat
        /\ row[s].attempts \in Nat /\ row'[s].attempts \in Nat
    BY DEF Drain, DrainShape, Rows
  <2>2. Bit(Holds(x, s)) \in {0, 1} /\ Bit(Holds(worker[w], s)) \in {0, 1}
    BY DEF Bit
  <2>3. mailed[s] + Cardinality(Holders(s)) <= row[s].attempts
    BY DEF Mails, MailsAndHolders
  <2>4. /\ Cardinality(Holders(s)) \in Nat
        /\ Cardinality(Holders(s))' =
             Cardinality(Holders(s)) + Bit(Holds(x, s)) - Bit(Holds(worker[w], s))
    BY HoldersMove
  <2>5. mailed'[s] + Bit(Holds(x, s)) + row[s].attempts
          <= mailed[s] + Bit(Holds(worker[w], s)) + row'[s].attempts
    OBVIOUS
  <2> DEFINE c == Cardinality(Holders(s))
             d == Cardinality(Holders(s))'
             i == Bit(Holds(x, s))
             j == Bit(Holds(worker[w], s))
             m == mailed'[s]
             n == row'[s].attempts
  <2> HIDE DEF c, d, i, j, m, n
  <2>6. m + d <= n
    BY <2>1, <2>2, <2>3, <2>4, <2>5 DEF c, d, i, j, m, n
  <2> QED
    BY <2>6 DEF m, d, n
<1> QED
  BY <1>2, <1>3, <1>4 DEF Mails

\* A replica that takes up nothing and mails nothing.
LEMMA MailsStand ==
  ASSUME Drain, Drain', Mails, NEW w \in Workers, NEW x,
         worker' = [worker EXCEPT ![w] = x], UNCHANGED <<link, mailed>>,
         x.pc \in {"idle", "swept"} => x.batch = {},
         x.pc \in {"sending", "sent", "failing"} => x.share \notin x.batch,
         x.batch \subseteq worker[w].batch,
         x.pc = "sending" => x.share \in worker[w].batch,
         x.pc \in {"sent", "failing"} =>
           x.share \in worker[w].batch
           \/ (worker[w].pc \in {"sending", "sent", "failing"} /\ x.share = worker[w].share),
         \A s \in Shares : row'[s].attempts = row[s].attempts,
         \A s \in Shares : row[s].status = "none" => row'[s] = row[s]
                             \/ \E v \in Workers : worker[v].pc \in {"sent", "failing"} /\ worker[v].share = s
  PROVE  Mails'
<1>1. ASSUME NEW s \in Shares, link[s].status = "none"
      PROVE  /\ row'[s].status = "none"
             /\ s \notin x.batch /\ (x.pc \in {"sending", "sent", "failing"} => x.share # s)
  BY <1>1 DEF Mails, NewIsUnheard, Unheard
<1>2. ASSUME NEW s \in Shares
      PROVE  mailed'[s] + Bit(Holds(x, s)) + row[s].attempts
               <= mailed[s] + Bit(Holds(worker[w], s)) + row'[s].attempts
  <2>1. Holds(x, s) => Holds(worker[w], s)
    BY DEF Holds
  <2>2. mailed[s] \in Nat /\ row[s].attempts \in Nat
    BY DEF Drain, DrainShape, Rows
  <2> QED
    BY <2>1, <2>2 DEF Bit
<1> QED
  BY <1>1, <1>2, MailsMove

LEMMA ClaimMails ==
  ASSUME Drain, Drain', Mails, NEW w \in Workers, Claim(w)
  PROVE  Mails'
<1>1. PICK batch \in SUBSET {s \in Shares : Claimable(s)} :
        /\ row' = [s \in Shares |->
                     IF s \in batch
                     THEN [status |-> "processing", attempts |-> row[s].attempts + 1, due |-> FALSE]
                     ELSE row[s]]
        /\ worker' = [worker EXCEPT ![w] = Rest(batch)]
  BY DEF Claim
<1> DEFINE x == Rest(batch)
<1>2. /\ x.batch = batch
      /\ batch = {} => x.pc = "idle"
      /\ batch # {} => x.pc = "rows"
  BY DEF Rest, Idle
<1>3. worker[w].pc = "swept" /\ worker[w].batch = {} /\ UNCHANGED <<link, mailed>>
  BY DEF Claim, sales, Mails, Orderly
<1>4. \A s \in Shares : ~Holds(worker[w], s)
  BY <1>3 DEF Holds
<1>5. \A s \in batch : link[s].status # "none"
  BY DEF Claimable, Queue, Mails, NewIsUnheard, Unheard
<1>6. x.pc \in {"idle", "rows"} /\ worker' = [worker EXCEPT ![w] = x]
  BY <1>1, <1>2
<1> HIDE DEF x
<1>7. ASSUME NEW s \in Shares
      PROVE  mailed'[s] + Bit(Holds(x, s)) + row[s].attempts
               <= mailed[s] + Bit(Holds(worker[w], s)) + row'[s].attempts
  <2>1. mailed[s] \in Nat /\ row[s].attempts \in Nat
    BY DEF Drain, DrainShape, Rows
  <2>2. row'[s].attempts = row[s].attempts + Bit(s \in batch)
    BY <1>1, <2>1 DEF Bit
  <2>3. Holds(x, s) <=> s \in batch
    BY <1>2, <1>6 DEF Holds
  <2> QED
    BY <1>3, <1>4, <2>1, <2>2, <2>3 DEF Bit
<1>8. \A s \in Shares : link[s].status = "none" => row'[s].status = "none" /\ s \notin x.batch
  BY <1>1, <1>2, <1>5 DEF Mails, NewIsUnheard, Unheard
<1> QED
  BY <1>2, <1>3, <1>6, <1>7, <1>8, MailsMove

LEMMA SendMails ==
  ASSUME Drain, Drain', Mails, NEW w \in Workers, SendEmail(w) \/ SendFails(w)
  PROVE  Mails'
<1> DEFINE q == worker[w].share
           sent == [mailed EXCEPT ![q] = mailed[q] + 1]
<1>1. /\ worker[w] \in Replicas /\ worker[w].pc = "sending" /\ q \in Shares /\ q \notin worker[w].batch
      /\ mailed \in [Shares -> Nat] /\ UNCHANGED <<row, link>>
  BY DEF Drain, DrainShape, WorkIsDone, Mails, Orderly, SendEmail, SendFails, sales
<1>2. mailed' = mailed \/ mailed' = sent
  BY DEF SendEmail, SendFails
<1>3. PICK pc \in {"sent", "failing"} : worker' = [worker EXCEPT ![w] = [worker[w] EXCEPT !.pc = pc]]
  BY DEF SendEmail, SendFails, Throws, Goes
<1> DEFINE x == [worker[w] EXCEPT !.pc = pc]
<1>4. x.pc = pc /\ x.share = q /\ x.batch = worker[w].batch /\ worker' = [worker EXCEPT ![w] = x]
  BY <1>1, <1>3 DEF Replicas
<1> HIDE DEF x
<1>5. link[q].status # "none"
  BY <1>1 DEF Mails, NewIsUnheard, Unheard
<1>6. ASSUME NEW s \in Shares
      PROVE  /\ mailed'[s] + Bit(Holds(x, s)) + row[s].attempts
                  <= mailed[s] + Bit(Holds(worker[w], s)) + row'[s].attempts
             /\ s # q => mailed'[s] = mailed[s]
  <2>1. mailed[s] \in Nat /\ row[s].attempts \in Nat
    BY DEF Drain, DrainShape, Rows
  <2>2. mailed'[s] = mailed[s] \/ (s = q /\ mailed'[s] = mailed[s] + 1)
    BY <1>1, <1>2
  <2>3. /\ Holds(x, s) <=> s \in worker[w].batch
        /\ Holds(worker[w], s) <=> s \in worker[w].batch \/ s = q
    BY <1>1, <1>4 DEF Holds
  <2> QED
    BY <1>1, <2>1, <2>2, <2>3 DEF Bit
<1>7. \A s \in Shares : link[s].status = "none" =>
        /\ row'[s].status = "none" /\ mailed'[s] = mailed[s]
        /\ s \notin x.batch /\ x.share # s
  BY <1>1, <1>4, <1>5, <1>6 DEF Mails, NewIsUnheard, Unheard
<1> QED
  BY <1>1, <1>4, <1>6, <1>7, MailsMove

\* The steps of a replica that mail nothing and claim nothing.
LEMMA DrainMails ==
  ASSUME Drain, Drain', Mails, NEW w \in Workers,
         \/ Sweep(w) \/ SweepFails(w) \/ ReadShare(w) \/ CommitRow(w)
         \/ CommitFails(w) \/ RecordFailure(w) \/ Crash(w)
  PROVE  Mails'
<1>1. worker[w] \in Replicas /\ row \in [Shares -> Rows] /\ UNCHANGED <<link, mailed>>
  BY DEF Drain, DrainShape, Sweep, SweepFails, ReadShare, CommitRow, CommitFails, RecordFailure, Crash, sales
<1>2. CASE Sweep(w) \/ SweepFails(w)
  <2> DEFINE x == [worker[w] EXCEPT !.pc = "swept"]
  <2>1. worker' = [worker EXCEPT ![w] = x] /\ worker[w].pc = "idle"
    BY <1>2 DEF Sweep, SweepFails
  <2>2. x.pc = "swept" /\ x.batch = worker[w].batch /\ worker[w].batch = {}
    BY <1>1, <2>1 DEF Replicas, Mails, Orderly
  <2>3. ASSUME NEW s \in Shares
        PROVE  row'[s].attempts = row[s].attempts /\ (row[s].status = "none" => row'[s] = row[s])
    <3>1. row[s] \in Rows
      BY <1>1
    <3>2. \/ row'[s] = row[s]
          \/ (row[s].status \in Queue /\ row'[s] = [row[s] EXCEPT !.status = "dead"])
      BY <1>2 DEF Sweep, SweepFails, Retirable
    <3> QED
      BY <3>1, <3>2 DEF Rows, Queue
  <2> HIDE DEF x
  <2> QED
    BY <1>1, <2>1, <2>2, <2>3, MailsStand
<1>3. CASE ReadShare(w)
  <2>1. PICK s \in worker[w].batch : Works(w, s, IF link[s].gone THEN "sent" ELSE "sending")
    BY <1>3 DEF ReadShare
  <2> DEFINE pc == IF link[s].gone THEN "sent" ELSE "sending"
             x == [pc |-> pc, batch |-> worker[w].batch \ {s}, share |-> s]
  <2>2. worker' = [worker EXCEPT ![w] = x]
    BY <2>1 DEF Works
  <2>3. /\ x.pc \in {"sent", "sending"} /\ x.share = s
        /\ x.batch = worker[w].batch \ {s} /\ s \in worker[w].batch
    BY <2>1
  <2>4. UNCHANGED row
    BY <1>3 DEF ReadShare
  <2> HIDE DEF x
  <2> QED
    BY <1>1, <2>2, <2>3, <2>4, MailsStand
<1>4. CASE CommitRow(w) \/ RecordFailure(w)
  <2> DEFINE x == Rest(worker[w].batch)
             q == worker[w].share
  <2>1. worker' = [worker EXCEPT ![w] = x] /\ worker[w].pc \in {"sent", "failing"} /\ q \in Shares
    BY <1>4 DEF CommitRow, RecordFailure, NextRow, Drain, WorkIsDone
  <2>2. /\ x.batch = worker[w].batch
        /\ x.batch = {} => x.pc = "idle"
        /\ x.batch # {} => x.pc = "rows"
    BY DEF Rest, Idle
  <2>3. ASSUME NEW s \in Shares
        PROVE  row'[s].attempts = row[s].attempts /\ (s # q => row'[s] = row[s])
    <3>1. row[s] \in Rows
      BY <1>1
    <3>2. \/ row' = row
          \/ row' = [row EXCEPT ![q] = [row[q] EXCEPT !.status = "applied"]]
          \/ row' = [row EXCEPT ![q] = Parked(q)]
      BY <1>4 DEF CommitRow, RecordFailure
    <3>3. \/ row'[s] = row[s]
          \/ (s = q /\ row'[s] = [row[s] EXCEPT !.status = "applied"])
          \/ (s = q /\ row'[s] = Parked(s))
      BY <1>1, <2>1, <3>2
    <3>4. Parked(s).attempts = row[s].attempts
      BY <3>1 DEF Parked, Rows
    <3> QED
      BY <3>1, <3>3, <3>4 DEF Rows
  <2> HIDE DEF x
  <2> QED
    BY <1>1, <2>1, <2>2, <2>3, MailsStand
<1>5. CASE CommitFails(w)
  <2> DEFINE x == [worker[w] EXCEPT !.pc = "failing"]
  <2>1. worker' = [worker EXCEPT ![w] = x] /\ worker[w].pc = "sent" /\ UNCHANGED row
    BY <1>5 DEF CommitFails, Goes
  <2>2. x.pc = "failing" /\ x.batch = worker[w].batch /\ x.share = worker[w].share
    BY <1>1 DEF Replicas
  <2>3. worker[w].share \notin worker[w].batch
    BY <2>1 DEF Mails, Orderly
  <2> HIDE DEF x
  <2> QED
    BY <1>1, <2>1, <2>2, <2>3, MailsStand
<1>6. CASE Crash(w)
  <2>1. worker' = [worker EXCEPT ![w] = Idle] /\ UNCHANGED row
    BY <1>6 DEF Crash
  <2>2. Idle.pc = "idle" /\ Idle.batch = {}
    BY DEF Idle
  <2> QED
    BY <1>1, <2>1, <2>2, MailsStand
<1> QED
  BY <1>2, <1>3, <1>4, <1>5, <1>6

\* A link is created once, unheard of before; nothing else outside the drain
\* touches the counts.
LEMMA RequestMails ==
  ASSUME Drain, Drain', Mails, NEW s \in Shares,
         Create(s) \/ Revoke(s) \/ Expire(s) \/ Answer(s, "ACCEPT") \/ Answer(s, "DECLINE")
         \/ BecomesDue(s)
  PROVE  Mails'
<1>1. /\ row \in [Shares -> Rows] /\ link \in [Shares -> Links] /\ UNCHANGED <<worker, mailed>>
  BY DEF Drain, DrainShape, Create, Revoke, Expire, Answer, BecomesDue
<1>2. Orderly'
  BY <1>1 DEF Mails, Orderly
<1>3. \A q \in Shares : link'[q].status = "none" => link[q].status = "none" /\ row'[q] = row[q]
  <2>1. CASE Create(s)
    BY <1>1, <2>1 DEF Create, Links
  <2>2. CASE Revoke(s) \/ Expire(s)
    BY <1>1, <2>2 DEF Revoke, Expire, Links
  <2>3. CASE Answer(s, "ACCEPT") \/ Answer(s, "DECLINE")
    BY <1>1, <2>3 DEF Answer, Links
  <2>4. CASE BecomesDue(s)
    <3>1. row[s].status # "none" /\ UNCHANGED link
      BY <2>4 DEF BecomesDue, Queue, sales
    <3>2. link[s].status # "none"
      BY <3>1 DEF Mails, NewIsUnheard, Unheard
    <3> QED
      BY <1>1, <2>4, <3>1, <3>2 DEF BecomesDue
  <2> QED
    BY <2>1, <2>2, <2>3, <2>4
<1>4. NewIsUnheard'
  BY <1>1, <1>3 DEF Mails, NewIsUnheard, Unheard
<1>5. MailsAndHolders'
  <2> SUFFICES ASSUME NEW q \in Shares
               PROVE  mailed'[q] + Cardinality(Holders(q))' <= row'[q].attempts
    BY DEF MailsAndHolders
  <2>1. Holders(q)' = Holders(q) /\ mailed[q] \in Nat
    BY <1>1 DEF Holders, Holds, Drain, DrainShape
  <2>2. mailed[q] + Cardinality(Holders(q)) <= row[q].attempts
    BY DEF Mails, MailsAndHolders
  <2>3. CASE Create(s) /\ q = s
    <3>1. mailed[q] = 0 /\ \A w \in Workers : ~Holds(worker[w], q)
      BY <2>3 DEF Create, Mails, NewIsUnheard, Unheard, Holds
    <3>2. Holders(q) = {} /\ Cardinality(Holders(q)) = 0
      BY <3>1, FS_EmptySet DEF Holders
    <3>3. row'[q].attempts = 0
      BY <1>1, <2>3 DEF Create
    <3> QED
      BY <1>1, <2>1, <3>1, <3>2, <3>3
  <2>4. CASE ~(Create(s) /\ q = s)
    <3>1. row'[q].attempts = row[q].attempts
      BY <1>1, <2>4 DEF Create, Revoke, Expire, Answer, BecomesDue, Rows
    <3> QED
      BY <1>1, <2>1, <2>2, <3>1
  <2> QED
    BY <2>3, <2>4
<1> QED
  BY <1>2, <1>4, <1>5 DEF Mails

LEMMA InitMails == Init => Mails
<1> SUFFICES ASSUME Init PROVE Mails
  OBVIOUS
<1>1. \A w \in Workers : worker[w].pc = "idle" /\ worker[w].batch = {}
  BY DEF Init, Idle
<1>2. Orderly /\ NewIsUnheard
  BY <1>1 DEF Orderly, NewIsUnheard, Unheard, Init
<1>3. ASSUME NEW s \in Shares
      PROVE  mailed[s] + Cardinality(Holders(s)) <= row[s].attempts
  <2>1. Holders(s) = {}
    BY <1>1 DEF Holders, Holds
  <2>2. Cardinality(Holders(s)) = 0
    BY <2>1, FS_EmptySet
  <2>3. mailed[s] = row[s].attempts /\ mailed[s] \in Nat
    BY DEF Init
  <2> QED
    BY <2>2, <2>3
<1> QED
  BY <1>2, <1>3 DEF Mails, MailsAndHolders

LEMMA NextMails ==
  ASSUME Drain, Mails, [Next]_vars
  PROVE  Mails'
<1>1. Drain'
  BY NextDrain
<1>2. CASE UNCHANGED <<link, row, worker, mailed>>
  <2>1. \A s \in Shares : Holders(s)' = Holders(s)
    BY <1>2 DEF Holders, Holds
  <2> QED
    BY <1>2, <2>1 DEF Mails, Orderly, NewIsUnheard, Unheard, MailsAndHolders
<1>3. ASSUME NEW s \in Shares,
             Create(s) \/ Revoke(s) \/ Expire(s) \/ Answer(s, "ACCEPT") \/ Answer(s, "DECLINE")
             \/ BecomesDue(s)
      PROVE  Mails'
  BY <1>1, <1>3, RequestMails
<1>4. ASSUME NEW w \in Workers, WorkerStep(w) \/ Crash(w)
      PROVE  Mails'
  BY <1>1, <1>4, ClaimMails, SendMails, DrainMails DEF WorkerStep
<1>5. ASSUME NEW event \in DOMAIN Lifecycle, StaffEvent(event)
      PROVE  Mails'
  BY <1>2, <1>5 DEF StaffEvent
<1>6. CASE UNCHANGED vars
  BY <1>2, <1>6 DEF vars
<1> QED
  BY <1>3, <1>4, <1>5, <1>6 DEF Next

(***************************************************************************)
(* A customer gets at most one e-mail for each attempt that was counted,   *)
(* for any number of replicas that still hold a row after their lease.     *)
(***************************************************************************)
THEOREM AttemptsBoundMails == Spec => []MailsAreAttempts
<1>1. Drain /\ Mails => MailsAreAttempts
  <2> SUFFICES ASSUME Drain, Mails, NEW s \in Shares PROVE mailed[s] <= row[s].attempts
    BY DEF MailsAreAttempts
  <2>1. mailed[s] \in Nat /\ row[s].attempts \in Nat
    BY DEF Drain, DrainShape, Rows
  <2>2. IsFiniteSet(Holders(s))
    BY FS_Subset, ShareAssumption DEF Holders
  <2>3. Cardinality(Holders(s)) \in Nat
    BY <2>2, FS_CardinalityType
  <2> QED
    BY <2>1, <2>3 DEF Mails, MailsAndHolders
<1>2. Init => Drain /\ Mails
  BY InitDrain, InitMails
<1>3. Drain /\ Mails /\ [Next]_vars => Drain' /\ Mails'
  BY NextDrain, NextMails
<1> QED
  BY <1>1, <1>2, <1>3, PTL DEF Spec
-----------------------------------------------------------------------------
(* The types, and with them the bound on attempts.                           *)

Swept == {w \in Workers : worker[w].pc = "swept"}

Ceiling == MaxRetries + Cardinality(Workers) + faults

\* Once a row has reached the cap a sweep retires it, so that only a replica
\* that had swept before can claim it again; a sweep that fails adds one.  A
\* replica that records a late failure must not queue a row again that the cap
\* has retired: that is why MaxAttempts may not exceed MaxRetries.
Capped(s) ==
  row[s].attempts >= MaxRetries =>
    /\ row[s].attempts < Ceiling
    /\ row[s].status \in Queue => row[s].attempts + Cardinality(Swept) < Ceiling

CapInv == faults \in Nat /\ \A s \in Shares : Capped(s)

LEMMA SweptMove ==
  ASSUME Drain, NEW w \in Workers, NEW x, worker' = [worker EXCEPT ![w] = x]
  PROVE  /\ Cardinality(Swept) \in Nat /\ Cardinality(Swept)' \in Nat /\ Cardinality(Workers) \in Nat
         /\ Cardinality(Swept)' =
              Cardinality(Swept) + Bit(x.pc = "swept") - Bit(worker[w].pc = "swept")
         /\ x.pc # "swept" => Cardinality(Swept)' < Cardinality(Workers)
<1> DEFINE T == {v \in Workers : worker'[v].pc = "swept"}
<1>1. /\ worker'[w] = x /\ \A v \in Workers \ {w} : worker'[v] = worker[v]
  BY DEF Drain, DrainShape
<1>2. /\ Swept \in SUBSET Workers /\ T \in SUBSET Workers
      /\ w \in T <=> x.pc = "swept"
      /\ w \in Swept <=> worker[w].pc = "swept"
      /\ \A v \in Workers \ {w} : v \in Swept <=> v \in T
  BY <1>1 DEF Swept
<1>3. Cardinality(Swept)' = Cardinality(T)
  BY DEF Swept
<1> HIDE DEF T
<1>4. Bit(w \in T) = Bit(x.pc = "swept") /\ Bit(w \in Swept) = Bit(worker[w].pc = "swept")
  BY <1>2 DEF Bit
<1>5. /\ Cardinality(Swept) \in Nat
      /\ Cardinality(T) = Cardinality(Swept) + Bit(w \in T) - Bit(w \in Swept)
  BY <1>2, Recount, ShareAssumption
<1>6. IsFiniteSet(T) /\ Cardinality(T) \in Nat /\ Cardinality(Workers) \in Nat
      /\ Cardinality(T) <= Cardinality(Workers)
      /\ (Cardinality(Workers) = Cardinality(T) => Workers = T)
  BY <1>2, FS_Subset, FS_CardinalityType, ShareAssumption
<1>7. x.pc # "swept" => Cardinality(T) < Cardinality(Workers)
  BY <1>2, <1>6
<1> QED
  BY <1>3, <1>4, <1>5, <1>6, <1>7

\* A step that counts no attempt: it may let one more replica claim only
\* against a fault or by retiring what is at the cap.
LEMMA CapStands ==
  ASSUME Drain, Drain', NEW s \in Shares, Capped(s), faults \in Nat, faults' \in Nat,
         Cardinality(Swept) \in Nat, Cardinality(Swept)' \in Nat, Cardinality(Workers) \in Nat,
         faults' >= faults, row'[s].attempts = row[s].attempts,
         row'[s].status \in Queue /\ row[s].attempts >= MaxRetries =>
           row[s].status \in Queue /\ Cardinality(Swept)' + faults <= Cardinality(Swept) + faults'
  PROVE  Capped(s)'
<1> DEFINE c == Cardinality(Swept)
           d == Cardinality(Swept)'
           n == Cardinality(Workers)
           a == row[s].attempts
<1>1. a \in Nat /\ row'[s].attempts = a /\ MaxRetries \in Nat
  BY ShareAssumption DEF Drain, DrainShape, Rows
<1>2. Capped(s)' <=> ( a >= MaxRetries =>
        /\ a < MaxRetries + n + faults'
        /\ row'[s].status \in Queue => a + d < MaxRetries + n + faults' )
  BY DEF Capped, Ceiling
<1>3. a >= MaxRetries =>
        /\ a < MaxRetries + n + faults
        /\ row[s].status \in Queue => a + c < MaxRetries + n + faults
  BY DEF Capped, Ceiling
<1>4. row'[s].status \in Queue /\ a >= MaxRetries =>
        row[s].status \in Queue /\ d + faults <= c + faults'
  OBVIOUS
<1> HIDE DEF a, c, d, n
<1>5. c \in Nat /\ d \in Nat /\ n \in Nat
  BY DEF c, d, n
<1>6. ASSUME a >= MaxRetries
      PROVE  a < MaxRetries + n + faults'
  BY <1>1, <1>3, <1>5, <1>6
<1>7. ASSUME a >= MaxRetries, row'[s].status \in Queue
      PROVE  a + d < MaxRetries + n + faults'
  <2> DEFINE f == faults
             g == faults'
             m == MaxRetries
  <2>1. a + c < m + n + f /\ d + f <= c + g
    BY <1>3, <1>4, <1>7
  <2>2. a \in Nat /\ c \in Nat /\ d \in Nat /\ n \in Nat /\ m \in Nat /\ f \in Nat /\ g \in Nat
    BY <1>1, <1>5
  <2> HIDE DEF f, g, m
  <2>3. a + d < m + n + g
    BY ONLY <2>1, <2>2
  <2> QED
    BY <2>3 DEF m, g
<1> QED
  BY <1>2, <1>6, <1>7

\* A claim counts an attempt and spends the sweep it followed.
LEMMA CapClaim ==
  ASSUME Drain, Drain', CapInv, NEW w \in Workers, Claim(w), NEW s \in Shares
  PROVE  Capped(s)'
<1>1. PICK batch \in SUBSET {q \in Shares : Claimable(q)} :
        /\ row' = [q \in Shares |->
                     IF q \in batch
                     THEN [status |-> "processing", attempts |-> row[q].attempts + 1, due |-> FALSE]
                     ELSE row[q]]
        /\ worker' = [worker EXCEPT ![w] = Rest(batch)]
  BY DEF Claim
<1> DEFINE c == Cardinality(Swept)
           d == Cardinality(Swept)'
           n == Cardinality(Workers)
           a == row[s].attempts
<1>2. Rest(batch).pc # "swept" /\ worker[w].pc = "swept" /\ faults' = faults
  BY DEF Rest, Idle, Claim
<1>3. c \in Nat /\ d \in Nat /\ n \in Nat /\ d = c - 1 /\ d < n
  <2>1. /\ c \in Nat /\ d \in Nat /\ n \in Nat /\ d < n
        /\ d = c + Bit(Rest(batch).pc = "swept") - Bit(worker[w].pc = "swept")
    BY <1>1, <1>2, SweptMove
  <2>2. Bit(Rest(batch).pc = "swept") = 0 /\ Bit(worker[w].pc = "swept") = 1
    BY <1>2 DEF Bit
  <2> HIDE DEF c, d, n
  <2> QED
    BY <2>1, <2>2
<1>4. a \in Nat /\ faults \in Nat /\ MaxRetries \in Nat
  BY ShareAssumption DEF Drain, DrainShape, Rows, CapInv
<1>5. CASE s \in batch
  <2>1. row[s].status \in Queue /\ row'[s].attempts = a + 1
    BY <1>1, <1>5 DEF Claimable
  <2>2. Capped(s)' <=> ( a + 1 >= MaxRetries =>
          /\ a + 1 < MaxRetries + n + faults
          /\ row'[s].status \in Queue => a + 1 + d < MaxRetries + n + faults )
    BY <1>2, <2>1 DEF Capped, Ceiling
  <2>3. a >= MaxRetries => a + c < MaxRetries + n + faults
    BY <2>1 DEF CapInv, Capped, Ceiling
  <2> HIDE DEF a, c, d, n
  <2> QED
    BY <1>3, <1>4, <2>2, <2>3
<1>6. CASE s \notin batch
  <2>1. row'[s] = row[s] /\ Capped(s)
    BY <1>1, <1>6 DEF CapInv
  <2> QED
    BY <1>2, <1>3, <1>4, <2>1, CapStands
<1> QED
  BY <1>5, <1>6

\* A sweep adds a replica that may claim, but retires what is at the cap.
LEMMA CapSweep ==
  ASSUME Drain, Drain', CapInv, NEW w \in Workers, Sweep(w) \/ SweepFails(w), NEW s \in Shares
  PROVE  Capped(s)'
<1> DEFINE x == [worker[w] EXCEPT !.pc = "swept"]
<1>1. worker[w] \in Replicas /\ worker[w].pc = "idle" /\ worker' = [worker EXCEPT ![w] = x]
  BY DEF Drain, DrainShape, Sweep, SweepFails
<1>2. x.pc = "swept"
  BY <1>1 DEF Replicas
<1> HIDE DEF x
<1>3. /\ Cardinality(Swept) \in Nat /\ Cardinality(Swept)' \in Nat /\ Cardinality(Workers) \in Nat
      /\ Cardinality(Swept)' = Cardinality(Swept) + 1
  <2> DEFINE c == Cardinality(Swept)
             d == Cardinality(Swept)'
             n == Cardinality(Workers)
  <2>1. /\ c \in Nat /\ d \in Nat /\ n \in Nat
        /\ d = c + Bit(x.pc = "swept") - Bit(worker[w].pc = "swept")
    BY <1>1, SweptMove
  <2>2. Bit(x.pc = "swept") = 1 /\ Bit(worker[w].pc = "swept") = 0
    BY <1>1, <1>2 DEF Bit
  <2> HIDE DEF c, d, n
  <2>3. c \in Nat /\ d \in Nat /\ n \in Nat /\ d = c + 1
    BY <2>1, <2>2
  <2> QED
    BY <2>3 DEF c, d, n
<1>4. row[s] \in Rows /\ faults \in Nat /\ Capped(s)
  BY DEF Drain, DrainShape, CapInv
<1>5. CASE Sweep(w)
  <2>1. /\ faults' = faults
        /\ row'[s] = IF Retirable(s) THEN [row[s] EXCEPT !.status = "dead"] ELSE row[s]
    BY <1>5 DEF Sweep
  <2>2. row'[s].attempts = row[s].attempts
    BY <1>4, <2>1 DEF Rows
  <2>3. ~(row'[s].status \in Queue /\ row[s].attempts >= MaxRetries)
    BY <1>4, <2>1 DEF Retirable, Rows, Queue
  <2>4. faults' \in Nat /\ faults' >= faults
    BY <1>4, <2>1
  <2> QED
    BY <1>3, <1>4, <2>2, <2>3, <2>4, CapStands
<1>6. CASE SweepFails(w)
  <2>1. faults' = faults + 1 /\ row' = row
    BY <1>6 DEF SweepFails
  <2> QED
    BY <1>3, <1>4, <2>1, CapStands
<1> QED
  BY <1>5, <1>6

\* The other steps of a replica let no one claim, and a failure recorded late
\* does not queue again a row at the cap.
LEMMA CapDrain ==
  ASSUME MaxAttempts <= MaxRetries, Drain, Drain', CapInv, NEW w \in Workers,
         \/ ReadShare(w) \/ SendEmail(w) \/ SendFails(w) \/ CommitRow(w)
         \/ CommitFails(w) \/ RecordFailure(w) \/ Crash(w),
         NEW s \in Shares
  PROVE  Capped(s)' /\ faults' \in Nat
<1>1. worker[w] \in Replicas /\ row \in [Shares -> Rows] /\ row[s] \in Rows /\ faults \in Nat /\ Capped(s)
  BY DEF Drain, DrainShape, CapInv
<1>2. PICK x : worker' = [worker EXCEPT ![w] = x] /\ x.pc # "swept"
  <2>1. CASE ReadShare(w)
    <3>1. PICK q \in worker[w].batch : Works(w, q, IF link[q].gone THEN "sent" ELSE "sending")
      BY <2>1 DEF ReadShare
    <3> DEFINE y == [pc |-> IF link[q].gone THEN "sent" ELSE "sending",
                     batch |-> worker[w].batch \ {q}, share |-> q]
    <3>2. worker' = [worker EXCEPT ![w] = y] /\ y.pc # "swept"
      BY <3>1 DEF Works
    <3> HIDE DEF y
    <3> QED
      BY <3>2
  <2>2. CASE SendEmail(w) \/ SendFails(w) \/ CommitFails(w)
    <3>1. PICK pc \in {"sent", "failing"} : worker' = [worker EXCEPT ![w] = [worker[w] EXCEPT !.pc = pc]]
      BY <2>2 DEF SendEmail, SendFails, CommitFails, Throws, Goes
    <3> DEFINE y == [worker[w] EXCEPT !.pc = pc]
    <3>2. worker' = [worker EXCEPT ![w] = y] /\ y.pc # "swept"
      BY <1>1, <3>1 DEF Replicas
    <3> HIDE DEF y
    <3> QED
      BY <3>2
  <2>3. CASE CommitRow(w) \/ RecordFailure(w)
    <3>1. Rest(worker[w].batch).pc # "swept"
      BY DEF Rest, Idle
    <3> QED
      BY <2>3, <3>1 DEF CommitRow, RecordFailure, NextRow
  <2>4. CASE Crash(w)
    <3>1. Idle.pc # "swept"
      BY DEF Idle
    <3> QED
      BY <2>4, <3>1 DEF Crash
  <2> QED
    BY <2>1, <2>2, <2>3, <2>4
<1>3. /\ Cardinality(Swept) \in Nat /\ Cardinality(Swept)' \in Nat /\ Cardinality(Workers) \in Nat
      /\ Cardinality(Swept)' <= Cardinality(Swept)
  <2> DEFINE c == Cardinality(Swept)
             d == Cardinality(Swept)'
             n == Cardinality(Workers)
  <2>1. /\ c \in Nat /\ d \in Nat /\ n \in Nat
        /\ d = c + Bit(x.pc = "swept") - Bit(worker[w].pc = "swept")
    BY <1>2, SweptMove
  <2>2. Bit(x.pc = "swept") = 0 /\ Bit(worker[w].pc = "swept") \in {0, 1}
    BY <1>2 DEF Bit
  <2> HIDE DEF c, d, n
  <2>3. c \in Nat /\ d \in Nat /\ n \in Nat /\ d <= c
    BY <2>1, <2>2
  <2> QED
    BY <2>3 DEF c, d, n
<1>4. faults' \in Nat /\ faults' >= faults
  BY <1>1 DEF ReadShare, SendEmail, SendFails, CommitRow, CommitFails, RecordFailure, Crash
<1>5. /\ row'[s].attempts = row[s].attempts
      /\ row'[s].status \in Queue /\ row[s].attempts >= MaxRetries => row[s].status \in Queue
  <2>1. CASE row' = row
    BY <2>1
  <2>2. CASE CommitRow(w)
    <3>1. row'[s] = row[s] \/ row'[s] = [row[s] EXCEPT !.status = "applied"]
      BY <1>1, <2>2 DEF CommitRow
    <3> QED
      BY <1>1, <3>1 DEF Rows, Queue
  <2>3. CASE RecordFailure(w)
    <3>1. row'[s] = row[s] \/ row'[s] = Parked(s)
      BY <1>1, <2>3 DEF RecordFailure
    <3>2. /\ Parked(s).attempts = row[s].attempts
          /\ row[s].attempts >= MaxAttempts => Parked(s).status = "failed"
      BY <1>1 DEF Parked, Rows
    <3>3. row[s].attempts >= MaxRetries => row[s].attempts >= MaxAttempts
      BY <1>1, ShareAssumption DEF Rows
    <3> QED
      BY <3>1, <3>2, <3>3 DEF Queue
  <2> QED
    BY <2>1, <2>2, <2>3 DEF ReadShare, SendEmail, SendFails, CommitFails, Crash
<1>6. Cardinality(Swept)' + faults <= Cardinality(Swept) + faults'
  BY <1>1, <1>3, <1>4
<1> QED
  BY <1>1, <1>3, <1>4, <1>5, <1>6, CapStands

\* Outside the drain no attempt is counted; a new row starts at none.
LEMMA CapRequests ==
  ASSUME Drain, Drain', CapInv, NEW s \in Shares,
         Create(s) \/ Revoke(s) \/ Expire(s) \/ Answer(s, "ACCEPT") \/ Answer(s, "DECLINE")
         \/ BecomesDue(s)
  PROVE  CapInv'
<1>1. row \in [Shares -> Rows] /\ UNCHANGED <<worker, faults>> /\ faults \in Nat
  BY DEF Drain, DrainShape, CapInv, Create, Revoke, Expire, Answer, BecomesDue
<1>2. Swept' = Swept
  BY <1>1 DEF Swept
<1>3. ASSUME NEW q \in Shares
      PROVE  Capped(q)'
  <2>1. CASE row'[q].attempts = 0
    <3>1. ~(row'[q].attempts >= MaxRetries)
      BY <2>1, ShareAssumption
    <3> QED
      BY <3>1 DEF Capped
  <2>2. CASE row'[q].attempts = row[q].attempts /\ row'[q].status = row[q].status
    BY <1>1, <1>2, <2>2 DEF CapInv, Capped, Ceiling
  <2> QED
    BY <1>1, <2>1, <2>2 DEF Create, Revoke, Expire, Answer, BecomesDue, Rows
<1> QED
  BY <1>1, <1>3 DEF CapInv

LEMMA NextCap ==
  ASSUME MaxAttempts <= MaxRetries, Drain, CapInv, [Next]_vars
  PROVE  CapInv'
<1>1. Drain'
  BY NextDrain
<1>2. CASE UNCHANGED <<row, worker, faults>>
  <2>1. Swept' = Swept
    BY <1>2 DEF Swept
  <2> QED
    BY <1>2, <2>1 DEF CapInv, Capped, Ceiling
<1>3. ASSUME NEW s \in Shares,
             Create(s) \/ Revoke(s) \/ Expire(s) \/ Answer(s, "ACCEPT") \/ Answer(s, "DECLINE")
             \/ BecomesDue(s)
      PROVE  CapInv'
  BY <1>1, <1>3, CapRequests
<1>4. ASSUME NEW w \in Workers, WorkerStep(w) \/ Crash(w)
      PROVE  CapInv'
  <2>1. faults' \in Nat
    BY <1>4
       DEF CapInv, WorkerStep, Sweep, SweepFails, Claim, ReadShare, SendEmail, SendFails, CommitRow,
           CommitFails, RecordFailure, Crash
  <2>2. \A s \in Shares : Capped(s)'
    BY <1>1, <1>4, CapClaim, CapSweep, CapDrain DEF WorkerStep
  <2> QED
    BY <2>1, <2>2 DEF CapInv
<1>5. ASSUME NEW event \in DOMAIN Lifecycle, StaffEvent(event)
      PROVE  CapInv'
  BY <1>2, <1>5 DEF StaffEvent
<1>6. CASE UNCHANGED vars
  BY <1>2, <1>6 DEF vars
<1> QED
  BY <1>3, <1>4, <1>5, <1>6 DEF Next

LEMMA InitCap == Init => CapInv
<1> SUFFICES ASSUME Init PROVE CapInv
  OBVIOUS
<1>1. IsFiniteSet(Workers) /\ Cardinality(Workers) \in Nat
  BY ShareAssumption, FS_CardinalityType
<1>2. Swept = {}
  BY DEF Init, Idle, Swept
<1>3. Cardinality(Swept) = 0
  BY <1>2, FS_EmptySet
<1>4. ASSUME NEW s \in Shares
      PROVE  Capped(s)
  <2>1. row[s].attempts \in {0, 1} /\ (row[s].attempts = 1 => row[s].status = "applied")
    BY DEF Init
  <2>2. row[s].status \in Queue => row[s].attempts = 0
    BY <2>1 DEF Queue
  <2> DEFINE n == Cardinality(Workers)
  <2>3. n \in Nat \ {0} /\ faults = 0 /\ MaxRetries \in Nat \ {0}
    BY <1>1, ShareAssumption, FS_EmptySet DEF Init
  <2> HIDE DEF n
  <2>4. row[s].attempts >= MaxRetries => row[s].attempts = 1 /\ MaxRetries = 1
    BY <2>1, <2>3
  <2> QED
    BY <1>3, <2>2, <2>3, <2>4 DEF Capped, Ceiling, n
<1> QED
  BY <1>4 DEF Init, CapInv

\* The lifecycle's table leads nowhere but to its own states.
InLifecycle == project \in DOMAIN Tables!ProjectLifecycle.offers

LEMMA TargetsAreStates ==
  \A event \in DOMAIN Lifecycle : Lifecycle[event].to \in DOMAIN Tables!ProjectLifecycle.offers
BY EventNames DEF Lifecycle, Tables!ProjectLifecycle, Tables!Step

LEMMA NextLifecycle ==
  ASSUME InLifecycle, [Next]_vars
  PROVE  InLifecycle'
<1>1. ASSUME NEW event \in DOMAIN Lifecycle, NEW s, Moves(event, s)
      PROVE  InLifecycle'
  BY <1>1, TargetsAreStates DEF Moves, InLifecycle
<1>2. ASSUME UNCHANGED project
      PROVE  InLifecycle'
  BY <1>2 DEF InLifecycle
<1>3. ASSUME NEW event \in DOMAIN Lifecycle, NEW s, MaybeApply(event, s)
      PROVE  InLifecycle'
  BY <1>1, <1>2, <1>3 DEF MaybeApply, Stays
<1>4. ASSUME NEW s \in Shares,
             Create(s) \/ Revoke(s) \/ Expire(s) \/ Answer(s, "ACCEPT") \/ Answer(s, "DECLINE")
             \/ BecomesDue(s)
      PROVE  InLifecycle'
  <2>1. {"SEND", "ACCEPT", "DECLINE"} \subseteq DOMAIN Lifecycle
    BY EventNames
  <2> QED
    BY <1>2, <1>3, <1>4, <2>1 DEF Create, Revoke, Expire, Answer, BecomesDue, sales
<1>5. ASSUME NEW event \in DOMAIN Lifecycle, StaffEvent(event)
      PROVE  InLifecycle'
  BY <1>1, <1>5 DEF StaffEvent
<1>6. ASSUME NEW w \in Workers, WorkerStep(w) \/ Crash(w)
      PROVE  InLifecycle'
  BY <1>2, <1>6
     DEF WorkerStep, Sweep, SweepFails, Claim, ReadShare, SendEmail, SendFails, CommitRow,
         CommitFails, RecordFailure, Crash, sales
<1>7. CASE UNCHANGED vars
  BY <1>2, <1>7 DEF vars
<1> QED
  BY <1>4, <1>5, <1>6, <1>7 DEF Next

(***************************************************************************)
(* Links, rows and replicas keep their types, the project stays in its     *)
(* lifecycle, and no row counts more attempts than the dead-letter cap,    *)
(* one for each other replica and one for each fault: if the cap is no     *)
(* lower than the attempts after which a failure parks the row.            *)
(***************************************************************************)
THEOREM ShareTypeCorrect == MaxAttempts <= MaxRetries => (Spec => []TypeOK)
<1>1. SUFFICES ASSUME MaxAttempts <= MaxRetries PROVE Spec => []TypeOK
  OBVIOUS
<1>2. Drain /\ CapInv /\ InLifecycle => TypeOK
  <2> SUFFICES ASSUME Drain, CapInv, InLifecycle PROVE TypeOK
    OBVIOUS
  <2>1. ASSUME NEW s \in Shares
        PROVE  row[s].attempts < MaxRetries + Cardinality(Workers) + faults
    <3> DEFINE n == Cardinality(Workers)
               a == row[s].attempts
    <3>1. n \in Nat \ {0} /\ a \in Nat /\ faults \in Nat /\ MaxRetries \in Nat
      BY FS_CardinalityType, FS_EmptySet, ShareAssumption DEF Drain, DrainShape, Rows, CapInv
    <3>2. a >= MaxRetries => a < MaxRetries + n + faults
      BY DEF CapInv, Capped, Ceiling
    <3> HIDE DEF n, a
    <3>3. a < MaxRetries + n + faults
      BY <3>1, <3>2
    <3> QED
      BY <3>3 DEF n, a
  <2> QED
    BY <2>1 DEF TypeOK, Drain, DrainShape, InLifecycle
<1>3. Init => Drain /\ CapInv /\ InLifecycle
  <2>1. Init => InLifecycle
    BY DEF Init, InLifecycle, Tables!ProjectLifecycle
  <2> QED
    BY <2>1, InitDrain, InitCap
<1>4. Drain /\ CapInv /\ InLifecycle /\ [Next]_vars => Drain' /\ CapInv' /\ InLifecycle'
  BY <1>1, NextDrain, NextCap, NextLifecycle
<1> QED
  BY <1>2, <1>3, <1>4, PTL DEF Spec
=============================================================================
