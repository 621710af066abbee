--------------------------- MODULE OutboxDrainProofs ---------------------------
(***************************************************************************)
(* For any keys, any number of replicas and any cap: an applied row was    *)
(* worked, and a request that came to rest without an attempt of its own   *)
(* has one of the listed excuses.  The strengthening says what a replica   *)
(* holds between its claim and its outcome: a job, and, unless the row was *)
(* requested again since, one whose request the claim has answered.  The   *)
(* bound on attempts needs a count: the replicas that swept and have not   *)
(* claimed yet are the only ones that can begin an attempt past the cap.   *)
(***************************************************************************)
EXTENDS OutboxDrain, FiniteSetTheorems, TLAPS

Working(w) == worker[w].pc \in {"pulling", "failed"}

Shape == row \in [Keys -> Rows] /\ worker \in [Workers -> Replicas] /\ asked \subseteq Keys

WorksOnJobs == \A w \in Workers : Working(w) => worker[w].key \in Jobs

FreshWorkIsAnswered ==
  \A w \in Workers : Working(w) /\ worker[w].fresh => worker[w].key \notin asked

IInv == Shape /\ WorksOnJobs /\ FreshWorkIsAnswered /\ AppliedWasWorked /\ LossesAreExplained

\* The two promises for one key.
Worked(k) ==
  row[k].status = "applied" => k \in Anchors \/ (k \in Jobs /\ <<k, row[k].id>> \in pulled)

Explained(k) ==
  k \in asked =>
    Queued(k) \/ row[k].attempts >= MaxRetries \/ k \in late \/ row[k].status = "none"

LEMMA PerKey ==
  Shape => /\ AppliedWasWorked <=> \A k \in Keys : Worked(k)
           /\ LossesAreExplained <=> \A k \in Keys : Explained(k)
BY DEF AppliedWasWorked, LossesAreExplained, Worked, Explained, Shape

LEMMA PerKeyPrimed ==
  Shape' => /\ AppliedWasWorked' <=> \A k \in Keys : Worked(k)'
            /\ LossesAreExplained' <=> \A k \in Keys : Explained(k)'
BY DEF AppliedWasWorked, LossesAreExplained, Worked, Explained, Shape

LEMMA NoRowIsARow == NoRow \in Rows
BY DEF NoRow, Rows, Queue, Rest

LEMMA InitIInv == Init => IInv
<1> SUFFICES ASSUME Init PROVE IInv
  OBVIOUS
<1>1. Idle \in Replicas
  BY DEF Idle, Replicas
<1>2. Shape
  BY <1>1, NoRowIsARow DEF Init, Shape
<1> QED
  BY <1>2 DEF Init, IInv, WorksOnJobs, FreshWorkIsAnswered, Working, Idle, AppliedWasWorked,
              LossesAreExplained, NoRow

LEMMA FreshIsARow ==
  ASSUME NEW k, row[k] \in Rows
  PROVE  Fresh(k) \in Rows /\ Fresh(k).status = "pending"
<1>1. row[k].id + 1 \in Nat
  BY DEF Rows
<1> QED
  BY <1>1 DEF Fresh, Rows, Queue

LEMMA UpsertIsARow ==
  ASSUME NEW k, row[k] \in Rows
  PROVE  Upsert(k) \in Rows /\ Upsert(k).status = "pending"
<1>1. CASE row[k].status = "none"
  BY <1>1, FreshIsARow DEF Upsert
<1>2. CASE row[k].status # "none"
  <2>1. Upsert(k) = [row[k] EXCEPT !.status = "pending", !.attempts = row[k].attempts + 1,
                                   !.due = TRUE]
    BY <1>2 DEF Upsert
  <2>2. row[k].attempts + 1 \in Nat /\ "pending" \in Queue
    BY DEF Rows, Queue
  <2> QED
    BY <2>1, <2>2 DEF Rows
<1> QED
  BY <1>1, <1>2

LEMMA UpsertPullIsARow ==
  ASSUME NEW k, row[k] \in Rows
  PROVE  /\ UpsertPull(k) \in Rows
         /\ UpsertPull(k).status = "pending" \/ (Queued(k) /\ UpsertPull(k) = row[k])
<1>1. CASE row[k].status = "none"
  BY <1>1, FreshIsARow DEF UpsertPull
<1>2. CASE row[k].status \in Rest
  <2>1. UpsertPull(k) = [row[k] EXCEPT !.status = "pending", !.due = TRUE]
    BY <1>2 DEF UpsertPull, Rearmable, Rest
  <2>2. "pending" \in Queue
    BY DEF Queue
  <2> QED
    BY <2>1, <2>2 DEF Rows
<1>3. CASE row[k].status \in Queue
  BY <1>3 DEF UpsertPull, Rearmable, Rest, Queue, Queued
<1> QED
  BY <1>1, <1>2, <1>3 DEF Rows

(***************************************************************************)
(* A request: the row is pending afterwards, or was queued and stays.      *)
(***************************************************************************)
LEMMA RequestKeeps ==
  ASSUME IInv, NEW k \in Keys, Request(k)
  PROVE  IInv'
<1> DEFINE new == IF k \in Jobs THEN UpsertPull(k) ELSE Upsert(k)
<1>1. /\ row \in [Keys -> Rows] /\ worker \in [Workers -> Replicas] /\ row[k] \in Rows
      /\ asked \subseteq Keys
  BY DEF IInv, Shape
<1>2. /\ new \in Rows
      /\ new.status = "pending" \/ (k \in Jobs /\ Queued(k) /\ new = row[k])
  <2>1. CASE k \in Jobs
    BY <1>1, <2>1, UpsertPullIsARow
  <2>2. CASE k \notin Jobs
    BY <1>1, <2>2, UpsertIsARow
  <2> QED
    BY <2>1, <2>2
<1>4. row' = [row EXCEPT ![k] = new] /\ pulled' = pulled
  BY DEF Request
<1> HIDE DEF new
<1>5. row' \in [Keys -> Rows] /\ row'[k] = new /\ \A q \in Keys \ {k} : row'[q] = row[q]
  BY <1>1, <1>2, <1>4
<1>6. /\ worker' \in [Workers -> Replicas]
      /\ \A w \in Workers : worker'[w].pc = worker[w].pc /\ worker'[w].key = worker[w].key
  <2>1. CASE worker' = worker
    BY <1>1, <2>1
  <2>2. CASE worker' = [w \in Workers |->
                          IF worker[w].key = k THEN [worker[w] EXCEPT !.fresh = FALSE]
                          ELSE worker[w]]
    <3>1. \A w \in Workers : worker[w] \in Replicas
      BY <1>1
    <3>2. \A w \in Workers : [worker[w] EXCEPT !.fresh = FALSE] \in Replicas
      BY <3>1 DEF Replicas
    <3> QED
      BY <2>2, <3>1, <3>2 DEF Replicas
  <2> QED
    BY <2>1, <2>2 DEF Request
<1>7. Shape'
  BY <1>1, <1>5, <1>6 DEF Shape, Request
<1>8. WorksOnJobs'
  BY <1>6 DEF IInv, WorksOnJobs, Working
<1>9. FreshWorkIsAnswered'
  <2>1. CASE k \in Jobs /\ Queued(k)
    BY <2>1 DEF Request, IInv, FreshWorkIsAnswered, Working
  <2>2. CASE ~(k \in Jobs /\ Queued(k))
    <3>1. asked' = asked \cup {k}
      BY <2>2 DEF Request
    <3>2. \A w \in Workers : worker'[w].fresh => worker[w].fresh /\ worker[w].key # k
      BY <1>1, <2>2 DEF Request, Replicas
    <3> QED
      BY <1>6, <3>1, <3>2 DEF IInv, FreshWorkIsAnswered, Working
  <2> QED
    BY <2>1, <2>2
<1>10. \A q \in Keys : Worked(q)'
  <2> SUFFICES ASSUME NEW q \in Keys PROVE Worked(q)'
    OBVIOUS
  <2>1. Worked(q)
    BY PerKey DEF IInv
  <2> QED
    BY <2>1, <1>2, <1>4, <1>5 DEF Worked
<1>11. \A q \in Keys : Explained(q)'
  <2> SUFFICES ASSUME NEW q \in Keys PROVE Explained(q)'
    OBVIOUS
  <2>1. Explained(q)
    BY PerKey DEF IInv
  <2>2. CASE q = k
    BY <2>2, <1>2, <1>5 DEF Explained, Queued, Queue
  <2>3. CASE q # k
    <3>1. (q \in asked' => q \in asked) /\ (q \in late => q \in late')
      BY <2>3 DEF Request
    <3> QED
      BY <2>1, <2>3, <3>1, <1>5 DEF Explained, Queued
  <2> QED
    BY <2>2, <2>3
<1> QED
  BY <1>7, <1>8, <1>9, <1>10, <1>11, PerKeyPrimed DEF IInv

(***************************************************************************)
(* What the invariant asks of a replica's next place.                      *)
(***************************************************************************)
LEMMA WorkerMoves ==
  ASSUME IInv, asked' \subseteq asked, NEW w \in Workers, NEW x \in Replicas,
         worker' = [worker EXCEPT ![w] = x],
         x.pc \in {"pulling", "failed"} =>
           /\ x.key \in Jobs
           /\ x.fresh => x.key \notin asked'
  PROVE  worker' \in [Workers -> Replicas] /\ WorksOnJobs' /\ FreshWorkIsAnswered'
<1>1. /\ worker \in [Workers -> Replicas] /\ WorksOnJobs /\ FreshWorkIsAnswered
  BY DEF IInv, Shape
<1>2. /\ worker' \in [Workers -> Replicas]
      /\ worker'[w] = x /\ \A v \in Workers \ {w} : worker'[v] = worker[v]
  BY <1>1
<1> QED
  BY <1>1, <1>2 DEF WorksOnJobs, FreshWorkIsAnswered, Working

\* The invariant from its parts, the two promises key by key.
LEMMA FromParts ==
  ASSUME row' \in [Keys -> Rows], worker' \in [Workers -> Replicas], asked' \subseteq Keys,
         WorksOnJobs', FreshWorkIsAnswered',
         \A q \in Keys : Worked(q)',
         \A q \in Keys : Explained(q)'
  PROVE  IInv'
<1>1. Shape'
  BY DEF Shape
<1> QED
  BY <1>1, PerKeyPrimed DEF IInv

LEMMA SweepKeeps ==
  ASSUME IInv, NEW w \in Workers, SweepDeadLetters(w)
  PROVE  IInv'
<1>1. /\ row \in [Keys -> Rows] /\ worker \in [Workers -> Replicas] /\ asked \subseteq Keys
  BY DEF IInv, Shape
<1>2. UNCHANGED <<asked, late, pulled>>
  BY DEF SweepDeadLetters
<1> DEFINE some == \E k \in Keys : Queued(k) /\ ~Retirable(k)
           x == [worker[w] EXCEPT !.pc = "dedicated", !.busy = some]
<1>3. worker' = [worker EXCEPT ![w] = x]
  BY <1>1 DEF SweepDeadLetters
<1>4. some \in BOOLEAN
  OBVIOUS
<1> HIDE DEF some
<1>5. x \in Replicas /\ x.pc = "dedicated"
  BY <1>1, <1>4 DEF Replicas
<1>6. worker' \in [Workers -> Replicas] /\ WorksOnJobs' /\ FreshWorkIsAnswered'
  BY <1>2, <1>3, <1>5, WorkerMoves
<1>7. ASSUME NEW q \in Keys
      PROVE  row'[q] \in Rows /\ Worked(q)' /\ Explained(q)'
  <2>1. Worked(q) /\ Explained(q) /\ row[q] \in Rows
    BY <1>1, PerKey DEF IInv
  <2>2. CASE Retirable(q)
    <3>1. row'[q] = [row[q] EXCEPT !.status = "dead", !.applied_at = "recent"]
      BY <1>1, <2>2 DEF SweepDeadLetters
    <3>2. "dead" \in Rest
      BY DEF Rest
    <3>3. row'[q] \in Rows /\ row'[q].status = "dead" /\ row'[q].attempts = row[q].attempts
      BY <2>1, <3>1, <3>2 DEF Rows
    <3> QED
      BY <2>2, <3>3 DEF Worked, Explained, Retirable
  <2>3. CASE ~Retirable(q)
    <3>1. row'[q] = row[q]
      BY <1>1, <2>3 DEF SweepDeadLetters
    <3> QED
      BY <1>2, <2>1, <3>1 DEF Worked, Explained, Queued
  <2> QED
    BY <2>2, <2>3
<1>8. row' \in [Keys -> Rows]
  BY <1>7 DEF SweepDeadLetters
<1> QED
  BY <1>1, <1>2, <1>6, <1>7, <1>8, FromParts

LEMMA ClaimKeeps ==
  ASSUME IInv, NEW w \in Workers, NEW k \in Jobs, ClaimPull(w, k)
  PROVE  IInv'
<1>1. /\ row \in [Keys -> Rows] /\ worker \in [Workers -> Replicas] /\ asked \subseteq Keys
      /\ k \in Keys /\ row[k] \in Rows
  BY DEF IInv, Shape, Keys
<1>2. asked' = asked \ {k} /\ late' = late \ {k} /\ pulled' = pulled
  BY DEF ClaimPull
<1> DEFINE x == [worker[w] EXCEPT !.pc = "pulling", !.key = k, !.id = row[k].id, !.fresh = TRUE]
           new == [row[k] EXCEPT !.status = "processing", !.attempts = row[k].attempts + 1,
                                 !.due = FALSE]
<1>3. worker' = [worker EXCEPT ![w] = x]
  BY <1>1 DEF ClaimPull
<1>4. x \in Replicas /\ x.key = k
  <2>1. row[k].id \in Nat /\ k \in Keys \cup {NoKey} /\ worker[w] \in Replicas
    BY <1>1 DEF Rows
  <2> QED
    BY <2>1 DEF Replicas
<1>5. worker' \in [Workers -> Replicas] /\ WorksOnJobs' /\ FreshWorkIsAnswered'
  <2> HIDE DEF x
  <2>1. asked' \subseteq asked /\ x.key \notin asked'
    BY <1>2, <1>4
  <2> QED
    BY <1>3, <1>4, <2>1, WorkerMoves
<1>6. row' = [row EXCEPT ![k] = new]
  BY <1>1 DEF ClaimPull
<1>7. new \in Rows /\ new.status = "processing"
  <2>1. row[k].attempts + 1 \in Nat /\ "processing" \in Queue
    BY <1>1 DEF Rows, Queue
  <2> QED
    BY <1>1, <2>1 DEF Rows
<1> HIDE DEF new
<1>8. row' \in [Keys -> Rows] /\ row'[k] = new /\ \A q \in Keys \ {k} : row'[q] = row[q]
  BY <1>1, <1>6, <1>7
<1>9. ASSUME NEW q \in Keys
      PROVE  Worked(q)' /\ Explained(q)'
  <2>1. Worked(q) /\ Explained(q)
    BY PerKey DEF IInv
  <2>2. CASE q = k
    BY <1>2, <1>7, <1>8, <2>2 DEF Worked, Explained
  <2>3. CASE q # k
    BY <1>2, <1>8, <2>1, <2>3 DEF Worked, Explained, Queued
  <2> QED
    BY <2>2, <2>3
<1> QED
  BY <1>1, <1>2, <1>5, <1>8, <1>9, FromParts

(***************************************************************************)
(* A replica that only changes its place: the rows and the requests stay.  *)
(***************************************************************************)
LEMMA PlaceKeeps ==
  ASSUME IInv, UNCHANGED <<row, asked, late>>, pulled \subseteq pulled',
         worker' \in [Workers -> Replicas], WorksOnJobs', FreshWorkIsAnswered'
  PROVE  IInv'
<1>1. row' \in [Keys -> Rows] /\ asked' \subseteq Keys
  BY DEF IInv, Shape
<1>2. ASSUME NEW q \in Keys
      PROVE  Worked(q)' /\ Explained(q)'
  <2>1. Worked(q) /\ Explained(q)
    BY PerKey DEF IInv
  <2> QED
    BY <2>1 DEF Worked, Explained, Queued
<1> QED
  BY <1>1, <1>2, FromParts

LEMMA SweepFailsKeeps ==
  ASSUME IInv, NEW w \in Workers, SweepFails(w)
  PROVE  IInv'
<1> DEFINE some == \E k \in Keys : Queued(k)
           x == [worker[w] EXCEPT !.pc = "dedicated", !.busy = some]
<1>1. worker \in [Workers -> Replicas] /\ UNCHANGED <<row, asked, late, pulled>>
  BY DEF IInv, Shape, SweepFails
<1>2. worker' = [worker EXCEPT ![w] = x]
  BY <1>1 DEF SweepFails
<1>3. some \in BOOLEAN
  OBVIOUS
<1> HIDE DEF some
<1>4. x \in Replicas /\ x.pc = "dedicated"
  BY <1>1, <1>3 DEF Replicas
<1>5. worker' \in [Workers -> Replicas] /\ WorksOnJobs' /\ FreshWorkIsAnswered'
  BY <1>1, <1>2, <1>4, WorkerMoves
<1> QED
  BY <1>1, <1>5, PlaceKeeps

(***************************************************************************)
(* An outcome written by the row's id, by a replica that worked on it.     *)
(***************************************************************************)
LEMMA OutcomeKeeps ==
  ASSUME IInv, NEW w \in Workers, Working(w),
         NEW status \in {"applied", "failed"}, NEW applied_at \in {"null", "recent", "old"},
         Record(w, status, applied_at), Leaves(w), UNCHANGED asked,
         pulled \subseteq pulled',
         status = "applied" => <<worker[w].key, worker[w].id>> \in pulled'
  PROVE  IInv'
<1> DEFINE k == worker[w].key
           x == [worker[w] EXCEPT !.pc = "generic", !.key = NoKey, !.id = 0, !.fresh = TRUE]
<1>1. /\ row \in [Keys -> Rows] /\ worker \in [Workers -> Replicas] /\ asked \subseteq Keys
      /\ k \in Jobs /\ k \in Keys /\ row[k] \in Rows
      /\ worker[w].fresh => k \notin asked
  BY DEF IInv, Shape, Keys, WorksOnJobs, FreshWorkIsAnswered
<1>2. worker' = [worker EXCEPT ![w] = x] /\ x \in Replicas /\ x.pc = "generic"
  BY <1>1 DEF Leaves, Replicas
<1>3. worker' \in [Workers -> Replicas] /\ WorksOnJobs' /\ FreshWorkIsAnswered'
  BY <1>2, WorkerMoves
<1>4. CASE row[k].status = "none" \/ row[k].id # worker[w].id
  <2>1. UNCHANGED <<row, late>>
    BY <1>4 DEF Record
  <2> QED
    BY <1>3, <2>1, PlaceKeeps
<1>5. CASE ~(row[k].status = "none" \/ row[k].id # worker[w].id)
  <2> DEFINE new == [row[k] EXCEPT !.status = status, !.applied_at = applied_at]
  <2>1. row' = [row EXCEPT ![k] = new] /\ late' = IF worker[w].fresh THEN late ELSE late \cup {k}
    BY <1>1, <1>5 DEF Record
  <2>2. new \in Rows /\ new.status = status /\ new.id = worker[w].id
    <3>1. status \in Rest
      BY DEF Rest
    <3> QED
      BY <1>1, <1>5, <3>1 DEF Rows
  <2> HIDE DEF new
  <2>3. row' \in [Keys -> Rows] /\ row'[k] = new /\ \A q \in Keys \ {k} : row'[q] = row[q]
    BY <1>1, <2>1, <2>2
  <2>4. ASSUME NEW q \in Keys
        PROVE  Worked(q)' /\ Explained(q)'
    <3>1. Worked(q) /\ Explained(q)
      BY PerKey DEF IInv
    <3>2. CASE q = k
      <4>1. Worked(q)'
        BY <1>1, <2>2, <2>3, <3>2 DEF Worked
      <4>2. Explained(q)'
        BY <1>1, <2>1, <3>2 DEF Explained
      <4> QED
        BY <4>1, <4>2
    <3>3. CASE q # k
      BY <2>1, <2>3, <3>1, <3>3 DEF Worked, Explained, Queued
    <3> QED
      BY <3>2, <3>3
  <2> QED
    BY <1>1, <1>3, <2>3, <2>4, FromParts
<1> QED
  BY <1>4, <1>5

LEMMA DrainKeeps ==
  ASSUME IInv, NEW w \in Workers, DrainGeneric(w)
  PROVE  IInv'
<1> DEFINE x == [worker[w] EXCEPT !.pc = "prune"]
<1>1. /\ row \in [Keys -> Rows] /\ worker \in [Workers -> Replicas] /\ asked \subseteq Keys
  BY DEF IInv, Shape
<1>2. asked' = {k \in asked : ~(Claimable(k) /\ (Generic(k) \/ Unroutable(k)))}
      /\ UNCHANGED <<late, pulled>>
  BY DEF DrainGeneric
<1>3. worker' = [worker EXCEPT ![w] = x] /\ x \in Replicas /\ x.pc = "prune"
  BY <1>1 DEF DrainGeneric, Goes, Replicas
<1>4. worker' \in [Workers -> Replicas] /\ WorksOnJobs' /\ FreshWorkIsAnswered'
  BY <1>2, <1>3, WorkerMoves
<1>5. ASSUME NEW q \in Keys
      PROVE  row'[q] \in Rows /\ Worked(q)' /\ Explained(q)'
  <2>1. Worked(q) /\ Explained(q) /\ row[q] \in Rows
    BY <1>1, PerKey DEF IInv
  <2>2. CASE Claimable(q) /\ Unroutable(q)
    <3>1. row'[q] = [row[q] EXCEPT !.status = "failed"]
      BY <2>2 DEF DrainGeneric, Unroutable
    <3>3. q \notin asked'
      BY <1>2, <2>2
    <3>2. "failed" \in Rest
      BY DEF Rest
    <3> QED
      BY <2>1, <3>1, <3>2, <3>3 DEF Rows, Worked, Explained
  <2>3. CASE Claimable(q) /\ ~Unroutable(q) /\ Generic(q)
    <3>1. row'[q] = [row[q] EXCEPT !.status = "applied", !.attempts = row[q].attempts + 1,
                                   !.due = FALSE, !.applied_at = "recent"]
      BY <2>3 DEF DrainGeneric
    <3>2. q \notin asked' /\ q \in Anchors
      BY <1>2, <2>3 DEF Generic
    <3>3. row'[q] \in Rows
      <4>1. "applied" \in Rest /\ row[q].attempts + 1 \in Nat
        BY <2>1 DEF Rest, Rows
      <4> QED
        BY <2>1, <3>1, <4>1 DEF Rows
    <3> QED
      BY <3>2, <3>3 DEF Worked, Explained
  <2>4. CASE ~(Claimable(q) /\ (Generic(q) \/ Unroutable(q)))
    <3>1. row'[q] = row[q] /\ (q \in asked' => q \in asked)
      BY <1>2, <2>4 DEF DrainGeneric
    <3> QED
      BY <1>2, <2>1, <3>1 DEF Worked, Explained, Queued
  <2> QED
    BY <2>2, <2>3, <2>4
<1>6. row' \in [Keys -> Rows]
  BY <1>5 DEF DrainGeneric
<1>7. asked' \subseteq Keys
  BY <1>1, <1>2
<1> QED
  BY <1>4, <1>5, <1>6, <1>7, FromParts

LEMMA PruneKeeps ==
  ASSUME IInv, NEW w \in Workers, Prune(w)
  PROVE  IInv'
<1>1. /\ row \in [Keys -> Rows] /\ worker \in [Workers -> Replicas] /\ asked \subseteq Keys
      /\ UNCHANGED <<asked, late, pulled>>
  BY DEF IInv, Shape, Prune
<1>2. Idle \in Replicas /\ Idle.pc = "idle"
  BY DEF Idle, Replicas
<1>3. worker' \in [Workers -> Replicas] /\ WorksOnJobs' /\ FreshWorkIsAnswered'
  BY <1>1, <1>2, WorkerMoves DEF Prune
<1>4. CASE row' = row
  BY <1>1, <1>3, <1>4, PlaceKeeps
<1>5. CASE row' = [k \in Keys |->
                     IF row[k].applied_at = "old" THEN [NoRow EXCEPT !.id = row[k].id] ELSE row[k]]
  <2>1. ASSUME NEW q \in Keys
        PROVE  row'[q] \in Rows /\ Worked(q)' /\ Explained(q)'
    <3>1. Worked(q) /\ Explained(q) /\ row[q] \in Rows
      BY <1>1, PerKey DEF IInv
    <3>2. CASE row[q].applied_at = "old"
      <4>1. row'[q] = [NoRow EXCEPT !.id = row[q].id]
        BY <1>5, <3>2
      <4>2. row[q].id \in Nat /\ NoRow.status = "none"
        BY <3>1 DEF Rows, NoRow
      <4>3. row'[q] \in Rows /\ row'[q].status = "none"
        BY <4>1, <4>2, NoRowIsARow DEF Rows
      <4> QED
        BY <4>3 DEF Worked, Explained
    <3>3. CASE row[q].applied_at # "old"
      <4>1. row'[q] = row[q]
        BY <1>5, <3>3
      <4> QED
        BY <1>1, <3>1, <4>1 DEF Worked, Explained, Queued
    <3> QED
      BY <3>2, <3>3
  <2>2. row' \in [Keys -> Rows]
    BY <1>5, <2>1
  <2> QED
    BY <1>1, <1>3, <2>1, <2>2, FromParts
<1> QED
  BY <1>4, <1>5 DEF Prune

(***************************************************************************)
(* The steps that touch no row: a replica moves on, gives up or crashes.   *)
(***************************************************************************)
LEMMA MoveOnKeeps ==
  ASSUME IInv, NEW w \in Workers,
         NoPull(w) \/ SkipGeneric(w) \/ PullFails(w) \/ MarkLost(w) \/ Crash(w)
  PROVE  IInv'
<1>1. /\ worker \in [Workers -> Replicas]
      /\ UNCHANGED <<row, asked, late, pulled>>
  BY DEF IInv, Shape, NoPull, SkipGeneric, PullFails, MarkLost, Crash
<1>2. CASE NoPull(w) \/ SkipGeneric(w) \/ PullFails(w)
  <2> SUFFICES ASSUME NEW pc \in {"generic", "prune", "failed"},
                      worker' = [worker EXCEPT ![w].pc = pc],
                      pc = "failed" => worker[w].pc = "pulling"
               PROVE  IInv'
    BY <1>2 DEF NoPull, SkipGeneric, PullFails, Goes
  <2> DEFINE x == [worker[w] EXCEPT !.pc = pc]
  <2>1. worker' = [worker EXCEPT ![w] = x] /\ x \in Replicas
    BY <1>1 DEF Replicas
  <2>2. x.pc = pc /\ x.key = worker[w].key /\ x.fresh = worker[w].fresh
    BY <1>1 DEF Replicas
  <2> HIDE DEF x
  <2>3. pc = "failed" => x.key \in Jobs /\ (x.fresh => x.key \notin asked')
    BY <1>1, <2>2 DEF IInv, WorksOnJobs, FreshWorkIsAnswered, Working
  <2>4. worker' \in [Workers -> Replicas] /\ WorksOnJobs' /\ FreshWorkIsAnswered'
    BY <1>1, <2>1, <2>2, <2>3, WorkerMoves
  <2> QED
    BY <1>1, <2>4, PlaceKeeps
<1>3. CASE MarkLost(w)
  <2> DEFINE x == [worker[w] EXCEPT !.pc = "generic", !.key = NoKey, !.id = 0, !.fresh = TRUE]
  <2>1. worker' = [worker EXCEPT ![w] = x] /\ x \in Replicas /\ x.pc = "generic"
    BY <1>1, <1>3 DEF MarkLost, Leaves, Replicas
  <2>2. worker' \in [Workers -> Replicas] /\ WorksOnJobs' /\ FreshWorkIsAnswered'
    BY <1>1, <2>1, WorkerMoves
  <2> QED
    BY <1>1, <2>2, PlaceKeeps
<1>4. CASE Crash(w)
  <2>1. Idle \in Replicas /\ Idle.pc = "idle" /\ worker' = [worker EXCEPT ![w] = Idle]
    BY <1>4 DEF Idle, Replicas, Crash
  <2>2. worker' \in [Workers -> Replicas] /\ WorksOnJobs' /\ FreshWorkIsAnswered'
    BY <1>1, <2>1, WorkerMoves
  <2> QED
    BY <1>1, <2>2, PlaceKeeps
<1> QED
  BY <1>2, <1>3, <1>4

LEMMA RecordsKeep ==
  ASSUME IInv, NEW w \in Workers, PullSucceeds(w) \/ MarkFailed(w)
  PROVE  IInv'
<1>1. CASE PullSucceeds(w)
  <2>1. /\ Working(w) /\ Record(w, "applied", "recent") /\ Leaves(w) /\ UNCHANGED asked
        /\ pulled' = pulled \cup {<<worker[w].key, worker[w].id>>}
    BY <1>1 DEF PullSucceeds, Working
  <2> QED
    BY <2>1, OutcomeKeeps
<1>2. CASE MarkFailed(w)
  <2> DEFINE at == row[worker[w].key].applied_at
  <2>1. /\ Working(w) /\ Record(w, "failed", at) /\ Leaves(w) /\ UNCHANGED <<asked, pulled>>
    BY <1>2 DEF MarkFailed, Working
  <2>2. at \in {"null", "recent", "old"}
    <3>1. worker[w].key \in Keys
      BY <2>1 DEF IInv, WorksOnJobs, Keys
    <3>2. row[worker[w].key] \in Rows
      BY <3>1 DEF IInv, Shape
    <3> QED
      BY <3>2 DEF Rows
  <2> HIDE DEF at
  <2> QED
    BY <2>1, <2>2, OutcomeKeeps
<1> QED
  BY <1>1, <1>2

\* The clock: a lease runs out, or the retention window passes.
LEMMA ClockKeeps ==
  ASSUME IInv, NEW k \in Keys, LeaseEnds(k) \/ GrowsOld(k)
  PROVE  IInv'
<1>1. /\ row \in [Keys -> Rows] /\ row[k] \in Rows
      /\ worker' = worker /\ UNCHANGED <<asked, late, pulled>>
  BY DEF IInv, Shape, LeaseEnds, GrowsOld
<1>2. worker' \in [Workers -> Replicas] /\ asked' \subseteq Keys
      /\ WorksOnJobs' /\ FreshWorkIsAnswered'
  BY <1>1 DEF IInv, Shape, WorksOnJobs, FreshWorkIsAnswered, Working
<1>3. PICK new \in Rows :
        /\ row' = [row EXCEPT ![k] = new]
        /\ new.status = row[k].status /\ new.attempts = row[k].attempts /\ new.id = row[k].id
  <2>1. CASE LeaseEnds(k)
    <3> DEFINE x == [row[k] EXCEPT !.due = TRUE]
    <3>1. row' = [row EXCEPT ![k] = x]
      BY <1>1, <2>1 DEF LeaseEnds
    <3>2. x \in Rows /\ x.status = row[k].status /\ x.attempts = row[k].attempts
          /\ x.id = row[k].id
      BY <1>1 DEF Rows
    <3> HIDE DEF x
    <3> QED
      BY <3>1, <3>2
  <2>2. CASE GrowsOld(k)
    <3> DEFINE x == [row[k] EXCEPT !.applied_at = "old"]
    <3>1. row' = [row EXCEPT ![k] = x]
      BY <1>1, <2>2 DEF GrowsOld
    <3>2. x \in Rows /\ x.status = row[k].status /\ x.attempts = row[k].attempts
          /\ x.id = row[k].id
      BY <1>1 DEF Rows
    <3> HIDE DEF x
    <3> QED
      BY <3>1, <3>2
  <2> QED
    BY <2>1, <2>2
<1>4. row' \in [Keys -> Rows] /\ row'[k] = new /\ \A q \in Keys \ {k} : row'[q] = row[q]
  BY <1>1, <1>3
<1>5. ASSUME NEW q \in Keys
      PROVE  Worked(q)' /\ Explained(q)'
  <2>1. Worked(q) /\ Explained(q)
    BY PerKey DEF IInv
  <2> QED
    BY <1>1, <1>3, <1>4, <2>1 DEF Worked, Explained, Queued
<1> QED
  BY <1>2, <1>4, <1>5, FromParts

LEMMA NextIInv == IInv /\ [Next]_vars => IInv'
<1> SUFFICES ASSUME IInv, [Next]_vars PROVE IInv'
  OBVIOUS
<1>1. ASSUME NEW k \in Keys, Request(k) \/ LeaseEnds(k) \/ GrowsOld(k)
      PROVE  IInv'
  BY <1>1, RequestKeeps, ClockKeeps
<1>2. ASSUME NEW w \in Workers, Heartbeat(w) \/ Crash(w)
      PROVE  IInv'
  <2>1. CASE \E k \in Jobs : ClaimPull(w, k)
    BY <2>1, ClaimKeeps
  <2>2. CASE SweepDeadLetters(w)
    BY <2>2, SweepKeeps
  <2>3. CASE PullSucceeds(w) \/ MarkFailed(w)
    BY <2>3, RecordsKeep
  <2>4. CASE DrainGeneric(w)
    BY <2>4, DrainKeeps
  <2>5. CASE Prune(w)
    BY <2>5, PruneKeeps
  <2>6. CASE NoPull(w) \/ SkipGeneric(w) \/ PullFails(w) \/ MarkLost(w) \/ Crash(w)
    BY <2>6, MoveOnKeeps
  <2>7. CASE SweepFails(w)
    BY <2>7, SweepFailsKeeps
  <2> QED
    BY <1>2, <2>1, <2>2, <2>3, <2>4, <2>5, <2>6, <2>7 DEF Heartbeat
<1>3. CASE UNCHANGED vars
  <2>1. /\ UNCHANGED <<row, asked, late, pulled, worker>>
        /\ worker' \in [Workers -> Replicas] /\ WorksOnJobs' /\ FreshWorkIsAnswered'
    BY <1>3 DEF vars, IInv, Shape, WorksOnJobs, FreshWorkIsAnswered, Working
  <2> QED
    BY <2>1, PlaceKeeps
<1> QED
  BY <1>1, <1>2, <1>3 DEF Next

(***************************************************************************)
(* The outbox contract: an applied row was worked, by the generic drain    *)
(* only when there is nothing to do but apply it.                          *)
(***************************************************************************)
THEOREM AppliedRowsWereWorked == Spec => []AppliedWasWorked
<1>1. IInv => AppliedWasWorked
  BY DEF IInv
<1> QED
  BY <1>1, InitIInv, NextIInv, PTL DEF Spec

(***************************************************************************)
(* A request that came to rest without an attempt of its own lost it to    *)
(* the cap, to an older attempt's late outcome, or to the prune.           *)
(***************************************************************************)
THEOREM OnlyExplainedLosses == Spec => []LossesAreExplained
<1>1. IInv => LossesAreExplained
  BY DEF IInv
<1> QED
  BY <1>1, InitIInv, NextIInv, PTL DEF Spec
-----------------------------------------------------------------------------
(* The types, and with them the bound on attempts.                           *)

Dedicated == {w \in Workers : worker[w].pc = "dedicated"}

Ceiling == MaxRetries + Cardinality(Workers) * requests + faults

\* Once a job has reached the cap only a replica that swept before can claim
\* it again, and each claims once: what those replicas may still add stays
\* under the ceiling.  A request re-arms a resting row for all of them at once.
Capped(k) ==
  /\ row[k].status # "none" => requests >= 1
  /\ row[k].attempts >= MaxRetries =>
       /\ row[k].attempts < Ceiling
       /\ Queued(k) => row[k].attempts + Cardinality(Dedicated) < Ceiling

CapInv ==
  /\ requests \in Nat /\ faults \in Nat /\ late \subseteq Keys
  /\ \A k \in Jobs : Capped(k)

\* The ceiling is a natural number, and how far it moves.
LEMMA CeilingMoves ==
  ASSUME requests \in Nat, faults \in Nat
  PROVE  /\ Cardinality(Workers) \in Nat /\ Ceiling \in Nat /\ MaxRetries <= Ceiling
         /\ requests >= 1 => MaxRetries + Cardinality(Workers) <= Ceiling
         /\ UNCHANGED <<requests, faults>> => Ceiling' = Ceiling
         /\ faults' = faults + 1 /\ UNCHANGED requests => Ceiling' = Ceiling + 1
         /\ requests' = requests + 1 /\ UNCHANGED faults =>
              Ceiling' = Ceiling + Cardinality(Workers)
<1> DEFINE n == Cardinality(Workers)
<1>1. n \in Nat /\ MaxRetries \in Nat
  BY FS_CardinalityType, BoundsAreNaturals
<1>2. Ceiling = MaxRetries + n * requests + faults /\ Ceiling' = MaxRetries + n * requests' + faults'
  BY DEF Ceiling
<1> HIDE DEF n
<1>3. n * requests \in Nat /\ n * (requests + 1) = n * requests + n
  BY <1>1
<1>4. requests >= 1 => n <= n * requests
  <2> SUFFICES ASSUME requests >= 1 PROVE n <= n * requests
    OBVIOUS
  <2>1. requests - 1 \in Nat /\ n * requests = n * (requests - 1) + n
    BY <1>1
  <2>2. n * (requests - 1) \in Nat
    BY <1>1, <2>1
  <2> QED
    BY <1>1, <2>1, <2>2
<1> DEFINE p == n * requests
<1>5. /\ p \in Nat
      /\ requests' = requests + 1 => n * requests' = p + n
      /\ requests' = requests => n * requests' = p
      /\ requests >= 1 => n <= p
      /\ Ceiling = MaxRetries + p + faults
  BY <1>2, <1>3, <1>4
<1> HIDE DEF p
<1>6. /\ Ceiling \in Nat /\ MaxRetries <= Ceiling
      /\ requests >= 1 => MaxRetries + n <= Ceiling
  BY <1>1, <1>5
<1>7. UNCHANGED <<requests, faults>> => Ceiling' = Ceiling
  BY <1>2, <1>5
<1>8. faults' = faults + 1 /\ UNCHANGED requests => Ceiling' = Ceiling + 1
  <2> SUFFICES ASSUME faults' = faults + 1, requests' = requests PROVE Ceiling' = Ceiling + 1
    OBVIOUS
  <2>1. Ceiling' = MaxRetries + p + (faults + 1)
    BY <1>2, <1>5
  <2> QED
    BY <1>1, <1>5, <2>1
<1>9. requests' = requests + 1 /\ UNCHANGED faults => Ceiling' = Ceiling + n
  <2> SUFFICES ASSUME requests' = requests + 1, faults' = faults PROVE Ceiling' = Ceiling + n
    OBVIOUS
  <2>1. Ceiling' = MaxRetries + (p + n) + faults
    BY <1>2, <1>5
  <2> QED
    BY <1>1, <1>5, <2>1
<1> QED
  BY <1>1, <1>6, <1>7, <1>8, <1>9 DEF n

\* A replica's step moves nobody else, so the replicas that may still claim
\* become one more, one fewer, or stay as many.
LEMMA DedicatedMove ==
  ASSUME worker \in [Workers -> Replicas], NEW w \in Workers, NEW x,
         worker' = [worker EXCEPT ![w] = x]
  PROVE  /\ Cardinality(Dedicated) \in Nat /\ Cardinality(Dedicated)' \in Nat
         /\ Cardinality(Dedicated)' <= Cardinality(Dedicated) + 1
         /\ x.pc # "dedicated" => Cardinality(Dedicated)' <= Cardinality(Dedicated)
         /\ x.pc # "dedicated" /\ worker[w].pc = "dedicated" =>
              /\ Cardinality(Dedicated)' + 1 <= Cardinality(Dedicated)
              /\ Cardinality(Dedicated)' + 1 <= Cardinality(Workers)
<1> DEFINE T == {v \in Workers : worker'[v].pc = "dedicated"}
<1>1. worker'[w] = x /\ \A v \in Workers \ {w} : worker'[v] = worker[v]
  OBVIOUS
<1>2. /\ Dedicated \subseteq Workers /\ T \subseteq Workers
      /\ T \subseteq Dedicated \cup {w}
      /\ x.pc # "dedicated" => T \subseteq Dedicated \ {w}
      /\ w \in Dedicated <=> worker[w].pc = "dedicated"
  BY <1>1 DEF Dedicated
<1>3. Cardinality(Dedicated)' = Cardinality(T)
  BY DEF Dedicated
<1> HIDE DEF T
<1>4. IsFiniteSet(Workers)
  BY BoundsAreNaturals
<1>5. IsFiniteSet(Dedicated) /\ Cardinality(Dedicated) <= Cardinality(Workers)
  BY <1>2, <1>4, FS_Subset
<1>6. IsFiniteSet(T) /\ Cardinality(Dedicated) \in Nat /\ Cardinality(Workers) \in Nat
      /\ Cardinality(T) \in Nat
  BY <1>2, <1>4, <1>5, FS_Subset, FS_CardinalityType
<1>7. /\ IsFiniteSet(Dedicated \cup {w})
      /\ Cardinality(Dedicated \cup {w}) <= Cardinality(Dedicated) + 1
      /\ Cardinality(Dedicated \cup {w}) \in Nat
  <2>1. /\ IsFiniteSet(Dedicated \cup {w})
        /\ \/ Cardinality(Dedicated \cup {w}) = Cardinality(Dedicated)
           \/ Cardinality(Dedicated \cup {w}) = Cardinality(Dedicated) + 1
    BY <1>5, FS_AddElement
  <2> QED
    BY <1>6, <2>1
<1>8. Cardinality(T) <= Cardinality(Dedicated \cup {w})
  BY <1>2, <1>7, FS_Subset
<1>9. x.pc # "dedicated" => Cardinality(T) <= Cardinality(Dedicated \ {w})
  BY <1>2, <1>5, FS_RemoveElement, FS_Subset
<1>10. /\ w \in Dedicated => Cardinality(Dedicated \ {w}) = Cardinality(Dedicated) - 1
       /\ w \notin Dedicated => Cardinality(Dedicated \ {w}) = Cardinality(Dedicated)
  BY <1>5, FS_RemoveElement
<1> DEFINE c == Cardinality(Dedicated)
           d == Cardinality(T)
           n == Cardinality(Workers)
           u == Cardinality(Dedicated \cup {w})
           v == Cardinality(Dedicated \ {w})
<1>11. /\ c \in Nat /\ d \in Nat /\ n \in Nat /\ u \in Nat
       /\ c <= n /\ u <= c + 1 /\ d <= u
       /\ x.pc # "dedicated" => d <= v
       /\ w \in Dedicated => v = c - 1
       /\ w \notin Dedicated => v = c
       /\ w \in Dedicated <=> worker[w].pc = "dedicated"
  BY <1>2, <1>5, <1>6, <1>7, <1>8, <1>9, <1>10
<1> HIDE DEF c, d, n, u, v
<1>12. /\ d <= c + 1
       /\ x.pc # "dedicated" => d <= c
       /\ x.pc # "dedicated" /\ worker[w].pc = "dedicated" => d + 1 <= c /\ d + 1 <= n
  BY <1>11
<1> QED
  BY <1>3, <1>11, <1>12 DEF c, d, n

\* A step that begins no attempt keeps the cap when it lets one more replica
\* claim only against a fault, and re-arms a row only against a request.
LEMMA CapStands ==
  ASSUME NEW k \in Jobs, row[k] \in Rows, Capped(k),
         requests \in Nat, faults \in Nat, requests' \in Nat, requests <= requests',
         Cardinality(Dedicated) \in Nat, Cardinality(Dedicated)' \in Nat,
         Ceiling' \in Nat, Ceiling <= Ceiling',
         row'[k].attempts = row[k].attempts \/ row'[k].attempts = 0,
         row'[k].status # "none" => row[k].status # "none" \/ requests' >= 1,
         Queued(k)' /\ row'[k].attempts >= MaxRetries =>
           \/ /\ Queued(k)
              /\ Cardinality(Dedicated)' + Ceiling <= Cardinality(Dedicated) + Ceiling'
           \/ Cardinality(Dedicated)' + Ceiling <= Ceiling'
  PROVE  Capped(k)'
<1> DEFINE c == Cardinality(Dedicated)
           d == Cardinality(Dedicated)'
           a == row[k].attempts
           b == row'[k].attempts
           e == Ceiling
           f == Ceiling'
<1>1. row'[k].status # "none" => requests' >= 1
  BY DEF Capped
<1>2. a \in Nat /\ MaxRetries \in Nat \ {0} /\ e \in Nat /\ f \in Nat /\ c \in Nat /\ d \in Nat
      /\ e <= f
  BY CeilingMoves, BoundsAreNaturals DEF Rows
<1>3. b = a \/ b = 0
  OBVIOUS
<1>4. a >= MaxRetries => (a < e /\ (Queued(k) => a + c < e))
  BY DEF Capped
<1>5. Queued(k)' /\ b >= MaxRetries => (Queued(k) /\ d + e <= c + f) \/ d + e <= f
  OBVIOUS
<1>6. Capped(k)' <=> /\ row'[k].status # "none" => requests' >= 1
                     /\ b >= MaxRetries => (b < f /\ (Queued(k)' => b + d < f))
  BY DEF Capped
<1> HIDE DEF a, b, c, d, e, f
<1>7. b >= MaxRetries => b = a /\ a >= MaxRetries /\ b < f
  BY <1>2, <1>3, <1>4
<1>8. ASSUME b >= MaxRetries, Queued(k)' PROVE b + d < f
  <2>1. b = a /\ a < e /\ (Queued(k) => a + c < e)
    BY <1>4, <1>7, <1>8
  <2>2. CASE Queued(k) /\ d + e <= c + f
    <3>1. a + c < e /\ d + e <= c + f
      BY <2>1, <2>2
    <3> QED
      BY ONLY <3>1, <1>2, <2>1
  <2>3. CASE d + e <= f
    BY ONLY <1>2, <2>1, <2>3
  <2> QED
    BY <1>5, <1>8, <2>2, <2>3
<1> QED
  BY <1>1, <1>6, <1>7, <1>8

LEMMA InitCap == Init => CapInv
<1> SUFFICES ASSUME Init PROVE CapInv
  OBVIOUS
<1>1. ASSUME NEW k \in Jobs PROVE Capped(k)
  <2>1. row[k].status = "none" /\ row[k].attempts = 0
    BY DEF Init, Keys, NoRow
  <2>2. MaxRetries \in Nat \ {0}
    BY BoundsAreNaturals
  <2> QED
    BY <2>1, <2>2 DEF Capped
<1> QED
  BY <1>1 DEF Init, CapInv

\* A replica that leaves the dedicated drains or was past them.
LEMMA PassedCap ==
  ASSUME IInv, CapInv, NEW w \in Workers, NEW x, worker' = [worker EXCEPT ![w] = x],
         x.pc # "dedicated", late' \subseteq Keys,
         UNCHANGED requests, faults' = faults \/ faults' = faults + 1,
         \A k \in Jobs :
           /\ row'[k].attempts = row[k].attempts \/ row'[k].attempts = 0
           /\ row'[k].status # "none" => row[k].status # "none"
           /\ row'[k].status \in Queue => row[k].status \in Queue
  PROVE  CapInv'
<1>1. /\ row \in [Keys -> Rows] /\ worker \in [Workers -> Replicas]
      /\ requests \in Nat /\ faults \in Nat /\ Jobs \subseteq Keys
  BY DEF IInv, Shape, CapInv, Keys
<1>2. /\ Cardinality(Dedicated) \in Nat /\ Cardinality(Dedicated)' \in Nat
      /\ Cardinality(Dedicated)' <= Cardinality(Dedicated)
  BY <1>1, DedicatedMove
<1>3. /\ Ceiling \in Nat /\ Ceiling' \in Nat /\ Ceiling <= Ceiling'
  <2>1. Ceiling \in Nat /\ (Ceiling' = Ceiling \/ Ceiling' = Ceiling + 1)
    BY <1>1, CeilingMoves
  <2> QED
    BY <2>1
<1>4. Cardinality(Dedicated)' + Ceiling <= Cardinality(Dedicated) + Ceiling'
  <2> DEFINE c == Cardinality(Dedicated)
             d == Cardinality(Dedicated)'
             e == Ceiling
             f == Ceiling'
  <2>1. c \in Nat /\ d \in Nat /\ d <= c /\ e \in Nat /\ f \in Nat /\ e <= f
    BY <1>2, <1>3
  <2> HIDE DEF c, d, e, f
  <2>2. d + e <= c + f
    BY ONLY <2>1
  <2> QED
    BY <2>2 DEF c, d, e, f
<1>5. ASSUME NEW k \in Jobs PROVE Capped(k)'
  <2>1. row[k] \in Rows /\ Capped(k)
    BY <1>1 DEF CapInv
  <2>2. /\ requests' \in Nat /\ requests <= requests'
        /\ row'[k].status # "none" => row[k].status # "none" \/ requests' >= 1
        /\ Queued(k)' => Queued(k)
    BY <1>1 DEF Queued
  <2> QED
    BY <1>1, <1>2, <1>3, <1>4, <2>1, <2>2, CapStands
<1>6. requests' \in Nat /\ faults' \in Nat
  BY <1>1
<1> QED
  BY <1>5, <1>6 DEF CapInv

LEMMA ReplicaCap ==
  ASSUME IInv, CapInv, NEW w \in Workers,
         NoPull(w) \/ SkipGeneric(w) \/ PullFails(w) \/ MarkLost(w) \/ Crash(w)
  PROVE  CapInv'
<1>1. /\ worker \in [Workers -> Replicas] /\ late \subseteq Keys
      /\ UNCHANGED <<row, late, requests>> /\ (faults' = faults \/ faults' = faults + 1)
  BY DEF IInv, Shape, CapInv, NoPull, SkipGeneric, PullFails, MarkLost, Crash
<1>2. PICK x \in Replicas : worker' = [worker EXCEPT ![w] = x] /\ x.pc # "dedicated"
  <2>1. CASE NoPull(w) \/ SkipGeneric(w) \/ PullFails(w)
    <3> SUFFICES ASSUME NEW pc \in {"generic", "prune", "failed"},
                        worker' = [worker EXCEPT ![w].pc = pc]
                 PROVE  \E x \in Replicas :
                          worker' = [worker EXCEPT ![w] = x] /\ x.pc # "dedicated"
      BY <2>1 DEF NoPull, SkipGeneric, PullFails, Goes
    <3> DEFINE x == [worker[w] EXCEPT !.pc = pc]
    <3>1. worker' = [worker EXCEPT ![w] = x] /\ x \in Replicas /\ x.pc # "dedicated"
      BY <1>1 DEF Replicas
    <3> QED
      BY <3>1
  <2>2. CASE MarkLost(w)
    <3> DEFINE x == [worker[w] EXCEPT !.pc = "generic", !.key = NoKey, !.id = 0, !.fresh = TRUE]
    <3>1. worker' = [worker EXCEPT ![w] = x] /\ x \in Replicas /\ x.pc # "dedicated"
      BY <1>1, <2>2 DEF MarkLost, Leaves, Replicas
    <3> QED
      BY <3>1
  <2>3. CASE Crash(w)
    <3>1. Idle \in Replicas /\ Idle.pc # "dedicated" /\ worker' = [worker EXCEPT ![w] = Idle]
      BY <2>3 DEF Idle, Replicas, Crash
    <3> QED
      BY <3>1
  <2> QED
    BY <2>1, <2>2, <2>3
<1>3. \A k \in Jobs :
        /\ row'[k].attempts = row[k].attempts \/ row'[k].attempts = 0
        /\ row'[k].status # "none" => row[k].status # "none"
        /\ row'[k].status \in Queue => row[k].status \in Queue
  BY <1>1
<1>4. late' \subseteq Keys
  BY <1>1
<1> QED
  BY <1>1, <1>2, <1>3, <1>4, PassedCap

\* An outcome takes a row out of the queue, and marks it late when it was
\* requested again since.
LEMMA OutcomeCap ==
  ASSUME IInv, CapInv, NEW w \in Workers, PullSucceeds(w) \/ MarkFailed(w)
  PROVE  CapInv'
<1> DEFINE k == worker[w].key
           x == [worker[w] EXCEPT !.pc = "generic", !.key = NoKey, !.id = 0, !.fresh = TRUE]
<1>1. /\ row \in [Keys -> Rows] /\ worker \in [Workers -> Replicas] /\ late \subseteq Keys
      /\ UNCHANGED <<requests, faults>> /\ Jobs \subseteq Keys
  BY DEF IInv, Shape, CapInv, Keys, PullSucceeds, MarkFailed
<1>2. k \in Jobs
  BY DEF IInv, WorksOnJobs, Working, PullSucceeds, MarkFailed
<1>3. worker' = [worker EXCEPT ![w] = x] /\ x.pc # "dedicated"
  BY <1>1 DEF Leaves, Replicas, PullSucceeds, MarkFailed
<1> HIDE DEF x
<1>4. PICK status \in {"applied", "failed"} : \E at : Record(w, status, at)
  BY DEF PullSucceeds, MarkFailed
<1>5. PICK at : Record(w, status, at)
  BY <1>4
<1>6. late' \subseteq Keys
  BY <1>1, <1>2, <1>5 DEF Record
<1>7. ASSUME NEW q \in Jobs
      PROVE  /\ row'[q].attempts = row[q].attempts \/ row'[q].attempts = 0
             /\ row'[q].status # "none" => row[q].status # "none"
             /\ row'[q].status \in Queue => row[q].status \in Queue
  <2>1. row[q] \in Rows
    BY <1>1
  <2>2. CASE row' = row
    BY <2>2
  <2>3. CASE row[k].status # "none" /\ row' = [row EXCEPT ![k].status = status, ![k].applied_at = at]
    <3>1. CASE q = k
      <4> DEFINE new == [row[k] EXCEPT !.status = status, !.applied_at = at]
      <4>1. row'[k] = new
        BY <1>1, <1>2, <2>3
      <4>2. new.status = status /\ new.attempts = row[k].attempts
        BY <2>1, <3>1 DEF Rows
      <4> QED
        BY <2>3, <3>1, <4>1, <4>2 DEF Queue
    <3>2. CASE q # k
      <4>1. row'[q] = row[q]
        BY <1>1, <2>3, <3>2
      <4> QED
        BY <4>1
    <3> QED
      BY <3>1, <3>2
  <2> QED
    BY <1>5, <2>2, <2>3 DEF Record
<1> QED
  BY <1>1, <1>3, <1>6, <1>7, PassedCap

\* The generic drain and the prune: no job gains an attempt there.
LEMMA DrainPruneCap ==
  ASSUME IInv, CapInv, NEW w \in Workers, DrainGeneric(w) \/ Prune(w)
  PROVE  CapInv'
<1>1. /\ row \in [Keys -> Rows] /\ worker \in [Workers -> Replicas] /\ late \subseteq Keys
      /\ UNCHANGED <<requests, faults, late>> /\ Jobs \subseteq Keys
  BY DEF IInv, Shape, CapInv, Keys, DrainGeneric, Prune
<1>2. PICK x \in Replicas : worker' = [worker EXCEPT ![w] = x] /\ x.pc # "dedicated"
  <2>1. CASE DrainGeneric(w)
    <3> DEFINE x == [worker[w] EXCEPT !.pc = "prune"]
    <3>1. worker' = [worker EXCEPT ![w] = x] /\ x \in Replicas /\ x.pc # "dedicated"
      BY <1>1, <2>1 DEF DrainGeneric, Goes, Replicas
    <3> QED
      BY <3>1
  <2>2. CASE Prune(w)
    <3>1. Idle \in Replicas /\ Idle.pc # "dedicated" /\ worker' = [worker EXCEPT ![w] = Idle]
      BY <2>2 DEF Idle, Replicas, Prune
    <3> QED
      BY <3>1
  <2> QED
    BY <2>1, <2>2
<1>3. ASSUME NEW q \in Jobs
      PROVE  /\ row'[q].attempts = row[q].attempts \/ row'[q].attempts = 0
             /\ row'[q].status # "none" => row[q].status # "none"
             /\ row'[q].status \in Queue => row[q].status \in Queue
  <2>1. CASE DrainGeneric(w)
    <3>1. ~Generic(q) /\ ~Unroutable(q)
      BY KindsAreDisjoint DEF Generic, Unroutable
    <3>2. row'[q] = row[q]
      BY <1>1, <2>1, <3>1 DEF DrainGeneric
    <3> QED
      BY <3>2
  <2>2. CASE Prune(w)
    <3>1. row'[q] = row[q] \/ row'[q] = [NoRow EXCEPT !.id = row[q].id]
      BY <1>1, <2>2 DEF Prune
    <3>2. [NoRow EXCEPT !.id = row[q].id].status = "none"
          /\ [NoRow EXCEPT !.id = row[q].id].attempts = 0
      BY DEF NoRow
    <3> QED
      BY <3>1, <3>2 DEF Queue
  <2> QED
    BY <2>1, <2>2
<1>4. late' \subseteq Keys
  BY <1>1
<1> QED
  BY <1>1, <1>2, <1>3, <1>4, PassedCap

LEMMA DedicatedAreFew ==
  /\ Cardinality(Dedicated) \in Nat /\ Cardinality(Workers) \in Nat
  /\ Cardinality(Dedicated) <= Cardinality(Workers)
<1>1. Dedicated \subseteq Workers /\ IsFiniteSet(Workers)
  BY BoundsAreNaturals DEF Dedicated
<1> QED
  BY <1>1, FS_Subset, FS_CardinalityType

\* The same replicas may claim: steps of the clock and of the API.
LEMMA ClockCap ==
  ASSUME IInv, CapInv, NEW k \in Keys, LeaseEnds(k) \/ GrowsOld(k)
  PROVE  CapInv'
<1>1. /\ row \in [Keys -> Rows] /\ row[k] \in Rows /\ Jobs \subseteq Keys /\ requests \in Nat
      /\ faults \in Nat /\ late \subseteq Keys
      /\ UNCHANGED <<worker, requests, faults, late>>
  BY DEF IInv, Shape, CapInv, Keys, LeaseEnds, GrowsOld
<1>2. Cardinality(Dedicated)' = Cardinality(Dedicated) /\ Ceiling' = Ceiling /\ Ceiling \in Nat
  BY <1>1, CeilingMoves DEF Dedicated
<1>3. ASSUME NEW q \in Jobs
      PROVE  row'[q].status = row[q].status /\ row'[q].attempts = row[q].attempts
  <2>1. row[q] \in Rows
    BY <1>1
  <2> QED
    BY <1>1, <2>1 DEF LeaseEnds, GrowsOld, Rows
<1>4. ASSUME NEW q \in Jobs PROVE Capped(q)'
  <2>1. Capped(q)
    BY DEF CapInv
  <2> QED
    BY <1>1, <1>2, <1>3, <2>1 DEF Capped, Queued
<1> QED
  BY <1>1, <1>4 DEF CapInv

LEMMA RequestCap ==
  ASSUME IInv, CapInv, NEW k \in Keys, Request(k)
  PROVE  CapInv'
<1>1. /\ row \in [Keys -> Rows] /\ worker \in [Workers -> Replicas] /\ row[k] \in Rows
      /\ Jobs \subseteq Keys /\ requests \in Nat /\ faults \in Nat /\ late \subseteq Keys
      /\ requests' = requests + 1 /\ faults' = faults
  BY DEF IInv, Shape, CapInv, Keys, Request
<1>2. late' \subseteq Keys
  BY <1>1 DEF Request
<1>3. \A w \in Workers : worker'[w].pc = worker[w].pc
  <2>1. CASE worker' = worker
    BY <2>1
  <2>2. CASE worker' = [w \in Workers |->
                          IF worker[w].key = k THEN [worker[w] EXCEPT !.fresh = FALSE]
                          ELSE worker[w]]
    <3>1. \A w \in Workers : worker[w] \in Replicas
      BY <1>1
    <3>2. \A w \in Workers : [worker[w] EXCEPT !.fresh = FALSE].pc = worker[w].pc
      BY <3>1 DEF Replicas
    <3> QED
      BY <2>2, <3>2
  <2> QED
    BY <2>1, <2>2 DEF Request
<1>4. Dedicated' = Dedicated
  BY <1>3 DEF Dedicated
<1>5. /\ Ceiling \in Nat /\ Ceiling' = Ceiling + Cardinality(Workers)
      /\ Cardinality(Dedicated)' = Cardinality(Dedicated)
  BY <1>1, <1>4, CeilingMoves
<1>6. /\ Cardinality(Dedicated) \in Nat /\ Cardinality(Dedicated)' \in Nat /\ Ceiling' \in Nat
      /\ Ceiling <= Ceiling'
      /\ Cardinality(Dedicated)' + Ceiling <= Ceiling'
  <2> DEFINE c == Cardinality(Dedicated)
             n == Cardinality(Workers)
             e == Ceiling
  <2>1. c \in Nat /\ n \in Nat /\ c <= n /\ e \in Nat
    BY <1>5, DedicatedAreFew
  <2>2. Ceiling' = e + n /\ Cardinality(Dedicated)' = c
    BY <1>5
  <2> HIDE DEF c, n, e
  <2>3. e + n \in Nat /\ e <= e + n /\ c + e <= e + n
    BY ONLY <2>1
  <2> QED
    BY <2>1, <2>2, <2>3 DEF c, e
<1>7. ASSUME NEW q \in Jobs PROVE Capped(q)'
  <2>1. Capped(q) /\ row[q] \in Rows
    BY <1>1 DEF CapInv
  <2>2. row'[q].attempts = row[q].attempts \/ row'[q].attempts = 0
    <3>1. CASE q = k
      <4>1. row'[q] = UpsertPull(q)
        BY <1>1, <3>1 DEF Request
      <4> QED
        BY <2>1, <4>1 DEF UpsertPull, Fresh, Rows
    <3>2. CASE q # k
      <4>1. row'[q] = row[q]
        BY <1>1, <3>2 DEF Request
      <4> QED
        BY <4>1
    <3> QED
      BY <3>1, <3>2
  <2>3. requests' \in Nat /\ requests <= requests' /\ requests' >= 1
    BY <1>1
  <2> QED
    BY <1>1, <1>6, <2>1, <2>2, <2>3, CapStands
<1>8. requests' \in Nat /\ faults' \in Nat
  BY <1>1
<1> QED
  BY <1>2, <1>7, <1>8 DEF CapInv

\* The sweep leaves no queued row at the cap; when it fails, a fault pays for
\* the replica that goes on without it.
LEMMA SweepCap ==
  ASSUME IInv, CapInv, NEW w \in Workers, SweepDeadLetters(w) \/ SweepFails(w)
  PROVE  CapInv'
<1>1. /\ row \in [Keys -> Rows] /\ worker \in [Workers -> Replicas]
      /\ Jobs \subseteq Keys /\ requests \in Nat /\ faults \in Nat /\ late \subseteq Keys
      /\ UNCHANGED <<requests, late>>
  BY DEF IInv, Shape, CapInv, Keys, SweepDeadLetters, SweepFails
<1>2. \E x : worker' = [worker EXCEPT ![w] = x]
  <2>1. CASE SweepDeadLetters(w)
    <3> DEFINE some == \E k \in Keys : Queued(k) /\ ~Retirable(k)
    <3>1. worker' = [worker EXCEPT ![w] = [worker[w] EXCEPT !.pc = "dedicated", !.busy = some]]
      BY <1>1, <2>1 DEF SweepDeadLetters
    <3> QED
      BY <3>1
  <2>2. CASE SweepFails(w)
    <3> DEFINE some == \E k \in Keys : Queued(k)
    <3>1. worker' = [worker EXCEPT ![w] = [worker[w] EXCEPT !.pc = "dedicated", !.busy = some]]
      BY <1>1, <2>2 DEF SweepFails
    <3> QED
      BY <3>1
  <2> QED
    BY <2>1, <2>2
<1>3. /\ Cardinality(Dedicated) \in Nat /\ Cardinality(Dedicated)' \in Nat
      /\ Cardinality(Dedicated)' <= Cardinality(Dedicated) + 1
  BY <1>1, <1>2, DedicatedMove
<1>4. CASE SweepDeadLetters(w)
  <2>1. Ceiling \in Nat /\ Ceiling' = Ceiling /\ faults' = faults
    BY <1>1, <1>4, CeilingMoves DEF SweepDeadLetters
  <2>2. ASSUME NEW q \in Jobs PROVE Capped(q)'
    <3>1. Capped(q) /\ row[q] \in Rows
      BY <1>1 DEF CapInv
    <3>2. /\ row'[q].attempts = row[q].attempts
          /\ row'[q].status # "none" => row[q].status # "none"
          /\ ~(Queued(q)' /\ row'[q].attempts >= MaxRetries)
      <4>1. CASE Retirable(q)
        <5>1. row'[q] = [row[q] EXCEPT !.status = "dead", !.applied_at = "recent"]
          BY <1>1, <1>4, <4>1 DEF SweepDeadLetters
        <5>2. row'[q].status = "dead" /\ row'[q].attempts = row[q].attempts
          BY <3>1, <5>1 DEF Rows
        <5> QED
          BY <4>1, <5>2 DEF Queued, Queue, Retirable
      <4>2. CASE ~Retirable(q)
        <5>1. row'[q] = row[q]
          BY <1>1, <1>4, <4>2 DEF SweepDeadLetters
        <5> QED
          BY <4>2, <5>1 DEF Queued, Retirable
      <4> QED
        BY <4>1, <4>2
    <3>3. requests' \in Nat /\ requests <= requests' /\ Ceiling' \in Nat /\ Ceiling <= Ceiling'
      BY <1>1, <2>1
    <3> QED
      BY <1>1, <1>3, <3>1, <3>2, <3>3, CapStands
  <2> QED
    BY <1>1, <2>1, <2>2 DEF CapInv
<1>5. CASE SweepFails(w)
  <2>1. Ceiling \in Nat /\ Ceiling' = Ceiling + 1 /\ faults' = faults + 1 /\ row' = row
    BY <1>1, <1>5, CeilingMoves DEF SweepFails
  <2>2. Cardinality(Dedicated)' + Ceiling <= Cardinality(Dedicated) + Ceiling'
    <3> DEFINE c == Cardinality(Dedicated)
               d == Cardinality(Dedicated)'
               e == Ceiling
    <3>1. c \in Nat /\ d \in Nat /\ d <= c + 1 /\ e \in Nat
      BY <1>3, <2>1
    <3>2. Ceiling' = e + 1
      BY <2>1
    <3> HIDE DEF c, d, e
    <3>3. d + e <= c + (e + 1)
      BY ONLY <3>1
    <3> QED
      BY <3>2, <3>3 DEF c, d, e
  <2>3. ASSUME NEW q \in Jobs PROVE Capped(q)'
    <3>1. Capped(q) /\ row[q] \in Rows
      BY <1>1 DEF CapInv
    <3>2. /\ row'[q].attempts = row[q].attempts
          /\ row'[q].status # "none" => row[q].status # "none"
          /\ Queued(q)' => Queued(q)
      BY <2>1 DEF Queued
    <3>3. requests' \in Nat /\ requests <= requests' /\ Ceiling' \in Nat /\ Ceiling <= Ceiling'
      BY <1>1, <2>1
    <3> QED
      BY <1>1, <1>3, <2>2, <3>1, <3>2, <3>3, CapStands
  <2> QED
    BY <1>1, <2>1, <2>3 DEF CapInv
<1> QED
  BY <1>4, <1>5

\* A claim spends the claim the replica had.
LEMMA ClaimCap ==
  ASSUME IInv, CapInv, NEW w \in Workers, NEW k \in Jobs, ClaimPull(w, k)
  PROVE  CapInv'
<1>1. /\ row \in [Keys -> Rows] /\ worker \in [Workers -> Replicas] /\ row[k] \in Rows
      /\ Jobs \subseteq Keys /\ requests \in Nat /\ faults \in Nat /\ late \subseteq Keys
      /\ UNCHANGED <<requests, faults>> /\ late' \subseteq Keys
  BY DEF IInv, Shape, CapInv, Keys, ClaimPull
<1> DEFINE x == [worker[w] EXCEPT !.pc = "pulling", !.key = k, !.id = row[k].id, !.fresh = TRUE]
<1>2. worker' = [worker EXCEPT ![w] = x] /\ x.pc # "dedicated" /\ worker[w].pc = "dedicated"
  BY <1>1 DEF ClaimPull, Replicas
<1> HIDE DEF x
<1>3. /\ Cardinality(Dedicated) \in Nat /\ Cardinality(Dedicated)' \in Nat
      /\ Cardinality(Dedicated)' + 1 <= Cardinality(Dedicated)
      /\ Cardinality(Dedicated)' + 1 <= Cardinality(Workers)
      /\ Cardinality(Workers) \in Nat
  BY <1>1, <1>2, DedicatedMove, DedicatedAreFew
<1>4. Ceiling \in Nat /\ Ceiling' = Ceiling
  BY <1>1, CeilingMoves
<1>5. Capped(k)'
  <2>1. Queued(k) /\ Capped(k)
    BY DEF ClaimPull, Claimable, CapInv
  <2>2. row'[k].attempts = row[k].attempts + 1
    <3>1. row'[k] = [row[k] EXCEPT !.status = "processing", !.attempts = row[k].attempts + 1,
                                   !.due = FALSE]
      BY <1>1 DEF ClaimPull
    <3> QED
      BY <1>1, <3>1 DEF Rows
  <2>3. requests >= 1
    BY <2>1 DEF Capped, Queued, Queue
  <2> DEFINE c == Cardinality(Dedicated)
             d == Cardinality(Dedicated)'
             n == Cardinality(Workers)
             a == row[k].attempts
             e == Ceiling
  <2>4. /\ a \in Nat /\ MaxRetries \in Nat /\ e \in Nat
        /\ c \in Nat /\ d \in Nat /\ n \in Nat /\ d + 1 <= c /\ d + 1 <= n
        /\ MaxRetries + n <= e
        /\ a >= MaxRetries => a + c < e
    BY <1>1, <1>3, <1>4, <2>1, <2>3, CeilingMoves, BoundsAreNaturals DEF Rows, Capped
  <2>5. Capped(k)' <=> /\ row'[k].status # "none" => requests' >= 1
                       /\ a + 1 >= MaxRetries => (a + 1 < e /\ (Queued(k)' => a + 1 + d < e))
    BY <1>4, <2>2 DEF Capped
  <2> HIDE DEF a, c, d, e, n
  <2>6. a + 1 >= MaxRetries => a + 1 + d < e
    <3>1. CASE a >= MaxRetries
      BY ONLY <2>4, <3>1
    <3>2. CASE a < MaxRetries
      BY ONLY <2>4, <3>2
    <3> QED
      BY <2>4, <3>1, <3>2
  <2>7. a + 1 >= MaxRetries => a + 1 < e
    BY ONLY <2>4, <2>6
  <2> QED
    BY <1>1, <2>3, <2>5, <2>6, <2>7
<1>6. ASSUME NEW q \in Jobs PROVE Capped(q)'
  <2>1. CASE q # k
    <3>1. Capped(q) /\ row[q] \in Rows
      BY <1>1 DEF CapInv
    <3>2. row'[q] = row[q]
      BY <1>1, <2>1 DEF ClaimPull
    <3>3. /\ row'[q].attempts = row[q].attempts
          /\ row'[q].status # "none" => row[q].status # "none"
          /\ Queued(q)' => Queued(q)
      BY <3>2 DEF Queued
    <3>4. Cardinality(Dedicated)' + Ceiling <= Cardinality(Dedicated) + Ceiling'
      <4> DEFINE c == Cardinality(Dedicated)
                 d == Cardinality(Dedicated)'
                 e == Ceiling
      <4>1. c \in Nat /\ d \in Nat /\ d + 1 <= c /\ e \in Nat
        BY <1>3, <1>4
      <4> HIDE DEF c, d, e
      <4>2. d + e <= c + e
        BY ONLY <4>1
      <4> QED
        BY <1>4, <4>2 DEF c, d, e
    <3>5. requests' \in Nat /\ requests <= requests' /\ Ceiling' \in Nat /\ Ceiling <= Ceiling'
      BY <1>1, <1>4
    <3> QED
      BY <1>1, <1>3, <3>1, <3>3, <3>4, <3>5, CapStands
  <2> QED
    BY <1>5, <2>1
<1> QED
  BY <1>1, <1>6 DEF CapInv

LEMMA NextCap == IInv /\ CapInv /\ [Next]_vars => CapInv'
<1> SUFFICES ASSUME IInv, CapInv, [Next]_vars PROVE CapInv'
  OBVIOUS
<1>1. ASSUME NEW k \in Keys, Request(k) \/ LeaseEnds(k) \/ GrowsOld(k)
      PROVE  CapInv'
  BY <1>1, RequestCap, ClockCap
<1>2. ASSUME NEW w \in Workers, Heartbeat(w) \/ Crash(w)
      PROVE  CapInv'
  <2>1. CASE \E k \in Jobs : ClaimPull(w, k)
    BY <2>1, ClaimCap
  <2>2. CASE SweepDeadLetters(w) \/ SweepFails(w)
    BY <2>2, SweepCap
  <2>3. CASE PullSucceeds(w) \/ MarkFailed(w)
    BY <2>3, OutcomeCap
  <2>4. CASE DrainGeneric(w) \/ Prune(w)
    BY <2>4, DrainPruneCap
  <2>5. CASE NoPull(w) \/ SkipGeneric(w) \/ PullFails(w) \/ MarkLost(w) \/ Crash(w)
    BY <2>5, ReplicaCap
  <2> QED
    BY <1>2, <2>1, <2>2, <2>3, <2>4, <2>5 DEF Heartbeat
<1>3. CASE UNCHANGED vars
  BY <1>3 DEF vars, CapInv, Capped, Ceiling, Dedicated, Queued
<1> QED
  BY <1>1, <1>2, <1>3 DEF Next

(***************************************************************************)
(* The types of rows and replicas, and the bound on the attempts of a job: *)
(* past the cap, one more per replica and request, and one per failed      *)
(* sweep or crash.                                                         *)
(***************************************************************************)
THEOREM TypeCorrect == Spec => []TypeOK
<1>1. IInv /\ CapInv => TypeOK
  <2> SUFFICES ASSUME IInv, CapInv PROVE TypeOK
    OBVIOUS
  <2>1. row \in [Keys -> Rows] /\ worker \in [Workers -> Replicas] /\ asked \subseteq Keys
        /\ late \subseteq Keys
    BY DEF IInv, Shape, CapInv
  <2>2. ASSUME NEW k \in Jobs PROVE row[k].attempts < Ceiling
    <3>1. CASE row[k].attempts >= MaxRetries
      BY <3>1 DEF CapInv, Capped
    <3>2. CASE row[k].attempts < MaxRetries
      <4>1. MaxRetries <= Ceiling /\ Ceiling \in Nat /\ MaxRetries \in Nat
        BY CeilingMoves, BoundsAreNaturals DEF CapInv
      <4>2. row[k].attempts \in Nat
        BY <2>1 DEF Keys, Rows
      <4> QED
        BY <3>2, <4>1, <4>2
    <3> QED
      <4>1. row[k].attempts \in Nat /\ MaxRetries \in Nat
        BY <2>1, BoundsAreNaturals DEF Keys, Rows
      <4> QED
        BY <3>1, <3>2, <4>1
  <2> QED
    BY <2>1, <2>2 DEF TypeOK, Ceiling
<1> QED
  BY <1>1, InitIInv, InitCap, NextIInv, NextCap, PTL DEF Spec
=============================================================================
