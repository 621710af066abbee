------------------------- MODULE PayrollEnrolmentProofs -------------------------
(***************************************************************************)
(* The locks, whatever the windows, the replicas and the order of the      *)
(* rows, and the books of payroll enrolment, for any reviews, periods,     *)
(* bridges and clerks.                                                     *)
(*                                                                         *)
(* That a reopened run keeps no lock, and that an approved run holds those *)
(* it asked for, rest on the order of things, in any number of replicas.   *)
(* While a run that is no longer approved holds an entry, an unlock of it  *)
(* is still to be applied that will find every entry; an approved run's    *)
(* own lock is still to be applied or has found every entry.               *)
(*                                                                         *)
(* The books ask nothing of the locks but their types: what an enrolment   *)
(* read may be stale in every way, reviews may reopen and entries may be   *)
(* deleted or locked by other runs when it writes.                         *)
(***************************************************************************)
EXTENDS PayrollEnrolment, TLAPS
-----------------------------------------------------------------------------
(* Types.  A replica's claim names a key, and keys have a version, so the   *)
(* attempts a claim carries and the rows it writes are the queue's own.     *)

\* Every row that was enqueued belongs to a version its run has reached.
RowsAreOfDecisions ==
  \A k \in Keys : row[k].action # "none" => k[2] \in 2..run[k[1]].state_version

WritersHaveClaims == \A w \in Workers : worker[w].pc = "writing" <=> worker[w].claim # Nobody

Shape ==
  /\ run \in [Runs -> RunRecords]
  /\ owner \in [Entries -> Runs \cup {Nobody}]
  /\ row \in [Keys -> RowRecords]
  /\ worker \in [Workers -> Replicas]

HistoryFits ==
  /\ deleted \subseteq Entries
  /\ raced \subseteq Runs /\ late \subseteq Runs /\ skipped \subseteq Runs \X Entries

LEMMA LockTypeParts ==
  LockTypeOK <=> Shape /\ RowsAreOfDecisions /\ WritersHaveClaims /\ HistoryFits
BY DEF LockTypeOK, Shape, RowsAreOfDecisions, WritersHaveClaims, HistoryFits

LEMMA LockTypeInit == LockInit => LockTypeOK
<1> SUFFICES ASSUME LockInit PROVE LockTypeOK
  OBVIOUS
<1>1. run \in [Runs -> RunRecords] /\ owner \in [Entries -> Runs \cup {Nobody}]
  BY LockAssumption DEF LockInit, RunRecords
<1>2. NoRow \in RowRecords /\ NoRow.action = "none"
  BY LockAssumption DEF NoRow, RowRecords, Live
<1>3. row = [k \in Keys |-> NoRow] /\ worker = [w \in Workers |-> Idle]
  BY DEF LockInit
<1>4. Idle \in Replicas /\ Idle.pc # "writing" /\ Idle.claim = Nobody
  BY DEF Idle, Replicas
<1>5. Shape
  BY <1>1, <1>2, <1>3, <1>4 DEF Shape
<1>6. RowsAreOfDecisions /\ WritersHaveClaims
  BY <1>2, <1>3, <1>4 DEF RowsAreOfDecisions, WritersHaveClaims
<1>7. HistoryFits
  BY DEF LockInit, HistoryFits
<1> QED
  BY <1>5, <1>6, <1>7, LockTypeParts

\* A replica that moves on leaves the others as they are.
LEMMA ReplicaMoves ==
  ASSUME LockTypeOK, NEW w \in Workers, NEW next \in Replicas,
         worker' = [worker EXCEPT ![w] = next],
         next.pc = "writing" <=> next.claim # Nobody
  PROVE  worker' \in [Workers -> Replicas] /\ WritersHaveClaims'
<1>1. worker \in [Workers -> Replicas] /\ WritersHaveClaims
  BY LockTypeParts DEF Shape
<1>2. worker'[w] = next /\ \A v \in Workers \ {w} : worker'[v] = worker[v]
  BY <1>1
<1> QED
  BY <1>1, <1>2 DEF WritersHaveClaims

\* A queue step that keeps each row's action.
LEMMA RowsKept ==
  ASSUME LockTypeOK, UNCHANGED run, row' \in [Keys -> RowRecords],
         \A k \in Keys : row'[k].action = row[k].action
  PROVE  RowsAreOfDecisions'
BY LockTypeParts DEF RowsAreOfDecisions

LEMMA NextRowTypes ==
  ASSUME LockTypeOK, NEW w \in Workers, NextRow(w)
  PROVE  worker' \in [Workers -> Replicas] /\ WritersHaveClaims'
<1> DEFINE next == [Idle EXCEPT !.pc = IF worker[w].batch = {} THEN "idle" ELSE "rows",
                                !.batch = worker[w].batch]
<1>1. worker[w] \in Replicas
  BY LockTypeParts DEF Shape
<1>2. next \in Replicas /\ next.pc # "writing" /\ next.claim = Nobody
  BY <1>1 DEF Idle, Replicas
<1>3. worker' = [worker EXCEPT ![w] = next]
  BY DEF NextRow
<1> HIDE DEF next
<1> QED
  BY <1>2, <1>3, ReplicaMoves

\* One row's status, attempts or due date.
LEMMA RowMoves ==
  ASSUME LockTypeOK, UNCHANGED run, NEW k \in Keys, NEW next \in RowRecords,
         row' = [row EXCEPT ![k] = next], next.action = row[k].action
  PROVE  row' \in [Keys -> RowRecords] /\ RowsAreOfDecisions'
<1>1. row \in [Keys -> RowRecords]
  BY LockTypeParts DEF Shape
<1>2. row' \in [Keys -> RowRecords] /\ \A j \in Keys : row'[j].action = row[j].action
  BY <1>1
<1> QED
  BY <1>2, RowsKept

LEMMA ReviewTypes ==
  ASSUME LockTypeOK, NEW r \in Runs,
         DraftRun(r) \/ InsertRun(r) \/ \E type \in EventTypes : Decide(r, type)
  PROVE  Shape' /\ RowsAreOfDecisions' /\ WritersHaveClaims'
<1>1. run \in [Runs -> RunRecords] /\ run[r] \in RunRecords /\ row \in [Keys -> RowRecords]
      /\ owner \in [Entries -> Runs \cup {Nobody}] /\ worker \in [Workers -> Replicas]
      /\ RowsAreOfDecisions /\ WritersHaveClaims
      /\ owner' = owner /\ worker' = worker
  BY LockTypeParts DEF Shape, DraftRun, InsertRun, Decide
<1>2. CASE DraftRun(r) \/ InsertRun(r)
  <2>1. PICK next \in RunRecords :
           run' = [run EXCEPT ![r] = next] /\ next.state_version = run[r].state_version
    <3>1. CASE DraftRun(r)
      <4> DEFINE chosen == {e \in Window[r] \ deleted : owner[e] = Nobody}
                 y == [run[r] EXCEPT !.state = "drafted", !.covered_entry_ids = chosen]
      <4>1. chosen \in SUBSET Entries
        BY LockAssumption
      <4>2. run' = [run EXCEPT ![r] = y]
        BY <1>1, <3>1 DEF DraftRun
      <4> HIDE DEF chosen
      <4>3. y \in RunRecords /\ y.state_version = run[r].state_version
        BY <1>1, <4>1 DEF RunRecords
      <4> HIDE DEF y
      <4> QED
        BY <4>2, <4>3
    <3>2. CASE InsertRun(r)
      <4> DEFINE y == [run[r] EXCEPT !.state = "pending"]
      <4>1. run' = [run EXCEPT ![r] = y]
        BY <1>1, <3>2 DEF InsertRun
      <4>2. y \in RunRecords /\ y.state_version = run[r].state_version
        BY <1>1 DEF RunRecords, States
      <4> HIDE DEF y
      <4> QED
        BY <4>1, <4>2
    <3> QED
      BY <1>2, <3>1, <3>2
  <2>2. row' = row
    BY <1>2 DEF DraftRun, InsertRun
  <2>3. run' \in [Runs -> RunRecords] /\ \A q \in Runs : run'[q].state_version = run[q].state_version
    BY <1>1, <2>1
  <2>4. RowsAreOfDecisions'
    BY <1>1, <2>2, <2>3 DEF RowsAreOfDecisions, Keys
  <2>5. Shape' /\ WritersHaveClaims'
    BY <1>1, <2>2, <2>3 DEF Shape, WritersHaveClaims
  <2> QED
    BY <2>4, <2>5
<1>3. ASSUME NEW type \in EventTypes, Decide(r, type)
      PROVE  Shape' /\ RowsAreOfDecisions' /\ WritersHaveClaims'
  <2> DEFINE next == Reduce(run[r], type)
             v == run[r].state_version
             new == [ action |-> SideEffect[type], status |-> "pending",
                      attempt_count |-> 0, due |-> TRUE ]
  <2>1. run' = [run EXCEPT ![r] = next] /\ v < MaxVersion
    BY <1>3 DEF Decide
  <2>2. next \in RunRecords /\ next.state_version = v + 1 /\ v \in Nat \ {0}
    <3>1. v \in 1..MaxVersion
      BY <1>1 DEF RunRecords
    <3>2. Target[type] \in States
      BY DEF EventTypes, Target, States
    <3>3. v + 1 \in 1..MaxVersion
      BY <2>1, <3>1, LockAssumption
    <3>4. next = [run[r] EXCEPT !.state = Target[type], !.state_version = v + 1]
      BY DEF Reduce
    <3> HIDE DEF next, v
    <3>5. run[r] \in RunRecords
      BY <1>1
    <3>6. next \in RunRecords /\ next.state_version = v + 1
      BY <3>2, <3>3, <3>4, <3>5 DEF RunRecords
    <3>7. v \in Nat \ {0}
      BY <3>1, LockAssumption
    <3> QED
      BY <3>6, <3>7
  <2>3. <<r, v + 1>> \in Keys
    BY <2>1, <2>2, LockAssumption DEF Keys
  <2>4. new \in RowRecords
    BY LockAssumption DEF EventTypes, SideEffect, RowRecords, Live
  <2>5. row' = row \/ row' = [row EXCEPT ![<<r, v + 1>>] = new]
    BY <1>3 DEF Decide, RowKey
  <2> HIDE DEF next, v, new
  <2>6. run' \in [Runs -> RunRecords] /\ run'[r].state_version = v + 1
        /\ \A q \in Runs \ {r} : run'[q] = run[q]
    BY <1>1, <2>1, <2>2
  <2>7. row' \in [Keys -> RowRecords] /\ \A k \in Keys : k # <<r, v + 1>> => row'[k] = row[k]
    BY <1>1, <2>3, <2>4, <2>5
  <2>8. ASSUME NEW k \in Keys, row'[k].action # "none"
        PROVE  k[2] \in 2..run'[k[1]].state_version
    <3>1. CASE k = <<r, v + 1>>
      BY <2>2, <2>6, <3>1
    <3>2. CASE k # <<r, v + 1>>
      <4>1. k[1] \in Runs /\ k[2] \in 2..run[k[1]].state_version
        BY <1>1, <2>7, <2>8, <3>2 DEF RowsAreOfDecisions, Keys
      <4>2. CASE k[1] = r
        BY <2>2, <2>6, <4>1, <4>2 DEF v
      <4>3. CASE k[1] # r
        BY <2>6, <4>1, <4>3
      <4> QED
        BY <4>2, <4>3
    <3> QED
      BY <3>1, <3>2
  <2>9. Shape' /\ WritersHaveClaims'
    BY <1>1, <2>6, <2>7 DEF Shape, WritersHaveClaims
  <2> QED
    BY <2>8, <2>9 DEF RowsAreOfDecisions
<1> QED
  BY <1>2, <1>3

LEMMA DrainTypes ==
  ASSUME LockTypeOK, NEW w \in Workers, WorkerStep(w) \/ Crash(w)
  PROVE  Shape' /\ RowsAreOfDecisions' /\ WritersHaveClaims'
<1>1. /\ run \in [Runs -> RunRecords] /\ owner \in [Entries -> Runs \cup {Nobody}]
      /\ row \in [Keys -> RowRecords] /\ worker \in [Workers -> Replicas]
      /\ worker[w] \in Replicas /\ RowsAreOfDecisions /\ WritersHaveClaims
  BY LockTypeParts DEF Shape
<1>2. UNCHANGED run
  BY DEF WorkerStep, Sweep, SweepFails, Claim, StartStatement, CommitRow, RowFails, Crash
<1>3. row' \in [Keys -> RowRecords] /\ RowsAreOfDecisions'
  <2>1. CASE row' = row
    BY <1>1, <1>2, <2>1, RowsKept
  <2>2. CASE Sweep(w)
    <3>1. \A k \in Keys : /\ [row[k] EXCEPT !.status = "dead"] \in RowRecords
                          /\ [row[k] EXCEPT !.status = "dead"].action = row[k].action
      BY <1>1 DEF RowRecords, Live
    <3>2. row' = [k \in Keys |-> IF Retirable(k) THEN [row[k] EXCEPT !.status = "dead"] ELSE row[k]]
      BY <2>2 DEF Sweep
    <3> QED
      BY <1>1, <1>2, <3>1, <3>2, RowsKept
  <2>3. CASE Claim(w)
    <3> DEFINE claimed(k) == [row[k] EXCEPT !.status = "processing", !.due = FALSE,
                                            !.attempt_count = Attempt(k)]
    <3>1. \A k \in Keys : claimed(k) \in RowRecords /\ claimed(k).action = row[k].action
      <4> SUFFICES ASSUME NEW k \in Keys
                   PROVE  claimed(k) \in RowRecords /\ claimed(k).action = row[k].action
        OBVIOUS
      <4>1. Attempt(k) \in 0..MaxRetries
        BY <1>1, LockAssumption DEF Attempt, RowRecords
      <4>2. row[k] \in RowRecords
        BY <1>1
      <4> QED
        BY <4>1, <4>2 DEF RowRecords, Live
    <3>2. PICK batch : row' = [k \in Keys |-> IF k \in batch THEN claimed(k) ELSE row[k]]
      BY <2>3 DEF Claim
    <3> HIDE DEF claimed
    <3> QED
      BY <1>1, <1>2, <3>1, <3>2, RowsKept
  <2>4. CASE CommitRow(w)
    <3> DEFINE k == worker[w].claim.key
               next == [row[k] EXCEPT !.status = "applied"]
    <3>1. k \in Keys
      BY <1>1, <2>4 DEF CommitRow, WritersHaveClaims, Replicas, Claims
    <3>2. next \in RowRecords /\ next.action = row[k].action /\ row' = [row EXCEPT ![k] = next]
      BY <1>1, <2>4, <3>1 DEF CommitRow, RowRecords, Live
    <3> HIDE DEF k, next
    <3> QED
      BY <1>2, <3>1, <3>2, RowMoves
  <2>5. ASSUME RowFails(w), row' # row
        PROVE  row' \in [Keys -> RowRecords] /\ RowsAreOfDecisions'
    <3> DEFINE c == worker[w].claim
               k == c.key
               status == IF c.attempt >= MaxAttempts THEN "failed" ELSE "pending"
               next == [row[k] EXCEPT !.status = status, !.due = FALSE]
    <3>1. k \in Keys
      BY <1>1, <2>5 DEF RowFails, WritersHaveClaims, Replicas, Claims
    <3>2. status \in {"failed", "pending"}
      OBVIOUS
    <3>3. row' = [row EXCEPT ![k].status = status, ![k].due = FALSE]
      BY <2>5 DEF RowFails
    <3> HIDE DEF status, k
    <3>4. next \in RowRecords /\ next.action = row[k].action /\ row' = [row EXCEPT ![k] = next]
      BY <1>1, <3>1, <3>2, <3>3 DEF RowRecords, Live
    <3> HIDE DEF next
    <3> QED
      BY <1>2, <3>1, <3>4, RowMoves
  <2> QED
    BY <2>1, <2>2, <2>3, <2>4, <2>5 DEF WorkerStep, SweepFails, StartStatement, Crash
<1>4. owner' \in [Entries -> Runs \cup {Nobody}]
  <2>1. CASE CommitRow(w)
    <3> DEFINE k == worker[w].claim.key
    <3>1. k \in Keys
      BY <1>1, <2>1 DEF CommitRow, WritersHaveClaims, Replicas, Claims
    <3>2. owner' = Write(k, worker[w].seen)
      BY <2>1 DEF CommitRow
    <3> HIDE DEF k
    <3> QED
      BY <1>1, <3>1, <3>2 DEF Write, Keys
  <2>2. CASE owner' = owner
    BY <1>1, <2>2
  <2> QED
    BY <2>1, <2>2 DEF WorkerStep, Sweep, SweepFails, Claim, StartStatement, RowFails, Crash
<1>5. worker' \in [Workers -> Replicas] /\ WritersHaveClaims'
  <2>1. CASE Sweep(w) \/ SweepFails(w)
    <3> DEFINE next == [worker[w] EXCEPT !.pc = "swept"]
    <3>1. next \in Replicas /\ next.pc # "writing" /\ next.claim = worker[w].claim
      BY <1>1 DEF Replicas
    <3>2. worker[w].claim = Nobody /\ worker' = [worker EXCEPT ![w] = next]
      BY <1>1, <2>1 DEF Sweep, SweepFails, WritersHaveClaims
    <3> HIDE DEF next
    <3> QED
      BY <3>1, <3>2, ReplicaMoves
  <2>2. CASE Claim(w)
    <3>1. PICK batch \in SUBSET {k \in Keys : Claimable(k)} :
             worker' = [worker EXCEPT ![w] =
                          [Idle EXCEPT !.pc = IF batch = {} THEN "idle" ELSE "rows",
                                       !.batch = {[key |-> k, attempt |-> Attempt(k)] : k \in batch}]]
      BY <2>2 DEF Claim
    <3> DEFINE claims == {[key |-> k, attempt |-> Attempt(k)] : k \in batch}
               next == [Idle EXCEPT !.pc = IF batch = {} THEN "idle" ELSE "rows", !.batch = claims]
    <3>2. \A k \in Keys : Attempt(k) \in 1..MaxRetries
      BY <1>1, LockAssumption DEF Attempt, RowRecords
    <3>3. claims \in SUBSET Claims
      BY <3>2 DEF Claims
    <3>4. worker' = [worker EXCEPT ![w] = next]
      BY <3>1
    <3> HIDE DEF claims
    <3>5. next \in Replicas /\ next.pc # "writing" /\ next.claim = Nobody
      BY <3>3 DEF Idle, Replicas
    <3> HIDE DEF next
    <3> QED
      BY <3>4, <3>5, ReplicaMoves
  <2>3. CASE StartStatement(w)
    <3>1. PICK c \in worker[w].batch :
             worker' = [worker EXCEPT ![w] =
               [ pc |-> "writing", batch |-> worker[w].batch \ {c}, claim |-> c,
                 seen |-> Matches(c.key) ]]
      BY <2>3 DEF StartStatement
    <3> DEFINE next == [ pc |-> "writing", batch |-> worker[w].batch \ {c}, claim |-> c,
                         seen |-> Matches(c.key) ]
    <3>2. c \in Claims /\ worker[w].batch \in SUBSET Claims
      BY <1>1 DEF Replicas
    <3>3. Matches(c.key) \in SUBSET Entries
      BY <1>1, <3>2 DEF Matches, Claims, Keys, RunRecords
    <3>4. next \in Replicas /\ next.pc = "writing" /\ next.claim # Nobody
      BY <3>2, <3>3, NobodyIsNoClaim DEF Replicas
    <3>5. worker' = [worker EXCEPT ![w] = next]
      BY <3>1
    <3> HIDE DEF next
    <3> QED
      BY <3>4, <3>5, ReplicaMoves
  <2>4. CASE CommitRow(w) \/ RowFails(w)
    BY <2>4, NextRowTypes DEF CommitRow, RowFails
  <2>5. CASE Crash(w)
    <3>1. Idle \in Replicas /\ Idle.pc # "writing" /\ Idle.claim = Nobody
      BY DEF Idle, Replicas
    <3> QED
      BY <2>5, <3>1, ReplicaMoves DEF Crash
  <2> QED
    BY <2>1, <2>2, <2>3, <2>4, <2>5 DEF WorkerStep
<1>6. run' \in [Runs -> RunRecords]
  BY <1>1, <1>2
<1> QED
  BY <1>3, <1>4, <1>5, <1>6 DEF Shape

\* History names runs and entries.
LEMMA HistoryKeeps ==
  ASSUME LockTypeOK, [LockNext]_lockVars
  PROVE  HistoryFits'
<1>1. HistoryFits /\ Shape
  BY LockTypeParts
<1>2. ASSUME NEW r \in Runs, NEW entries \in SUBSET Entries
      PROVE  HeldByOthers(r, entries) \subseteq Runs \X Entries
  BY <1>2 DEF HeldByOthers
<1>3. ASSUME NEW w \in Workers, StartStatement(w)
      PROVE  HistoryFits'
  <2>1. PICK c \in worker[w].batch :
          /\ raced' = IF row[c.key].action = "unlock" /\ LockUncommitted(c.key[1])
                      THEN raced \cup {c.key[1]} ELSE raced
          /\ skipped' = IF row[c.key].action = "lock"
                        THEN skipped \cup HeldByOthers(c.key[1], run[c.key[1]].covered_entry_ids)
                        ELSE skipped
    BY <1>3 DEF StartStatement
  <2>2. c.key[1] \in Runs
    BY <1>1 DEF Shape, Replicas, Claims, Keys
  <2>3. run[c.key[1]].covered_entry_ids \in SUBSET Entries
    BY <1>1, <2>2 DEF Shape, RunRecords
  <2>4. HeldByOthers(c.key[1], run[c.key[1]].covered_entry_ids) \subseteq Runs \X Entries
    BY <1>2, <2>2, <2>3
  <2> QED
    BY <1>1, <1>3, <2>1, <2>2, <2>4 DEF HistoryFits, StartStatement
<1>4. ASSUME NEW w \in Workers, CommitRow(w)
      PROVE  HistoryFits'
  <2> DEFINE k == worker[w].claim.key
  <2>1. worker[w] \in Replicas /\ worker[w].claim \in Claims
    BY <1>1, <1>4, LockTypeParts DEF Shape, CommitRow, WritersHaveClaims, Replicas
  <2>2. k[1] \in Runs /\ worker[w].seen \in SUBSET Entries
    BY <2>1 DEF Replicas, Claims, Keys
  <2>3. HeldByOthers(k[1], worker[w].seen) \subseteq Runs \X Entries
    BY <1>2, <2>2
  <2>4. /\ late' = late \/ late' = late \cup {k[1]}
        /\ skipped' = skipped \/ skipped' = skipped \cup HeldByOthers(k[1], worker[w].seen)
        /\ UNCHANGED <<deleted, raced>>
    BY <1>4 DEF CommitRow
  <2> HIDE DEF k
  <2> QED
    BY <1>1, <2>2, <2>3, <2>4 DEF HistoryFits
<1>5. ASSUME NEW r \in Runs, NEW type \in EventTypes, Decide(r, type)
      PROVE  HistoryFits'
  BY <1>1, <1>5 DEF Decide, HistoryFits
<1>6. ASSUME NEW e \in Deletable, DeleteEntry(e)
      PROVE  HistoryFits'
  BY <1>1, <1>6, LockAssumption DEF DeleteEntry, HistoryFits, history
<1>7. CASE UNCHANGED <<deleted, history>>
  BY <1>1, <1>7 DEF HistoryFits, history
<1> QED
  BY <1>3, <1>4, <1>5, <1>6, <1>7
     DEF LockNext, lockVars, DraftRun, InsertRun, WorkerStep, Sweep, SweepFails, Claim, RowFails,
         Crash, BecomesDue

LEMMA LockTypeNext == LockTypeOK /\ [LockNext]_lockVars => LockTypeOK'
<1> SUFFICES ASSUME LockTypeOK, [LockNext]_lockVars
             PROVE  Shape' /\ RowsAreOfDecisions' /\ WritersHaveClaims'
  BY HistoryKeeps DEF LockTypeOK, Shape, RowsAreOfDecisions, WritersHaveClaims, HistoryFits
<1>1. ASSUME NEW r \in Runs, DraftRun(r) \/ InsertRun(r) \/ \E type \in EventTypes : Decide(r, type)
      PROVE  Shape' /\ RowsAreOfDecisions' /\ WritersHaveClaims'
  BY <1>1, ReviewTypes
<1>2. ASSUME NEW w \in Workers, WorkerStep(w) \/ Crash(w)
      PROVE  Shape' /\ RowsAreOfDecisions' /\ WritersHaveClaims'
  BY <1>2, DrainTypes
<1>3. ASSUME NEW k \in Keys, BecomesDue(k)
      PROVE  Shape' /\ RowsAreOfDecisions' /\ WritersHaveClaims'
  <2> DEFINE next == [row[k] EXCEPT !.due = TRUE]
  <2>1. row \in [Keys -> RowRecords]
    BY DEF LockTypeOK
  <2>2. next \in RowRecords /\ next.action = row[k].action /\ row' = [row EXCEPT ![k] = next]
    BY <1>3, <2>1 DEF BecomesDue, RowRecords
  <2> HIDE DEF next
  <2>3. row' \in [Keys -> RowRecords] /\ RowsAreOfDecisions'
    BY <1>3, <2>2, RowMoves DEF BecomesDue
  <2> QED
    BY <1>3, <2>3, LockTypeParts DEF Shape, WritersHaveClaims, BecomesDue
<1>4. CASE UNCHANGED <<run, owner, row, worker>>
  BY <1>4, LockTypeParts DEF Shape, RowsAreOfDecisions, WritersHaveClaims
<1> QED
  BY <1>1, <1>2, <1>3, <1>4 DEF LockNext, DeleteEntry, lockVars

(***************************************************************************)
(* Reviews, locks, rows and replicas keep their types: in particular a row *)
(* that is queued was enqueued by a decision its run has made, and a       *)
(* replica writes only a row it has claimed.                               *)
(***************************************************************************)
THEOREM LockTypeCorrect == LockSpec => []LockTypeOK
BY LockTypeInit, LockTypeNext, PTL DEF LockSpec
-----------------------------------------------------------------------------
(* Reopened runs.  That a reopened run holds no lock once its rows are       *)
(* applied is not inductive: a lock row may be applied after the unlock row  *)
(* that a later decision enqueued, and what it writes was chosen before.     *)
(* What is: while a run that is no longer approved holds an entry, or a      *)
(* lock of it has chosen one, an unlock row of it is still to be applied,    *)
(* and whatever replica is applying it began when no such lock was           *)
(* uncommitted, and so has chosen every entry the run holds.                 *)

\* Rows have a status if and only if a decision made them, and only rows that
\* a decision made are claimed.
RowsAreMade ==
  /\ \A k \in Keys : row[k].action = "none" <=> row[k].status = "none"
  /\ \A w \in Workers : \A c \in worker[w].batch : row[c.key].action # "none"
  /\ \A w \in Workers : worker[w].pc = "writing" => row[worker[w].claim.key].action # "none"

\* A run locks nothing outside the entries it was drafted with.
LocksAreCovered ==
  /\ \A r \in Runs : run[r].state = "absent" => run[r].covered_entry_ids = {}
  /\ \A e \in Entries : owner[e] # Nobody => e \in run[owner[e]].covered_entry_ids
  /\ \A w \in Workers : worker[w].pc = "writing" =>
       worker[w].seen \subseteq run[worker[w].claim.key[1]].covered_entry_ids

\* The unlock row k of run r is to be applied, and will release all it holds.
WillRelease(r, k) ==
  /\ k[1] = r /\ row[k].action = "unlock" /\ row[k].status # "applied"
  /\ \A w \in Workers :
       worker[w].pc = "writing" /\ worker[w].claim.key = k =>
         /\ ~LockUncommitted(r)
         /\ \A e \in Entries : owner[e] = r => e \in worker[w].seen

UnlockWaits(r) == \E k \in Keys : WillRelease(r, k)

\* Run r holds no entry, and no lock of it that is being written will take one.
LetGo(r) == (\A e \in Entries : owner[e] # r) /\ ~LockUncommitted(r)

ReopenedRunsLetGo ==
  \A r \in Runs \ raced : run[r].state = "approved" \/ UnlockWaits(r) \/ LetGo(r)

ReopenInv == RowsAreMade /\ LocksAreCovered /\ ReopenedRunsLetGo

LEMMA ReopenInit == LockInit => ReopenInv
<1> SUFFICES ASSUME LockInit PROVE ReopenInv
  OBVIOUS
<1>1. /\ \A r \in Runs : run[r].covered_entry_ids = {}
      /\ \A e \in Entries : owner[e] = Nobody
      /\ \A k \in Keys : row[k].action = "none" /\ row[k].status = "none"
      /\ \A w \in Workers : worker[w].pc = "idle" /\ worker[w].batch = {}
  BY DEF LockInit, NoRow, Idle
<1>2. RowsAreMade /\ LocksAreCovered
  BY <1>1 DEF RowsAreMade, LocksAreCovered
<1>3. ReopenedRunsLetGo
  BY <1>1, LockAssumption DEF ReopenedRunsLetGo, LetGo, LockUncommitted
<1> QED
  BY <1>2, <1>3 DEF ReopenInv

\* A step that starts and commits no statement, decides nothing and applies no
\* row keeps the invariant, if what is claimed by it was made.
LEMMA QuietSteps ==
  ASSUME ReopenInv, LockTypeOK', UNCHANGED <<owner, raced>>,
         \A r \in Runs : /\ run'[r].state = "approved" <=> run[r].state = "approved"
                         /\ run[r].covered_entry_ids \subseteq run'[r].covered_entry_ids
                         /\ run'[r].state = "absent" => run'[r].covered_entry_ids = {},
         \A k \in Keys : /\ row'[k].action = row[k].action
                         /\ row'[k].status = "none" <=> row[k].status = "none"
                         /\ row'[k].status = "applied" => row[k].status = "applied",
         \A w \in Workers : worker'[w].pc = "writing" => worker'[w] = worker[w],
         \A w \in Workers : \A c \in worker'[w].batch : row[c.key].action # "none"
  PROVE  ReopenInv'
<1>1. /\ worker' \in [Workers -> Replicas] /\ WritersHaveClaims'
      /\ owner \in [Entries -> Runs \cup {Nobody}]
  BY DEF LockTypeOK, WritersHaveClaims
<1>2. /\ \A w \in Workers : \A c \in worker'[w].batch : c.key \in Keys
      /\ \A w \in Workers : worker'[w].pc = "writing" =>
           worker'[w].claim.key \in Keys /\ worker'[w].claim.key[1] \in Runs
  BY <1>1 DEF WritersHaveClaims, Replicas, Claims, Keys
<1>3. RowsAreMade'
  BY <1>2 DEF ReopenInv, RowsAreMade
<1>4. LocksAreCovered'
  BY <1>1, <1>2 DEF ReopenInv, LocksAreCovered
<1>5. \A r \in Runs : LockUncommitted(r)' => LockUncommitted(r)
  BY <1>2 DEF LockUncommitted
<1>6. ASSUME NEW r \in Runs, NEW k \in Keys, WillRelease(r, k)
      PROVE  WillRelease(r, k)'
  BY <1>5, <1>6 DEF WillRelease
<1>7. \A r \in Runs : UnlockWaits(r) => UnlockWaits(r)'
  BY <1>6 DEF UnlockWaits
<1>8. \A r \in Runs : LetGo(r) => LetGo(r)'
  BY <1>5 DEF LetGo
<1>9. ReopenedRunsLetGo'
  BY <1>7, <1>8 DEF ReopenInv, ReopenedRunsLetGo
<1> QED
  BY <1>3, <1>4, <1>9 DEF ReopenInv

\* Claims name keys.
LEMMA ClaimsAreKeys ==
  ASSUME LockTypeOK
  PROVE  /\ \A w \in Workers : \A c \in worker[w].batch : c.key \in Keys
         /\ \A w \in Workers : worker[w].pc = "writing" =>
              worker[w].claim.key \in Keys /\ worker[w].claim.key[1] \in Runs
BY LockTypeParts DEF Shape, WritersHaveClaims, Replicas, Claims, Keys

LEMMA DraftReopens ==
  ASSUME LockTypeOK, LockTypeOK', ReopenInv, NEW r \in Runs, DraftRun(r) \/ InsertRun(r)
  PROVE  ReopenInv'
<1>1. run \in [Runs -> RunRecords] /\ run[r] \in RunRecords
  BY DEF LockTypeOK
<1>2. UNCHANGED <<owner, row, worker, raced>> /\ \A q \in Runs \ {r} : run'[q] = run[q]
  BY <1>1 DEF DraftRun, InsertRun, history
<1>3. /\ run'[r].state \notin {"approved", "absent"} /\ run[r].state # "approved"
      /\ run[r].covered_entry_ids \subseteq run'[r].covered_entry_ids
  <2>1. CASE DraftRun(r)
    <3>1. run[r].state = "absent" /\ run[r].covered_entry_ids = {}
      BY <2>1 DEF DraftRun, ReopenInv, LocksAreCovered
    <3>2. run'[r].state = "drafted"
      BY <1>1, <2>1 DEF DraftRun, RunRecords
    <3> QED
      BY <3>1, <3>2
  <2>2. CASE InsertRun(r)
    BY <1>1, <2>2 DEF InsertRun, RunRecords
  <2> QED
    BY <2>1, <2>2
<1>4. \A q \in Runs : /\ run'[q].state = "approved" <=> run[q].state = "approved"
                      /\ run[q].covered_entry_ids \subseteq run'[q].covered_entry_ids
                      /\ run'[q].state = "absent" => run'[q].covered_entry_ids = {}
  BY <1>2, <1>3 DEF ReopenInv, LocksAreCovered
<1> QED
  BY <1>2, <1>4, QuietSteps DEF ReopenInv, RowsAreMade

\* A decision writes a row no one has made, so it touches no row that is
\* claimed; what it reopens, its own row unlocks.
LEMMA DecideReopens ==
  ASSUME LockTypeOK, LockTypeOK', ReopenInv, NEW r \in Runs, NEW type \in EventTypes, Decide(r, type)
  PROVE  ReopenInv'
<1> DEFINE v == run[r].state_version
           f == <<r, v + 1>>
<1>1. /\ run \in [Runs -> RunRecords] /\ run[r] \in RunRecords
      /\ row \in [Keys -> RowRecords] /\ RowsAreOfDecisions
  BY LockTypeParts DEF Shape
<1>2. run[r].state \in Sources[type] /\ v < MaxVersion /\ UNCHANGED <<owner, worker>>
  BY DEF Decide, Legal
<1>3. f \in Keys /\ v \in Nat
  BY <1>1, <1>2, LockAssumption DEF Keys, RunRecords
<1>4. row[f].action = "none"
  BY <1>1, <1>3 DEF RowsAreOfDecisions
<1>5. /\ \A q \in Runs \ {r} : run'[q] = run[q]
      /\ run'[r].state = Target[type]
      /\ run'[r].covered_entry_ids = run[r].covered_entry_ids
  BY <1>1 DEF Decide, Reduce, RunRecords
<1>6. run[r].state # "absent" /\ run'[r].state # "absent"
  BY <1>2, <1>5 DEF EventTypes, Sources, Target
<1>7. /\ \A k \in Keys : k # f => row'[k] = row[k]
      /\ SideEffect[type] = "none" => row' = row
      /\ SideEffect[type] # "none" => row'[f].action = SideEffect[type] /\ row'[f].status = "pending"
  BY <1>1, <1>3 DEF Decide, RowKey
<1> HIDE DEF v, f
<1>8. /\ \A w \in Workers : \A c \in worker[w].batch : c.key \in Keys /\ c.key # f
      /\ \A w \in Workers : worker[w].pc = "writing" =>
           /\ worker[w].claim.key \in Keys /\ worker[w].claim.key # f
           /\ worker[w].claim.key[1] \in Runs
  BY <1>4, ClaimsAreKeys DEF ReopenInv, RowsAreMade
<1>9. RowsAreMade'
  BY <1>2, <1>7, <1>8 DEF ReopenInv, RowsAreMade
<1>10. LocksAreCovered'
  <2>1. \A q \in Runs : run'[q].covered_entry_ids = run[q].covered_entry_ids
    BY <1>5
  <2>2. \A e \in Entries : owner[e] # Nobody => owner[e] \in Runs
    BY LockTypeParts DEF Shape
  <2> QED
    BY <1>2, <1>5, <1>6, <1>8, <2>1, <2>2 DEF ReopenInv, LocksAreCovered
<1>11. \A q \in Runs : LockUncommitted(q)' <=> LockUncommitted(q)
  BY <1>2, <1>7, <1>8 DEF LockUncommitted
<1>12. ASSUME NEW q \in Runs
       PROVE  (UnlockWaits(q) => UnlockWaits(q)') /\ (LetGo(q) => LetGo(q)')
  <2>1. ASSUME NEW k \in Keys, WillRelease(q, k)
        PROVE  WillRelease(q, k)'
    <3>1. k # f
      BY <1>4, <2>1 DEF WillRelease
    <3> QED
      BY <1>2, <1>7, <1>11, <2>1, <3>1 DEF WillRelease
  <2> QED
    BY <1>2, <1>11, <2>1 DEF UnlockWaits, LetGo
<1>13. ASSUME NEW q \in Runs, q \notin raced'
       PROVE  run'[q].state = "approved" \/ UnlockWaits(q)' \/ LetGo(q)'
  <2>1. raced' = IF type = "REOPEN" THEN raced \ {r} ELSE raced
    BY DEF Decide
  <2>2. CASE q # r \/ type = "REJECT"
    <3>1. run[q].state = "approved" => run'[q].state = "approved"
      BY <1>2, <1>5, <2>2 DEF Sources
    <3>2. q \notin raced
      BY <1>13, <2>1, <2>2
    <3> QED
      BY <1>12, <3>1, <3>2 DEF ReopenInv, ReopenedRunsLetGo
  <2>3. CASE q = r /\ type = "APPROVE"
    BY <1>5, <2>3 DEF Target
  <2>4. CASE q = r /\ type = "REOPEN"
    <3>1. PICK g \in Keys : g = f
      BY <1>3
    <3>2. row'[g].action = "unlock" /\ row'[g].status = "pending" /\ g[1] = q
      BY <1>7, <2>4, <3>1 DEF SideEffect, f
    <3>3. \A w \in Workers : worker'[w].pc = "writing" => worker'[w].claim.key # g
      BY <1>2, <1>8, <3>1
    <3>4. WillRelease(q, g)'
      BY <3>2, <3>3 DEF WillRelease
    <3> QED
      BY <3>4 DEF UnlockWaits
  <2> QED
    BY <2>2, <2>3, <2>4 DEF EventTypes
<1>14. ReopenedRunsLetGo'
  BY <1>13 DEF ReopenedRunsLetGo
<1> QED
  BY <1>9, <1>10, <1>14 DEF ReopenInv

\* A statement chooses nothing outside its run; a lock chooses nothing unless
\* its run is approved, and an unlock all that its run holds: it has missed
\* nothing unless a lock of the run is uncommitted, and then the run is raced.
LEMMA StartReopens ==
  ASSUME LockTypeOK, LockTypeOK', ReopenInv, NEW w \in Workers, StartStatement(w)
  PROVE  ReopenInv'
<1>1. worker \in [Workers -> Replicas] /\ owner \in [Entries -> Runs \cup {Nobody}]
      /\ row \in [Keys -> RowRecords] /\ UNCHANGED <<run, owner, row>>
  BY DEF LockTypeOK, StartStatement
<1>2. PICK c \in worker[w].batch :
         /\ worker' = [worker EXCEPT ![w] =
              [ pc |-> "writing", batch |-> worker[w].batch \ {c}, claim |-> c, seen |-> Matches(c.key) ]]
         /\ raced' = IF row[c.key].action = "unlock" /\ LockUncommitted(c.key[1])
                     THEN raced \cup {c.key[1]} ELSE raced
  BY DEF StartStatement
<1>3. /\ worker'[w].claim = c /\ worker'[w].seen = Matches(c.key)
      /\ worker'[w].batch = worker[w].batch \ {c}
      /\ \A x \in Workers \ {w} : worker'[x] = worker[x]
  BY <1>1, <1>2
<1>4. c.key \in Keys /\ c.key[1] \in Runs /\ row[c.key].action # "none"
  BY ClaimsAreKeys DEF ReopenInv, RowsAreMade, Keys
<1>5. row[c.key].action \in {"lock", "unlock"}
  BY <1>1, <1>4 DEF RowRecords
<1>6. RowsAreMade'
  BY <1>1, <1>3, <1>4 DEF ReopenInv, RowsAreMade
<1>7. LocksAreCovered'
  BY <1>1, <1>3 DEF ReopenInv, LocksAreCovered, Matches
<1>8. ASSUME row[c.key].action = "unlock", NEW e \in Entries, owner[e] = c.key[1]
      PROVE  e \in Matches(c.key)
  <2>1. owner[e] # Nobody
    BY <1>4, <1>8, LockAssumption
  <2>2. e \in run[c.key[1]].covered_entry_ids
    BY <1>8, <2>1 DEF ReopenInv, LocksAreCovered
  <2> QED
    BY <1>8, <2>2 DEF Matches
<1>9. ASSUME NEW r \in Runs, run[r].state # "approved"
      PROVE  LockUncommitted(r)' => LockUncommitted(r)
  <2>1. c.key[1] = r /\ row[c.key].action = "lock" => Matches(c.key) = {}
    BY <1>9 DEF Matches
  <2> QED
    BY <1>1, <1>3, <2>1 DEF LockUncommitted
<1>10. ASSUME NEW r \in Runs \ raced', run[r].state # "approved", NEW k \in Keys, WillRelease(r, k)
       PROVE  WillRelease(r, k)'
  <2>1. ASSUME NEW x \in Workers, worker'[x].pc = "writing", worker'[x].claim.key = k
        PROVE  ~LockUncommitted(r) /\ \A e \in Entries : owner[e] = r => e \in worker'[x].seen
    <3>1. CASE x = w
      <4>1. c.key = k /\ worker'[x].seen = Matches(k) /\ row[k].action = "unlock" /\ k[1] = r
        BY <1>3, <1>10, <2>1, <3>1 DEF WillRelease
      <4>2. ~LockUncommitted(r)
        BY <1>2, <1>10, <4>1
      <4> QED
        BY <1>8, <4>1, <4>2
    <3>2. CASE x # w
      BY <1>3, <1>10, <2>1, <3>2 DEF WillRelease
    <3> QED
      BY <3>1, <3>2
  <2> QED
    BY <1>1, <1>9, <1>10, <2>1 DEF WillRelease
<1>11. ReopenedRunsLetGo'
  <2> SUFFICES ASSUME NEW r \in Runs \ raced', run[r].state # "approved"
               PROVE  UnlockWaits(r)' \/ LetGo(r)'
    BY <1>1 DEF ReopenedRunsLetGo
  <2>1. UnlockWaits(r) \/ LetGo(r)
    BY <1>2 DEF ReopenInv, ReopenedRunsLetGo
  <2> QED
    BY <1>1, <1>9, <1>10, <2>1 DEF UnlockWaits, LetGo
<1> QED
  BY <1>6, <1>7, <1>11 DEF ReopenInv

\* What a commit makes of the owners.
LEMMA CommitWrites ==
  ASSUME LockTypeOK, ReopenInv, NEW w \in Workers, CommitRow(w),
         NEW k, k = worker[w].claim.key, NEW seen, seen = worker[w].seen
  PROVE  /\ k \in Keys /\ k[1] \in Runs /\ k[1] # Nobody /\ row[k].action \in {"lock", "unlock"}
         /\ seen \subseteq run[k[1]].covered_entry_ids
         /\ \A e \in Entries :
              owner'[e] = IF e \in seen /\ row[k].action = "lock" /\ owner[e] = Nobody THEN k[1]
                          ELSE IF e \in seen /\ row[k].action = "unlock" /\ owner[e] = k[1] THEN Nobody
                          ELSE owner[e]
         /\ row'[k].action = row[k].action /\ row'[k].status = "applied"
         /\ \A j \in Keys : j # k => row'[j] = row[j]
         /\ worker'[w].pc # "writing" /\ worker'[w].batch = worker[w].batch
         /\ \A x \in Workers \ {w} : worker'[x] = worker[x]
<1>1. /\ worker \in [Workers -> Replicas] /\ row \in [Keys -> RowRecords]
      /\ worker[w].pc = "writing" /\ owner' = Write(k, seen)
      /\ row' = [row EXCEPT ![k].status = "applied"] /\ NextRow(w)
  BY DEF LockTypeOK, CommitRow
<1>2. k \in Keys /\ k[1] \in Runs /\ row[k].action \in {"lock", "unlock"} /\ k[1] # Nobody
  BY <1>1, ClaimsAreKeys, LockAssumption DEF ReopenInv, RowsAreMade, RowRecords
<1>3. ASSUME NEW e \in Entries
      PROVE  owner'[e] = IF e \in seen /\ row[k].action = "lock" /\ owner[e] = Nobody THEN k[1]
                         ELSE IF e \in seen /\ row[k].action = "unlock" /\ owner[e] = k[1] THEN Nobody
                         ELSE owner[e]
  <2>1. CASE row[k].action = "lock"
    BY <1>1, <2>1 DEF Write
  <2>2. CASE row[k].action = "unlock"
    BY <1>1, <2>2 DEF Write
  <2> QED
    BY <1>2, <2>1, <2>2
<1>4. /\ row'[k].action = row[k].action /\ row'[k].status = "applied"
      /\ \A j \in Keys : j # k => row'[j] = row[j]
  BY <1>1, <1>2 DEF RowRecords
<1>5. /\ worker'[w].pc # "writing" /\ worker'[w].batch = worker[w].batch
      /\ \A x \in Workers \ {w} : worker'[x] = worker[x]
  BY <1>1 DEF NextRow, Idle
<1>6. seen \subseteq run[k[1]].covered_entry_ids
  BY <1>1 DEF ReopenInv, LocksAreCovered
<1> QED
  BY <1>2, <1>3, <1>4, <1>5, <1>6

\* A lock gives its run entries only if it had chosen some, and then no replica
\* is applying the unlock that waits; that unlock takes all that its run holds;
\* neither gives another run an entry.
LEMMA CommitReopens ==
  ASSUME LockTypeOK, LockTypeOK', ReopenInv, NEW w \in Workers, CommitRow(w)
  PROVE  ReopenInv'
<1> DEFINE k == worker[w].claim.key
           seen == worker[w].seen
<1>1. owner \in [Entries -> Runs \cup {Nobody}] /\ worker[w].pc = "writing" /\ UNCHANGED <<run, raced>>
  BY DEF LockTypeOK, CommitRow
<1>2. /\ k \in Keys /\ k[1] \in Runs /\ k[1] # Nobody /\ row[k].action \in {"lock", "unlock"}
      /\ seen \subseteq run[k[1]].covered_entry_ids
      /\ \A e \in Entries :
           owner'[e] = IF e \in seen /\ row[k].action = "lock" /\ owner[e] = Nobody THEN k[1]
                       ELSE IF e \in seen /\ row[k].action = "unlock" /\ owner[e] = k[1] THEN Nobody
                       ELSE owner[e]
      /\ row'[k].action = row[k].action /\ row'[k].status = "applied"
      /\ \A j \in Keys : j # k => row'[j] = row[j]
      /\ worker'[w].pc # "writing" /\ worker'[w].batch = worker[w].batch
      /\ \A x \in Workers \ {w} : worker'[x] = worker[x]
  BY CommitWrites
<1>3. \A j \in Keys : row'[j].action = row[j].action
  BY <1>2
<1>4. \A x \in Workers : worker'[x].pc = "writing" =>
        x # w /\ worker'[x] = worker[x] /\ worker[x].claim.key \in Keys
  BY <1>2, ClaimsAreKeys
<1>5. row[k].action = "lock" /\ seen # {} => LockUncommitted(k[1])
  BY <1>1 DEF LockUncommitted
<1> HIDE DEF k, seen
<1>6. RowsAreMade'
  <2>1. \A x \in Workers : \A c \in worker'[x].batch : c.key \in Keys /\ row[c.key].action # "none"
    BY <1>2, ClaimsAreKeys DEF ReopenInv, RowsAreMade
  <2>2. row[k].status # "none"
    BY <1>2 DEF ReopenInv, RowsAreMade
  <2>3. \A j \in Keys : row'[j].action = "none" <=> row'[j].status = "none"
    BY <1>2, <2>2 DEF ReopenInv, RowsAreMade
  <2> QED
    BY <1>3, <1>4, <2>1, <2>3 DEF ReopenInv, RowsAreMade
<1>7. LocksAreCovered'
  BY <1>1, <1>2, <1>4 DEF ReopenInv, LocksAreCovered
<1>8. \A r \in Runs : LockUncommitted(r)' => LockUncommitted(r)
  BY <1>3, <1>4 DEF LockUncommitted
<1>9. ASSUME NEW r \in Runs, ~(r = k[1] /\ row[k].action = "lock" /\ seen # {}),
             NEW e \in Entries, owner'[e] = r
      PROVE  owner[e] = r
  BY <1>2, <1>9, LockAssumption
<1>10. ASSUME NEW r \in Runs, NEW j \in Keys, WillRelease(r, j), j # k
       PROVE  WillRelease(r, j)'
  <2>1. CASE r = k[1] /\ row[k].action = "lock" /\ seen # {}
    <3>1. \A x \in Workers : ~(worker[x].pc = "writing" /\ worker[x].claim.key = j)
      BY <1>5, <1>10, <2>1 DEF WillRelease
    <3> QED
      BY <1>2, <1>4, <1>10, <3>1 DEF WillRelease
  <2>2. CASE ~(r = k[1] /\ row[k].action = "lock" /\ seen # {})
    BY <1>2, <1>4, <1>8, <1>9, <1>10, <2>2 DEF WillRelease
  <2> QED
    BY <2>1, <2>2
<1>11. ASSUME NEW r \in Runs, WillRelease(r, k)
       PROVE  LetGo(r)'
  <2>1. /\ r = k[1] /\ row[k].action = "unlock" /\ ~LockUncommitted(r)
        /\ \A e \in Entries : owner[e] = r => e \in seen
    BY <1>1, <1>11 DEF WillRelease, k, seen
  <2>2. \A e \in Entries : owner'[e] # r
    BY <1>2, <2>1
  <2> QED
    BY <1>8, <2>1, <2>2 DEF LetGo
<1>12. ASSUME NEW r \in Runs, LetGo(r)
       PROVE  LetGo(r)'
  <2>1. ~(r = k[1] /\ row[k].action = "lock" /\ seen # {})
    BY <1>5, <1>12 DEF LetGo
  <2>2. \A e \in Entries : owner'[e] # r
    BY <1>9, <1>12, <2>1 DEF LetGo
  <2> QED
    BY <1>8, <1>12, <2>2 DEF LetGo
<1>13. ReopenedRunsLetGo'
  <2> SUFFICES ASSUME NEW r \in Runs \ raced, run[r].state # "approved"
               PROVE  UnlockWaits(r)' \/ LetGo(r)'
    BY <1>1 DEF ReopenedRunsLetGo
  <2>1. UnlockWaits(r) \/ LetGo(r)
    BY DEF ReopenInv, ReopenedRunsLetGo
  <2> QED
    BY <1>10, <1>11, <1>12, <2>1 DEF UnlockWaits
<1> QED
  BY <1>6, <1>7, <1>13 DEF ReopenInv

\* The other steps of the queue: no row is made or applied, and a claim takes
\* rows that are queued.
LEMMA QueueReopens ==
  ASSUME LockTypeOK, LockTypeOK', ReopenInv, NEW w \in Workers,
         \/ Sweep(w)
         \/ SweepFails(w)
         \/ Claim(w)
         \/ RowFails(w)
         \/ Crash(w)
  PROVE  ReopenInv'
<1>1. worker \in [Workers -> Replicas] /\ worker[w] \in Replicas /\ row \in [Keys -> RowRecords]
      /\ UNCHANGED <<run, owner, raced>>
  BY DEF LockTypeOK, Sweep, SweepFails, Claim, RowFails, Crash, history
<1>2. \A r \in Runs : run[r].state = "absent" => run[r].covered_entry_ids = {}
  BY DEF ReopenInv, LocksAreCovered
<1> DEFINE Like(k) == /\ row'[k].action = row[k].action
                      /\ row'[k].status = "none" <=> row[k].status = "none"
                      /\ row'[k].status = "applied" => row[k].status = "applied"
           MadeIn(batch) == \A c \in batch : row[c.key].action # "none"
<1>3. MadeIn(worker[w].batch)
  BY DEF ReopenInv, RowsAreMade
<1>4. ASSUME NEW next, worker' = [worker EXCEPT ![w] = next], next.pc # "writing", MadeIn(next.batch),
             \A k \in Keys : Like(k)
      PROVE  ReopenInv'
  <2>1. worker'[w] = next /\ \A x \in Workers \ {w} : worker'[x] = worker[x]
    BY <1>1, <1>4
  <2>2. \A x \in Workers : worker'[x].pc = "writing" => worker'[x] = worker[x]
    BY <1>4, <2>1
  <2>3. \A x \in Workers : \A c \in worker'[x].batch : row[c.key].action # "none"
    BY <1>4, <2>1 DEF ReopenInv, RowsAreMade
  <2> QED
    BY <1>1, <1>2, <1>4, <2>2, <2>3, QuietSteps
<1>5. CASE Sweep(w) \/ SweepFails(w)
  <2> DEFINE next == [worker[w] EXCEPT !.pc = "swept"]
  <2>1. worker' = [worker EXCEPT ![w] = next]
    BY <1>5 DEF Sweep, SweepFails
  <2>2. next.pc # "writing" /\ next.batch = worker[w].batch
    BY <1>1 DEF Replicas
  <2>3. \A k \in Keys : row'[k] = row[k] \/ (row[k].status \in Live /\ row'[k] = [row[k] EXCEPT !.status = "dead"])
    BY <1>5 DEF Sweep, SweepFails, Retirable
  <2>4. \A k \in Keys : Like(k)
    BY <1>1, <2>3 DEF RowRecords, Live
  <2> HIDE DEF next, Like, MadeIn
  <2> QED
    BY <1>3, <1>4, <2>1, <2>2, <2>4
<1>6. CASE Claim(w)
  <2>1. PICK batch \in SUBSET {k \in Keys : Claimable(k)} :
          /\ row' = [k \in Keys |->
                       IF k \in batch
                       THEN [row[k] EXCEPT !.status = "processing", !.due = FALSE,
                                           !.attempt_count = Attempt(k)]
                       ELSE row[k]]
          /\ worker' = [worker EXCEPT ![w] =
                          [Idle EXCEPT !.pc = IF batch = {} THEN "idle" ELSE "rows",
                                       !.batch = {[key |-> k, attempt |-> Attempt(k)] : k \in batch}]]
    BY <1>6 DEF Claim
  <2> DEFINE claims == {[key |-> k, attempt |-> Attempt(k)] : k \in batch}
             next == [Idle EXCEPT !.pc = IF batch = {} THEN "idle" ELSE "rows", !.batch = claims]
  <2>2. worker' = [worker EXCEPT ![w] = next]
    BY <2>1
  <2>3. next.pc # "writing" /\ next.batch = claims
    BY DEF Idle
  <2>4. \A k \in batch : row[k].status \in Live /\ row[k].action # "none"
    BY DEF Claimable, Live, ReopenInv, RowsAreMade
  <2>5. MadeIn(claims)
    BY <2>4
  <2>6. \A k \in Keys : Like(k)
    BY <1>1, <2>1, <2>4 DEF RowRecords, Live
  <2> HIDE DEF claims, next, Like, MadeIn
  <2> QED
    BY <1>4, <2>2, <2>3, <2>5, <2>6
<1>7. CASE RowFails(w)
  <2> DEFINE next == [Idle EXCEPT !.pc = IF worker[w].batch = {} THEN "idle" ELSE "rows",
                                  !.batch = worker[w].batch]
             k == worker[w].claim.key
             status == IF worker[w].claim.attempt >= MaxAttempts THEN "failed" ELSE "pending"
  <2>1. worker' = [worker EXCEPT ![w] = next] /\ worker[w].pc = "writing"
    BY <1>7 DEF RowFails, NextRow
  <2>2. next.pc # "writing" /\ next.batch = worker[w].batch
    BY DEF Idle
  <2>3. k \in Keys /\ row[k].status # "none"
    BY <2>1, ClaimsAreKeys DEF ReopenInv, RowsAreMade
  <2>4. row' = row \/ row' = [row EXCEPT ![k].status = status, ![k].due = FALSE]
    BY <1>7 DEF RowFails
  <2>5. status \in {"failed", "pending"}
    OBVIOUS
  <2> HIDE DEF status, k
  <2>6. \A j \in Keys : Like(j)
    BY <1>1, <2>3, <2>4, <2>5 DEF RowRecords
  <2> HIDE DEF next, Like, MadeIn
  <2> QED
    BY <1>3, <1>4, <2>1, <2>2, <2>6
<1>8. CASE Crash(w)
  <2>1. worker' = [worker EXCEPT ![w] = Idle] /\ row' = row
    BY <1>8 DEF Crash
  <2>2. Idle.pc # "writing" /\ MadeIn(Idle.batch)
    BY DEF Idle
  <2> HIDE DEF MadeIn
  <2> QED
    BY <1>4, <2>1, <2>2
<1> QED
  BY <1>5, <1>6, <1>7, <1>8

LEMMA ReopenNext ==
  ASSUME LockTypeOK, ReopenInv, [LockNext]_lockVars
  PROVE  ReopenInv'
<1>1. LockTypeOK'
  BY LockTypeNext
<1>2. ASSUME NEW r \in Runs, DraftRun(r) \/ InsertRun(r) \/ \E type \in EventTypes : Decide(r, type)
      PROVE  ReopenInv'
  BY <1>1, <1>2, DraftReopens, DecideReopens
<1>3. ASSUME NEW w \in Workers, WorkerStep(w) \/ Crash(w)
      PROVE  ReopenInv'
  BY <1>1, <1>3, StartReopens, CommitReopens, QueueReopens DEF WorkerStep
<1>4. ASSUME NEW k \in Keys, BecomesDue(k)
      PROVE  ReopenInv'
  <2>1. row' = [row EXCEPT ![k].due = TRUE] /\ UNCHANGED <<run, owner, worker, raced>>
    BY <1>4 DEF BecomesDue, history
  <2>2. \A j \in Keys : row'[j].action = row[j].action /\ row'[j].status = row[j].status
    BY <2>1 DEF LockTypeOK, RowRecords
  <2> QED
    BY <1>1, <2>1, <2>2, QuietSteps DEF ReopenInv, RowsAreMade, LocksAreCovered
<1>5. CASE UNCHANGED <<run, owner, row, worker, raced>>
  BY <1>1, <1>5, QuietSteps DEF ReopenInv, RowsAreMade, LocksAreCovered
<1> QED
  BY <1>2, <1>3, <1>4, <1>5 DEF LockNext, DeleteEntry, lockVars, history

(***************************************************************************)
(* A reopened run whose rows have all been applied holds no entry, unless  *)
(* it was raced: for any replicas, any runs that overlap in any way, any   *)
(* order of the rows, any failures, retries, crashes and expired leases,   *)
(* and decisions taken while a row is being written.                       *)
(***************************************************************************)
THEOREM ReopenedRunsRelease == LockSpec => []ReopenedRunHoldsNoLock
<1>1. ReopenInv => ReopenedRunHoldsNoLock
  <2> SUFFICES ASSUME ReopenInv, NEW r \in Runs \ raced, run[r].state # "approved", Applied(r)
               PROVE  \A e \in Entries : owner[e] # r
    BY DEF ReopenedRunHoldsNoLock
  <2>1. ~UnlockWaits(r)
    <3> SUFFICES ASSUME NEW k \in Keys, k[1] = r, row[k].action = "unlock", row[k].status # "applied"
                 PROVE  FALSE
      BY DEF UnlockWaits, WillRelease
    <3>1. PICK v \in 1..MaxVersion : k = <<r, v>>
      BY DEF Keys
    <3>2. row[k].status \in {"none", "applied"}
      BY <3>1 DEF Applied
    <3> QED
      BY <3>2 DEF ReopenInv, RowsAreMade
  <2> QED
    BY <2>1 DEF ReopenInv, ReopenedRunsLetGo, LetGo
<1>2. LockTypeOK /\ ReopenInv /\ [LockNext]_lockVars => ReopenInv'
  BY ReopenNext
<1> QED
  BY <1>1, <1>2, ReopenInit, LockTypeCorrect, PTL DEF LockSpec
-----------------------------------------------------------------------------
(* Approved runs.  The row of the approval is the one of the run's present   *)
(* version.  Until it is applied nothing is promised; a statement of it has  *)
(* chosen every covered entry but those the run holds already and those it   *)
(* had to skip; and an entry is lost only to an unlock that comes late.      *)

Latest(r) == <<r, run[r].state_version>>

Held(r, e) == owner[e] = r \/ <<r, e>> \in skipped

LockTakes(r) ==
  /\ row[Latest(r)].status = "applied" => \A e \in run[r].covered_entry_ids : Held(r, e)
  /\ \A w \in Workers :
       worker[w].pc = "writing" /\ worker[w].claim.key = Latest(r) =>
         \A e \in run[r].covered_entry_ids : e \in worker[w].seen \/ Held(r, e)

ApprovedRunsLock ==
  \A r \in Runs : run[r].state = "approved" =>
    row[Latest(r)].action = "lock" /\ (r \in late \/ LockTakes(r))

LEMMA LatestIsKey ==
  ASSUME LockTypeOK, NEW r \in Runs
  PROVE  Latest(r) \in Keys /\ run[r].covered_entry_ids \subseteq Entries
BY DEF LockTypeOK, RunRecords, Latest, Keys

\* A step that starts and commits no statement keeps what it leaves approved.
LEMMA StillLocked ==
  ASSUME LockTypeOK, LockTypeOK', ApprovedRunsLock, UNCHANGED owner,
         NEW r \in Runs, run'[r].state = "approved", run'[r] = run[r],
         row'[Latest(r)].action = row[Latest(r)].action,
         row'[Latest(r)].status = "applied" => row[Latest(r)].status = "applied",
         \A w \in Workers : worker'[w].pc = "writing" => worker'[w] = worker[w],
         r \in late => r \in late',
         \A e \in Entries : <<r, e>> \in skipped => <<r, e>> \in skipped'
  PROVE  row'[Latest(r)'].action = "lock" /\ (r \in late' \/ LockTakes(r)')
<1>1. Latest(r)' = Latest(r) /\ run[r].covered_entry_ids \subseteq Entries
  BY LatestIsKey DEF Latest
<1>2. row[Latest(r)].action = "lock" /\ (r \in late \/ LockTakes(r))
  BY DEF ApprovedRunsLock
<1>3. \A e \in run[r].covered_entry_ids : Held(r, e) => Held(r, e)'
  BY <1>1 DEF Held
<1>4. LockTakes(r) => LockTakes(r)'
  BY <1>1, <1>3 DEF LockTakes
<1> QED
  BY <1>1, <1>2, <1>4

LEMMA QuietLocks ==
  ASSUME LockTypeOK, LockTypeOK', ApprovedRunsLock, UNCHANGED <<run, owner, late, skipped>>,
         \A k \in Keys : /\ row'[k].action = row[k].action
                         /\ row'[k].status = "applied" => row[k].status = "applied",
         \A w \in Workers : worker'[w].pc = "writing" => worker'[w] = worker[w]
  PROVE  ApprovedRunsLock'
<1> SUFFICES ASSUME NEW r \in Runs, run'[r].state = "approved"
             PROVE  row'[Latest(r)'].action = "lock" /\ (r \in late' \/ LockTakes(r)')
  BY DEF ApprovedRunsLock
<1> QED
  BY LatestIsKey, StillLocked

\* An approval makes its own row, which nobody has claimed.
LEMMA ReviewLocks ==
  ASSUME LockTypeOK, LockTypeOK', ReopenInv, ApprovedRunsLock, NEW r \in Runs,
         DraftRun(r) \/ InsertRun(r) \/ \E type \in EventTypes : Decide(r, type)
  PROVE  ApprovedRunsLock'
<1>1. run \in [Runs -> RunRecords] /\ row \in [Keys -> RowRecords] /\ RowsAreOfDecisions
      /\ UNCHANGED <<owner, worker>>
  BY LockTypeParts DEF Shape, DraftRun, InsertRun, Decide
<1>2. CASE DraftRun(r) \/ InsertRun(r)
  <2>1. run'[r].state # "approved" /\ \A q \in Runs \ {r} : run'[q] = run[q]
    BY <1>1, <1>2 DEF DraftRun, InsertRun, RunRecords
  <2>2. UNCHANGED <<row, late, skipped>>
    BY <1>2 DEF DraftRun, InsertRun, history
  <2> SUFFICES ASSUME NEW q \in Runs \ {r}, run'[q].state = "approved"
               PROVE  row'[Latest(q)'].action = "lock" /\ (q \in late' \/ LockTakes(q)')
    BY <2>1 DEF ApprovedRunsLock
  <2> QED
    BY <1>1, <2>1, <2>2, StillLocked
<1>3. ASSUME NEW type \in EventTypes, Decide(r, type)
      PROVE  ApprovedRunsLock'
  <2>1. PICK f : f = <<r, run[r].state_version + 1>>
    OBVIOUS
  <2>2. /\ \A q \in Runs \ {r} : run'[q] = run[q]
        /\ run'[r].state = Target[type] /\ Latest(r)' = f
    <3>1. run' = [run EXCEPT ![r] = Reduce(run[r], type)]
      BY <1>3 DEF Decide
    <3>2. run'[r] = Reduce(run[r], type) /\ \A q \in Runs \ {r} : run'[q] = run[q]
      BY <1>1, <3>1
    <3>3. run[r] \in RunRecords
      BY <1>1
    <3>4. run'[r].state = Target[type] /\ run'[r].state_version = run[r].state_version + 1
      BY <3>2, <3>3 DEF Reduce, RunRecords
    <3> QED
      BY <2>1, <3>2, <3>4 DEF Latest
  <2>3. f \in Keys /\ row[f].action = "none"
    <3>1. run[r].state_version \in 1..MaxVersion /\ run[r].state_version < MaxVersion
      BY <1>1, <1>3 DEF Decide, RunRecords
    <3>2. f \in Keys
      BY <2>1, <3>1, LockAssumption DEF Keys
    <3> QED
      BY <1>1, <2>1, <3>1, <3>2, LockAssumption DEF RowsAreOfDecisions
  <2>4. /\ \A k \in Keys : k # f => row'[k] = row[k]
        /\ type = "APPROVE" => row'[f].action = "lock" /\ row'[f].status = "pending"
    BY <1>1, <1>3, <2>1, <2>3 DEF Decide, RowKey, SideEffect
  <2>5. \A w \in Workers : worker'[w].pc = "writing" => worker'[w].claim.key # f
    BY <1>1, <2>3, ClaimsAreKeys DEF ReopenInv, RowsAreMade
  <2>6. /\ \A q \in Runs \ {r} : q \in late => q \in late'
        /\ \A q \in Runs \ {r}, e \in Entries : <<q, e>> \in skipped => <<q, e>> \in skipped'
    BY <1>3 DEF Decide
  <2>7. ASSUME NEW q \in Runs \ {r}, run'[q].state = "approved"
        PROVE  row'[Latest(q)'].action = "lock" /\ (q \in late' \/ LockTakes(q)')
    <3>1. Latest(q) \in Keys /\ Latest(q) # f
      BY <2>1, LatestIsKey DEF Latest
    <3> QED
      BY <1>1, <2>2, <2>4, <2>6, <2>7, <3>1, StillLocked
  <2>8. ASSUME run'[r].state = "approved"
        PROVE  row'[Latest(r)'].action = "lock" /\ LockTakes(r)'
    <3>1. type = "APPROVE"
      BY <2>2, <2>8 DEF EventTypes, Target
    <3> QED
      BY <2>2, <2>4, <2>5, <3>1 DEF LockTakes
  <2> QED
    BY <2>7, <2>8 DEF ApprovedRunsLock
<1> QED
  BY <1>2, <1>3

\* A lock chooses every covered entry that nobody holds.
LEMMA StartLocks ==
  ASSUME LockTypeOK, LockTypeOK', ApprovedRunsLock, NEW w \in Workers, StartStatement(w)
  PROVE  ApprovedRunsLock'
<1>1. worker \in [Workers -> Replicas] /\ UNCHANGED <<run, owner, row, late>>
  BY DEF LockTypeOK, StartStatement
<1>2. PICK c \in worker[w].batch :
         /\ worker' = [worker EXCEPT ![w] =
              [ pc |-> "writing", batch |-> worker[w].batch \ {c}, claim |-> c, seen |-> Matches(c.key) ]]
         /\ skipped' = IF row[c.key].action = "lock"
                       THEN skipped \cup HeldByOthers(c.key[1], run[c.key[1]].covered_entry_ids)
                       ELSE skipped
  BY DEF StartStatement
<1>3. /\ worker'[w].claim = c /\ worker'[w].seen = Matches(c.key)
      /\ \A x \in Workers \ {w} : worker'[x] = worker[x]
  BY <1>1, <1>2
<1>4. skipped \subseteq skipped'
  BY <1>2
<1> SUFFICES ASSUME NEW r \in Runs, run[r].state = "approved"
             PROVE  row[Latest(r)].action = "lock" /\ (r \in late \/ LockTakes(r)')
  BY <1>1 DEF ApprovedRunsLock, Latest
<1>5. row[Latest(r)].action = "lock" /\ (r \in late \/ LockTakes(r))
  BY DEF ApprovedRunsLock
<1>6. /\ Latest(r)' = Latest(r)
      /\ \A e \in run[r].covered_entry_ids : Held(r, e) => Held(r, e)'
  BY <1>1, <1>4 DEF Latest, Held
<1>7. ASSUME c.key = Latest(r), NEW e \in run[r].covered_entry_ids
      PROVE  e \in Matches(c.key) \/ Held(r, e)'
  <2>1. c.key[1] = r /\ row[c.key].action = "lock"
    BY <1>5, <1>7 DEF Latest
  <2>2. CASE owner[e] \in {r, Nobody}
    BY <1>1, <1>7, <2>1, <2>2 DEF Matches, Held
  <2>3. CASE owner[e] \notin {r, Nobody}
    <3>1. <<r, e>> \in HeldByOthers(r, run[r].covered_entry_ids)
      BY <1>7, <2>3 DEF HeldByOthers
    <3> QED
      BY <1>2, <2>1, <3>1 DEF Held
  <2> QED
    BY <2>2, <2>3
<1>8. LockTakes(r) => LockTakes(r)'
  <2> SUFFICES ASSUME LockTakes(r), NEW x \in Workers, worker'[x].pc = "writing",
                      worker'[x].claim.key = Latest(r), NEW e \in run[r].covered_entry_ids
               PROVE  e \in worker'[x].seen \/ Held(r, e)'
    BY <1>1, <1>6 DEF LockTakes
  <2>1. CASE x = w
    BY <1>3, <1>7, <2>1
  <2>2. CASE x # w
    BY <1>3, <1>6, <2>2 DEF LockTakes
  <2> QED
    BY <2>1, <2>2
<1> QED
  BY <1>5, <1>8

\* What a commit leaves to the run: it takes what it has chosen or skips it, and
\* loses an entry only to an unlock of its own, which is late.
LEMMA CommitLocks ==
  ASSUME LockTypeOK, LockTypeOK', ReopenInv, ApprovedRunsLock, NEW w \in Workers, CommitRow(w)
  PROVE  ApprovedRunsLock'
<1> DEFINE k == worker[w].claim.key
           seen == worker[w].seen
<1>1. /\ owner \in [Entries -> Runs \cup {Nobody}] /\ worker[w].pc = "writing" /\ UNCHANGED run
      /\ late' = IF row[k].action = "unlock" /\ seen # {} /\ run[k[1]].state = "approved"
                 THEN late \cup {k[1]} ELSE late
      /\ skipped' = IF row[k].action = "lock" THEN skipped \cup HeldByOthers(k[1], seen) ELSE skipped
  BY DEF LockTypeOK, CommitRow
<1>2. /\ k \in Keys /\ k[1] \in Runs /\ k[1] # Nobody /\ row[k].action \in {"lock", "unlock"}
      /\ seen \subseteq run[k[1]].covered_entry_ids
      /\ \A e \in Entries :
           owner'[e] = IF e \in seen /\ row[k].action = "lock" /\ owner[e] = Nobody THEN k[1]
                       ELSE IF e \in seen /\ row[k].action = "unlock" /\ owner[e] = k[1] THEN Nobody
                       ELSE owner[e]
      /\ row'[k].action = row[k].action /\ row'[k].status = "applied"
      /\ \A j \in Keys : j # k => row'[j] = row[j]
      /\ worker'[w].pc # "writing" /\ worker'[w].batch = worker[w].batch
      /\ \A x \in Workers \ {w} : worker'[x] = worker[x]
  BY CommitWrites
<1> SUFFICES ASSUME NEW r \in Runs, run[r].state = "approved"
             PROVE  row'[Latest(r)'].action = "lock" /\ (r \in late' \/ LockTakes(r)')
  BY <1>1 DEF ApprovedRunsLock
<1>3. row[Latest(r)].action = "lock" /\ (r \in late \/ LockTakes(r))
  BY DEF ApprovedRunsLock
<1>4. Latest(r)' = Latest(r) /\ Latest(r) \in Keys /\ run[r].covered_entry_ids \subseteq Entries
  BY <1>1, LatestIsKey DEF Latest
<1>5. row'[Latest(r)].action = "lock"
  BY <1>2, <1>3, <1>4
<1>6. late \subseteq late'
  BY <1>1
<1>7. SUFFICES ASSUME LockTakes(r), r \notin late'
               PROVE  LockTakes(r)'
  BY <1>3, <1>4, <1>5, <1>6
<1>8. ASSUME k = Latest(r), NEW e \in run[r].covered_entry_ids
      PROVE  e \in seen \/ Held(r, e)
  BY <1>1, <1>7, <1>8 DEF LockTakes
<1>9. k = Latest(r) => k[1] = r /\ row[k].action = "lock"
  BY <1>3 DEF Latest
<1> HIDE DEF k, seen
<1>10. ASSUME NEW e \in run[r].covered_entry_ids, Held(r, e)
       PROVE  Held(r, e)'
  <2>1. CASE owner[e] = r
    <3>1. ~(e \in seen /\ row[k].action = "unlock" /\ k[1] = r)
      BY <1>1, <1>7
    <3>2. owner'[e] = r
      BY <1>2, <1>4, <1>10, <2>1, <3>1, LockAssumption
    <3> QED
      BY <3>2 DEF Held
  <2>2. CASE <<r, e>> \in skipped
    BY <1>1, <2>2 DEF Held
  <2> QED
    BY <1>10, <2>1, <2>2 DEF Held
<1>11. ASSUME k = Latest(r), NEW e \in run[r].covered_entry_ids
       PROVE  Held(r, e)'
  <2>1. CASE Held(r, e)
    BY <1>10, <1>11, <2>1
  <2>2. CASE e \in seen /\ owner[e] = Nobody
    <3>1. owner'[e] = r
      BY <1>2, <1>4, <1>9, <1>11, <2>2
    <3> QED
      BY <3>1 DEF Held
  <2>3. CASE e \in seen /\ owner[e] \notin {r, Nobody}
    <3>1. <<r, e>> \in HeldByOthers(r, seen)
      BY <2>3 DEF HeldByOthers
    <3> QED
      BY <1>1, <1>9, <1>11, <3>1 DEF Held
  <2> QED
    BY <1>8, <1>11, <2>1, <2>2, <2>3 DEF Held
<1>12. row'[Latest(r)].status = "applied" => \A e \in run[r].covered_entry_ids : Held(r, e)'
  <2>1. CASE k = Latest(r)
    BY <1>11, <2>1
  <2>2. CASE k # Latest(r)
    BY <1>2, <1>4, <1>7, <1>10, <2>2 DEF LockTakes
  <2> QED
    BY <2>1, <2>2
<1>13. ASSUME NEW x \in Workers, worker'[x].pc = "writing", worker'[x].claim.key = Latest(r),
              NEW e \in run[r].covered_entry_ids
       PROVE  e \in worker'[x].seen \/ Held(r, e)'
  <2>1. worker'[x] = worker[x]
    BY <1>2, <1>13
  <2> QED
    BY <1>7, <1>10, <1>13, <2>1 DEF LockTakes
<1> QED
  BY <1>1, <1>4, <1>12, <1>13 DEF LockTakes

LEMMA ApprovedNext ==
  ASSUME LockTypeOK, ReopenInv, ApprovedRunsLock, [LockNext]_lockVars
  PROVE  ApprovedRunsLock'
<1>1. LockTypeOK' /\ row \in [Keys -> RowRecords] /\ worker \in [Workers -> Replicas]
  BY LockTypeNext DEF LockTypeOK
<1>2. ASSUME NEW r \in Runs, DraftRun(r) \/ InsertRun(r) \/ \E type \in EventTypes : Decide(r, type)
      PROVE  ApprovedRunsLock'
  BY <1>1, <1>2, ReviewLocks
<1>3. ASSUME NEW w \in Workers, StartStatement(w) \/ CommitRow(w)
      PROVE  ApprovedRunsLock'
  BY <1>1, <1>3, StartLocks, CommitLocks
<1>4. ASSUME NEW w \in Workers, Sweep(w) \/ SweepFails(w) \/ Claim(w) \/ RowFails(w) \/ Crash(w)
      PROVE  ApprovedRunsLock'
  <2>1. UNCHANGED <<run, owner, late, skipped>>
    BY <1>4 DEF Sweep, SweepFails, Claim, RowFails, Crash, history
  <2>2. \A x \in Workers : worker'[x].pc = "writing" => worker'[x] = worker[x]
    <3>1. \A x \in Workers \ {w} : worker'[x] = worker[x]
      BY <1>1, <1>4 DEF Sweep, SweepFails, Claim, RowFails, Crash, NextRow
    <3>2. worker'[w].pc # "writing"
      <4>1. CASE Sweep(w) \/ SweepFails(w)
        <5>1. worker' = [worker EXCEPT ![w].pc = "swept"] /\ worker[w] \in Replicas
          BY <1>1, <4>1 DEF Sweep, SweepFails
        <5> QED
          BY <1>1, <5>1 DEF Replicas
      <4>2. CASE Claim(w)
        BY <1>1, <4>2 DEF Claim, Idle
      <4>3. CASE RowFails(w)
        <5>1. NextRow(w)
          BY <4>3 DEF RowFails
        <5> QED
          BY <1>1, <5>1 DEF NextRow, Idle
      <4>4. CASE Crash(w)
        BY <1>1, <4>4 DEF Crash, Idle
      <4> QED
        BY <1>4, <4>1, <4>2, <4>3, <4>4
    <3> QED
      BY <3>1, <3>2
  <2>3. \A k \in Keys : /\ row'[k].action = row[k].action
                        /\ row'[k].status = "applied" => row[k].status = "applied"
    <3>1. CASE Sweep(w)
      <4>1. row' = [k \in Keys |-> IF Retirable(k) THEN [row[k] EXCEPT !.status = "dead"] ELSE row[k]]
        BY <3>1 DEF Sweep
      <4> QED
        BY <1>1, <4>1 DEF RowRecords
    <3>3. CASE Claim(w)
      <4>1. PICK batch : row' = [k \in Keys |->
                    IF k \in batch
                    THEN [row[k] EXCEPT !.status = "processing", !.due = FALSE,
                                        !.attempt_count = Attempt(k)]
                    ELSE row[k]]
        BY <3>3 DEF Claim
      <4> QED
        BY <1>1, <4>1 DEF RowRecords
    <3>4. CASE SweepFails(w) \/ Crash(w)
      BY <3>4 DEF SweepFails, Crash
    <3>2. CASE RowFails(w)
      <4> DEFINE j == worker[w].claim.key
                 status == IF worker[w].claim.attempt >= MaxAttempts THEN "failed" ELSE "pending"
      <4>1. row' = row \/ row' = [row EXCEPT ![j].status = status, ![j].due = FALSE]
        BY <3>2 DEF RowFails
      <4>2. status # "applied"
        OBVIOUS
      <4> HIDE DEF j, status
      <4> QED
        BY <1>1, <4>1, <4>2 DEF RowRecords
    <3> QED
      BY <1>4, <3>1, <3>2, <3>3, <3>4
  <2> QED
    BY <1>1, <2>1, <2>2, <2>3, QuietLocks
<1>5. ASSUME NEW k \in Keys, BecomesDue(k)
      PROVE  ApprovedRunsLock'
  <2>1. row' = [row EXCEPT ![k].due = TRUE] /\ UNCHANGED <<run, owner, worker, late, skipped>>
    BY <1>5 DEF BecomesDue, history
  <2>2. \A j \in Keys : row'[j].action = row[j].action /\ row'[j].status = row[j].status
    BY <1>1, <2>1 DEF RowRecords
  <2> QED
    BY <1>1, <2>1, <2>2, QuietLocks
<1>6. CASE UNCHANGED <<run, owner, row, worker, late, skipped>>
  BY <1>1, <1>6, QuietLocks
<1> QED
  BY <1>2, <1>3, <1>4, <1>5, <1>6 DEF LockNext, WorkerStep, DeleteEntry, lockVars, history

(***************************************************************************)
(* An approved run whose rows have all been applied holds every entry it   *)
(* covers, but those that another run held when its lock looked, unless an *)
(* unlock of an earlier reopening came late: for any replicas, runs that   *)
(* overlap in any way, orders, failures, retries, crashes and leases.      *)
(***************************************************************************)
THEOREM ApprovedRunsHoldTheirLocks == LockSpec => []ApprovedRunHoldsItsLocks
<1>1. LockInit => ApprovedRunsLock
  BY DEF LockInit, ApprovedRunsLock
<1>2. LockTypeOK /\ ReopenInv /\ ApprovedRunsLock => ApprovedRunHoldsItsLocks
  <2> SUFFICES ASSUME LockTypeOK, ReopenInv, ApprovedRunsLock, NEW r \in Runs \ late,
                      run[r].state = "approved", Applied(r)
               PROVE  \A e \in run[r].covered_entry_ids : Held(r, e)
    BY DEF ApprovedRunHoldsItsLocks, Held
  <2>1. row[Latest(r)].action = "lock" /\ LockTakes(r) /\ Latest(r) \in Keys
    BY LatestIsKey DEF ApprovedRunsLock
  <2>2. row[Latest(r)].status = "applied"
    BY <2>1 DEF ReopenInv, RowsAreMade, Applied, Latest, Keys
  <2> QED
    BY <2>1, <2>2 DEF LockTakes
<1>3. /\ LockTypeOK /\ ReopenInv /\ [LockNext]_lockVars => ReopenInv'
      /\ LockTypeOK /\ ReopenInv /\ ApprovedRunsLock /\ [LockNext]_lockVars => ApprovedRunsLock'
  BY ReopenNext, ApprovedNext
<1> QED
  BY <1>1, <1>2, <1>3, ReopenInit, LockTypeCorrect, PTL DEF LockSpec
-----------------------------------------------------------------------------
(* The books. *)

Actors == Bridges \cup Clerks

\* An enrolment that is about to write has a period.
ReadersHavePeriods == \A b \in Actors : enrol[b].pc = "read" => enrol[b].period \in Periods

ListsHoldEntries == \A p \in DOMAIN payroll : p \in Periods /\ payroll[p] \subseteq Entries

Stamps == [Entries -> Periods \cup {NoPeriod}]

IInv == TypeOK /\ ReadersHavePeriods /\ StampsMatchLists

LEMMA Types ==
  TypeOK <=> LockTypeOK /\ ListsHoldEntries /\ stamp \in Stamps /\ enrol \in [Actors -> Enrolments]
BY DEF TypeOK, ListsHoldEntries, Stamps, Actors

LEMMA RestingRests == Resting \in Enrolments /\ Resting.pc = "idle"
BY DEF Resting, Enrolments

LEMMA InitIInv == Init => IInv
<1> SUFFICES ASSUME Init PROVE IInv
  OBVIOUS
<1>1. LockTypeOK
  BY LockTypeInit DEF Init
<1>2. ListsHoldEntries /\ stamp \in Stamps /\ StampsMatchLists
  BY DEF Init, ListsHoldEntries, Stamps, StampsMatchLists, Enrolled
<1>3. enrol \in [Actors -> Enrolments] /\ ReadersHavePeriods
  BY RestingRests DEF Init, ReadersHavePeriods, Actors
<1> QED
  BY <1>1, <1>2, <1>3, Types DEF IInv

(***************************************************************************)
(* One transaction's writes: what is stamped and listed stays so, and      *)
(* stamps and lists agree again.                                           *)
(***************************************************************************)
LEMMA EnrolKeepsBooks ==
  ASSUME StampsMatchLists, ListsHoldEntries, stamp \in Stamps,
         NEW p \in Periods, NEW took \in SUBSET Entries, Enrol(p, took)
  PROVE  StampsMatchLists' /\ ListsHoldEntries' /\ stamp' \in Stamps
<1>1. CASE Enrolled(p)
  BY <1>1 DEF Enrol, StampsMatchLists, ListsHoldEntries, Enrolled
<1>2. CASE ~Enrolled(p)
  <2>1. /\ payroll' = [q \in DOMAIN payroll \cup {p} |-> IF q = p THEN took ELSE payroll[q]]
        /\ stamp' = [e \in Entries |-> IF e \in took /\ stamp[e] = NoPeriod THEN p ELSE stamp[e]]
    BY <1>2 DEF Enrol, Stamped
  <2>2. /\ DOMAIN payroll' = DOMAIN payroll \cup {p}
        /\ payroll'[p] = took
        /\ \A q \in DOMAIN payroll : payroll'[q] = payroll[q]
    BY <1>2, <2>1 DEF Enrolled
  <2>3. p # NoPeriod
    BY EnrolmentAssumption
  <2>4. ASSUME NEW e \in Entries, stamp'[e] # NoPeriod
        PROVE  stamp'[e] \in DOMAIN payroll' /\ e \in payroll'[stamp'[e]]
    <3>1. CASE e \in took /\ stamp[e] = NoPeriod
      BY <2>1, <2>2, <3>1
    <3>2. CASE ~(e \in took /\ stamp[e] = NoPeriod)
      BY <2>1, <2>2, <2>4, <3>2 DEF StampsMatchLists, Enrolled
    <3> QED
      BY <3>1, <3>2
  <2>5. ASSUME NEW e \in Entries, NEW q \in DOMAIN payroll', e \in payroll'[q]
        PROVE  stamp'[e] # NoPeriod
    <3>1. CASE q = p
      BY <2>1, <2>2, <2>3, <2>5, <3>1
    <3>2. CASE q # p
      BY <2>1, <2>2, <2>3, <2>5, <3>2 DEF StampsMatchLists
    <3> QED
      BY <3>1, <3>2
  <2>6. ListsHoldEntries'
    BY <2>2 DEF ListsHoldEntries
  <2>7. stamp' \in Stamps
    BY <2>1 DEF Stamps
  <2> QED
    BY <2>4, <2>5, <2>6, <2>7 DEF StampsMatchLists, Enrolled
<1> QED
  BY <1>1, <1>2

\* One actor moves on: to other candidates, or to writing what it read.
LEMMA ActorKeeps ==
  ASSUME enrol \in [Actors -> Enrolments], ReadersHavePeriods, NEW b \in Actors,
         NEW next \in Enrolments, enrol' = [enrol EXCEPT ![b] = next],
         next.pc = "read" => next.period \in Periods
  PROVE  enrol' \in [Actors -> Enrolments] /\ ReadersHavePeriods'
<1>1. enrol'[b] = next /\ \A a \in Actors \ {b} : enrol'[a] = enrol[a]
  OBVIOUS
<1> QED
  BY <1>1 DEF ReadersHavePeriods, Actors

LEMMA ProceedKeeps ==
  ASSUME enrol \in [Actors -> Enrolments], ReadersHavePeriods, NEW b \in Actors,
         NEW todo \in SUBSET Runs, Proceed(b, todo)
  PROVE  enrol' \in [Actors -> Enrolments] /\ ReadersHavePeriods'
<1> DEFINE next == [Resting EXCEPT !.pc = IF todo = {} THEN "idle" ELSE "listed", !.todo = todo]
<1>1. enrol' = [enrol EXCEPT ![b] = next]
  BY DEF Proceed
<1>2. next \in Enrolments /\ next.pc # "read"
  BY DEF Resting, Enrolments
<1> HIDE DEF next
<1> QED
  BY <1>1, <1>2, ActorKeeps

LEMMA ListKeeps ==
  ASSUME enrol \in [Actors -> Enrolments], ReadersHavePeriods, NEW b \in Actors, ListCandidates(b)
  PROVE  enrol' \in [Actors -> Enrolments] /\ ReadersHavePeriods'
<1> DEFINE chosen == {r \in Runs : run[r].state = "approved" /\ ~Enrolled(PeriodOf[r])}
           next == [enrol[b] EXCEPT !.pc = "listed", !.todo = chosen]
<1>1. enrol' = [enrol EXCEPT ![b].pc = "listed", ![b].todo = chosen]
  BY DEF ListCandidates
<1>2. chosen \in SUBSET Runs
  OBVIOUS
<1> HIDE DEF chosen
<1>3. next \in Enrolments /\ next.pc # "read" /\ enrol' = [enrol EXCEPT ![b] = next]
  BY <1>1, <1>2 DEF Enrolments
<1> HIDE DEF next
<1> QED
  BY <1>3, ActorKeeps

LEMMA ReadKeeps ==
  ASSUME enrol \in [Actors -> Enrolments], ReadersHavePeriods, LockTypeOK, NEW b \in Actors,
         ReadCovered(b) \/ ReadEligible(b)
  PROVE  enrol' \in [Actors -> Enrolments] /\ ReadersHavePeriods'
<1>1. CASE ReadCovered(b)
  <2>1. PICK r \in enrol[b].todo :
          IF Ready(run[r].covered_entry_ids)
          THEN enrol' = [enrol EXCEPT ![b] =
                 [ pc |-> "read", todo |-> enrol[b].todo \ {r}, period |-> PeriodOf[r],
                   took |-> run[r].covered_entry_ids \ deleted ]]
          ELSE Proceed(b, enrol[b].todo \ {r})
    BY <1>1 DEF ReadCovered
  <2>2. enrol[b].todo \in SUBSET Runs /\ r \in Runs /\ enrol[b].todo \ {r} \in SUBSET Runs
    BY DEF Enrolments
  <2>3. CASE Ready(run[r].covered_entry_ids)
    <3> DEFINE next == [ pc |-> "read", todo |-> enrol[b].todo \ {r}, period |-> PeriodOf[r],
                         took |-> run[r].covered_entry_ids \ deleted ]
    <3>1. run[r].covered_entry_ids \in SUBSET Entries
      BY <2>2 DEF LockTypeOK, RunRecords
    <3>2. PeriodOf[r] \in Periods
      BY <2>2, EnrolmentAssumption
    <3>3. next \in Enrolments /\ next.period \in Periods
      BY <2>2, <3>1, <3>2 DEF Enrolments
    <3>4. enrol' = [enrol EXCEPT ![b] = next]
      BY <2>1, <2>3
    <3> HIDE DEF next
    <3> QED
      BY <3>3, <3>4, ActorKeeps
  <2>4. CASE ~Ready(run[r].covered_entry_ids)
    BY <2>1, <2>2, <2>4, ProceedKeeps
  <2> QED
    BY <2>3, <2>4
<1>2. CASE ReadEligible(b)
  <2>1. PICK p \in Periods :
          LET eligible == {e \in InPeriod[p] \ deleted : Locked(e) /\ stamp[e] = NoPeriod} IN
          enrol' = [enrol EXCEPT ![b] = [Resting EXCEPT !.pc = "read", !.period = p,
                                                           !.took = eligible]]
    BY <1>2 DEF ReadEligible
  <2> DEFINE chosen == {e \in InPeriod[p] \ deleted : Locked(e) /\ stamp[e] = NoPeriod}
             next == [Resting EXCEPT !.pc = "read", !.period = p, !.took = chosen]
  <2>2. chosen \in SUBSET Entries
    BY EnrolmentAssumption
  <2>3. enrol' = [enrol EXCEPT ![b] = next]
    BY <2>1
  <2> HIDE DEF chosen
  <2>4. next \in Enrolments /\ next.period \in Periods
    BY <2>2 DEF Resting, Enrolments
  <2> HIDE DEF next
  <2> QED
    BY <2>3, <2>4, ActorKeeps
<1> QED
  BY <1>1, <1>2

LEMMA EnrolNextKeeps ==
  ASSUME IInv, EnrolNext, UNCHANGED lockVars
  PROVE  IInv'
<1>1. /\ LockTypeOK /\ ListsHoldEntries /\ stamp \in Stamps /\ StampsMatchLists
      /\ enrol \in [Actors -> Enrolments] /\ ReadersHavePeriods
  BY Types DEF IInv
<1>2. LockTypeOK'
  BY <1>1, LockTypeNext
<1>3. PICK b \in Actors : \/ ListCandidates(b) \/ ReadCovered(b) \/ ReadEligible(b)
                          \/ CommitEnrolment(b) \/ EnrolmentFails(b)
  BY DEF EnrolNext, Actors
<1>4. enrol[b] \in Enrolments
  BY <1>1
<1>5. StampsMatchLists' /\ ListsHoldEntries' /\ stamp' \in Stamps
  <2>1. CASE CommitEnrolment(b)
    <3>1. enrol[b].pc = "read" /\ Enrol(enrol[b].period, enrol[b].took)
      BY <2>1 DEF CommitEnrolment
    <3>2. enrol[b].period \in Periods /\ enrol[b].took \in SUBSET Entries
      BY <1>1, <1>4, <3>1 DEF ReadersHavePeriods, Enrolments
    <3> QED
      BY <1>1, <3>1, <3>2, EnrolKeepsBooks
  <2>2. CASE UNCHANGED <<payroll, stamp>>
    BY <1>1, <2>2 DEF StampsMatchLists, ListsHoldEntries, Enrolled
  <2> QED
    BY <1>3, <2>1, <2>2 DEF ListCandidates, ReadCovered, ReadEligible, EnrolmentFails
<1>6. enrol' \in [Actors -> Enrolments] /\ ReadersHavePeriods'
  <2>1. CASE ListCandidates(b)
    BY <1>1, <2>1, ListKeeps
  <2>2. CASE ReadCovered(b) \/ ReadEligible(b)
    BY <1>1, <2>2, ReadKeeps
  <2>3. CASE CommitEnrolment(b) \/ EnrolmentFails(b)
    <3>1. enrol[b].todo \in SUBSET Runs /\ {} \in SUBSET Runs
      BY <1>4 DEF Enrolments
    <3>2. Proceed(b, enrol[b].todo) \/ Proceed(b, {})
      BY <2>3 DEF CommitEnrolment, EnrolmentFails
    <3> QED
      BY <1>1, <3>1, <3>2, ProceedKeeps
  <2> QED
    BY <1>3, <2>1, <2>2, <2>3
<1> QED
  BY <1>2, <1>5, <1>6 DEF IInv, TypeOK, ListsHoldEntries, Stamps, Actors

LEMMA NextIInv == IInv /\ [Next]_vars => IInv'
<1> SUFFICES ASSUME IInv, [Next]_vars PROVE IInv'
  OBVIOUS
<1>1. CASE EnrolNext /\ UNCHANGED lockVars
  BY <1>1, EnrolNextKeeps
<1>2. CASE (LockNext \/ UNCHANGED lockVars) /\ UNCHANGED enrolVars
  <2>1. LockTypeOK'
    BY <1>2, LockTypeNext DEF IInv, TypeOK
  <2>2. UNCHANGED <<payroll, stamp, enrol>>
    BY <1>2 DEF enrolVars
  <2> QED
    BY <2>1, <2>2 DEF IInv, TypeOK, ReadersHavePeriods, StampsMatchLists, Enrolled
<1> QED
  BY <1>1, <1>2 DEF Next, vars, enrolVars

(***************************************************************************)
(* Locks, books and enrolments keep their types: no payroll run lists what *)
(* is not an entry, and every enrolment under way is of some period.       *)
(***************************************************************************)
THEOREM EnrolmentTypeCorrect == Spec => []TypeOK
<1>1. IInv => TypeOK
  BY DEF IInv
<1> QED
  BY <1>1, InitIInv, NextIInv, PTL DEF Spec

(***************************************************************************)
(* Stamps and lists agree, whatever enrolments of a period race and        *)
(* whatever they read.                                                     *)
(***************************************************************************)
THEOREM StampsAndListsAgree == Spec => []StampsMatchLists
<1>1. IInv => StampsMatchLists
  BY DEF IInv
<1> QED
  BY <1>1, InitIInv, NextIInv, PTL DEF Spec

\* Nothing ever takes a stamp or a list back.
LEMMA NextIsFinal ==
  ASSUME TypeOK, [Next]_vars
  PROVE  /\ \A e \in Entries : stamp[e] # NoPeriod => stamp'[e] = stamp[e]
         /\ \A p \in DOMAIN payroll : p \in DOMAIN payroll' /\ payroll'[p] = payroll[p]
<1>1. CASE UNCHANGED <<payroll, stamp>>
  BY <1>1
<1>2. ASSUME NEW b, CommitEnrolment(b)
      PROVE  /\ \A e \in Entries : stamp[e] # NoPeriod => stamp'[e] = stamp[e]
             /\ \A p \in DOMAIN payroll : p \in DOMAIN payroll' /\ payroll'[p] = payroll[p]
  <2>1. PICK p, took : Enrol(p, took)
    BY <1>2 DEF CommitEnrolment
  <2>2. CASE Enrolled(p)
    BY <1>1, <2>1, <2>2 DEF Enrol
  <2>3. CASE ~Enrolled(p)
    BY <2>1, <2>3 DEF Enrol, Enrolled, Stamped
  <2> QED
    BY <2>2, <2>3
<1>3. CASE EnrolNext
  BY <1>1, <1>2, <1>3 DEF EnrolNext, ListCandidates, ReadCovered, ReadEligible, EnrolmentFails
<1> QED
  BY <1>1, <1>3 DEF Next, vars, enrolVars

(***************************************************************************)
(* What is on a payroll run stays on it, through every reopening.          *)
(***************************************************************************)
THEOREM BooksAreFinal == Spec => EnrolmentIsFinal
<1> DEFINE Final ==
      /\ \A e \in Entries : stamp[e] # NoPeriod => stamp'[e] = stamp[e]
      /\ \A p \in DOMAIN payroll : p \in DOMAIN payroll' /\ payroll'[p] = payroll[p]
<1>1. IInv /\ [Next]_vars => [Final]_vars
  BY NextIsFinal DEF IInv
<1> HIDE DEF Final
<1>2. Spec => [][Final]_vars
  BY <1>1, InitIInv, NextIInv, PTL DEF Spec
<1> QED
  BY <1>2 DEF EnrolmentIsFinal, Final
=============================================================================
