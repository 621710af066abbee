------------------------------ MODULE LaborLock ------------------------------
(***************************************************************************)
(* How an approved time review locks labor entries: review runs decided    *)
(* through the API, one lock_labor_entries outbox row per decision, and    *)
(* the worker replicas that apply those rows (lock-labor-entries.ts).      *)
(*                                                                         *)
(* A lock or unlock is one UPDATE under READ COMMITTED.  It chooses its    *)
(* entries, and evaluates the EXISTS over the run, on the snapshot its     *)
(* statement takes (StartStatement); when its transaction commits          *)
(* (CommitRow) it has written those of them that still satisfy the         *)
(* conditions on the entry itself, which PostgreSQL re-checks on a row     *)
(* another transaction changed meanwhile.  The EXISTS is not re-checked.   *)
(*                                                                         *)
(* review_locked_at and review_run_id are always set and cleared together: *)
(* owner is both.  Entries are soft-deleted by the office without asking   *)
(* whether they are locked, and deleted entries are locked like others.    *)
(*                                                                         *)
(* raced, late and skipped are history: no step asks for them, only the    *)
(* properties do.                                                          *)
(***************************************************************************)
EXTENDS TimeReview, FiniteSets

CONSTANTS
  Runs,         \* ids of time_review_runs rows
  Entries,      \* ids of labor_entries rows
  Window,       \* the entries in each run's period and project
  Workers,      \* worker replicas
  BatchLimit,   \* rows one claim takes at most (25)
  MaxAttempts,  \* LOCK_LABOR_ENTRIES_MAX_ATTEMPTS (5)
  MaxRetries,   \* MUTATION_MAX_RETRIES, the dead-letter cap (10)
  MaxVersion,   \* bound: reviewers stop at this state_version
  Deletable,    \* bound: the entries the office deletes
  Nobody        \* no owner, no row

ASSUME LockAssumption ==
  /\ Window \in [Runs -> SUBSET Entries]
  /\ BatchLimit \in Nat \ {0}
  /\ MaxAttempts \in Nat \ {0}
  /\ MaxRetries \in Nat \ {0}
  /\ MaxVersion \in Nat \ {0}
  /\ Deletable \subseteq Entries
  /\ Nobody \notin Runs

VARIABLES
  run,     \* time_review_runs
  owner,   \* labor_entries.review_run_id
  deleted, \* the entries whose deleted_at is set
  row,     \* the outbox row of each decision, keyed by run and state_version
  worker,  \* where each replica is in its drain
  raced,   \* history: runs an unlock of which began, since they were last
           \* reopened, while a lock of theirs that had chosen entries was uncommitted
  late,    \* history: runs an unlock of which was committed, with entries to
           \* release, since they were last approved and while they were approved
  skipped  \* history: <<run, entry>> where a lock of the run, since it was last
           \* approved, found the entry held by another run

history == <<raced, late, skipped>>

lockVars == <<run, owner, deleted, row, worker, history>>

Keys == Runs \X (1..MaxVersion)

Live == {"pending", "processing"}

\* due: next_attempt_at <= now().
RowRecords ==
  [ action : {"none", "lock", "unlock"}, status : Live \cup {"none", "applied", "failed", "dead"},
    attempt_count : 0..MaxRetries, due : BOOLEAN ]

NoRow == [action |-> "none", status |-> "none", attempt_count |-> 0, due |-> FALSE]

RunRecords ==
  [ state : States \cup {"absent", "drafted"}, state_version : 1..MaxVersion,
    covered_entry_ids : SUBSET Entries ]

\* A claimed row and the attempt_count its claim returned.
Claims == [key : Keys, attempt : 1..MaxRetries]

ASSUME NobodyIsNoClaim == Nobody \notin Claims

\* seen: the entries the running statement chose.
Replicas ==
  [ pc : {"idle", "swept", "rows", "writing"}, batch : SUBSET Claims,
    claim : Claims \cup {Nobody}, seen : SUBSET Entries ]

Idle == [pc |-> "idle", batch |-> {}, claim |-> Nobody, seen |-> {}]

LockTypeOK ==
  /\ run \in [Runs -> RunRecords]
  /\ owner \in [Entries -> Runs \cup {Nobody}]
  /\ row \in [Keys -> RowRecords]
  /\ worker \in [Workers -> Replicas]
  /\ deleted \subseteq Entries
  /\ raced \subseteq Runs /\ late \subseteq Runs /\ skipped \subseteq Runs \X Entries
  /\ \A k \in Keys : row[k].action # "none" => k[2] \in 2..run[k[1]].state_version
  /\ \A w \in Workers : worker[w].pc = "writing" <=> worker[w].claim # Nobody

LockInit ==
  /\ run = [r \in Runs |-> [state |-> "absent", state_version |-> 1, covered_entry_ids |-> {}]]
  /\ owner = [e \in Entries |-> Nobody]
  /\ row = [k \in Keys |-> NoRow]
  /\ worker = [w \in Workers |-> Idle]
  /\ deleted = {} /\ raced = {} /\ late = {} /\ skipped = {}
-----------------------------------------------------------------------------
(* The API. *)

\* POST /api/time-review-runs: the entries are read first, in a transaction of
\* their own; an entry that is deleted or locked already is left out.
DraftRun(r) ==
  /\ run[r].state = "absent"
  /\ run' = [run EXCEPT ![r].state = "drafted",
                        ![r].covered_entry_ids = {e \in Window[r] \ deleted : owner[e] = Nobody}]
  /\ UNCHANGED <<owner, deleted, row, worker, history>>

InsertRun(r) ==
  /\ run[r].state = "drafted"
  /\ run' = [run EXCEPT ![r].state = "pending"]
  /\ UNCHANGED <<owner, deleted, row, worker, history>>

\* DELETE /api/labor-entries/<id>, whatever locks the entry.
DeleteEntry(e) ==
  /\ e \notin deleted
  /\ deleted' = deleted \cup {e}
  /\ UNCHANGED <<run, owner, row, worker, history>>

\* time_review:lock:<run>:<state_version>, of the version the decision makes.
RowKey(r) == <<r, run[r].state_version + 1>>

\* A reviewer's event: reduce, persist and enqueue in one transaction.
Decide(r, type) ==
  /\ Legal(run[r], type)
  /\ run[r].state_version < MaxVersion
  /\ run' = [run EXCEPT ![r] = Reduce(run[r], type)]
  /\ row' = IF SideEffect[type] = "none" THEN row
            ELSE [row EXCEPT ![RowKey(r)] =
                    [ action |-> SideEffect[type], status |-> "pending",
                      attempt_count |-> 0, due |-> TRUE ]]
  /\ raced' = IF type = "REOPEN" THEN raced \ {r} ELSE raced
  /\ late' = IF type = "APPROVE" THEN late \ {r} ELSE late
  /\ skipped' = IF type = "APPROVE" THEN {p \in skipped : p[1] # r} ELSE skipped
  /\ UNCHANGED <<owner, deleted, worker>>
-----------------------------------------------------------------------------
(* The worker. *)

\* Mutant of Retirable: only rows nobody has claimed are retired.
RetirablePending(k) == row[k].status = "pending" /\ row[k].attempt_count >= MaxRetries

\* A queued row whose attempts have reached the cap.
Retirable(k) == row[k].status \in Live /\ row[k].attempt_count >= MaxRetries

\* deadLetterStaleOutbox runs before the drain, best effort.
Sweep(w) ==
  /\ worker[w].pc = "idle"
  /\ row' = [k \in Keys |-> IF Retirable(k) THEN [row[k] EXCEPT !.status = "dead"] ELSE row[k]]
  /\ worker' = [worker EXCEPT ![w].pc = "swept"]
  /\ UNCHANGED <<run, owner, deleted, history>>

SweepFails(w) ==
  /\ worker[w].pc = "idle"
  /\ worker' = [worker EXCEPT ![w].pc = "swept"]
  /\ UNCHANGED <<run, owner, deleted, row, history>>

Claimable(k) == row[k].status \in Live /\ row[k].due

\* attempt_count saturates at MaxRetries: nothing tells higher counts apart.
Attempt(k) == IF row[k].attempt_count < MaxRetries THEN row[k].attempt_count + 1 ELSE MaxRetries

\* FOR UPDATE SKIP LOCKED, at most BatchLimit rows, a lease of five minutes.
Claim(w) ==
  /\ worker[w].pc = "swept"
  /\ \E batch \in SUBSET {k \in Keys : Claimable(k)} :
       /\ Cardinality(batch) <= BatchLimit
       /\ Cardinality(batch) < BatchLimit => \A k \in Keys : Claimable(k) => k \in batch
       /\ row' = [k \in Keys |->
                    IF k \in batch
                    THEN [row[k] EXCEPT !.status = "processing", !.due = FALSE,
                                        !.attempt_count = Attempt(k)]
                    ELSE row[k]]
       /\ worker' = [worker EXCEPT ![w] =
                       [Idle EXCEPT !.pc = IF batch = {} THEN "idle" ELSE "rows",
                                    !.batch = {[key |-> k, attempt |-> Attempt(k)] : k \in batch}]]
  /\ UNCHANGED <<run, owner, deleted, history>>

\* Mutant of Matches: the lock does not ask whether the run is still approved.
MatchesUnguarded(k) ==
  { e \in run[k[1]].covered_entry_ids :
      owner[e] = IF row[k].action = "lock" THEN Nobody ELSE k[1] }

\* The entries a row's UPDATE chooses: unlocked entries of a run that is still
\* approved, or the entries that the run to be unlocked owns.
Matches(k) ==
  { e \in run[k[1]].covered_entry_ids :
      IF row[k].action = "lock"
      THEN owner[e] = Nobody /\ run[k[1]].state = "approved"
      ELSE owner[e] = k[1] }

\* A lock of run r that has chosen entries is not committed yet.
LockUncommitted(r) ==
  \E w \in Workers :
    /\ worker[w].pc = "writing"
    /\ worker[w].claim.key[1] = r
    /\ row[worker[w].claim.key].action = "lock"
    /\ worker[w].seen # {}

HeldByOthers(r, entries) == {r} \X {e \in entries : owner[e] \notin {r, Nobody}}

\* One transaction per row, in the order UPDATE ... RETURNING gave, which is
\* no order.
StartStatement(w) ==
  /\ worker[w].pc = "rows"
  /\ \E c \in worker[w].batch :
       LET r == c.key[1] IN
       /\ worker' = [worker EXCEPT ![w] =
            [ pc |-> "writing", batch |-> worker[w].batch \ {c}, claim |-> c,
              seen |-> Matches(c.key) ]]
       /\ raced' = IF row[c.key].action = "unlock" /\ LockUncommitted(r)
                   THEN raced \cup {r} ELSE raced
       /\ skipped' = IF row[c.key].action = "lock"
                     THEN skipped \cup HeldByOthers(r, run[r].covered_entry_ids) ELSE skipped
  /\ UNCHANGED <<run, owner, deleted, row, late>>

NextRow(w) ==
  worker' = [worker EXCEPT ![w] =
    [Idle EXCEPT !.pc = IF worker[w].batch = {} THEN "idle" ELSE "rows",
                 !.batch = worker[w].batch]]

\* Mutant of Write: an unlock clears every entry its run covers.
WriteByCoverage(k, seen) ==
  [ e \in Entries |->
      CASE e \in seen /\ row[k].action = "lock" /\ owner[e] = Nobody -> k[1]
        [] e \in run[k[1]].covered_entry_ids /\ row[k].action = "unlock" -> Nobody
        [] OTHER -> owner[e] ]

\* The owners once the chosen entries that still qualify are written.
Write(k, seen) ==
  [ e \in Entries |->
      CASE e \in seen /\ row[k].action = "lock" /\ owner[e] = Nobody -> k[1]
        [] e \in seen /\ row[k].action = "unlock" /\ owner[e] = k[1] -> Nobody
        [] OTHER -> owner[e] ]

CommitRow(w) ==
  LET k == worker[w].claim.key IN
  /\ worker[w].pc = "writing"
  /\ owner' = Write(k, worker[w].seen)
  /\ row' = [row EXCEPT ![k].status = "applied"]
  /\ late' = IF row[k].action = "unlock" /\ worker[w].seen # {} /\ run[k[1]].state = "approved"
             THEN late \cup {k[1]} ELSE late
  /\ skipped' = IF row[k].action = "lock"
                THEN skipped \cup HeldByOthers(k[1], worker[w].seen) ELSE skipped
  /\ NextRow(w)
  /\ UNCHANGED <<run, deleted, raced>>

\* The row's transaction fails and is rolled back: park it after MaxAttempts,
\* else back off for a minute.  The update is by id and may itself fail.
RowFails(w) ==
  LET c == worker[w].claim IN
  /\ worker[w].pc = "writing"
  /\ \/ row' = [row EXCEPT
                  ![c.key].status = IF c.attempt >= MaxAttempts THEN "failed" ELSE "pending",
                  ![c.key].due = FALSE]
     \/ UNCHANGED row
  /\ NextRow(w)
  /\ UNCHANGED <<run, owner, deleted, history>>

Crash(w) ==
  /\ worker[w].pc # "idle"
  /\ worker' = [worker EXCEPT ![w] = Idle]
  /\ UNCHANGED <<run, owner, deleted, row, history>>

\* A row's lease or back-off runs out.
BecomesDue(k) ==
  /\ row[k].status \in Live
  /\ ~row[k].due
  /\ row' = [row EXCEPT ![k].due = TRUE]
  /\ UNCHANGED <<run, owner, deleted, worker, history>>

WorkerStep(w) ==
  \/ Sweep(w)
  \/ SweepFails(w)
  \/ Claim(w)
  \/ StartStatement(w)
  \/ CommitRow(w)
  \/ RowFails(w)

LockNext ==
  \/ \E r \in Runs : DraftRun(r) \/ InsertRun(r)
  \/ \E e \in Deletable : DeleteEntry(e)
  \/ \E r \in Runs, type \in EventTypes : Decide(r, type)
  \/ \E w \in Workers : WorkerStep(w) \/ Crash(w)
  \/ \E k \in Keys : BecomesDue(k)

LockSpec == LockInit /\ [][LockNext]_lockVars

\* The replicas keep ticking, not every sweep fails, a replica that ticks gets
\* to claim now and then, and time passes.  A transaction that only ever fails,
\* or a process that dies in every one, is not ruled out.
FairLockSpec ==
  /\ LockSpec
  /\ \A w \in Workers :
       /\ WF_lockVars(WorkerStep(w))
       /\ SF_lockVars(Sweep(w))
       /\ SF_lockVars(Claim(w))
  /\ \A k \in Keys : WF_lockVars(BecomesDue(k))
-----------------------------------------------------------------------------
(* Properties. *)

Applied(r) == \A v \in 1..MaxVersion : row[<<r, v>>].status \in {"none", "applied"}

\* Once every row of a reopened run has been applied, in whatever order and by
\* whatever replicas, no entry is left locked by it: the stranding that the
\* EXISTS of the lock UPDATE is there to prevent.  It can still happen in one
\* way: an unlock begins while a replica holds a lock that chose its entries
\* before the run was reopened and has not committed (raced), so each of the
\* two statements misses what the other does.
ReopenedRunHoldsNoLock ==
  \A r \in Runs \ raced :
    run[r].state # "approved" /\ Applied(r) => \A e \in Entries : owner[e] # r

\* Once every row of an approved run has been applied, every entry it covers is
\* locked by it, whatever two reviews that cover the entry did to it in turn.
\* The code has two ways to miss one: another run held the entry when the lock
\* looked (skipped; nothing takes it when that run lets go), and an unlock of an
\* earlier reopening that was committed after the run was approved again (late).
ApprovedRunHoldsItsLocks ==
  \A r \in Runs \ late :
    run[r].state = "approved" /\ Applied(r) =>
      \A e \in run[r].covered_entry_ids : owner[e] = r \/ <<r, e>> \in skipped

\* Every decision's row ends applied, failed or dead: neither a transaction that
\* always fails nor a crash at every attempt keeps it queued for ever.
RowsSettle ==
  \A k \in Keys : row[k].status \in Live ~> row[k].status \notin Live
=============================================================================
