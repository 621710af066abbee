----------------------------- MODULE EstimateShares -----------------------------
(***************************************************************************)
(* A project's estimate sent to the customer: the signed links the office  *)
(* creates and revokes, the customer's answer through the portal, the      *)
(* project's lifecycle that follows both when it can, and the e-mail that  *)
(* carries each link, drained from mutation_outbox by drainAgentMutations. *)
(*                                                                         *)
(* Every API request is one transaction under the locks of the link and of *)
(* the project.  The drain reads the link without a lock, sends the e-mail *)
(* inside the transaction that marks the row, and may crash, fail or lose  *)
(* its lease between any two of these.                                     *)
(***************************************************************************)
EXTENDS Naturals, FiniteSets

CONSTANTS
  Shares,       \* ids of estimate_share_links rows of the project
  Older,        \* those created and mailed while the project was a draft
  Workers,      \* worker replicas
  BatchLimit,   \* rows one claim takes at most (5)
  MaxAttempts,  \* a failure parks the row from this attempt on (5)
  MaxRetries,   \* MUTATION_MAX_RETRIES, the dead-letter cap (10)
  MaxFaults,    \* bound: sweeps that fail and replicas that stop
  Nobody        \* no share

ASSUME ShareAssumption ==
  /\ BatchLimit \in Nat \ {0} /\ MaxAttempts \in Nat \ {0} /\ MaxRetries \in Nat \ {0}
  /\ MaxFaults \in Nat /\ Older \subseteq Shares /\ Nobody \notin Shares
  /\ IsFiniteSet(Workers) /\ Workers # {}

VARIABLES
  link,     \* estimate_share_links
  project,  \* projects.lifecycle_state
  row,      \* the send_estimate_share row of each link
  worker,   \* where each replica is in its drain
  faults,   \* failed sweeps and crashes so far
  mailed,   \* e-mails sent for each link
  before,   \* history, while the project is sent: links answered before it was
  deal      \* history: the link whose answer brought the project where it is

vars == <<link, project, row, worker, faults, mailed, before, deal>>

\* What the office and the customer change together.
sales == <<link, project, before, deal>>

Tables == INSTANCE WorkflowTables

Lifecycle == Tables!ProjectLifecycle.steps

\* status stays "sent" when the customer answers; gone: expires_at <= now().
Links ==
  [ status : {"none", "sent", "revoked"}, gone : BOOLEAN,
    answer : {"none", "ACCEPT", "DECLINE"} ]

Queue == {"pending", "processing"}

Rows == [status : Queue \cup {"none", "applied", "failed", "dead"}, attempts : Nat, due : BOOLEAN]

Replicas ==
  [pc : {"idle", "swept", "rows", "sending", "sent", "failing"}, batch : SUBSET Shares,
   share : Shares \cup {Nobody}]

Idle == [pc |-> "idle", batch |-> {}, share |-> Nobody]

Init ==
  /\ link = [s \in Shares |->
               [ status |-> IF s \in Older THEN "sent" ELSE "none", gone |-> FALSE,
                 answer |-> "none" ]]
  /\ project = "draft"
  /\ row = [s \in Shares |->
              IF s \in Older THEN [status |-> "applied", attempts |-> 1, due |-> FALSE]
              ELSE [status |-> "none", attempts |-> 0, due |-> FALSE]]
  /\ worker = [w \in Workers |-> Idle]
  /\ faults = 0
  /\ mailed = [s \in Shares |-> IF s \in Older THEN 1 ELSE 0]
  /\ before = {}
  /\ deal = Nobody
-----------------------------------------------------------------------------
(* The office and the customer. *)

Answered == {s \in Shares : link[s].answer # "none"}

\* The project takes a lifecycle event, raised by the answer on link s or by
\* the office (Nobody).
Moves(event, s) ==
  /\ project' = Lifecycle[event].to
  /\ before' = IF event = "SEND" THEN Answered ELSE {}
  /\ deal' = s

Stays == UNCHANGED <<project, before, deal>>

\* Mutant: the portal moves the lifecycle only when the customer accepts.
MaybeApplyAccepts(event, s) ==
  IF event # "DECLINE" /\ project \in Lifecycle[event].from THEN Moves(event, s) ELSE Stays

\* maybeApplyLifecycleEvent: an event the lifecycle does not take is logged
\* and dropped; the link keeps what happened.
MaybeApply(event, s) ==
  IF project \in Lifecycle[event].from THEN Moves(event, s) ELSE Stays

\* POST /api/projects/:id/estimate/share, whatever state the project is in.
Create(s) ==
  /\ link[s].status = "none"
  /\ link' = [link EXCEPT ![s].status = "sent"]
  /\ row' = [row EXCEPT ![s] = [status |-> "pending", attempts |-> 0, due |-> TRUE]]
  /\ MaybeApply("SEND", Nobody)
  /\ UNCHANGED <<worker, faults, mailed>>

\* REVOKE asks the reducer about the status, which an answer does not change:
\* an answered link may be revoked.
Revoke(s) ==
  /\ link[s].status = "sent"
  /\ link' = [link EXCEPT ![s].status = "revoked", ![s].gone = TRUE]
  /\ UNCHANGED <<project, row, worker, faults, mailed, before, deal>>

Expire(s) ==
  /\ link[s].status = "sent"
  /\ ~link[s].gone
  /\ link' = [link EXCEPT ![s].gone = TRUE]
  /\ UNCHANGED <<project, row, worker, faults, mailed, before, deal>>

\* Mutant: a link is answered as long as its status allows, however often.
OpenWhileSent(s) == link[s].status = "sent" /\ ~link[s].gone

\* classifyShareForRecipient, and no answer yet: a repeated answer is returned
\* as it was, the opposite one is refused.
Open(s) == link[s].status = "sent" /\ ~link[s].gone /\ link[s].answer = "none"

\* The portal's accept and decline.
Answer(s, event) ==
  /\ Open(s)
  /\ link' = [link EXCEPT ![s].answer = event]
  /\ MaybeApply(event, s)
  /\ UNCHANGED <<row, worker, faults, mailed>>

\* POST /api/projects/:id/lifecycle/events, on the version the office saw.
StaffEvent(event) ==
  /\ project \in Lifecycle[event].from
  /\ Moves(event, Nobody)
  /\ UNCHANGED <<link, row, worker, faults, mailed>>
-----------------------------------------------------------------------------
(* The drain. *)

\* Mutant: a row whose replica died is not retired.
RetirablePending(s) == row[s].status = "pending" /\ row[s].attempts >= MaxRetries

Retirable(s) == row[s].status \in Queue /\ row[s].attempts >= MaxRetries

Sweep(w) ==
  /\ worker[w].pc = "idle"
  /\ row' = [s \in Shares |-> IF Retirable(s) THEN [row[s] EXCEPT !.status = "dead"] ELSE row[s]]
  /\ worker' = [worker EXCEPT ![w].pc = "swept"]
  /\ UNCHANGED <<sales, faults, mailed>>

SweepFails(w) ==
  /\ worker[w].pc = "idle"
  /\ faults < MaxFaults
  /\ faults' = faults + 1
  /\ worker' = [worker EXCEPT ![w].pc = "swept"]
  /\ UNCHANGED <<sales, row, mailed>>

Claimable(s) == row[s].status \in Queue /\ row[s].due

Rest(batch) == [Idle EXCEPT !.pc = IF batch = {} THEN "idle" ELSE "rows", !.batch = batch]

Claim(w) ==
  /\ worker[w].pc = "swept"
  /\ \E batch \in SUBSET {s \in Shares : Claimable(s)} :
       /\ Cardinality(batch) <= BatchLimit
       /\ Cardinality(batch) < BatchLimit => \A s \in Shares : Claimable(s) => s \in batch
       /\ row' = [s \in Shares |->
                    IF s \in batch
                    THEN [status |-> "processing", attempts |-> row[s].attempts + 1, due |-> FALSE]
                    ELSE row[s]]
       /\ worker' = [worker EXCEPT ![w] = Rest(batch)]
  /\ UNCHANGED <<sales, faults, mailed>>

Works(w, s, pc) ==
  worker' = [worker EXCEPT ![w] = [pc |-> pc, batch |-> worker[w].batch \ {s}, share |-> s]]

\* The guard's read: a link that is no longer live is not mailed, its row is
\* completed all the same.
ReadShare(w) ==
  /\ worker[w].pc = "rows"
  /\ \E s \in worker[w].batch : Works(w, s, IF link[s].gone THEN "sent" ELSE "sending")
  /\ UNCHANGED <<sales, row, faults, mailed>>

Goes(w, pc) == worker' = [worker EXCEPT ![w].pc = pc]

SendEmail(w) ==
  /\ worker[w].pc = "sending"
  /\ mailed' = [mailed EXCEPT ![worker[w].share] = @ + 1]
  /\ Goes(w, "sent")
  /\ UNCHANGED <<sales, row, faults>>

\* Mutant: the provider's failure is logged and the row completed.
ThrowsNothing(w) == Goes(w, "sent")

Throws(w) == Goes(w, "failing")

\* The provider fails, or the answer is lost after it took the message.
SendFails(w) ==
  /\ worker[w].pc = "sending"
  /\ mailed' \in {mailed, [mailed EXCEPT ![worker[w].share] = @ + 1]}
  /\ Throws(w)
  /\ UNCHANGED <<sales, row, faults>>

NextRow(w) == worker' = [worker EXCEPT ![w] = Rest(worker[w].batch)]

CommitRow(w) ==
  /\ worker[w].pc = "sent"
  /\ row' = [row EXCEPT ![worker[w].share].status = "applied"]
  /\ NextRow(w)
  /\ UNCHANGED <<sales, faults, mailed>>

CommitFails(w) ==
  /\ worker[w].pc = "sent"
  /\ Goes(w, "failing")
  /\ UNCHANGED <<sales, row, faults, mailed>>

\* Mutant: the attempt that failed is given back.
ParkedForFree(s) ==
  [row[s] EXCEPT !.status = "pending", !.attempts = @ - 1, !.due = FALSE]

\* By id, whatever became of the row meanwhile.
Parked(s) ==
  [row[s] EXCEPT !.status = IF row[s].attempts >= MaxAttempts THEN "failed" ELSE "pending",
                 !.due = FALSE]

\* Written outside the transaction that failed, and itself best effort.
RecordFailure(w) ==
  /\ worker[w].pc = "failing"
  /\ row' \in {row, [row EXCEPT ![worker[w].share] = Parked(worker[w].share)]}
  /\ NextRow(w)
  /\ UNCHANGED <<sales, faults, mailed>>

Crash(w) ==
  /\ worker[w].pc # "idle"
  /\ faults < MaxFaults
  /\ faults' = faults + 1
  /\ worker' = [worker EXCEPT ![w] = Idle]
  /\ UNCHANGED <<sales, row, mailed>>

\* A lease or a back-off runs out.
BecomesDue(s) ==
  /\ row[s].status \in Queue
  /\ ~row[s].due
  /\ row' = [row EXCEPT ![s].due = TRUE]
  /\ UNCHANGED <<sales, worker, faults, mailed>>

WorkerStep(w) ==
  \/ Sweep(w) \/ SweepFails(w) \/ Claim(w) \/ ReadShare(w)
  \/ SendEmail(w) \/ SendFails(w) \/ CommitRow(w) \/ CommitFails(w) \/ RecordFailure(w)

Next ==
  \/ \E s \in Shares :
       Create(s) \/ Revoke(s) \/ Expire(s) \/ Answer(s, "ACCEPT") \/ Answer(s, "DECLINE")
  \/ \E event \in DOMAIN Lifecycle : StaffEvent(event)
  \/ \E w \in Workers : WorkerStep(w) \/ Crash(w)
  \/ \E s \in Shares : BecomesDue(s)

Spec == Init /\ [][Next]_vars
-----------------------------------------------------------------------------
(* The cap bounds the attempts: one more for each other replica that swept
   before the row reached it, one more for each sweep that failed. *)
TypeOK ==
  /\ link \in [Shares -> Links]
  /\ project \in DOMAIN Tables!ProjectLifecycle.offers
  /\ row \in [Shares -> Rows]
  /\ worker \in [Workers -> Replicas]
  /\ \A s \in Shares : row[s].attempts < MaxRetries + Cardinality(Workers) + faults

(* No customer goes without a link the office was told was sent: a row is
   applied after its e-mail, or when its link was dead
   (estimate-share-email.ts, which replaced a drain that sent nothing). *)
AppliedWasMailed ==
  \A s \in Shares : row[s].status = "applied" => mailed[s] > 0 \/ link[s].gone

(* However sends fail, leases lapse and outcomes come late, a customer gets at
   most one e-mail for each attempt that was counted. *)
MailsAreAttempts == \A s \in Shares : mailed[s] <= row[s].attempts

(* A project that waits for an answer has none it overlooked: every answer
   given on any of its links was given before it was sent. *)
AnswersReachTheProject == project = "sent" => Answered \subseteq before

(* A project that the customer accepted or declined shows what the link shows,
   whatever is clicked afterwards on that link or on another. *)
ProjectShowsTheAnswer ==
  deal # Nobody => project = Lifecycle[link[deal].answer].to
=============================================================================
