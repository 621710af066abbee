------------------------------ MODULE TimeReview ------------------------------
(***************************************************************************)
(* The pure reducer of the time_review_run workflow                        *)
(* (packages/workflows/src/time-review.ts): a window of labor entries that *)
(* a reviewer approves, rejects or reopens.  The decision's timestamps,    *)
(* reviewer and reason are payload that no guard reads.                    *)
(***************************************************************************)
EXTENDS Naturals

States == {"pending", "approved", "rejected"}

EventTypes == {"APPROVE", "REJECT", "REOPEN"}

Sources == [APPROVE |-> {"pending"}, REJECT |-> {"pending"}, REOPEN |-> {"approved", "rejected"}]

Target == [APPROVE |-> "approved", REJECT |-> "rejected", REOPEN |-> "pending"]

\* transitionTimeReviewWorkflow on a run record; it throws where not Legal.
Legal(run, type) == run.state \in Sources[type]

Reduce(run, type) ==
  [run EXCEPT !.state = Target[type], !.state_version = run.state_version + 1]

\* The outbox row a decision enqueues: APPROVE locks, REOPEN unlocks whatever
\* it reopens from, REJECT enqueues nothing.
SideEffect == [APPROVE |-> "lock", REJECT |-> "none", REOPEN |-> "unlock"]
=============================================================================
