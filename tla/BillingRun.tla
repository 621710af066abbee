----------------------------- MODULE BillingRun ------------------------------
(***************************************************************************)
(* What rental billing promises the office, without queue, worker or log:  *)
(* a run moves along its statechart one version at a time, QuickBooks      *)
(* is asked for an invoice only after someone requested the post, and a    *)
(* run is posted only with the invoice QuickBooks minted for it.           *)
(***************************************************************************)
EXTENDS RentalBilling

VARIABLES
  run,        \* the snapshot a GET shows
  requested,  \* runs whose post has been requested at least once
  booked      \* runs QuickBooks holds an invoice for

avars == <<run, requested, booked>>

AInit ==
  /\ run = [r \in Runs |-> InitialSnapshot]
  /\ requested = {}
  /\ booked = {}

\* A user's event takes effect.
Decide(r, type) ==
  /\ Legal(run[r], type)
  /\ run' = [run EXCEPT ![r] = Reduce(run[r], Event(type, NoInvoice))]
  /\ requested' = IF type = "POST_REQUESTED" THEN requested \cup {r} ELSE requested
  /\ UNCHANGED booked

\* QuickBooks mints the run's invoice.
Book(r) ==
  /\ r \in requested
  /\ booked' = booked \cup {r}
  /\ UNCHANGED <<run, requested>>

\* The outcome reaches a run that is still waiting for it.
Succeed(r) ==
  /\ run[r].state = "posting"
  /\ r \in booked
  /\ run' = [run EXCEPT ![r] = Reduce(run[r], Event("POST_SUCCEEDED", r))]
  /\ UNCHANGED <<requested, booked>>

Fail(r) ==
  /\ run[r].state = "posting"
  /\ run' = [run EXCEPT ![r] = Reduce(run[r], Event("POST_FAILED", NoInvoice))]
  /\ UNCHANGED <<requested, booked>>

ANext ==
  \E r \in Runs :
    \/ \E type \in HumanEvents : Decide(r, type)
    \/ Book(r)
    \/ Succeed(r)
    \/ Fail(r)

ASpec == AInit /\ [][ANext]_avars
=============================================================================
