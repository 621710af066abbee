---------------------------- MODULE RentalBilling ----------------------------
(***************************************************************************)
(* The pure reducer of the rental_billing_run workflow                     *)
(* (packages/workflows/src/rental-billing.ts).  A snapshot keeps the       *)
(* columns the billing saga decides on: the state, the optimistic version, *)
(* and the QuickBooks invoice id.  Timestamps, actors and error texts are  *)
(* payload that no guard reads, and are left out.                          *)
(***************************************************************************)
EXTENDS Naturals

CONSTANTS
  Runs,       \* ids of rental_billing_runs rows
  NoInvoice   \* qbo_invoice_id is null

ASSUME NoInvoiceAssumption == NoInvoice \notin Runs

States == {"generated", "approved", "posting", "posted", "failed", "voided"}

HumanEvents == {"APPROVE", "POST_REQUESTED", "RETRY_POST", "CANCEL_POST", "VOID"}

WorkerEvents == {"POST_SUCCEEDED", "POST_FAILED"}

EventTypes == HumanEvents \cup WorkerEvents

\* The states each event is legal in (assertRentalBillingTransition's lists).
Sources ==
  [ APPROVE        |-> {"generated"},
    POST_REQUESTED |-> {"approved", "failed"},
    POST_SUCCEEDED |-> {"posting"},
    POST_FAILED    |-> {"posting"},
    RETRY_POST     |-> {"failed"},
    CANCEL_POST    |-> {"posting"},
    VOID           |-> {"generated", "approved", "failed"} ]

Target ==
  [ APPROVE        |-> "approved",
    POST_REQUESTED |-> "posting",
    POST_SUCCEEDED |-> "posted",
    POST_FAILED    |-> "failed",
    RETRY_POST     |-> "approved",
    CANCEL_POST    |-> "failed",
    VOID           |-> "voided" ]

\* Invoice ids are named by the Intuit requestid they were minted for, which
\* is the run id (see RequestId in RentalBillingPush).
Snapshots ==
  [state : States, state_version : Nat, qbo_invoice_id : Runs \cup {NoInvoice}]

InitialSnapshot ==
  [state |-> "generated", state_version |-> 1, qbo_invoice_id |-> NoInvoice]

Events == [type : EventTypes, qbo_invoice_id : Runs \cup {NoInvoice}]

\* An event and the only payload field that reaches the snapshot; it is
\* NoInvoice for every type but POST_SUCCEEDED.
Event(type, invoice) == [type |-> type, qbo_invoice_id |-> invoice]

Legal(snapshot, type) == snapshot.state \in Sources[type]

\* transitionRentalBillingWorkflow where it does not throw.
Reduce(snapshot, event) ==
  [ state          |-> Target[event.type],
    state_version  |-> snapshot.state_version + 1,
    qbo_invoice_id |-> IF event.type = "POST_SUCCEEDED"
                       THEN event.qbo_invoice_id
                       ELSE snapshot.qbo_invoice_id ]
=============================================================================
