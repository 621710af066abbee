---------------------------- MODULE WorkflowTables ----------------------------
(***************************************************************************)
(* The reducers of packages/workflows/src as transition tables: where each *)
(* event is legal and where it leads, what the screens offer in a state    *)
(* (nextEvents), which states are declared terminal, and which events the  *)
(* server raises on whatever row it finds, without a version from a        *)
(* client: the worker's own, and those of the endpoints kept from before   *)
(* the workflows.  Every event adds one to the version; the payloads that  *)
(* a reducer copies into the snapshot are left out.                        *)
(*                                                                         *)
(* Two fields only some tables have.  aside: the states that a handler     *)
(* which knows nothing of the workflow writes into the row, with neither   *)
(* version nor log entry.  drains: for each state in which the worker      *)
(* claims the row, the chains of events that one transaction of it may     *)
(* raise, reduced from the initial state whatever the row's own.           *)
(*                                                                         *)
(* estimate_share, whose only endpoint takes no version, and               *)
(* asset_deployment and tenant_provision, which no endpoint raises, are    *)
(* not here.                                                               *)
(***************************************************************************)
Step(from, to) == [from |-> from, to |-> to]

DailyLog ==
  [ init     |-> "draft",
    terminal |-> {"submitted"},
    steps    |-> [SUBMIT |-> Step({"draft"}, "submitted")],
    offers   |-> [draft |-> {"SUBMIT"}],
    unasked  |-> {"SUBMIT"} ]

DamageChargeSettlement ==
  [ init     |-> "open",
    terminal |-> {"invoiced", "waived"},
    steps    |-> [INVOICE |-> Step({"open"}, "invoiced"), WAIVE |-> Step({"open"}, "waived")],
    offers   |-> [open |-> {"INVOICE", "WAIVE"}],
    unasked  |-> {"INVOICE", "WAIVE"} ]

RentalRequestApproval ==
  [ init     |-> "pending",
    terminal |-> {"approved", "declined"},
    steps    |-> [APPROVE |-> Step({"pending"}, "approved"), DECLINE |-> Step({"pending"}, "declined")],
    offers   |-> [pending |-> {"APPROVE", "DECLINE"}],
    unasked  |-> {"APPROVE", "DECLINE"} ]

ChangeOrder ==
  [ init     |-> "draft",
    terminal |-> {"accepted", "rejected", "voided"},
    steps    |-> [ SEND   |-> Step({"draft"}, "sent"),
                   ACCEPT |-> Step({"sent"}, "accepted"),
                   REJECT |-> Step({"sent"}, "rejected"),
                   VOID   |-> Step({"draft", "sent"}, "voided") ],
    offers   |-> [draft |-> {"SEND", "VOID"}, sent |-> {"ACCEPT", "REJECT", "VOID"}],
    unasked  |-> {} ]

ScaffoldOpsApproval ==
  [ init     |-> "draft",
    terminal |-> {"superseded"},
    steps    |-> [ APPROVE   |-> Step({"draft"}, "approved"),
                   SUPERSEDE |-> Step({"draft", "approved"}, "superseded") ],
    offers   |-> [draft |-> {"APPROVE", "SUPERSEDE"}, approved |-> {"SUPERSEDE"}],
    unasked  |-> {"APPROVE", "SUPERSEDE"} ]

\* Billing writes the status that follows from the return date it has read, over
\* whatever the status is by then.
BilledStatuses == {"active", "returned", "closed"}

Rental ==
  [ init     |-> "active",
    aside    |-> BilledStatuses,
    terminal |-> {"closed"},
    steps    |-> [ RETURN         |-> Step({"active"}, "returned"),
                   INVOICE_QUEUED |-> Step({"returned"}, "invoiced_pending"),
                   INVOICE_POSTED |-> Step({"invoiced_pending"}, "returned"),
                   CLOSE          |-> Step({"active", "returned", "invoiced_pending"}, "closed") ],
    offers   |-> [active |-> {"RETURN", "CLOSE"}, returned |-> {"CLOSE"}, invoiced_pending |-> {"CLOSE"}],
    unasked  |-> {"RETURN", "CLOSE", "INVOICE_QUEUED", "INVOICE_POSTED"} ]

Shipment ==
  [ init     |-> "planned",
    terminal |-> {"closed", "voided"},
    steps    |-> [ START_PICKING    |-> Step({"planned"}, "picking"),
                   SHIP             |-> Step({"picking", "planned"}, "shipped"),
                   CONFIRM_DELIVERY |-> Step({"shipped"}, "delivered"),
                   OPEN_RETURN      |-> Step({"delivered"}, "returning"),
                   CLOSE            |-> Step({"delivered", "returning"}, "closed"),
                   VOID             |-> Step({"planned", "picking", "shipped", "delivered", "returning"},
                                             "voided") ],
    offers   |-> [ planned   |-> {"START_PICKING", "SHIP", "VOID"},
                   picking   |-> {"SHIP", "VOID"},
                   shipped   |-> {"CONFIRM_DELIVERY", "VOID"},
                   delivered |-> {"OPEN_RETURN", "CLOSE", "VOID"},
                   returning |-> {"CLOSE", "VOID"} ],
    unasked  |-> {} ]

\* The state is read off projects.status and the acknowledgement, which may be
\* left from an earlier closeout; PATCH /api/projects/:id writes any status.
PatchedStatuses == {"active", "completed", "post_mortem"}

ProjectCloseout ==
  [ init     |-> "active",
    aside    |-> PatchedStatuses,
    terminal |-> {"post_mortem"},
    steps    |-> [ CLOSEOUT                |-> Step({"active"}, "completed"),
                   ACKNOWLEDGE_POST_MORTEM |-> Step({"completed"}, "post_mortem") ],
    offers   |-> [active |-> {"CLOSEOUT"}, completed |-> {"ACKNOWLEDGE_POST_MORTEM"}],
    unasked  |-> {"CLOSEOUT"} ]

QboSyncRun ==
  [ init     |-> "pending",
    terminal |-> {"succeeded"},
    steps    |-> [ START_SYNC     |-> Step({"pending", "retrying"}, "syncing"),
                   SYNC_SUCCEEDED |-> Step({"syncing"}, "succeeded"),
                   SYNC_FAILED    |-> Step({"syncing"}, "failed"),
                   RETRY          |-> Step({"failed"}, "retrying") ],
    offers   |-> [pending |-> {"START_SYNC"}, retrying |-> {"START_SYNC"}, failed |-> {"RETRY"}],
    unasked  |-> {"START_SYNC", "SYNC_SUCCEEDED", "SYNC_FAILED"} ]

\* A declined assignment that nobody can hand to another worker.
CrewScheduleForgetsDeclined ==
  [ init     |-> "draft",
    terminal |-> {"confirmed"},
    steps    |-> [CONFIRM |-> Step({"draft"}, "confirmed"), DECLINE |-> Step({"draft"}, "declined")],
    offers   |-> [draft |-> {"CONFIRM", "DECLINE"}],
    unasked  |-> {"CONFIRM"} ]

\* CREATE, legal at version 0 only, is the row's insertion.
CrewSchedule ==
  [ init     |-> "draft",
    terminal |-> {"confirmed"},
    steps    |-> [ CONFIRM  |-> Step({"draft"}, "confirmed"),
                   DECLINE  |-> Step({"draft"}, "declined"),
                   REASSIGN |-> Step({"declined"}, "draft") ],
    offers   |-> [draft |-> {"CONFIRM", "DECLINE"}, declined |-> {"REASSIGN"}],
    unasked  |-> {"CONFIRM"} ]

EstimatePush ==
  [ init     |-> "drafted",
    terminal |-> {"posted", "voided"},
    steps    |-> [ REVIEW         |-> Step({"drafted"}, "reviewed"),
                   APPROVE        |-> Step({"reviewed"}, "approved"),
                   POST_REQUESTED |-> Step({"approved", "failed"}, "posting"),
                   POST_SUCCEEDED |-> Step({"posting"}, "posted"),
                   POST_FAILED    |-> Step({"posting"}, "failed"),
                   RETRY_POST     |-> Step({"failed"}, "approved"),
                   VOID           |-> Step({"drafted", "reviewed", "approved", "failed"}, "voided") ],
    offers   |-> [ drafted  |-> {"REVIEW", "VOID"},
                   reviewed |-> {"APPROVE", "VOID"},
                   approved |-> {"POST_REQUESTED", "VOID"},
                   failed   |-> {"RETRY_POST", "VOID"} ],
    unasked  |-> {"POST_SUCCEEDED", "POST_FAILED"} ]

FieldEvent ==
  [ init     |-> "open",
    terminal |-> {},
    steps    |-> [ RESOLVE  |-> Step({"open"}, "resolved"),
                   ESCALATE |-> Step({"open"}, "escalated"),
                   DISMISS  |-> Step({"open"}, "dismissed"),
                   REOPEN   |-> Step({"resolved", "escalated", "dismissed"}, "open") ],
    offers   |-> [ open      |-> {"RESOLVE", "ESCALATE", "DISMISS"},
                   resolved  |-> {"REOPEN"},
                   escalated |-> {"REOPEN"},
                   dismissed |-> {"REOPEN"} ],
    unasked  |-> {"ESCALATE"} ]

ProjectLifecycle ==
  [ init     |-> "draft",
    terminal |-> {},
    steps    |-> [ START_ESTIMATING |-> Step({"draft"}, "estimating"),
                   SEND             |-> Step({"estimating"}, "sent"),
                   ACCEPT           |-> Step({"sent"}, "accepted"),
                   DECLINE          |-> Step({"sent"}, "declined"),
                   START_WORK       |-> Step({"accepted"}, "in_progress"),
                   COMPLETE         |-> Step({"in_progress"}, "done"),
                   ARCHIVE          |-> Step({"done", "declined"}, "archived"),
                   REOPEN           |-> Step({"done", "archived"}, "in_progress") ],
    offers   |-> [ draft       |-> {"START_ESTIMATING"},
                   estimating  |-> {"SEND"},
                   sent        |-> {"ACCEPT", "DECLINE"},
                   accepted    |-> {"START_WORK"},
                   in_progress |-> {"COMPLETE"},
                   done        |-> {"ARCHIVE", "REOPEN"},
                   declined    |-> {"ARCHIVE"},
                   archived    |-> {"REOPEN"} ],
    unasked  |-> {"SEND", "ACCEPT", "DECLINE"} ]

\* SEND_FAILED leads to a state of its own for each kind of failure: it is
\* three events here, named for the kind.
Retryable == {"failed_provider", "failed_clerk_unreachable"}

\* Sent, or failed for good; a failure below the cap only puts the row off.
Sends == {<<"SEND_REQUESTED", "SEND_SUCCEEDED">>, <<"provider">>}

\* The worker claims what the status column calls pending, pending and
\* hydrating alike, and takes it for pending (snapshotFromRow).  Without an
\* address it asks Clerk first; with one, as hydrating rows have, it does not.
Drained ==
  [ pending   |-> Sends \cup {<<"HYDRATE", "SEND_REQUESTED", "SEND_SUCCEEDED">>,
                              <<"HYDRATE", "provider">>, <<"HYDRATE">>,
                              <<"clerk_unreachable">>, <<"clerk_not_found">>},
    hydrating |-> Sends ]

Notification ==
  [ init     |-> "pending",
    terminal |-> {"sent", "failed_clerk_not_found", "voided"},
    steps    |-> [ HYDRATE           |-> Step({"pending"}, "hydrating"),
                   SEND_REQUESTED    |-> Step({"pending", "hydrating"} \cup Retryable, "sending"),
                   SEND_SUCCEEDED    |-> Step({"sending"}, "sent"),
                   provider          |-> Step({"pending", "sending", "hydrating"}, "failed_provider"),
                   clerk_unreachable |-> Step({"pending", "sending", "hydrating"}, "failed_clerk_unreachable"),
                   clerk_not_found   |-> Step({"pending", "sending", "hydrating"}, "failed_clerk_not_found"),
                   RETRY             |-> Step(Retryable, "pending"),
                   VOID              |-> Step({"pending", "hydrating"} \cup Retryable, "voided") ],
    offers   |-> [ pending   |-> {"VOID"},
                   hydrating |-> {"VOID"},
                   failed_provider          |-> {"RETRY", "VOID"},
                   failed_clerk_unreachable |-> {"RETRY", "VOID"} ],
    unasked  |-> {},
    drains   |-> Drained ]

\* The three workflows whose reducers have a module of their own.
RB == INSTANCE RentalBilling WITH Runs <- {}, NoInvoice <- "none"
LP == INSTANCE LaborPayroll
TR == INSTANCE TimeReview

StepsOf(sources, target) == [e \in DOMAIN sources |-> Step(sources[e], target[e])]

RentalBillingRun ==
  [ init     |-> RB!InitialSnapshot.state,
    terminal |-> {"posted", "voided"},
    steps    |-> StepsOf(RB!Sources, RB!Target),
    offers   |-> [ generated |-> {"APPROVE", "VOID"},
                   approved  |-> {"POST_REQUESTED", "VOID"},
                   failed    |-> {"RETRY_POST", "VOID"},
                   posting   |-> {"CANCEL_POST"} ],
    unasked  |-> RB!WorkerEvents ]

LaborPayrollRun ==
  [ init     |-> LP!Initial.state,
    terminal |-> {"posted", "voided"},
    steps    |-> StepsOf(LP!Sources, LP!Target),
    offers   |-> [ generated |-> {"APPROVE", "VOID"},
                   approved  |-> {"POST_REQUESTED", "VOID"},
                   failed    |-> {"RETRY_POST", "VOID"} ],
    unasked  |-> DOMAIN LP!Sources \ LP!HumanEvents ]

TimeReviewRun ==
  [ init     |-> "pending",
    terminal |-> {},
    steps    |-> StepsOf(TR!Sources, TR!Target),
    offers   |-> [ pending  |-> {"APPROVE", "REJECT"},
                   approved |-> {"REOPEN"},
                   rejected |-> {"REOPEN"} ],
    unasked  |-> {} ]

\* The registry, keyed by the name a workflow_event_log row carries.
Catalogue ==
  [ daily_log                |-> DailyLog,
    damage_charge_settlement |-> DamageChargeSettlement,
    rental_request_approval  |-> RentalRequestApproval,
    change_order             |-> ChangeOrder,
    scaffold_ops_approval    |-> ScaffoldOpsApproval,
    rental                   |-> Rental,
    shipment                 |-> Shipment,
    project_closeout         |-> ProjectCloseout,
    qbo_sync_run             |-> QboSyncRun,
    crew_schedule            |-> CrewSchedule,
    estimate_push            |-> EstimatePush,
    field_event              |-> FieldEvent,
    project_lifecycle        |-> ProjectLifecycle,
    notification             |-> Notification,
    rental_billing_run       |-> RentalBillingRun,
    labor_payroll_run        |-> LaborPayrollRun,
    time_review_run          |-> TimeReviewRun ]
=============================================================================
