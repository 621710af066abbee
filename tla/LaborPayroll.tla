------------------------------ MODULE LaborPayroll ------------------------------
(***************************************************************************)
(* The pure reducer of the labor_payroll_run workflow                      *)
(* (packages/workflows/src/labor-payroll.ts), with the columns a decision  *)
(* reads: the state, who approved the run, whether the automatic post      *)
(* moved it, and the ids of the time activities it was posted as.          *)
(***************************************************************************)
EXTENDS Naturals

States == {"generated", "approved", "posting", "posted", "failed", "voided"}

HumanEvents == {"APPROVE", "POST_REQUESTED", "RETRY_POST", "VOID"}

\* Where each event is legal, and where it leads.
Sources ==
  [ APPROVE             |-> {"generated"},
    POST_REQUESTED      |-> {"approved", "failed"},
    POST_SUCCEEDED      |-> {"posting"},
    POST_FAILED         |-> {"posting"},
    RETRY_POST          |-> {"failed"},
    VOID                |-> {"generated", "approved", "failed"},
    AUTO_APPROVE        |-> {"generated"},
    AUTO_POST_REQUESTED |-> {"approved"} ]

Target ==
  [ APPROVE             |-> "approved",
    POST_REQUESTED      |-> "posting",
    POST_SUCCEEDED      |-> "posted",
    POST_FAILED         |-> "failed",
    RETRY_POST          |-> "approved",
    VOID                |-> "voided",
    AUTO_APPROVE        |-> "approved",
    AUTO_POST_REQUESTED |-> "posting" ]

Initial ==
  [state |-> "generated", state_version |-> 1, approved_by |-> "nobody", auto_posted |-> FALSE, ref |-> {}]

Legal(run, type) == run.state \in Sources[type]

\* ids: the activities of a POST_SUCCEEDED, of no matter to the other events.
Reduce(run, type, ids) ==
  [ state         |-> Target[type],
    state_version |-> run.state_version + 1,
    approved_by   |-> CASE type = "APPROVE" -> "user"
                        [] type = "AUTO_APPROVE" -> "auto"
                        [] OTHER -> run.approved_by,
    auto_posted   |-> run.auto_posted \/ type \in {"AUTO_APPROVE", "AUTO_POST_REQUESTED"},
    ref           |-> IF type = "POST_SUCCEEDED" THEN ids ELSE run.ref ]
=============================================================================
