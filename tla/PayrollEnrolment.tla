--------------------------- MODULE PayrollEnrolment ---------------------------
(***************************************************************************)
(* LaborLock composed with what consumes its locks: the enrolment of       *)
(* locked entries in labor_payroll_runs, by the worker's bridge            *)
(* (processGenerateLaborPayrollRun) and by the office (POST                *)
(* /api/labor-payroll-runs).  A payroll run is unique in its period and is *)
(* never deleted, so the period names it; nothing ever clears an entry's   *)
(* payroll_run_id.                                                         *)
(*                                                                         *)
(* An enrolment's transaction reads the entries without a lock and writes  *)
(* them later; the unique period and the row locks of the entries decide   *)
(* between two transactions only when the second one writes.               *)
(***************************************************************************)
EXTENDS LaborLock

CONSTANTS
  Periods,    \* payroll periods
  PeriodOf,   \* the period of each review run
  InPeriod,   \* the entries dated in each period
  Bridges,    \* worker replicas running the bridge
  Clerks,     \* office users creating payroll runs by hand
  NoPeriod    \* payroll_run_id is null; no run is enrolled

ASSUME EnrolmentAssumption ==
  /\ PeriodOf \in [Runs -> Periods]
  /\ InPeriod \in [Periods -> SUBSET Entries]
  /\ NoPeriod \notin Periods

VARIABLES
  payroll,  \* the payroll runs that exist, by period, and the entries they list
  stamp,    \* labor_entries.payroll_run_id
  enrol     \* where each bridge and clerk is

enrolVars == <<payroll, stamp, enrol>>

vars == <<lockVars, enrolVars>>

\* todo: candidates not looked at yet; took: the entries read for the period.
Enrolments ==
  [ pc : {"idle", "listed", "read"}, todo : SUBSET Runs,
    period : Periods \cup {NoPeriod}, took : SUBSET Entries ]

Resting == [pc |-> "idle", todo |-> {}, period |-> NoPeriod, took |-> {}]

TypeOK ==
  /\ LockTypeOK
  /\ \A p \in DOMAIN payroll : p \in Periods /\ payroll[p] \subseteq Entries
  /\ stamp \in [Entries -> Periods \cup {NoPeriod}]
  /\ enrol \in [Bridges \cup Clerks -> Enrolments]

Init ==
  /\ LockInit
  /\ payroll = [p \in {} |-> {}]
  /\ stamp = [e \in Entries |-> NoPeriod]
  /\ enrol = [b \in Bridges \cup Clerks |-> Resting]
-----------------------------------------------------------------------------
Enrolled(p) == p \in DOMAIN payroll

Locked(e) == owner[e] # Nobody

\* The candidate query: approved runs of periods without a payroll run.
ListCandidates(b) ==
  LET candidates == {r \in Runs : run[r].state = "approved" /\ ~Enrolled(PeriodOf[r])} IN
  /\ enrol[b].pc = "idle"
  /\ candidates # {}
  /\ enrol' = [enrol EXCEPT ![b].pc = "listed", ![b].todo = candidates]
  /\ UNCHANGED <<payroll, stamp>>

Proceed(b, todo) ==
  enrol' = [enrol EXCEPT ![b] = [Resting EXCEPT !.pc = IF todo = {} THEN "idle" ELSE "listed",
                                                !.todo = todo]]

\* A run that covers nothing is skipped; every entry that is not deleted is
\* locked and none of them is on a payroll run, which also holds of none at all.
Ready(covered) ==
  covered # {} /\ \A e \in covered \ deleted : Locked(e) /\ stamp[e] = NoPeriod

\* The bridge's transaction on one candidate reads the entries; the state of
\* the review run is not read again.
ReadCovered(b) ==
  /\ enrol[b].pc = "listed"
  /\ \E r \in enrol[b].todo :
       IF Ready(run[r].covered_entry_ids)
       THEN enrol' = [enrol EXCEPT ![b] =
              [ pc |-> "read", todo |-> enrol[b].todo \ {r}, period |-> PeriodOf[r],
                took |-> run[r].covered_entry_ids \ deleted ]]
       ELSE Proceed(b, enrol[b].todo \ {r})
  /\ UNCHANGED <<payroll, stamp>>

\* The office's transaction reads the period's locked and unclaimed entries; it
\* makes no payroll run of none.
ReadEligible(c) ==
  /\ enrol[c].pc = "idle"
  /\ \E p \in Periods :
       LET eligible == {e \in InPeriod[p] \ deleted : Locked(e) /\ stamp[e] = NoPeriod} IN
       /\ ~Enrolled(p)
       /\ eligible # {}
       /\ enrol' = [enrol EXCEPT ![c] = [Resting EXCEPT !.pc = "read", !.period = p,
                                                        !.took = eligible]]
  /\ UNCHANGED <<payroll, stamp>>

\* The entries that are still unclaimed are stamped.
Stamped(p, took) == [e \in Entries |-> IF e \in took /\ stamp[e] = NoPeriod THEN p ELSE stamp[e]]

\* Mutant of Enrol: the conflict is not noticed and the entries are stamped.
EnrolOnConflict(p, took) ==
  /\ payroll' = [q \in DOMAIN payroll \cup {p} |-> IF Enrolled(q) THEN payroll[q] ELSE took]
  /\ stamp' = Stamped(p, took)

\* Insert the payroll run and stamp; where the period is taken the bridge skips
\* and the office's insert fails.
Enrol(p, took) ==
  IF Enrolled(p)
  THEN UNCHANGED <<payroll, stamp>>
  ELSE /\ payroll' = [q \in DOMAIN payroll \cup {p} |-> IF q = p THEN took ELSE payroll[q]]
       /\ stamp' = Stamped(p, took)

CommitEnrolment(b) ==
  /\ enrol[b].pc = "read"
  /\ Enrol(enrol[b].period, enrol[b].took)
  /\ Proceed(b, enrol[b].todo)

\* The transaction fails, or the process dies with what candidates it had.
EnrolmentFails(b) ==
  /\ enrol[b].pc # "idle"
  /\ Proceed(b, enrol[b].todo) \/ Proceed(b, {})
  /\ UNCHANGED <<payroll, stamp>>

EnrolNext ==
  \/ \E b \in Bridges : ListCandidates(b) \/ ReadCovered(b)
  \/ \E c \in Clerks : ReadEligible(c)
  \/ \E b \in Bridges \cup Clerks : CommitEnrolment(b) \/ EnrolmentFails(b)

Next ==
  \/ LockNext /\ UNCHANGED enrolVars
  \/ EnrolNext /\ UNCHANGED lockVars

Spec == Init /\ [][Next]_vars
-----------------------------------------------------------------------------
(* Properties. *)

\* Stamps and lists agree: an entry's payroll_run_id names a run that lists it,
\* and a listed entry carries some run's stamp, so no entry is marked paid by a
\* run that does not pay it, whichever of two enrolments of a period commits.
StampsMatchLists ==
  \A e \in Entries :
    /\ stamp[e] # NoPeriod => Enrolled(stamp[e]) /\ e \in payroll[stamp[e]]
    /\ \A p \in DOMAIN payroll : e \in payroll[p] => stamp[e] # NoPeriod

\* Once on a payroll run an entry stays on it, and the run's list is frozen,
\* whatever enrolments read before it was stamped, and through every reopening
\* of its review.
EnrolmentIsFinal ==
  [][/\ \A e \in Entries : stamp[e] # NoPeriod => stamp'[e] = stamp[e]
     /\ \A p \in DOMAIN payroll : p \in DOMAIN payroll' /\ payroll'[p] = payroll[p]]_vars
=============================================================================
