-------------------------- MODULE MCPayrollEnrolment --------------------------
EXTENDS PayrollEnrolment, TLC

OwnPeriod == [r \in Runs |-> r]
EveryEntry == [p \in Periods |-> Entries]

\* One review covers a day, with the entry of its name; the others the week.
WeekAndDay ==
  LET day == CHOOSE r \in Runs : TRUE
  IN  [r \in Runs |-> IF r = day THEN {day} ELSE Entries]
=============================================================================
