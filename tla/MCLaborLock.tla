----------------------------- MODULE MCLaborLock -----------------------------
EXTENDS LaborLock

\* Every run's window holds every entry: a week and one of its days.
Overlapping == [r \in Runs |-> Entries]
=============================================================================
