------------------------- MODULE MCWorkflowDispatch -------------------------
EXTENDS WorkflowDispatch, WorkflowTables
=============================================================================
