--------------------------- MODULE MCLaborPayrollPush ---------------------------
(* A long day and a full one: the first has overtime when the company splits it. *)
EXTENDS LaborPayrollPush, TLC

CONSTANTS e1, e2

MCWorked == e1 :> 10 @@ e2 :> 8
=============================================================================
