------------------------------ MODULE MCPayroll ------------------------------
(* Small instances of Payroll.                                             *)
EXTENDS Payroll, TLC

AllJoined == [e \in Employees |-> 1]

StaffSymmetry == Permutations(Employees)
=============================================================================
