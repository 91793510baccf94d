-------------------------- MODULE MCComputeSystem ---------------------------
(***************************************************************************)
(* Kernels for model checking ComputeSystem.  Widths, like Units, are in    *)
(* units of 32 threads.                                                     *)
(***************************************************************************)
EXTENDS ComputeSystem

(* two, three work-groups in a row: the third waits for a slot              *)
TwoWgs == {[dims |-> <<33, 1>>, width |-> 1]}
OneRow == {[dims |-> <<65, 1>>, width |-> 1]}

(* For Units = 2: one work-group; rows that end with a work-group; rows and *)
(* columns that end in the middle of one.                                   *)
Grids == {[dims |-> <<32, 1>>, width |-> 1], [dims |-> <<64, 2>>, width |-> 2],
          [dims |-> <<33, 3>>, width |-> 1]}

=============================================================================
