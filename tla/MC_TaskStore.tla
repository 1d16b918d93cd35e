---------------------------- MODULE MC_TaskStore ----------------------------
(***************************************************************************)
(* TLC instance of TaskStore: two processes, two submit_ids, rows of two   *)
(* columns with two values each, so that two updates can name different    *)
(* columns of one row.                                                     *)
(***************************************************************************)
EXTENDS TaskStore, TLC

CONSTANTS i1, i2, v1, v2

(* The submit_ids and the values are interchangeable; the processes too,   *)
(* but the liveness runs do without symmetry.                              *)
IdSymmetry == Permutations({i1, i2}) \cup Permutations({v1, v2})
=============================================================================
