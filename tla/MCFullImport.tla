---------------------------- MODULE MCFullImport ----------------------------
(* The full import on small instances; workers are interchangeable.        *)
EXTENDS FullImport, TLC

MCSymmetry == Permutations(Worker)
=============================================================================
