--------------------------- MODULE MCCadastreSync ---------------------------
(* Model checking of CadastreSync: processes and tokens are interchangeable. *)
EXTENDS CadastreSync, TLC

MCSymmetry == Permutations(Token) \cup Permutations(Worker) \cup Permutations(Dispatcher)
=============================================================================
