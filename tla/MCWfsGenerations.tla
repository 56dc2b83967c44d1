-------------------------- MODULE MCWfsGenerations --------------------------
EXTENDS WfsGenerations, TLC

(* Actors are alike, and so are the schemas that have fields.              *)
MCSymmetry == Permutations(Actor) \cup Permutations(Schema \ {NoFields})
=============================================================================
