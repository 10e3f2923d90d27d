------------------------------ MODULE MCEngine ------------------------------
(* A small instance of Engine: the model files can be exchanged.             *)
EXTENDS Engine, TLC

ModelSymmetry == Permutations(Models)
=============================================================================
