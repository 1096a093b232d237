---------------------------- MODULE MCEvmIngest ----------------------------
(***************************************************************************)
(* TLC instances of EvmIngest.  Forward processes run the same code and    *)
(* are interchangeable, so their permutations are a symmetry.              *)
(***************************************************************************)
EXTENDS EvmIngest, TLC

ForwardSymmetry == Permutations(Forward)
=============================================================================
