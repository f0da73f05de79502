----------------------------- MODULE MCSettings -----------------------------
(***************************************************************************)
(* Instances of Settings for TLC.                                          *)
(***************************************************************************)
EXTENDS Settings, TLC

CONSTANTS m1, m2, k1, k2, c1, c2

First == [model |-> m1, chunking |-> k1, dirs |-> {}]
CallerSymmetry == Permutations(Callers)
=============================================================================
