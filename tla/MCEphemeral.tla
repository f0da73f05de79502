---------------------------- MODULE MCEphemeral ----------------------------
(***************************************************************************)
(* Instances of Ephemeral for TLC.                                         *)
(***************************************************************************)
EXTENDS Ephemeral, TLC

CONSTANTS f1, f2, c1, c2

Symmetry == Permutations(Folders) \union Permutations(Callers)
=============================================================================
