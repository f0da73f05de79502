---------------------------- MODULE MCConversion ----------------------------
(***************************************************************************)
(* Instances of Conversion for TLC.                                        *)
(***************************************************************************)
EXTENDS Conversion, TLC

CONSTANTS c1, c2, f1, f2
=============================================================================
