------------------------------ MODULE MCModels ------------------------------
(***************************************************************************)
(* Instances of ModelLifecycle for TLC.                                    *)
(***************************************************************************)
EXTENDS ModelLifecycle, TLC

CONSTANTS t1, t2, h1, h2, m1, m2
=============================================================================
