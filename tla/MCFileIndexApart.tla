-------------------------- MODULE MCFileIndexApart --------------------------
(***************************************************************************)
(* FileIndex with one thread on both files and every fault.  Before the    *)
(* process gets to its startup thread a second one may index one file      *)
(* while the first indexes the other: they share one SQLite connection,    *)
(* hence one transaction.                                                  *)
(***************************************************************************)
EXTENDS MCFileIndex

Own(w) == IF w = w1 THEN f1 ELSE f2

\* What thread w does while the two work apart: index its own file; no
\* statement raises within a transaction.
KeepsApart(w) ==
  /\ pc'[w] \notin Maintaining
  /\ job'[w].file \in {NoFile, Own(w)}
  /\ pc'[w] = "fail" => pc[w] \in {"read", "delete", "fail"}
  /\ pc[w] = "fail" /\ pc'[w] # "fail" => saved' = [fts |-> fts', rows |-> rows']

\* Action constraint.  The second thread begins when the first has not begun
\* and left nothing to commit.
ApartOrAlone ==
  /\ pc[w2] # "idle" \/ pc'[w2] # "idle" => \A w \in Writers : KeepsApart(w)
  /\ pc[w2] = "idle" /\ pc'[w2] # "idle" =>
       booting /\ pc[w1] = "idle" /\ saved = [fts |-> fts, rows |-> rows]
=============================================================================
