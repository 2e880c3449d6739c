--------------------------- MODULE MCPaperAccount ---------------------------
(* Instances of PaperAccount for TLC: processes are interchangeable. *)
EXTENDS PaperAccount, TLC

Interchangeable == Permutations(Proc)
=============================================================================
