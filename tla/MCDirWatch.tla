----------------------------- MODULE MCDirWatch -----------------------------
(* A small instance of DirWatch: a file that changes again, and one in a    *)
(* subdirectory that changes once.                                          *)
EXTENDS DirWatch

MCMaxStamp == [f \in Files |-> IF f \in Nested THEN 1 ELSE 2]
=============================================================================
