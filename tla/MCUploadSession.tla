--------------------------- MODULE MCUploadSession ---------------------------
(* Model-checking instance of UploadSession.                                *)
EXTENDS UploadSession, TLC

\* The same file is uploaded twice, and another one appears under its name.
MCBytes == [x \in Task \cup {Outside} |-> IF x = Outside THEN 2 ELSE 1]

Symmetry == Permutations(Task)
=============================================================================
