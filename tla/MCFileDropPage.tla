--------------------------- MODULE MCFileDropPage ---------------------------
(* Instances of FileDropPage for TLC. *)
EXTENDS FileDropPage
=============================================================================
