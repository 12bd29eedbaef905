--------------------------- MODULE MCFileTransfer ---------------------------
(* Instances of FileTransfer for TLC. *)
EXTENDS FileTransfer

\* An empty file between two others; a file of several chunks whose last one is
\* short; a file of exactly one chunk.
SmallBatches == {<<3, 0, 2>>, <<5>>, <<0>>}
=============================================================================
