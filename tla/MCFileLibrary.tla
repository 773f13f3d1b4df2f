--------------------------- MODULE MCFileLibrary ---------------------------
(* Three files of one person; they are interchangeable.                    *)
EXTENDS FileLibrary, TLC

Interchangeable == Permutations(Files)
=============================================================================
