-------------------------- MODULE MCParseVariables --------------------------
(***************************************************************************)
(* Instances of ParseVariables for TLC.  Word is 256 instead of 2^32: the  *)
(* real header sizes fit below it, and fields and offsets near it still    *)
(* wrap.                                                                   *)
(***************************************************************************)
EXTENDS ParseVariables

\* Headers cut short, exactly whole, and a byte longer; regions for no record
\* up to five.
SmallLens == {28, 36, 59, 60, 61, 100, 132, 164, 196}

\* A store smaller than its header, inside the file, and beyond it.
MCStoreSizes == {0, 60, 130, 255}

\* Zero, odd and unaligned sizes, one that leaves room for a record, and ones
\* that reach past the file or wrap.
MCFieldSizes == {0, 1, 2, 31, 224, 255}
=============================================================================
