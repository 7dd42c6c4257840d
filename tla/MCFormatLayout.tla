--------------------------- MODULE MCFormatLayout ---------------------------
(***************************************************************************)
(* FormatLayout with the real sizes of format.go.  Word is 2^30 in place   *)
(* of 2^32, above every size Format accepts.                               *)
(***************************************************************************)
EXTENDS FormatLayout, TLC

KiB == 1024
MiB == 1024 * 1024

\* Every minimum and ceiling, the usual flash sizes, sizes that are and are
\* not numbers of blocks; each with its neighbours.
MCSizes ==
    UNION {{n - 1, n, n + 1} : n \in
        {0, 28, 32, 72, 100, 104, 4 * KiB, 64 * KiB, 256 * KiB, 512 * KiB, 768 * KiB,
         1024 * KiB, 1025 * KiB, 3 * MiB, 64 * MiB, 256 * MiB, 512 * MiB}}

MCUnits == ("a" :> 1)
MCCanon == ("a" :> "a")
MCDataLen == ("d" :> 1)
=============================================================================
