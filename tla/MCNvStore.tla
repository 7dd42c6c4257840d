----------------------------- MODULE MCNvStore -----------------------------
(***************************************************************************)
(* Instances of NvStore for TLC, with Word = 512 in place of 2^32.         *)
(***************************************************************************)
EXTENDS NvStoreMaps, TLC

\* Handles are interchangeable.
Symmetry == Permutations(Handle)

MCName == {"a", "b"}
MCUnits == [n \in MCName |-> 1]
MCCanon == [n \in MCName |-> n]
MCData == {"short", "long"}
MCDataLen == ("short" :> 1) @@ ("long" :> 40)

Var(n, d) == [name |-> n, guid |-> "g", attrs |-> 7, data |-> d]

MCValues == {Var("a", "short"), Var("a", "long"), Var("b", "short")}

Moves == {<<"a", "b">>, <<"b", "a">>}
SelfMoves == {<<"a", "a">>}

\* A raw store with room for three short variables, or a long and a short
\* one, and firmware state behind it.
Raw(recs) ==
    [len |-> 160, fv |-> FALSE, sig |-> "plain", formatted |-> TRUE, healthy |-> TRUE,
     size |-> 148, recs |-> recs, tail |-> "ftw"]

\* The same inside a firmware volume, with authenticated records.
Ovmf(recs) ==
    [len |-> 280, fv |-> TRUE, sig |-> "auth", formatted |-> TRUE, healthy |-> TRUE,
     size |-> 200, recs |-> recs, tail |-> "ftw"]

Deleted(v) == [Encode(v) EXCEPT !.added = FALSE]

\* A name without its terminator, as firmware may write it.
Unterminated(v) == [Encode(v) EXCEPT !.nameSize = @ - 2]

\* A record whose name cannot be decoded.
OddName(v) == [Encode(v) EXCEPT !.nameSize = @ + 1]

FreshRaw == Raw(<<>>)
FreshOvmf == Ovmf(<<>>)

\* What Format writes: the store is the whole file.
Formatted == [FreshRaw EXCEPT !.len = 148, !.tail = "erased"]

\* More variables than Limits.MaxVariables allows.
Crowded ==
    [Raw([k \in 1 .. 4 |-> Encode(Var("a", "short"))]) EXCEPT !.len = 212, !.size = 200]

Found ==
    Raw(<<Deleted(Var("b", "short")), Unterminated(Var("a", "short")), Encode(Var("a", "short"))>>)

\* A record whose sizes run past the store ends the walk; one behind it is not
\* seen.  The first variable is in another namespace.
Hiding ==
    Raw(<<Encode([Var("a", "short") EXCEPT !.guid = "other"]),
          [Encode(Var("a", "short")) EXCEPT !.dataSize = 300], Encode(Var("b", "short"))>>)

\* Files the program may find: none, one that is too long, broken headers,
\* empty ones, and ones with history.
MCImages ==
    {NoFile, FreshRaw, FreshOvmf, Found, Hiding, Crowded,
     [FreshRaw EXCEPT !.len = 301], [FreshRaw EXCEPT !.sig = "other"],
     [FreshRaw EXCEPT !.formatted = FALSE], [FreshRaw EXCEPT !.healthy = FALSE],
     [FreshRaw EXCEPT !.size = 511], [FreshRaw EXCEPT !.size = 20],
     Ovmf(<<OddName(Var("a", "short")), Encode(Var("b", "short"))>>)}

\* Nothing, and inside or behind the first and the second record.
MCCuts == {0, 70, 110, 170}
=============================================================================
