---------------------------- MODULE MCStoreCodec ----------------------------
(***************************************************************************)
(* Instances of StoreCodec for TLC, with Word = 512 in place of 2^32.      *)
(***************************************************************************)
EXTENDS StoreCodec, TLC, SequencesExt

\* The empty name, one that leaves the data unaligned, and one that UTF-16
\* cannot carry.
MCName == {"", "a", "bad", "bad-canon"}
MCUnits == ("" :> 0) @@ ("a" :> 1) @@ ("bad" :> 2) @@ ("bad-canon" :> 2)
MCCanon == [n \in MCName |-> IF n = "bad" THEN "bad-canon" ELSE n]

\* No payload, an odd one, and one longer than a uint32 can count.
MCData == {"none", "odd", "huge"}
MCDataLen == ("none" :> 0) @@ ("odd" :> 7) @@ ("huge" :> 513)

MCInputs ==
    {s \in BoundedSeq([name : MCName, guid : {"g"}, attrs : {7}, data : MCData], 3) :
        Len(s) = 3 => \A k \in 1 .. 3 : s[k].name # "bad-canon"}

\* Regions with exactly the room three records need, one byte less, and more.
MCLens == {28, 64, 100, 148, 160, 300, 384}
MCSizes == {20, 64, 100, 136, 147, 148, 300, 511}
=============================================================================
