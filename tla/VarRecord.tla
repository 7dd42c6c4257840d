----------------------------- MODULE VarRecord -----------------------------
(***************************************************************************)
(* A UEFI variable and its record on disk (encodeVariable, the body of     *)
(* parseOneVariable, EncodeUTF16LE and DecodeUTF16LE).  Strings and        *)
(* payloads are opaque; what the format depends on is their length and     *)
(* what a name becomes on its way through UTF-16.                          *)
(***************************************************************************)
EXTENDS NvFormat, Sequences

CONSTANTS
    Name,     \* Go strings used as variable names
    Guid,     \* vendor GUIDs
    Attr,     \* attribute words
    Data,     \* payloads
    Units,    \* Units[n]: UTF-16 code units of n, without the terminator
    Canon,    \* Canon[n]: n with every invalid sequence replaced by U+FFFD
    DataLen,  \* DataLen[d]: bytes of d
    NoData    \* a payload that was not read back whole

\* EncodeUTF16LE replaces what it cannot encode; the result has the same
\* length and survives a second pass.
ASSUME StringAssumption ==
    /\ Units \in [Name -> Nat]
    /\ Canon \in [Name -> Name]
    /\ \A n \in Name : Canon[Canon[n]] = Canon[n] /\ Units[Canon[n]] = Units[n]

ASSUME DataAssumption == DataLen \in [Data -> Nat] /\ NoData \notin Data

Variable == [name : Name, guid : Guid, attrs : Attr, data : Data]

\* len(EncodeUTF16LE(n)): two bytes per unit and the NUL terminator.
NameSize(n) == 2 * (Units[n] + 1)

\* Mutant: the name of the record is the name that was passed.
EncodeVerbatim(v) ==
    [added    |-> TRUE,
     attrs    |-> v.attrs,
     nameSize |-> U32(NameSize(v.name)),
     dataSize |-> U32(DataLen[v.data]),
     guid     |-> v.guid,
     name     |-> v.name,
     data     |-> v.data]

\* The fields encodeVariable writes.  The sizes are uint32 conversions.
Encode(v) ==
    [added    |-> TRUE,
     attrs    |-> v.attrs,
     nameSize |-> U32(NameSize(v.name)),
     dataSize |-> U32(DataLen[v.data]),
     guid     |-> v.guid,
     name     |-> Canon[v.name],
     data     |-> v.data]

\* Mutant: the padding is counted from the name, not from the header.
EncodedLenPadded(v, auth) ==
    HdrSize(auth) + NameSize(v.name) + DataLen[v.data] + PadBytes(U32(Encode(v).dataSize))

\* len(encodeVariable(v)): header, name, data, and the padding computed from
\* the uint32 sizes.
EncodedLen(v, auth) ==
    HdrSize(auth) + NameSize(v.name) + DataLen[v.data]
        + PadBytes(U32(HdrSize(auth) + Encode(v).nameSize + Encode(v).dataSize))

\* The variable parseOneVariable builds from a record that fits: the first
\* dataSize bytes of the payload.
Decode(r) ==
    [name  |-> r.name,
     guid  |-> r.guid,
     attrs |-> r.attrs,
     data  |-> IF r.dataSize = DataLen[r.data] THEN r.data ELSE NoData]

\* A variable as it is read back after a write.
Canonical(v) == [v EXCEPT !.name = Canon[v.name]]
=============================================================================
