------------------------------- MODULE NvFile -------------------------------
(***************************************************************************)
(* A store file and what OpenLimits makes of it (uefi.go).  A file is its  *)
(* length, the header fields Open reads, the records of the variable       *)
(* region and the bytes behind the store.  A short file is a file whose    *)
(* len cuts the rest off.                                                  *)
(***************************************************************************)
EXTENDS VarRecord, FiniteSetsExt

CONSTANTS
    MaxFileSize,   \* Limits.MaxFileSize
    MaxVariables,  \* Limits.MaxVariables
    NoFile         \* there is no file at the path

ASSUME LimitsAssumption == MaxFileSize \in Nat /\ MaxVariables \in Nat

\* A record header and what it describes, as it may stand in a file.
Record ==
    [added : BOOLEAN, attrs : Attr, nameSize : 0 .. Word - 1, dataSize : 0 .. Word - 1,
     guid : Guid, name : Name, data : Data]

File ==
    [len : Nat, fv : BOOLEAN, sig : {"auth", "plain", "other"}, formatted : BOOLEAN,
     healthy : BOOLEAN, size : 0 .. Word - 1, recs : Seq(Record), tail : {"ftw", "erased"}]

FvWrapped(f) == f.fv /\ f.len >= FvHeaderSize

StoreOff(f) == IF FvWrapped(f) THEN FvHeaderSize ELSE 0

IsAuth(f) == f.sig = "auth"

\* OpenLimits up to the walk: length, signature, Format and State bytes.  An
\* FV header too short to be seen is not a store signature either.
HeaderAccepted(f) ==
    /\ StoreOff(f) + StoreHeaderSize <= f.len
    /\ f.fv => FvWrapped(f)
    /\ f.sig \in {"auth", "plain"}
    /\ f.formatted
    /\ f.healthy

\* Mutant: the extent is the file's, whatever the Size field says.
StoreSizeOfFile(f) == U32(f.len - StoreOff(f))

StoreSize(f) == ClampedSize(f.size, StoreOff(f), f.len)

End(f) == U32(IF StoreOff(f) + StoreSize(f) > f.len THEN f.len ELSE StoreOff(f) + StoreSize(f))

\* Where the records of the region end: record k lies between k - 1 and k.
RecordOffsets(f) ==
    LET at[k \in 0 .. Len(f.recs)] ==
            IF k = 0
            THEN StoreOff(f) + StoreHeaderSize
            ELSE NextOffset(at[k - 1], IsAuth(f), f.recs[k].nameSize, f.recs[k].dataSize)
    IN at

\* parseVariables: the records the walk gets past before it meets the end of
\* the region or a record that does not fit.
Walked(f) ==
    LET at  == RecordOffsets(f)
        end == End(f)
        passes(k) == /\ U32(at[k - 1] + 2) <= end
                     /\ RecordFits(at[k - 1], end, IsAuth(f), f.recs[k].nameSize, f.recs[k].dataSize)
                     /\ at[k] > at[k - 1]
    IN SubSeq(f.recs, 1, Max({0} \cup {m \in 1 .. Len(f.recs) : \A k \in 1 .. m : passes(k)}))

\* A loop that appends the elements with these indexes to a new list.
Kept(s, indexes) ==
    LET out[k \in 0 .. Len(s)] ==
            IF k = 0 THEN <<>> ELSE IF k \in indexes THEN Append(out[k - 1], s[k]) ELSE out[k - 1]
    IN out[Len(s)]

\* Variables of the records that are added and have a decodable name.
Parsed(f) ==
    LET met  == Walked(f)
        live == Kept(met, {k \in DOMAIN met : met[k].added /\ DecodableName(met[k].nameSize)})
    IN [k \in 1 .. Len(live) |-> Decode(live[k])]

Readable(f) == f # NoFile /\ f.len <= MaxFileSize

\* OpenLimits succeeds.
Opens(f) == Readable(f) /\ HeaderAccepted(f) /\ Len(Parsed(f)) <= MaxVariables

\* The store OpenLimits returns.
OpenedOn(f) ==
    [off |-> StoreOff(f), auth |-> IsAuth(f), size |-> StoreSize(f), vars |-> Parsed(f)]
=============================================================================
