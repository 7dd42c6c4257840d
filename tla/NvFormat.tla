------------------------------ MODULE NvFormat ------------------------------
(***************************************************************************)
(* The arithmetic of the NvVar on-disk format (uefi.go): header sizes,     *)
(* record alignment, and the bounds checks parseOneVariable makes before   *)
(* it trusts a record header.  Offsets are byte offsets into the store     *)
(* file.  Go's uint32 is a number modulo Word (2^32 in the code); int and  *)
(* int64 do not wrap for any file a process can hold and stay unbounded.   *)
(***************************************************************************)
EXTENDS SafeIO

CONSTANT Word  \* modulus of uint32 arithmetic

StoreHeaderSize   == 28  \* sizeof(VARIABLE_STORE_HEADER)
VarHeaderSize     == 32  \* sizeof(VARIABLE_HEADER)
AuthVarHeaderSize == 60  \* sizeof(AUTHENTICATED_VARIABLE_HEADER)
FvHeaderSize      == 72  \* sizeof(EFI_FIRMWARE_VOLUME_HEADER), one block-map entry
HeaderAlignment   == 4   \* HEADER_ALIGNMENT

\* uint32 is a whole number of alignment units, and is wide enough for the
\* fixed headers themselves.
ASSUME WordAssumption ==
    /\ Word \in Nat
    /\ Word % HeaderAlignment = 0
    /\ Word > FvHeaderSize + StoreHeaderSize + AuthVarHeaderSize

U32(n) == n % Word

HdrSize(auth) == IF auth THEN AuthVarHeaderSize ELSE VarHeaderSize

-----------------------------------------------------------------------------

\* (n + 3) &^ 3 in int64, as parseOneVariable rounds up the next record.
AlignUp64(n) == HeaderAlignment * ((n + HeaderAlignment - 1) \div HeaderAlignment)

\* The same rounding in uint32, as the encoder pads a record.
AlignUp(n) == HeaderAlignment * (U32(n + HeaderAlignment - 1) \div HeaderAlignment)

\* Mutant: records are not padded.
PadBytesNone(n) == 0

\* len(padBytes(n)): the bytes from n to the next aligned offset.
PadBytes(n) == U32(AlignUp(n) - n)

\* Mutant: the firmware volume header is taken off twice.
ClampedSizeTwice(sizeField, o, l) ==
    IF sizeField > l - o THEN l - o - FvHeaderSize ELSE sizeField

\* OpenLimits: the store header's Size field, cut to the bytes that a file of
\* l bytes holds behind the header at o.
ClampedSize(sizeField, o, l) == IF sizeField > l - o THEN U32(l - o) ELSE sizeField

-----------------------------------------------------------------------------
(***************************************************************************)
(* parseOneVariable, the checks in the order the code makes them, for the  *)
(* record header at off in a variable region that stops at end.            *)
(***************************************************************************)

NameOff(off, auth) == off + HdrSize(auth)

DataOff(off, auth, nameSize) == NameOff(off, auth) + nameSize

\* Mutant: the next record starts where the data ends.
NextOffsetUnaligned(off, auth, nameSize, dataSize) ==
    DataOff(off, auth, nameSize) + dataSize

\* Offset of the following record: only records are aligned, never the data
\* after its name.
NextOffset(off, auth, nameSize, dataSize) ==
    AlignUp64(DataOff(off, auth, nameSize) + dataSize)

\* The bytes common to both header layouts: StartId, State, Reserved, Attributes.
PrefixFits(off, end) == CheckBounds(off, 8, end)

\* Mutant: the prefix is taken for the whole header.
HeaderFitsUnchecked(off, end, auth) == U32(off + 8) <= end

\* The full header fits; computed in uint32 by the code.
HeaderFits(off, end, auth) == U32(off + HdrSize(auth)) <= end

BodyFits(off, end, auth, nameSize, dataSize) ==
    /\ CheckBounds(NameOff(off, auth), nameSize, end)
    /\ CheckBounds(DataOff(off, auth, nameSize), dataSize, end)
    /\ NextOffset(off, auth, nameSize, dataSize) <= end

\* parseOneVariable returns no error for a record that carries the StartId.
RecordFits(off, end, auth, nameSize, dataSize) ==
    /\ PrefixFits(off, end)
    /\ HeaderFits(off, end, auth)
    /\ BodyFits(off, end, auth, nameSize, dataSize)

\* A record with this name length has a decodable name (DecodeUTF16LE).
DecodableName(nameSize) == nameSize % 2 = 0
=============================================================================
