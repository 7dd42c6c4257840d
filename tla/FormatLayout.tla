---------------------------- MODULE FormatLayout ----------------------------
(***************************************************************************)
(* Format and FormatOVMF (format.go): the checks on the size asked for,    *)
(* the geometry of the empty store that is written, the checksum of its    *)
(* firmware-volume header, and the Open that ends the call.  The write     *)
(* itself, and what can go wrong with it, is in NvStore.                   *)
(***************************************************************************)
EXTENDS NvFile

CONSTANT Sizes  \* values of sizeBytes considered

\* MaxFileSize is DefaultMaxFileSize here: Format ends with a plain Open.
ASSUME FormatAssumption ==
    /\ MaxFileSize \in Nat /\ MaxFileSize < Word
    /\ MaxVariables \in Nat
    /\ Sizes \subseteq Int
    /\ NoFile \notin File

Layouts == {"raw", "x86_64", "aarch64"}

ArmVirtNvVarFvSize    == 786432  \* 0xC0000
ArmVirtNvVarStoreSize == 262144  \* 0x40000

VARIABLES
    layout,  \* Format, or FormatOVMF with a flavor
    size,    \* sizeBytes
    file,    \* the file written, or NoFile
    fv,      \* the firmware-volume header written, or <<>>
    opened,  \* what the final Open returned, or <<>>
    pc       \* "check", "open", "done", "refused" or "failed"

vars == <<layout, size, file, fv, opened, pc>>

Init ==
    /\ layout \in Layouts
    /\ size \in Sizes
    /\ file = NoFile /\ fv = <<>> /\ opened = <<>>
    /\ pc = "check"

-----------------------------------------------------------------------------

\* Offset of the store header: behind the volume header, if there is one.
HeaderOff(l) == IF l = "raw" THEN 0 ELSE FvHeaderSize

MinSize(l) ==
    IF l = "aarch64" THEN ArmVirtNvVarFvSize ELSE HeaderOff(l) + StoreHeaderSize + 4

\* Mutant: the store of x86_64 is as long as its volume.
StoreBytesOfVolume(l, n) ==
    IF l = "aarch64" THEN ArmVirtNvVarStoreSize - FvHeaderSize ELSE n

\* The Size field of the store header, before its conversion to uint32.
StoreBytes(l, n) ==
    (IF l = "aarch64" THEN ArmVirtNvVarStoreSize ELSE n) - HeaderOff(l)

FvLength(l, n) == IF l = "aarch64" THEN ArmVirtNvVarFvSize ELSE n

BlockUnit(l) == IF l = "aarch64" THEN 262144 ELSE 4096

\* Mutant: no fallback for a size that is not a number of blocks.
BlockMapTruncated(l, n) ==
    [num |-> U32(n \div BlockUnit(l)), len |-> BlockUnit(l)]

\* A size that is not a number of blocks becomes one block.
BlockMap(l, n) ==
    IF n % BlockUnit(l) = 0
    THEN [num |-> U32(n \div BlockUnit(l)), len |-> BlockUnit(l)]
    ELSE [num |-> 1, len |-> U32(n)]

\* The file both makeEmptyStore and makeEmptyOVMFStore return.
EmptyStore(l, n) ==
    [len |-> n, fv |-> l # "raw", sig |-> IF l = "raw" THEN "plain" ELSE "auth",
     formatted |-> TRUE, healthy |-> TRUE, size |-> U32(StoreBytes(l, n)),
     recs |-> <<>>, tail |-> "erased"]

-----------------------------------------------------------------------------
(***************************************************************************)
(* The firmware-volume header as its 36 u16 words, the checksum at 0x32    *)
(* being word 26.                                                          *)
(***************************************************************************)

Lo(n) == n % 65536
Hi(n) == (n \div 65536) % 65536

\* EFISystemNvDataFvGUID.
FvGuidWords == <<11149, 65521, 30358, 19595, 34217, 18215, 23303, 20559>>

FvWords(l, n, checksum) ==
    LET blocks == BlockMap(l, n) IN
    <<0, 0, 0, 0, 0, 0, 0, 0>>                                 \* ZeroVector
        \o FvGuidWords
        \o <<Lo(FvLength(l, n)), Hi(FvLength(l, n)), 0, 0>>
        \o <<18015, 18518>>                                    \* "_FVH"
        \o <<3638, 0>>                                         \* Attributes
        \o <<72, checksum, 0, 512>>                            \* HeaderLength .. Revision
        \o <<Lo(blocks.num), Hi(blocks.num), Lo(blocks.len), Hi(blocks.len)>>
        \o <<0, 0, 0, 0>>                                      \* terminator

\* A sum in uint16.
Plus16(a, b) == (a + b) % 65536

WordSum(words) ==
    LET sum[k \in 0 .. Len(words)] == IF k = 0 THEN 0 ELSE Plus16(sum[k - 1], words[k])
    IN sum[Len(words)]

\* Mutant: the one's complement.
ChecksumInverted(l, n) == 65535 - WordSum(FvWords(l, n, 0))

\* uint16(0) - sum, over the header with a zero checksum.
Checksum(l, n) == (65536 - WordSum(FvWords(l, n, 0))) % 65536

-----------------------------------------------------------------------------

Refuse ==
    /\ pc = "check"
    /\ size < MinSize(layout) \/ size > MaxFileSize
    /\ pc' = "refused"
    /\ UNCHANGED <<layout, size, file, fv, opened>>

\* Mutant: the ceiling is not checked.
MakeUnlimited ==
    /\ pc = "check"
    /\ size >= MinSize(layout)
    /\ file' = EmptyStore(layout, size)
    /\ fv' = IF layout = "raw" THEN <<>> ELSE FvWords(layout, size, Checksum(layout, size))
    /\ pc' = "open"
    /\ UNCHANGED <<layout, size, opened>>

Make ==
    /\ pc = "check"
    /\ size >= MinSize(layout)
    /\ size <= MaxFileSize
    /\ file' = EmptyStore(layout, size)
    /\ fv' = IF layout = "raw" THEN <<>> ELSE FvWords(layout, size, Checksum(layout, size))
    /\ pc' = "open"
    /\ UNCHANGED <<layout, size, opened>>

OpenStore ==
    /\ pc = "open"
    /\ IF Opens(file)
       THEN opened' = OpenedOn(file) /\ pc' = "done"
       ELSE opened' = opened /\ pc' = "failed"
    /\ UNCHANGED <<layout, size, file, fv>>

Returned == pc \in {"done", "refused", "failed"} /\ UNCHANGED vars

Next == Refuse \/ Make \/ OpenStore \/ Returned

Spec == Init /\ [][Next]_vars

-----------------------------------------------------------------------------
(***************************************************************************)
(* Properties                                                              *)
(***************************************************************************)

\* A store that Format or FormatOVMF agrees to write can always be opened: the
\* two size checks of the writer are at least as strict as those of Open.
FormatReopens == pc # "failed"

\* Open finds in a formatted store exactly what was written: the flavor, a
\* store of the very size in the header, unclamped, and no variable.
ReopensAsWritten ==
    pc = "done" =>
        opened = [off  |-> HeaderOff(layout),
                  auth |-> layout # "raw",
                  size |-> StoreBytes(layout, size),
                  vars |-> <<>>]

\* The store with its header lies inside the firmware volume and the volume
\* inside the file, and the block map covers the file to the byte
\* (makeEmptyOVMFStore).
GeometryNests ==
    pc \in {"open", "done"} /\ layout # "raw" =>
        LET blocks == BlockMap(layout, size)
        IN /\ StoreOff(file) + StoreHeaderSize <= StoreOff(file) + file.size
           /\ StoreOff(file) + file.size <= FvLength(layout, size)
           /\ FvLength(layout, size) <= file.len
           /\ blocks.num * blocks.len = file.len

\* The u16 words of every firmware-volume header written add up to zero, which
\* is what firmware checks.
ChecksumVerifies == fv # <<>> => Len(fv) = FvHeaderSize \div 2 /\ WordSum(fv) = 0
=============================================================================
