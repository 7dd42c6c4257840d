----------------------------- MODULE LoadOption -----------------------------
(***************************************************************************)
(* EFI_LOAD_OPTION (bootvars.go) and its device path (devicepath.go).      *)
(* Marshal lays an option out and ParseLoadOption reads bytes; one step is *)
(* one iteration of a loop of either.  The bytes are those Marshal wrote   *)
(* or arbitrary ones, whose content is chosen when the parser gets there:  *)
(* it only moves forward.  An option read from arbitrary bytes is          *)
(* marshalled and read once more.                                          *)
(*                                                                         *)
(* A description is a sequence of UTF-16 code units, of which it matters   *)
(* whether they are NUL or do not survive the conversion to and from a Go  *)
(* string.  A node is its kind (Type and SubType, "end" for 0x7F/0xFF) and *)
(* the number of its data bytes.  Optional data is its length.             *)
(***************************************************************************)
EXTENDS SafeIO, Sequences

CONSTANTS
    Half,                \* modulus of uint16
    MaxLoadOptionBytes,  \* maxLoadOptionBytes
    MaxDevicePathBytes,  \* maxDevicePathBytes
    Kind,                \* kinds of nodes that are not the terminator
    Unit,                \* classes of code units: "char", "repl", "bad", "nul"
    Options,             \* options a caller marshals
    BlobLens,            \* lengths of arbitrary blobs
    Fields,              \* values of a 16-bit length field in them
    None                 \* no option, no blob

ASSUME LoadOptionAssumption ==
    /\ Half \in Nat \ {0} /\ MaxLoadOptionBytes \in Nat /\ MaxDevicePathBytes \in Nat
    /\ MaxDevicePathBytes >= Half
    /\ "end" \notin Kind
    /\ {"repl", "nul"} \subseteq Unit
    /\ BlobLens \subseteq Nat
    /\ Fields \subseteq 0 .. Half - 1

Prefix == 6             \* Attributes and FilePathListLength
DevPathHeaderSize == 4  \* Type, SubType, Length

Node == [kind : Kind \cup {"end"}, data : Nat]

Option == [desc : Seq(Unit), nodes : Seq(Node), opt : Nat]

ASSUME OptionsAssumption == Options \subseteq Option /\ None \notin Option

VARIABLES
    lo,     \* the option that is marshalled; None while arbitrary bytes are read
    img,    \* the nodes MarshalDevicePath has written, with their offsets
    size,   \* the bytes they take
    raw,    \* the arbitrary blob that lo was read from, or None
    len,    \* len(b)
    fpLen,  \* FilePathListLength of b
    off,    \* offset in b the parser is at
    steps,  \* calls made to the loop guard
    desc,   \* code units scanned
    nodes,  \* nodes parsed
    end,    \* length of the End node, 0 before it is met
    opt,    \* bytes of optional data
    reads,  \* slices [lo, hi) of b taken by the last step
    pc      \* "marshal", "header", "desc", "path", "done", "err" or "refused"

input == <<lo, img, size, raw, len, fpLen>>
parse == <<off, steps, desc, nodes, end, opt, reads>>
vars == <<lo, img, size, raw, len, fpLen, off, steps, desc, nodes, end, opt, reads, pc>>

\* What EncodeUTF16LE and DecodeUTF16LE make of a code unit: one that cannot
\* be converted becomes U+FFFD.
Clean(u) == IF u = "bad" THEN "repl" ELSE u

Cleaned(d) == [k \in DOMAIN d |-> Clean(d[k])]

\* DevicePathNode.Length.
NodeLen(n) == DevPathHeaderSize + n.data

Fresh ==
    off = 0 /\ steps = 0 /\ desc = <<>> /\ nodes = <<>> /\ end = 0 /\ opt = 0 /\ reads = {}

Init ==
    /\ img = <<>> /\ size = 0 /\ raw = None /\ Fresh
    /\ \/ lo \in Options /\ len = 0 /\ fpLen = 0 /\ pc = "marshal"
       \/ lo = None /\ len \in BlobLens /\ fpLen \in Fields /\ pc = "header"

-----------------------------------------------------------------------------
(***************************************************************************)
(* Marshal and MarshalDevicePath                                           *)
(***************************************************************************)

Encoding == pc = "marshal" /\ Len(img) < Len(lo.nodes)

Current == lo.nodes[Len(img) + 1]

\* The terminator is implicit, and the length must fit its field.
BadNode(n) == n.kind = "end" \/ NodeLen(n) >= Half

EncodeNode ==
    /\ Encoding
    /\ ~BadNode(Current)
    /\ img' = Append(img, [at |-> size, node |-> Current])
    /\ size' = size + NodeLen(Current)
    /\ UNCHANGED <<lo, raw, len, fpLen, parse, pc>>

\* An option without nodes has no path at all, not even a terminator.
PathLen == IF lo.nodes = <<>> THEN 0 ELSE size + DevPathHeaderSize

\* Mutant: the terminator of the description is forgotten.
EncodedLenUnterminated == Prefix + 2 * Len(lo.desc) + PathLen + lo.opt

EncodedLen == Prefix + 2 * (Len(lo.desc) + 1) + PathLen + lo.opt

EncodeOption ==
    /\ pc = "marshal" /\ Len(img) = Len(lo.nodes)
    /\ PathLen < Half
    /\ len' = EncodedLen /\ fpLen' = PathLen
    /\ pc' = "header"
    /\ UNCHANGED <<lo, img, size, raw, parse>>

Refuse ==
    /\ \/ Encoding /\ BadNode(Current)
       \/ pc = "marshal" /\ Len(img) = Len(lo.nodes) /\ PathLen >= Half
    /\ pc' = "refused"
    /\ UNCHANGED <<input, parse>>

-----------------------------------------------------------------------------
(***************************************************************************)
(* ParseLoadOption                                                         *)
(***************************************************************************)

\* An error return.  rs are the slices taken before it.
Fail(rs) ==
    /\ pc' = "err" /\ reads' = rs
    /\ UNCHANGED <<input, off, steps, desc, nodes, end, opt>>

Header ==
    /\ pc = "header"
    /\ IF len > MaxLoadOptionBytes \/ ~CheckBounds(0, Prefix, len)
       THEN Fail({})
       ELSE /\ pc' = "desc" /\ off' = Prefix /\ steps' = 0
            /\ reads' = {<<0, 4>>, <<4, 6>>}
            /\ UNCHANGED <<input, desc, nodes, end, opt>>

\* The code units the scan may find at off.
UnitHere ==
    LET k == Len(desc) + 1
    IN IF lo = None THEN Unit
       ELSE IF k <= Len(lo.desc) THEN {Clean(lo.desc[k])} ELSE {"nul"}

CanScan == off + 2 <= len /\ ~GuardTrips(steps, len + 1)

\* The blob ends before the NUL, or the guard gives up.
ScanFails == pc = "desc" /\ ~CanScan /\ Fail({})

ScanUnit(u) ==
    /\ pc = "desc" /\ CanScan
    /\ u # "nul"
    /\ desc' = Append(desc, u)
    /\ off' = off + 2 /\ steps' = steps + 1
    /\ reads' = {<<off, off + 2>>}
    /\ UNCHANGED <<input, nodes, end, opt, pc>>

\* Where the device path starts, and where it ends.
DpStart == Prefix + 2 * (Len(desc) + 1)
OptStart == DpStart + fpLen

\* Mutant: the path is checked against the blob from its start.
PathFitsUnshifted == CheckBounds(0, fpLen, len)

PathFits == CheckBounds(DpStart, fpLen, len)

ScanNul ==
    LET rs == {<<off, off + 2>>, <<Prefix, off>>}
    IN /\ pc = "desc" /\ CanScan
       /\ "nul" \in UnitHere
       /\ IF ~PathFits
          THEN Fail(rs)
          ELSE /\ off' = DpStart /\ steps' = 0
               /\ IF fpLen = 0
                  THEN /\ pc' = "done" /\ opt' = len - OptStart
                       /\ reads' = rs \cup {<<DpStart, OptStart>>, <<OptStart, len>>}
                  ELSE /\ pc' = "path" /\ UNCHANGED opt
                       /\ reads' = rs \cup {<<DpStart, OptStart>>}
               /\ UNCHANGED <<input, desc, nodes, end>>

-----------------------------------------------------------------------------
(***************************************************************************)
(* ParseDevicePath on the fpLen bytes from DpStart                         *)
(***************************************************************************)

PathOff == off - DpStart

NodeHeader == [kind : Kind \cup {"end"}, len : Fields]

\* The node headers the walk may find at off: the one Marshal wrote there, if
\* the description was read to its end.
HeaderHere ==
    LET at == {k \in 1 .. Len(img) : img[k].at = PathOff}
    IN IF lo = None THEN NodeHeader
       ELSE IF Len(desc) # Len(lo.desc) THEN NodeHeader
       ELSE IF at = {} THEN {[kind |-> "end", len |-> DevPathHeaderSize]}
       ELSE {[kind |-> img[k].node.kind, len |-> NodeLen(img[k].node)] : k \in at}

\* The checks that precede the read of a node's header.
AtHeader ==
    /\ fpLen <= MaxDevicePathBytes
    /\ ~GuardTrips(steps, fpLen + 1)
    /\ CheckBounds(PathOff, DevPathHeaderSize, fpLen)

HeaderFails == pc = "path" /\ ~AtHeader /\ Fail({})

\* Mutant: a node shorter than its header is taken for an empty one.
NodeFitsAnyLength(h) == CheckBounds(PathOff, h.len, fpLen)

NodeFits(h) == h.len >= DevPathHeaderSize /\ CheckBounds(PathOff, h.len, fpLen)

HeaderReads == {<<off, off + 1>>, <<off + 1, off + 2>>, <<off + 2, off + 4>>}

NodeReads(h) == HeaderReads \cup {<<off + DevPathHeaderSize, off + h.len>>}

BadHeader(h) == pc = "path" /\ AtHeader /\ ~NodeFits(h) /\ Fail(HeaderReads)

\* Mutant: the data of a node starts at its header.
WalkNodeWhole(h) ==
    /\ pc = "path" /\ AtHeader /\ NodeFits(h)
    /\ h.kind # "end"
    /\ nodes' = Append(nodes, [kind |-> h.kind, data |-> h.len])
    /\ off' = off + h.len /\ steps' = steps + 1
    /\ reads' = NodeReads(h)
    /\ UNCHANGED <<input, desc, end, opt, pc>>

WalkNode(h) ==
    /\ pc = "path" /\ AtHeader /\ NodeFits(h)
    /\ h.kind # "end"
    /\ nodes' = Append(nodes, [kind |-> h.kind, data |-> h.len - DevPathHeaderSize])
    /\ off' = off + h.len /\ steps' = steps + 1
    /\ reads' = NodeReads(h)
    /\ UNCHANGED <<input, desc, end, opt, pc>>

\* Mutant: what is behind the End node is optional data.
WalkEndEarly(h) ==
    /\ pc = "path" /\ AtHeader /\ NodeFits(h)
    /\ h.kind = "end"
    /\ end' = h.len /\ opt' = len - (off + h.len)
    /\ off' = off + h.len /\ steps' = steps + 1
    /\ reads' = NodeReads(h)
    /\ pc' = "done"
    /\ UNCHANGED <<input, desc, nodes>>

\* The terminator: what is left of the path is skipped, the rest is copied.
WalkEnd(h) ==
    /\ pc = "path" /\ AtHeader /\ NodeFits(h)
    /\ h.kind = "end"
    /\ end' = h.len /\ opt' = len - OptStart
    /\ off' = off + h.len /\ steps' = steps + 1
    /\ reads' = NodeReads(h) \cup {<<OptStart, len>>}
    /\ pc' = "done"
    /\ UNCHANGED <<input, desc, nodes>>

-----------------------------------------------------------------------------

\* The option ParseLoadOption returns.
Result == [desc |-> Cleaned(desc), nodes |-> nodes, opt |-> opt]

\* A blob by its content, and the one that Marshal makes of lo.
Blob == [len |-> len, fpLen |-> fpLen, desc |-> desc, nodes |-> nodes, end |-> end]

Written ==
    [len |-> EncodedLen, fpLen |-> PathLen, desc |-> Cleaned(lo.desc), nodes |-> lo.nodes,
     end |-> IF lo.nodes = <<>> THEN 0 ELSE DevPathHeaderSize]

\* A caller marshals what it read.
Reencode ==
    /\ pc = "done" /\ lo = None
    /\ lo' = Result /\ raw' = Blob /\ img' = <<>> /\ size' = 0
    /\ off' = 0 /\ steps' = 0 /\ desc' = <<>> /\ nodes' = <<>> /\ end' = 0 /\ opt' = 0
    /\ reads' = {}
    /\ pc' = "marshal"
    /\ UNCHANGED <<len, fpLen>>

Finished == pc \in {"err", "refused"} \/ (pc = "done" /\ lo # None)

Next ==
    \/ EncodeNode \/ EncodeOption \/ Refuse
    \/ Header
    \/ ScanFails \/ ScanNul
    \/ \E u \in UnitHere : ScanUnit(u)
    \/ HeaderFails
    \/ \E h \in HeaderHere : BadHeader(h) \/ WalkNode(h) \/ WalkEnd(h)
    \/ Reencode
    \/ Finished /\ UNCHANGED vars

Spec == Init /\ [][Next]_vars

-----------------------------------------------------------------------------
(***************************************************************************)
(* Properties                                                              *)
(***************************************************************************)

\* Every slice ParseLoadOption and ParseDevicePath take is well formed and
\* inside the blob, and the walk of the path reads nothing behind
\* FilePathListLength, whatever the length fields say.
ReadsInBounds ==
    \A r \in reads :
        /\ 0 <= r[1] /\ r[1] <= r[2] /\ r[2] <= len
        /\ r[1] \in DpStart .. OptStart - 1 => r[2] <= OptStart

\* Neither loop guard is ever what ends a scan or a walk: each iteration has
\* moved two bytes, or a node header, further.  So both loops end.
GuardNeverTrips ==
    /\ pc = "desc" => 2 * steps <= off - Prefix /\ ~GuardTrips(steps, len + 1)
    /\ pc = "path" => DevPathHeaderSize * steps <= PathOff /\ ~GuardTrips(steps, fpLen + 1)

NulFree(d) == \A k \in DOMAIN d : d[k] # "nul"

\* An option that Marshal encodes is read back as it was, apart from what
\* UTF-16 cannot carry, unless its description holds a NUL; it is refused
\* exactly when it is longer than the parser's ceiling, which Marshal does
\* not check.
MarshalParses ==
    lo # None /\ pc \in {"done", "err"} =>
        /\ len > MaxLoadOptionBytes => pc = "err"
        /\ len <= MaxLoadOptionBytes /\ NulFree(lo.desc) =>
              pc = "done" /\ Result = [lo EXCEPT !.desc = Cleaned(@)]

\* What was parsed from any bytes can be marshalled and parsed again and is
\* then the same option: the marshalled form is canonical.
ReparseIsStable ==
    raw # None =>
        /\ pc \notin {"refused", "err"}
        /\ pc = "done" => Result = lo

\* A blob whose path has nodes, ends in a four-byte terminator and holds
\* nothing behind it, or that has no path.
Tidy(b) ==
    /\ NulFree(b.desc) /\ \A k \in DOMAIN b.desc : b.desc[k] # "bad"
    /\ b.fpLen = 0 \/ (b.nodes # <<>> /\ b.end = DevPathHeaderSize)

\* Marshal(ParseLoadOption(b)) is no longer than b, and it is b exactly when
\* the lengths agree and the terminator and the description are canonical: a
\* path of nothing but a terminator, bytes behind it or data in it are lost.
ReencodesExactly ==
    raw # None /\ pc = "done" =>
        /\ len <= raw.len /\ fpLen <= raw.fpLen
        /\ Written = raw <=> Tidy(raw) /\ len = raw.len
=============================================================================
