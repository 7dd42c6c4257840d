-------------------------- MODULE LoadOptionProofs --------------------------
(***************************************************************************)
(* Proofs about LoadOption, for every blob, option and width of the length *)
(* fields: slices stay inside the blob, the loop guards never trip, and    *)
(* what Marshal encodes is read back.                                      *)
(***************************************************************************)
EXTENDS LoadOption, SequenceTheorems, TLAPS

-----------------------------------------------------------------------------
(***************************************************************************)
(* Reads and guards.  The scan is two bytes per code unit behind the       *)
(* prefix; the walk is inside the declared path.                           *)
(***************************************************************************)

Types ==
    /\ lo \in Option \cup {None}
    /\ len \in Nat /\ fpLen \in 0 .. Half - 1
    /\ off \in Nat /\ steps \in Nat /\ end \in Nat /\ opt \in Nat
    /\ desc \in Seq(Unit) /\ nodes \in Seq(Node)
    /\ size \in Nat /\ img \in Seq([at : Nat, node : Node])

Untouched == off = 0 /\ desc = <<>> /\ nodes = <<>> /\ reads = {}

Places ==
    /\ pc \in {"marshal", "header", "desc", "path", "done", "err", "refused"}
    /\ pc = "marshal" => lo # None
    /\ pc \in {"marshal", "header", "refused"} => Untouched
    /\ pc = "desc" =>
          /\ off = Prefix + 2 * Len(desc) /\ off <= len /\ steps = Len(desc)
          /\ nodes = <<>>
    /\ pc = "path" =>
          /\ DpStart <= off /\ off <= OptStart /\ OptStart <= len
          /\ DevPathHeaderSize * steps <= PathOff

WalkInv == Types /\ Places /\ ReadsInBounds

LEMMA InitWalkInv == Init => WalkInv
<1> SUFFICES ASSUME Init PROVE WalkInv
    OBVIOUS
<1> USE LoadOptionAssumption, OptionsAssumption DEF Init, Fresh
<1>1. Types
    <2>1. /\ desc \in Seq(Unit) /\ nodes \in Seq(Node)
          /\ img \in Seq([at : Nat, node : Node])
        OBVIOUS
    <2>2. lo \in Option \cup {None}
        OBVIOUS
    <2>3. 0 \in Nat /\ 0 \in 0 .. Half - 1
        OBVIOUS
    <2>4. len \in Nat /\ fpLen \in 0 .. Half - 1
        <3>1. CASE len = 0 /\ fpLen = 0
            BY <2>3, <3>1
        <3>2. CASE len \in BlobLens /\ fpLen \in Fields
            BY <3>2
        <3> QED BY <3>1, <3>2
    <2> QED BY <2>1, <2>2, <2>4 DEF Types
<1>2. Places
    <2>1. lo \in Options => lo # None
        OBVIOUS
    <2> QED BY <2>1 DEF Places, Untouched
<1>3. ReadsInBounds
    BY DEF ReadsInBounds
<1> QED BY <1>1, <1>2, <1>3 DEF WalkInv

\* A parsed option is an option.
LEMMA ResultIsOption == ASSUME Types PROVE Result \in Option
<1>1. \A k \in 1 .. Len(desc) : Clean(desc[k]) \in Unit
    BY LoadOptionAssumption DEF Types, Clean
<1>2. Cleaned(desc) = [k \in 1 .. Len(desc) |-> Clean(desc[k])]
    BY DEF Types, Cleaned
<1>3. Cleaned(desc) \in Seq(Unit)
    BY <1>1, <1>2, Len(desc) \in Nat DEF Types
<1> QED BY <1>3 DEF Types, Result, Option

LEMMA EncodeWalkInv ==
    ASSUME WalkInv, EncodeNode \/ EncodeOption \/ Refuse PROVE WalkInv'
<1> USE LoadOptionAssumption DEF WalkInv, parse, input
<1>0. pc = "marshal" /\ lo \in Option /\ Untouched
    BY DEF Places, Types, Encoding, EncodeNode, EncodeOption, Refuse
<1>1. CASE EncodeNode
    <2>1. Current \in Node
        <3>1. lo.nodes \in Seq(Node) /\ Len(img) \in Nat /\ Len(img) < Len(lo.nodes)
            BY <1>0, <1>1 DEF EncodeNode, Encoding, Types, Option
        <3>2. Len(img) + 1 \in 1 .. Len(lo.nodes)
            BY <3>1
        <3> QED BY <3>1, <3>2, ElementOfSeq DEF Current
    <2>2. NodeLen(Current) \in Nat
        BY <2>1 DEF Node, NodeLen, DevPathHeaderSize
    <2>3. [at |-> size, node |-> Current] \in [at : Nat, node : Node]
        BY <2>1 DEF Types
    <2>4. Types'
        BY <1>1, <2>2, <2>3 DEF EncodeNode, Types
    <2> QED BY <1>0, <1>1, <2>4 DEF EncodeNode, Places, Untouched, ReadsInBounds
<1>2. CASE EncodeOption
    <2>1. PathLen \in Nat
        BY DEF PathLen, Types, DevPathHeaderSize
    <2>2. EncodedLen \in Nat
        BY <2>1, <1>0 DEF EncodedLen, Prefix, Option
    <2>3. Types'
        BY <1>2, <2>1, <2>2 DEF EncodeOption, Types
    <2> QED BY <1>0, <1>2, <2>3 DEF EncodeOption, Places, Untouched, ReadsInBounds
<1>3. CASE Refuse
    BY <1>0, <1>3 DEF Refuse, Types, Places, Untouched, ReadsInBounds, DpStart, OptStart
<1> QED BY <1>1, <1>2, <1>3

\* An error return keeps the invariant if the slices taken are good.
LEMMA FailWalkInv ==
    ASSUME WalkInv, NEW rs, Fail(rs),
           \A r \in rs : /\ 0 <= r[1] /\ r[1] <= r[2] /\ r[2] <= len
                         /\ r[1] \in DpStart .. OptStart - 1 => r[2] <= OptStart
    PROVE  WalkInv'
<1> USE DEF WalkInv, Fail, input
<1>1. Types'
    BY DEF Types
<1>2. Places'
    BY DEF Places
<1>3. ReadsInBounds'
    BY DEF ReadsInBounds, DpStart, OptStart
<1> QED BY <1>1, <1>2, <1>3

LEMMA ScanWalkInv ==
    ASSUME WalkInv, Header \/ ScanFails \/ ScanNul \/ \E u \in UnitHere : ScanUnit(u)
    PROVE  WalkInv'
<1> USE LoadOptionAssumption
<1>1. CASE Header
    <2>1. CASE Fail({})
        BY <2>1, FailWalkInv
    <2>2. CASE ~Fail({})
        <3>1. Types'
            BY <1>1, <2>2, SMTT(90) DEF Header, WalkInv, Types, input, Prefix
        <3>2. 6 <= len /\ desc = <<>> /\ nodes = <<>>
            BY <1>1, <2>2 DEF Header, CheckBounds, Prefix, WalkInv, Types, Places, Untouched
        <3>3. Places'
            BY <1>1, <2>2, <3>2 DEF Header, Places, Prefix, input
        <3>4. ReadsInBounds'
            <4>1. reads' = {<<0, 4>>, <<4, 6>>} /\ len' = len
                BY <1>1, <2>2 DEF Header, input
            <4>2. DpStart' = 8
                BY <1>1, <2>2, <3>2 DEF Header, DpStart, Prefix
            <4> QED BY <3>2, <4>1, <4>2 DEF ReadsInBounds, WalkInv, Types
        <3> QED BY <3>1, <3>3, <3>4 DEF WalkInv
    <2> QED BY <2>1, <2>2
<1>2. CASE ScanFails
    BY <1>2, FailWalkInv DEF ScanFails
<1>3. ASSUME NEW u \in UnitHere, ScanUnit(u) PROVE WalkInv'
    <2>1. u \in Unit
        BY DEF UnitHere, Clean, WalkInv, Types, Option
    <2>2. Types'
        BY <1>3, <2>1 DEF ScanUnit, WalkInv, Types, input
    <2>3. /\ off = 6 + 2 * Len(desc) /\ off + 2 <= len /\ steps = Len(desc) /\ nodes = <<>>
          /\ Len(desc) \in Nat /\ Len(desc') = Len(desc) + 1
        BY <1>3, <2>1 DEF ScanUnit, CanScan, WalkInv, Places, Prefix, Types
    <2>4. Places'
        BY <1>3, <2>3 DEF ScanUnit, Places, Prefix, input
    <2>5. ReadsInBounds'
        BY <1>3, <2>2, <2>3 DEF ScanUnit, ReadsInBounds, DpStart, OptStart, Prefix, input, Types
    <2> QED BY <2>2, <2>4, <2>5 DEF WalkInv
<1>4. CASE ScanNul
    <2> DEFINE rs == {<<off, off + 2>>, <<Prefix, off>>}
    <2>1. /\ off = 6 + 2 * Len(desc) /\ off + 2 <= len /\ DpStart = off + 2
          /\ Len(desc) \in Nat /\ fpLen \in Nat /\ len \in Nat /\ OptStart = off + 2 + fpLen
        BY <1>4 DEF ScanNul, CanScan, WalkInv, Places, Prefix, Types, DpStart, OptStart
    <2>2. CASE ~PathFits
        <3>1. Fail(rs)
            BY <1>4, <2>2 DEF ScanNul
        <3>2. \A r \in rs : /\ 0 <= r[1] /\ r[1] <= r[2] /\ r[2] <= len
                            /\ r[1] \in DpStart .. OptStart - 1 => r[2] <= OptStart
            BY <2>1, SMTT(30) DEF Prefix
        <3> HIDE DEF rs
        <3> QED BY <3>1, <3>2, FailWalkInv
    <2>3. CASE PathFits
        <3>1. OptStart <= len
            BY <2>1, <2>3 DEF PathFits, CheckBounds
        <3>2. Types'
            BY <1>4, <2>1, <2>3, <3>1, SMTT(90) DEF ScanNul, WalkInv, Types, input
        <3>3. DpStart' = DpStart /\ OptStart' = OptStart /\ PathOff' = 0
            BY <1>4, <2>1, <2>3 DEF ScanNul, DpStart, OptStart, PathOff, input
        <3>4. Places'
            BY <1>4, <2>1, <2>3, <3>1, <3>3 DEF ScanNul, Places, input, DevPathHeaderSize
        <3>5. ReadsInBounds'
            BY <1>4, <2>1, <2>3, <3>1, <3>3, SMTT(30) DEF ScanNul, ReadsInBounds, input, Prefix
        <3> QED BY <3>2, <3>4, <3>5 DEF WalkInv
    <2> QED BY <2>2, <2>3
<1> QED BY <1>1, <1>2, <1>3, <1>4

LEMMA PathWalkInv ==
    ASSUME WalkInv, 
           HeaderFails \/ \E h \in HeaderHere : BadHeader(h) \/ WalkNode(h) \/ WalkEnd(h)
    PROVE  WalkInv'
<1> USE LoadOptionAssumption
<1>1. CASE HeaderFails
    BY <1>1, FailWalkInv DEF HeaderFails
<1>2. ASSUME NEW h \in HeaderHere, BadHeader(h) \/ WalkNode(h) \/ WalkEnd(h)
      PROVE  WalkInv'
    <2> DEFINE dp == DpStart
               os == OptStart
    <2>1. h.kind \in Kind \cup {"end"} /\ h.len \in Nat
        <3>1. h \in NodeHeader => h.kind \in Kind \cup {"end"} /\ h.len \in Nat
            <4>1. \A f \in Fields : f \in Nat
                OBVIOUS
            <4> QED BY <4>1, Zenon DEF NodeHeader
        <3>2. \A k \in 1 .. Len(img) : img[k].node \in Node
            <4>1. img \in Seq([at : Nat, node : Node])
                BY DEF WalkInv, Types
            <4>2. \A k \in 1 .. Len(img) : img[k] \in [at : Nat, node : Node]
                BY <4>1, ElementOfSeq, ZenonT(60)
            <4> QED BY <4>2
        <3>3. \A k \in 1 .. Len(img) : /\ img[k].node.kind \in Kind \cup {"end"}
                                        /\ NodeLen(img[k].node) \in Nat
            BY <3>2 DEF Node, NodeLen, DevPathHeaderSize
        <3> QED BY <3>1, <3>3 DEF HeaderHere, DevPathHeaderSize
    <2>2. pc = "path" /\ AtHeader
        BY <1>2 DEF BadHeader, WalkNode, WalkEnd
    <2>3. dp \in Nat /\ os \in Nat /\ off \in Nat /\ len \in Nat /\ fpLen \in Nat /\ os = dp + fpLen
        BY DEF WalkInv, Types, DpStart, OptStart, Prefix
    <2>4. dp <= off /\ os <= len /\ off + 4 <= os /\ 8 <= dp /\ steps \in Nat /\ 4 * steps <= off - dp
        <3>1. off - dp + 4 <= fpLen /\ dp <= off /\ os <= len /\ 4 * steps <= off - dp
            BY <2>2, <2>3 DEF WalkInv, Places, AtHeader, CheckBounds, PathOff, DevPathHeaderSize, Types
        <3>2. 8 <= dp /\ steps \in Nat
            BY DEF WalkInv, Types, DpStart, Prefix
        <3> QED BY <2>3, <3>1, <3>2
    <2>5. \A r \in HeaderReads : 0 <= r[1] /\ r[1] <= r[2] /\ r[2] <= os
        BY <2>3, <2>4 DEF HeaderReads
    <2>6. CASE BadHeader(h)
        <3>1. \A r \in HeaderReads : r[2] <= len
            BY <2>3, <2>4 DEF HeaderReads
        <3> QED BY <2>5, <2>6, <3>1, FailWalkInv DEF BadHeader
    <2>7. CASE WalkNode(h) \/ WalkEnd(h)
        <3>1. 4 <= h.len /\ off + h.len <= os
            BY <2>1, <2>3, <2>4, <2>7 DEF WalkNode, WalkEnd, NodeFits, CheckBounds, PathOff, DevPathHeaderSize
        <3>2. \A r \in NodeReads(h) : 0 <= r[1] /\ r[1] <= r[2] /\ r[2] <= os
            BY <2>1, <2>3, <2>4, <2>5, <3>1 DEF NodeReads, DevPathHeaderSize
        <3>3. Types'
            <4>1. h.len - 4 \in Nat /\ len - os \in Nat /\ off + h.len \in Nat
                BY <2>1, <2>3, <2>4, <3>1
            <4>2. [kind |-> h.kind, data |-> h.len - 4] \in Node
                BY <2>1, <4>1 DEF Node
            <4>3. CASE WalkNode(h)
                BY <4>1, <4>2, <4>3 DEF WalkInv, Types, WalkNode, DevPathHeaderSize, input
            <4>4. CASE WalkEnd(h)
                BY <2>1, <4>1, <4>4 DEF WalkInv, Types, WalkEnd, input
            <4> QED BY <2>7, <4>3, <4>4
        <3>4. DpStart' = dp /\ OptStart' = os /\ len' = len
            BY <2>7 DEF WalkNode, WalkEnd, DpStart, OptStart, input
        <3>5. Places'
            <4>1. steps' = steps + 1 /\ off' = off + h.len
                BY <2>7 DEF WalkNode, WalkEnd
            <4>0. PathOff' = (off + h.len) - dp
                <5>1. PathOff' = off' - DpStart'
                    BY DEF PathOff
                <5> QED BY <3>4, <4>1, <5>1
            <4>2. pc' \in {"path", "done"}
                BY <2>2, <2>7 DEF WalkNode, WalkEnd
            <4>3. 4 * steps' <= PathOff' /\ DpStart' <= off' /\ off' <= OptStart' /\ OptStart' <= len'
                BY <2>1, <2>3, <2>4, <3>1, <3>4, <4>0, <4>1
            <4> QED BY <4>2, <4>3 DEF Places, DevPathHeaderSize
        <3>6. ReadsInBounds'
            <4>1. \A r \in reads' : 0 <= r[1] /\ r[1] <= r[2] /\ (r[2] <= os \/ r = <<os, len>>)
                BY <2>3, <2>4, <2>7, <3>2 DEF WalkNode, WalkEnd
            <4> HIDE DEF dp, os
            <4>2. \A r \in reads' : r[2] <= os => r[2] <= len
                <5>1. \A r \in NodeReads(h) : r[2] <= len
                    BY <2>1, <2>3, <2>4, <3>1 DEF NodeReads, HeaderReads, DevPathHeaderSize
                <5> QED BY <2>3, <2>7, <5>1 DEF WalkNode, WalkEnd, os
            <4> QED BY <2>3, <2>4, <3>4, <4>1, <4>2 DEF ReadsInBounds
        <3> QED BY <3>3, <3>5, <3>6 DEF WalkInv
    <2> QED BY <1>2, <2>6, <2>7
<1> QED BY <1>1, <1>2

LEMMA NextWalkInv == WalkInv /\ [Next]_vars => WalkInv'
<1> SUFFICES ASSUME WalkInv, [Next]_vars PROVE WalkInv'
    OBVIOUS
<1>1. CASE Reencode
    <2>1. Result \in Option /\ None \notin Option
        BY ResultIsOption, OptionsAssumption DEF WalkInv
    <2>2. Types'
        <3>1. desc' \in Seq(Unit) /\ nodes' \in Seq(Node) /\ img' \in Seq([at : Nat, node : Node])
            BY <1>1 DEF Reencode
        <3> QED BY <1>1, <2>1, <3>1 DEF Reencode, WalkInv, Types
    <2>3. Places' /\ ReadsInBounds'
        BY <1>1, <2>1 DEF Reencode, Places, Untouched, ReadsInBounds
    <2> QED BY <2>2, <2>3 DEF WalkInv
<1>2. CASE UNCHANGED vars
    BY <1>2 DEF vars, WalkInv, Types, Places, Untouched, ReadsInBounds, DpStart, OptStart, PathOff
<1> QED BY <1>1, <1>2, EncodeWalkInv, ScanWalkInv, PathWalkInv DEF Next

\* Every slice that ParseLoadOption and ParseDevicePath take, of any blob, is
\* inside it and inside the declared path.
THEOREM ReadsStayInBounds == Spec => []ReadsInBounds
<1>1. WalkInv => ReadsInBounds
    BY DEF WalkInv
<1> QED BY <1>1, InitWalkInv, NextWalkInv, PTL DEF Spec

\* The guards of the two loops never end them: a scan of b takes at most
\* len(b) iterations and a walk at most one per node header that fits.
THEOREM GuardsAreSlack == Spec => []GuardNeverTrips
<1>1. WalkInv => GuardNeverTrips
    <2> SUFFICES ASSUME WalkInv PROVE GuardNeverTrips
        OBVIOUS
    <2>1. CASE pc = "desc"
        BY <2>1 DEF WalkInv, Types, Places, GuardNeverTrips, GuardTrips, Prefix
    <2>2. CASE pc = "path"
        <3>1. PathOff <= fpLen /\ PathOff \in Int /\ steps \in Nat /\ fpLen \in Nat /\ 4 * steps <= PathOff
            BY <2>2 DEF WalkInv, Types, Places, PathOff, OptStart, DpStart, Prefix, DevPathHeaderSize
        <3> QED BY <2>2, <3>1 DEF GuardNeverTrips, GuardTrips, DevPathHeaderSize
    <2> QED BY <2>1, <2>2 DEF GuardNeverTrips
<1> QED BY <1>1, InitWalkInv, NextWalkInv, PTL DEF Spec

-----------------------------------------------------------------------------
(***************************************************************************)
(* The round trip.  The nodes are laid out back to back, so the offset of  *)
(* the walk tells which node it is at.                                     *)
(***************************************************************************)

\* The offset of node k, and of the terminator behind the last one.
At(k) == IF k <= Len(img) THEN img[k].at ELSE size

Laid ==
    lo # None =>
        /\ Len(img) <= Len(lo.nodes)
        /\ \A k \in 1 .. Len(img) : img[k].node = lo.nodes[k] /\ ~BadNode(lo.nodes[k])
        /\ At(1) = 0
        /\ \A k \in 1 .. Len(img) : At(k + 1) = At(k) + NodeLen(lo.nodes[k])
        /\ \A i, j \in 1 .. Len(img) + 1 : i < j => At(i) < At(j)

Encoded ==
    lo # None /\ pc \in {"header", "desc", "path", "done", "err"} =>
        /\ Len(img) = Len(lo.nodes) /\ fpLen = PathLen /\ len = EncodedLen
        /\ pc \in {"desc", "path", "done"} => len <= MaxLoadOptionBytes

\* The code units and the nodes read so far are those of lo.
SameDesc ==
    Len(desc) <= Len(lo.desc) /\ \A k \in 1 .. Len(desc) : desc[k] = Clean(lo.desc[k])

SameNodes ==
    Len(nodes) <= Len(lo.nodes) /\ \A k \in 1 .. Len(nodes) : nodes[k] = lo.nodes[k]

Tracks ==
    lo # None /\ NulFree(lo.desc) =>
        /\ pc \in {"desc", "path", "done"} => SameDesc /\ SameNodes
        /\ pc \in {"path", "done"} => Len(desc) = Len(lo.desc)
        /\ pc = "path" => lo.nodes # <<>> /\ PathOff = At(Len(nodes) + 1)
        /\ pc = "done" => Len(nodes) = Len(lo.nodes) /\ opt = lo.opt
        /\ pc = "err" => len > MaxLoadOptionBytes

TripInv == WalkInv /\ Laid /\ Encoded /\ Tracks

\* Nothing is laid out yet, and nothing is read.
LEMMA EmptyLaid ==
    ASSUME lo \in Option \cup {None}, img = <<>>, size = 0, pc = "marshal" \/ lo = None
    PROVE  Laid /\ Encoded /\ Tracks
<1>1. lo # None => Len(lo.nodes) \in Nat
    BY DEF Option
<1>2. Laid
    BY <1>1 DEF Laid, At
<1> QED BY <1>2 DEF Encoded, Tracks

LEMMA InitTripInv == Init => TripInv
<1> SUFFICES ASSUME Init PROVE TripInv
    OBVIOUS
<1>1. lo \in Option \cup {None} /\ img = <<>> /\ size = 0 /\ (pc = "marshal" \/ lo = None)
    BY OptionsAssumption DEF Init
<1> QED BY <1>1, EmptyLaid, InitWalkInv DEF TripInv

\* The layout depends on nothing but the option and what is written of it.
LEMMA LaidKept == ASSUME Laid, UNCHANGED <<lo, img, size>> PROVE Laid'
BY SMTT(30) DEF Laid, At

LEMMA EncodeTripInv ==
    ASSUME TripInv, EncodeNode \/ EncodeOption \/ Refuse PROVE TripInv'
<1>0. /\ WalkInv' /\ pc = "marshal" /\ lo \in Option /\ lo # None /\ lo' = lo
      /\ size \in Nat /\ img \in Seq([at : Nat, node : Node])
    BY EncodeWalkInv, OptionsAssumption
       DEF TripInv, WalkInv, Places, Types, Encoding, EncodeNode, EncodeOption, Refuse, input
<1>1. CASE EncodeNode
    <2>0. PICK n \in Nat : n = Len(img)
        BY <1>0
    <2>1. n \in Nat /\ n < Len(lo.nodes) /\ Current = lo.nodes[n + 1] /\ ~BadNode(Current)
        BY <1>0, <1>1, <2>0 DEF EncodeNode, Encoding, Current
    <2>2. Current \in Node
        BY <1>0, <2>1 DEF Option
    <2>3. NodeLen(Current) \in Nat /\ NodeLen(Current) > 0
        BY <2>2 DEF Node, NodeLen, DevPathHeaderSize
    <2>4. /\ Len(img') = n + 1 /\ size' = size + NodeLen(Current)
          /\ \A k \in 1 .. n : img'[k] = img[k]
          /\ img'[n + 1] = [at |-> size, node |-> Current]
        <3>1. [at |-> size, node |-> Current] \in [at : Nat, node : Node]
            BY <1>0, <2>2
        <3> QED BY <1>0, <1>1, <2>0, <3>1, AppendProperties DEF EncodeNode
    <2>5. /\ \A k \in 1 .. n + 1 : At(k)' = At(k)
          /\ At(n + 1) = size /\ At(n + 2)' = size + NodeLen(Current)
        BY <2>0, <2>1, <2>4 DEF At
    <2>6. \A k \in 1 .. n + 1 : At(k) \in Nat
        <3>1. \A k \in 1 .. n : img[k] \in [at : Nat, node : Node]
            BY <1>0, <2>0, ElementOfSeq, ZenonT(60)
        <3> QED BY <1>0, <2>0, <2>1, <3>1 DEF At
    <2>7. Laid'
        <3>0. Laid
            BY DEF TripInv
        <3>1. Len(img') <= Len(lo'.nodes)
            BY <1>0, <2>1, <2>4 DEF Option
        <3>2. \A k \in 1 .. Len(img') : img'[k].node = lo'.nodes[k] /\ ~BadNode(lo'.nodes[k])
            <4>1. \A k \in 1 .. n : img[k].node = lo.nodes[k] /\ ~BadNode(lo.nodes[k])
                BY <1>0, <2>0, <3>0 DEF Laid
            <4>2. img'[n + 1].node = lo.nodes[n + 1] /\ ~BadNode(lo.nodes[n + 1])
                BY <2>1, <2>4
            <4> TAKE k \in 1 .. Len(img')
            <4>3. k \in 1 .. n \/ k = n + 1
                BY <2>1, <2>4
            <4>4. CASE k \in 1 .. n
                BY <1>0, <2>4, <4>1, <4>4, SMTT(90)
            <4>5. CASE k = n + 1
                BY <1>0, <4>2, <4>5
            <4> QED BY <4>3, <4>4, <4>5
        <3>3. At(1)' = 0
            BY <1>0, <2>1, <2>5, <3>0 DEF Laid
        <3>4. \A k \in 1 .. n + 1 : At(k + 1)' = At(k)' + NodeLen(lo.nodes[k])
            <4> TAKE k \in 1 .. n + 1
            <4>1. CASE k = n + 1
                BY <4>1, <2>1, <2>5
            <4>2. CASE k \in 1 .. n
                <5>1. At(k + 1) = At(k) + NodeLen(lo.nodes[k])
                    BY <1>0, <2>0, <3>0, <4>2, Zenon DEF Laid
                <5> QED BY <2>1, <2>5, <4>2, <5>1
            <4> QED BY <2>1, <4>1, <4>2
        <3>5. \A i, j \in 1 .. n + 2 : i < j => At(i)' < At(j)'
            <4> TAKE i, j \in 1 .. n + 2
            <4> HAVE i < j
            <4>1. \A a, b \in 1 .. n + 1 : a < b => At(a) < At(b)
                BY <1>0, <2>0, <3>0 DEF Laid
            <4>2. CASE j = n + 2
                <5>1. i \in 1 .. n + 1 /\ n + 1 \in 1 .. n + 1
                    BY <2>1, <4>2
                <5>2. At(i) <= At(n + 1)
                    BY <2>1, <2>6, <4>1, <5>1, SMTT(30)
                <5> QED BY <1>0, <2>3, <2>5, <2>6, <4>2, <5>1, <5>2
            <4>3. CASE j # n + 2
                BY <2>1, <2>5, <4>1, <4>3
            <4> QED BY <4>2, <4>3
        <3>6. /\ \A k \in 1 .. Len(img') : At(k + 1)' = At(k)' + NodeLen(lo'.nodes[k])
              /\ \A i, j \in 1 .. Len(img') + 1 : i < j => At(i)' < At(j)'
            <4>1. Len(img') = n + 1 /\ Len(img') + 1 = n + 2
                BY <2>1, <2>4
            <4> QED BY <1>0, <3>4, <3>5, <4>1
        <3> QED BY <3>1, <3>2, <3>3, <3>6 DEF Laid
    <2> QED BY <1>0, <1>1, <2>7, Zenon DEF TripInv, EncodeNode, Encoded, Tracks
<1>2. CASE EncodeOption
    <2>1. Laid'
        BY <1>2, LaidKept DEF TripInv, EncodeOption
    <2>2. PathLen' = PathLen /\ EncodedLen' = EncodedLen
        BY <1>2 DEF EncodeOption, PathLen, EncodedLen
    <2> QED BY <1>0, <1>2, <2>1, <2>2 DEF TripInv, EncodeOption, Encoded, Tracks
<1>3. CASE Refuse
    <2>1. Laid'
        BY <1>3, LaidKept DEF TripInv, Refuse, input
    <2> QED BY <1>0, <1>3, <2>1 DEF TripInv, Refuse, Encoded, Tracks
<1> QED BY <1>1, <1>2, <1>3

\* A step of the parser leaves the option and its encoding alone.
LEMMA ParserKeeps ==
    ASSUME TripInv, UNCHANGED input, pc \in {"header", "desc", "path"},
           pc' \in {"desc", "path", "done", "err"},
           pc' \in {"desc", "path", "done"} => pc # "header" \/ len <= MaxLoadOptionBytes
    PROVE  Laid' /\ Encoded'
<1>1. Laid'
    BY LaidKept DEF TripInv, input
<1>2. PathLen' = PathLen /\ EncodedLen' = EncodedLen
    BY DEF PathLen, EncodedLen, input
<1>3. Encoded'
    BY <1>2 DEF TripInv, Encoded, input
<1> QED BY <1>1, <1>3

\* The lengths of an encoded option.
LEMMA EncodedLens ==
    ASSUME TripInv, lo # None, pc \in {"header", "desc", "path"}
    PROVE  /\ lo \in Option /\ Len(lo.desc) \in Nat /\ Len(lo.nodes) \in Nat /\ lo.opt \in Nat
           /\ fpLen \in Nat /\ len = 6 + 2 * (Len(lo.desc) + 1) + fpLen + lo.opt
           /\ lo.nodes = <<>> => fpLen = 0
           /\ lo.nodes # <<>> => fpLen = size + 4 /\ size \in Nat
<1>1. lo \in Option /\ Len(lo.desc) \in Nat /\ Len(lo.nodes) \in Nat /\ lo.opt \in Nat
    BY DEF TripInv, WalkInv, Types, Option
<1>2. fpLen = PathLen /\ len = EncodedLen /\ fpLen \in Nat /\ size \in Nat
    BY DEF TripInv, WalkInv, Types, Encoded
<1> QED BY <1>1, <1>2 DEF PathLen, EncodedLen, Prefix, DevPathHeaderSize

LEMMA ScanTripInv ==
    ASSUME TripInv, Header \/ ScanFails \/ ScanNul \/ \E u \in UnitHere : ScanUnit(u)
    PROVE  TripInv'
<1>0. WalkInv'
    BY ScanWalkInv DEF TripInv
<1>1. CASE Header
    <2>1. pc = "header" /\ UNCHANGED input /\ desc' = desc /\ nodes' = nodes /\ Untouched
        BY <1>1 DEF Header, Fail, TripInv, WalkInv, Places
    <2>2. /\ pc' \in {"desc", "err"} /\ (pc' = "desc" => len <= MaxLoadOptionBytes)
          /\ pc' = "err" => len > MaxLoadOptionBytes \/ len < 6
        BY <1>1, LoadOptionAssumption DEF Header, Fail, CheckBounds, Prefix, TripInv, WalkInv, Types
    <2>3. Laid' /\ Encoded'
        BY <2>1, <2>2, ParserKeeps
    <2>4. Tracks'
        <3> SUFFICES ASSUME lo # None PROVE Tracks'
            BY <2>1 DEF Tracks, input
        <3>1. len >= 6 /\ Len(lo.desc) \in Nat /\ Len(lo.nodes) \in Nat
            BY <2>1, EncodedLens, SMTT(30)
        <3>2. (SameDesc /\ SameNodes)'
            BY <2>1, <3>1 DEF SameDesc, SameNodes, Untouched, input
        <3>3. ~(len < 6)
            BY <3>1 DEF TripInv, WalkInv, Types
        <3> QED BY <2>1, <2>2, <3>2, <3>3 DEF Tracks, input
    <2> QED BY <1>0, <2>3, <2>4 DEF TripInv
<1>5. ASSUME pc = "desc", lo # None, NulFree(lo.desc)
      PROVE  /\ CanScan /\ SameDesc /\ nodes = <<>>
             /\ Len(desc) < Len(lo.desc) => "nul" \notin UnitHere
             /\ Len(desc) = Len(lo.desc) => UnitHere = {"nul"}
             /\ Len(desc) \in Nat /\ off = 6 + 2 * Len(desc)
    <2>1. Len(desc) \in Nat /\ off = 6 + 2 * Len(desc) /\ nodes = <<>> /\ SameDesc
        BY <1>5 DEF TripInv, WalkInv, Types, Places, Prefix, Tracks
    <2>2. off + 2 <= len
        BY <1>5, <2>1, EncodedLens, SMTT(30) DEF SameDesc
    <2>3. ~GuardTrips(steps, len + 1)
        BY <1>5, <2>1, <2>2 DEF TripInv, WalkInv, Types, Places, GuardTrips
    <2>4. Len(desc) < Len(lo.desc) => "nul" \notin UnitHere
        <3> SUFFICES ASSUME Len(desc) < Len(lo.desc) PROVE "nul" \notin UnitHere
            OBVIOUS
        <3>1. lo.desc \in Seq(Unit) /\ Len(desc) + 1 \in 1 .. Len(lo.desc)
            BY <1>5, <2>1, EncodedLens DEF Option
        <3>2. lo.desc[Len(desc) + 1] # "nul"
            BY <1>5, <3>1 DEF NulFree
        <3> QED BY <1>5, <3>1, <3>2 DEF UnitHere, Clean
    <2>5. Len(desc) = Len(lo.desc) => UnitHere = {"nul"}
        BY <1>5, <2>1 DEF UnitHere
    <2> QED BY <2>1, <2>2, <2>3, <2>4, <2>5 DEF CanScan
<1>2. CASE ScanFails
    <2>1. pc = "desc" /\ pc' = "err" /\ UNCHANGED input /\ ~CanScan
        BY <1>2 DEF ScanFails, Fail
    <2>2. Laid' /\ Encoded'
        BY <2>1, ParserKeeps
    <2>3. Tracks'
        BY <1>5, <2>1 DEF Tracks, input
    <2> QED BY <1>0, <2>2, <2>3 DEF TripInv
<1>3. ASSUME NEW u \in UnitHere, ScanUnit(u) PROVE TripInv'
    <2>1. pc = "desc" /\ pc' = "desc" /\ UNCHANGED input /\ u # "nul" /\ nodes' = nodes
        BY <1>3 DEF ScanUnit
    <2>2. Laid' /\ Encoded'
        BY <2>1, ParserKeeps
    <2>3. Tracks'
        <3> SUFFICES ASSUME lo # None, NulFree(lo.desc) PROVE (SameDesc /\ SameNodes)'
            BY <2>1 DEF Tracks, input
        <3>1. Len(desc) < Len(lo.desc) /\ SameDesc /\ nodes = <<>> /\ Len(desc) \in Nat /\ Len(lo.nodes) \in Nat
            <4>1. Len(desc) # Len(lo.desc)
                BY <1>3, <1>5, <2>1
            <4> QED BY <1>5, <2>1, <4>1, EncodedLens DEF SameDesc
        <3>2. u = Clean(lo.desc[Len(desc) + 1])
            BY <3>1, EncodedLens, <2>1 DEF UnitHere
        <3>3. desc \in Seq(Unit) /\ desc' = Append(desc, u)
            BY <1>3 DEF ScanUnit, TripInv, WalkInv, Types
        <3>4. /\ Len(desc') = Len(desc) + 1 /\ desc'[Len(desc) + 1] = u
              /\ \A k \in 1 .. Len(desc) : desc'[k] = desc[k]
            BY <3>3
        <3>5. SameDesc'
            BY <2>1, <3>1, <3>2, <3>4, EncodedLens, SMTT(30) DEF SameDesc, input
        <3> QED BY <2>1, <3>1, <3>5 DEF SameNodes, input
    <2> QED BY <1>0, <2>2, <2>3 DEF TripInv
<1>4. CASE ScanNul
    <2>1. /\ pc = "desc" /\ pc' \in {"path", "done", "err"} /\ UNCHANGED input
          /\ "nul" \in UnitHere /\ desc' = desc /\ nodes' = nodes
        BY <1>4 DEF ScanNul, Fail
    <2>2. Laid' /\ Encoded'
        BY <2>1, ParserKeeps
    <2>3. Tracks'
        <3> SUFFICES ASSUME lo # None, NulFree(lo.desc) PROVE Tracks'
            BY <2>1 DEF Tracks, input
        <3>1. /\ SameDesc /\ nodes = <<>> /\ Len(desc) = Len(lo.desc)
              /\ Len(desc) \in Nat
            BY <1>5, <2>1, EncodedLens DEF SameDesc
        <3>2. /\ DpStart \in Nat /\ OptStart = DpStart + fpLen /\ fpLen \in Nat /\ lo.opt \in Nat
              /\ len = OptStart + lo.opt /\ len \in Nat
            BY <2>1, <3>1, EncodedLens DEF DpStart, OptStart, Prefix
        <3>3. PathFits
            BY <3>2 DEF PathFits, CheckBounds
        <3>4. /\ fpLen = 0 => pc' = "done" /\ opt' = lo.opt
              /\ fpLen # 0 => pc' = "path" /\ PathOff' = 0
            <4>1. DpStart' = DpStart
                BY <2>1 DEF DpStart
            <4> QED BY <1>4, <3>2, <3>3, <4>1 DEF ScanNul, PathOff
        <3>5. fpLen = 0 <=> lo.nodes = <<>>
            BY <2>1, EncodedLens
        <3>6. SameDesc' /\ SameNodes'
            BY <2>1, <3>1, EncodedLens DEF SameDesc, SameNodes, input
        <3>7. At(1)' = 0 /\ Len(nodes') + 1 = 1
            <4>1. At(1)' = 0
                BY <2>1, <2>2, Zenon DEF Laid, input
            <4>2. Len(nodes') = 0
                BY <2>1, <3>1
            <4> QED BY <4>1, <4>2
        <3> QED BY <2>1, <3>1, <3>4, <3>5, <3>6, <3>7 DEF Tracks, input
    <2> QED BY <1>0, <2>2, <2>3 DEF TripInv
<1> QED BY <1>1, <1>2, <1>3, <1>4

\* The header at the offset of node j is node j's, or the terminator's behind
\* the last node; it is inside the path, and so is the node.
LEMMA HeaderAtNode ==
    ASSUME TripInv, lo # None, pc = "path", NulFree(lo.desc)
    PROVE  LET j == Len(nodes) + 1
           IN  /\ AtHeader
               /\ j <= Len(lo.nodes) =>
                     /\ HeaderHere = {[kind |-> lo.nodes[j].kind, len |-> NodeLen(lo.nodes[j])]}
                     /\ lo.nodes[j] \in Node /\ lo.nodes[j].kind # "end"
                     /\ PathOff + NodeLen(lo.nodes[j]) = At(j + 1)
                     /\ PathOff + NodeLen(lo.nodes[j]) <= size
               /\ j > Len(lo.nodes) =>
                     HeaderHere = {[kind |-> "end", len |-> DevPathHeaderSize]} /\ PathOff <= size
<1> DEFINE j == Len(nodes) + 1
           n == Len(img)
<1>1. /\ n \in Nat /\ n = Len(lo.nodes) /\ j \in 1 .. n + 1 /\ PathOff = At(j)
      /\ Len(desc) = Len(lo.desc) /\ fpLen = size + 4 /\ size \in Nat /\ fpLen \in Nat
      /\ lo.nodes \in Seq(Node)
    <2>1. Len(nodes) \in Nat /\ n \in Nat
        BY DEF TripInv, WalkInv, Types
    <2>2. /\ Len(nodes) <= Len(lo.nodes) /\ PathOff = At(j) /\ Len(desc) = Len(lo.desc)
          /\ lo.nodes # <<>>
        BY Zenon DEF TripInv, Tracks, SameNodes
    <2>3. n = Len(lo.nodes)
        BY DEF TripInv, Encoded
    <2> QED BY <2>1, <2>2, <2>3, EncodedLens DEF Option
<1>2. \A i, k \in 1 .. n + 1 : i < k => At(i) < At(k)
    BY DEF TripInv, Laid
<1>3. \A k \in 1 .. n : /\ img[k].node = lo.nodes[k] /\ ~BadNode(lo.nodes[k])
                        /\ At(k + 1) = At(k) + NodeLen(lo.nodes[k])
    BY DEF TripInv, Laid
<1>4. At(n + 1) = size /\ \A k \in 1 .. n : At(k) = img[k].at
    BY <1>1 DEF At
<1>5. \A k \in 1 .. n + 1 : At(k) \in Nat
    <2>1. \A k \in 1 .. n : img[k] \in [at : Nat, node : Node]
        BY ElementOfSeq, Zenon DEF TripInv, WalkInv, Types
    <2> TAKE k \in 1 .. n + 1
    <2>2. CASE k = n + 1
        BY <1>1, <1>4, <2>2
    <2>3. CASE k \in 1 .. n
        BY <1>4, <2>1, <2>3
    <2> QED BY <1>1, <2>2, <2>3
<1> HIDE DEF j, n
<1>6. \A k \in 1 .. n + 1 : At(k) <= size
    <2> TAKE k \in 1 .. n + 1
    <2>1. k < n + 1 => At(k) < At(n + 1)
        BY <1>1, <1>2
    <2>2. k = n + 1 \/ k < n + 1
        BY <1>1
    <2> QED BY <1>1, <1>4, <1>5, <2>1, <2>2
<1>7. AtHeader
    <2>1. fpLen <= MaxDevicePathBytes
        BY LoadOptionAssumption DEF TripInv, WalkInv, Types
    <2>2. ~GuardTrips(steps, fpLen + 1)
        <3>1. 4 * steps <= PathOff /\ steps \in Nat
            BY DEF TripInv, WalkInv, Types, Places, DevPathHeaderSize
        <3> QED BY <1>1, <1>5, <1>6, <3>1 DEF GuardTrips
    <2>3. CheckBounds(PathOff, DevPathHeaderSize, fpLen)
        BY <1>1, <1>5, <1>6 DEF CheckBounds, DevPathHeaderSize
    <2> QED BY <2>1, <2>2, <2>3 DEF AtHeader
<1>8. \A k \in 1 .. n : img[k].at = PathOff <=> k = j
    <2> TAKE k \in 1 .. n
    <2>1. k < j => At(k) < At(j)
        BY <1>1, <1>2
    <2>2. j < k => At(j) < At(k)
        BY <1>1, <1>2
    <2>3. k = j \/ k < j \/ j < k
        BY <1>1
    <2> QED BY <1>1, <1>4, <1>5, <2>1, <2>2, <2>3
<1>9. ASSUME j <= n
      PROVE  /\ HeaderHere = {[kind |-> lo.nodes[j].kind, len |-> NodeLen(lo.nodes[j])]}
             /\ lo.nodes[j] \in Node /\ lo.nodes[j].kind # "end"
             /\ PathOff + NodeLen(lo.nodes[j]) = At(j + 1)
             /\ PathOff + NodeLen(lo.nodes[j]) <= size
    <2>1. j \in 1 .. n /\ j + 1 \in 1 .. n + 1
        BY <1>1, <1>9
    <2>2. {k \in 1 .. n : img[k].at = PathOff} = {j}
        BY <1>8, <2>1
    <2>3. HeaderHere = {[kind |-> img[j].node.kind, len |-> NodeLen(img[j].node)]}
        BY <1>1, <2>2 DEF HeaderHere, n
    <2>4. lo.nodes[j] \in Node /\ lo.nodes[j].kind # "end"
        BY <1>1, <1>3, <2>1, ElementOfSeq DEF BadNode
    <2> QED BY <1>1, <1>3, <1>6, <2>1, <2>3, <2>4
<1>10. ASSUME j > n
       PROVE  HeaderHere = {[kind |-> "end", len |-> DevPathHeaderSize]} /\ PathOff <= size
    <2>1. {k \in 1 .. n : img[k].at = PathOff} = {}
        BY <1>1, <1>8, <1>10
    <2>2. HeaderHere = {[kind |-> "end", len |-> DevPathHeaderSize]}
        BY <1>1, <2>1, Zenon DEF HeaderHere, n
    <2> QED BY <1>1, <1>6, <2>2
<1> QED BY <1>1, <1>7, <1>9, <1>10 DEF j

LEMMA FourMore ==
    ASSUME NEW d \in Nat, NEW l, l = 4 + d
    PROVE  l \in Nat /\ l >= 4 /\ l - 4 = d
OBVIOUS

LEMMA TwoMore == ASSUME NEW n \in Nat PROVE (n + 1) + 1 = n + 2
OBVIOUS

LEMMA Trichotomy == ASSUME NEW m \in Nat, NEW n \in Nat PROVE m + 1 <= n \/ m + 1 > n
OBVIOUS

LEMMA BothOneMore == ASSUME NEW m \in Nat, NEW n \in Nat, m <= n PROVE m + 1 <= n + 1
OBVIOUS

LEMMA SameDescKept == ASSUME SameDesc, desc' = desc, lo' = lo PROVE SameDesc'
BY DEF SameDesc

LEMMA SameNodesKept == ASSUME SameNodes, nodes' = nodes, lo' = lo PROVE SameNodes'
BY DEF SameNodes

LEMMA SameNodesGrows ==
    ASSUME SameNodes, lo' = lo, Len(lo.nodes) \in Nat, NEW m \in Nat, m = Len(nodes),
           m + 1 <= Len(lo.nodes), Len(nodes') = m + 1, nodes'[m + 1] = lo.nodes[m + 1],
           \A k \in 1 .. m : nodes'[k] = nodes[k]
    PROVE  SameNodes'
<1>1. \A k \in 1 .. m + 1 : k \in 1 .. m \/ k = m + 1
    OBVIOUS
<1>2. \A k \in 1 .. m : nodes[k] = lo.nodes[k]
    BY DEF SameNodes
<1>3. \A k \in 1 .. m + 1 : nodes'[k] = lo.nodes[k]
    BY <1>1, <1>2, Zenon
<1> QED BY <1>3 DEF SameNodes

LEMMA PathTripInv ==
    ASSUME TripInv,
           HeaderFails \/ \E h \in HeaderHere : BadHeader(h) \/ WalkNode(h) \/ WalkEnd(h)
    PROVE  TripInv'
<1>0. WalkInv'
    BY PathWalkInv DEF TripInv
<1>1. /\ pc = "path" /\ pc' \in {"path", "done", "err"} /\ UNCHANGED input
      /\ desc' = desc
    BY ZenonT(60) DEF HeaderFails, BadHeader, WalkNode, WalkEnd, Fail
<1>2. Laid' /\ Encoded'
    BY <1>1, ParserKeeps
<1>3. Tracks'
    <2> SUFFICES ASSUME lo # None, NulFree(lo.desc) PROVE Tracks'
        BY <1>1, Zenon DEF Tracks, input
    <2> DEFINE j == Len(nodes) + 1
    <2>1. /\ SameDesc /\ SameNodes /\ Len(desc) = Len(lo.desc) /\ lo.nodes # <<>>
          /\ PathOff = At(j) /\ Len(nodes) \in Nat /\ j <= Len(lo.nodes) + 1
          /\ Len(lo.nodes) \in Nat /\ nodes \in Seq(Node)
        <3>1. /\ SameDesc /\ SameNodes /\ Len(desc) = Len(lo.desc) /\ lo.nodes # <<>>
              /\ PathOff = At(j) /\ Len(nodes) <= Len(lo.nodes)
            BY <1>1 DEF TripInv, Tracks, SameNodes
        <3>2. nodes \in Seq(Node) /\ Len(nodes) \in Nat
            BY DEF TripInv, WalkInv, Types
        <3>3. Len(lo.nodes) \in Nat
            BY <1>1, EncodedLens
        <3>4. Len(nodes) + 1 <= Len(lo.nodes) + 1
            BY <3>1, <3>2, <3>3, BothOneMore, ZenonT(60)
        <3> QED BY <3>1, <3>2, <3>3, <3>4, ZenonT(60)
    <2>2. PICK h \in HeaderHere : BadHeader(h) \/ WalkNode(h) \/ WalkEnd(h)
        <3>1. AtHeader
            BY <1>1, HeaderAtNode, ZenonT(60)
        <3> QED BY <3>1, Zenon DEF HeaderFails
    <2>3. /\ fpLen = size + 4 /\ size \in Nat /\ PathOff \in Nat
          /\ DpStart \in Nat /\ off \in Nat /\ off = DpStart + PathOff
        <3>1. DpStart \in Nat /\ off \in Nat /\ DpStart <= off
            BY <1>1 DEF TripInv, WalkInv, Types, Places, DpStart, Prefix
        <3> QED BY <1>1, <2>1, <3>1, EncodedLens DEF PathOff
    <2>0. lo' = lo
        BY <1>1, Zenon DEF input
    <2>4. SameDesc'
        BY <1>1, <2>0, <2>1, SameDescKept, ZenonT(60)
    <2>5. CASE j <= Len(lo.nodes)
        <3> DEFINE nd == lo.nodes[j]
        <3>1. /\ h = [kind |-> nd.kind, len |-> NodeLen(nd)] /\ nd \in Node /\ nd.kind # "end"
              /\ PathOff + NodeLen(nd) = At(j + 1) /\ PathOff + NodeLen(nd) <= size
            <4>1. /\ HeaderHere = {[kind |-> nd.kind, len |-> NodeLen(nd)]}
                  /\ nd \in Node /\ nd.kind # "end"
                  /\ PathOff + NodeLen(nd) = At(j + 1) /\ PathOff + NodeLen(nd) <= size
                BY <1>1, <2>5, HeaderAtNode, ZenonT(60)
            <4> HIDE DEF nd
            <4> QED BY <2>2, <4>1, ZenonT(60)
        <3>2. h.kind = nd.kind /\ h.len = 4 + nd.data /\ nd.data \in Nat /\ NodeLen(nd) = h.len
            BY <3>1, ZenonT(60) DEF Node, NodeLen, DevPathHeaderSize
        <3>3. NodeFits(h)
            <4>1. h.len \in Nat /\ h.len >= 4
                BY <3>2, FourMore, Zenon
            <4>2. PathOff + h.len <= size
                BY <3>1, <3>2, ZenonT(60)
            <4> HIDE DEF nd
            <4> QED BY <2>3, <4>1, <4>2 DEF NodeFits, CheckBounds, DevPathHeaderSize
        <3>4. WalkNode(h)
            BY <2>2, <3>1, <3>2, <3>3, ZenonT(60) DEF BadHeader, WalkEnd
        <3>5. [kind |-> h.kind, data |-> h.len - DevPathHeaderSize] = nd
            <4>1. h.len - DevPathHeaderSize = nd.data
                BY <3>2, FourMore, ZenonT(60) DEF DevPathHeaderSize
            <4> QED BY <3>1, <3>2, <4>1 DEF Node
        <3>6. nodes' = Append(nodes, nd) /\ pc' = "path" /\ off' = off + h.len
            BY <1>1, <3>4, <3>5, ZenonT(60) DEF WalkNode
        <3>7. /\ Len(nodes') = Len(nodes) + 1 /\ nodes'[Len(nodes) + 1] = nd
              /\ \A k \in 1 .. Len(nodes) : nodes'[k] = nodes[k]
            <4>1. nodes \in Seq(Node) /\ nd \in Node
                BY <2>1, <3>1, ZenonT(60)
            <4> HIDE DEF nd
            <4> QED BY <3>6, <4>1, AppendProperties
        <3>8. SameNodes'
            BY <2>0, <2>1, <2>5, <3>7, SameNodesGrows, ZenonT(60)
        <3>9. PathOff' = At(Len(nodes) + 2)
            <4>1. DpStart' = DpStart
                BY <1>1 DEF DpStart
            <4>2. PathOff' = (off + h.len) - DpStart
                BY <3>6, <4>1 DEF PathOff
            <4>3. j + 1 = Len(nodes) + 2
                BY <2>1, TwoMore, Zenon
            <4>4. PathOff + h.len = At(Len(nodes) + 2)
                BY <3>1, <3>2, <4>3, Zenon
            <4>5. h.len \in Nat
                BY <3>2, FourMore, ZenonT(60)
            <4> HIDE DEF nd, j
            <4> QED BY <2>3, <4>2, <4>4, <4>5
        <3>10. At(Len(nodes) + 1)' = At(Len(nodes) + 2)
            <4>1. Len(nodes') + 1 = Len(nodes) + 2
                BY <2>1, <3>7
            <4> QED BY <1>1, <4>1 DEF At, input
        <3> QED BY <1>1, <2>1, <2>4, <3>6, <3>8, <3>9, <3>10 DEF Tracks, input
    <2>6. CASE j > Len(lo.nodes)
        <3>1. h = [kind |-> "end", len |-> 4] /\ PathOff <= size
            BY <1>1, <2>2, <2>6, HeaderAtNode DEF DevPathHeaderSize
        <3>2. NodeFits(h)
            BY <2>3, <3>1 DEF NodeFits, CheckBounds, DevPathHeaderSize
        <3>3. WalkEnd(h)
            BY <2>2, <3>1, <3>2 DEF BadHeader, WalkNode
        <3>4. Len(nodes) = Len(lo.nodes)
            BY <2>1, <2>6
        <3>5. len - OptStart = lo.opt
            BY <1>1, <2>1, EncodedLens, SMTT(30) DEF OptStart, DpStart, Prefix
        <3>6. pc' = "done" /\ opt' = lo.opt /\ nodes' = nodes
            BY <3>3, <3>5 DEF WalkEnd
        <3>7. SameNodes'
            BY <2>0, <2>1, <3>6, SameNodesKept, ZenonT(60)
        <3> QED BY <1>1, <2>1, <2>4, <3>4, <3>6, <3>7 DEF Tracks, input
    <2> QED BY <2>1, <2>5, <2>6, Trichotomy, Zenon
<1> QED BY <1>0, <1>2, <1>3 DEF TripInv

LEMMA NextTripInv == TripInv /\ [Next]_vars => TripInv'
<1> SUFFICES ASSUME TripInv, [Next]_vars PROVE TripInv'
    OBVIOUS
<1>0. WalkInv'
    BY NextWalkInv DEF TripInv
<1>1. CASE Reencode
    <2>1. lo' \in Option \cup {None} /\ img' = <<>> /\ size' = 0 /\ pc' = "marshal"
        BY <1>0, <1>1 DEF Reencode, WalkInv, Types
    <2>2. Len(lo'.nodes) \in Nat
        BY <1>1, ResultIsOption DEF Reencode, Option, TripInv, WalkInv
    <2>3. Laid'
        BY <2>1, <2>2 DEF Laid, At
    <2> QED BY <1>0, <2>1, <2>3 DEF TripInv, Encoded, Tracks
<1>2. CASE UNCHANGED vars
    <2>1. Laid' /\ Encoded'
        BY <1>2, LaidKept DEF TripInv, vars, Encoded, PathLen, EncodedLen
    <2>2. Tracks'
        BY <1>2 DEF TripInv, vars, Tracks, SameDesc, SameNodes, PathOff, DpStart, At
    <2> QED BY <1>0, <2>1, <2>2 DEF TripInv
<1> QED BY <1>1, <1>2, EncodeTripInv, ScanTripInv, PathTripInv DEF Next

\* What LoadOption.Marshal encodes, ParseLoadOption reads back: the same nodes
\* and optional data and the description as UTF-16 carries it, unless the
\* description holds a NUL or the encoding is over the parser's ceiling.
THEOREM MarshalRoundTrip == Spec => []MarshalParses
<1>1. TripInv => MarshalParses
    <2> SUFFICES ASSUME TripInv, lo # None, pc \in {"done", "err"} PROVE MarshalParses
        BY DEF MarshalParses
    <2>1. lo \in Option /\ desc \in Seq(Unit) /\ nodes \in Seq(Node) /\ len \in Nat
        BY DEF TripInv, WalkInv, Types
    <2>2. pc = "done" => len <= MaxLoadOptionBytes
        BY DEF TripInv, Encoded
    <2>3. ASSUME len <= MaxLoadOptionBytes, NulFree(lo.desc)
          PROVE  pc = "done" /\ Result = [lo EXCEPT !.desc = Cleaned(@)]
        <3>1. /\ pc = "done" /\ SameDesc /\ SameNodes /\ opt = lo.opt
              /\ Len(desc) = Len(lo.desc) /\ Len(nodes) = Len(lo.nodes)
            BY <2>1, <2>3, LoadOptionAssumption DEF TripInv, Tracks
        <3>2. nodes = lo.nodes
            <4>1. lo.nodes \in Seq(Node)
                BY <2>1 DEF Option
            <4> QED BY <2>1, <3>1, <4>1, SeqEqual DEF SameNodes
        <3>3. Cleaned(desc) = Cleaned(lo.desc)
            <4>1. lo.desc \in Seq(Unit)
                BY <2>1 DEF Option
            <4>2. DOMAIN desc = 1 .. Len(desc) /\ DOMAIN lo.desc = 1 .. Len(desc)
                BY <2>1, <3>1, <4>1
            <4>3. \A k \in 1 .. Len(desc) : Clean(desc[k]) = Clean(lo.desc[k])
                BY <3>1 DEF SameDesc, Clean
            <4> QED BY <4>2, <4>3 DEF Cleaned
        <3> QED BY <2>1, <3>1, <3>2, <3>3 DEF Result, Option
    <2> QED BY <2>1, <2>2, <2>3, LoadOptionAssumption DEF MarshalParses
<1> QED BY <1>1, InitTripInv, NextTripInv, PTL DEF Spec
=============================================================================
