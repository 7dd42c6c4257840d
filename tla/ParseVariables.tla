--------------------------- MODULE ParseVariables ---------------------------
(***************************************************************************)
(* parseVariables / parseOneVariable (uefi.go) walking the variable region *)
(* of a store file whose bytes are arbitrary, as OpenLimits calls them: the *)
(* store header's Size field is clamped to the file first.                 *)
(*                                                                         *)
(* The content of a record header is chosen when the walk reaches it.  The *)
(* walk only moves forward, so no header is read twice and the choice is   *)
(* as good as a file fixed beforehand.                                     *)
(***************************************************************************)
EXTENDS NvFormat

CONSTANTS
    MaxFileSize,   \* Limits.MaxFileSize
    MaxVariables,  \* Limits.MaxVariables
    FileLens,      \* lengths of the files considered
    StoreSizes,    \* values of the store header's Size field considered
    FieldSizes     \* values of a record's NameSize and DataSize considered

ASSUME LimitsAssumption ==
    /\ MaxFileSize \in Nat
    /\ MaxVariables \in Nat

ASSUME InputAssumption ==
    /\ FileLens \subseteq 0 .. MaxFileSize
    /\ StoreSizes \subseteq 0 .. Word - 1
    /\ FieldSizes \subseteq 0 .. Word - 1

VARIABLES
    len,        \* len(data)
    storeOff,   \* offset of the NvVar store header
    storeSize,  \* clamped size of the NvVar store
    auth,       \* records have the authenticated header
    off,        \* offset of the record the walk is at
    steps,      \* calls made to the loop guard
    count,      \* variables collected so far
    reads,      \* slices [lo, hi) of data indexed by the last iteration
    pc          \* "walk", "done" or "toolarge"

input == <<len, storeOff, storeSize, auth>>
vars == <<len, storeOff, storeSize, auth, off, steps, count, reads, pc>>

\* What parseOneVariable finds at an offset.
Header == [start : BOOLEAN, added : BOOLEAN, nameSize : FieldSizes, dataSize : FieldSizes]

-----------------------------------------------------------------------------

\* parseVariables: the end of the region, cut to the file, as a uint32.
End == U32(IF storeOff + storeSize > len THEN len ELSE storeOff + storeSize)

\* Mutant: one call per two full records.
GuardLimitTight == End \div (2 * AuthVarHeaderSize)

\* safeio.NewLoopGuard(int(end) + 1): the calls to Next that succeed.
GuardLimit == End + 1

Init ==
    /\ len \in FileLens
    /\ storeOff \in {0, FvHeaderSize}
    /\ storeOff + StoreHeaderSize <= len
    /\ \E sizeField \in StoreSizes : storeSize = ClampedSize(sizeField, storeOff, len)
    /\ auth \in BOOLEAN
    /\ off = U32(storeOff + StoreHeaderSize)
    /\ steps = 0
    /\ count = 0
    /\ reads = {}
    /\ pc = "walk"

-----------------------------------------------------------------------------

LoopCondition == U32(off + 2) <= End

NextRecord(h) == U32(NextOffset(off, auth, h.nameSize, h.dataSize))

\* The fields of a header that fits, each as the slice the code takes.
FieldReads ==
    LET at(o, n) == <<U32(off + o), U32(off + o) + n>>
        guidAt   == IF auth THEN 44 ELSE 16
        sizesAt  == IF auth THEN 36 ELSE 8
    IN {at(sizesAt, 4), at(sizesAt + 4, 4), <<U32(off + guidAt), U32(off + guidAt + 16)>>}

NameRead(h) ==
    LET nameOff == U32(NameOff(off, auth))
    IN <<nameOff, U32(nameOff + h.nameSize)>>

DataRead(h) ==
    LET dataOff == U32(DataOff(off, auth, h.nameSize))
    IN <<dataOff, U32(dataOff + h.dataSize)>>

\* A record that fits but yields no variable: not VAR_ADDED, an undecodable
\* name, or a payload safeio.MakeBytes refuses.
Ignored(h) ==
    \/ ~h.added
    \/ ~DecodableName(h.nameSize)
    \/ h.dataSize > End

\* Everything parseOneVariable indexes before it returns.
Reads(h) ==
    LET prefix == h.start /\ PrefixFits(off, End)
        header == prefix /\ HeaderFits(off, End, auth)
        body   == header /\ BodyFits(off, End, auth, h.nameSize, h.dataSize) /\ h.added
    IN {<<off, U32(off + 2)>>}
       \cup (IF prefix THEN {<<off + 2, off + 3>>, <<U32(off + 4), U32(off + 4) + 4>>} ELSE {})
       \cup (IF header THEN FieldReads ELSE {})
       \cup (IF body THEN {NameRead(h)} ELSE {})
       \cup (IF body /\ ~Ignored(h) THEN {DataRead(h)} ELSE {})

GuardSpent == steps >= GuardLimit

\* parseOneVariable returns an error: no StartId, or a size out of bounds.
ParseError(h) ==
    \/ ~h.start
    \/ ~RecordFits(off, End, auth, h.nameSize, h.dataSize)

\* Mutant: size errors and the progress check are dropped.
BreaksOnStartIdOnly(h) == GuardSpent \/ ~h.start

\* The loop breaks: guard, parse error, or no forward progress.
Breaks(h) ==
    \/ GuardSpent
    \/ ParseError(h)
    \/ NextRecord(h) <= off
    \/ NextRecord(h) > End

\* Mutant: the offset is not moved and the guard not called.
AdvanceStuck(h) == UNCHANGED <<off, steps>>

\* Bookkeeping of one iteration that goes on to the next record.
Advance(h) ==
    /\ off' = NextRecord(h)
    /\ steps' = steps + 1

LoopExit ==
    /\ pc = "walk"
    /\ ~LoopCondition
    /\ pc' = "done"
    /\ reads' = {}
    /\ UNCHANGED <<input, off, steps, count>>

Break(h) ==
    /\ pc = "walk"
    /\ LoopCondition
    /\ Breaks(h)
    /\ pc' = "done"
    /\ steps' = steps + 1
    /\ reads' = IF GuardSpent THEN {} ELSE Reads(h)
    /\ UNCHANGED <<input, off, count>>

Skip(h) ==
    /\ pc = "walk"
    /\ LoopCondition
    /\ ~Breaks(h)
    /\ Ignored(h)
    /\ Advance(h)
    /\ reads' = Reads(h)
    /\ UNCHANGED <<input, count, pc>>

\* Mutant: one more than the budget.
CollectOneMore(h) ==
    /\ pc = "walk"
    /\ LoopCondition
    /\ ~Breaks(h)
    /\ ~Ignored(h)
    /\ count <= MaxVariables
    /\ count' = count + 1
    /\ Advance(h)
    /\ reads' = Reads(h)
    /\ UNCHANGED <<input, pc>>

Collect(h) ==
    /\ pc = "walk"
    /\ LoopCondition
    /\ ~Breaks(h)
    /\ ~Ignored(h)
    /\ count < MaxVariables
    /\ count' = count + 1
    /\ Advance(h)
    /\ reads' = Reads(h)
    /\ UNCHANGED <<input, pc>>

\* One variable too many: the whole Open fails with safeio.ErrTooLarge.
TooLarge(h) ==
    /\ pc = "walk"
    /\ LoopCondition
    /\ ~Breaks(h)
    /\ ~Ignored(h)
    /\ count >= MaxVariables
    /\ pc' = "toolarge"
    /\ steps' = steps + 1
    /\ reads' = Reads(h)
    /\ UNCHANGED <<input, off, count>>

Returned == pc # "walk" /\ UNCHANGED vars

Next ==
    \/ LoopExit
    \/ \E h \in Header : Break(h) \/ Skip(h) \/ Collect(h) \/ TooLarge(h)
    \/ Returned

\* The walk is straight-line code: it keeps running until it returns.
Spec == Init /\ [][Next]_vars /\ WF_vars(Next)

-----------------------------------------------------------------------------
(***************************************************************************)
(* Properties                                                              *)
(***************************************************************************)

\* The state has the Go types of parseVariables: every uint32 is below Word
\* and the file fits Limits.MaxFileSize.
TypeOK ==
    /\ len \in 0 .. MaxFileSize
    /\ storeOff \in {0, FvHeaderSize}
    /\ storeSize \in 0 .. Word - 1
    /\ auth \in BOOLEAN
    /\ off \in 0 .. Word - 1
    /\ steps \in Nat
    /\ count \in Nat
    /\ pc \in {"walk", "done", "toolarge"}

\* Every slice the parser takes of the file bytes is well formed and inside
\* the file, whatever the header fields say: no index panics
\* (parseOneVariable, "cannot panic").
ReadsInBounds == \A r \in reads : r[1] <= r[2] /\ r[2] <= len

\* The loop guard is only a backstop: forward progress ends the walk before
\* safeio.LoopGuard does, so no variable is dropped because the guard ran out.
GuardNeverTrips == steps <= GuardLimit

\* The walk stays on aligned offsets inside the region and every iteration
\* that goes on has consumed at least a whole record header, so the work is
\* bounded by the region and not by the size fields.
WalkPaysForSteps ==
    pc = "walk" =>
        /\ off % HeaderAlignment = 0
        /\ steps * HdrSize(auth) <= off - (storeOff + StoreHeaderSize)

\* Limits.MaxVariables bounds what is collected, and Open fails with
\* ErrTooLarge only once the budget is used up.
BudgetKept ==
    /\ count <= MaxVariables
    /\ pc = "toolarge" => count = MaxVariables

\* The offset strictly increases and never leaves the region: a parsed record
\* is never parsed again (the "strict forward progress" check).
ForwardProgress == [][off' # off => off' > off /\ off' <= End]_vars

\* The walk ends on every input.
Termination == <>(pc # "walk")
=============================================================================
