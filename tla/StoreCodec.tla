----------------------------- MODULE StoreCodec -----------------------------
(***************************************************************************)
(* A flush followed by a fresh Open: serializeVars and buildStore lay the  *)
(* variables of a handle out in the file, parseVariables walks the result. *)
(* One step is one iteration of either loop.  The file holds no byte that  *)
(* matters but the records of the flush and erased flash behind them.      *)
(***************************************************************************)
EXTENDS VarRecord

CONSTANTS
    MaxFileSize,   \* Limits.MaxFileSize
    MaxVariables,  \* Limits.MaxVariables
    Inputs,        \* the variable lists flushed
    FileLens,      \* lengths of the files considered
    SizeFields     \* values of the store header's Size field considered

ASSUME CodecAssumption ==
    /\ MaxFileSize \in Nat /\ MaxVariables \in Nat
    /\ Inputs \subseteq Seq(Variable)
    /\ FileLens \subseteq 0 .. MaxFileSize
    /\ SizeFields \subseteq 0 .. Word - 1

VARIABLES
    len,        \* length of the file at the flush, and after it
    sizeField,  \* Size field of its store header
    storeOff,   \* of the handle, and of the next Open
    storeSize,  \* of the handle: clamped when the handle was opened
    auth,       \* record layout of the store
    in,         \* the variables flushed
    img,        \* records serialized, each with its offset in the payload
    payload,    \* length of the payload
    off,        \* offset the walk of the next Open is at
    out,        \* the variables that Open collects
    again,      \* length of the payload out would be serialized to
    pc          \* "encode", "parse", "done" or an error

fixed == <<len, sizeField, storeOff, storeSize, auth, in>>
vars == <<len, sizeField, storeOff, storeSize, auth, in, img, payload, off, out, again, pc>>

HeaderEnd == storeOff + StoreHeaderSize

\* The region end of the next Open, which clamps the Size field once more.
End ==
    LET end64 == storeOff + ClampedSize(sizeField, storeOff, len)
    IN U32(IF end64 > len THEN len ELSE end64)

\* The handle was opened on this file when it was at least as long.
Init ==
    /\ len \in FileLens
    /\ sizeField \in SizeFields
    /\ storeOff \in {0, FvHeaderSize}
    /\ HeaderEnd <= len
    /\ \E openLen \in FileLens :
          openLen >= len /\ storeSize = ClampedSize(sizeField, storeOff, openLen)
    /\ auth \in BOOLEAN
    /\ in \in Inputs
    /\ img = <<>> /\ payload = 0
    /\ off = 0 /\ out = <<>> /\ again = 0
    /\ pc = "encode"

-----------------------------------------------------------------------------

\* serializeVars: one more record at the end of the buffer.
EncodeOne ==
    /\ pc = "encode"
    /\ Len(img) < Len(in)
    /\ LET v == in[Len(img) + 1]
       IN /\ img' = Append(img, [at |-> payload, rec |-> Encode(v)])
          /\ payload' = payload + EncodedLen(v, auth)
    /\ UNCHANGED <<fixed, off, out, again, pc>>

\* buildStore: the store must lie inside the file as it is now.
BeyondFile == storeOff + storeSize > len

\* Mutant: the store header is forgotten.
ExceedsWithoutHeader == payload > storeSize

Exceeds == HeaderEnd + payload > storeOff + storeSize

Reject ==
    /\ pc = "encode"
    /\ Len(img) = Len(in)
    /\ BeyondFile \/ Exceeds
    /\ pc' = IF BeyondFile THEN "beyond" ELSE "full"
    /\ UNCHANGED <<fixed, img, payload, off, out, again>>

\* The payload is written behind the store header; the next Open starts there.
Build ==
    /\ pc = "encode"
    /\ Len(img) = Len(in)
    /\ ~BeyondFile /\ ~Exceeds
    /\ off' = U32(HeaderEnd)
    /\ pc' = "parse"
    /\ UNCHANGED <<fixed, img, payload, out, again>>

\* A StartId is where a record was put; the rest of the region is 0xFF.
IsRecord(k) == k \in 1 .. Len(img) /\ HeaderEnd + img[k].at = off

NextRecord(r) == U32(NextOffset(off, auth, r.nameSize, r.dataSize))

\* parseVariables goes on behind the record at off.
Accepts(r) ==
    /\ RecordFits(off, End, auth, r.nameSize, r.dataSize)
    /\ NextRecord(r) > off
    /\ NextRecord(r) <= End

Collect(k) ==
    /\ pc = "parse"
    /\ U32(off + 2) <= End
    /\ IsRecord(k)
    /\ Accepts(img[k].rec)
    /\ Len(out) < MaxVariables
    /\ out' = Append(out, Decode(img[k].rec))
    /\ again' = again + EncodedLen(Decode(img[k].rec), auth)
    /\ off' = NextRecord(img[k].rec)
    /\ UNCHANGED <<fixed, img, payload, pc>>

\* Mutant: one less than the budget.
TooLargeEarly(k) ==
    /\ pc = "parse"
    /\ U32(off + 2) <= End
    /\ IsRecord(k)
    /\ Accepts(img[k].rec)
    /\ Len(out) + 1 >= MaxVariables
    /\ pc' = "toolarge"
    /\ UNCHANGED <<fixed, img, payload, off, out, again>>

TooLarge(k) ==
    /\ pc = "parse"
    /\ U32(off + 2) <= End
    /\ IsRecord(k)
    /\ Accepts(img[k].rec)
    /\ Len(out) >= MaxVariables
    /\ pc' = "toolarge"
    /\ UNCHANGED <<fixed, img, payload, off, out, again>>

Finish ==
    /\ pc = "parse"
    /\ \/ U32(off + 2) > End
       \/ \A k \in 1 .. Len(img) : ~(IsRecord(k) /\ Accepts(img[k].rec))
    /\ pc' = "done"
    /\ UNCHANGED <<fixed, img, payload, off, out, again>>

Returned == pc \notin {"encode", "parse"} /\ UNCHANGED vars

Next ==
    \/ EncodeOne \/ Reject \/ Build
    \/ \E k \in 1 .. Len(img) : Collect(k) \/ TooLarge(k)
    \/ Finish
    \/ Returned

Spec == Init /\ [][Next]_vars

-----------------------------------------------------------------------------
(***************************************************************************)
(* Properties                                                              *)
(***************************************************************************)

\* The state has the types of flush and parseVariables; a payload cut short
\* would be NoData.
TypeOK ==
    /\ len \in 0 .. MaxFileSize
    /\ sizeField \in 0 .. Word - 1
    /\ storeSize \in 0 .. Word - 1
    /\ in \in Seq(Variable)
    /\ payload \in Nat /\ again \in Nat
    /\ off \in 0 .. Word - 1
    /\ pc \in {"encode", "parse", "done", "beyond", "full", "toolarge"}

\* What a successful flush writes is what the next Open reads: the same
\* variables, in the same order, each with its own attributes and payload
\* and its name as UTF-16 keeps it.
ReadBack == pc = "done" => out = [k \in DOMAIN in |-> Canonical(in[k])]

\* At every point of the walk the variables collected are the first ones
\* flushed: a walk that stops early loses the tail and nothing else.
CollectsPrefix ==
    /\ Len(out) <= Len(in)
    /\ \A k \in 1 .. Len(out) : out[k] = Canonical(in[k])

\* buildStore accepts only payloads whose records lie between the store header
\* and the end of the store, so the bytes behind the store (FTW state) stay.
RecordsInsideStore ==
    pc = "parse" =>
        \A k \in 1 .. Len(img) :
            HeaderEnd + img[k].at + EncodedLen(in[k], auth) <= storeOff + storeSize

\* Variables that were read back take the same room when they are written
\* again, so a store that was flushed once can be opened and flushed again.
RewriteFits == pc = "done" => again = payload

\* The next Open refuses a flushed store exactly when it holds more than
\* Limits.MaxVariables variables, which Set does not check.
BudgetDecides ==
    /\ pc = "toolarge" => Len(in) > MaxVariables
    /\ pc = "done" => Len(in) <= MaxVariables
=============================================================================
