----------------------------- MODULE NvStoreInv -----------------------------
(***************************************************************************)
(* The inductive invariant of NvStore, and the terms its proofs use.       *)
(***************************************************************************)
EXTENDS NvStore

\* The configurations the theorems cover; the default 256 MiB is one.
LimitBelowWord == MaxFileSize + AuthVarHeaderSize < Word

-----------------------------------------------------------------------------
(***************************************************************************)
(* Loops over lists, unfolded.                                             *)
(***************************************************************************)

\* The list that is being built, after k elements.
KeptSoFar(s, indexes, T, out) ==
    /\ out \in [0 .. Len(s) -> Seq(T)]
    /\ out[0] = <<>>
    /\ \A k \in 1 .. Len(s) :
          out[k] = IF k \in indexes THEN Append(out[k - 1], s[k]) ELSE out[k - 1]

\* How the loop places element j of its result: at is where it comes from.
Places(s, indexes, n, kept, at) ==
    /\ at \in [1 .. Len(kept) -> 1 .. n]
    /\ \A j \in 1 .. Len(kept) : at[j] \in indexes /\ kept[j] = s[at[j]]
    /\ \A i, j \in 1 .. Len(kept) : i < j => at[i] < at[j]
    /\ \A k \in 1 .. n : k \in indexes => \E j \in 1 .. Len(kept) : at[j] = k

\* The length of the payload behind each variable.
Sums(vs, a, sum) ==
    /\ sum \in [0 .. Len(vs) -> Nat]
    /\ sum[0] = 0
    /\ \A k \in 1 .. Len(vs) : sum[k] = sum[k - 1] + EncodedLen(vs[k], a)

\* The offsets of the records of a file.
Offsets(f, at) ==
    /\ at \in [0 .. Len(f.recs) -> Nat]
    /\ at[0] = StoreOff(f) + StoreHeaderSize
    /\ \A k \in 1 .. Len(f.recs) :
          at[k] = NextOffset(at[k - 1], IsAuth(f), f.recs[k].nameSize, f.recs[k].dataSize)

\* The walk gets past record k of the region.
Passes(f, k) ==
    LET at  == RecordOffsets(f)
        end == End(f)
    IN /\ U32(at[k - 1] + 2) <= end
       /\ RecordFits(at[k - 1], end, IsAuth(f), f.recs[k].nameSize, f.recs[k].dataSize)
       /\ at[k] > at[k - 1]

\* A list as it is read back.
CanonicalList(vs) == [k \in 1 .. Len(vs) |-> Canonical(vs[k])]

\* Element k is the first one with the key.
FirstAt(vs, key, k) ==
    /\ k \in 1 .. Len(vs) /\ KeyOf(vs[k]) = key
    /\ \A j \in 1 .. Len(vs) : KeyOf(vs[j]) = key => k <= j

-----------------------------------------------------------------------------
(***************************************************************************)
(* The inductive invariant.  It is about the variables of a set T, so that *)
(* it carries any property of single variables that callers, images and    *)
(* the conversion of names respect.                                        *)
(***************************************************************************)

\* Set and Delete operations on variables in T.
OpsOn(T) == {o \in Operation : o.kind = "set" => o.var \in T /\ o.key = KeyOf(o.var)}

\* Calls of the store and of the callers above it, on variables in T.
CallsOn(T) ==
    [op : {"Set", "Delete", "Rename", "Format", "Enroll", "AuthWrite", "AddBootEntry"},
     h : Handle, todo : Seq(OpsOn(T)), stage : {"flush", "open", "write", "reopen"},
     buf : File \cup {NoFile}, args : Seq(OpsOn(T)), before : Seq(T), disk : Seq(T)]

\* What OpenLimits returns, on variables in T.
StoreOf(T) ==
    [off : {0, FvHeaderSize}, auth : BOOLEAN, size : 0 .. Word - 1, vars : Seq(T)]

\* The file is one the program found, or was written from a list.
Holds(T, f) ==
    \/ f \in Images
    \/ \E vs \in Seq(T) : f.recs = Serialized(vs) /\ PayloadLen(vs, IsAuth(f)) + 3 < Word

\* Handle s was opened on a store with the header of f.
Agrees(T, s, f) ==
    /\ s \in StoreOf(T) /\ f \in File
    /\ s.auth = IsAuth(f) /\ f.sig \in {"auth", "plain"} /\ f.formatted /\ f.healthy
    /\ s.off = (IF f.fv THEN FvHeaderSize ELSE 0)
    /\ s.size <= f.size

\* f is what flush built for handle s.
Built(f, s) ==
    /\ f \in File /\ f.len <= MaxFileSize
    /\ f.recs = Serialized(s.vars)
    /\ StoreFits(f, s, s.vars)

\* Everything but the records and the length.
SameRest(f, g) ==
    /\ f.fv = g.fv /\ f.sig = g.sig /\ f.formatted = g.formatted
    /\ f.healthy = g.healthy /\ f.size = g.size /\ f.tail = g.tail

\* There is no file yet, or one of those.
FileInv(T) == file = NoFile \/ (file \in File /\ Holds(T, file))

\* Every open handle fits the file, whatever other handles wrote since.
HandleInv(T) ==
    /\ hnd \in [Handle -> StoreOf(T) \cup {Closed}]
    /\ \A h \in Handle : hnd[h] = Closed \/ Agrees(T, hnd[h], file)

\* Format runs alone.
Formatting(c) ==
    /\ c.stage # "flush" /\ c.buf = Fresh /\ c.todo = <<[kind |-> "format", lax |-> FALSE]>>
    /\ \A h \in Handle : hnd[h] = Closed

\* A call runs on an open handle, and what it writes is the list of the handle.
Updating(T, c) ==
    /\ c.stage # "reopen"
    /\ Agrees(T, hnd[c.h], file)
    /\ c.stage \in {"open", "write"} => Built(c.buf, hnd[c.h]) /\ SameRest(c.buf, file)

\* Set and Delete are one operation.
Single(c) == c.todo = c.args /\ Len(c.args) = 1 /\ ~c.args[1].lax

\* The running call, by what was called.
CallInv(T) ==
    call # NoCall =>
        /\ call \in CallsOn(T) /\ call.todo # <<>>
        /\ call.op = "Format" => Formatting(call)
        /\ call.op # "Format" => Updating(T, call)
        /\ call.op \in {"Set", "Delete"} => Single(call)

\* The inductive invariant of the store.
StoreInv(T) == FileInv(T) /\ HandleInv(T) /\ CallInv(T)

\* What callers and images must respect for T to be respected by every handle.
Admits(T) ==
    /\ T \subseteq Variable
    /\ \A v \in T : Canonical(v) \in T
    /\ \A f \in Images : Opens(f) => Parsed(f) \in Seq(T)
    /\ Values \subseteq T
    /\ \A v \in Values : [name |-> v.name, guid |-> FsGuid, attrs |-> FsAttrs, data |-> v.data] \in T
    /\ \A p \in Renames : \A v \in T : v.name = p[1] => [v EXCEPT !.name = p[2]] \in T

-----------------------------------------------------------------------------
(***************************************************************************)
(* Steps.                                                                  *)
(***************************************************************************)

\* The operations a call may begin with.
Startable(T, op, todo) ==
    /\ op \in {"Set", "Delete", "Rename", "Enroll", "AuthWrite", "AddBootEntry"}
    /\ todo \in Seq(OpsOn(T)) /\ todo # <<>>
    /\ op \in {"Set", "Delete"} => Len(todo) = 1 /\ ~todo[1].lax

\* What the steps of os.WriteFile leave: the image of the call, or a part of it.
Partial(f) == f = call.buf \/ \E n \in Nat : f = [call.buf EXCEPT !.len = n]

\* The part of KeepsRest about one step.
RestStep ==
    file' # file /\ (call # NoCall => call.op # "Format") =>
        \A field \in DOMAIN file \ {"recs", "len"} : file'[field] = file[field]

\* The part of SuccessIsDurable about one step.
DurableStep ==
    Returns({"Set", "Delete"}, "ok") =>
        /\ Readable(file') /\ HeaderAccepted(file')
        /\ LET vs == hnd'[call.h].vars
           IN Parsed(file') = [k \in DOMAIN vs |-> Canonical(vs[k])]

=============================================================================
