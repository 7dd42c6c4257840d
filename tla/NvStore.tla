------------------------------ MODULE NvStore ------------------------------
(***************************************************************************)
(* A store file and the handles a program has open on it (uefi.go, the     *)
(* adapter of filesystem.go, Format of format.go).                         *)
(*                                                                         *)
(* A handle keeps the variables it parsed at Open in memory; Set, Delete   *)
(* and Rename change that list and rewrite the file from it (flush).  One  *)
(* call runs at a time, as the package asks of its callers, but handles    *)
(* interleave call by call, os.WriteFile truncates before it writes, any   *)
(* file operation may fail, and the process may die between two of them.   *)
(***************************************************************************)
EXTENDS NvFile

CONSTANTS
    Handle,        \* the handles a program uses
    Images,        \* store files the program may find
    Fresh,         \* the file Format writes
    Closed,        \* a handle that is not open
    NoCall,        \* no call is running
    Values,        \* variables callers pass to Set
    Renames,       \* pairs of names callers pass to Rename
    FsGuid,        \* DefaultNamespaceGUID
    FsAttrs,       \* the attributes WriteFile gives a variable
    Cuts,          \* file lengths a failed write may leave
    Faults         \* what may go wrong: "read", "open", "write", "crash"

VARIABLES
    file,  \* the store file, or NoFile
    hnd,   \* hnd[h]: the handle h, or Closed
    call,  \* the call that runs, or NoCall
    ret    \* result of the last call: "none", "ok" or "err"

vars == <<file, hnd, call, ret>>

-----------------------------------------------------------------------------
(***************************************************************************)
(* Variable lists.                                                         *)
(***************************************************************************)

Key == [name : Name, guid : Guid]

KeyOf(v) == [name |-> v.name, guid |-> v.guid]

Has(vs, key) == \E k \in DOMAIN vs : KeyOf(vs[k]) = key

\* Get: the first match wins.
Get(vs, key) == vs[Min({k \in DOMAIN vs : KeyOf(vs[k]) = key})]

\* The adapter's readers: the payload under a path and its length, or NoData,
\* and the names in the root directory, of every namespace.
ReadFile(vs, path) ==
    LET key == [name |-> path, guid |-> FsGuid]
    IN IF Has(vs, key) THEN Get(vs, key).data ELSE NoData

Stat(vs, path) == IF ReadFile(vs, path) = NoData THEN NoData ELSE DataLen[ReadFile(vs, path)]

ListDir(vs) == [k \in DOMAIN vs |-> vs[k].name]

\* Mutants: only the GUID is compared; only the first match is dropped.
WithoutGuid(vs, key) == Kept(vs, {k \in DOMAIN vs : vs[k].guid # key.guid})

WithoutFirst(vs, key) ==
    LET hits == {k \in DOMAIN vs : KeyOf(vs[k]) = key}
    IN IF hits = {} THEN vs ELSE SubSeq(vs, 1, Min(hits) - 1) \o SubSeq(vs, Min(hits) + 1, Len(vs))

Without(vs, key) == Kept(vs, {k \in DOMAIN vs : KeyOf(vs[k]) # key})

\* len(serializeVars(vs)).
PayloadLen(vs, auth) ==
    LET sum[k \in 0 .. Len(vs)] == IF k = 0 THEN 0 ELSE sum[k - 1] + EncodedLen(vs[k], auth)
    IN sum[Len(vs)]

Serialized(vs) == [k \in 1 .. Len(vs) |-> Encode(vs[k])]

\* Mutant: the file is not looked at again.
StoreFitsAtOpen(f, s, vs) ==
    /\ f.len >= s.off + StoreHeaderSize
    /\ s.off + StoreHeaderSize + PayloadLen(vs, s.auth) <= s.off + s.size

\* The checks of flush and buildStore on the file as it is now.
StoreFits(f, s, vs) ==
    /\ f.len >= s.off + StoreHeaderSize
    /\ s.off + s.size <= f.len
    /\ s.off + StoreHeaderSize + PayloadLen(vs, s.auth) <= s.off + s.size

\* Mutant: everything behind the payload is erased.
BuildStoreErasing(f, s, vs) == [f EXCEPT !.recs = Serialized(vs), !.tail = "erased"]

\* buildStore: headers and the bytes behind the store of the handle are kept.
BuildStore(f, s, vs) ==
    [f EXCEPT !.recs = Serialized(vs),
              !.tail = IF s.size > f.size THEN "erased" ELSE f.tail]

\* One Set or Delete inside a call; a lax one may fail without failing the call.
SetOp(v) == [kind |-> "set", key |-> KeyOf(v), var |-> v, lax |-> FALSE]

DeleteOp(key, lax) == [kind |-> "delete", key |-> key, lax |-> lax]

\* The call gives up before it touches the store again.
FailOp == [kind |-> "fail", lax |-> FALSE]

\* The list Set and Delete hand to flush: every match is dropped.
NewVars(vs, op) ==
    IF op.kind = "set" THEN Append(Without(vs, op.key), op.var) ELSE Without(vs, op.key)

\* The operation finds what it needs, and the list it makes fits.
Acceptable(s, op) ==
    /\ op.kind # "fail"
    /\ op.kind = "delete" => Has(s.vars, op.key)
    /\ Readable(file)
    /\ StoreFits(file, s, NewVars(s.vars, op))

-----------------------------------------------------------------------------
(***************************************************************************)
(* What the constants are.                                                 *)
(***************************************************************************)

Operation ==
    [kind : {"set"}, key : Key, var : Variable, lax : {FALSE}]
        \cup [kind : {"delete"}, key : Key, lax : BOOLEAN]
        \cup [kind : {"fail", "format"}, lax : {FALSE}]

Call ==
    [op : {"Set", "Delete", "Rename", "Format", "Enroll", "AuthWrite", "AddBootEntry"},
     h : Handle, todo : Seq(Operation), stage : {"flush", "open", "write", "reopen"},
     buf : File \cup {NoFile}, args : Seq(Operation), before : Seq(Variable), disk : Seq(Variable)]

\* Variables that survive a write and a read: UTF-16 keeps their names.
Canonicals == {v \in Variable : Canonical(v) = v}

\* A record in a file holds as many payload bytes as its header says, and its
\* name is what DecodeUTF16LE makes of it; Format writes an empty store.
ASSUME ImageAssumption ==
    /\ NoFile \notin File
    /\ Images \subseteq File \cup {NoFile}
    /\ \A f \in Images : Opens(f) => Parsed(f) \in Seq(Canonicals)
    /\ Fresh \in File /\ Fresh.recs = <<>>
    /\ Cuts \subseteq Nat

ASSUME CallerAssumption ==
    /\ NoCall \notin Call
    /\ Values \subseteq Variable
    /\ Renames \subseteq Name \X Name
    /\ FsGuid \in Guid /\ FsAttrs \in Attr

-----------------------------------------------------------------------------
(***************************************************************************)
(* Calls.  A call is the list of Set and Delete operations it still has to *)
(* make; todo[1] is at "flush" (list and checks), "open" (os.WriteFile     *)
(* opens and truncates) or "write" (it writes buf); Format is at "reopen"  *)
(* last.  args, before and disk keep what the call was asked and what      *)
(* handle and file held when it began.                                     *)
(***************************************************************************)

Init ==
    /\ file \in Images
    /\ hnd = [h \in Handle |-> Closed]
    /\ call = NoCall
    /\ ret = "none"

Return(result) == call' = NoCall /\ ret' = result

\* Mutant: the operation is repeated.
CompletedRepeating ==
    IF Len(call.todo) = 1
    THEN Return("ok")
    ELSE call' = [call EXCEPT !.stage = "flush"] /\ UNCHANGED ret

\* todo[1] is through: the call goes on, or it returns.
Completed ==
    IF Len(call.todo) = 1
    THEN Return("ok")
    ELSE call' = [call EXCEPT !.todo = Tail(@), !.stage = "flush"] /\ UNCHANGED ret

\* Mutant: every error is dropped.
FailedSilently == Completed

Failed == IF call.todo[1].lax THEN Completed ELSE Return("err")

Idle == call = NoCall

Begin(h, op, todo) ==
    /\ call' = [op |-> op, h |-> h, todo |-> todo, stage |-> "flush", buf |-> NoFile,
                args |-> todo, before |-> hnd[h].vars, disk |-> IF Opens(file) THEN Parsed(file) ELSE <<>>]
    /\ ret' = "none"
    /\ UNCHANGED <<file, hnd>>

Open(h) ==
    /\ Idle
    /\ hnd[h] = Closed
    /\ \/ /\ Opens(file)
          /\ hnd' = [hnd EXCEPT ![h] = OpenedOn(file)]
          /\ ret' = "ok"
       \/ /\ ~Opens(file) \/ "read" \in Faults
          /\ UNCHANGED hnd
          /\ ret' = "err"
    /\ UNCHANGED <<file, call>>

\* Close keeps nothing and writes nothing; the program drops the handle.
Close(h) ==
    /\ Idle
    /\ hnd[h] # Closed
    /\ hnd' = [hnd EXCEPT ![h] = Closed]
    /\ ret' = "ok"
    /\ UNCHANGED <<file, call>>

Set(h, v) ==
    /\ Idle /\ hnd[h] # Closed
    /\ Begin(h, "Set", <<SetOp(v)>>)

Delete(h, key) ==
    /\ Idle /\ hnd[h] # Closed
    /\ Begin(h, "Delete", <<DeleteOp(key, FALSE)>>)

\* The adapter: a path is a name in the default namespace.
PathKey(path) == [name |-> path, guid |-> FsGuid]

WriteFile(h, path, data) ==
    Set(h, [name |-> path, guid |-> FsGuid, attrs |-> FsAttrs, data |-> data])

DeleteFile(h, path) == Delete(h, PathKey(path))

\* Mutant: the old name is deleted first.
RenameDeletingFirst(h, old, new) ==
    LET from == PathKey(old) IN
    /\ Idle /\ hnd[h] # Closed
    /\ Has(hnd[h].vars, from)
    /\ Begin(h, "Rename", <<DeleteOp(from, TRUE),
                           SetOp([Get(hnd[h].vars, from) EXCEPT !.name = new])>>)

\* Rename sets a copy under the new name, then deletes the old name and
\* ignores the result.
Rename(h, old, new) ==
    LET from == PathKey(old) IN
    /\ Idle /\ hnd[h] # Closed
    /\ \/ /\ Has(hnd[h].vars, from)
          /\ Begin(h, "Rename", <<SetOp([Get(hnd[h].vars, from) EXCEPT !.name = new]),
                                 DeleteOp(from, TRUE)>>)
       \/ /\ ~Has(hnd[h].vars, from)
          /\ ret' = "err"
          /\ UNCHANGED <<file, hnd, call>>

\* Format writes a whole new file and opens it.  It is called while no handle
\* is open on the path.
Format(h) ==
    /\ Idle
    /\ \A g \in Handle : hnd[g] = Closed
    /\ call' = [op |-> "Format", h |-> h, todo |-> <<[kind |-> "format", lax |-> FALSE]>>,
                stage |-> "open", buf |-> Fresh, args |-> <<>>, before |-> <<>>, disk |-> <<>>]
    /\ ret' = "none"
    /\ UNCHANGED <<file, hnd>>

Running(stage) == call # NoCall /\ call.stage = stage

\* flush up to os.WriteFile: the in-memory list is replaced before the write.
FlushAccepted ==
    LET s == hnd[call.h]
        new == NewVars(s.vars, call.todo[1])
    IN /\ Running("flush")
       /\ Acceptable(s, call.todo[1])
       /\ hnd' = [hnd EXCEPT ![call.h].vars = new]
       /\ call' = [call EXCEPT !.stage = "open", !.buf = BuildStore(file, s, new)]
       /\ UNCHANGED <<file, ret>>

\* Not found, the file cannot be read, or the list does not fit.
Rejectable == "read" \in Faults \/ ~Acceptable(hnd[call.h], call.todo[1])

\* Mutant: the list in memory is replaced before the checks.
FlushRejectedLate ==
    /\ Running("flush")
    /\ Rejectable
    /\ hnd' = [hnd EXCEPT ![call.h].vars = NewVars(@, call.todo[1])]
    /\ Failed
    /\ UNCHANGED file

FlushRejected ==
    /\ Running("flush")
    /\ Rejectable
    /\ Failed
    /\ UNCHANGED <<file, hnd>>

\* os.WriteFile opens with O_TRUNC and creates a missing file.
Truncate ==
    /\ Running("open")
    /\ file' = [call.buf EXCEPT !.len = 0]
    /\ call' = [call EXCEPT !.stage = "write"]
    /\ UNCHANGED <<hnd, ret>>

OpenFails ==
    /\ Running("open")
    /\ "open" \in Faults
    /\ Failed
    /\ UNCHANGED <<file, hnd>>

\* The write went through.
Write ==
    /\ Running("write")
    /\ file' = call.buf
    /\ IF call.op = "Format"
       THEN call' = [call EXCEPT !.stage = "reopen"] /\ UNCHANGED ret
       ELSE Completed
    /\ UNCHANGED hnd

\* Format ends with Open on the file it wrote.
Reopen ==
    /\ Running("reopen")
    /\ \/ /\ Opens(file)
          /\ hnd' = [hnd EXCEPT ![call.h] = OpenedOn(file)]
          /\ Completed
       \/ /\ ~Opens(file) \/ "read" \in Faults
          /\ Failed
          /\ UNCHANGED hnd
    /\ UNCHANGED file

ShortenTo(c) == file' = [call.buf EXCEPT !.len = c]

\* The write stopped after c bytes, on an error such as a full disk.
WriteFails(c) ==
    /\ Running("write")
    /\ "write" \in Faults
    /\ c < call.buf.len
    /\ ShortenTo(c)
    /\ Failed
    /\ UNCHANGED hnd

\* The process dies, perhaps with part of the file written.
Crash ==
    /\ "crash" \in Faults
    /\ hnd' = [h \in Handle |-> Closed]
    /\ Return("none")
    /\ \/ UNCHANGED file
       \/ Running("write") /\ \E c \in Cuts : c < call.buf.len /\ ShortenTo(c)

CallStep ==
    \/ FlushAccepted \/ FlushRejected
    \/ Truncate \/ OpenFails
    \/ Write \/ Reopen
    \/ \E c \in Cuts : WriteFails(c)

Next ==
    \/ \E h \in Handle :
          \/ Open(h) \/ Close(h) \/ Format(h)
          \/ \E v \in Values : Set(h, v) \/ WriteFile(h, v.name, v.data)
          \/ \E key \in {KeyOf(v) : v \in Values} : Delete(h, key) \/ DeleteFile(h, key.name)
          \/ \E p \in Renames : Rename(h, p[1], p[2])
    \/ CallStep
    \/ Crash

\* A call that runs goes on until it returns.
Spec == Init /\ [][Next]_vars /\ WF_vars(CallStep)

-----------------------------------------------------------------------------
(***************************************************************************)
(* Properties                                                              *)
(***************************************************************************)

\* A call among ops returns with this result.
Returns(ops, result) == call # NoCall /\ call.op \in ops /\ call' = NoCall /\ ret' = result

SameFor(key, vs, ws) ==
    /\ Has(vs, key) <=> Has(ws, key)
    /\ Has(vs, key) => Get(vs, key) = Get(ws, key)

\* When Set or Delete returns nil, a fresh Open of the file finds exactly the
\* variables of the handle, whatever failed, crashed or was truncated before
\* (flush, buildStore).
SuccessIsDurable ==
    [][Returns({"Set", "Delete"}, "ok") =>
          /\ Readable(file') /\ HeaderAccepted(file')
          /\ LET vs == hnd'[call.h].vars
             IN Parsed(file') = [k \in DOMAIN vs |-> Canonical(vs[k])]]_vars

\* A handle that was up to date when the call began changes no variable on
\* disk but the ones it was asked to change (Set, Delete, Rename).  The
\* exception is a Rename that returns nil over a deletion cut short.
OthersUntouched ==
    [][Returns({"Set", "Delete", "Rename"}, "ok") /\ call.before = call.disk
       /\ (call.stage = "write" => file' = call.buf) =>
          \A key \in Key :
              (\A k \in DOMAIN call.args : call.args[k].key # key)
                  => SameFor(key, call.disk, Parsed(file'))]_vars

\* Every handle has the record layout, store offset and store extent of the
\* file, however often it was cut short: flush preserves the flavor.
FlavorIsSticky ==
    \A h \in Handle : hnd[h] # Closed /\ file # NoFile =>
        /\ hnd[h].auth = IsAuth(file)
        /\ hnd[h].off = (IF file.fv THEN FvHeaderSize ELSE 0)
        /\ hnd[h].size <= file.size

\* Apart from Format, no step changes a header field or the bytes behind the
\* store, which hold the firmware's FTW state (buildStore).
KeepsRest ==
    [][file' # file /\ (call # NoCall => call.op # "Format") =>
          \A field \in DOMAIN file \ {"recs", "len"} : file'[field] = file[field]]_vars

\* The copy a Rename makes, and the key it takes away.
Moved == (CHOOSE op \in {call.args[k] : k \in DOMAIN call.args} : op.kind = "set").var

MovedFrom == (CHOOSE op \in {call.args[k] : k \in DOMAIN call.args} : op.kind = "delete").key

\* Rename writes the copy before it deletes the original: every image it writes
\* holds the data under one of the two names.
RenameKeepsCopy ==
    call # NoCall /\ call.op = "Rename" /\ call.stage \in {"open", "write"} =>
        LET vs == Parsed(call.buf)
        IN \E v \in {Moved, [Moved EXCEPT !.name = MovedFrom.name]} : Has(vs, KeyOf(v)) /\ Get(vs, KeyOf(v)) = v

\* A Rename whose last write goes through has moved the variable: the new name
\* carries the data and the old name is gone, duplicates included.
RenameMoves ==
    [][Returns({"Rename"}, "ok") /\ call.stage = "write" /\ file' = call.buf
       /\ KeyOf(Moved) # MovedFrom =>
          LET vs == Parsed(file')
          IN Has(vs, KeyOf(Moved)) /\ Get(vs, KeyOf(Moved)) = Moved /\ ~Has(vs, MovedFrom)]_vars

\* After a WriteFile or DeleteFile that returned nil, the adapter of any handle
\* opened then agrees with it: ReadFile and Stat find the payload or nothing,
\* and ListDir names the path once in its namespace, or not at all.
AdapterAgrees ==
    [][Returns({"Set", "Delete"}, "ok") /\ call.args[1].key.guid = FsGuid =>
          LET op   == call.args[1]
              vs   == Parsed(file')
              path == Canon[op.key.name]
              data == IF op.kind = "set" THEN op.var.data ELSE NoData
              here == {k \in DOMAIN vs : ListDir(vs)[k] = path /\ vs[k].guid = FsGuid}
          IN /\ ReadFile(vs, path) = data
             /\ Stat(vs, path) = IF data = NoData THEN NoData ELSE DataLen[data]
             /\ IF data = NoData THEN here = {} ELSE \E k \in here : here = {k}]_vars

\* When Rename returns nil, the new name carries the data the old one had.
RenameCarriesData ==
    [][Returns({"Rename"}, "ok") =>
          /\ Has(Parsed(file'), KeyOf(Moved))
          /\ Get(Parsed(file'), KeyOf(Moved)) = Moved]_vars

\* When Rename returns nil, the old name is gone from the file.
RenameDropsOld ==
    [][Returns({"Rename"}, "ok") => ~Has(Parsed(file'), MovedFrom)]_vars

\* Set and Delete: "The store file is rewritten atomically".
RewriteIsAtomic ==
    [][call # NoCall /\ call.op \in {"Set", "Delete"} => file' \in {file, call.buf}]_vars

\* A Set or Delete that fails leaves the variables in memory as they were.
ErrorLeavesMemory ==
    [][Returns({"Set", "Delete"}, "err") => hnd'[call.h].vars = call.before]_vars

\* Every call returns.
CallReturns == call # NoCall ~> call = NoCall
=============================================================================
