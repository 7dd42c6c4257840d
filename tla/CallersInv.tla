----------------------------- MODULE CallersInv -----------------------------
(***************************************************************************)
(* The inductive invariant of the whole program, and the terms its proofs  *)
(* use: how far a call of several operations has come, and what the        *)
(* callers above the store must respect.                                   *)
(***************************************************************************)
EXTENDS Callers, NvStoreInv

\* What an operation is for.
Effect(vs, o) ==
    IF o.kind = "set" THEN Has(vs, o.key) /\ Get(vs, o.key) = o.var ELSE ~Has(vs, o.key)

\* vs is before with the first n operations of args done: each that no later
\* one undid has its effect, and every other key is as it was.
Done(vs, before, args, n) ==
    /\ \A k \in 1 .. n : (\A j \in k + 1 .. n : args[j].key # args[k].key) => Effect(vs, args[k])
    /\ \A key : (\A k \in 1 .. n : args[k].key # key) => SameFor(key, before, vs)

\* The operations of a call that are through.
Through(c) == Len(c.args) - Len(c.todo)

\* The list of the handle is the one flush made for the running operation.
Accepted(T, c, vs) ==
    \E ws \in Seq(T) :
        /\ Done(ws, c.before, c.args, Through(c))
        /\ Through(c) = 0 => ws = c.before
        /\ c.todo[1].kind # "fail"
        /\ vs = NewVars(ws, c.todo[1])

\* A call asks its operations in order and only the last may fail unnoticed.
\* The list of its handle is what the operations made of the list it began
\* with, and so is the file once an operation is through.
Progressed(T, c, vs, f) ==
    /\ Through(c) \in Nat
    /\ \A k \in 1 .. Len(c.todo) : c.todo[k] = c.args[Through(c) + k]
    /\ \A k \in 1 .. Len(c.args) : c.args[k].lax => k = Len(c.args)
    /\ c.stage = "flush" => Done(vs, c.before, c.args, Through(c)) /\ (Through(c) = 0 => vs = c.before)
    /\ c.stage # "flush" => Accepted(T, c, vs)
    /\ c.stage \in {"flush", "open"} =>
          IF Through(c) = 0 THEN Opens(f) => Parsed(f) = c.disk
                            ELSE Done(Parsed(f), c.before, c.args, Through(c))
    /\ c.stage = "write" => f.len = 0

\* The running call has done a prefix of its operations, in memory and on disk.
Progress(T) ==
    call # NoCall /\ call.op # "Format" => Progressed(T, call, hnd[call.h].vars, file)

\* Callers pass names that UTF-16 keeps, that is, valid Unicode.
ValidNames ==
    /\ \A v \in Values : Canon[v.name] = v.name
    /\ \A p \in Renames : Canon[p[2]] = p[2]

\* The operations of a call, by what was called.
Shaped(c) ==
    /\ c.op \in {"Set", "Delete"} =>
          c.args[1].kind \in {"set", "delete"} /\ Canon[c.args[1].key.name] = c.args[1].key.name
    /\ c.op = "Rename" =>
          \E p \in Renames : \E v \in Variable :
              /\ v.name = p[2] /\ v.guid = FsGuid
              /\ c.args = <<SetOp(v), DeleteOp(PathKey(p[1]), TRUE)>>
    /\ c.op = "Enroll" => \E keys \in KeySets : c.args = Entries(keys)
    /\ c.op = "AddBootEntry" =>
          \E lo \in LoadOption : \E n \in FreeNums(c.before) :
              n = Min(FreeNums(c.before)) /\ c.args = AddOps(c.before, n, lo)

\* The running call has the operations its caller makes.
ShapeInv == call # NoCall => Shaped(call)

\* The invariant behind the properties of calls.
OrderInv == StoreInv(Canonicals) /\ Progress(Canonicals) /\ ShapeInv

\* Renames between different names.
Renaming == \A p \in Renames : p[1] # p[2]

\* The part of RenameMoves about one step.
MoveStep ==
    Returns({"Rename"}, "ok") /\ call.stage = "write" /\ file' = call.buf /\ KeyOf(Moved) # MovedFrom =>
        LET vs == Parsed(file')
        IN Has(vs, KeyOf(Moved)) /\ Get(vs, KeyOf(Moved)) = Moved /\ ~Has(vs, MovedFrom)

\* The part of OthersUntouched about one step.
OthersStep ==
    Returns({"Set", "Delete", "Rename"}, "ok") /\ call.before = call.disk
    /\ (call.stage = "write" => file' = call.buf) =>
        \A key \in Key :
            (\A k \in DOMAIN call.args : call.args[k].key # key) => SameFor(key, call.disk, Parsed(file'))

\* What ReadFile, Stat and ListDir say of the path an operation was for.
AdapterSays(vs, op) ==
    LET path == Canon[op.key.name]
        data == IF op.kind = "set" THEN op.var.data ELSE NoData
        here == {k \in DOMAIN vs : ListDir(vs)[k] = path /\ vs[k].guid = FsGuid}
    IN /\ ReadFile(vs, path) = data
       /\ Stat(vs, path) = IF data = NoData THEN NoData ELSE DataLen[data]
       /\ IF data = NoData THEN here = {} ELSE \E k \in here : here = {k}

\* The part of AdapterAgrees about one step.
AdapterStep ==
    Returns({"Set", "Delete"}, "ok") /\ call.args[1].key.guid = FsGuid
        => AdapterSays(Parsed(file'), call.args[1])

\* The first m variables of a list.
Front(vs, m) == [k \in 1 .. m |-> vs[k]]

\* What the callers above the store must respect for T to be respected.
CallersAdmit(T) ==
    /\ Admits(T)
    /\ \A keys \in KeySets : \A k \in 1 .. 3 : Entries(keys)[k].var \in T
    /\ \A w \in AuthWrites : w.signer # NoSigner =>
          [name |-> w.name, guid |-> w.guid, attrs |-> WriteAttrs(w), data |-> Payload(w)] \in T
    /\ \A lo \in LoadOption : \A n \in Num : Global(EntryKey(n), lo).var \in T
    /\ \A vs \in Seq(T) : \A n \in Num : ~OrderUnreadable(vs) =>
          Global(OrderKey, [order |-> Append(OrderOf(vs), n)]).var \in T

\* A call that the invariant covers.
Begins(T, h, op, todo) ==
    /\ hnd[h] # Closed /\ Begin(h, op, todo)
    /\ op \in {"Enroll", "AuthWrite", "AddBootEntry"}
    /\ todo \in Seq(OpsOn(T)) /\ todo # <<>>
    /\ \A k \in 1 .. Len(todo) : todo[k].lax => k = Len(todo)

\* A BootOrder with a number more is a payload too.
OrdersExtend ==
    \A s : (s = <<>> \/ \E d \in Data : "order" \in DOMAIN d /\ s = d.order)
              => \A n \in Num : [order |-> Append(s, n)] \in Data

\* Callers pass names that UTF-16 keeps.
ValidCallers == ValidNames /\ OrdersExtend /\ \A w \in AuthWrites : Canon[w.name] = w.name

\* The part of EnrollIsOrdered about one step.
EnrollStep ==
    Enrolling /\ call' = NoCall /\ ret' # "none" =>
        LET vs == hnd'[call.h].vars
            at == Len(call.args) - Len(call.todo) + 1
        IN IF ret' = "ok"
           THEN Enrolled(vs) = DOMAIN call.args /\ Enrolled(Parsed(file')) = DOMAIN call.args
           ELSE \A k \in DOMAIN call.args \ {at} :
                   IF k < at THEN k \in Enrolled(vs)
                             ELSE SameFor(call.args[k].key, call.before, vs)

\* The two parts of PkImpliesKeys about one step.
ActivationStep ==
    ~Has(call.before, PK) /\ ~Has(call.disk, PK) /\ Opens(file') /\ Has(Parsed(file'), PK)
        => Enrolled(Parsed(file')) = DOMAIN call.args

\* ... and what is about to be written.
ImageStep ==
    call.stage \in {"open", "write"} /\ Has(Parsed(call.buf), PK)
        => \/ Present(Parsed(call.buf)) = DOMAIN call.args
           \/ Has(call.before, PK) /\ Present(call.before) # DOMAIN call.args

\* The part of AddedNeverDangles about one step.
AddStep ==
    call # NoCall /\ call.op = "AddBootEntry" /\ Opens(file') =>
        LET n == Min(FreeNums(call.before))
        IN InOrder(Parsed(file'), n) /\ ~InOrder(call.before, n) /\ ~InOrder(call.disk, n)
              => Has(Parsed(file'), EntryKey(n))

\* The descriptor of v parses, ends where the data starts, and was signed over
\* what v is read back with.
Signed(v) ==
    /\ ParseAuthentication2(v.data) /\ DataBehind(v.data) = DataLen[v.data.data]
    /\ v.data.tbs = DigestTBS(v.name, v.guid, v.attrs, v.data.ts, v.data.data)

\* Variables that are not authenticated, or that are signed and not renamed.
Bound ==
    {v \in Variable : TimeBased \in v.attrs =>
        Signed(v) /\ \A p \in Renames : p[1] \notin {v.name, Canon[v.name]}}

\* Authenticated variables come from WriteAuthenticatedVariable: no other caller
\* asks for the flag, none is renamed, and those in files that were found are
\* signed.  A signature is far shorter than 2^32 bytes.
SignedWrites ==
    /\ \A f \in Images : Opens(f) => Parsed(f) \in Seq(Bound)
    /\ \A v \in Values : TimeBased \notin v.attrs
    /\ TimeBased \notin FsAttrs /\ TimeBased \notin SbAttrs /\ TimeBased \notin BootVarAttrs
    /\ \A w \in AuthWrites : \A p \in Renames : p[1] \notin {w.name, Canon[w.name]}
    /\ SigLen \in Nat /\ WinCertSize + SigLen < Word
    /\ OrdersExtend

=============================================================================
