---------------------------- MODULE OrderProofs ----------------------------
(***************************************************************************)
(* Theorems about calls of several operations: NvStore's Rename and        *)
(* adapter.  A call makes its operations in order, each on the list and on *)
(* the file that the one before it left.                                   *)
(***************************************************************************)
EXTENDS CallersInv, NvStoreProofs

-----------------------------------------------------------------------------
(***************************************************************************)
(* How far a call of several operations has come.                          *)
(***************************************************************************)

\* One more operation is done.
LEMMA OneMoreDone ==
    ASSUME NEW T, NEW ws \in Seq(T), NEW before, NEW args, NEW n \in Nat, NEW o \in OpsOn(T),
           o = args[n + 1], Done(ws, before, args, n), NEW vs, vs = NewVars(ws, o)
    PROVE  vs \in Seq(T) /\ Effect(vs, o) /\ Done(vs, before, args, n + 1)
<1>1. /\ vs \in Seq(T)
      /\ o.kind = "set" => Has(vs, o.key) /\ Get(vs, o.key) = o.var
      /\ o.kind # "set" => ~Has(vs, o.key)
      /\ \A other : other # o.key => SameFor(other, ws, vs)
  BY NewVarsProperties, ZenonT(60) DEF OpsOn
<1>2. Effect(vs, o)
  BY <1>1, Zenon DEF Effect
<1>3. ASSUME NEW k \in 1 .. n + 1, \A j \in k + 1 .. n + 1 : args[j].key # args[k].key
      PROVE  Effect(vs, args[k])
  <2>1. CASE k = n + 1
    BY <1>2, <2>1
  <2>2. CASE k \in 1 .. n
    <3>1. n + 1 \in k + 1 .. n + 1 /\ \A j \in k + 1 .. n : j \in k + 1 .. n + 1
      BY <2>2
    <3>2. args[k].key # o.key /\ Effect(ws, args[k])
      BY <1>3, <2>2, <3>1, Zenon DEF Done
    <3>3. SameFor(args[k].key, ws, vs)
      BY <1>1, <3>2, Zenon
    <3> QED
      BY <3>2, <3>3, Zenon DEF Effect, SameFor
  <2> QED
    BY <2>1, <2>2
<1>4. ASSUME NEW key, \A k \in 1 .. n + 1 : args[k].key # key
      PROVE  SameFor(key, before, vs)
  <2>1. n + 1 \in 1 .. n + 1 /\ \A k \in 1 .. n : k \in 1 .. n + 1
    OBVIOUS
  <2>2. SameFor(key, before, ws) /\ key # o.key
    BY <1>4, <2>1, Zenon DEF Done
  <2> QED
    BY <1>1, <2>2, SameForTransitive, Zenon
<1> QED
  BY <1>1, <1>2, <1>3, <1>4, Zenon DEF Done

\* What the invariants say of the operation that runs.
LEMMA RunningOperation ==
    ASSUME NEW T, T \subseteq Variable, StoreInv(T), Progress(T), call # NoCall, call.op # "Format"
    PROVE  /\ Through(call) \in Nat /\ call.todo[1] \in OpsOn(T)
           /\ call.todo[1] = call.args[Through(call) + 1]
           /\ Through(call) + 1 \in 1 .. Len(call.args)
           /\ Len(call.args) = Through(call) + Len(call.todo)
           /\ Len(call.todo) \in Nat \ {0} /\ Len(call.args) \in Nat
           /\ call.todo[1].lax => Len(call.todo) = 1
           /\ hnd[call.h].vars \in Seq(T)
<1>1. call \in CallsOn(T) /\ call.todo # <<>> /\ Agrees(T, hnd[call.h], file)
  BY DEF StoreInv, CallInv, Updating
<1>2. call.todo[1] \in OpsOn(T) /\ Len(call.todo) \in Nat /\ Len(call.todo) >= 1
  BY <1>1, FirstOperation, Zenon
<1>3. call.args \in Seq(OpsOn(T)) /\ hnd[call.h].vars \in Seq(T)
  BY <1>1 DEF CallsOn, Agrees, StoreOf
<1>4. Len(call.args) \in Nat
  BY <1>3, SeqDomain
<1>5. PICK a \in Nat : a = Len(call.args)
  BY <1>4
<1>6. PICK t \in Nat : t = Len(call.todo) /\ t >= 1
  BY <1>2
<1>7. PICK m \in Nat : m = Through(call) /\ m = a - t
  BY <1>5, <1>6, Zenon DEF Progress, Progressed, Through
<1>8. a = m + t /\ m + 1 \in 1 .. a /\ 1 \in 1 .. t /\ t \in Nat \ {0}
  BY <1>6, <1>7
<1>9. call.todo[1] = call.args[m + 1] /\ (call.args[m + 1].lax => m + 1 = a)
  BY <1>5, <1>6, <1>7, <1>8, Zenon DEF Progress, Progressed
<1>10. m + 1 = a => t = 1
  BY <1>8
<1> QED
  BY <1>2, <1>3, <1>4, <1>5, <1>6, <1>7, <1>8, <1>9, <1>10, Zenon

\* A write of a list that UTF-16 keeps reads back as the list.
LEMMA CanonicalListSame ==
    ASSUME NEW T, \A v \in T : Canonical(v) = v, NEW vs \in Seq(T)
    PROVE  CanonicalList(vs) = vs
<1>1. Len(vs) \in Nat /\ DOMAIN vs = 1 .. Len(vs) /\ \A k \in 1 .. Len(vs) : vs[k] \in T
  BY SeqDomain, SeqElement
<1>2. vs = [k \in 1 .. Len(vs) |-> vs[k]]
  BY <1>1
<1>3. \A k \in 1 .. Len(vs) : Canonical(vs[k]) = vs[k]
  BY <1>1, Zenon
<1> QED
  BY <1>2, <1>3, Zenon DEF CanonicalList

\* A call begins.
LEMMA BeginProgresses ==
    ASSUME NEW T, NEW h, NEW op, NEW todo \in Seq(OpsOn(T)), Begin(h, op, todo),
           \A k \in 1 .. Len(todo) : todo[k].lax => k = Len(todo)
    PROVE  Progress(T)'
\* Nothing was done yet.
<1>none. ASSUME NEW vs, NEW args
         PROVE  Done(vs, vs, args, 0)
  <2> USE <1>none
  <2>1. 1 .. 0 = {}
    OBVIOUS
  <2> QED
    BY <2>1, Zenon DEF Done, SameFor
<1>1. /\ call'.op = op /\ call'.h = h /\ call'.todo = todo /\ call'.args = todo /\ call'.stage = "flush"
      /\ call'.before = hnd[h].vars /\ call'.disk = IF Opens(file) THEN Parsed(file) ELSE <<>>
      /\ UNCHANGED <<file, hnd>>
  BY DEF Begin
<1>2. Len(todo) \in Nat
  BY SeqDomain
<1>3. Len(todo) - Len(todo) = 0 /\ \A k \in 1 .. Len(todo) : 0 + k = k
  BY <1>2
<1>4. Through(call') = 0 /\ 0 \in Nat
  BY <1>1, <1>3 DEF Through
<1>5. Done(hnd[h].vars, hnd[h].vars, todo, 0)
  BY <1>none
<1>6. "flush" # "write"
  OBVIOUS
<1>7. Progressed(T, call', hnd'[call'.h].vars, file')
  BY <1>1, <1>3, <1>4, <1>5, <1>6, Zenon DEF Progressed
<1> QED
  BY <1>7, Zenon DEF Progress, Progressed, Through, Accepted

\* The list of the handle while it is written, and after.
LEMMA WrittenList ==
    ASSUME NEW T, T \subseteq Variable, StoreInv(T), Progress(T), call # NoCall, call.op # "Format",
           call.stage \in {"open", "write"}
    PROVE  /\ Done(hnd[call.h].vars, call.before, call.args, Through(call) + 1)
           /\ Effect(hnd[call.h].vars, call.todo[1])
<1>1. /\ Through(call) \in Nat /\ call.todo[1] \in OpsOn(T)
      /\ call.todo[1] = call.args[Through(call) + 1]
  BY RunningOperation, Zenon
<1>2. Accepted(T, call, hnd[call.h].vars)
  BY DEF Progress, Progressed
<1>3. PICK ws \in Seq(T) : /\ Done(ws, call.before, call.args, Through(call))
                           /\ hnd[call.h].vars = NewVars(ws, call.todo[1])
  BY <1>2, Zenon DEF Accepted
<1> QED
  BY <1>1, <1>3, OneMoreDone, ZenonT(60)

\* Steps of a program that uses the store.
LEMMA NextProgresses ==
    ASSUME LimitBelowWord, NEW T, Admits(T), \A v \in T : Canonical(v) = v,
           StoreInv(T), Progress(T), [Next]_vars
    PROVE  Progress(T)'
<1> T \subseteq Variable
  BY DEF Admits
\* A step of a call keeps to the order of its operations.
<1>call. ASSUME CallStep
         PROVE  Progress(T)'
  <2> USE <1>call
  <2>1. call # NoCall /\ T \subseteq Variable
    BY Zenon DEF CallStep, FlushAccepted, FlushRejected, Truncate, OpenFails, Write, Reopen, WriteFails,
       Running, Admits
  \* An operation that fails ends the call: it is the last one, or its error is
  \* returned.
  <2>failure. ASSUME Failed
              PROVE  call' = NoCall
    <3> USE <2>failure, <2>1
    <3>1. CASE call.op = "Format"
      BY <3>1, FormatEnds, Zenon DEF StoreInv
    <3>2. CASE call.op # "Format"
      <4>1. call.todo[1].lax => Len(call.todo) = 1
        BY <3>2, RunningOperation, Zenon
      <4> QED
        BY <4>1, Zenon DEF Failed, Completed, Return
    <3> QED
      BY <3>1, <3>2
  \* flush accepts the running operation.
  <2>accepted. ASSUME FlushAccepted
               PROVE  Progress(T)'
    <3> USE <2>accepted, <2>1
    <3> DEFINE vs == hnd[call.h].vars
               b == BuildStore(file, hnd[call.h], NewVars(vs, call.todo[1]))
    <3>1. /\ call # NoCall /\ call.stage = "flush"
          /\ hnd' = [hnd EXCEPT ![call.h].vars = NewVars(vs, call.todo[1])]
          /\ call' = [call EXCEPT !.stage = "open", !.buf = b]
          /\ UNCHANGED file /\ call.todo[1].kind # "fail"
      BY DEF FlushAccepted, Running, Acceptable
    <3>2. call.op # "Format" /\ call \in CallsOn(T) /\ Agrees(T, hnd[call.h], file)
      BY <3>1 DEF StoreInv, CallInv, Formatting, Updating
    <3>3. Progressed(T, call, vs, file) /\ vs \in Seq(T)
      BY <3>1, <3>2 DEF Progress, Agrees, StoreOf
    <3> HIDE DEF vs, b
    <3>4. /\ call'.h = call.h /\ call'.todo = call.todo /\ call'.args = call.args /\ call'.stage = "open"
          /\ call'.before = call.before /\ call'.disk = call.disk /\ Through(call') = Through(call)
      BY <3>1, <3>2 DEF CallsOn, Through
    <3>5. hnd'[call.h].vars = NewVars(vs, call.todo[1])
      <4>1. hnd \in [Handle -> StoreOf(T) \cup {Closed}] /\ call.h \in Handle /\ hnd[call.h] \in StoreOf(T)
        BY <3>2 DEF StoreInv, HandleInv, CallsOn, Agrees
      <4>2. hnd'[call.h] = [hnd[call.h] EXCEPT !.vars = NewVars(vs, call.todo[1])]
        BY <3>1, <4>1
      <4> QED
        BY <4>1, <4>2 DEF StoreOf
    <3>6. Accepted(T, call', NewVars(vs, call.todo[1]))
      BY <3>1, <3>3, <3>4, ZenonT(60) DEF Accepted, Progressed
    <3>7. call.stage \in {"flush", "open"} /\ "open" # "flush" /\ "open" # "write"
      BY <3>1
    <3>8. Progressed(T, call', hnd'[call'.h].vars, file')
      BY <3>1, <3>3, <3>4, <3>5, <3>6, <3>7, Zenon DEF Progressed
    <3> QED
      BY <3>8, Zenon DEF Progress, Progressed, Through, Accepted
  \* The file is truncated.
  <2>truncate. ASSUME Truncate
               PROVE  Progress(T)'
    <3> USE <2>truncate, <2>1
    <3>1. /\ call # NoCall /\ call.stage = "open" /\ file' = [call.buf EXCEPT !.len = 0]
          /\ call' = [call EXCEPT !.stage = "write"] /\ UNCHANGED hnd
      BY DEF Truncate, Running
    <3>2. call \in CallsOn(T)
      BY <3>1 DEF StoreInv, CallInv
    <3>3. /\ call'.h = call.h /\ call'.todo = call.todo /\ call'.args = call.args /\ call'.stage = "write"
          /\ call'.before = call.before /\ call'.op = call.op /\ Through(call') = Through(call)
      BY <3>1, <3>2 DEF CallsOn, Through
    <3>4. CASE call.op = "Format"
      BY <3>3, <3>4 DEF Progress
    <3>5. CASE call.op # "Format"
      <4>1. Progressed(T, call, hnd[call.h].vars, file)
        BY <3>1, <3>5 DEF Progress
      <4>2. call.buf \in File
        BY <3>1, <3>5 DEF StoreInv, CallInv, Updating, Built
      <4>3. file'.len = 0
        BY <3>1, <4>2 DEF File
      <4>4. Accepted(T, call', hnd[call.h].vars)
        <5>1. "open" # "flush"
          OBVIOUS
        <5> QED
          BY <3>1, <3>3, <4>1, <5>1, Zenon DEF Accepted, Progressed
      <4>5. "write" \notin {"flush", "open"} /\ "write" # "flush"
        OBVIOUS
      <4>6. Progressed(T, call', hnd'[call'.h].vars, file')
        BY <3>1, <3>3, <4>1, <4>3, <4>4, <4>5, ZenonT(60) DEF Progressed
      <4> QED
        BY <4>6, Zenon DEF Progress, Progressed, Through, Accepted
    <3> QED
      BY <3>4, <3>5
  \* An operation is through and the next one is due.
  <2>write. ASSUME Write
            PROVE  Progress(T)'
    <3> USE <2>write, <2>1
    <3>1. call # NoCall /\ call.stage = "write" /\ file' = call.buf /\ UNCHANGED hnd /\ T \subseteq Variable
      BY DEF Write, Running, Admits
    <3>2. call \in CallsOn(T) /\ call.todo # <<>>
      BY <3>1 DEF StoreInv, CallInv
    <3>3. CASE call.op = "Format"
      <4>1. call' = [call EXCEPT !.stage = "reopen"]
        BY <3>3 DEF Write
      <4>2. call'.op = "Format"
        BY <3>2, <3>3, <4>1 DEF CallsOn
      <4> QED
        BY <4>2 DEF Progress
    <3>4. CASE call' = NoCall
      BY <3>4 DEF Progress
    <3>5. CASE call.op # "Format" /\ call' # NoCall
      <4>1. Completed
        BY <3>5 DEF Write
      <4>2. /\ call'.stage = "flush" /\ call'.todo = Tail(call.todo) /\ call'.op = call.op /\ call'.h = call.h
            /\ call'.args = call.args /\ call'.before = call.before /\ call'.disk = call.disk
        BY <3>1, <3>2, <3>5, <4>1, CompletedContinues, Zenon
      <4>3. Progressed(T, call, hnd[call.h].vars, file)
        BY <3>1, <3>5 DEF Progress
      <4>4. PICK m \in Nat : m = Through(call)
        BY <4>3 DEF Progressed
      <4>5. Done(hnd[call.h].vars, call.before, call.args, m + 1)
        BY <3>1, <3>5, <4>4, WrittenList
      <4>6. Parsed(file') = hnd[call.h].vars
        <5>1. Parsed(file') = CanonicalList(hnd[call.h].vars) /\ hnd[call.h].vars \in Seq(T)
          BY <3>1, <3>5, SuccessReadsBack, Zenon
        <5> QED
          BY <5>1, CanonicalListSame, Zenon
      <4>7. /\ Len(call.todo) \in Nat \ {0} /\ Len(call.args) \in Nat /\ Len(call.args) = m + Len(call.todo)
            /\ call.todo \in Seq(OpsOn(T))
        BY <3>1, <3>2, <3>5, <4>4, RunningOperation DEF CallsOn
      <4>8. /\ Len(Tail(call.todo)) = Len(call.todo) - 1
            /\ \A k \in 1 .. Len(Tail(call.todo)) : Tail(call.todo)[k] = call.todo[k + 1]
        BY <3>2, <4>7, SeqRest
      <4>9. Through(call') = m + 1 /\ m + 1 # 0 /\ m + 1 \in Nat
        <5>1. PICK t \in Nat : t = Len(call.todo)
          BY <4>7
        <5>2. PICK a \in Nat : a = Len(call.args) /\ a = m + t
          BY <4>7, <5>1
        <5>3. a - (t - 1) = m + 1 /\ m + 1 # 0 /\ m + 1 \in Nat
          BY <5>2
        <5> QED
          BY <4>2, <4>8, <5>1, <5>2, <5>3, Zenon DEF Through
      <4>10. ASSUME NEW k \in 1 .. Len(call'.todo) PROVE call'.todo[k] = call.args[(m + 1) + k]
        <5>1. k + 1 \in 1 .. Len(call.todo) /\ m + (k + 1) = (m + 1) + k /\ k \in 1 .. Len(Tail(call.todo))
          BY <4>2, <4>7, <4>8
        <5>2. call.todo[k + 1] = call.args[m + (k + 1)]
          BY <4>3, <4>4, <5>1, Zenon DEF Progressed
        <5> QED
          BY <4>2, <4>8, <5>1, <5>2, Zenon
      <4>11. "flush" # "write" /\ \A k \in 1 .. Len(call.args) : call.args[k].lax => k = Len(call.args)
        BY <4>3 DEF Progressed
      <4>12. Progressed(T, call', hnd'[call'.h].vars, file')
        BY <3>1, <4>2, <4>5, <4>6, <4>9, <4>10, <4>11, Zenon DEF Progressed
      <4> QED
        BY <4>12, Zenon DEF Progress, Progressed, Through, Accepted
    <3> QED
      BY <3>3, <3>4, <3>5
  <2>2. Failed => Progress(T)'
    BY <2>1, <2>failure, Zenon DEF Progress
  <2>3. Reopen => Progress(T)'
    <3>1. Reopen => call.op = "Format"
      BY <2>1 DEF StoreInv, CallInv, Updating, Reopen, Running
    <3>2. Reopen => Completed \/ Failed
      BY Zenon DEF Reopen
    <3> QED
      BY <2>1, <3>1, <3>2, FormatEnds, Zenon DEF StoreInv, Progress
  <2> QED
    BY <2>1, <2>2, <2>3, <2>accepted, <2>truncate, <2>write, Zenon
       DEF CallStep, FlushRejected, OpenFails, WriteFails
<1>2. CASE UNCHANGED <<file, hnd, call>>
  BY <1>2, Zenon DEF Progress, Progressed, Through, Accepted
<1>3. CASE call' = NoCall
  BY <1>3 DEF Progress
<1>4. ASSUME NEW h \in Handle, Format(h) PROVE Progress(T)'
  BY <1>4 DEF Format, Progress
<1>5. ASSUME NEW h \in Handle, NEW v \in T, Set(h, v) PROVE Progress(T)'
  <2>1. SetOp(v) \in OpsOn(T) /\ ~SetOp(v).lax
    BY OperationsTyped, Zenon
  <2>2. <<SetOp(v)>> \in Seq(OpsOn(T)) /\ Len(<<SetOp(v)>>) = 1
    BY <2>1, ShortLists, Zenon
  <2>3. \A k \in 1 .. 1 : k = 1
    OBVIOUS
  <2> QED
    BY <1>5, <2>2, <2>3, BeginProgresses, Zenon DEF Set
<1>6. ASSUME NEW h \in Handle, NEW key \in Key, Delete(h, key) PROVE Progress(T)'
  <2>1. DeleteOp(key, FALSE) \in OpsOn(T)
    BY OperationsTyped, Zenon
  <2>2. <<DeleteOp(key, FALSE)>> \in Seq(OpsOn(T)) /\ Len(<<DeleteOp(key, FALSE)>>) = 1
    BY <2>1, ShortLists, Zenon
  <2>3. \A k \in 1 .. 1 : k = 1
    OBVIOUS
  <2> QED
    BY <1>6, <2>2, <2>3, BeginProgresses, Zenon DEF Delete
<1>7. ASSUME NEW h \in Handle, NEW p \in Renames, Rename(h, p[1], p[2]) PROVE Progress(T)'
  <2>1. CASE UNCHANGED <<file, hnd, call>>
    BY <1>2, <2>1
  <2>2. ASSUME NEW a, NEW b, Begin(h, "Rename", <<a, b>>), a \in OpsOn(T), b \in OpsOn(T), ~a.lax
        PROVE  Progress(T)'
    <3>1. <<a, b>> \in Seq(OpsOn(T)) /\ Len(<<a, b>>) = 2 /\ <<a, b>>[1] = a
      BY <2>2, ShortLists, Zenon
    <3>2. \A k \in 1 .. 2 : k = 1 \/ k = 2
      OBVIOUS
    <3>3. \A k \in 1 .. Len(<<a, b>>) : <<a, b>>[k].lax => k = Len(<<a, b>>)
      BY <2>2, <3>1, <3>2, Zenon
    <3> QED
      BY <2>2, <3>1, <3>3, BeginProgresses, Zenon
  <2> QED
    BY <1>7, <2>1, <2>2, RenameBegins, Zenon
<1>8. ASSUME NEW h \in Handle, NEW v \in Values, Set(h, v) \/ WriteFile(h, v.name, v.data) PROVE Progress(T)'
  <2>1. v \in T /\ [name |-> v.name, guid |-> FsGuid, attrs |-> FsAttrs, data |-> v.data] \in T
    BY DEF Admits
  <2> QED
    BY <1>5, <1>8, <2>1, Zenon DEF WriteFile
<1>9. ASSUME NEW h \in Handle, NEW key \in {KeyOf(v) : v \in Values}, Delete(h, key) \/ DeleteFile(h, key.name)
      PROVE  Progress(T)'
  <2>1. key \in Key /\ PathKey(key.name) \in Key
    BY CallerAssumption DEF Key, KeyOf, Variable, PathKey
  <2> QED
    BY <1>6, <1>9, <2>1, Zenon DEF DeleteFile
<1>10. CASE CallStep
  BY <1>10, <1>call, Zenon
<1>11. ASSUME NEW h \in Handle, Open(h) \/ Close(h) PROVE call' = NoCall
  BY <1>11 DEF Open, Close, Idle
<1> QED
  BY <1>2, <1>3, <1>4, <1>7, <1>8, <1>9, <1>10, <1>11, Zenon DEF Next, vars, Crash, Return

-----------------------------------------------------------------------------
(***************************************************************************)
(* The calls of the store, operation by operation.                         *)
(***************************************************************************)

\* Variables with canonical names are admitted.
LEMMA CanonicalsAdmitted ==
    ASSUME ValidNames
    PROVE  Admits(Canonicals) /\ \A v \in Canonicals : Canonical(v) = v
<1>1. Canonicals \subseteq Variable /\ \A v \in Canonicals : Canonical(v) = v /\ Canonical(v) \in Canonicals
  BY DEF Canonicals
<1>2. ASSUME NEW v \in Variable, Canon[v.name] = v.name PROVE v \in Canonicals
  <2>1. [v EXCEPT !.name = v.name] = v
    BY DEF Variable
  <2> QED
    BY <1>2, <2>1 DEF Canonicals, Canonical
<1>3. Values \subseteq Variable /\ Renames \subseteq Name \X Name /\ FsGuid \in Guid /\ FsAttrs \in Attr
  BY CallerAssumption
<1>4. Values \subseteq Canonicals
  BY <1>2, <1>3 DEF ValidNames
<1>5. ASSUME NEW v \in Values
      PROVE  [name |-> v.name, guid |-> FsGuid, attrs |-> FsAttrs, data |-> v.data] \in Canonicals
  <2> DEFINE w == [name |-> v.name, guid |-> FsGuid, attrs |-> FsAttrs, data |-> v.data]
  <2>1. w \in Variable /\ w.name = v.name
    BY <1>3 DEF Variable
  <2> HIDE DEF w
  <2>2. w \in Canonicals
    BY <1>2, <2>1 DEF ValidNames
  <2> QED
    BY <2>2 DEF w
<1>6. ASSUME NEW p \in Renames, NEW v \in Canonicals PROVE [v EXCEPT !.name = p[2]] \in Canonicals
  <2> DEFINE w == [v EXCEPT !.name = p[2]]
  <2>1. w \in Variable /\ w.name = p[2]
    BY <1>1, <1>3 DEF Variable
  <2> HIDE DEF w
  <2>2. w \in Canonicals
    BY <1>2, <2>1 DEF ValidNames
  <2> QED
    BY <2>2 DEF w
<1> QED
  BY <1>1, <1>4, <1>5, <1>6, ImageAssumption, Zenon DEF Admits

\* Calls of the store have their shape.
LEMMA NextKeepsShape ==
    ASSUME ValidNames, NEW T, Admits(T), StoreInv(T), ShapeInv, [Next]_vars
    PROVE  ShapeInv'
<1> T \subseteq Variable
  BY DEF Admits
\* A step of a call keeps its shape.
<1>call. ASSUME CallStep \/ Crash
         PROVE  ShapeInv'
  <2> USE <1>call
  \* While it runs, a call stays the call that was made.
  <2>stays. ASSUME CallStep, call' # NoCall
            PROVE  /\ call # NoCall /\ call'.op = call.op /\ call'.args = call.args
                   /\ call'.before = call.before /\ call'.disk = call.disk
    <3> USE <2>stays
    <3>1. call # NoCall
      BY Zenon DEF CallStep, FlushAccepted, FlushRejected, Truncate, OpenFails, Write, Reopen, WriteFails, Running
    <3>2. call \in CallsOn(T) /\ call.todo # <<>>
      BY <3>1 DEF StoreInv, CallInv
    <3>3. CASE Completed
      BY <3>1, <3>2, <3>3, CompletedContinues, Zenon
    <3>4. CASE Failed
      BY <3>3, <3>4 DEF Failed, Return
    <3>5. CASE Truncate \/ FlushAccepted \/ (Write /\ call.op = "Format")
      BY <3>1, <3>2, <3>5, Zenon DEF Truncate, FlushAccepted, Write, CallsOn
    <3> QED
      BY <3>3, <3>4, <3>5, Zenon DEF CallStep, FlushRejected, OpenFails, Write, Reopen, WriteFails
  <2>1. CASE call' = NoCall
    BY <2>1 DEF ShapeInv
  <2>2. CASE CallStep /\ call' # NoCall
    <3>1. /\ call # NoCall /\ call'.op = call.op /\ call'.args = call.args /\ call'.before = call.before
      BY <2>2, <2>stays, Zenon
    <3>2. Shaped(call)
      BY <3>1 DEF ShapeInv
    <3> QED
      BY <3>1, <3>2, Zenon DEF ShapeInv, Shaped
  <2> QED
    BY <2>1, <2>2 DEF Crash, Return
<1>2. CASE UNCHANGED call
  BY <1>2, Zenon DEF ShapeInv, Shaped
<1>3. ASSUME NEW h, NEW op \in {"Set", "Delete"}, NEW o, Begin(h, op, <<o>>),
             o.kind \in {"set", "delete"}, Canon[o.key.name] = o.key.name
      PROVE  ShapeInv'
  <2>1. call'.op = op /\ call'.args[1] = o
    BY <1>3 DEF Begin
  <2>2. op # "Rename" /\ op # "Enroll" /\ op # "AddBootEntry"
    BY <1>3
  <2> QED
    BY <1>3, <2>1, <2>2, Zenon DEF ShapeInv, Shaped
<1>4. ASSUME NEW h \in Handle, NEW v, v.name \in {w.name : w \in Values}, Set(h, v) PROVE ShapeInv'
  <2>1. SetOp(v).kind = "set" /\ SetOp(v).key.name = v.name
    BY DEF SetOp, KeyOf
  <2>2. Canon[v.name] = v.name /\ "set" \in {"set", "delete"} /\ "Set" \in {"Set", "Delete"}
    BY <1>4 DEF ValidNames
  <2> QED
    BY <1>3, <1>4, <2>1, <2>2, Zenon DEF Set
<1>5. ASSUME NEW h \in Handle, NEW key, key.name \in {w.name : w \in Values}, Delete(h, key) PROVE ShapeInv'
  <2>1. DeleteOp(key, FALSE).kind = "delete" /\ DeleteOp(key, FALSE).key = key
    BY DEF DeleteOp
  <2>2. Canon[key.name] = key.name /\ "delete" \in {"set", "delete"} /\ "Delete" \in {"Set", "Delete"}
    BY <1>5 DEF ValidNames
  <2> QED
    BY <1>3, <1>5, <2>1, <2>2, Zenon DEF Delete
<1>6. ASSUME NEW h \in Handle, NEW v \in Values, Set(h, v) \/ WriteFile(h, v.name, v.data) PROVE ShapeInv'
  BY <1>4, <1>6 DEF WriteFile
<1>7. ASSUME NEW h \in Handle, NEW key \in {KeyOf(v) : v \in Values},
             Delete(h, key) \/ DeleteFile(h, key.name)
      PROVE  ShapeInv'
  <2>1. PICK v \in Values : key = KeyOf(v)
    BY <1>7
  <2>2. key.name \in {w.name : w \in Values} /\ PathKey(key.name).name = key.name
    BY <2>1 DEF KeyOf, PathKey
  <2> QED
    BY <1>5, <1>7, <2>2, Zenon DEF DeleteFile
<1>8. ASSUME NEW h \in Handle, Format(h) PROVE ShapeInv'
  BY <1>8 DEF Format, ShapeInv, Shaped
<1>9. ASSUME NEW h \in Handle, NEW p \in Renames, Rename(h, p[1], p[2]) PROVE ShapeInv'
  <2>1. ASSUME NEW v \in T, v.name = p[2], NEW from, from = PathKey(p[1]), v.guid = from.guid,
               Begin(h, "Rename", <<SetOp(v), DeleteOp(from, TRUE)>>)
        PROVE  ShapeInv'
    <3>1. call'.op = "Rename" /\ call'.args = <<SetOp(v), DeleteOp(PathKey(p[1]), TRUE)>>
      BY <2>1, Zenon DEF Begin
    <3>2. v.guid = FsGuid /\ v \in Variable
      BY <2>1 DEF PathKey
    <3>3. "Rename" # "Enroll" /\ "Rename" # "AddBootEntry" /\ "Rename" \notin {"Set", "Delete"}
      OBVIOUS
    <3> QED
      BY <2>1, <3>1, <3>2, <3>3, Zenon DEF ShapeInv, Shaped
  <2>2. UNCHANGED <<file, hnd, call>> => UNCHANGED call
    OBVIOUS
  <2>3. \/ UNCHANGED <<file, hnd, call>>
        \/ \E v \in T : \E from \in Key :
              /\ v.name = p[2] /\ from = PathKey(p[1]) /\ v.guid = from.guid
              /\ hnd[h] # Closed /\ SetOp(v) \in OpsOn(T) /\ DeleteOp(from, TRUE) \in OpsOn(T)
              /\ ~SetOp(v).lax
              /\ Begin(h, "Rename", <<SetOp(v), DeleteOp(from, TRUE)>>)
    BY <1>9, RenameBegins, ZenonT(60)
  <2> QED
    BY <1>2, <2>1, <2>2, <2>3, Zenon
<1>10. CASE CallStep \/ Crash
  BY <1>10, <1>call, Zenon
<1> QED
  BY <1>2, <1>6, <1>7, <1>8, <1>9, <1>10, Zenon DEF Next, vars, Open, Close

\* Every call makes its operations in order, each on the list and on the file
\* that the one before it left.
THEOREM OrderInvariant ==
    ASSUME LimitBelowWord, ValidNames
    PROVE  Spec => []OrderInv
<1>1. Admits(Canonicals) /\ \A v \in Canonicals : Canonical(v) = v
  BY CanonicalsAdmitted
<1>2. Init => OrderInv
  <2>1. Init => StoreInv(Canonicals)
    BY StoreInitEstablishes
  <2> QED
    BY <2>1 DEF Init, OrderInv, Progress, ShapeInv
<1>3. OrderInv /\ [Next]_vars => OrderInv'
  BY <1>1, StoreNextPreserves, NextProgresses, NextKeepsShape, Zenon DEF OrderInv
<1> QED
  BY <1>2, <1>3, PTL DEF Spec

\* While a call writes, the image it writes is the list of its handle, with the
\* effect of the running operation.
LEMMA ImageIsList ==
    ASSUME LimitBelowWord, OrderInv, call # NoCall, call.op # "Format", call.stage \in {"open", "write"}
    PROVE  /\ Parsed(call.buf) = hnd[call.h].vars /\ hnd[call.h].vars \in Seq(Canonicals)
           /\ Done(hnd[call.h].vars, call.before, call.args, Through(call) + 1)
           /\ Through(call) \in Nat /\ Through(call) + 1 \in 1 .. Len(call.args)
           /\ Len(call.args) = Through(call) + Len(call.todo)
<1>1. Canonicals \subseteq Variable /\ \A v \in Canonicals : Canonical(v) = v
  BY DEF Canonicals
<1>2. StoreInv(Canonicals) /\ Progress(Canonicals)
  BY DEF OrderInv
<1>3. Built(call.buf, hnd[call.h]) /\ SameRest(call.buf, file) /\ Agrees(Canonicals, hnd[call.h], file)
  BY <1>2 DEF StoreInv, CallInv, Updating
<1>4. Agrees(Canonicals, hnd[call.h], call.buf)
  BY <1>3, AgreesCarries, Zenon DEF Built
<1>5. hnd[call.h].vars \in Seq(Canonicals)
  BY <1>3 DEF Agrees, StoreOf
<1>6. Parsed(call.buf) = CanonicalList(hnd[call.h].vars)
  BY <1>1, <1>3, <1>4, BuiltReadsBack, Zenon
<1>7. CanonicalList(hnd[call.h].vars) = hnd[call.h].vars
  BY <1>1, <1>5, CanonicalListSame, Zenon
<1>8. Done(hnd[call.h].vars, call.before, call.args, Through(call) + 1)
  BY <1>1, <1>2, WrittenList, Zenon
<1> QED
  BY <1>1, <1>2, <1>5, <1>6, <1>7, <1>8, RunningOperation, Zenon

\* The copy and the key of a Rename are its two operations.
LEMMA MovedIsCopy ==
    ASSUME NEW v, NEW key, call.args = <<SetOp(v), DeleteOp(key, TRUE)>>
    PROVE  Moved = v /\ MovedFrom = key
<1> DEFINE a == SetOp(v)
           b == DeleteOp(key, TRUE)
<1>1. call.args = <<a, b>>
  OBVIOUS
<1>2. a.kind = "set" /\ a.var = v /\ b.kind = "delete" /\ b.key = key
  BY DEF SetOp, DeleteOp
<1> HIDE DEF a, b
<1>4. {call.args[k] : k \in DOMAIN call.args} = {a, b}
  <2>1. DOMAIN <<a, b>> = 1 .. 2 /\ <<a, b>>[1] = a /\ <<a, b>>[2] = b
    OBVIOUS
  <2>2. \A k : k \in 1 .. 2 <=> k = 1 \/ k = 2
    OBVIOUS
  <2> QED
    BY <1>1, <2>1, <2>2, Zenon
<1>3. (CHOOSE op \in {a, b} : op.kind = "set") = a /\ (CHOOSE op \in {a, b} : op.kind = "delete") = b
  BY <1>2
<1> QED
  BY <1>2, <1>3, <1>4, Zenon DEF Moved, MovedFrom

\* What the two operations of a Rename have done.
LEMMA RenameDone ==
    ASSUME NEW v, NEW key, NEW args, args = <<SetOp(v), DeleteOp(key, TRUE)>>, NEW vs, NEW before
    PROVE  /\ Done(vs, before, args, 1) => Has(vs, KeyOf(v)) /\ Get(vs, KeyOf(v)) = v
           /\ Done(vs, before, args, 2) =>
                 /\ ~Has(vs, key)
                 /\ key # KeyOf(v) => Has(vs, KeyOf(v)) /\ Get(vs, KeyOf(v)) = v
<1>1. args[1] = SetOp(v) /\ args[2] = DeleteOp(key, TRUE)
  BY DEF SetOp, DeleteOp
<1>2. /\ args[1].kind = "set" /\ args[1].var = v /\ args[1].key = KeyOf(v)
      /\ args[2].kind # "set" /\ args[2].key = key
  BY <1>1 DEF SetOp, DeleteOp
<1>3. /\ 1 \in 1 .. 1 /\ 1 \in 1 .. 2 /\ 2 \in 1 .. 2 /\ 1 + 1 .. 1 = {} /\ 2 + 1 .. 2 = {}
      /\ \A j \in 1 + 1 .. 2 : j = 2
  OBVIOUS
<1>4. Done(vs, before, args, 1) => Effect(vs, args[1])
  BY <1>3, Zenon DEF Done
<1>5. Done(vs, before, args, 2) => Effect(vs, args[2])
  BY <1>3, Zenon DEF Done
<1>6. Done(vs, before, args, 2) /\ key # KeyOf(v) => Effect(vs, args[1])
  BY <1>2, <1>3, Zenon DEF Done
<1> QED
  BY <1>2, <1>4, <1>5, <1>6, Zenon DEF Effect

\* The shape of a running Rename.
LEMMA RenameShape ==
    ASSUME OrderInv, call # NoCall, call.op = "Rename"
    PROVE  \E p \in Renames : \E v \in Variable :
              /\ v.name = p[2] /\ v.guid = FsGuid
              /\ call.args = <<SetOp(v), DeleteOp(PathKey(p[1]), TRUE)>> /\ Len(call.args) = 2
<1>1. PICK p \in Renames, v \in Variable :
         /\ v.name = p[2] /\ v.guid = FsGuid
         /\ call.args = <<SetOp(v), DeleteOp(PathKey(p[1]), TRUE)>>
  BY Zenon DEF OrderInv, ShapeInv, Shaped
<1>2. Len(call.args) = 2
  BY <1>1
<1> QED
  BY <1>1, <1>2, Zenon

\* Every image a Rename hands to os.WriteFile holds the data, under one of the
\* two names at least, at any point where the call may fail or be cut short.
\* The names differ: a Rename of a variable to itself deletes it.
THEOREM RenameNeverLoses ==
    ASSUME LimitBelowWord, ValidNames, Renaming
    PROVE  Spec => []RenameKeepsCopy
\* The invariant says what RenameKeepsCopy says.
<1>copy. ASSUME OrderInv
         PROVE  RenameKeepsCopy
  <2> USE <1>copy
  <2> SUFFICES ASSUME call # NoCall, call.op = "Rename", call.stage \in {"open", "write"}
               PROVE  Has(Parsed(call.buf), KeyOf(Moved)) /\ Get(Parsed(call.buf), KeyOf(Moved)) = Moved
    BY Zenon DEF RenameKeepsCopy
  <2>1. PICK p \in Renames, v \in Variable :
           /\ v.name = p[2] /\ v.guid = FsGuid
           /\ call.args = <<SetOp(v), DeleteOp(PathKey(p[1]), TRUE)>> /\ Len(call.args) = 2
    BY RenameShape, Zenon
  <2>2. Moved = v /\ PathKey(p[1]) # KeyOf(v)
    BY <2>1, MovedIsCopy, Zenon DEF Renaming, PathKey, KeyOf
  <2>3. "Rename" # "Format"
    OBVIOUS
  <2>4. PICK m \in Nat : m = Through(call) /\ m + 1 \in 1 .. 2
    BY <2>1, <2>3, ImageIsList, Zenon
  <2>5. m + 1 = 1 \/ m + 1 = 2
    BY <2>4
  <2>6. Parsed(call.buf) = hnd[call.h].vars /\ Done(hnd[call.h].vars, call.before, call.args, m + 1)
    BY <2>3, <2>4, ImageIsList, Zenon
  <2>7. Done(hnd[call.h].vars, call.before, call.args, 1) \/ Done(hnd[call.h].vars, call.before, call.args, 2)
    BY <2>5, <2>6, Zenon
  <2>8. Has(hnd[call.h].vars, KeyOf(v)) /\ Get(hnd[call.h].vars, KeyOf(v)) = v
    <3> DEFINE vs == hnd[call.h].vars
               args == call.args
               before == call.before
               key == PathKey(p[1])
    <3>1. args = <<SetOp(v), DeleteOp(key, TRUE)>> /\ key # KeyOf(v)
      BY <2>1, <2>2
    <3>2. Done(vs, before, args, 1) \/ Done(vs, before, args, 2)
      BY <2>7
    <3> HIDE DEF vs, args, before, key
    <3>3. Has(vs, KeyOf(v)) /\ Get(vs, KeyOf(v)) = v
      BY <3>1, <3>2, RenameDone, Zenon
    <3> QED
      BY <3>3 DEF vs
  <2> QED
    BY <2>2, <2>6, <2>8, Zenon
<1>1. OrderInv => RenameKeepsCopy
  BY <1>copy
<1> QED
  BY <1>1, OrderInvariant, PTL

\* A call that returns nil by a write has made all its operations.
LEMMA AllDone ==
    ASSUME LimitBelowWord, ValidNames, OrderInv, CallStep, call # NoCall, call.op # "Format",
           call' = NoCall, ret' = "ok", call.stage = "write", file' = call.buf
    PROVE  /\ UNCHANGED hnd /\ Parsed(file') = hnd[call.h].vars
           /\ Done(Parsed(file'), call.before, call.args, Len(call.args)) /\ Len(call.todo) = 1
<1>1. "write" \in {"open", "write"} /\ Admits(Canonicals) /\ StoreInv(Canonicals)
  BY CanonicalsAdmitted DEF OrderInv
<1>2. Len(call.todo) = 1 /\ UNCHANGED hnd
  BY <1>1, SuccessMeansWritten, Zenon
<1>3. /\ Parsed(call.buf) = hnd[call.h].vars
      /\ Done(hnd[call.h].vars, call.before, call.args, Through(call) + 1)
      /\ Len(call.args) = Through(call) + Len(call.todo)
  BY <1>1, ImageIsList, Zenon
<1> QED
  BY <1>2, <1>3, Zenon

\* A Rename whose last write goes through has moved the variable: the new name
\* carries the data and the old name is gone, duplicates included.
THEOREM RenameHasMoved ==
    ASSUME LimitBelowWord, ValidNames
    PROVE  Spec => RenameMoves
<1>1. OrderInv /\ [Next]_vars => [MoveStep]_vars
  <2> SUFFICES ASSUME OrderInv, [Next]_vars, Returns({"Rename"}, "ok"), call.stage = "write",
                      file' = call.buf, KeyOf(Moved) # MovedFrom
               PROVE  /\ Has(Parsed(file'), KeyOf(Moved)) /\ Get(Parsed(file'), KeyOf(Moved)) = Moved
                      /\ ~Has(Parsed(file'), MovedFrom)
    BY DEF MoveStep
  <2>1. call # NoCall /\ call.op = "Rename" /\ call.op # "Format" /\ call' = NoCall /\ ret' = "ok"
    BY DEF Returns
  <2>2. CallStep
    <3>1. ~Crash /\ ~UNCHANGED vars
      BY <2>1 DEF Crash, Return, vars
    <3> QED
      BY <2>1, <3>1, RunningSteps, Zenon
  <2>3. PICK p \in Renames, v \in Variable :
           call.args = <<SetOp(v), DeleteOp(PathKey(p[1]), TRUE)>> /\ Len(call.args) = 2
    BY <2>1, RenameShape, Zenon
  <2>4. Moved = v /\ MovedFrom = PathKey(p[1])
    BY <2>3, MovedIsCopy, Zenon
  <2>5. Done(Parsed(file'), call.before, call.args, 2)
    BY <2>1, <2>2, <2>3, AllDone, Zenon
  <2>6. KeyOf(v) # PathKey(p[1])
    BY <2>4, Zenon
  <2>7. Has(Parsed(file'), KeyOf(v)) /\ Get(Parsed(file'), KeyOf(v)) = v /\ ~Has(Parsed(file'), PathKey(p[1]))
    BY <2>3, <2>5, <2>6, RenameDone, Zenon
  <2> QED
    BY <2>4, <2>7, Zenon
<1> QED
  BY <1>1, OrderInvariant, PTL DEF Spec, RenameMoves, MoveStep

\* A call on a handle that was up to date changes no variable on disk but the
\* ones it was asked to change, whatever happened before it (Set, Delete,
\* Rename).
THEOREM OthersAreUntouched ==
    ASSUME LimitBelowWord, ValidNames
    PROVE  Spec => OthersUntouched
\* A successful call has done its operations, or all but a last one that may
\* fail.
<1>done. ASSUME OrderInv, CallStep, call # NoCall, call.op \in {"Set", "Delete", "Rename"},
                call' = NoCall, ret' = "ok", call.stage = "write" => file' = call.buf
         PROVE  \E n \in 0 .. Len(call.args) : Done(Parsed(file'), call.before, call.args, n)
  <2> USE <1>done
  <2>1. call.op # "Format" /\ Admits(Canonicals) /\ StoreInv(Canonicals) /\ Progress(Canonicals)
        /\ Canonicals \subseteq Variable
    BY CanonicalsAdmitted DEF OrderInv, Canonicals
  <2>2. PICK m \in Nat : m = Through(call) /\ m + 1 \in 1 .. Len(call.args) /\ Len(call.args) = m + Len(call.todo)
    BY <2>1, RunningOperation, Zenon
  <2>3. PICK a \in Nat : a = Len(call.args)
    BY <2>1, RunningOperation, Zenon
  <2>4. CASE call.stage = "write"
    <3>1. Done(Parsed(file'), call.before, call.args, a)
      BY <2>1, <2>3, <2>4, AllDone, Zenon
    <3>2. a \in 0 .. a
      OBVIOUS
    <3> QED
      BY <2>3, <3>1, <3>2, Zenon
  <2>5. CASE call.stage # "write"
    <3>1. call.todo[1].lax /\ call.stage \in {"flush", "open"} /\ UNCHANGED file /\ Len(call.todo) = 1
      BY <2>1, <2>5, SuccessMeansWritten, Zenon
    <3>2. call.op = "Rename"
      BY <3>1 DEF OrderInv, StoreInv, CallInv, Single
    <3>3. a = 2
      BY <2>3, <3>2, RenameShape, Zenon
    <3>4. m = 1 /\ m # 0 /\ m \in 0 .. a
      BY <2>2, <2>3, <3>1, <3>3
    <3>5. Done(Parsed(file), call.before, call.args, m)
      BY <2>1, <2>2, <3>1, <3>4, Zenon DEF Progress, Progressed
    <3> QED
      BY <2>3, <3>1, <3>4, <3>5, Zenon
  <2> QED
    BY <2>4, <2>5
<1>1. OrderInv /\ [Next]_vars => [OthersStep]_vars
  <2> SUFFICES ASSUME OrderInv, [Next]_vars, Returns({"Set", "Delete", "Rename"}, "ok"),
                      call.before = call.disk, call.stage = "write" => file' = call.buf,
                      NEW key \in Key, \A k \in DOMAIN call.args : call.args[k].key # key
               PROVE  SameFor(key, call.before, Parsed(file'))
    BY Zenon DEF OthersStep
  <2>1. call # NoCall /\ call.op \in {"Set", "Delete", "Rename"} /\ call' = NoCall /\ ret' = "ok"
    BY DEF Returns
  <2>2. CallStep
    <3>1. ~Crash /\ ~UNCHANGED vars
      BY <2>1 DEF Crash, Return, vars
    <3> QED
      BY <2>1, <3>1, RunningSteps, Zenon
  <2>3. PICK n \in 0 .. Len(call.args) : Done(Parsed(file'), call.before, call.args, n)
    BY <2>1, <2>2, <1>done, Zenon
  <2>4. call.args \in Seq(OpsOn(Canonicals))
    BY <2>1 DEF OrderInv, StoreInv, CallInv, CallsOn
  <2>5. \A k \in 1 .. n : k \in DOMAIN call.args
    BY <2>4, SeqDomain
  <2> QED
    BY <2>3, <2>5, Zenon DEF Done
<1> QED
  BY <1>1, OrderInvariant, PTL DEF Spec, OthersUntouched, OthersStep

\* After a WriteFile or DeleteFile that returned nil, ReadFile, Stat and ListDir
\* of any handle opened then agree with it, however many variables of that
\* name the store had held.
THEOREM AdapterDoesAgree ==
    ASSUME LimitBelowWord, ValidNames
    PROVE  Spec => AdapterAgrees
\* The adapter finds what a Set or Delete left.
<1>reads. ASSUME NEW T, T \subseteq Variable, NEW ws \in Seq(T), NEW o \in OpsOn(T),
                 o.kind \in {"set", "delete"}, o.key.guid = FsGuid, Canon[o.key.name] = o.key.name,
                 NEW vs, vs = NewVars(ws, o)
          PROVE  AdapterSays(vs, o)
  <2> USE <1>reads
  \* The matches of the key an operation was for: one after a Set, none after a
  \* Delete.
  <2>match. LET S == {k \in DOMAIN vs : KeyOf(vs[k]) = o.key}
            IN IF o.kind = "set" THEN \E k \in S : S = {k} ELSE S = {}
    <3> DEFINE us == Without(ws, o.key)
               n == Len(us)
               S == {k \in DOMAIN vs : KeyOf(vs[k]) = o.key}
    <3>1. us \in Seq(T) /\ ~Has(us, o.key)
      BY WithoutProperties, Zenon
    <3>2. n \in Nat /\ DOMAIN us = 1 .. n
      BY <3>1, SeqDomain
    <3>3. CASE o.kind = "set"
      <4>1. o.var \in T /\ KeyOf(o.var) = o.key
        BY <3>3 DEF OpsOn
      <4>2. vs = Append(us, o.var)
        BY <3>3, Zenon DEF NewVars
      <4> HIDE DEF us
      <4>3. DOMAIN vs = 1 .. n + 1 /\ vs[n + 1] = o.var /\ \A k \in 1 .. n : vs[k] = us[k]
        BY <3>1, <4>1, <4>2
      <4> HIDE DEF n
      <4>4. ASSUME NEW k \in DOMAIN vs PROVE KeyOf(vs[k]) = o.key <=> k = n + 1
        <5>1. CASE k = n + 1
          BY <4>1, <4>3, <5>1, Zenon
        <5>2. CASE k \in 1 .. n
          <6>1. KeyOf(us[k]) # o.key
            BY <3>1, <3>2, <5>2, Zenon DEF Has
          <6>2. k # n + 1 /\ vs[k] = us[k]
            BY <3>2, <4>3, <5>2
          <6> QED
            BY <6>1, <6>2, Zenon
        <5> QED
          BY <3>2, <4>3, <5>1, <5>2
      <4>5. n + 1 \in DOMAIN vs
        BY <3>2, <4>3
      <4>6. S = {n + 1}
        BY <4>4, <4>5, Zenon
      <4> QED
        BY <3>3, <4>6, Zenon
    <3>4. CASE o.kind # "set"
      <4>1. vs = us
        BY <3>4, Zenon DEF NewVars
      <4>2. S = {}
        BY <3>1, <4>1, Zenon DEF Has
      <4> QED
        BY <3>4, <4>2, Zenon
    <3> QED
      BY <3>3, <3>4
  <2> DEFINE path == Canon[o.key.name]
             data == IF o.kind = "set" THEN o.var.data ELSE NoData
             here == {k \in DOMAIN vs : ListDir(vs)[k] = path /\ vs[k].guid = FsGuid}
  <2>1. o.key \in Key /\ (o.kind = "set" => o.var \in T /\ o.key = KeyOf(o.var))
    BY Zenon DEF OpsOn, Operation
  <2>2. o.key = [name |-> path, guid |-> FsGuid]
    BY <2>1 DEF Key
  <2>3. /\ o.kind = "set" => Has(vs, o.key) /\ Get(vs, o.key) = o.var
        /\ o.kind # "set" => ~Has(vs, o.key)
        /\ vs \in Seq(T)
    BY <2>1, NewVarsProperties, Zenon
  <2>4. ReadFile(vs, path) = data
    BY <2>2, <2>3, Zenon DEF ReadFile
  <2>5. data = NoData <=> o.kind # "set"
    BY <2>1, DataAssumption DEF Variable
  <2>6. Stat(vs, path) = IF data = NoData THEN NoData ELSE DataLen[data]
    BY <2>4, Zenon DEF Stat
  <2>7. here = {k \in DOMAIN vs : KeyOf(vs[k]) = o.key}
    <3>1. ASSUME NEW k \in DOMAIN vs PROVE KeyOf(vs[k]) = o.key <=> ListDir(vs)[k] = path /\ vs[k].guid = FsGuid
      BY <2>2 DEF KeyOf, ListDir
    <3> QED
      BY <3>1, Zenon
  <2>8. IF o.kind = "set" THEN \E k \in here : here = {k} ELSE here = {}
    BY <2>7, <2>match, ZenonT(60)
  <2> HIDE DEF here
  <2>9. IF data = NoData THEN here = {} ELSE \E k \in here : here = {k}
    <3> HIDE DEF data
    <3> QED
      BY <2>5, <2>8, Zenon
  <2> QED
    BY <2>4, <2>6, <2>9, Zenon DEF AdapterSays, here
<1>1. OrderInv /\ [Next]_vars => [AdapterStep]_vars
  <2> SUFFICES ASSUME OrderInv, [Next]_vars, Returns({"Set", "Delete"}, "ok"), call.args[1].key.guid = FsGuid
               PROVE  AdapterStep
    BY Zenon DEF AdapterStep
  <2>1. call # NoCall /\ call.op \in {"Set", "Delete"} /\ call.op # "Format" /\ call' = NoCall /\ ret' = "ok"
    BY DEF Returns
  <2>2. CallStep
    <3>1. ~Crash /\ ~UNCHANGED vars
      BY <2>1 DEF Crash, Return, vars
    <3> QED
      BY <2>1, <3>1, RunningSteps, Zenon
  <2>3. call.todo = call.args /\ ~call.args[1].lax
    BY <2>1 DEF OrderInv, StoreInv, CallInv, Single
  <2>4. Admits(Canonicals) /\ StoreInv(Canonicals) /\ Progress(Canonicals) /\ Canonicals \subseteq Variable
    BY CanonicalsAdmitted DEF OrderInv, Canonicals
  <2>5. call.stage = "write" /\ file' = call.buf
    BY <2>1, <2>2, <2>3, <2>4, SuccessMeansWritten, Zenon
  <2>6. Parsed(file') = hnd[call.h].vars
    BY <2>1, <2>2, <2>5, AllDone, Zenon
  <2>7. PICK ws \in Seq(Canonicals) : hnd[call.h].vars = NewVars(ws, call.args[1])
    <3>1. Accepted(Canonicals, call, hnd[call.h].vars)
      BY <2>1, <2>4, <2>5 DEF Progress, Progressed
    <3> QED
      BY <2>3, <3>1, ZenonT(60) DEF Accepted
  <2>8. call.args[1] \in OpsOn(Canonicals)
    BY <2>1, <2>3, <2>4, RunningOperation, Zenon
  <2>9. call.args[1].kind \in {"set", "delete"} /\ Canon[call.args[1].key.name] = call.args[1].key.name
    BY <2>1, Zenon DEF OrderInv, ShapeInv, Shaped
  <2> QED
    BY <2>4, <2>6, <2>7, <2>8, <2>9, <1>reads, Zenon DEF AdapterStep
<1> QED
  BY <1>1, OrderInvariant, PTL DEF Spec, AdapterAgrees, AdapterStep, AdapterSays

-----------------------------------------------------------------------------
(***************************************************************************)
(* What the file holds while a call runs.                                  *)
(***************************************************************************)

\* What is found in the front of a list is found in the list.
LEMMA FrontSees ==
    ASSUME NEW T, NEW vs \in Seq(T), NEW m \in 0 .. Len(vs), NEW key, Has(Front(vs, m), key)
    PROVE  Has(vs, key) /\ Get(Front(vs, m), key) = Get(vs, key)
<1> DEFINE us == Front(vs, m)
<1>1. Len(vs) \in Nat /\ DOMAIN vs = 1 .. Len(vs) /\ m \in Nat /\ \A k \in 1 .. m : k \in 1 .. Len(vs)
  BY SeqDomain
<1>2. us \in Seq(T) /\ DOMAIN us = 1 .. m /\ \A k \in 1 .. m : us[k] = vs[k]
  BY <1>1, SeqElement DEF Front
<1> HIDE DEF us
<1>3. PICK k : FirstAt(us, key, k)
  BY <1>2, FirstExists, Zenon DEF us
<1>4. FirstAt(vs, key, k)
  BY <1>1, <1>2, <1>3 DEF FirstAt
<1>5. Get(us, key) = us[k] /\ Get(vs, key) = vs[k] /\ Has(vs, key) /\ k \in 1 .. m
  BY <1>2, <1>3, <1>4, GetIsFirst DEF FirstAt
<1> QED
  BY <1>2, <1>5, Zenon DEF us

\* The variable that was set last is at the end of the list and nowhere else.
LEMMA SetIsLast ==
    ASSUME NEW T, NEW ws \in Seq(T), NEW o \in OpsOn(T), o.kind = "set",
           NEW vs, vs = NewVars(ws, o), NEW m \in 0 .. Len(vs), Has(Front(vs, m), o.key)
    PROVE  Front(vs, m) = vs
<1> DEFINE us == Without(ws, o.key)
           n == Len(us)
<1>1. us \in Seq(T) /\ ~Has(us, o.key) /\ o.var \in T
  BY WithoutProperties, Zenon DEF OpsOn
<1>2. vs = Append(us, o.var)
  BY Zenon DEF NewVars
<1> HIDE DEF us
<1>3. n \in Nat /\ DOMAIN us = 1 .. n
  BY <1>1, SeqDomain
<1>4. Len(vs) = n + 1 /\ DOMAIN vs = 1 .. n + 1 /\ \A k \in 1 .. n : vs[k] = us[k]
  BY <1>1, <1>2
<1> HIDE DEF n
<1>5. m \in Nat /\ m <= n + 1
  BY <1>3, <1>4
<1>6. DOMAIN Front(vs, m) = 1 .. m /\ \A k \in 1 .. m : Front(vs, m)[k] = vs[k]
  BY DEF Front
<1>7. PICK k \in 1 .. m : KeyOf(vs[k]) = o.key
  BY <1>6, Zenon DEF Has
<1>8. k \notin 1 .. n
  <2> SUFFICES ASSUME k \in 1 .. n PROVE FALSE
    OBVIOUS
  <2>1. KeyOf(us[k]) = o.key
    BY <1>4, <1>7, Zenon
  <2> QED
    BY <1>1, <1>3, <2>1, Zenon DEF Has
<1>9. m = n + 1
  BY <1>3, <1>5, <1>8
<1>10. vs = [j \in 1 .. n + 1 |-> vs[j]]
  BY <1>1, <1>2, <1>4
<1> QED
  BY <1>9, <1>10, Zenon DEF Front

\* What a fresh Open finds after a step of a running call: what it found
\* before the write, or a front of the list that is written.
LEMMA FileDuringCall ==
    ASSUME LimitBelowWord, Admits(Canonicals), OrderInv, call # NoCall, call.op # "Format",
           UNCHANGED vars \/ CallStep \/ Crash, Opens(file')
    PROVE  \/ call.stage \in {"flush", "open"} /\ file' = file
           \/ /\ call.stage = "write"
              /\ \E m \in 0 .. Len(hnd[call.h].vars) : Parsed(file') = Front(hnd[call.h].vars, m)
\* An empty file is no store.
<1>empty. ASSUME NEW f, f.len = 0
          PROVE  ~Opens(f)
  <2> USE <1>empty
  <2> SUFFICES ASSUME StoreOff(f) + StoreHeaderSize <= f.len PROVE FALSE
    BY Zenon DEF Opens, HeaderAccepted
  <2>1. StoreOff(f) \in Nat
    BY DEF StoreOff, FvHeaderSize
  <2> QED
    BY <2>1 DEF StoreHeaderSize
\* While a call runs, only its write changes the file.
<1>writes. ASSUME NEW T, StoreInv(T)
           PROVE  \/ UNCHANGED file
                  \/ call.stage = "open" /\ file' = [call.buf EXCEPT !.len = 0]
                  \/ call.stage = "write" /\ Partial(file')
  <2> USE <1>writes
  <2>1. CASE UNCHANGED vars
    BY <2>1 DEF vars
  <2>2. ASSUME NEW c \in Cuts, Running("write"), ShortenTo(c) PROVE call.stage = "write" /\ Partial(file')
    BY <2>2, ImageAssumption DEF Running, ShortenTo, Partial
  <2>3. CASE CallStep
    <3>1. CASE Truncate
      BY <3>1 DEF Truncate, Running
    <3>2. CASE Write
      BY <3>2 DEF Write, Running, Partial
    <3> QED
      BY <2>2, <2>3, <3>1, <3>2, Zenon
         DEF CallStep, FlushAccepted, FlushRejected, OpenFails, Reopen, WriteFails
  <2>4. CASE Crash
    BY <2>2, <2>4, Zenon DEF Crash
  <2> QED
    BY <2>1, <2>3, <2>4
<1>1. StoreInv(Canonicals) /\ Progress(Canonicals) /\ Canonicals \subseteq Variable
      /\ \A v \in Canonicals : Canonical(v) = v
  BY DEF OrderInv, Canonicals
<1>2. call \in CallsOn(Canonicals) /\ call.stage # "reopen"
  BY <1>1 DEF StoreInv, CallInv, Updating
<1>3. CASE UNCHANGED file
  <2>1. call.stage = "write" => file.len = 0
    BY <1>1, Zenon DEF Progress, Progressed
  <2>2. call.stage # "write"
    BY <1>3, <2>1, <1>empty
  <2> QED
    BY <1>2, <1>3, <2>2 DEF CallsOn
<1>4. CASE call.stage = "open" /\ file' = [call.buf EXCEPT !.len = 0]
  <2>1. call.buf \in File
    BY <1>1, <1>4 DEF StoreInv, CallInv, Updating, Built
  <2>2. file'.len = 0
    BY <1>4, <2>1 DEF File
  <2> QED
    BY <2>2, <1>empty
<1>5. CASE call.stage = "write" /\ Partial(file')
  <2> DEFINE vs == hnd[call.h].vars
             b == call.buf
  <2>1. "write" \in {"open", "write"}
    OBVIOUS
  <2>2. Agrees(Canonicals, hnd[call.h], file) /\ Built(b, hnd[call.h]) /\ SameRest(b, file)
    BY <1>1, <1>5 DEF StoreInv, CallInv, Updating
  <2>3. vs \in Seq(Canonicals) /\ b.recs = Serialized(vs) /\ b \in File
    BY <2>2 DEF Built, Agrees, StoreOf
  <2>4. PayloadLen(vs, IsAuth(b)) + 3 < Word
    BY <1>1, <2>2, <2>3, AgreesCarries, BuiltReadsBack, Zenon
  <2>5. file' \in File /\ SameRest(b, file')
    BY <1>1, <1>5, <2>1, ImageWritten, Zenon
  <2>6. file'.recs = b.recs /\ IsAuth(file') = IsAuth(b)
    <3>1. CASE file' = b
      BY <3>1
    <3>2. ASSUME NEW n \in Nat, file' = [b EXCEPT !.len = n] PROVE file'.recs = b.recs /\ IsAuth(file') = IsAuth(b)
      BY <2>3, <3>2 DEF File, IsAuth
    <3> QED
      BY <1>5, <3>1, <3>2 DEF Partial
  <2> HIDE DEF vs, b
  <2>7. vs \in Seq(Variable)
    BY <1>1, <2>3, SeqMonotone, Zenon
  <2>8. file'.recs = Serialized(vs) /\ PayloadLen(vs, IsAuth(file')) + 3 < Word
    BY <2>3, <2>4, <2>6, Zenon
  <2>9. PICK f \in File : f = file'
    BY <2>5
  <2>10. PICK m \in 0 .. Len(vs) : Parsed(f) = [k \in 1 .. m |-> Canonical(vs[k])]
    BY <2>7, <2>8, <2>9, ParsedOfWritten, Zenon
  <2>11. \A k \in 1 .. m : Canonical(vs[k]) = vs[k]
    <3> TAKE k \in 1 .. m
    <3>1. k \in 1 .. Len(vs)
      BY <2>3, SeqDomain
    <3>2. vs[k] \in Canonicals
      BY <2>3, <3>1, SeqElement, Zenon
    <3> QED
      BY <1>1, <3>2, Zenon
  <2>12. Parsed(file') = Front(vs, m)
    BY <2>9, <2>10, <2>11, Zenon DEF Front
  <2> QED
    BY <1>5, <2>12, Zenon DEF vs
<1> QED
  BY <1>1, <1>3, <1>4, <1>5, <1>writes, Zenon

\* The list of the handle while it is written is what the running operation
\* made of an earlier one.
LEMMA WrittenFrom ==
    ASSUME OrderInv, call # NoCall, call.op # "Format", call.stage \in {"open", "write"}
    PROVE  \E ws \in Seq(Canonicals) :
              /\ hnd[call.h].vars = NewVars(ws, call.todo[1])
              /\ Through(call) = 0 => ws = call.before
              /\ call.todo[1].kind # "fail"
              /\ Done(ws, call.before, call.args, Through(call))
<1>1. call.stage # "flush"
  OBVIOUS
<1>2. Accepted(Canonicals, call, hnd[call.h].vars)
  BY <1>1, Zenon DEF OrderInv, Progress, Progressed
<1> QED
  BY <1>2, Zenon DEF Accepted
============================================================================
