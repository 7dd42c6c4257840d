--------------------------- MODULE CallersProofs ---------------------------
(***************************************************************************)
(* Theorems about the callers above the store: Secure Boot enrollment,     *)
(* authenticated writes and boot entries, on the same handles.             *)
(***************************************************************************)
EXTENDS OrderProofs

-----------------------------------------------------------------------------
(***************************************************************************)
(* The whole program: Secure Boot keys, authenticated writes and boot      *)
(* entries on the same handles.                                            *)
(***************************************************************************)

\* The steps of a program while a call runs.
LEMMA CallersRunning ==
    ASSUME [CallersNext]_vars, call # NoCall
    PROVE  UNCHANGED vars \/ CallStep \/ Crash
<1>1. CASE [Next]_vars
  BY <1>1, RunningSteps
<1> QED
  BY <1>1, Zenon DEF CallersNext, EnrollSecureBootKeys, WriteAuthenticatedVariable, AddBootEntry, Idle

\* EnrollSecureBootKeys begins with three Sets.
LEMMA EnrollBegins ==
    ASSUME NEW T, CallersAdmit(T), NEW h \in Handle, NEW keys \in KeySets, EnrollSecureBootKeys(h, keys)
    PROVE  Begins(T, h, "Enroll", Entries(keys))
<1> DEFINE e == Entries(keys)
<1>1. T \subseteq Variable /\ \A k \in 1 .. 3 : e[k].var \in T
  BY DEF CallersAdmit, Admits
<1>2. Len(e) = 3 /\ DOMAIN e = 1 .. 3 /\ e # <<>>
  BY DEF Entries
<1>3. ASSUME NEW k \in 1 .. 3 PROVE e[k] \in OpsOn(T) /\ ~e[k].lax
  <2>1. PICK v : e[k] = SetOp(v)
    <3>1. k = 1 \/ k = 2 \/ k = 3
      OBVIOUS
    <3> QED
      BY <3>1 DEF Entries, EnrollOne
  <2>2. v \in T
    BY <1>1, <2>1 DEF SetOp
  <2> QED
    BY <1>1, <2>1, <2>2, OperationsTyped, Zenon
<1>4. e \in Seq(OpsOn(T))
  <2>1. e = [k \in 1 .. 3 |-> e[k]]
    BY DEF Entries
  <2> HIDE DEF e
  <2> QED
    BY <1>3, <2>1
<1>5. hnd[h] # Closed /\ Begin(h, "Enroll", e) /\ "Enroll" \in {"Enroll", "AuthWrite", "AddBootEntry"}
  BY DEF EnrollSecureBootKeys
<1> HIDE DEF e
<1>6. Begins(T, h, "Enroll", e)
  BY <1>2, <1>3, <1>4, <1>5, Zenon DEF Begins
<1> QED
  BY <1>6 DEF e

\* WriteAuthenticatedVariable begins with one Set, or is refused.
LEMMA AuthWriteBegins ==
    ASSUME NEW T, CallersAdmit(T), NEW h \in Handle, NEW w \in AuthWrites, WriteAuthenticatedVariable(h, w)
    PROVE  \/ UNCHANGED <<file, hnd, call>>
           \/ \E todo : Begins(T, h, "AuthWrite", todo)
<1> DEFINE v == [name |-> w.name, guid |-> w.guid, attrs |-> WriteAttrs(w), data |-> Payload(w)]
<1>1. CASE w.signer = NoSigner
  BY <1>1, Zenon DEF WriteAuthenticatedVariable
<1>2. CASE w.signer # NoSigner
  <2>1. v \in T /\ T \subseteq Variable
    BY <1>2 DEF CallersAdmit, Admits
  <2>2. hnd[h] # Closed /\ Begin(h, "AuthWrite", <<SetOp(v)>>)
    BY <1>2, Zenon DEF WriteAuthenticatedVariable
  <2> HIDE DEF v
  <2>3. SetOp(v) \in OpsOn(T) /\ ~SetOp(v).lax
    BY <2>1, OperationsTyped, Zenon
  <2>4. <<SetOp(v)>> \in Seq(OpsOn(T)) /\ Len(<<SetOp(v)>>) = 1 /\ <<SetOp(v)>> # <<>>
    BY <2>3, ShortLists, Zenon
  <2>5. (\A k \in 1 .. 1 : k = 1) /\ "AuthWrite" \in {"Enroll", "AuthWrite", "AddBootEntry"}
    OBVIOUS
  <2>6. Begins(T, h, "AuthWrite", <<SetOp(v)>>)
    BY <2>2, <2>4, <2>5, Zenon DEF Begins
  <2> QED
    BY <2>6, Zenon
<1> QED
  BY <1>1, <1>2

\* AddBootEntry begins with the entry, under the first free number.
LEMMA AddBegins ==
    ASSUME NEW T, CallersAdmit(T), StoreInv(T), NEW h \in Handle, NEW lo \in LoadOption, AddBootEntry(h, lo)
    PROVE  \/ UNCHANGED <<file, hnd, call>>
           \/ \E n \in FreeNums(hnd[h].vars) :
                 /\ n = Min(FreeNums(hnd[h].vars))
                 /\ Begins(T, h, "AddBootEntry", AddOps(hnd[h].vars, n, lo))
\* A set of numbers that is not empty has a smallest element.
<1>smallest. ASSUME NEW S, S \subseteq Nat, S # {}
             PROVE  Min(S) \in S
  <2> USE <1>smallest
  <2>1. PICK m \in S : \A j \in S : m <= j
    BY LowestExists, Zenon
  <2> QED
    BY <2>1, Zenon DEF Min
<1> DEFINE vs == hnd[h].vars
           free == FreeNums(vs)
<1>1. CASE free = {}
  BY <1>1, Zenon DEF AddBootEntry
<1>2. CASE free # {}
  <2>1. hnd[h] # Closed /\ Begin(h, "AddBootEntry", AddOps(vs, Min(free), lo))
    BY <1>2, Zenon DEF AddBootEntry
  <2>2. vs \in Seq(T) /\ T \subseteq Variable
    BY <2>1 DEF StoreInv, HandleInv, Agrees, StoreOf, CallersAdmit, Admits
  <2>3. free \subseteq Nat /\ free \subseteq Num
    BY BootAssumption, SeqDomain DEF FreeNums, Num
  <2> HIDE DEF vs
  <2>4. Min(free) \in free
    BY <1>2, <2>3, <1>smallest
  <2>5. PICK n \in free : n = Min(free)
    BY <2>4
  <2>6. n \in Num
    BY <2>3, <2>5
  <2> DEFINE a == Global(EntryKey(n), lo)
             o == IF OrderUnreadable(vs) THEN FailOp ELSE Global(OrderKey, [order |-> Append(OrderOf(vs), n)])
  <2>7. a \in OpsOn(T) /\ ~a.lax
    <3>1. PICK v : a = SetOp(v)
      BY DEF Global
    <3>2. v \in T
      BY <2>6, <3>1 DEF CallersAdmit, SetOp
    <3> HIDE DEF a
    <3> QED
      BY <2>2, <3>1, <3>2, OperationsTyped, Zenon
  <2>8. o \in OpsOn(T)
    <3>1. CASE OrderUnreadable(vs)
      BY <2>2, <3>1, OperationsTyped, Zenon
    <3>2. CASE ~OrderUnreadable(vs)
      <4>1. PICK v : o = SetOp(v)
        BY <3>2 DEF Global
      <4>2. Global(OrderKey, [order |-> Append(OrderOf(vs), n)]).var \in T
        BY <2>2, <2>6, <3>2 DEF CallersAdmit
      <4>3. v \in T
        BY <3>2, <4>1, <4>2 DEF SetOp
      <4> HIDE DEF o
      <4> QED
        BY <2>2, <4>1, <4>3, OperationsTyped, Zenon
    <3> QED
      BY <3>1, <3>2
  <2>9. AddOps(vs, n, lo) = <<a, o>>
    BY DEF AddOps
  <2> HIDE DEF a, o
  <2>10. <<a, o>> \in Seq(OpsOn(T)) /\ Len(<<a, o>>) = 2 /\ <<a, o>>[1] = a /\ <<a, o>> # <<>>
    BY <2>7, <2>8, ShortLists, Zenon
  <2>11. (\A k \in 1 .. 2 : k = 1 \/ k = 2) /\ "AddBootEntry" \in {"Enroll", "AuthWrite", "AddBootEntry"}
    OBVIOUS
  <2>12. \A k \in 1 .. Len(<<a, o>>) : <<a, o>>[k].lax => k = Len(<<a, o>>)
    BY <2>7, <2>10, <2>11, Zenon
  <2>13. Begins(T, h, "AddBootEntry", AddOps(vs, n, lo))
    BY <2>1, <2>5, <2>9, <2>10, <2>11, <2>12, Zenon DEF Begins
  <2> QED
    BY <2>5, <2>13, Zenon DEF vs
<1> QED
  BY <1>1, <1>2

\* Calls that begin keep the invariants.
LEMMA BeginsKeeps ==
    ASSUME NEW T, Admits(T), StoreInv(T), NEW h \in Handle, NEW op, NEW todo, Begins(T, h, op, todo)
    PROVE  StoreInv(T)' /\ Progress(T)'
<1>1. Startable(T, op, todo)
  BY DEF Begins, Startable
<1> QED
  BY <1>1, BeginPreserves, BeginProgresses, Zenon DEF Begins

\* Every step of a program keeps the invariant of the store.
LEMMA CallersPreserve ==
    ASSUME LimitBelowWord, NEW T, CallersAdmit(T), StoreInv(T), [CallersNext]_vars
    PROVE  StoreInv(T)'
<1>1. Admits(T)
  BY DEF CallersAdmit
<1>2. CASE [Next]_vars
  BY <1>1, <1>2, StoreNextPreserves, Zenon
<1>3. CASE UNCHANGED <<file, hnd, call>>
  BY <1>3, RefusalPreserves
<1>4. ASSUME NEW h \in Handle, NEW keys \in KeySets, EnrollSecureBootKeys(h, keys) PROVE StoreInv(T)'
  BY <1>1, <1>4, EnrollBegins, BeginsKeeps, Zenon
<1>5. ASSUME NEW h \in Handle, NEW w \in AuthWrites, WriteAuthenticatedVariable(h, w) PROVE StoreInv(T)'
  BY <1>1, <1>3, <1>5, AuthWriteBegins, BeginsKeeps, Zenon
<1>6. ASSUME NEW h \in Handle, NEW lo \in LoadOption, AddBootEntry(h, lo) PROVE StoreInv(T)'
  BY <1>1, <1>3, <1>6, AddBegins, BeginsKeeps, Zenon
<1> QED
  BY <1>2, <1>4, <1>5, <1>6, Zenon DEF CallersNext

\* A variable whose name UTF-16 keeps is canonical.
LEMMA CanonicalFromName ==
    ASSUME NEW n \in Name, Canon[n] = n, NEW g \in Guid, NEW a \in Attr, NEW d \in Data
    PROVE  [name |-> n, guid |-> g, attrs |-> a, data |-> d] \in Canonicals
BY DEF Canonicals, Canonical, Variable

\* The variables of an enrollment.
LEMMA EntriesTyped ==
    ASSUME NEW keys \in KeySets, NEW k \in 1 .. 3
    PROVE  Entries(keys)[k].var \in Canonicals /\ Entries(keys)[k].var.attrs = SbAttrs
<1>1. /\ Canon["db"] = "db" /\ Canon["KEK"] = "KEK" /\ Canon["PK"] = "PK"
      /\ "db" \in Name /\ "KEK" \in Name /\ "PK" \in Name /\ "global" \in Guid /\ "image" \in Guid
      /\ SbAttrs \in Attr /\ keys.db \in Data /\ keys.kek \in Data /\ keys.pk \in Data
  BY EnrollAssumption
<1>2. /\ EnrollOne("db", "image", keys.db).var \in Canonicals
      /\ EnrollOne("KEK", "global", keys.kek).var \in Canonicals
      /\ EnrollOne("PK", "global", keys.pk).var \in Canonicals
  BY <1>1, CanonicalFromName DEF EnrollOne, SetOp
<1>3. \A name, ns, cert : EnrollOne(name, ns, cert).var.attrs = SbAttrs
  BY DEF EnrollOne, SetOp
<1>4. k = 1 \/ k = 2 \/ k = 3
  OBVIOUS
<1> HIDE DEF EnrollOne
<1> QED
  BY <1>2, <1>3, <1>4 DEF Entries

\* The variables of the boot manager.
LEMMA GlobalTyped ==
    ASSUME NEW key \in Key, Canon[key.name] = key.name, NEW d \in Data
    PROVE  Global(key, d).var \in Canonicals /\ Global(key, d).var.attrs = BootVarAttrs
<1>1. BootVarAttrs \in Attr /\ key.name \in Name /\ key.guid \in Guid
  BY BootAssumption DEF Key
<1>2. Global(key, d).var = [name |-> key.name, guid |-> key.guid, attrs |-> BootVarAttrs, data |-> d]
  BY DEF Global, SetOp
<1>3. Global(key, d).var \in Canonicals
  BY <1>1, <1>2, CanonicalFromName, Zenon
<1> QED
  BY <1>2, <1>3

\* Their names are valid.
LEMMA BootKeys ==
    /\ \A n \in Num : EntryKey(n) \in Key /\ Canon[EntryKey(n).name] = EntryKey(n).name
    /\ OrderKey \in Key /\ Canon[OrderKey.name] = OrderKey.name
<1>1. ASSUME NEW n \in Num PROVE EntryKey(n) \in Key /\ Canon[EntryKey(n).name] = EntryKey(n).name
  <2>1. n + 1 \in 1 .. Len(BootName) /\ FsGuid \in Guid
    BY CallerAssumption, BootAssumption, SeqDomain DEF Num
  <2>2. BootName[n + 1] \in {m \in Name : Canon[m] = m} \ {"BootOrder"}
    BY <2>1, BootAssumption, SeqElement
  <2> QED
    BY <2>1, <2>2 DEF EntryKey, PathKey, Key
<1>2. OrderKey \in Key /\ Canon[OrderKey.name] = OrderKey.name
  BY CallerAssumption, BootAssumption DEF OrderKey, PathKey, Key
<1> QED
  BY <1>1, <1>2

\* The order AddBootEntry writes is a payload.
LEMMA OrderPayload ==
    ASSUME OrdersExtend, NEW T, T \subseteq Variable, NEW vs \in Seq(T), NEW n \in Num, ~OrderUnreadable(vs)
    PROVE  [order |-> Append(OrderOf(vs), n)] \in Data
<1>1. OrderOf(vs) = <<>> \/ \E d \in Data : "order" \in DOMAIN d /\ OrderOf(vs) = d.order
  <2>1. CASE ~Has(vs, OrderKey)
    BY <2>1, Zenon DEF OrderOf
  <2>2. CASE Has(vs, OrderKey)
    <3>1. Get(vs, OrderKey) \in Variable
      BY <2>2, GetProperties, Zenon
    <3>2. Get(vs, OrderKey).data \in Data
      BY <3>1 DEF Variable
    <3> QED
      BY <2>2, <3>2, Zenon DEF OrderOf, OrderUnreadable
  <2> QED
    BY <2>1, <2>2
<1> QED
  BY <1>1, Zenon DEF OrdersExtend

\* The callers above the store respect T if their variables are in T.
LEMMA CallersAdmitted ==
    ASSUME OrdersExtend, NEW T, Admits(T),
           \A v \in Canonicals : v.attrs \in {SbAttrs, BootVarAttrs} => v \in T,
           \A w \in AuthWrites : w.signer # NoSigner =>
               [name |-> w.name, guid |-> w.guid, attrs |-> WriteAttrs(w), data |-> Payload(w)] \in T
    PROVE  CallersAdmit(T)
<1>1. SbAttrs \in {SbAttrs, BootVarAttrs} /\ BootVarAttrs \in {SbAttrs, BootVarAttrs} /\ T \subseteq Variable
  BY DEF Admits
<1>2. \A keys \in KeySets : \A k \in 1 .. 3 : Entries(keys)[k].var \in T
  BY <1>1, EntriesTyped, Zenon
<1>3. ASSUME NEW lo \in LoadOption, NEW n \in Num PROVE Global(EntryKey(n), lo).var \in T
  <2>1. lo \in Data
    BY BootAssumption
  <2> QED
    BY <1>1, <2>1, BootKeys, GlobalTyped, Zenon
<1>4. ASSUME NEW vs \in Seq(T), NEW n \in Num, ~OrderUnreadable(vs)
      PROVE  Global(OrderKey, [order |-> Append(OrderOf(vs), n)]).var \in T
  <2>1. [order |-> Append(OrderOf(vs), n)] \in Data
    BY <1>1, <1>4, OrderPayload, Zenon
  <2> QED
    BY <1>1, <2>1, BootKeys, GlobalTyped, Zenon
<1> QED
  BY <1>2, <1>3, <1>4, Zenon DEF CallersAdmit

\* The callers above the store keep names canonical.
LEMMA CallersCanonical ==
    ASSUME ValidCallers
    PROVE  CallersAdmit(Canonicals) /\ \A v \in Canonicals : Canonical(v) = v
<1>1. Admits(Canonicals) /\ (\A v \in Canonicals : Canonical(v) = v) /\ OrdersExtend
  BY CanonicalsAdmitted DEF ValidCallers
<1>2. ASSUME NEW w \in AuthWrites, w.signer # NoSigner
      PROVE  [name |-> w.name, guid |-> w.guid, attrs |-> WriteAttrs(w), data |-> Payload(w)] \in Canonicals
  <2>1. /\ w.name \in Name /\ w.guid \in Guid /\ WriteAttrs(w) \in Attr /\ Payload(w) \in Data
        /\ Canon[w.name] = w.name
    BY <1>2, PayloadAssumption, Zenon DEF ValidCallers
  <2> QED
    BY <2>1, CanonicalFromName, Zenon
<1>3. \A v \in Canonicals : v.attrs \in {SbAttrs, BootVarAttrs} => v \in Canonicals
  OBVIOUS
<1> QED
  BY <1>1, <1>2, <1>3, CallersAdmitted, Zenon

\* In the whole program, every call makes its operations in order, each on the
\* list and on the file that the one before it left.
THEOREM CallersInvariant ==
    ASSUME LimitBelowWord, ValidCallers
    PROVE  CallersSpec => []OrderInv
\* Every step of a program keeps to the order of operations.
<1>progress. ASSUME NEW T, CallersAdmit(T), \A v \in T : Canonical(v) = v, StoreInv(T), Progress(T),
                    [CallersNext]_vars
             PROVE  Progress(T)'
  <2> USE <1>progress
  <2>1. Admits(T)
    BY DEF CallersAdmit
  <2>2. CASE [Next]_vars
    BY <2>1, <2>2, NextProgresses, Zenon
  <2>3. CASE UNCHANGED <<file, hnd, call>>
    BY <2>3, Zenon DEF Progress, Progressed, Through, Accepted
  <2>4. ASSUME NEW h \in Handle, NEW keys \in KeySets, EnrollSecureBootKeys(h, keys) PROVE Progress(T)'
    BY <2>1, <2>4, EnrollBegins, BeginsKeeps, Zenon
  <2>5. ASSUME NEW h \in Handle, NEW w \in AuthWrites, WriteAuthenticatedVariable(h, w) PROVE Progress(T)'
    BY <2>1, <2>3, <2>5, AuthWriteBegins, BeginsKeeps, Zenon
  <2>6. ASSUME NEW h \in Handle, NEW lo \in LoadOption, AddBootEntry(h, lo) PROVE Progress(T)'
    BY <2>1, <2>3, <2>6, AddBegins, BeginsKeeps, Zenon
  <2> QED
    BY <2>2, <2>4, <2>5, <2>6, Zenon DEF CallersNext
\* Every call of a program has its shape.
<1>shape. ASSUME ValidNames, NEW T, CallersAdmit(T), StoreInv(T), ShapeInv, [CallersNext]_vars
          PROVE  ShapeInv'
  <2> USE <1>shape
  <2>1. Admits(T)
    BY Zenon DEF CallersAdmit
  <2>2. CASE [Next]_vars
    BY <2>1, <2>2, NextKeepsShape, Zenon
  <2>3. CASE UNCHANGED <<file, hnd, call>>
    BY <2>3, Zenon DEF ShapeInv, Shaped
  <2>4. ASSUME NEW h \in Handle, NEW keys \in KeySets, EnrollSecureBootKeys(h, keys) PROVE ShapeInv'
    <3>1. call'.op = "Enroll" /\ call'.args = Entries(keys)
      BY <2>4 DEF EnrollSecureBootKeys, Begin
    <3>2. "Enroll" \notin {"Set", "Delete"} /\ "Enroll" # "Rename" /\ "Enroll" # "AddBootEntry"
      OBVIOUS
    <3> QED
      BY <3>1, <3>2, Zenon DEF ShapeInv, Shaped
  <2>5. ASSUME NEW h \in Handle, NEW w \in AuthWrites, WriteAuthenticatedVariable(h, w) PROVE ShapeInv'
    <3>1. ASSUME NEW todo, Begins(T, h, "AuthWrite", todo) PROVE ShapeInv'
      <4>1. call'.op = "AuthWrite"
        BY <3>1 DEF Begins, Begin
      <4> QED
        BY <4>1 DEF ShapeInv, Shaped
    <3> QED
      BY <2>3, <2>5, <3>1, AuthWriteBegins, Zenon
  <2>6. ASSUME NEW h \in Handle, NEW lo \in LoadOption, AddBootEntry(h, lo) PROVE ShapeInv'
    <3>1. ASSUME NEW n \in FreeNums(hnd[h].vars), n = Min(FreeNums(hnd[h].vars)),
                 Begins(T, h, "AddBootEntry", AddOps(hnd[h].vars, n, lo))
          PROVE  ShapeInv'
      <4>1. /\ call'.op = "AddBootEntry" /\ call'.before = hnd[h].vars
            /\ call'.args = AddOps(hnd[h].vars, n, lo)
        BY <3>1 DEF Begins, Begin
      <4>2. "AddBootEntry" \notin {"Set", "Delete"} /\ "AddBootEntry" # "Rename" /\ "AddBootEntry" # "Enroll"
        OBVIOUS
      <4> QED
        BY <3>1, <4>1, <4>2, Zenon DEF ShapeInv, Shaped
    <3> QED
      BY <2>3, <2>6, <3>1, AddBegins, Zenon
  <2> QED
    BY <2>2, <2>4, <2>5, <2>6, Zenon DEF CallersNext
<1>1. CallersAdmit(Canonicals) /\ (\A v \in Canonicals : Canonical(v) = v) /\ ValidNames
  BY CallersCanonical DEF ValidCallers
<1>2. Init => OrderInv
  <2>1. Init => StoreInv(Canonicals)
    BY StoreInitEstablishes
  <2> QED
    BY <2>1 DEF Init, OrderInv, Progress, ShapeInv
<1>3. OrderInv /\ [CallersNext]_vars => OrderInv'
  BY <1>1, CallersPreserve, <1>progress, <1>shape, Zenon DEF OrderInv
<1> QED
  BY <1>2, <1>3, PTL DEF CallersSpec

-----------------------------------------------------------------------------
(***************************************************************************)
(* Enrollment.                                                             *)
(***************************************************************************)

\* What the first n operations of an enrollment have done.
LEMMA EnrollDone ==
    ASSUME NEW args, DOMAIN args = 1 .. 3, \A k \in 1 .. 3 : args[k].kind = "set",
           \A j, k \in 1 .. 3 : j # k => args[j].key # args[k].key,
           NEW vs, NEW before, NEW n \in 0 .. 3, Done(vs, before, args, n)
    PROVE  /\ \A k \in 1 .. 3 : k <= n => Has(vs, args[k].key) /\ Get(vs, args[k].key) = args[k].var
           /\ \A k \in 1 .. 3 : n < k => SameFor(args[k].key, before, vs)
<1>1. ASSUME NEW k \in 1 .. 3, k <= n PROVE Has(vs, args[k].key) /\ Get(vs, args[k].key) = args[k].var
  <2>1. k \in 1 .. n /\ \A j \in k + 1 .. n : j \in 1 .. 3 /\ j # k
    BY <1>1
  <2>2. Effect(vs, args[k])
    BY <2>1, Zenon DEF Done
  <2> QED
    BY <2>2, Zenon DEF Effect
<1>2. ASSUME NEW k \in 1 .. 3, n < k PROVE SameFor(args[k].key, before, vs)
  <2>1. \A j \in 1 .. n : j \in 1 .. 3 /\ j # k
    BY <1>2
  <2> QED
    BY <2>1, Zenon DEF Done
<1> QED
  BY <1>1, <1>2

\* The operations of a running enrollment.
LEMMA EnrollShape ==
    ASSUME OrderInv, Enrolling
    PROVE  /\ call # NoCall /\ call.op # "Format"
           /\ DOMAIN call.args = 1 .. 3 /\ Len(call.args) = 3 /\ call.args[3].key = PK
           /\ \A k \in 1 .. 3 : call.args[k].kind = "set" /\ ~call.args[k].lax
           /\ \A j, k \in 1 .. 3 : j # k => call.args[j].key # call.args[k].key
           /\ Through(call) \in 0 .. 2 /\ call.todo[1] = call.args[Through(call) + 1]
           /\ call.todo[1] \in OpsOn(Canonicals) /\ hnd[call.h].vars \in Seq(Canonicals)
\* The three operations of an enrollment are Sets of different variables.
<1>apart. ASSUME NEW keys
          PROVE  LET e == Entries(keys)
                 IN /\ Len(e) = 3 /\ DOMAIN e = 1 .. 3 /\ e[3].key = PK
                    /\ \A k \in 1 .. 3 : e[k].kind = "set" /\ ~e[k].lax
                    /\ \A j, k \in 1 .. 3 : j # k => e[j].key # e[k].key
  <2> USE <1>apart
  <2> DEFINE e == Entries(keys)
             a == EnrollOne("db", "image", keys.db)
             b == EnrollOne("KEK", "global", keys.kek)
             c == EnrollOne("PK", "global", keys.pk)
  <2>1. /\ a.key = [name |-> "db", guid |-> "image"] /\ b.key = [name |-> "KEK", guid |-> "global"]
        /\ c.key = [name |-> "PK", guid |-> "global"]
        /\ a.kind = "set" /\ b.kind = "set" /\ c.kind = "set" /\ ~a.lax /\ ~b.lax /\ ~c.lax
    BY DEF EnrollOne, SetOp, KeyOf
  <2>2. a.key.name = "db" /\ b.key.name = "KEK" /\ c.key.name = "PK"
    BY <2>1
  <2>3. a.key # b.key /\ a.key # c.key /\ b.key # c.key
    BY <2>2
  <2>4. e = <<a, b, c>>
    BY DEF Entries
  <2> HIDE DEF a, b, c, e
  <2>5. Len(e) = 3 /\ DOMAIN e = 1 .. 3 /\ e[1] = a /\ e[2] = b /\ e[3] = c
    BY <2>4
  <2>6. \A k \in 1 .. 3 : k = 1 \/ k = 2 \/ k = 3
    OBVIOUS
  <2>7. e[3].key = PK
    BY <2>1, <2>5 DEF PK
  <2>8. \A k \in 1 .. 3 : e[k].kind = "set" /\ ~e[k].lax
    BY <2>1, <2>5, <2>6, Zenon
  <2>9. \A j, k \in 1 .. 3 : j # k => e[j].key # e[k].key
    BY <2>3, <2>5, <2>6, Zenon
  <2> QED
    BY <2>5, <2>7, <2>8, <2>9 DEF e
<1>1. call # NoCall /\ call.op = "Enroll" /\ call.op # "Format"
  BY DEF Enrolling
<1>2. PICK keys \in KeySets : call.args = Entries(keys)
  BY <1>1, Zenon DEF OrderInv, ShapeInv, Shaped
<1>3. /\ DOMAIN call.args = 1 .. 3 /\ Len(call.args) = 3 /\ call.args[3].key = PK
      /\ \A k \in 1 .. 3 : call.args[k].kind = "set" /\ ~call.args[k].lax
      /\ \A j, k \in 1 .. 3 : j # k => call.args[j].key # call.args[k].key
  BY <1>2, <1>apart
<1>4. StoreInv(Canonicals) /\ Progress(Canonicals) /\ Canonicals \subseteq Variable
  BY DEF OrderInv, Canonicals
<1>5. PICK m \in Nat : m = Through(call) /\ m + 1 \in 1 .. 3
  BY <1>1, <1>3, <1>4, RunningOperation, Zenon
<1>6. m \in 0 .. 2
  BY <1>5
<1> QED
  BY <1>1, <1>3, <1>4, <1>5, <1>6, RunningOperation, Zenon

\* All three are enrolled in a list on which all operations were done.
LEMMA AllEnrolled ==
    ASSUME OrderInv, Enrolling, NEW vs, Done(vs, call.before, call.args, 3)
    PROVE  Enrolled(vs) = DOMAIN call.args
<1> DEFINE args == call.args
           before == call.before
<1>1. /\ DOMAIN args = 1 .. 3 /\ \A j \in 1 .. 3 : args[j].kind = "set"
      /\ \A i, j \in 1 .. 3 : i # j => args[i].key # args[j].key
      /\ Done(vs, before, args, 3)
  BY EnrollShape, Zenon
<1>2. 3 \in 0 .. 3 /\ \A j \in 1 .. 3 : j <= 3
  OBVIOUS
<1> HIDE DEF args, before
<1>3. \A j \in 1 .. 3 : Has(vs, args[j].key) /\ Get(vs, args[j].key) = args[j].var
  BY <1>1, <1>2, EnrollDone, Zenon
<1>4. \A j \in DOMAIN args : Has(vs, args[j].key) /\ Get(vs, args[j].key) = args[j].var
  BY <1>1, <1>3, Zenon
<1> QED
  BY <1>4, Zenon DEF Enrolled, Present, args

\* An enrollment that returns nil has written all three variables, to memory and
\* file; one that is stopped has set those before the failing one and left those
\* behind it as they were (EnrollSecureBootKeys, enrollOne).
THEOREM EnrollmentIsOrdered ==
    ASSUME LimitBelowWord, ValidCallers
    PROVE  CallersSpec => EnrollIsOrdered
\* A call that ends leaves the list of its handle as it is.
<1>list. ASSUME NEW T, Admits(T), StoreInv(T), CallStep, call # NoCall, call.op # "Format",
                call' = NoCall
         PROVE  UNCHANGED hnd
  <2> USE <1>list
  <2>1. call.stage # "reopen"
    BY DEF StoreInv, CallInv, Updating
  <2>2. ~FlushAccepted /\ ~Truncate /\ ~Reopen
    BY <2>1, FlushAcceptedPreserves, TruncatePreserves, Zenon DEF Reopen, Running
  <2> QED
    BY <2>2, ZenonT(60) DEF CallStep, FlushRejected, OpenFails, Write, WriteFails
\* What the list of the handle holds of an enrollment: everything before the
\* running operation, nothing behind it.
<1>sofar. ASSUME OrderInv, Enrolling, NEW k \in 1 .. 3, k # Through(call) + 1
          PROVE  IF k < Through(call) + 1 THEN k \in Enrolled(hnd[call.h].vars)
                                          ELSE SameFor(call.args[k].key, call.before, hnd[call.h].vars)
  <2> USE <1>sofar
  <2> DEFINE vs == hnd[call.h].vars
  <2>1. /\ call # NoCall /\ call.op # "Format" /\ DOMAIN call.args = 1 .. 3
        /\ \A j \in 1 .. 3 : call.args[j].kind = "set"
        /\ \A i, j \in 1 .. 3 : i # j => call.args[i].key # call.args[j].key
    BY EnrollShape, Zenon
  <2>2. PICK m \in 0 .. 2 : m = Through(call)
    BY EnrollShape, Zenon
  <2>3. m \in 0 .. 3 /\ m + 1 \in 0 .. 3
    OBVIOUS
  <2>4. PICK n \in 0 .. 3 : Done(vs, call.before, call.args, n) /\ (n = m \/ n = m + 1)
    <3>1. CASE call.stage = "flush"
      <4>1. Done(vs, call.before, call.args, m)
        BY <2>1, <2>2, <3>1, Zenon DEF OrderInv, Progress, Progressed
      <4> QED
        BY <2>3, <4>1, Zenon
    <3>2. CASE call.stage # "flush"
      <4>1. StoreInv(Canonicals) /\ Progress(Canonicals) /\ Canonicals \subseteq Variable
        BY DEF OrderInv, Canonicals
      <4>2. call \in CallsOn(Canonicals) /\ call.stage # "reopen"
        BY <2>1, <4>1 DEF StoreInv, CallInv, Updating
      <4>3. call.stage \in {"open", "write"}
        BY <3>2, <4>2 DEF CallsOn
      <4>4. Done(vs, call.before, call.args, m + 1)
        BY <2>1, <2>2, <4>1, <4>3, WrittenList, Zenon
      <4> QED
        BY <2>3, <4>4, Zenon
    <3> QED
      BY <3>1, <3>2
  <2>5. /\ \A j \in 1 .. 3 : j <= n => Has(vs, call.args[j].key) /\ Get(vs, call.args[j].key) = call.args[j].var
        /\ \A j \in 1 .. 3 : n < j => SameFor(call.args[j].key, call.before, vs)
    <3> DEFINE args == call.args
               before == call.before
    <3> HIDE DEF vs, args, before
    <3>1. /\ \A j \in 1 .. 3 : j <= n => Has(vs, args[j].key) /\ Get(vs, args[j].key) = args[j].var
          /\ \A j \in 1 .. 3 : n < j => SameFor(args[j].key, before, vs)
      <4>1. /\ DOMAIN args = 1 .. 3 /\ \A j \in 1 .. 3 : args[j].kind = "set"
            /\ \A i, j \in 1 .. 3 : i # j => args[i].key # args[j].key
            /\ Done(vs, before, args, n)
        BY <2>1, <2>4, Zenon DEF args, before
      <4> QED
        BY <4>1, EnrollDone, Zenon
    <3> QED
      BY <3>1 DEF args, before
  <2>6. CASE k < m + 1
    <3>1. k <= n
      BY <2>4, <2>6
    <3>2. k \in Enrolled(vs)
      BY <2>1, <2>5, <3>1, Zenon DEF Enrolled, Present
    <3> QED
      BY <2>2, <2>6, <3>2
  <2>7. CASE ~(k < m + 1)
    <3>1. n < k
      BY <2>2, <2>4, <2>7
    <3> QED
      BY <2>2, <2>5, <2>7, <3>1, Zenon
  <2> QED
    BY <2>6, <2>7
<1>1. OrderInv /\ [CallersNext]_vars => [EnrollStep]_vars
  <2> SUFFICES ASSUME OrderInv, [CallersNext]_vars, Enrolling, call' = NoCall, ret' # "none" PROVE EnrollStep
    BY Zenon DEF EnrollStep
  <2>1. Admits(Canonicals) /\ StoreInv(Canonicals) /\ Progress(Canonicals) /\ Canonicals \subseteq Variable /\ ValidNames
    BY CanonicalsAdmitted DEF OrderInv, Canonicals, ValidCallers
  <2>2. /\ call # NoCall /\ call.op # "Format" /\ DOMAIN call.args = 1 .. 3 /\ Len(call.args) = 3
        /\ \A k \in 1 .. 3 : ~call.args[k].lax
        /\ Through(call) \in 0 .. 2 /\ call.todo[1] = call.args[Through(call) + 1]
    BY EnrollShape, Zenon
  <2>3. CallStep
    <3>1. ~Crash /\ ~UNCHANGED vars
      BY <2>2 DEF Crash, Return, vars
    <3> QED
      BY <2>2, <3>1, CallersRunning, Zenon
  <2>4. UNCHANGED hnd
    BY <2>1, <2>2, <2>3, <1>list, Zenon
  <2>5. CASE ret' = "ok"
    <3>1. Through(call) + 1 \in 1 .. 3
      BY <2>2
    <3>2. ~call.todo[1].lax
      BY <2>2, <3>1, Zenon
    <3>3. call.stage = "write" /\ file' = call.buf
      BY <2>1, <2>2, <2>3, <2>5, <3>2, SuccessMeansWritten, Zenon
    <3>4. Parsed(file') = hnd[call.h].vars /\ Done(Parsed(file'), call.before, call.args, 3)
      BY <2>1, <2>2, <2>3, <2>5, <3>3, AllDone, Zenon
    <3>5. Enrolled(Parsed(file')) = DOMAIN call.args
      BY <3>4, AllEnrolled, Zenon
    <3> QED
      BY <2>4, <2>5, <3>4, <3>5, Zenon DEF EnrollStep
  <2>6. CASE ret' # "ok"
    <3>1. ASSUME NEW k \in DOMAIN call.args \ {Through(call) + 1}
          PROVE  IF k < Through(call) + 1 THEN k \in Enrolled(hnd[call.h].vars)
                                          ELSE SameFor(call.args[k].key, call.before, hnd[call.h].vars)
      <4>1. k \in 1 .. 3 /\ k # Through(call) + 1
        BY <2>2
      <4> QED
        BY <4>1, <1>sofar, Zenon
    <3> QED
      BY <2>4, <2>6, <3>1, Zenon DEF EnrollStep, Through
  <2> QED
    BY <2>5, <2>6
<1> QED
  BY <1>1, CallersInvariant, PTL DEF CallersSpec, EnrollIsOrdered, EnrollStep

\* A list has the PK of an enrollment only once all three were set.
LEMMA PkIsLast ==
    ASSUME OrderInv, Enrolling, ~Has(call.before, PK), NEW vs, NEW n \in 0 .. 3,
           Done(vs, call.before, call.args, n), Has(vs, PK)
    PROVE  n = 3
<1> DEFINE args == call.args
           before == call.before
<1>1. /\ DOMAIN args = 1 .. 3 /\ (\A j \in 1 .. 3 : args[j].kind = "set")
      /\ \A i, j \in 1 .. 3 : i # j => args[i].key # args[j].key
      /\ Done(vs, before, args, n) /\ args[3].key = PK /\ ~Has(before, PK)
  BY EnrollShape, Zenon
<1>2. 3 \in 1 .. 3
  OBVIOUS
<1> HIDE DEF args, before
<1>3. n < 3 => SameFor(PK, before, vs)
  <2>1. \A k \in 1 .. 3 : n < k => SameFor(args[k].key, before, vs)
    BY <1>1, EnrollDone, Zenon
  <2> QED
    BY <1>1, <1>2, <2>1, Zenon
<1>4. ~(n < 3)
  BY <1>1, <1>3, Zenon DEF SameFor
<1> QED
  BY <1>4

\* No enrollment leaves a half-activated store: after any failed or torn write
\* and after a crash, a file that opens with the PK it wrote has its KEK and db,
\* and a retry hands no image with a PK but without the other two to
\* os.WriteFile.
THEOREM EnrollmentIsSafe ==
    ASSUME LimitBelowWord, ValidCallers
    PROVE  CallersSpec => PkImpliesKeys
\* A file that opens during an enrollment and has a PK has all three.
<1>activation. ASSUME Admits(Canonicals), OrderInv, Enrolling, UNCHANGED vars \/ CallStep \/ Crash
               PROVE  ActivationStep
  <2> USE <1>activation
  <2> SUFFICES ASSUME ~Has(call.before, PK), ~Has(call.disk, PK), Opens(file'), Has(Parsed(file'), PK)
               PROVE  Enrolled(Parsed(file')) = DOMAIN call.args
    BY DEF ActivationStep
  <2> DEFINE vs == hnd[call.h].vars
  <2>1. /\ call # NoCall /\ call.op # "Format" /\ Len(call.args) = 3
        /\ call.todo[1] = call.args[Through(call) + 1]
        /\ call.todo[1] \in OpsOn(Canonicals) /\ vs \in Seq(Canonicals)
    BY EnrollShape, Zenon
  <2>2. PICK m \in 0 .. 2 : m = Through(call)
    BY EnrollShape, Zenon
  <2>3. m \in 0 .. 3 /\ m + 1 \in 0 .. 3 /\ m # 3 /\ (m + 1 = 3 => m = 2)
    OBVIOUS
  <2>4. CASE call.stage \in {"flush", "open"} /\ file' = file
    <3>1. IF m = 0 THEN Opens(file) => Parsed(file) = call.disk
                   ELSE Done(Parsed(file), call.before, call.args, m)
      BY <2>1, <2>2, <2>4, Zenon DEF OrderInv, Progress, Progressed
    <3>2. CASE m = 0
      BY <2>4, <3>1, <3>2, Zenon
    <3>3. CASE m # 0
      <4>1. Done(Parsed(file), call.before, call.args, m) /\ Has(Parsed(file), PK)
        BY <2>4, <3>1, <3>3, Zenon
      <4> QED
        BY <2>3, <4>1, PkIsLast, Zenon
    <3> QED
      BY <3>2, <3>3
  <2>5. ASSUME call.stage = "write", NEW n \in 0 .. Len(vs), Parsed(file') = Front(vs, n)
        PROVE  Enrolled(Parsed(file')) = DOMAIN call.args
    <3>1. "write" \in {"open", "write"}
      OBVIOUS
    <3>2. Done(vs, call.before, call.args, m + 1)
      BY <2>1, <2>2, <2>5, <3>1, ImageIsList, Zenon
    <3>3. Has(vs, PK)
      <4>1. vs \in Seq(Canonicals) /\ Has(Front(vs, n), PK)
        BY <2>1, <2>5, Zenon
      <4> HIDE DEF vs
      <4> QED
        BY <4>1, FrontSees, Zenon
    <3>4. m + 1 = 3
      BY <2>3, <3>2, <3>3, PkIsLast, Zenon
    <3>5. call.todo[1].key = PK /\ call.todo[1].kind = "set"
      <4>1. 3 \in 1 .. 3
        OBVIOUS
      <4>2. call.todo[1] = call.args[3]
        BY <2>1, <2>2, <3>4, Zenon
      <4> QED
        BY <4>1, <4>2, EnrollShape, Zenon
    <3>6. PICK ws \in Seq(Canonicals) : vs = NewVars(ws, call.todo[1])
      BY <2>1, <2>5, <3>1, WrittenFrom, Zenon
    <3>7. Front(vs, n) = vs
      <4> DEFINE o == call.todo[1]
      <4>1. o \in OpsOn(Canonicals) /\ o.kind = "set" /\ o.key = PK /\ vs = NewVars(ws, o) /\ Has(Front(vs, n), o.key)
        BY <2>1, <2>5, <3>5, <3>6, Zenon
      <4> HIDE DEF o, vs
      <4> QED
        BY <4>1, SetIsLast, Zenon
    <3>8. Done(Parsed(file'), call.before, call.args, 3)
      BY <2>5, <3>2, <3>4, <3>7, Zenon
    <3> QED
      BY <3>8, AllEnrolled, Zenon
  <2> QED
    BY <2>1, <2>4, <2>5, FileDuringCall, Zenon
\* An image with a PK that an enrollment hands to os.WriteFile has all three, or
\* the handle had a PK without the others.
<1>image. ASSUME OrderInv, Enrolling
          PROVE  ImageStep
  <2> USE <1>image
  <2> SUFFICES ASSUME call.stage \in {"open", "write"}, Has(Parsed(call.buf), PK),
                      ~(Has(call.before, PK) /\ Present(call.before) # DOMAIN call.args)
               PROVE  Present(Parsed(call.buf)) = DOMAIN call.args
    BY DEF ImageStep
  <2> DEFINE vs == hnd[call.h].vars
             args == call.args
             before == call.before
  <2>1. /\ call # NoCall /\ call.op # "Format" /\ DOMAIN args = 1 .. 3
        /\ \A j \in 1 .. 3 : args[j].kind = "set"
        /\ \A i, j \in 1 .. 3 : i # j => args[i].key # args[j].key
    BY EnrollShape, Zenon
  <2>2. PICK m \in 0 .. 2 : m = Through(call)
    BY EnrollShape, Zenon
  <2>3. Parsed(call.buf) = vs /\ Done(vs, before, args, m + 1)
    BY <2>1, <2>2, ImageIsList, Zenon
  <2>4. m + 1 \in 0 .. 3
    OBVIOUS
  <2>5. CASE Has(before, PK)
    <3>1. Present(before) = DOMAIN call.args
      BY <2>5, Zenon
    <3>2. \A k \in 1 .. 3 : Has(before, args[k].key)
      BY <2>1, <3>1, Zenon DEF Present
    <3> HIDE DEF vs, args, before
    <3>3. /\ \A k \in 1 .. 3 : k <= m + 1 => Has(vs, args[k].key) /\ Get(vs, args[k].key) = args[k].var
          /\ \A k \in 1 .. 3 : m + 1 < k => SameFor(args[k].key, before, vs)
      BY <2>1, <2>3, <2>4, EnrollDone, Zenon
    <3>4. \A k \in 1 .. 3 : k <= m + 1 \/ m + 1 < k
      OBVIOUS
    <3>5. \A k \in DOMAIN args : Has(vs, args[k].key)
      BY <2>1, <3>2, <3>3, <3>4, Zenon DEF SameFor
    <3>6. Present(vs) = DOMAIN args
      BY <3>5, Zenon DEF Present, args
    <3> QED
      BY <2>3, <3>6, Zenon DEF args
  <2>6. CASE ~Has(before, PK)
    <3>1. m + 1 = 3
      BY <2>3, <2>4, <2>6, PkIsLast, Zenon
    <3>2. Enrolled(vs) = DOMAIN call.args
      BY <2>3, <3>1, AllEnrolled, Zenon
    <3>3. Present(vs) = DOMAIN call.args
      BY <3>2, Zenon DEF Enrolled, Present
    <3> QED
      BY <2>3, <3>3, Zenon
  <2> QED
    BY <2>5, <2>6
<1>1. OrderInv /\ [CallersNext]_vars => [Enrolling => ActivationStep /\ ImageStep]_vars
  <2> SUFFICES ASSUME OrderInv, [CallersNext]_vars, Enrolling PROVE ActivationStep /\ ImageStep
    OBVIOUS
  <2>1. call # NoCall /\ Admits(Canonicals)
    BY CanonicalsAdmitted DEF Enrolling, ValidCallers
  <2>2. UNCHANGED vars \/ CallStep \/ Crash
    BY <2>1, CallersRunning, Zenon
  <2> QED
    BY <2>1, <2>2, <1>activation, <1>image, Zenon
<1> QED
  BY <1>1, CallersInvariant, PTL DEF CallersSpec, PkImpliesKeys, ActivationStep, ImageStep

-----------------------------------------------------------------------------
(***************************************************************************)
(* Boot entries.                                                           *)
(***************************************************************************)

\* Wherever AddBootEntry is stopped, by a failed or torn write or a crash, a
\* file whose BootOrder names the number it added also has that entry.
THEOREM AddedEntriesExist ==
    ASSUME LimitBelowWord, ValidCallers
    PROVE  CallersSpec => AddedNeverDangles
\* After any step of an AddBootEntry, an order that names the new number comes
\* with the entry.
<1>entry. ASSUME Admits(Canonicals), OrderInv, UNCHANGED vars \/ CallStep \/ Crash
          PROVE  AddStep
  <2> USE <1>entry
  \* Lists that agree on BootOrder name the same numbers.
  <2>carries. ASSUME NEW vs, NEW ws, SameFor(OrderKey, vs, ws), NEW n
              PROVE  InOrder(vs, n) <=> InOrder(ws, n)
    <3> USE <2>carries
    <3>1. OrderUnreadable(vs) <=> OrderUnreadable(ws)
      BY Zenon DEF OrderUnreadable, SameFor
    <3>2. OrderOf(vs) = OrderOf(ws)
      BY Zenon DEF OrderOf, SameFor
    <3> QED
      BY <3>1, <3>2, Zenon DEF InOrder
  \* A list without BootOrder names no number.
  <2>none. ASSUME NEW vs, NEW n, InOrder(vs, n)
           PROVE  Has(vs, OrderKey)
    <3> USE <2>none
    <3> SUFFICES ASSUME ~Has(vs, OrderKey) PROVE FALSE
      OBVIOUS
    <3>1. OrderOf(vs) = <<>>
      BY Zenon DEF OrderOf
    <3>2. \E k \in DOMAIN <<>> : <<>>[k] = n
      BY <3>1, Zenon DEF InOrder
    <3> QED
      BY <3>2
  \* The entry is there once its operation is done.
  <2>stays. ASSUME NEW args, NEW key, args[1].kind = "set", args[1].key = key, NEW vs, NEW before,
                   NEW n \in 1 .. 2, n = 2 => args[2].key # key, Done(vs, before, args, n)
            PROVE  Has(vs, key)
    <3> USE <2>stays
    <3>1. 1 \in 1 .. n /\ \A j \in 1 + 1 .. n : j = 2 /\ n = 2
      OBVIOUS
    <3>2. Effect(vs, args[1])
      BY <3>1, Zenon DEF Done
    <3> QED
      BY <3>2, Zenon DEF Effect
  \* The operations of a running AddBootEntry.
  <2>shape. ASSUME call # NoCall, call.op = "AddBootEntry"
            PROVE  LET n == Min(FreeNums(call.before)) IN
                   /\ n \in Num /\ Len(call.args) = 2 /\ EntryKey(n) # OrderKey
                   /\ call.args[1].kind = "set" /\ call.args[1].key = EntryKey(n)
                   /\ \/ call.args[2].kind = "fail"
                      \/ call.args[2].kind = "set" /\ call.args[2].key = OrderKey
    <3> USE <2>shape
    <3>1. PICK lo \in LoadOption, n \in FreeNums(call.before) :
             n = Min(FreeNums(call.before)) /\ call.args = AddOps(call.before, n, lo)
      BY Zenon DEF OrderInv, ShapeInv, Shaped
    <3>2. n \in Num
      BY <3>1 DEF FreeNums
    <3>3. EntryKey(n) # OrderKey /\ EntryKey(n) = [name |-> EntryKey(n).name, guid |-> EntryKey(n).guid]
      <4>1. n + 1 \in 1 .. Len(BootName)
        BY <3>2, BootAssumption, SeqDomain DEF Num
      <4>2. BootName[n + 1] # "BootOrder"
        BY <4>1, BootAssumption, SeqElement
      <4> QED
        BY <4>2 DEF EntryKey, OrderKey, PathKey
    <3>4. OrderKey = [name |-> OrderKey.name, guid |-> OrderKey.guid]
      BY DEF OrderKey, PathKey
    <3>5. \A key, d : Global(key, d).kind = "set" /\ Global(key, d).key = [name |-> key.name, guid |-> key.guid]
      BY DEF Global, SetOp, KeyOf
    <3> DEFINE a == Global(EntryKey(n), lo)
               o == IF OrderUnreadable(call.before) THEN FailOp
                    ELSE Global(OrderKey, [order |-> Append(OrderOf(call.before), n)])
    <3>6. a.kind = "set" /\ a.key = EntryKey(n)
      BY <3>3, <3>5, ZenonT(60)
    <3>7. o.kind = "fail" \/ (o.kind = "set" /\ o.key = OrderKey)
      <4>1. CASE OrderUnreadable(call.before)
        BY <4>1 DEF FailOp
      <4>2. CASE ~OrderUnreadable(call.before)
        BY <3>4, <3>5, <4>2, ZenonT(60)
      <4> QED
        BY <4>1, <4>2
    <3>8. call.args = <<a, o>>
      BY <3>1, Zenon DEF AddOps
    <3> HIDE DEF a, o
    <3>9. Len(call.args) = 2 /\ call.args[1] = a /\ call.args[2] = o
      BY <3>8
    <3> QED
      BY <3>1, <3>2, <3>3, <3>6, <3>7, <3>9, Zenon
  <2> DEFINE n == Min(FreeNums(call.before))
  <2> SUFFICES ASSUME call # NoCall, call.op = "AddBootEntry", Opens(file'), InOrder(Parsed(file'), n),
                      ~InOrder(call.before, n), ~InOrder(call.disk, n)
               PROVE  Has(Parsed(file'), EntryKey(n))
    BY Zenon DEF AddStep
  <2> DEFINE vs == hnd[call.h].vars
             args == call.args
             before == call.before
  <2>1. call.op # "Format" /\ StoreInv(Canonicals) /\ Progress(Canonicals) /\ Canonicals \subseteq Variable
    BY DEF OrderInv, Canonicals
  <2>2. /\ Len(args) = 2 /\ EntryKey(n) # OrderKey
        /\ args[1].kind = "set" /\ args[1].key = EntryKey(n)
        /\ \/ args[2].kind = "fail"
           \/ args[2].kind = "set" /\ args[2].key = OrderKey
    BY <2>shape, Zenon
  <2>3. PICK m \in Nat : m = Through(call) /\ m + 1 \in 1 .. 2
    BY <2>1, <2>2, RunningOperation, Zenon
  <2>4. m = 0 \/ m = 1
    BY <2>3
  <2>5. /\ call.todo[1] = args[m + 1] /\ call.todo[1] \in OpsOn(Canonicals) /\ vs \in Seq(Canonicals)
    BY <2>1, <2>3, RunningOperation, Zenon
  <2>6. 1 \in 1 .. 2 /\ 1 # 2 /\ 2 \in 1 .. 2 /\ 0 + 1 = 1 /\ 1 + 1 = 2 /\ 1 # 0
    OBVIOUS
  <2>7. CASE call.stage \in {"flush", "open"} /\ file' = file
    <3>1. IF m = 0 THEN Opens(file) => Parsed(file) = call.disk ELSE Done(Parsed(file), before, args, m)
      BY <2>1, <2>3, <2>7, Zenon DEF OrderInv, Progress, Progressed
    <3>2. CASE m = 0
      BY <2>7, <3>1, <3>2, Zenon
    <3>3. CASE m = 1
      <4>1. Done(Parsed(file), before, args, 1)
        BY <2>6, <3>1, <3>3, Zenon
      <4> DEFINE us == Parsed(file)
                 key == EntryKey(n)
      <4>2. Done(us, before, args, 1) /\ args[1].kind = "set" /\ args[1].key = key
        BY <2>2, <4>1, Zenon
      <4> HIDE DEF us, args, before, key
      <4>3. Has(us, key)
        BY <2>6, <4>2, <2>stays, Zenon
      <4> QED
        BY <2>7, <4>3, Zenon DEF us, key
    <3> QED
      BY <2>4, <3>2, <3>3
  <2>8. ASSUME call.stage = "write", NEW k \in 0 .. Len(vs), Parsed(file') = Front(vs, k)
        PROVE  Has(Parsed(file'), EntryKey(n))
    <3>1. "write" \in {"open", "write"}
      OBVIOUS
    <3>2. Done(vs, before, args, m + 1)
      BY <2>1, <2>3, <2>8, <3>1, ImageIsList, Zenon
    <3>3. PICK ws \in Seq(Canonicals) : vs = NewVars(ws, call.todo[1]) /\ call.todo[1].kind # "fail"
      BY <2>1, <2>8, <3>1, WrittenFrom, Zenon
    <3>4. Has(Front(vs, k), OrderKey)
      BY <2>8, <2>none, Zenon
    <3>5. Has(vs, OrderKey) /\ Get(Front(vs, k), OrderKey) = Get(vs, OrderKey)
      <4>1. vs \in Seq(Canonicals)
        BY <2>5
      <4> HIDE DEF vs
      <4> QED
        BY <3>4, <4>1, FrontSees, Zenon
    <3>6. SameFor(OrderKey, Front(vs, k), vs)
      BY <3>4, <3>5, ZenonT(60) DEF SameFor
    <3>7. CASE m = 0
      <4>1. \A j \in 1 .. 0 + 1 : j = 1
        OBVIOUS
      <4>2. SameFor(OrderKey, before, vs)
        BY <2>2, <3>2, <3>7, <4>1, Zenon DEF Done
      <4>3. InOrder(before, n)
        <5>1. InOrder(Front(vs, k), n)
          BY <2>8, Zenon
        <5> HIDE DEF n, vs, before
        <5>2. InOrder(vs, n)
          BY <3>6, <5>1, <2>carries, Zenon
        <5> QED
          BY <4>2, <5>2, <2>carries, Zenon
      <4> QED
        BY <4>3
    <3>8. CASE m = 1
      <4>1. call.todo[1] = args[2] /\ Done(vs, before, args, 2)
        BY <2>5, <2>6, <3>2, <3>8, Zenon
      <4>2. call.todo[1].kind = "set" /\ call.todo[1].key = OrderKey /\ args[2].key # EntryKey(n)
        BY <2>2, <3>3, <4>1, Zenon
      <4>3. Front(vs, k) = vs
        <5> DEFINE o == call.todo[1]
        <5>1. o \in OpsOn(Canonicals) /\ o.kind = "set" /\ vs = NewVars(ws, o) /\ Has(Front(vs, k), o.key)
          BY <2>5, <3>3, <3>4, <4>2, Zenon
        <5> HIDE DEF o, vs
        <5> QED
          BY <5>1, SetIsLast, Zenon
      <4> DEFINE key == EntryKey(n)
      <4>4. Done(vs, before, args, 2) /\ args[1].kind = "set" /\ args[1].key = key /\ args[2].key # key
        BY <2>2, <4>1, <4>2, Zenon
      <4> HIDE DEF vs, args, before, key
      <4>5. Has(vs, key)
        BY <2>6, <4>4, <2>stays, Zenon
      <4> QED
        BY <2>8, <4>3, <4>5, Zenon DEF key, vs
    <3> QED
      BY <2>4, <3>7, <3>8
  <2> QED
    BY <2>1, <2>7, <2>8, FileDuringCall, Zenon
<1>1. OrderInv /\ [CallersNext]_vars => [AddStep]_vars
  <2> SUFFICES ASSUME OrderInv, [CallersNext]_vars, call # NoCall PROVE AddStep
    BY Zenon DEF AddStep
  <2>1. Admits(Canonicals)
    BY CanonicalsAdmitted DEF ValidCallers
  <2>2. UNCHANGED vars \/ CallStep \/ Crash
    BY CallersRunning, Zenon
  <2> QED
    BY <2>1, <2>2, <1>entry, Zenon
<1> QED
  BY <1>1, CallersInvariant, PTL DEF CallersSpec, AddedNeverDangles, AddStep

-----------------------------------------------------------------------------
(***************************************************************************)
(* Authenticated variables.                                                *)
(***************************************************************************)

\* In every file that opens, at any time and behind any torn write, each
\* authenticated variable carries a descriptor that parses, ends where its data
\* starts, and was signed over what the variable is read back with
\* (WriteAuthenticatedVariable, BuildAuthentication2).
THEOREM SignaturesBind ==
    ASSUME LimitBelowWord, SignedWrites
    PROVE  CallersSpec => []AuthBinds
\* The program respects the bound.
<1>bound. CallersAdmit(Bound)
  \* A variable without the flag is bound.
  <2>plain. ASSUME NEW v \in Variable, TimeBased \notin v.attrs
            PROVE  v \in Bound
    BY <2>plain DEF Bound
  \* What WriteAuthenticatedVariable hands to Set is signed.
  <2>payload. ASSUME NEW w \in AuthWrites, w.signer # NoSigner
              PROVE  [name |-> w.name, guid |-> w.guid, attrs |-> WriteAttrs(w), data |-> Payload(w)] \in Bound
    <3> USE <2>payload
    <3> DEFINE v == [name |-> w.name, guid |-> w.guid, attrs |-> WriteAttrs(w), data |-> Payload(w)]
               d == Payload(w)
    <3>1. /\ w.name \in Name /\ w.guid \in Guid /\ w.data \in Data /\ WriteAttrs(w) \in Attr /\ d \in Data
          /\ DataLen[d] = PayloadBytes(w)
      BY PayloadAssumption, ZenonT(60)
    <3>2. v \in Variable /\ v.name = w.name /\ v.guid = w.guid /\ v.attrs = WriteAttrs(w) /\ v.data = d
      BY <3>1, Zenon DEF Variable
    <3>3. /\ d.ts = w.ts /\ d.data = w.data /\ d.dwLength = U32(WinCertSize + SigLen)
          /\ d.tbs = DigestTBS(w.name, w.guid, WriteAttrs(w), w.ts, w.data)
      BY DEF Payload, SignedAttrs
    <3>4. DataLen[w.data] \in Nat
      BY <3>1, DataAssumption
    <3>5. PICK c \in Nat : c = WinCertSize + SigLen /\ c >= WinCertSize /\ c < Word
      BY DEF SignedWrites, WinCertSize
    <3>6. d.dwLength = c
      BY <3>3, <3>5, WordIsWide DEF U32
    <3>7. PICK n \in Nat : n = DataLen[w.data]
      BY <3>4
    <3>8. DataLen[d] = 16 + c + n
      BY <3>1, <3>5, <3>7, SigLen \in Nat DEF PayloadBytes, EfiTimeSize, WinCertSize, SignedWrites
    <3> HIDE DEF v, d
    <3>9. ParseAuthentication2(d) /\ DataBehind(d) = n
      BY <3>5, <3>6, <3>7, <3>8 DEF ParseAuthentication2, DataBehind, EfiTimeSize, WinCertSize
    <3>10. Signed(v)
      BY <3>2, <3>3, <3>7, <3>9, Zenon DEF Signed
    <3>11. \A p \in Renames : p[1] \notin {v.name, Canon[v.name]}
      BY <3>2, Zenon DEF SignedWrites
    <3>12. v \in Bound
      BY <3>2, <3>10, <3>11, Zenon DEF Bound
    <3> QED
      BY <3>12 DEF v
  <2>1. Bound \subseteq Variable
    BY DEF Bound
  <2>2. ASSUME NEW v \in Bound PROVE Canonical(v) \in Bound
    <3> DEFINE w == Canonical(v)
    <3>1. /\ w \in Variable /\ w.name = Canon[v.name] /\ w.guid = v.guid /\ w.attrs = v.attrs
          /\ w.data = v.data /\ v.name \in Name
      BY <2>1, StringAssumption DEF Canonical, Variable
    <3> HIDE DEF w
    <3>2. Canon[w.name] = w.name
      BY <3>1, StringAssumption
    <3>3. CASE TimeBased \in v.attrs
      <4>1. Signed(v) /\ \A p \in Renames : p[1] \notin {v.name, Canon[v.name]}
        BY <3>3 DEF Bound
      <4>2. Signed(w)
        BY <3>1, <3>2, <4>1, Zenon DEF Signed, DigestTBS
      <4>3. \A p \in Renames : p[1] \notin {w.name, Canon[w.name]}
        BY <3>1, <3>2, <4>1, Zenon
      <4>4. w \in Bound
        BY <3>1, <4>2, <4>3, Zenon DEF Bound
      <4> QED
        BY <4>4 DEF w
    <3>4. CASE TimeBased \notin v.attrs
      <4>1. w \in Bound
        BY <3>1, <3>4, <2>plain, Zenon
      <4> QED
        BY <4>1 DEF w
    <3> QED
      BY <3>3, <3>4
  <2>3. Values \subseteq Bound
    BY CallerAssumption, <2>plain DEF SignedWrites
  <2>4. ASSUME NEW v \in Values
        PROVE  [name |-> v.name, guid |-> FsGuid, attrs |-> FsAttrs, data |-> v.data] \in Bound
    <3> DEFINE w == [name |-> v.name, guid |-> FsGuid, attrs |-> FsAttrs, data |-> v.data]
    <3>1. w \in Variable /\ w.attrs = FsAttrs
      BY CallerAssumption DEF Variable
    <3> HIDE DEF w
    <3>2. w \in Bound
      BY <3>1, <2>plain, Zenon DEF SignedWrites
    <3> QED
      BY <3>2 DEF w
  <2>5. ASSUME NEW p \in Renames, NEW v \in Bound, v.name = p[1] PROVE [v EXCEPT !.name = p[2]] \in Bound
    <3> DEFINE w == [v EXCEPT !.name = p[2]]
    <3>1. TimeBased \notin v.attrs
      BY <2>5 DEF Bound
    <3>2. w \in Variable /\ w.attrs = v.attrs
      BY <2>1, CallerAssumption DEF Variable
    <3> HIDE DEF w
    <3>3. w \in Bound
      BY <3>1, <3>2, <2>plain, Zenon
    <3> QED
      BY <3>3 DEF w
  <2>6. Admits(Bound)
    BY <2>1, <2>2, <2>3, <2>4, <2>5, Zenon DEF Admits, SignedWrites
  <2>7. ASSUME NEW v \in Canonicals, v.attrs \in {SbAttrs, BootVarAttrs} PROVE v \in Bound
    <3>1. v \in Variable /\ TimeBased \notin v.attrs
      BY <2>7 DEF Canonicals, SignedWrites
    <3> QED
      BY <3>1, <2>plain, Zenon
  <2>8. OrdersExtend
    BY DEF SignedWrites
  <2> QED
    BY <2>6, <2>7, <2>8, <2>payload, CallersAdmitted, Zenon
\* Under the invariant a file that opens has bound variables only.
<1>binds. ASSUME Admits(Bound), StoreInv(Bound)
          PROVE  AuthBinds
  <2> USE <1>binds
  <2> SUFFICES ASSUME Opens(file) PROVE AuthBinds
    BY Zenon DEF AuthBinds
  <2>1. file \in File /\ Holds(Bound, file)
    BY DEF StoreInv, FileInv, Opens, Readable
  <2>2. Parsed(file) \in Seq(Bound)
    BY <2>1, HeldParses, Zenon
  <2>3. \A k \in DOMAIN Parsed(file) : Parsed(file)[k] \in Bound
    BY <2>2, SeqDomain, SeqElement
  <2>4. \A k \in DOMAIN Parsed(file) : TimeBased \in Parsed(file)[k].attrs => Signed(Parsed(file)[k])
    BY <2>3, Zenon DEF Bound
  <2> QED
    BY <2>4, Zenon DEF AuthBinds, Signed
<1>1. CallersAdmit(Bound) /\ Admits(Bound)
  BY <1>bound, Zenon DEF CallersAdmit
<1>2. Init => StoreInv(Bound)
  BY StoreInitEstablishes
<1>3. StoreInv(Bound) /\ [CallersNext]_vars => StoreInv(Bound)'
  BY <1>1, CallersPreserve
<1>4. StoreInv(Bound) => AuthBinds
  BY <1>1, <1>binds
<1> QED
  BY <1>2, <1>3, <1>4, PTL DEF CallersSpec
=============================================================================
