----------------------------- MODULE BootStore -----------------------------
(***************************************************************************)
(* AddBootEntry (bootvars.go) on a store handle: the entry is one flush of *)
(* NvStore, BootOrder another.  BootManager has the other helpers, over a  *)
(* handle's memory only.  A BootOrder payload is the list it encodes.      *)
(***************************************************************************)
EXTENDS NvStore

CONSTANTS
    BootName,      \* BootName[n + 1]: the name Boot#### of number n
    LoadOption,    \* load options callers add
    BootVarAttrs   \* bootVarAttrs

\* fmt.Sprintf("Boot%04X", n) is ASCII, and no such name is BootOrder.
ASSUME BootAssumption ==
    /\ BootName \in Seq({n \in Name : Canon[n] = n} \ {"BootOrder"})
    /\ "BootOrder" \in {n \in Name : Canon[n] = n}
    /\ BootVarAttrs \in Attr
    /\ LoadOption \subseteq Data

Num == 0 .. Len(BootName) - 1

EntryKey(n) == PathKey(BootName[n + 1])

OrderKey == PathKey("BootOrder")

Global(key, data) ==
    SetOp([name |-> key.name, guid |-> key.guid, attrs |-> BootVarAttrs, data |-> data])

FreeNums(vs) == {n \in Num : ~Has(vs, EntryKey(n))}

\* A payload of odd length is none.
OrderUnreadable(vs) == Has(vs, OrderKey) /\ "order" \notin DOMAIN Get(vs, OrderKey).data

OrderOf(vs) == IF Has(vs, OrderKey) THEN Get(vs, OrderKey).data.order ELSE <<>>

\* Mutant: the order is written first.
AddOpsOrderFirst(vs, n, lo) ==
    IF OrderUnreadable(vs) THEN <<FailOp>>
    ELSE <<Global(OrderKey, [order |-> Append(OrderOf(vs), n)]), Global(EntryKey(n), lo)>>

\* The entry, then the order as the handle has it.
AddOps(vs, n, lo) ==
    <<Global(EntryKey(n), lo),
      IF OrderUnreadable(vs) THEN FailOp
                             ELSE Global(OrderKey, [order |-> Append(OrderOf(vs), n)])>>

AddBootEntry(h, lo) ==
    /\ Idle /\ hnd[h] # Closed
    /\ LET vs == hnd[h].vars
       IN IF FreeNums(vs) = {}
          THEN ret' = "err" /\ UNCHANGED <<file, hnd, call>>
          ELSE Begin(h, "AddBootEntry", AddOps(vs, Min(FreeNums(vs)), lo))

-----------------------------------------------------------------------------

InOrder(vs, n) ==
    ~OrderUnreadable(vs) /\ \E k \in DOMAIN OrderOf(vs) : OrderOf(vs)[k] = n

\* Wherever AddBootEntry is stopped, by a failed or torn write or a crash, a
\* file whose BootOrder names the number it added also has that entry: the
\* firmware is never sent to a load option that was not written.
AddedNeverDangles ==
    [][call # NoCall /\ call.op = "AddBootEntry" /\ Opens(file') =>
          LET n == Min(FreeNums(call.before))
          IN InOrder(Parsed(file'), n) /\ ~InOrder(call.before, n) /\ ~InOrder(call.disk, n)
                => Has(Parsed(file'), EntryKey(n))]_vars
=============================================================================
