---------------------------- MODULE BootManager ----------------------------
(***************************************************************************)
(* The boot-manager helpers (bootvars.go) over one open VariableStore: the *)
(* Boot#### entries, BootOrder and the two-byte control variables, all in  *)
(* the global namespace.                                                   *)
(*                                                                         *)
(* A Set or Delete may fail in the two ways NvStore has: refused, with     *)
(* nothing changed, or lost, with the change in the handle's memory and    *)
(* not in the file.  The state is the memory of the handle, which is what  *)
(* every helper reads.  Load options are opaque; some blobs do not parse.  *)
(* A store found on disk may hold a Boot#### name more than once.          *)
(***************************************************************************)
EXTENDS Integers, Sequences, FiniteSetsExt

CONSTANTS
    MaxBootEntries,  \* maxBootEntries: the Boot#### numbers are below it
    LoadOption,      \* load options callers write
    Malformed,       \* a Boot#### blob that ParseLoadOption refuses
    Control,         \* the two-byte variables: BootNext, BootCurrent, Timeout
    ControlValue,    \* values callers give them
    Absent,          \* a variable that is not set, a call that does not run
    BadLength,       \* a variable whose length its reader refuses
    MaxOrder,        \* bound on the length of BootOrder
    Faults           \* how a Set or Delete may fail: "refused", "lost"

ASSUME BootAssumption ==
    /\ MaxBootEntries \in Nat \ {0}
    /\ MaxOrder \in Nat
    /\ Malformed \notin LoadOption
    /\ "BootNext" \in Control

Num == 0 .. MaxBootEntries - 1

ASSUME AbsentAssumption ==
    /\ Absent # BadLength /\ Absent \notin Seq(Num) /\ BadLength \notin Seq(Num)
    /\ Absent \notin [n : Num, lo : LoadOption, listing : Seq(Num)]

VARIABLES
    entries,  \* entries[n]: the blobs under Boot####, for the numbers that have one
    order,    \* BootOrder: a sequence of numbers, Absent or BadLength
    word,     \* word[c]: the value of a control variable, Absent or BadLength
    call,     \* the AddBootEntry that has written its entry, or Absent
    ret       \* did the last call succeed

managerVars == <<entries, order, word, call, ret>>

Orders == UNION {[1 .. k -> Num] : k \in 0 .. MaxOrder}

\* How a call of the store ends.
Outcome == {"ok"} \cup Faults

Content == LoadOption \cup {Malformed}

\* The blobs a number may be found with; number 0 also with two.
Found(n) ==
    {<<b>> : b \in Content} \cup {bs \in Content \X Content : n = 0 /\ bs[1] # bs[2]}

ManagerInit ==
    /\ entries \in UNION {{e \in [S -> UNION {Found(n) : n \in S}] : \A n \in S : e[n] \in Found(n)}
                             : S \in SUBSET Num}
    /\ order \in Orders \cup {Absent, BadLength}
    /\ word \in [Control -> {Absent, BadLength}]
    /\ call = Absent
    /\ ret = TRUE

-----------------------------------------------------------------------------
(***************************************************************************)
(* Readers                                                                 *)
(***************************************************************************)

\* A missing variable is an empty order, an odd length an error.
BootOrderFails == order = BadLength

BootOrder == IF order = Absent THEN <<>> ELSE order

Used == DOMAIN entries

\* Mutant: entries that do not parse count as free.
FreeOrMalformed == {n \in Num : n \in DOMAIN entries => Range(entries[n]) = {Malformed}}

\* lowestFreeBootNum looks at every Boot#### name, parseable or not.
Free == Num \ Used

LowestFree == CHOOSE n \in Free : \A m \in Free : n <= m

Blobs(n) == IF n \in Used THEN entries[n] ELSE <<>>

\* BootEntry: Get returns the first blob, which must parse.
BootEntry(n) == IF n \in Used THEN entries[n][1] ELSE Malformed

\* The option ListBootEntries has for n: the last blob that parses.
ListedOption(n) ==
    LET good == {k \in DOMAIN Blobs(n) : Blobs(n)[k] # Malformed}
    IN IF good = {} THEN Malformed ELSE Blobs(n)[Max(good)]

\* ListBootEntries: the entries that parse.
Listed == {n \in Used : ListedOption(n) # Malformed}

\* Mutant: a number is appended as often as it is met.
ListAll(listed, ordered, numbers) ==
    ordered \o SelectSeq(numbers, LAMBDA n : n \in listed)

\* A listed number is appended once.
ListOne(listed, ordered, n) ==
    IF n \in listed \ Range(ordered) THEN Append(ordered, n) ELSE ordered

\* One loop of ListBootEntries.
ListOnce(listed, ordered, numbers) ==
    LET out[k \in 0 .. Len(numbers)] ==
            IF k = 0 THEN ordered ELSE ListOne(listed, out[k - 1], numbers[k])
    IN out[Len(numbers)]

Ascending == [k \in 1 .. MaxBootEntries |-> k - 1]

\* BootOrder first, then every number in ascending order.
ListBootEntries == ListOnce(Listed, ListOnce(Listed, <<>>, BootOrder), Ascending)

-----------------------------------------------------------------------------
(***************************************************************************)
(* Writers                                                                 *)
(***************************************************************************)

Idle == call = Absent

Return(ok) == call' = Absent /\ ret' = ok

\* Mutant: Set replaces the first match only.
WithEntryFirst(n, lo) ==
    [m \in Used \cup {n} |->
        IF m # n THEN entries[m] ELSE IF n \in Used THEN <<lo>> \o Tail(entries[n]) ELSE <<lo>>]

\* Set replaces every match, Delete drops it.
WithEntry(n, lo) == [m \in Used \cup {n} |-> IF m = n THEN <<lo>> ELSE entries[m]]

SetBootEntry(n, lo, r) ==
    /\ Idle
    /\ entries' = IF r = "refused" THEN entries ELSE WithEntry(n, lo)
    /\ Return(r = "ok")
    /\ UNCHANGED <<order, word>>

\* BootOrder is left alone.
DeleteBootEntry(n, r) ==
    /\ Idle
    /\ entries' = IF r = "refused" THEN entries ELSE [m \in Used \ {n} |-> entries[m]]
    /\ Return(r = "ok" /\ n \in Used)
    /\ UNCHANGED <<order, word>>

SetBootOrder(o, r) ==
    /\ Idle
    /\ order' = IF r = "refused" THEN order ELSE o
    /\ Return(r = "ok")
    /\ UNCHANGED <<entries, word>>

\* SetBootNext, SetBootCurrent, SetTimeout.
SetControl(c, n, r) ==
    /\ Idle
    /\ word' = IF r = "refused" THEN word ELSE [word EXCEPT ![c] = n]
    /\ Return(r = "ok")
    /\ UNCHANGED <<entries, order>>

\* A BootNext that is not set is clear; any other is deleted, whatever its
\* length.
ClearBootNext(r) ==
    /\ Idle
    /\ IF word["BootNext"] = Absent
       THEN Return(TRUE) /\ UNCHANGED word
       ELSE /\ word' = IF r = "refused" THEN word ELSE [word EXCEPT !["BootNext"] = Absent]
            /\ Return(r = "ok")
    /\ UNCHANGED <<entries, order>>

-----------------------------------------------------------------------------
(***************************************************************************)
(* AddBootEntry: the entry first, then the order.  A call under way keeps  *)
(* the number it took and the listing the store had before.                *)
(***************************************************************************)

AddNoSlot ==
    /\ Idle
    /\ Free = {}
    /\ Return(FALSE)
    /\ UNCHANGED <<entries, order, word>>

\* The bound of the model on BootOrder.
OrderHasRoom == IF BootOrderFails THEN TRUE ELSE Len(BootOrder) < MaxOrder

Began(lo) ==
    [n |-> LowestFree, lo |-> lo, listing |-> IF BootOrderFails THEN <<>> ELSE ListBootEntries]

\* Mutant: the error of SetBootEntry is dropped.
AddEntryUnchecked(lo, r) ==
    /\ Idle
    /\ Free # {}
    /\ OrderHasRoom
    /\ entries' = IF r = "refused" THEN entries ELSE WithEntry(LowestFree, lo)
    /\ call' = Began(lo)
    /\ UNCHANGED <<order, word, ret>>

AddEntry(lo, r) ==
    /\ Idle
    /\ Free # {}
    /\ OrderHasRoom
    /\ UNCHANGED <<order, word>>
    /\ entries' = IF r = "refused" THEN entries ELSE WithEntry(LowestFree, lo)
    /\ IF r = "ok" THEN call' = Began(lo) /\ UNCHANGED ret ELSE Return(FALSE)

\* Mutant: the number goes in front.
AddToOrderFront(r) ==
    /\ ~Idle
    /\ ~BootOrderFails
    /\ order' = IF r = "refused" THEN order ELSE <<call.n>> \o BootOrder
    /\ Return(r = "ok")
    /\ UNCHANGED <<entries, word>>

AddToOrder(r) ==
    /\ ~Idle
    /\ ~BootOrderFails
    /\ order' = IF r = "refused" THEN order ELSE Append(BootOrder, call.n)
    /\ Return(r = "ok")
    /\ UNCHANGED <<entries, word>>

\* BootOrder cannot be read: the entry stays, outside the order.
AddOrderUnreadable ==
    /\ ~Idle
    /\ BootOrderFails
    /\ Return(FALSE)
    /\ UNCHANGED <<entries, order, word>>

AddStep ==
    \/ \E lo \in LoadOption, r \in Outcome : AddEntry(lo, r)
    \/ \E r \in Outcome : AddToOrder(r)
    \/ AddOrderUnreadable
    \/ AddNoSlot

\* A refused SetBootOrder does the same for every order.
OrdersFor(r) == IF r = "refused" THEN {<<>>} ELSE Orders

ManagerNext ==
    \/ AddStep
    \/ \E r \in Outcome :
          \/ \E n \in Num : DeleteBootEntry(n, r) \/ \E lo \in LoadOption : SetBootEntry(n, lo, r)
          \/ \E o \in OrdersFor(r) : SetBootOrder(o, r)
          \/ \E c \in Control, n \in ControlValue : SetControl(c, n, r)
          \/ ClearBootNext(r)

ManagerSpec == ManagerInit /\ [][ManagerNext]_managerVars

-----------------------------------------------------------------------------
(***************************************************************************)
(* Properties                                                              *)
(***************************************************************************)

\* BootEntry and ListBootEntries return the same load option for n, or none.
Agree(n) == BootEntry(n) = ListedOption(n)

\* A store with duplicate names may answer BootEntry and ListBootEntries
\* differently.  No call of the boot manager makes a number so, and every one
\* that changes a number repairs it.
ReadersConverge ==
    [][\A n \in Num : Agree(n) \/ Blobs(n)' # Blobs(n) => Agree(n)']_entries

\* Where a number belongs in the order o: at its first place, or behind all
\* others by its value.
Rank(o, n) ==
    IF n \in Range(o) THEN Min({k \in DOMAIN o : o[k] = n}) ELSE Len(o) + 1 + n

\* ListBootEntries returns every entry that parses exactly once, BootOrder
\* entries first and in order, the others ascending, whatever duplicates and
\* dangling numbers BootOrder holds.
ListingIsExact ==
    ~BootOrderFails =>
        LET ordered == ListBootEntries
        IN /\ Range(ordered) = Listed
           /\ \A i, j \in DOMAIN ordered : i < j => Rank(BootOrder, ordered[i]) < Rank(BootOrder, ordered[j])

\* The order p begins with the order o.
StartsWith(p, o) == Len(o) <= Len(p) /\ \A k \in DOMAIN o : p[k] = o[k]

\* AddBootEntry, whether it succeeds or fails half way, changes no entry that
\* was there, malformed ones included, and takes nothing out of BootOrder.
AddKeepsOthers ==
    [][AddStep =>
          /\ \A n \in Used : n \in Used' /\ entries'[n] = entries[n]
          /\ IF BootOrderFails THEN order' = order ELSE StartsWith(BootOrder', BootOrder)]_managerVars

\* Numbers of BootOrder that have no entry.
Dangling == IF BootOrderFails THEN {} ELSE Range(BootOrder) \ Used

\* AddBootEntry never puts a number into BootOrder that has no entry, however
\* its two writes end: the entry is written first.
AddNeverDangles == [][AddStep => Dangling' \subseteq Dangling]_managerVars

\* When AddBootEntry returns nil its number ends BootOrder and its load option
\* is stored under it.  In a store whose order names each entry once and
\* nothing else, the listing grows by just that entry, at the end.
AddedIsLast ==
    [][~Idle /\ Idle' /\ ret' =>
          /\ BootOrder' = Append(BootOrder, call.n)
          /\ entries'[call.n] = <<call.lo>>
          /\ call.listing = BootOrder =>
                ListBootEntries' = Append(call.listing, call.n)]_managerVars
============================================================================
