--------------------------- MODULE VariableStore ---------------------------
(***************************************************************************)
(* What the VariableStore interface (uefi.go) promises over a file that    *)
(* can fail.  Every handle is a map from keys to values.  Set and Delete   *)
(* change the one key they were asked to change, or are refused; then the  *)
(* map of the handle replaces the map on disk.  A write that is under way  *)
(* or has failed may leave no store at all, or one that lacks some of the  *)
(* variables.  It never leaves a value that was not written.               *)
(***************************************************************************)
EXTENDS Functions

CONSTANTS
    Handle,  \* handles of the program
    Key,     \* variable identities
    Value,   \* what is stored under a key
    Closed,  \* a handle that is not open
    Broken,  \* no store can be opened
    Removed  \* in the place of a value: the key is to be deleted

VARIABLES
    mem,   \* mem[h]: the map of handle h, or Closed
    disk,  \* the map a fresh Open would return, or Broken
    op     \* the Set or Delete that is under way: none or one

absvars == <<mem, disk, op>>

Empty == [k \in {} |-> {}]

\* What a write of m may have left behind before it is complete: no store, or
\* one with some of the keys.
Torn(d, m) == d # Broken => DOMAIN d \subseteq DOMAIN m /\ d = Restrict(m, DOMAIN d)

\* The one operation a caller asks of handle h.
Asks(ops, h) ==
    \E o \in ops :
        /\ ops = {o}
        /\ o \in [h : {h}, key : Key, value : Value \cup {Removed}, phase : {"asked"}]

\* A map after an operation.
Applied(m, o) ==
    IF o.value = Removed
    THEN Restrict(m, DOMAIN m \ {o.key})
    ELSE [k \in DOMAIN m \cup {o.key} |-> IF k = o.key THEN o.value ELSE m[k]]

Init ==
    /\ mem = [h \in Handle |-> Closed]
    /\ disk # Broken => DOMAIN disk \subseteq Key /\ disk \in [DOMAIN disk -> Value]
    /\ op = {}

Open(h) ==
    /\ op = {}
    /\ mem[h] = Closed
    /\ disk # Broken
    /\ mem' = [mem EXCEPT ![h] = disk]
    /\ UNCHANGED <<disk, op>>

Close(h) ==
    /\ op = {}
    /\ mem' = [mem EXCEPT ![h] = Closed]
    /\ UNCHANGED <<disk, op>>

Ask(h) ==
    /\ op = {}
    /\ mem[h] # Closed
    /\ Asks(op', h)
    /\ UNCHANGED <<mem, disk>>

\* The handle changes as it was asked to; the key to delete must be there.
Accept(o) ==
    /\ op = {o} /\ o.phase = "asked"
    /\ o.value = Removed => o.key \in DOMAIN mem[o.h]
    /\ mem' = [mem EXCEPT ![o.h] = Applied(@, o)]
    /\ op' = {[o EXCEPT !.phase = "writing"]}
    /\ UNCHANGED disk

Refuse(o) ==
    /\ op = {o} /\ o.phase = "asked"
    /\ op' = {}
    /\ UNCHANGED <<mem, disk>>

\* The file is being rewritten.
Tear(o) ==
    /\ op = {o} /\ o.phase = "writing"
    /\ Torn(disk', mem[o.h])
    /\ UNCHANGED <<mem, op>>

\* The write is through; a call of several operations goes on.
Commit(o) ==
    /\ op = {o} /\ o.phase = "writing"
    /\ disk' = mem[o.h]
    /\ op' = {} \/ Asks(op', o.h)
    /\ UNCHANGED mem

\* The write failed and the call is over.
GiveUp(o) ==
    /\ op = {o} /\ o.phase = "writing"
    /\ disk' = disk \/ Torn(disk', mem[o.h])
    /\ op' = {}
    /\ UNCHANGED mem

\* A fresh, empty store replaces whatever there is; no handle is open.
Format ==
    /\ \A h \in Handle : mem[h] = Closed
    /\ disk' \in {Broken, Empty}
    /\ UNCHANGED <<mem, op>>

Crash ==
    /\ mem' = [h \in Handle |-> Closed]
    /\ op' = {}
    /\ disk' = disk \/ \E o \in op : o.phase = "writing" /\ Torn(disk', mem[o.h])

Next ==
    \/ \E h \in Handle : Open(h) \/ Close(h) \/ Ask(h)
    \/ \E o \in op : Accept(o) \/ Refuse(o) \/ Tear(o) \/ Commit(o) \/ GiveUp(o)
    \/ Format
    \/ Crash

Spec == Init /\ [][Next]_absvars
=============================================================================
