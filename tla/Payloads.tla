------------------------------ MODULE Payloads ------------------------------
(***************************************************************************)
(* Who shares the bytes of a variable's Data with the handle (uefi.go,     *)
(* filesystem.go).  Open and ReadFile copy them; List, Get and Set pass    *)
(* the slice on.  A caller may write to any slice it holds, and every      *)
(* flush encodes all variables as they are in memory then.                 *)
(***************************************************************************)
EXTENDS Functions

CONSTANTS
    Name,    \* variable names
    Buffer,  \* byte slices the program can have
    Byte     \* their contents

VARIABLES
    heap,    \* heap[b]: content of slice b
    held,    \* the Data of each variable of the handle, a slice
    listed,  \* slices the caller got from List
    own      \* slices the caller made, or got from Get or ReadFile

vars == <<heap, held, listed, own>>

\* What Get would return and flush would encode.
Contents == [n \in DOMAIN held |-> heap[held[n]]]

Unused == Buffer \ (Range(held) \cup listed \cup own)

\* A handle has just been opened: parseOneVariable copied every payload.
Init ==
    /\ heap \in [Buffer -> Byte]
    /\ held \in {f \in [Name -> Buffer] : IsInjective(f)}
    /\ listed = {} /\ own = {}

\* A slice of new memory for the caller with content c.
Allocate(c) ==
    \E b \in Unused :
        /\ heap' = [heap EXCEPT ![b] = c]
        /\ own' = own \cup {b}

MakeSlice(c) == Allocate(c) /\ UNCHANGED <<held, listed>>

ReadFile(n) == Allocate(Contents[n]) /\ UNCHANGED <<held, listed>>

\* The records are copied, the slices in them are not.
List == listed' = listed \cup Range(held) /\ UNCHANGED <<heap, held, own>>

Get(n) == own' = own \cup {held[n]} /\ UNCHANGED <<heap, held, listed>>

\* The handle keeps the caller's slice.
Set(n, b) ==
    /\ b \in own \cup listed
    /\ held' = [held EXCEPT ![n] = b]
    /\ UNCHANGED <<heap, listed, own>>

\* The caller writes to a slice it holds.
Scribble(b, c) ==
    /\ b \in own \cup listed
    /\ heap' = [heap EXCEPT ![b] = c]
    /\ UNCHANGED <<held, listed, own>>

Next ==
    \/ List
    \/ \E n \in Name : Get(n) \/ ReadFile(n) \/ \E b \in Buffer : Set(n, b)
    \/ \E c \in Byte : MakeSlice(c) \/ \E b \in Buffer : Scribble(b, c)

Spec == Init /\ [][Next]_vars

\* "List returns a copy of all valid variables in the store": what a caller
\* does to the variables it was given leaves those of the handle alone.
ListIsACopy ==
    [][(\E b \in listed, c \in Byte : Scribble(b, c)) => Contents' = Contents]_vars
=============================================================================
