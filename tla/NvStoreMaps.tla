---------------------------- MODULE NvStoreMaps ----------------------------
(***************************************************************************)
(* NvStore implements VariableStore: the refinement mapping.  The abstract *)
(* variables are functions of the state of NvStore; they are carried along *)
(* as variables of their own so that each is computed once per step.       *)
(***************************************************************************)
EXTENDS NvStore

VARIABLES mem, disk, op

maps == <<mem, disk, op>>

\* A list as the map Get makes of it.
MapOf(vs) ==
    [key \in {KeyOf(vs[k]) : k \in DOMAIN vs} |->
        [attrs |-> Get(vs, key).attrs, data |-> Get(vs, key).data]]

MemOf(s) == [h \in Handle |-> IF s[h] = Closed THEN Closed ELSE MapOf(s[h].vars)]

DiskOf(f) == IF Opens(f) THEN MapOf(Parsed(f)) ELSE NoFile

\* The operation a call is at.
OpOf(c) ==
    IF c = NoCall
    THEN {}
    ELSE LET o == c.todo[1]
         IN IF o.kind \notin {"set", "delete"} THEN {} ELSE
            {[h     |-> c.h,
              key   |-> o.key,
              value |-> IF o.kind = "set" THEN [attrs |-> o.var.attrs, data |-> o.var.data] ELSE NoData,
              phase |-> IF c.stage = "flush" THEN "asked" ELSE "writing"]}

MapsInit ==
    /\ Init
    /\ mem = MemOf(hnd) /\ disk = DiskOf(file) /\ op = OpOf(call)

MapsNext ==
    /\ Next
    /\ mem' = IF hnd' = hnd THEN mem ELSE MemOf(hnd')
    /\ disk' = IF file' = file THEN disk ELSE DiskOf(file')
    /\ op' = OpOf(call')

MapsSpec == MapsInit /\ [][MapsNext]_<<vars, maps>>

Abstract == INSTANCE VariableStore WITH
    Value   <- [attrs : Attr, data : Data],
    Broken  <- NoFile,
    Removed <- NoData

\* A handle is a map of variables; each Set and Delete of a call changes in it
\* exactly what it was asked to change, or nothing; a write replaces the map
\* on disk by it, and a write cut short loses variables but invents, alters
\* and resurrects none.
ImplementsVariableStore == Abstract!Spec
=============================================================================
