----------------------------- MODULE MCCallers -----------------------------
(***************************************************************************)
(* Callers on stores with room for the three keys and a boot entry but not *)
(* its order, or for less.  Names have their real lengths; certificates,   *)
(* signatures and load options are short.                                  *)
(***************************************************************************)
EXTENDS Callers, TLC

MCName == {"db", "KEK", "PK", "BootOrder", "Boot0000", "Boot0001"}
MCUnits ==
    ("db" :> 2) @@ ("KEK" :> 3) @@ ("PK" :> 2)
    @@ ("BootOrder" :> 9) @@ ("Boot0000" :> 8) @@ ("Boot0001" :> 8)
MCCanon == [n \in MCName |-> n]
MCBootName == <<"Boot0000", "Boot0001">>

Nv == {"NV", "BS", "RT"}

Cert == [cert |-> "c"]
MCCertLen == (Cert :> 3)
MCKeySets == {[db |-> Cert, kek |-> Cert, pk |-> Cert]}

Linux == [lo |-> "linux"]
MCLoadOptions == {Linux}
Odd == [odd |-> "bytes"]
Order(ns) == [order |-> ns]
MCOrders == {Order(<<>>), Order(<<0>>), Order(<<1>>), Order(<<0, 1>>)}

\* A key update with attributes of its own and one with the default ones, and
\* one that cannot be signed.
Update(attrs, signer) ==
    [name |-> "db", guid |-> "image", attrs |-> attrs, data |-> Cert, ts |-> "t1", signer |-> signer]
MCAuthWrites == {Update({"NV"}, "rsa"), Update({}, NoSigner)}

MCData == {Cert, Linux, Odd} \cup MCOrders \cup {Payload(w) : w \in MCAuthWrites}
MCDataLen ==
    [d \in MCData |->
        IF d = Cert THEN SignatureListLen(d)
        ELSE IF "order" \in DOMAIN d THEN 2 * Len(d.order)
        ELSE IF "ts" \in DOMAIN d THEN EfiTimeSize + d.dwLength + SignatureListLen(d.data)
        ELSE 1]

MCAttr == {Nv, {"NV", TimeBased}, Nv \cup {TimeBased}}

MCValues == {}

Store(n, recs) ==
    [len |-> n + 12, fv |-> FALSE, sig |-> "plain", formatted |-> TRUE, healthy |-> TRUE,
     size |-> n, recs |-> recs, tail |-> "ftw"]

BadOrder == [name |-> "BootOrder", guid |-> "global", attrs |-> Nv, data |-> Odd]

\* Records of 88 bytes for a key, 132 for a signed one, 52 for a boot entry
\* and 56 for the order.
MCImages == {Store(344, <<>>), Store(230, <<>>), Store(230, <<Encode(BadOrder)>>)}

Formatted == [Store(344, <<>>) EXCEPT !.len = 344, !.tail = "erased"]

\* Behind the header and behind one, two and three records.
MCCuts == {0, 30, 130, 210}
=============================================================================
