----------------------------- MODULE SecureBoot -----------------------------
(***************************************************************************)
(* EnrollSecureBootKeys (secureboot.go) on a store handle: three Sets, db  *)
(* before KEK before PK, each a whole flush of NvStore that may fail or be *)
(* cut short.  Firmware leaves Setup Mode when it finds a PK.              *)
(***************************************************************************)
EXTENDS NvStore

CONSTANTS
    KeySets,  \* SecureBootKeys: records of the certificates for db, KEK and PK
    CertLen,  \* CertLen[c]: bytes of a DER certificate
    SbAttrs   \* secureBootAttrs

\* len(BuildEFISignatureList(owner, cert)): a 28-byte list header, the owner
\* GUID and the certificate.
SignatureListLen(cert) == U32(28 + U32(16 + CertLen[cert]))

\* enrollOne: the signature list of one certificate under its own name.  The
\* list is known by its certificate.
EnrollOne(name, ns, cert) == SetOp([name |-> name, guid |-> ns, attrs |-> SbAttrs, data |-> cert])

\* Every payload is as long as the signature list of its certificate.
ASSUME SignatureListAssumption ==
    \A keys \in KeySets : \A cert \in {keys.db, keys.kek, keys.pk} :
        DataLen[cert] = SignatureListLen(cert)

\* The names and namespaces of the key variables are ASCII constants.
ASSUME EnrollAssumption ==
    /\ {"db", "KEK", "PK"} \subseteq {n \in Name : Canon[n] = n}
    /\ {"global", "image"} \subseteq Guid
    /\ SbAttrs \in Attr
    /\ \A keys \in KeySets : {keys.db, keys.kek, keys.pk} \subseteq Data

\* Mutant: PK is enrolled first.
EntriesPkFirst(keys) ==
    <<EnrollOne("PK", "global", keys.pk), EnrollOne("db", "image", keys.db),
      EnrollOne("KEK", "global", keys.kek)>>

Entries(keys) ==
    <<EnrollOne("db", "image", keys.db), EnrollOne("KEK", "global", keys.kek),
      EnrollOne("PK", "global", keys.pk)>>

EnrollSecureBootKeys(h, keys) ==
    /\ Idle /\ hnd[h] # Closed
    /\ Begin(h, "Enroll", Entries(keys))

-----------------------------------------------------------------------------
(***************************************************************************)
(* Properties                                                              *)
(***************************************************************************)

PK == [name |-> "PK", guid |-> "global"]

Enrolling == call # NoCall /\ call.op = "Enroll"

\* The variables of the running enrollment that vs holds, and the ones it holds
\* with their new values.
Present(vs) == {k \in DOMAIN call.args : Has(vs, call.args[k].key)}

Enrolled(vs) == {k \in Present(vs) : Get(vs, call.args[k].key) = call.args[k].var}

\* The enrollment leaves no half-activated store.  If neither handle nor file
\* had a PK when it began, then at every point of it, after any failed or
\* torn write and after a crash, a file that opens with a PK also has this
\* enrollment's KEK and db.  A retry on a handle that kept all three in memory
\* after a lost write hands no image with a PK but without the other two to
\* os.WriteFile.
PkImpliesKeys ==
    [][Enrolling =>
          /\ ~Has(call.before, PK) /\ ~Has(call.disk, PK) /\ Opens(file') /\ Has(Parsed(file'), PK)
                => Enrolled(Parsed(file')) = DOMAIN call.args
          /\ call.stage \in {"open", "write"} /\ Has(Parsed(call.buf), PK)
                => \/ Present(Parsed(call.buf)) = DOMAIN call.args
                   \/ Has(call.before, PK) /\ Present(call.before) # DOMAIN call.args]_vars

\* An enrollment that returns nil has written all three variables, to memory and
\* file.  One that is stopped has set those before the failing one and left
\* those behind it as they were.
EnrollIsOrdered ==
    [][Enrolling /\ call' = NoCall /\ ret' # "none" =>
          LET vs == hnd'[call.h].vars
              at == Len(call.args) - Len(call.todo) + 1
          IN IF ret' = "ok"
             THEN Enrolled(vs) = DOMAIN call.args /\ Enrolled(Parsed(file')) = DOMAIN call.args
             ELSE \A k \in DOMAIN call.args \ {at} :
                     IF k < at THEN k \in Enrolled(vs)
                               ELSE SameFor(call.args[k].key, call.before, vs)]_vars
=============================================================================
