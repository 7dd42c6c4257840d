----------------------------- MODULE AuthWrite -----------------------------
(***************************************************************************)
(* WriteAuthenticatedVariable (authwrite.go): a descriptor with timestamp  *)
(* and signature in front of the data, written by one Set.  Attributes are *)
(* sets of flags.  A signature is known by what it was computed over; how  *)
(* it is computed and encoded is left out.                                 *)
(***************************************************************************)
EXTENDS SecureBoot

CONSTANTS
    AuthWrites,  \* calls: name, guid, attrs, data, timestamp and signer
    SigLen,      \* bytes of a PKCS#7 blob
    NoSigner     \* an AuthSigner that lacks its key or certificate

EfiTimeSize == 16
WinCertSize == 8 + 16  \* WIN_CERTIFICATE and the CertType GUID

\* AttrTimeBasedAuthenticatedWriteAccess.
TimeBased == "TimeBasedAuth"

\* The name is signed as UTF-16 keeps it, without its terminator.
DigestTBS(name, guid, attrs, ts, data) ==
    [name |-> Canon[name], guid |-> guid, attrs |-> attrs, ts |-> ts, data |-> data]

\* Mutant: the flag is set when the variable is written, not when it is signed.
SignedAttrsAsPassed(w) == IF w.attrs = {} THEN SbAttrs \cup {TimeBased} ELSE w.attrs

WriteAttrs(w) == (IF w.attrs = {} THEN SbAttrs ELSE w.attrs) \cup {TimeBased}

\* The attributes handed to BuildAuthentication2.
SignedAttrs(w) == WriteAttrs(w)

\* BuildAuthentication2, and the data behind it.
Payload(w) ==
    [ts       |-> w.ts,
     dwLength |-> U32(WinCertSize + SigLen),
     tbs      |-> DigestTBS(w.name, w.guid, SignedAttrs(w), w.ts, w.data),
     data     |-> w.data]

PayloadBytes(w) == EfiTimeSize + WinCertSize + SigLen + DataLen[w.data]

\* What a caller may pass, and that the payload it makes is one.
ASSUME PayloadAssumption ==
    \A w \in AuthWrites :
        /\ w.name \in Name /\ w.guid \in Guid /\ w.data \in Data
        /\ w.signer # NoSigner =>
              /\ WriteAttrs(w) \in Attr /\ Payload(w) \in Data
              /\ DataLen[Payload(w)] = PayloadBytes(w)

WriteAuthenticatedVariable(h, w) ==
    /\ Idle /\ hnd[h] # Closed
    /\ IF w.signer = NoSigner
       THEN ret' = "err" /\ UNCHANGED <<file, hnd, call>>
       ELSE Begin(h, "AuthWrite",
                  <<SetOp([name |-> w.name, guid |-> w.guid, attrs |-> WriteAttrs(w), data |-> Payload(w)])>>)

-----------------------------------------------------------------------------

\* ParseAuthentication2 accepts the WIN_CERTIFICATE length of a payload; what
\* is behind the certificate is the data.
ParseAuthentication2(d) ==
    /\ DataLen[d] >= EfiTimeSize + WinCertSize
    /\ d.dwLength \in WinCertSize .. DataLen[d] - EfiTimeSize

DataBehind(d) == DataLen[d] - EfiTimeSize - d.dwLength

\* In every file that opens, each authenticated variable carries a descriptor
\* that parses, ends where its data starts, and whose signature covers the
\* name, namespace, attributes, timestamp and data the variable is read back
\* with: the firmware will find what was signed, also behind a torn write.
AuthBinds ==
    Opens(file) =>
        \A k \in DOMAIN Parsed(file) :
            LET v == Parsed(file)[k]
                d == v.data
            IN TimeBased \in v.attrs =>
                  /\ ParseAuthentication2(d) /\ DataBehind(d) = DataLen[d.data]
                  /\ d.tbs = DigestTBS(v.name, v.guid, v.attrs, d.ts, d.data)
=============================================================================
