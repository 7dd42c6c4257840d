------------------------------ MODULE Callers ------------------------------
(***************************************************************************)
(* One program that uses the whole package on one store file: enrollment   *)
(* of Secure Boot keys, authenticated writes, boot entries, and every call *)
(* of NvStore, on handles that go stale, over a file system that fails.    *)
(***************************************************************************)
EXTENDS AuthWrite, BootStore

CallersNext ==
    \/ Next
    \/ \E h \in Handle :
          \/ \E keys \in KeySets : EnrollSecureBootKeys(h, keys)
          \/ \E w \in AuthWrites : WriteAuthenticatedVariable(h, w)
          \/ \E lo \in LoadOption : AddBootEntry(h, lo)

\* A call that runs goes on until it returns.
CallersSpec == Init /\ [][CallersNext]_vars /\ WF_vars(CallStep)
=============================================================================
