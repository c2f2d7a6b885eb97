---------------------------- MODULE MCAuditChain ----------------------------
(***************************************************************************)
(* AuditChain on a small instance.  The hash of an event is the pair of    *)
(* the event and the previous hash: distinct inputs have distinct hashes.  *)
(***************************************************************************)
EXTENDS AuditChain

MCHash(e, previous) == <<e, previous>>
MCZeroHash == <<>>
=============================================================================
