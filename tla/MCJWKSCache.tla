---------------------------- MODULE MCJWKSCache -----------------------------
(***************************************************************************)
(* JWKSCache on a small instance.  Three calls on a cache that may already *)
(* be filled: a force-refresh, a TTL refresh that overtakes it and the     *)
(* force-refresh of the new generation, all in flight together.            *)
(***************************************************************************)
EXTENDS JWKSCache
=============================================================================
