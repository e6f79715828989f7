---------------------------- MODULE MCIdempotency ----------------------------
(***************************************************************************)
(* An instance of Idempotency for TLC: a transfer, its retry and another   *)
(* transfer, all under one key.  That account creation does not look before *)
(* it reserves adds nothing: a lookup may be followed by its INSERT at once. *)
(***************************************************************************)
EXTENDS Idempotency, TLC

CONSTANTS r1, r2, r3, transfer

Scopes == (r1 :> transfer) @@ (r2 :> transfer) @@ (r3 :> transfer)
Bodies == (r1 :> 1) @@ (r2 :> 1) @@ (r3 :> 2)
==============================================================================
