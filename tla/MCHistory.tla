------------------------------- MODULE MCHistory -------------------------------
(***************************************************************************)
(* A small instance of History for TLC: three accounts, so that a filter   *)
(* by counterparty leaves rows out.                                        *)
(***************************************************************************)
EXTENDS History, TLC

CONSTANTS a, b, c, r1, r2

OneReader == (a :> r1) @@ (b :> r2) @@ (c :> r2)
================================================================================
