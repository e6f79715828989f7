------------------------------ MODULE MCBenchmark ------------------------------
(***************************************************************************)
(* Instances of the account-pool benchmark for TLC.                         *)
(***************************************************************************)
EXTENDS Benchmark, TLC

\* A level with one request at a time, then one with two.
OneThenTwo == <<1, 2>>
TwoThenTwo == <<2, 2>>
=============================================================================
