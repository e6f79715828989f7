------------------------------- MODULE MCService -------------------------------
(***************************************************************************)
(* Instances of Service for TLC: one or two requests on a pool of one or    *)
(* two connections, and a process that is configured with a retention that  *)
(* fits, with one that does not, or not at all.                             *)
(***************************************************************************)
EXTENDS Service, TLC

Setting(max, min, retention) ==
  [max_connections |-> max, min_connections |-> min, retention |-> retention]

\* Two are refused at once, one when the pool is made; one panics later.
AllSettings ==
  {Setting(1, 0, 1), Setting(2, 1, 1), Setting(1, 0, 2),
   Setting(1, 2, 1), Setting(1, 0, 0), Setting(0, 0, 1)}

\* One connection.
SmallPool == {Setting(1, 0, 1)}

\* A retention that is a u64 and no i64.
LongRetention == {Setting(1, 0, 2)}

RequestSymmetry == Permutations(Request)
================================================================================
