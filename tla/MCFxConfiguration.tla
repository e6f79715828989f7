--------------------------- MODULE MCFxConfiguration ---------------------------
(***************************************************************************)
(* A small instance of FxConfiguration for TLC: the two directions of one  *)
(* pair of currencies, two ids of each table, so that a selection may be   *)
(* ambiguous or a row end when the next one begins.                        *)
(***************************************************************************)
EXTENDS FxConfiguration, FiniteSets, TLC

CONSTANTS
  MaxViews,   \* bound on the history of a transaction
  MaxRows     \* bound on the rows of both tables

\* States beyond the bounds are checked, and followed no further, and so are those
\* of a refused transaction: it could have been rolled back earlier as well.
WithinBounds ==
  /\ \A h \in Tx : ~At(h, "refused")
  /\ \A h \in Tx : Cardinality(views[h]) <= MaxViews
  /\ Cardinality(rates) + Cardinality(fees) <= MaxRows

Interchangeable == Permutations(Tx) \cup Permutations(Pair) \cup Permutations(Id)
================================================================================
