------------------------------ MODULE MCResponses ------------------------------
(***************************************************************************)
(* An instance of Responses, and Money in it, for TLC: numerals of base     *)
(* four, which halves, every text of up to three digits before the point    *)
(* and two after it, and any two checks of a handler that fail.             *)
(***************************************************************************)
EXTENDS Responses, TLC

UpTo(n) == UNION {[1 .. k -> Digit] : k \in 0 .. n}

AllTexts ==
  [negative: BOOLEAN, whole: UpTo(3), point: {TRUE}, fraction: UpTo(2), other: {FALSE}]
  \cup [negative: BOOLEAN, whole: UpTo(3), point: {FALSE}, fraction: {<<>>}, other: BOOLEAN]

AllAmounts == -15 .. 14
================================================================================
