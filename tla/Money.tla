--------------------------------- MODULE Money ---------------------------------
(***************************************************************************)
(* Amounts and rates as text: how decimal texts become minor units and     *)
(* back, without rounding, and how an exact rate converts them, with one.  *)
(* A text is kept by its parts; numerals have a base of their own, which   *)
(* is ten in the code.  One state is one call, of any arguments.           *)
(***************************************************************************)
EXTENDS Integers, Sequences, SequencesExt

CONSTANTS
  Base,          \* of the numerals
  MaxI64,        \* the largest i64
  Scales,        \* fractional digits of the currencies
  MaxScale,      \* the largest scale a conversion takes
  MaxWhole,      \* digits before the point of a rate,
  MaxFraction,   \* after it,
  MaxDigits,     \* and together
  Texts,         \* texts that are parsed
  Amounts,       \* amounts that are formatted and converted
  None           \* no call yet

Digit == 0 .. Base - 1

\* A leading sign, the parts before and after the first point, and whether there
\* is anything else, such as blanks, letters or a second point.
IsText(text) ==
  /\ text.negative \in BOOLEAN /\ text.point \in BOOLEAN /\ text.other \in BOOLEAN
  /\ text.whole \in Seq(Digit) /\ text.fraction \in Seq(Digit)
  /\ text.point \/ text.fraction = <<>>

ASSUME MoneyAssumption ==
  /\ Base \in Nat \ {0, 1}
  /\ MaxI64 \in Nat
  /\ Scales \subseteq Nat
  /\ {MaxScale, MaxWhole, MaxFraction, MaxDigits} \subseteq Nat
  /\ \A text \in Texts : IsText(text)
  /\ Amounts \subseteq -MaxI64 - 1 .. MaxI64

VARIABLE call  \* the function called, its arguments and its result

I64 == -MaxI64 - 1 .. MaxI64

Ok(value) == [status |-> "ok", value |-> value]
Error(reason) == [status |-> reason, value |-> 0]

\* The powers of the base.
Power[n \in Nat] == IF n = 0 THEN 1 ELSE Base * Power[n - 1]

Numeral(digits) == FoldLeft(LAMBDA n, d : n * Base + d, 0, digits)

(***************************************************************************)
(* The functions.                                                          *)
(***************************************************************************)
\* Bug: digits that do not fit the scale are cut off.
ParseMinorUnitsCutting(text, scale) ==
  LET kept == SubSeq(text.fraction, 1, IF Len(text.fraction) < scale
                                       THEN Len(text.fraction) ELSE scale)
      absolute == Numeral(text.whole) * Power[scale]
                    + Numeral(kept) * Power[scale - Len(kept)]
      amount == IF text.negative THEN -absolute ELSE absolute
  IN CASE text.other \/ text.whole = <<>> \/ (text.point /\ text.fraction = <<>>) ->
            Error("malformed")
       [] amount \notin I64 -> Error("overflow")
       [] OTHER -> Ok(amount)

ParseMinorUnits(text, scale) ==
  IF text.other \/ text.whole = <<>> \/ (text.point /\ text.fraction = <<>>)
  THEN Error("malformed")
  ELSE IF Len(text.fraction) > scale THEN Error("too_many_fractional_digits")
  ELSE LET absolute == Numeral(text.whole) * Power[scale]
                         + Numeral(text.fraction) * Power[scale - Len(text.fraction)]
           amount == IF text.negative THEN -absolute ELSE absolute
       IN IF amount \in I64 THEN Ok(amount) ELSE Error("overflow")

ParseInitialBalance(text, scale) ==
  LET parsed == ParseMinorUnits(text, scale)
  IN IF parsed.value < 0 THEN Error("negative") ELSE parsed

\* Bug: zeros in front of the fractional digits are lost.
PaddedWithoutZeros(n, width) ==
  IF n = 0 THEN <<0>> ELSE
  LET digits == [i \in 1 .. width |-> (n \div Power[width - i]) % Base]
  IN SubSeq(digits, CHOOSE i \in 1 .. width : /\ digits[i] # 0
                                              /\ \A j \in 1 .. i - 1 : digits[j] = 0, width)

\* The digits of n, with zeros in front up to a width.
Padded(n, width) == [i \in 1 .. width |-> (n \div Power[width - i]) % Base]

\* As many digits as n needs.
Digits(n) == Padded(n, CHOOSE w \in 1 .. n + 1 :
                         n < Power[w] /\ \A v \in 1 .. w - 1 : n >= Power[v])

FormatMinorUnits(amount, scale) ==
  LET absolute == IF amount < 0 THEN -amount ELSE amount
  IN [negative |-> amount < 0,
      whole    |-> Digits(absolute \div Power[scale]),
      point    |-> scale > 0,
      fraction |-> IF scale > 0 THEN Padded(absolute % Power[scale], scale) ELSE <<>>,
      other    |-> FALSE]

\* ExactRate::parse keeps the digits and where the point is.
ParseRate(text) ==
  IF \/ text.other \/ text.negative \/ text.whole = <<>>
     \/ Len(text.whole) > MaxWhole \/ Len(text.fraction) > MaxFraction
     \/ Len(text.whole) + Len(text.fraction) > MaxDigits
     \/ Numeral(text.whole \o text.fraction) = 0
  THEN Error("invalid_rate")
  ELSE Ok([coefficient |-> Numeral(text.whole \o text.fraction),
           scale       |-> Len(text.fraction)])

\* Bug: the remainder is dropped.
Truncate(n, d) == n \div d
HalfUpDivide(n, d) == (n \div d) + (IF 2 * (n % d) >= d THEN 1 ELSE 0)

CalculateDestination(amount, sourceScale, destinationScale, rate) ==
  IF amount <= 0 THEN Error("invalid_amount")
  ELSE IF sourceScale > MaxScale \/ destinationScale > MaxScale
       THEN Error("invalid_scale")
  ELSE LET q == HalfUpDivide(amount * rate.coefficient * Power[destinationScale],
                             Power[rate.scale] * Power[sourceScale])
       IN CASE q = 0        -> Error("destination_too_small")
            [] q \notin I64 -> Error("overflow")
            [] OTHER        -> Ok(q)

(***************************************************************************)
(* The specification.                                                      *)
(***************************************************************************)
Call(operation, arguments, result) ==
  call' = [operation |-> operation, arguments |-> arguments, result |-> result]

Parse(text, scale) ==
  Call("parse", [text |-> text, scale |-> scale], ParseMinorUnits(text, scale))

ParseInitial(text, scale) ==
  Call("parse_initial", [text |-> text, scale |-> scale], ParseInitialBalance(text, scale))

Format(amount, scale) ==
  Call("format", [amount |-> amount, scale |-> scale], FormatMinorUnits(amount, scale))

Convert(amount, from, to, text) ==
  Call("convert", [amount |-> amount, from |-> from, to |-> to, text |-> text],
       IF ParseRate(text).status = "ok"
       THEN CalculateDestination(amount, from, to, ParseRate(text).value)
       ELSE Error("invalid_rate"))

Init == call = None

Next ==
  /\ call = None
  /\ \/ \E text \in Texts, scale \in Scales : Parse(text, scale) \/ ParseInitial(text, scale)
     \/ \E amount \in Amounts, scale \in Scales : Format(amount, scale)
     \/ \E amount \in Amounts, from, to \in Scales, text \in Texts :
          Convert(amount, from, to, text)

Spec == Init /\ [][Next]_call

(***************************************************************************)
(* Properties.                                                             *)
(***************************************************************************)
Called(operation) == call # None /\ call.operation = operation

\* What a text stands for: a numerator over a power of the base.
Wellformed(text) ==
  ~text.other /\ text.whole # <<>> /\ (text.point => text.fraction # <<>>)
Numerator(text) ==
  (IF text.negative THEN -1 ELSE 1) * Numeral(text.whole \o text.fraction)

\* An amount is taken exactly or not at all, and refused only if its text is no
\* decimal, is finer than the currency, or does not fit (parse_minor_units); an
\* initial balance also if it is below zero, however it is written
\* (parse_initial_balance).
ParsedExactlyOrRefused ==
  Called("parse") \/ Called("parse_initial") =>
    LET text == call.arguments.text
        scale == call.arguments.scale
        initial == Called("parse_initial")
        exact(n) == n * Power[Len(text.fraction)] = Numerator(text) * Power[scale]
    IN CASE call.result.status = "ok" ->
              /\ Wellformed(text) /\ exact(call.result.value)
              /\ initial => call.result.value >= 0
         [] call.result.status = "negative" -> initial /\ Numerator(text) < 0
         [] OTHER ->
              \/ ~Wellformed(text)
              \/ Len(text.fraction) > scale
              \/ \A n \in I64 : ~exact(n)

\* Whatever amount the service shows, the smallest i64 included, a client can
\* send back: it is parsed to the same amount in the same currency.
ShownAmountsParseBack ==
  Called("format") =>
    ParseMinorUnits(call.result, call.arguments.scale) = Ok(call.arguments.amount)

\* A conversion is the exact product of amount and rate, rounded once, halves
\* up: no other amount is nearer (calculate_destination).
ConvertedOnceAndNearest ==
  Called("convert") /\ call.result.status = "ok" =>
    LET arguments == call.arguments
        n == arguments.amount * Numerator(arguments.text) * Power[arguments.to]
        d == Power[Len(arguments.text.fraction) + arguments.from]
        q == call.result.value
    IN /\ q \in 1 .. MaxI64
       /\ 2 * (q * d - n) <= d
       /\ 2 * (n - q * d) < d
=============================================================================
