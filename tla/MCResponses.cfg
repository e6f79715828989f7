CONSTANTS
  Base = 4
  MaxI64 = 14
  Scales = {0, 1, 2}
  MaxScale = 1
  MaxWhole = 2
  MaxFraction = 2
  MaxDigits = 3
  Texts <- AllTexts
  Amounts <- AllAmounts
  None = None
SPECIFICATION ResponsesSpec
INVARIANTS
  ParsedExactlyOrRefused
  ShownAmountsParseBack
  ConvertedOnceAndNearest
  OnlyDocumentedStatuses
  CountedAsAnswered
  RetriesAreReplayed
CHECK_DEADLOCK FALSE
