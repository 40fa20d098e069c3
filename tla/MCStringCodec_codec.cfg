SPECIFICATION CodecSpec
CONSTANTS
  Inputs <- Documents
  Strings <- SomeStrings
  Styles <- AllStyles
CHECK_DEADLOCK FALSE
INVARIANTS
  EscapesFit
  PairsWithHigh
  DecodesText
  SixPerByte
  WellFormed
  RoundTrip
