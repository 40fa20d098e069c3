SPECIFICATION CodecSpec
CONSTANTS
  Inputs <- Texts
  IntLimit = 8
  Half = 128
  Modulus = 256
  Numbers <- SomeNumbers
  Maximum = 127
  LongChars = 4
  ULongChars = 3
  WriteDigits = 4
  ReadDigits = 3
CHECK_DEADLOCK FALSE
INVARIANTS
  CharsBounded
  OverflowExact
  NumberExact
  IntRoundTrip
