---------------------------- MODULE NumberReader ----------------------------
(***************************************************************************)
(* decode_numeric of ultrajsondec.c: the text of one number, byte by byte, *)
(* into the call of the constructor that returns it.                       *)
(*                                                                         *)
(* JSUINT64 counts modulo Modulus.  The limits of the integer types are    *)
(* constants, so that TLC can meet them with few digits.                   *)
(*                                                                         *)
(* A definition marked "Mutant" is its successor with a bug; it is used by *)
(* no definition here and shows which property catches the bug.            *)
(***************************************************************************)
EXTENDS Integers, Sequences

CONSTANTS
  Inputs,     \* the texts considered, each up to the NUL behind it
  IntLimit,   \* 2^31: newInt takes a JSINT32
  Half,       \* 2^63: newLong takes a JSINT64
  Modulus,    \* 2^64
  ReadDigits  \* sys.get_int_max_str_digits() when loads is called; 0 is no limit

WidthAssumption ==
  /\ IntLimit \in Nat \ {0}
  /\ Half \in Nat /\ \E k \in 1..Half : Half = k * IntLimit
  /\ Modulus = 2 * Half

Bytes == 0..255

ASSUME NumberAssumption ==
  /\ WidthAssumption
  /\ ReadDigits \in Nat
  /\ \A t \in Inputs : t \in Seq(Bytes) /\ Len(t) > 0 /\ t[Len(t)] = 0

VARIABLES
  text,      \* the document from ds->start on
  pos,       \* offset, as an index into text
  phase,     \* "start", "signed" behind a sign, "scan" in the digits, "done"
  intNeg,    \* -1 behind a minus sign, or 1
  intValue,  \* JSUINT64
  hasError,  \* 1 once a test of the limits has failed
  result,    \* the constructor called and its argument
  value      \* not in the code: the number the digits read so far stand for

readerVars == <<text, pos, phase, intNeg, intValue, hasError, result, value>>

Call(by, arg) == [by |-> by, arg |-> arg]
NoCall == Call("none", 0)

Constructors == {"newInt", "newLong", "newUnsignedLong", "newIntegerFromString"}
Others == {"newDouble", "newNaN", "newPosInf", "newNegInf", "SetError", "ValueError"}

-----------------------------------------------------------------------------
(* Characters and limits. *)

Minus == 45
Digits == 48..57
DoubleMarks == {46, 69, 101}    \* . E e
Infinity == <<73, 110, 102, 105, 110, 105, 116, 121>>
NaN == <<78, 97, 78>>

Chr == text[pos]
IsAt(word) ==
  pos + Len(word) - 1 <= Len(text) /\ \A i \in DOMAIN word : text[pos + i - 1] = word[i]

\* maxIntValue and overflowLimit.
MaxIntValue == IF intNeg = 1 THEN Modulus - 1 ELSE Half
OverflowLimit == MaxIntValue \div 10

\* The casts to JSINT64 and to JSINT32.
Signed64(x) == IF x >= Half THEN x - Modulus ELSE x
Signed32(x) ==
  LET low == x % (2 * IntLimit) IN IF low >= IntLimit THEN low - 2 * IntLimit ELSE low

-----------------------------------------------------------------------------
ReaderInit ==
  /\ text \in Inputs
  /\ pos = 1
  /\ phase = "start"
  /\ intNeg = 1
  /\ intValue = 0
  /\ hasError = 0
  /\ result = NoCall
  /\ value = 0

TakeSign ==
  /\ phase = "start"
  /\ Chr = Minus
  /\ phase' = "signed"
  /\ pos' = pos + 1
  /\ intNeg' = 0 - 1
  /\ UNCHANGED <<text, intValue, hasError, result, value>>

Return(call) ==
  /\ result' = call
  /\ phase' = "done"
  /\ UNCHANGED <<text, intNeg, intValue, hasError, value>>

DecodeInf ==
  /\ phase \in {"start", "signed"}
  /\ Chr = Infinity[1]
  /\ IF IsAt(Infinity)
     THEN pos' = pos + 8 /\ Return(Call(IF intNeg = 1 THEN "newPosInf" ELSE "newNegInf", 0))
     ELSE pos' = pos /\ Return(Call("SetError", 0))

DecodeNaN ==
  /\ phase = "start"
  /\ Chr = NaN[1]
  /\ IF IsAt(NaN)
     THEN pos' = pos + 3 /\ Return(Call("newNaN", 0))
     ELSE pos' = pos /\ Return(Call("SetError", 0))

\* The loop is entered at the first character that is none of the above.
Scanning ==
  \/ phase = "start" /\ Chr \notin {Minus, Infinity[1], NaN[1]}
  \/ phase = "signed" /\ Chr # Infinity[1]
  \/ phase = "scan"

\* Mutant: the test of the multiplication is left out.
OverflowsBySumOnly(digit) == (MaxIntValue - ((intValue * 10) % Modulus)) % Modulus < digit

\* The two tests, the second one in unsigned arithmetic after a multiplication
\* that wraps if the first one failed.
Overflows(digit) ==
  \/ intValue > OverflowLimit
  \/ (MaxIntValue - ((intValue * 10) % Modulus)) % Modulus < digit

ScanDigit ==
  /\ Scanning
  /\ Chr \in Digits
  /\ LET digit == Chr - 48
     IN /\ hasError' = IF Overflows(digit) THEN 1 ELSE hasError
        /\ intValue' = (intValue * 10 + digit) % Modulus
        /\ value' = value * 10 + digit
  /\ pos' = pos + 1
  /\ phase' = "scan"
  /\ UNCHANGED <<text, intNeg, result>>

\* decodeDouble starts again at the sign; how many characters double-conversion
\* takes is not modelled.
DecodeDouble ==
  /\ Scanning
  /\ Chr \in DoubleMarks
  /\ pos' \in 1..Len(text)
  /\ Return(Call("newDouble", 0))

\* newIntegerFromString is given the characters scanned, sign included.
\* PyLong_FromString returns what they stand for, or raises a ValueError when it
\* counts more digits than the limit; leading zeros are counted too.
DigitsScanned == pos - 1 - (IF intNeg = 1 THEN 0 ELSE 1)
IntegerFromString ==
  IF ReadDigits # 0 /\ DigitsScanned > ReadDigits THEN Call("ValueError", 0)
  ELSE Call("newIntegerFromString", intNeg * value)

\* Mutant: 2^31 is taken for a JSINT32.
ConstructorInt ==
  IF hasError = 1 THEN IntegerFromString
  ELSE IF intNeg = 1 /\ intValue >= Half THEN Call("newUnsignedLong", intValue)
  ELSE IF intValue > IntLimit THEN Call("newLong", Signed64((intValue * intNeg) % Modulus))
  ELSE Call("newInt", Signed32((intValue * intNeg) % Modulus))

Constructor ==
  IF hasError = 1 THEN IntegerFromString
  ELSE IF intNeg = 1 /\ intValue >= Half THEN Call("newUnsignedLong", intValue)
  ELSE IF intValue >= IntLimit THEN Call("newLong", Signed64((intValue * intNeg) % Modulus))
  ELSE Call("newInt", Signed32((intValue * intNeg) % Modulus))

EndNumber ==
  /\ Scanning
  /\ Chr \notin Digits \union DoubleMarks
  /\ Return(Constructor)
  /\ UNCHANGED pos

ReaderNext == TakeSign \/ DecodeInf \/ DecodeNaN \/ ScanDigit \/ DecodeDouble \/ EndNumber

ReaderSpec == ReaderInit /\ [][ReaderNext]_readerVars

-----------------------------------------------------------------------------
(* Invariants. *)

\* The variables hold values of their types; the scan, which looks for no end,
\* has not passed the NUL.
ReaderTypeOK ==
  /\ pos \in 1..Len(text)
  /\ phase \in {"start", "signed", "scan", "done"}
  /\ intNeg \in {1, 0 - 1}
  /\ intValue \in 0..(Modulus - 1)
  /\ hasError \in {0, 1}
  /\ value \in Nat
  /\ result.by \in Constructors \union Others \union {"none"}

\* hasError tells exactly whether the digits exceed the limit for their sign,
\* however often intValue has wrapped since: a number that fits is in intValue.
OverflowExact ==
  IF hasError = 0 THEN intValue = value /\ value <= MaxIntValue ELSE value > MaxIntValue

\* The number returned is the one written, by the narrowest constructor, whose
\* parameter it fits: no cast has truncated it and no sign was lost.  The limit
\* on digits refuses no number that an integer type holds.
NumberExact ==
  /\ result.by \in Constructors =>
       /\ result.arg = intNeg * value
       /\ result.by = "newInt" <=> value < IntLimit
       /\ result.by = "newLong" => result.arg \in (0 - Half)..(Half - 1)
       /\ result.by = "newUnsignedLong" <=> result.arg \in Half..(Modulus - 1)
       /\ result.by = "newIntegerFromString" <=> result.arg \notin (0 - Half)..(Modulus - 1)
  /\ result.by = "ValueError" => value > MaxIntValue
=============================================================================
