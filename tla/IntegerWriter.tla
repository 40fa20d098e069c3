---------------------------- MODULE IntegerWriter ----------------------------
(***************************************************************************)
(* What dumps does with an int: Object_beginTypeContext finds the type     *)
(* that holds it, Buffer_AppendLongUnchecked or                            *)
(* Buffer_AppendUnsignedLongUnchecked writes its digits, last one first,   *)
(* and reverses them.                                                      *)
(*                                                                         *)
(* A definition marked "Mutant" is its successor with a bug; it is used by *)
(* no definition here and shows which property catches the bug.            *)
(***************************************************************************)
EXTENDS Integers, SequencesExt

CONSTANTS
  Numbers,      \* the ints considered
  Maximum,      \* INT64_MAX
  LongChars,    \* 20: what the code says a JSINT64 takes at most
  ULongChars,   \* 21: what it says of a JSUINT64
  WriteDigits   \* sys.get_int_max_str_digits() when dumps is called; 0 is no limit

\* Of ten.
Power[k \in Nat] == IF k = 0 THEN 1 ELSE 10 * Power[k - 1]

\* The limits of the types have at most so many digits, one less with a sign.
ASSUME WriterAssumption ==
  /\ Maximum \in Nat /\ Numbers \subseteq Int
  /\ LongChars \in Nat \ {0} /\ Maximum + 1 < Power[LongChars - 1]
  /\ ULongChars \in Nat /\ 2 * Maximum + 1 < Power[ULongChars]
  /\ WriteDigits \in Nat

VARIABLES
  number,    \* the int
  type,      \* its type, "none" before
  uvalue,    \* what is left to write
  wstr,      \* the characters written
  step       \* "begin", "digits", "reverse", "done", or "raised"; "unused" in
             \* NumberCodec when nothing is written

writerVars == <<number, type, uvalue, wstr, step>>

-----------------------------------------------------------------------------
WriterInit ==
  /\ number \in Numbers
  /\ type = "none"
  /\ uvalue = 0
  /\ wstr = <<>>
  /\ step = "begin"

IsLong == number \in (0 - Maximum - 1)..Maximum
IsULong == number \in (Maximum + 1)..(2 * Maximum + 1)

\* Mutant: the minimum is negated like any other number, which the compiler may
\* take to leave the largest one.
MagnitudeSaturated == IF number < 0 - Maximum THEN Maximum ELSE IF number < 0 THEN 0 - number ELSE number

\* The minimum has no counterpart in JSINT64.
Magnitude ==
  IF number = 0 - Maximum - 1 THEN Maximum + 1
  ELSE IF number < 0 THEN 0 - number
  ELSE number

BeginLong ==
  /\ step = "begin" /\ IsLong
  /\ type' = "JT_LONG"
  /\ uvalue' = Magnitude
  /\ step' = "digits"
  /\ UNCHANGED <<number, wstr>>

\* PyLong_AsLongLong fails with an OverflowError.
BeginULong ==
  /\ step = "begin" /\ ~IsLong /\ IsULong
  /\ type' = "JT_ULONG"
  /\ uvalue' = number
  /\ step' = "digits"
  /\ UNCHANGED <<number, wstr>>

Absolute(n) == IF n < 0 THEN 0 - n ELSE n

\* The interpreter converts no int of more digits than its limit, to or from text.
Beyond(n, limit) == limit # 0 /\ Power[limit] <= Absolute(n)

\* PyNumber_ToBase: the sign and the digits of any number.
ToBase10(n) ==
  LET m == Absolute(n)
      k == CHOOSE k \in 1..(m + 1) : m < Power[k] /\ (k > 1 => Power[k - 1] <= m)
      digits == [i \in 1..k |-> 48 + ((m \div Power[k - i]) % 10)]
  IN IF n < 0 THEN <<45>> \o digits ELSE digits

\* So does PyLong_AsUnsignedLongLong: the text is copied as JT_RAW.
BeginRaw ==
  /\ step = "begin" /\ ~IsLong /\ ~IsULong
  /\ ~Beyond(number, WriteDigits)
  /\ type' = "JT_RAW"
  /\ wstr' = ToBase10(number)
  /\ step' = "done"
  /\ UNCHANGED <<number, uvalue>>

\* PyNumber_ToBase fails with a ValueError: the object is invalid.
RejectRaw ==
  /\ step = "begin" /\ ~IsLong /\ ~IsULong
  /\ Beyond(number, WriteDigits)
  /\ type' = "JT_INVALID"
  /\ step' = "raised"
  /\ UNCHANGED <<number, uvalue, wstr>>

\* Mutant: the condition of the loop looks at what it was before the division.
LastDigitLate(u) == u = 0

\* The do loop ends when nothing is left after a digit.
LastDigit(u) == u \div 10 = 0

AppendDigit ==
  /\ step = "digits"
  /\ wstr' = Append(wstr, 48 + (uvalue % 10))
  /\ uvalue' = uvalue \div 10
  /\ step' = IF LastDigit(uvalue) THEN "reverse" ELSE "digits"
  /\ UNCHANGED <<number, type>>

\* strreverse, of the digits and the sign.
Turned == Reverse(IF type = "JT_LONG" /\ number < 0 THEN Append(wstr, 45) ELSE wstr)

ReverseDigits ==
  /\ step = "reverse"
  /\ wstr' = Turned
  /\ step' = "done"
  /\ UNCHANGED <<number, type, uvalue>>

WriterNext ==
  BeginLong \/ BeginULong \/ BeginRaw \/ RejectRaw \/ AppendDigit \/ ReverseDigits

WriterSpec == WriterInit /\ [][WriterNext]_writerVars

-----------------------------------------------------------------------------
(* Invariants. *)

\* What is written in place, without a test, is what encode() and the code
\* itself say it is at most.
CharsBounded ==
  /\ type = "JT_LONG" => Len(wstr) <= LongChars
  /\ type = "JT_ULONG" => Len(wstr) <= ULongChars
=============================================================================
