------------------------------ MODULE Unicode ------------------------------
(***************************************************************************)
(* UTF-8 and surrogate pairs as the Unicode standard defines them, and as  *)
(* CPython's PyUnicode_DecodeUTF8 with "surrogatepass" accepts them.       *)
(***************************************************************************)
EXTENDS Integers, Sequences

MaxCodePoint == 1114111
HighStart == 55296
LowStart == 56320
LowEnd == 57343
HighSurrogates == HighStart..(LowStart - 1)
LowSurrogates == LowStart..LowEnd

\* The bytes a character of n bytes starts with, and those that may follow them.
FirstBytes(n) ==
  CASE n = 1 -> 0..127 [] n = 2 -> 194..223 [] n = 3 -> 224..239 [] OTHER -> 240..244
SecondBytes(first) ==
  CASE first = 224 -> 160..191 [] first = 240 -> 144..191 [] first = 244 -> 128..143
    [] OTHER -> 128..191

\* The n bytes of b at i encode one character, which may be a surrogate.
IsCharacter(b, i, n) ==
  /\ b[i] \in FirstBytes(n)
  /\ i + n - 1 <= Len(b)
  /\ n > 1 => b[i + 1] \in SecondBytes(b[i])
  /\ \A j \in 2..(n - 1) : b[i + j] \in 128..191

\* How many bytes of b make the character at i, 0 if there is none.
EncodedWidth(b, i) ==
  IF \E n \in 1..4 : IsCharacter(b, i, n) THEN CHOOSE n \in 1..4 : IsCharacter(b, i, n) ELSE 0

\* The bytes of b, from each place on, are characters, one after the other.
WellFormedFrom(b) ==
  LET from[i \in 1..(Len(b) + 1)] ==
        i = Len(b) + 1 \/ (EncodedWidth(b, i) # 0 /\ from[i + EncodedWidth(b, i)])
  IN from
WellFormedUTF8(b) == WellFormedFrom(b)[1]

\* The code point of the character of n bytes at i.
CodePoint(b, i, n) ==
  LET low(j) == b[i + j] - 128
  IN CASE n = 1 -> b[i]
       [] n = 2 -> (b[i] - 192) * 64 + low(1)
       [] n = 3 -> ((b[i] - 224) * 64 + low(1)) * 64 + low(2)
       [] OTHER -> (((b[i] - 240) * 64 + low(1)) * 64 + low(2)) * 64 + low(3)

\* A code point in a JSON string, and whether it is written as an escape.
Char(code, escaped) == [code |-> code, escaped |-> escaped]

\* An escaped high surrogate and an escaped low one behind it are one character.
IsPair(high, low) ==
  /\ high.escaped /\ high.code \in HighSurrogates
  /\ low.escaped /\ low.code \in LowSurrogates
PairCode(high, low) == 65536 + 1024 * (high % 1024) + (low % 1024)
PairAt(chars, i) == i \in 1..(Len(chars) - 1) /\ IsPair(chars[i], chars[i + 1])

\* The code points of the first characters: none of its own for the second one
\* of a pair.
CodeOf(chars, n) ==
  IF PairAt(chars, n)
  THEN PairCode(chars[n].code, chars[n + 1].code)
  ELSE chars[n].code
PairedUpTo(chars) ==
  LET upTo[n \in 0..Len(chars)] ==
        IF n = 0 THEN <<>>
        ELSE IF PairAt(chars, n - 1) THEN upTo[n - 1]
        ELSE Append(upTo[n - 1], CodeOf(chars, n))
  IN upTo
Paired(chars) == PairedUpTo(chars)[Len(chars)]
=============================================================================
