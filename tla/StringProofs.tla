---------------------------- MODULE StringProofs ----------------------------
(***************************************************************************)
(* The escape buffer of decode_string is large enough, what is written     *)
(* over in it is a high surrogate, and what is left in it are the          *)
(* characters the text means; the output reserved for a string is large    *)
(* enough, and what is written there can stand inside the quotes of a JSON *)
(* string; and what has been written and is read again is the string: for  *)
(* every text, every string and all options.                               *)
(***************************************************************************)
EXTENDS StringText, SequenceTheorems, WellFoundedInduction, TLAPS

-----------------------------------------------------------------------------
(* decode_string. *)

\* The invariant is inductive with lastHigh not behind the scan: only the escape
\* that ends there can have set it.
ReaderInv == ReaderTypeOK /\ EscapesFit /\ PairsWithHigh /\ lastHigh <= pos

\* The largest code unit.
MaxCodeUnit == 65535

\* The bounds, as facts that keep them symbolic: a range of literals would be
\* enumerated.
LEMMA Bounds ==
  /\ MaxCodePoint \in Nat /\ MaxCodePoint >= 1114111 /\ MaxCodePoint < 65536 + 1048576
  /\ MaxCodePoint >= MaxCodeUnit
  /\ MaxCodeUnit \in Nat /\ MaxCodeUnit >= 65535 /\ MaxCodeUnit < 65536
  /\ HighStart \in Nat /\ LowStart \in Nat /\ LowEnd \in Nat
  /\ HighStart + 1023 <= MaxCodeUnit /\ LowEnd <= MaxCodeUnit /\ LowStart + 1023 <= LowEnd
  /\ LowStart <= HighStart + 1024 /\ LowEnd <= LowStart + 1023
  BY SMT DEF MaxCodePoint, MaxCodeUnit, HighStart, LowStart, LowEnd

\* What Byte and the bytes behind it are.
LEMMA ByteType ==
  ASSUME ReaderInv
  PROVE  /\ Byte \in Bytes
         /\ Byte # 0 => /\ pos + 1 <= Len(text) /\ text[pos + 1] \in Bytes
         /\ Byte # 0 /\ text[pos + 1] # 0 => /\ pos + 2 <= Len(text) /\ text[pos + 2] \in Bytes
         /\ Byte # 0 /\ text[pos + 1] # 0 /\ text[pos + 2] # 0 =>
              /\ pos + 3 <= Len(text) /\ text[pos + 3] \in Bytes
         /\ Byte # 0 /\ text[pos + 1] # 0 /\ text[pos + 2] # 0 /\ text[pos + 3] # 0 =>
              /\ pos + 4 <= Len(text) /\ text[pos + 4] \in Bytes
  BY DEF ReaderInv, ReaderTypeOK, EscapesFit, IsText, Byte

\* A step that appends a code point for n bytes, none of them the last NUL,
\* keeps the invariant.
LEMMA AdvanceKeeps ==
  ASSUME ReaderInv, NEW n \in Nat, n > 0, pos + n <= Len(text),
         NEW code \in 0..MaxCodePoint, Advance(n, code), lastHigh' = lastHigh
  PROVE  ReaderInv'
<1>1. ReaderTypeOK'
  BY DEF ReaderInv, ReaderTypeOK, Advance, IsText
<1>2. EscapesFit'
  BY DEF ReaderInv, ReaderTypeOK, EscapesFit, Advance, IsText
<1>3. lastHigh' < pos'
  BY DEF ReaderInv, ReaderTypeOK, Advance
<1> QED
  BY <1>1, <1>2, <1>3 DEF ReaderInv, ReaderTypeOK, PairsWithHigh

\* Copy: one byte, one code point.
LEMMA CopyKeeps ==
  ASSUME ReaderInv, Copy
  PROVE  ReaderInv'
<1>1. Byte \in 0..MaxCodePoint /\ pos + 1 <= Len(text)
  BY ByteType, Bounds, SMT DEF Copy, Plain
<1> QED
  BY <1>1, AdvanceKeeps DEF Copy

\* A sequence of n bytes has as many before the NUL, and its code is bounded.
LEMMA SequenceKeeps ==
  ASSUME ReaderInv, CopySequence
  PROVE  ReaderInv'
<1>1. PICK n \in 2..4 : /\ Byte \in Leads(n) /\ IsSequence(n)
                        /\ Advance(n, Sequence(n)) /\ UNCHANGED lastHigh
  BY DEF CopySequence
<1>2. Byte # 0
  BY <1>1 DEF Leads
<1>3. text[pos + 1] # 0 /\ (n > 2 => text[pos + 2] # 0) /\ (n > 3 => text[pos + 3] # 0)
  BY <1>1 DEF IsSequence, Continuation
<1>4. pos + n <= Len(text)
  BY <1>1, <1>2, <1>3, ByteType
<1>5. Sequence(n) \in 0..MaxCodePoint
  <2>1. Shortest(n) \in Nat
    BY <1>1, SMT DEF Shortest
  <2> QED
    BY <1>1, <2>1 DEF IsSequence
<1> QED
  BY <1>1, <1>4, <1>5, AdvanceKeeps

\* CopyEscape: two bytes, one code point.
LEMMA EscapeKeeps ==
  ASSUME ReaderInv, CopyEscape
  PROVE  ReaderInv'
<1>1. Byte # 0 /\ text[pos + 1] # 0
  BY DEF CopyEscape, Letters
<1>2. pos + 2 <= Len(text)
  BY <1>1, ByteType
<1>3. Escape(text[pos + 1]) \in 0..MaxCodePoint
  BY Bounds, SMT DEF CopyEscape, Escape, Letters
<1> QED
  BY <1>2, <1>3, AdvanceKeeps DEF CopyEscape

\* A hexadecimal digit is not the NUL, and counts below 16.
LEMMA HexBound ==
  ASSUME NEW b \in HexDigits
  PROVE  b # 0 /\ Hex(b) \in Nat /\ Hex(b) <= 15
  BY DEF HexDigits, Hex

\* \u and its digits end before the NUL, and make a code unit.
LEMMA UnitBound ==
  ASSUME ReaderInv, UnicodeEscape, HasDigits
  PROVE  pos + 6 <= Len(text) /\ CodeUnit \in 0..MaxCodeUnit
<1>1. /\ Byte # 0 /\ text[pos + 1] # 0 /\ text[pos + 2] # 0
      /\ text[pos + 3] # 0 /\ text[pos + 4] # 0 /\ text[pos + 5] # 0
  BY HexBound DEF UnicodeEscape, HasDigits
<1>2. pos + 4 <= Len(text)
  BY <1>1, ByteType
<1>3. pos + 6 <= Len(text)
  BY <1>1, <1>2 DEF ReaderInv, ReaderTypeOK, IsText
<1>4. CodeUnit \in 0..MaxCodeUnit
  <2>1. /\ Hex(text[pos + 2]) \in Nat /\ Hex(text[pos + 2]) <= 15
        /\ Hex(text[pos + 3]) \in Nat /\ Hex(text[pos + 3]) <= 15
        /\ Hex(text[pos + 4]) \in Nat /\ Hex(text[pos + 4]) <= 15
        /\ Hex(text[pos + 5]) \in Nat /\ Hex(text[pos + 5]) <= 15
    BY HexBound DEF HasDigits
  <2> QED
    BY <2>1, Bounds, SMT DEF CodeUnit
<1> QED
  BY <1>3, <1>4

\* CopyUnicodeEscape: the code point written over is a high surrogate, so that
\* the two make one, of Unicode, in its place.
LEMMA UnicodeKeeps ==
  ASSUME ReaderInv, CopyUnicodeEscape
  PROVE  ReaderInv'
<1>1. pos + 6 <= Len(text) /\ CodeUnit \in 0..MaxCodeUnit
  BY UnitBound DEF CopyUnicodeEscape
<1>2. pos' = pos + 6 /\ text' = text /\ result' = result
  BY DEF CopyUnicodeEscape
<1>3. lastHigh' \in Nat /\ lastHigh' <= pos'
  BY <1>2 DEF CopyUnicodeEscape, ReaderInv, ReaderTypeOK
<1>4. CASE Pairs
  <2>1. out # <<>> /\ out[Len(out)] \in HighSurrogates /\ CodeUnit \in LowSurrogates
    BY <1>4 DEF Pairs, ReaderInv, PairsWithHigh
  <2>2. Combine(out[Len(out)], CodeUnit) \in 0..MaxCodePoint
    BY <2>1, Bounds, SMT DEF Combine, HighSurrogates, LowSurrogates
  <2>3. out' = [out EXCEPT ![Len(out)] = Combine(out[Len(out)], CodeUnit)]
    BY <1>4 DEF CopyUnicodeEscape
  <2>4. out' \in Seq(0..MaxCodePoint) /\ Len(out') = Len(out)
    BY <2>1, <2>2, <2>3 DEF ReaderInv, ReaderTypeOK
  <2>5. ~IsHigh(CodeUnit)
    BY <2>1, Bounds, SMT DEF IsHigh, HighSurrogates, LowSurrogates
  <2>6. lastHigh' # pos'
    BY <1>2, <2>5 DEF CopyUnicodeEscape, ReaderInv, ReaderTypeOK
  <2> QED
    BY <1>1, <1>2, <1>3, <2>4, <2>6
    DEF ReaderInv, ReaderTypeOK, EscapesFit, PairsWithHigh, IsText
<1>5. CASE ~Pairs
  <2>1. out' = Append(out, CodeUnit)
    BY <1>5 DEF CopyUnicodeEscape
  <2>2. out' \in Seq(0..MaxCodePoint) /\ Len(out') = Len(out) + 1 /\ out'[Len(out')] = CodeUnit
    BY <1>1, <2>1, Bounds, SMT DEF ReaderInv, ReaderTypeOK
  <2>3. lastHigh' = pos' => CodeUnit \in HighSurrogates
    BY <1>2 DEF CopyUnicodeEscape, IsHigh, ReaderInv, ReaderTypeOK
  <2>4. out' # <<>>
    BY <2>2 DEF ReaderInv, ReaderTypeOK
  <2> QED
    BY <1>1, <1>2, <1>3, <2>2, <2>3, <2>4
    DEF ReaderInv, ReaderTypeOK, EscapesFit, PairsWithHigh, IsText
<1> QED
  BY <1>4, <1>5

\* The loop of decode_string starts with nothing written.
LEMMA ReaderStart ==
  ASSUME ReaderInit
  PROVE  ReaderInv
  BY ReaderAssumption
  DEF ReaderInit, ReaderInv, ReaderTypeOK, EscapesFit, PairsWithHigh, IsText

\* Each step of decode_string keeps the invariant: those that write are the
\* lemmas above.
LEMMA ReaderStep ==
  ASSUME ReaderInv, [ReaderNext]_readerVars
  PROVE  ReaderInv'
<1>1. CASE CloseQuote
  <2>1. pos + 1 <= Len(text)
    BY <1>1, ByteType DEF CloseQuote
  <2>2. lastHigh' # pos'
    BY <1>1 DEF CloseQuote, ReaderInv, ReaderTypeOK
  <2> QED
    BY <1>1, <2>1, <2>2
    DEF CloseQuote, ReaderInv, ReaderTypeOK, EscapesFit, PairsWithHigh, IsText
<1>2. CASE SetError
  BY <1>2 DEF SetError, ReaderInv, ReaderTypeOK, EscapesFit, PairsWithHigh
<1>3. CASE Copy
  BY <1>3, CopyKeeps
<1>4. CASE CopySequence
  BY <1>4, SequenceKeeps
<1>5. CASE CopyEscape
  BY <1>5, EscapeKeeps
<1>6. CASE CopyUnicodeEscape
  BY <1>6, UnicodeKeeps
<1>7. CASE UNCHANGED readerVars
  BY <1>7 DEF readerVars, ReaderInv, ReaderTypeOK, EscapesFit, PairsWithHigh
<1> QED
  BY <1>1, <1>2, <1>3, <1>4, <1>5, <1>6, <1>7
  DEF ReaderNext, Character, RejectByte, RejectSequence, RejectEscape

-----------------------------------------------------------------------------
(* Buffer_EscapeString. *)

\* The invariant is inductive with WriterTypeOK: that bounds the digits and
\* letters by octets, and of by the bytes read.
WriterInv == WriterTypeOK /\ SixPerByte

\* A number up to 255 is an octet.
LEMMA OctetIs ==
  ASSUME NEW b \in Nat, b <= 255
  PROVE  b \in Octets
  BY SMT DEF Octets

\* An octet is a number up to 255.
LEMMA OctetBound ==
  ASSUME NEW b \in Octets
  PROVE  b \in Nat /\ b <= 255
  BY SMT DEF Octets

\* A digit is an octet.
LEMMA DigitType ==
  ASSUME NEW v \in Nat, v <= 15
  PROVE  HexDigit(v) \in Octets
<1>1. HexDigit(v) \in Nat /\ HexDigit(v) <= 255
  BY SMT DEF HexDigit
<1> QED
  BY <1>1, OctetIs

\* The digits of a code unit.
LEMMA UnitType ==
  ASSUME NEW u \in Nat, u <= MaxCodeUnit
  PROVE  Unit(u) \in Seq(Octets) /\ Len(Unit(u)) = 6
<1>1. u \div 4096 \in Nat /\ u \div 4096 <= 15
  BY Bounds, SMT
<1>2. (u \div 256) % 16 \in Nat /\ (u \div 256) % 16 <= 15
  BY SMT
<1>3. (u \div 16) % 16 \in Nat /\ (u \div 16) % 16 <= 15
  BY SMT
<1>4. u % 16 \in Nat /\ u % 16 <= 15
  BY SMT
<1>5. 92 \in Octets /\ 117 \in Octets
  BY OctetIs
<1> DEFINE a == HexDigit(u \div 4096)
           b == HexDigit((u \div 256) % 16)
           c == HexDigit((u \div 16) % 16)
           d == HexDigit(u % 16)
<1>6. a \in Octets /\ b \in Octets /\ c \in Octets /\ d \in Octets
  BY <1>1, <1>2, <1>3, <1>4, DigitType
<1>7. Unit(u) = <<92, 117, a, b, c, d>>
  BY DEF Unit
<1> HIDE DEF a, b, c, d
<1> QED
  BY <1>5, <1>6, <1>7

\* One byte becomes one to six.
LEMMA OneByteType ==
  ASSUME NEW b \in Octets
  PROVE  /\ OneByte(b) \in Seq(Octets)
         /\ Len(OneByte(b)) >= 1 /\ Len(OneByte(b)) <= 6
<1>1. 92 \in Octets /\ 47 \in Octets
  BY OctetIs
<1>2. Letter(b) \in Octets
  <2>1. 98 \in Octets /\ 116 \in Octets /\ 110 \in Octets /\ 102 \in Octets /\ 114 \in Octets
    BY OctetIs
  <2> QED
    BY <2>1, SMT DEF Letter
<1>3. Unit(b) \in Seq(Octets) /\ Len(Unit(b)) = 6
  BY OctetBound, UnitType, Bounds
<1>4. CASE OneByte(b) = <<92, Letter(b)>>
  BY <1>1, <1>2, <1>4
<1>5. CASE OneByte(b) = <<92, 47>>
  BY <1>1, <1>5
<1>6. CASE OneByte(b) = Unit(b)
  <2>1. OneByte(b) \in Seq(Octets) /\ Len(OneByte(b)) = 6
    BY <1>3, <1>6, Zenon
  <2> QED
    BY <2>1
<1>7. CASE OneByte(b) = <<b>>
  BY <1>7
<1> QED
  BY <1>4, <1>5, <1>6, <1>7, Zenon DEF OneByte

\* A code point becomes six bytes, or twelve if it needs a sequence of four.
LEMMA EscapedType ==
  ASSUME NEW u \in Nat, u <= MaxCodePoint
  PROVE  /\ Escaped(u) \in Seq(Octets)
         /\ Len(Escaped(u)) >= 6 /\ Len(Escaped(u)) <= 12
<1>1. CASE u < 65536
  <2>1. u <= MaxCodeUnit
    BY <1>1, Bounds
  <2>2. Unit(u) \in Seq(Octets) /\ Len(Unit(u)) = 6
    BY <2>1, UnitType
  <2>3. Escaped(u) = Unit(u)
    BY <1>1, SMT DEF Escaped
  <2>4. Escaped(u) \in Seq(Octets) /\ Len(Escaped(u)) = 6
    BY <2>2, <2>3, Zenon
  <2> QED
    BY <2>4
<1>2. CASE u >= 65536
  <2> DEFINE high == HighStart + ((u - 65536) \div 1024)
             low == LowStart + ((u - 65536) % 1024)
  <2>1. high \in Nat /\ high <= MaxCodeUnit
    BY <1>2, Bounds, SMT
  <2>2. low \in Nat /\ low <= MaxCodeUnit
    BY <1>2, Bounds, SMT
  <2>3. /\ Unit(high) \in Seq(Octets) /\ Len(Unit(high)) = 6
        /\ Unit(low) \in Seq(Octets) /\ Len(Unit(low)) = 6
    BY <2>1, <2>2, UnitType
  <2>4. Escaped(u) = Unit(high) \o Unit(low)
    BY <1>2, SMT DEF Escaped
  <2> HIDE DEF high, low
  <2>5. Len(Unit(high) \o Unit(low)) = 12 /\ Unit(high) \o Unit(low) \in Seq(Octets)
    <3>1. Len(Unit(high) \o Unit(low)) = Len(Unit(high)) + Len(Unit(low))
      BY <2>3, ConcatProperties
    <3>2. Len(Unit(high) \o Unit(low)) = 6 + 6
      BY <2>3, <3>1, Zenon
    <3> QED
      BY <2>3, <3>2, ConcatProperties
  <2>6. Escaped(u) \in Seq(Octets) /\ Len(Escaped(u)) = 12
    BY <2>4, <2>5, Zenon
  <2> QED
    BY <2>6
<1> QED
  BY <1>1, <1>2

\* A step that consumes n bytes of the string and writes up to six for each
\* keeps the invariant.
LEMMA PutKeeps ==
  ASSUME WriterInv, NEW n \in Nat, io + n - 1 <= Len(source),
         NEW bytes \in Seq(Octets), Len(bytes) >= n, Len(bytes) <= 6 * n,
         n > 0, Put(n, bytes)
  PROVE  WriterInv'
  BY DEF WriterInv, WriterTypeOK, SixPerByte, Put

\* Each step of Buffer_EscapeString keeps the invariant.
LEMMA WriterStep ==
  ASSUME WriterInv, [WriterNext]_writerVars
  PROVE  WriterInv'
<1>1. CASE WriteByte
  <2>1. io <= Len(source) /\ Octet \in Octets
    BY <1>1 DEF WriteByte, AtEnd, Octet, WriterInv, WriterTypeOK
  <2>2. /\ OneByte(Octet) \in Seq(Octets)
        /\ Len(OneByte(Octet)) >= 1 /\ Len(OneByte(Octet)) <= 6
    BY <2>1, OneByteType
  <2> QED
    <3>1. io + 1 - 1 <= Len(source) /\ Put(1, OneByte(Octet))
      BY <1>1, <2>1 DEF WriteByte, WriterInv, WriterTypeOK
    <3>2. Len(OneByte(Octet)) <= 6 * 1
      BY <2>2
    <3> QED
      BY <2>2, <3>1, <3>2, PutKeeps
<1>2. CASE WriteSequence
  <2>1. PICK n \in 2..4 : Accepted(n) /\ Put(n, Escaped(Ucs(n)))
    BY <1>2 DEF WriteSequence
  <2>2. Ucs(n) \in Nat /\ Ucs(n) <= MaxCodePoint
    <3>1. Least(n) \in Nat
      BY SMT DEF Least
    <3> QED
      BY <2>1, <3>1 DEF Accepted
  <2>3. /\ Escaped(Ucs(n)) \in Seq(Octets)
        /\ Len(Escaped(Ucs(n))) >= 6 /\ Len(Escaped(Ucs(n))) <= 12
    BY <2>2, EscapedType
  <2>4. io + n - 1 <= Len(source)
    BY <2>1 DEF Accepted
  <2> QED
    BY <2>1, <2>3, <2>4, PutKeeps
<1>3. CASE \E v \in {"TRUE", "FALSE"} : Conclude(v)
  BY <1>3 DEF Conclude, WriterInv, WriterTypeOK, SixPerByte
<1>4. CASE UNCHANGED writerVars
  BY <1>4 DEF writerVars, WriterInv, WriterTypeOK, SixPerByte
<1> QED
  BY <1>1, <1>2, <1>3, <1>4 DEF WriterNext, EndString, RefuseSequence

\* The initial states of Buffer_EscapeString.
LEMMA WriterStart ==
  ASSUME WriterInit
  PROVE  WriterInv
  BY WriterAssumption DEF WriterInit, WriterInv, WriterTypeOK, SixPerByte

-----------------------------------------------------------------------------
(* What the loop of Buffer_EscapeString writes is the inside of a JSON string. *)

\* An index of the first of two sequences is one of both.
LEMMA FirstOfBoth ==
  ASSUME NEW s \in Seq(Octets), NEW t \in Seq(Octets), NEW i \in 1..Len(s)
  PROVE  (s \o t)[i] = s[i] /\ i \in 1..Len(s \o t)
  BY ConcatProperties

\* One of the second, moved by the length of the first, too.
LEMMA SecondOfBoth ==
  ASSUME NEW s \in Seq(Octets), NEW t \in Seq(Octets), NEW i \in 1..Len(t)
  PROVE  (s \o t)[Len(s) + i] = t[i] /\ Len(s) + i \in 1..Len(s \o t)
  BY ConcatProperties

\* What follows the first sequence does not undo its escapes.
LEMMA EscapeAtFirst ==
  ASSUME NEW s \in Seq(Octets), NEW t \in Seq(Octets), NEW i \in 1..Len(s), EscapeAt(s, i)
  PROVE  EscapeAt(s \o t, i)
<1>1. Len(s \o t) = Len(s) + Len(t) /\ Len(s) \in Nat /\ Len(t) \in Nat
  BY ConcatProperties
<1>2. CASE i + 1 <= Len(s) /\ s[i + 1] \in EscapeLetters
  <2>1. i + 1 \in 1..Len(s)
    BY <1>2
  <2>2. (s \o t)[i + 1] = s[i + 1] /\ i + 1 <= Len(s \o t)
    BY <1>1, <2>1, FirstOfBoth
  <2> QED
    BY <1>2, <2>2, Zenon DEF EscapeAt
<1>3. CASE i + 5 <= Len(s) /\ s[i + 1] = 117 /\ \A j \in 2..5 : s[i + j] \in LowerHex
  <2>1. i + 5 <= Len(s \o t) /\ (s \o t)[i + 1] = 117
    BY <1>1, <1>3, FirstOfBoth
  <2>2. ASSUME NEW j \in 2..5 PROVE (s \o t)[i + j] \in LowerHex
    <3>1. i + j \in 1..Len(s)
      BY <1>3
    <3>2. (s \o t)[i + j] = s[i + j]
      BY <3>1, FirstOfBoth
    <3> QED
      BY <1>3, <3>2, Zenon
  <2> QED
    BY <2>1, <2>2, Zenon DEF EscapeAt
<1> QED
  BY <1>2, <1>3, Zenon DEF EscapeAt

\* Nor does what precedes the second the escapes of that.
LEMMA EscapeAtSecond ==
  ASSUME NEW s \in Seq(Octets), NEW t \in Seq(Octets), NEW i \in 1..Len(t), EscapeAt(t, i)
  PROVE  EscapeAt(s \o t, Len(s) + i)
<1>1. Len(s \o t) = Len(s) + Len(t) /\ Len(s) \in Nat /\ Len(t) \in Nat
  BY ConcatProperties
<1>2. CASE i + 1 <= Len(t) /\ t[i + 1] \in EscapeLetters
  <2>1. i + 1 \in 1..Len(t)
    BY <1>2
  <2>2. (s \o t)[Len(s) + (i + 1)] = t[i + 1]
    BY <2>1, SecondOfBoth
  <2>3. Len(s) + (i + 1) = (Len(s) + i) + 1 /\ (Len(s) + i) + 1 <= Len(s \o t)
    BY <1>1, <1>2
  <2> QED
    BY <1>2, <2>2, <2>3, Zenon DEF EscapeAt
<1>3. CASE i + 5 <= Len(t) /\ t[i + 1] = 117 /\ \A j \in 2..5 : t[i + j] \in LowerHex
  <2>1. ASSUME NEW j \in 1..5 PROVE (s \o t)[(Len(s) + i) + j] = t[i + j]
    <3>1. i + j \in 1..Len(t)
      BY <1>3
    <3>2. (s \o t)[Len(s) + (i + j)] = t[i + j]
      BY <3>1, SecondOfBoth
    <3>3. Len(s) + (i + j) = (Len(s) + i) + j
      BY <1>1
    <3> QED
      BY <3>2, <3>3, Zenon
  <2>2. (Len(s) + i) + 5 <= Len(s \o t)
    BY <1>1, <1>3
  <2>3. (s \o t)[(Len(s) + i) + 1] = 117
    BY <1>3, <2>1
  <2>4. ASSUME NEW j \in 2..5 PROVE (s \o t)[(Len(s) + i) + j] \in LowerHex
    <3>1. (s \o t)[(Len(s) + i) + j] = t[i + j]
      <4>1. j \in 1..5
        OBVIOUS
      <4> QED
        BY <2>1, <4>1, Zenon
    <3> QED
      BY <1>3, <3>1, Zenon
  <2> QED
    BY <2>2, <2>3, <2>4, Zenon DEF EscapeAt
<1> QED
  BY <1>2, <1>3, Zenon DEF EscapeAt

\* An escape does not end with the sequence it starts in.
LEMMA StartsBound ==
  ASSUME NEW s \in Seq(Octets), NEW S, Inside(s, S), NEW i \in S
  PROVE  i \in Nat /\ i >= 1 /\ i < Len(s)
<1>1. i \in 1..Len(s) /\ EscapeAt(s, i)
  BY Zenon DEF Inside
<1> QED
  BY <1>1 DEF EscapeAt

\* What has been written, and the bytes for one more character behind it, are
\* together what each of them is.
LEMMA InsideJoined ==
  ASSUME NEW s \in Seq(Octets), NEW t \in Seq(Octets), NEW S, NEW T, Inside(s, S), Inside(t, T)
  PROVE  Inside(s \o t, S \union {Len(s) + j : j \in T})
<1> DEFINE both == s \o t
           starts == S \union {Len(s) + j : j \in T}
<1>1. Len(both) = Len(s) + Len(t) /\ Len(s) \in Nat /\ Len(t) \in Nat /\ both \in Seq(Octets)
  BY ConcatProperties
<1>2. \A i \in S : i \in Nat /\ i >= 1 /\ i < Len(s)
  BY StartsBound
<1>3. \A j \in T : j \in Nat /\ j >= 1 /\ j < Len(t)
  BY StartsBound
<1>4. \A i \in Nat : i <= Len(s) => (i \in starts <=> i \in S)
  BY <1>1, <1>2, <1>3
<1>5. \A j \in Nat : Len(s) + j \in starts <=> j \in T
  BY <1>1, <1>2, <1>3
<1>6. \A i \in 1..Len(s) : both[i] = s[i] /\ i \in 1..Len(both)
  BY FirstOfBoth
<1>7. \A j \in 1..Len(t) : both[Len(s) + j] = t[j] /\ Len(s) + j \in 1..Len(both)
  BY SecondOfBoth
<1>8. ASSUME NEW i \in S
      PROVE  i \in 1..Len(both) /\ both[i] = 92 /\ i - 1 \notin starts /\ EscapeAt(both, i)
  <2>1. i \in 1..Len(s) /\ s[i] = 92 /\ i - 1 \notin S /\ EscapeAt(s, i)
    BY Zenon DEF Inside
  <2>2. i - 1 \notin starts
    BY <1>1, <1>4, <2>1
  <2>3. EscapeAt(both, i)
    BY <2>1, EscapeAtFirst
  <2> QED
    BY <1>6, <2>1, <2>2, <2>3
<1>9. ASSUME NEW j \in T
      PROVE  LET i == Len(s) + j
             IN i \in 1..Len(both) /\ both[i] = 92 /\ i - 1 \notin starts /\ EscapeAt(both, i)
  <2>1. j \in 1..Len(t) /\ t[j] = 92 /\ j - 1 \notin T /\ EscapeAt(t, j)
    BY Zenon DEF Inside
  <2>2. Len(s) + (j - 1) \notin starts
    BY <1>5, <2>1
  <2>3. (Len(s) + j) - 1 = Len(s) + (j - 1)
    BY <1>1, <2>1
  <2>4. EscapeAt(both, Len(s) + j)
    BY <2>1, EscapeAtSecond
  <2> QED
    BY <1>7, <2>1, <2>2, <2>3, <2>4
<1>10. ASSUME NEW i \in 1..Len(s)
       PROVE  /\ both[i] >= 32 /\ ~IsHTML(both[i])
              /\ both[i] = 34 \/ IsSlash(both[i]) => i - 1 \in starts
              /\ both[i] = 92 => i \in starts \/ i - 1 \in starts
  <2>1. /\ s[i] >= 32 /\ ~IsHTML(s[i])
        /\ s[i] = 34 \/ IsSlash(s[i]) => i - 1 \in S
        /\ s[i] = 92 => i \in S \/ i - 1 \in S
    BY Zenon DEF Inside
  <2>2. both[i] = s[i]
    BY <1>6
  <2> HIDE DEF both
  <2> QED
    BY <2>1, <2>2, Zenon
<1>11. ASSUME NEW j \in 1..Len(t)
       PROVE  LET i == Len(s) + j
              IN /\ both[i] >= 32 /\ ~IsHTML(both[i])
                 /\ both[i] = 34 \/ IsSlash(both[i]) => i - 1 \in starts
                 /\ both[i] = 92 => i \in starts \/ i - 1 \in starts
  <2>1. /\ t[j] >= 32 /\ ~IsHTML(t[j])
        /\ t[j] = 34 \/ IsSlash(t[j]) => j - 1 \in T
        /\ t[j] = 92 => j \in T \/ j - 1 \in T
    BY Zenon DEF Inside
  <2>2. both[Len(s) + j] = t[j]
    BY <1>7
  <2>3. j - 1 \in T => (Len(s) + j) - 1 \in starts
    <3>1. (Len(s) + j) - 1 = Len(s) + (j - 1)
      BY <1>1
    <3> QED
      BY <3>1, Zenon
  <2>4. j \in T => Len(s) + j \in starts
    BY Zenon
  <2> HIDE DEF both, starts
  <2> QED
    BY <2>1, <2>2, <2>3, <2>4, Zenon
<1>12. \A i \in 1..Len(both) : i \in 1..Len(s) \/ \E j \in 1..Len(t) : i = Len(s) + j
  <2> SUFFICES ASSUME NEW i \in 1..Len(both), i \notin 1..Len(s)
               PROVE  \E j \in 1..Len(t) : i = Len(s) + j
    OBVIOUS
  <2>1. i - Len(s) \in 1..Len(t) /\ i = Len(s) + (i - Len(s))
    BY <1>1
  <2> QED
    BY <2>1
<1>13. \A i \in starts : i \in 1..Len(both) /\ both[i] = 92 /\ i - 1 \notin starts /\ EscapeAt(both, i)
  <2> SUFFICES ASSUME NEW i \in starts
               PROVE  i \in 1..Len(both) /\ both[i] = 92 /\ i - 1 \notin starts /\ EscapeAt(both, i)
    OBVIOUS
  <2>1. CASE i \in S
    BY <2>1, <1>8
  <2>2. CASE \E j \in T : i = Len(s) + j
    <3>1. PICK j \in T : i = Len(s) + j
      BY <2>2
    <3> HIDE DEF both, starts
    <3> QED
      BY <3>1, <1>9, Zenon
  <2> QED
    BY <2>1, <2>2
<1> HIDE DEF both, starts
<1>14. \A i \in 1..Len(both) :
         /\ both[i] >= 32 /\ ~IsHTML(both[i])
         /\ both[i] = 34 \/ IsSlash(both[i]) => i - 1 \in starts
         /\ both[i] = 92 => i \in starts \/ i - 1 \in starts
  BY <1>10, <1>11, <1>12, Zenon
<1>15. Inside(both, starts)
  BY <1>13, <1>14, Zenon DEF Inside
<1> QED
  BY <1>15 DEF both, starts

\* A digit is a lower case one.
LEMMA DigitLower ==
  ASSUME NEW v \in Nat, v <= 15
  PROVE  HexDigit(v) \in LowerHex
<1>1. CASE v < 10
  <2>1. HexDigit(v) \in 48..57
    BY <1>1 DEF HexDigit
  <2> QED
    BY <2>1, Zenon DEF LowerHex
<1>2. CASE v >= 10
  <2>1. HexDigit(v) \in 97..102
    BY <1>2 DEF HexDigit
  <2> QED
    BY <2>1, Zenon DEF LowerHex
<1> QED
  BY <1>1, <1>2

\* It needs no escape, whatever the options.
LEMMA LowerIsPlain ==
  ASSUME NEW b \in LowerHex
  PROVE  b \in Nat /\ b >= 32 /\ b # 34 /\ b # 92 /\ ~IsSlash(b) /\ ~IsHTML(b)
  BY SMT DEF LowerHex, IsSlash, IsHTML

\* Bytes with one escape, the first of them.
LEMMA OneEscape ==
  ASSUME NEW bytes, 1 \in 1..Len(bytes), bytes[1] = 92, EscapeAt(bytes, 1),
         \A i \in 1..Len(bytes) :
           /\ bytes[i] >= 32 /\ ~IsHTML(bytes[i])
           /\ bytes[i] = 34 \/ IsSlash(bytes[i]) => i - 1 \in {1}
           /\ bytes[i] = 92 => i \in {1} \/ i - 1 \in {1}
  PROVE  Inside(bytes, {1})
<1>1. ASSUME NEW i \in {1}
      PROVE  i \in 1..Len(bytes) /\ bytes[i] = 92 /\ i - 1 \notin {1} /\ EscapeAt(bytes, i)
  <2>1. i = 1
    OBVIOUS
  <2>2. 1 - 1 \notin {1}
    OBVIOUS
  <2> QED
    BY <2>1, <2>2, Zenon
<1> QED
  BY <1>1, Zenon DEF Inside

\* \u and four digits.
LEMMA UnitInside ==
  ASSUME NEW u \in Nat, u <= MaxCodeUnit
  PROVE  Inside(Unit(u), {1})
<1> DEFINE a == HexDigit(u \div 4096)
           b == HexDigit((u \div 256) % 16)
           c == HexDigit((u \div 16) % 16)
           d == HexDigit(u % 16)
<1>1. u \div 4096 \in Nat /\ u \div 4096 <= 15
  BY Bounds, SMT
<1>2. (u \div 256) % 16 \in Nat /\ (u \div 256) % 16 <= 15
  BY SMT
<1>3. (u \div 16) % 16 \in Nat /\ (u \div 16) % 16 <= 15
  BY SMT
<1>4. u % 16 \in Nat /\ u % 16 <= 15
  BY SMT
<1>5. a \in LowerHex /\ b \in LowerHex /\ c \in LowerHex /\ d \in LowerHex
  BY <1>1, <1>2, <1>3, <1>4, DigitLower
<1>6. Unit(u) = <<92, 117, a, b, c, d>>
  BY DEF Unit
<1> HIDE DEF a, b, c, d
<1> DEFINE bytes == <<92, 117, a, b, c, d>>
<1>7. /\ Len(bytes) = 6
      /\ bytes[1] = 92 /\ bytes[2] = 117 /\ bytes[3] = a /\ bytes[4] = b /\ bytes[5] = c /\ bytes[6] = d
  OBVIOUS
<1> HIDE DEF bytes
<1>8. EscapeAt(bytes, 1)
  <2>1. \A j \in 2..5 : bytes[1 + j] \in LowerHex
    <3> SUFFICES ASSUME NEW j \in 2..5 PROVE bytes[1 + j] \in LowerHex
      OBVIOUS
    <3>1. bytes[1 + j] \in {a, b, c, d}
      BY <1>7
    <3> QED
      BY <1>5, <3>1, Zenon
  <2>2. 1 + 5 <= Len(bytes) /\ bytes[1 + 1] = 117
    BY <1>7
  <2> QED
    BY <2>1, <2>2, Zenon DEF EscapeAt
<1>9. /\ a \in Nat /\ a >= 32 /\ a # 34 /\ a # 92 /\ ~IsSlash(a) /\ ~IsHTML(a)
      /\ b \in Nat /\ b >= 32 /\ b # 34 /\ b # 92 /\ ~IsSlash(b) /\ ~IsHTML(b)
      /\ c \in Nat /\ c >= 32 /\ c # 34 /\ c # 92 /\ ~IsSlash(c) /\ ~IsHTML(c)
      /\ d \in Nat /\ d >= 32 /\ d # 34 /\ d # 92 /\ ~IsSlash(d) /\ ~IsHTML(d)
  BY <1>5, LowerIsPlain
<1>10. ~IsSlash(92) /\ ~IsHTML(92) /\ ~IsSlash(117) /\ ~IsHTML(117)
  BY DEF IsSlash, IsHTML
<1>11. ASSUME NEW i \in 1..Len(bytes)
       PROVE  /\ bytes[i] >= 32 /\ ~IsHTML(bytes[i])
              /\ bytes[i] # 34 /\ ~IsSlash(bytes[i])
              /\ bytes[i] = 92 => i = 1
  <2>1. i \in {1, 2, 3, 4, 5, 6}
    BY <1>7
  <2> QED
    BY <1>7, <1>9, <1>10, <2>1
<1>12. 1 \in 1..Len(bytes) /\ 1 \in {1}
  BY <1>7
<1>13. \A i \in 1..Len(bytes) :
         /\ bytes[i] >= 32 /\ ~IsHTML(bytes[i])
         /\ bytes[i] = 34 \/ IsSlash(bytes[i]) => i - 1 \in {1}
         /\ bytes[i] = 92 => i \in {1} \/ i - 1 \in {1}
  BY <1>11, <1>12, Zenon
<1>14. Inside(bytes, {1})
  BY <1>7, <1>8, <1>12, <1>13, OneEscape, Zenon
<1> QED
  BY <1>6, <1>14, Zenon DEF bytes

\* A backslash and a letter.
LEMMA ShortInside ==
  ASSUME NEW x \in EscapeLetters
  PROVE  Inside(<<92, x>>, {1})
<1>1. x \in Nat /\ x >= 32 /\ ~IsHTML(x)
  BY DEF EscapeLetters, IsHTML
<1> DEFINE bytes == <<92, x>>
<1>2. Len(bytes) = 2 /\ bytes[1] = 92 /\ bytes[2] = x
  OBVIOUS
<1> HIDE DEF bytes
<1>3. EscapeAt(bytes, 1)
  <2>1. 1 + 1 <= Len(bytes) /\ bytes[1 + 1] = x
    BY <1>2
  <2> QED
    BY <2>1, Zenon DEF EscapeAt
<1>4. ~IsHTML(92) /\ ~IsSlash(92)
  BY DEF IsHTML, IsSlash
<1>5. \A i \in 1..Len(bytes) : i = 1 \/ i = 2
  BY <1>2
<1>6. 1 \in 1..Len(bytes) /\ 1 - 1 \notin {1} /\ 2 - 1 \in {1} /\ 92 >= 32 /\ 92 # 34
  BY <1>2
<1>7. \A i \in 1..Len(bytes) :
        /\ bytes[i] >= 32 /\ ~IsHTML(bytes[i])
        /\ bytes[i] = 34 \/ IsSlash(bytes[i]) => i - 1 \in {1}
        /\ bytes[i] = 92 => i \in {1} \/ i - 1 \in {1}
  BY <1>1, <1>2, <1>4, <1>5, <1>6, ZenonT(60)
<1>8. Inside(bytes, {1})
  BY <1>2, <1>3, <1>6, <1>7, OneEscape, Zenon
<1> QED
  BY <1>8 DEF bytes

\* A byte that needs no escape.
LEMMA PlainInside ==
  ASSUME NEW b \in Octets, b >= 32, b # 34, b # 92, ~IsSlash(b), ~IsHTML(b)
  PROVE  Inside(<<b>>, {})
<1> DEFINE bytes == <<b>>
<1>1. \A i \in 1..Len(bytes) : bytes[i] = b
  OBVIOUS
<1> HIDE DEF bytes
<1>2. \A i \in 1..Len(bytes) :
        /\ bytes[i] >= 32 /\ ~IsHTML(bytes[i])
        /\ bytes[i] # 34 /\ ~IsSlash(bytes[i]) /\ bytes[i] # 92
  BY <1>1, ZenonT(60)
<1>3. Inside(bytes, {})
  BY <1>2, Zenon DEF Inside
<1> QED
  BY <1>3 DEF bytes

\* Some start makes it the inside of a string.
IsInside(bytes) == \E starts : Inside(bytes, starts)

\* What is written for one byte.
LEMMA OneByteInside ==
  ASSUME NEW b \in Octets
  PROVE  IsInside(OneByte(b))
<1>1. CASE b \in HasLetter
  <2>1. Letter(b) \in EscapeLetters
    BY <1>1 DEF HasLetter, Letter, EscapeLetters
  <2>2. OneByte(b) = <<92, Letter(b)>>
    BY <1>1, Zenon DEF OneByte
  <2> QED
    BY <2>1, <2>2, ShortInside, Zenon DEF IsInside
<1>2. CASE b \notin HasLetter /\ IsSlash(b)
  <2>1. 47 \in EscapeLetters
    BY DEF EscapeLetters
  <2>2. OneByte(b) = <<92, 47>>
    BY <1>2, Zenon DEF OneByte
  <2> QED
    BY <2>1, <2>2, ShortInside, Zenon DEF IsInside
<1>3. CASE b \notin HasLetter /\ ~IsSlash(b) /\ (b < 32 \/ IsHTML(b))
  <2>1. Inside(Unit(b), {1})
    BY OctetBound, UnitInside, Bounds
  <2>2. OneByte(b) = Unit(b)
    BY <1>3, Zenon DEF OneByte
  <2> QED
    BY <2>1, <2>2, Zenon DEF IsInside
<1>4. CASE b \notin HasLetter /\ ~IsSlash(b) /\ ~(b < 32) /\ ~IsHTML(b)
  <2>1. b >= 32 /\ b # 34 /\ b # 92
    BY <1>4, OctetBound DEF HasLetter
  <2>2. Inside(<<b>>, {})
    BY <1>4, <2>1, PlainInside
  <2>3. OneByte(b) = <<b>>
    BY <1>4, Zenon DEF OneByte
  <2> QED
    BY <2>2, <2>3, Zenon DEF IsInside
<1> QED
  BY <1>1, <1>2, <1>3, <1>4, Zenon

\* What is written for a code point, a pair of escapes included.
LEMMA EscapedInside ==
  ASSUME NEW u \in Nat, u <= MaxCodePoint
  PROVE  IsInside(Escaped(u))
<1>1. CASE u < 65536
  <2>1. u <= MaxCodeUnit
    BY <1>1, Bounds
  <2>2. Inside(Unit(u), {1})
    BY <2>1, UnitInside
  <2>3. Escaped(u) = Unit(u)
    BY <1>1, SMT DEF Escaped
  <2> QED
    BY <2>2, <2>3, Zenon DEF IsInside
<1>2. CASE u >= 65536
  <2> DEFINE high == HighStart + ((u - 65536) \div 1024)
             low == LowStart + ((u - 65536) % 1024)
  <2>1. high \in Nat /\ high <= MaxCodeUnit
    BY <1>2, Bounds, SMT
  <2>2. low \in Nat /\ low <= MaxCodeUnit
    BY <1>2, Bounds, SMT
  <2>3. Escaped(u) = Unit(high) \o Unit(low)
    BY <1>2, SMT DEF Escaped
  <2> HIDE DEF high, low
  <2>4. Unit(high) \in Seq(Octets) /\ Unit(low) \in Seq(Octets)
    BY <2>1, <2>2, UnitType
  <2>5. Inside(Unit(high), {1}) /\ Inside(Unit(low), {1})
    BY <2>1, <2>2, UnitInside
  <2>6. IsInside(Unit(high) \o Unit(low))
    BY <2>4, <2>5, InsideJoined, Zenon DEF IsInside
  <2> QED
    BY <2>3, <2>6, Zenon
<1> QED
  BY <1>1, <1>2

\* The options do not change while the string is written.
LEMMA InsideKept ==
  ASSUME style' = style, IsInside(of')
  PROVE  IsInside(of)'
<1>1. PICK starts : Inside(of', starts)
  BY DEF IsInside
<1>2. Inside(of, starts)'
  BY <1>1, ZenonT(60) DEF Inside, IsHTML, IsSlash
<1> QED
  BY <1>2, Zenon DEF IsInside

\* One character more, and it is one still.
LEMMA PutInside ==
  ASSUME of \in Seq(Octets), IsInside(of), NEW n, NEW bytes \in Seq(Octets), IsInside(bytes),
         Put(n, bytes)
  PROVE  IsInside(of)'
<1>1. IsInside(of \o bytes)
  BY InsideJoined, Zenon DEF IsInside
<1>2. of' = of \o bytes /\ style' = style
  BY DEF Put
<1>3. IsInside(of')
  BY <1>1, <1>2, Zenon
<1> QED
  BY <1>2, <1>3, InsideKept

\* Nothing written is one.
LEMMA NothingInside ==
  ASSUME of = <<>>
  PROVE  IsInside(of)
<1>1. \A i \in 1..Len(of) : FALSE
  OBVIOUS
<1>2. Inside(of, {})
  BY <1>1, Zenon DEF Inside
<1> QED
  BY <1>2, Zenon DEF IsInside

\* Each step of Buffer_EscapeString keeps what is written the inside of a string.
LEMMA WriterInside ==
  ASSUME WriterInv, IsInside(of), [WriterNext]_writerVars
  PROVE  IsInside(of)'
<1>1. of \in Seq(Octets)
  BY DEF WriterInv, WriterTypeOK
<1>2. CASE WriteByte
  <2>1. Octet \in Octets
    BY <1>2 DEF WriteByte, AtEnd, Octet, WriterInv, WriterTypeOK
  <2>2. OneByte(Octet) \in Seq(Octets) /\ IsInside(OneByte(Octet))
    BY <2>1, OneByteType, OneByteInside
  <2>3. Put(1, OneByte(Octet))
    BY <1>2 DEF WriteByte
  <2> QED
    BY <1>1, <2>2, <2>3, PutInside
<1>3. CASE WriteSequence
  <2>1. PICK n \in 2..4 : Accepted(n) /\ Put(n, Escaped(Ucs(n)))
    BY <1>3 DEF WriteSequence
  <2>2. Ucs(n) \in Nat /\ Ucs(n) <= MaxCodePoint
    <3>1. Least(n) \in Nat
      BY SMT DEF Least
    <3> QED
      BY <2>1, <3>1 DEF Accepted
  <2>3. Escaped(Ucs(n)) \in Seq(Octets) /\ IsInside(Escaped(Ucs(n)))
    BY <2>2, EscapedType, EscapedInside
  <2> QED
    BY <1>1, <2>1, <2>3, PutInside
<1>4. CASE UNCHANGED <<style, of>>
  <2>1. style' = style /\ IsInside(of')
    BY <1>4
  <2> QED
    BY <2>1, InsideKept
<1> QED
  BY <1>2, <1>3, <1>4 DEF WriterNext, EndString, RefuseSequence, Conclude, writerVars

-----------------------------------------------------------------------------
(* Both, one after the other. *)

\* The decoder waits at the beginning for the text that the encoder writes.
CodecInv ==
  /\ ReaderInv
  /\ WriterInv
  /\ IsInside(of)
  /\ result = "idle" => pos = 1 /\ out = <<>> /\ lastHigh = 0

\* The invariant of the codec, from those of its parts.
THEOREM CodecInvariant == CodecSpec => []CodecInv
<1>1. CodecInit => CodecInv
  <2> SUFFICES ASSUME CodecInit PROVE CodecInv
    OBVIOUS
  <2>1. CASE WriterInit /\ Idle
    <3>1. WriterInv
      BY <2>1, WriterStart
    <3>2. ReaderInv
      BY <2>1 DEF Idle, ReaderInv, ReaderTypeOK, EscapesFit, PairsWithHigh, IsText, Bytes
    <3>3. IsInside(of)
      BY <2>1, NothingInside DEF WriterInit
    <3> QED
      BY <2>1, <3>1, <3>2, <3>3 DEF Idle, CodecInv
  <2>2. CASE /\ ReaderInit
             /\ source = <<>> /\ style = CHOOSE s \in Styles : TRUE
             /\ io = 1 /\ of = <<>> /\ verdict = "unused"
    <3>1. style \in Styles
      BY <2>2, WriterAssumption, Zenon
    <3>2. WriterInv
      BY <2>2, <3>1 DEF WriterInv, WriterTypeOK, SixPerByte
    <3>3. ReaderInv /\ result = "none"
      BY <2>2, ReaderStart DEF ReaderInit
    <3>4. IsInside(of)
      BY <2>2, NothingInside
    <3> QED
      BY <3>2, <3>3, <3>4 DEF CodecInv
  <2> QED
    BY <2>1, <2>2 DEF CodecInit
<1>2. CodecInv /\ [CodecNext]_codecVars => CodecInv'
  <2> SUFFICES ASSUME CodecInv, [CodecNext]_codecVars PROVE CodecInv'
    OBVIOUS
  <2> USE DEF CodecInv
  <2>0. ASSUME [WriterNext]_writerVars PROVE WriterInv' /\ IsInside(of)'
    BY <2>0, WriterStep, WriterInside
  <2>1. CASE Encode
    <3>1. WriterInv' /\ IsInside(of)'
      BY <2>1, <2>0 DEF Encode
    <3>2. ReaderInv'
      BY <2>1, ReaderStep DEF Encode
    <3> QED
      BY <2>1, <3>1, <3>2 DEF Encode, readerVars
  <2>2. CASE Decode
    <3>1. WriterInv' /\ IsInside(of)'
      BY <2>2, <2>0 DEF Decode
    <3>2. ReaderInv'
      BY <2>2, ReaderStep DEF Decode
    <3>3. result' # "idle"
      BY <2>2 DEF Decode, ReaderNext, Character, CloseQuote, Copy, RejectByte, CopySequence,
        RejectSequence, CopyEscape, RejectEscape, CopyUnicodeEscape, Advance, SetError
    <3> QED
      BY <3>1, <3>2, <3>3
  <2>3. CASE Pass
    <3>1. WriterInv' /\ IsInside(of)'
      BY <2>3, <2>0 DEF Pass
    <3>2. IsText(text')
      <4>1. of \in Seq(Bytes)
        BY DEF WriterInv, WriterTypeOK, Octets, Bytes
      <4>2. IsText(of \o <<34, 0>>)
        BY <4>1 DEF IsText, Bytes
      <4> QED
        BY <2>3, <4>2 DEF Pass, ReaderInv, ReaderTypeOK
    <3>3. pos' = 1 /\ out' = <<>> /\ lastHigh' = 0 /\ result' \in {"none", "UnicodeDecodeError"}
      BY <2>3 DEF Pass
    <3>4. ReaderInv'
      BY <3>2, <3>3 DEF ReaderInv, ReaderTypeOK, EscapesFit, PairsWithHigh, IsText
    <3> QED
      BY <3>1, <3>3, <3>4
  <2>4. CASE UNCHANGED codecVars
    <3>1. UNCHANGED writerVars /\ UNCHANGED readerVars
      BY <2>4 DEF codecVars
    <3>2. WriterInv' /\ IsInside(of)' /\ ReaderInv'
      BY <3>1, <2>0, ReaderStep
    <3> QED
      BY <3>1, <3>2 DEF readerVars
  <2> QED
    BY <2>1, <2>2, <2>3, <2>4 DEF CodecNext
<1> QED
  BY <1>1, <1>2, PTL DEF CodecSpec

\* The code points given to newString are code points, also those combined.
THEOREM ReaderTypeCorrect == CodecSpec => []ReaderTypeOK
<1>1. CodecInv => ReaderTypeOK
  BY DEF CodecInv, ReaderInv
<1> QED
  BY <1>1, CodecInvariant, PTL

\* decode_string writes no more code points than the rest of the document has
\* bytes, which is what it made room for, and stops at the NUL.
THEOREM EscapesFitCorrect == CodecSpec => []EscapesFit
<1>1. CodecInv => EscapesFit
  BY DEF CodecInv, ReaderInv
<1> QED
  BY <1>1, CodecInvariant, PTL

\* A low surrogate is never combined with anything but a high one, although
\* only pointers into the input are compared.
THEOREM PairsWithHighCorrect == CodecSpec => []PairsWithHigh
<1>1. CodecInv => PairsWithHigh
  BY DEF CodecInv, ReaderInv
<1> QED
  BY <1>1, CodecInvariant, PTL

\* RESERVE_STRING, six bytes for each byte of the string, is enough for any
\* string and any options, at every moment.
THEOREM SixPerByteCorrect == CodecSpec => []SixPerByte
<1>1. CodecInv => SixPerByte
  BY DEF CodecInv, WriterInv
<1> QED
  BY <1>1, CodecInvariant, PTL

\* What the loop has written is the inside of a JSON string, for any bytes in the
\* string, valid UTF-8 or not, and any options, at every moment.
THEOREM WellFormedCorrect == CodecSpec => []WellFormed
<1>1. CodecInv => WellFormed
  <2> SUFFICES ASSUME CodecInv PROVE WellFormed
    OBVIOUS
  <2>1. PICK starts : Inside(of, starts)
    BY DEF CodecInv, IsInside
  <2>2. starts \in SUBSET {i \in DOMAIN of : of[i] = 92}
    <3>1. \A i \in starts : i \in 1..Len(of) /\ of[i] = 92
      BY <2>1, Zenon DEF Inside
    <3>2. DOMAIN of = 1..Len(of)
      BY DEF CodecInv, WriterInv, WriterTypeOK
    <3> QED
      BY <3>1, <3>2
  <2> QED
    BY <2>1, <2>2, Zenon DEF WellFormed
<1> QED
  BY <1>1, CodecInvariant, PTL

-----------------------------------------------------------------------------
(* Recursion over the places of a sequence. *)

\* A set of numbers that is not empty has a least element: induction.
LEMMA LeastNumber ==
  ASSUME NEW T \in SUBSET Nat, T # {}
  PROVE  \E x \in T : \A y \in T : x <= y
<1> DEFINE less == {ss \in Nat \X Nat : ss[1] < ss[2]}
<1>1. IsWellFoundedOn(less, Nat)
  BY NatLessThanWellFounded, Zenon DEF OpToRel
<1> HIDE DEF less
<1>2. PICK x \in T : \A y \in T : <<y, x>> \notin less
  BY <1>1, WFMin
<1>3. ASSUME NEW y \in T PROVE x <= y
  <2>1. <<y, x>> \notin less
    BY <1>2
  <2> QED
    BY <2>1 DEF less
<1> QED
  BY <1>3

\* f[i] is part[i] with, unless it stops there, that of a later place behind it.
IsChunks(f, m, n, S, stop, part, next) ==
  /\ f \in [m..n -> Seq(S)]
  /\ \A i \in m..n : f[i] = IF stop[i] THEN part[i] ELSE part[i] \o f[next[i]]

\* Such functions exist for any steps that only look ahead.
LEMMA ChunksExist ==
  ASSUME NEW S, NEW n \in Nat, NEW stop, NEW part \in [1..n -> Seq(S)], NEW next,
         \A i \in 1..n : ~stop[i] => next[i] \in (i + 1)..n
  PROVE  \E f : IsChunks(f, 1, n, S, stop, part, next)
<1> DEFINE Good == {k \in 0..n : \E f : IsChunks(f, n + 1 - k, n, S, stop, part, next)}
           T == (0..n) \ Good
<1>1. 0 \in Good
  <2>1. PICK f : f = [i \in (n + 1)..n |-> part[i]]
    OBVIOUS
  <2>2. IsChunks(f, n + 1, n, S, stop, part, next)
    BY <2>1 DEF IsChunks
  <2>3. n + 1 - 0 = n + 1
    OBVIOUS
  <2> QED
    BY <2>2, <2>3
<1>2. ASSUME NEW k \in 1..n, k - 1 \in Good PROVE k \in Good
  <2>1. PICK m : m = n + 1 - k
    OBVIOUS
  <2>2. m \in 1..n /\ n + 1 - (k - 1) = m + 1
    BY <2>1
  <2>3. PICK f : IsChunks(f, m + 1, n, S, stop, part, next)
    BY <1>2, <2>2
  <2>4. PICK g : g = [i \in m..n |->
                        IF i = m THEN IF stop[m] THEN part[m] ELSE part[m] \o f[next[m]] ELSE f[i]]
    OBVIOUS
  <2>5. f \in [(m + 1)..n -> Seq(S)]
        /\ \A i \in (m + 1)..n : f[i] = IF stop[i] THEN part[i] ELSE part[i] \o f[next[i]]
    BY <2>3 DEF IsChunks
  <2>6. \A i \in (m + 1)..n : g[i] = f[i]
    BY <2>2, <2>4
  <2>7. g[m] = IF stop[m] THEN part[m] ELSE part[m] \o f[next[m]]
    BY <2>2, <2>4
  <2>8. part[m] \in Seq(S) /\ (~stop[m] => next[m] \in (m + 1)..n)
    BY <2>2
  <2>9. g[m] \in Seq(S) /\ g[m] = IF stop[m] THEN part[m] ELSE part[m] \o g[next[m]]
    <3>1. CASE stop[m]
      BY <2>7, <2>8, <3>1, Zenon
    <3>2. CASE ~stop[m]
      <4>1. f[next[m]] \in Seq(S) /\ g[next[m]] = f[next[m]]
        BY <2>5, <2>6, <2>8, <3>2
      <4>2. part[m] \o f[next[m]] \in Seq(S)
        BY <2>8, <4>1, ConcatProperties
      <4> QED
        BY <2>7, <3>2, <4>1, <4>2, Zenon
    <3> QED
      BY <3>1, <3>2
  <2>10. ASSUME NEW i \in (m + 1)..n
         PROVE  g[i] \in Seq(S) /\ g[i] = IF stop[i] THEN part[i] ELSE part[i] \o g[next[i]]
    <3>1. g[i] = f[i] /\ f[i] \in Seq(S)
      BY <2>5, <2>6
    <3>2. ~stop[i] => next[i] \in (m + 1)..n
      BY <2>2
    <3>3. ~stop[i] => g[next[i]] = f[next[i]]
      BY <2>6, <3>2
    <3>4. f[i] = IF stop[i] THEN part[i] ELSE part[i] \o f[next[i]]
      BY <2>5
    <3> QED
      BY <3>1, <3>3, <3>4, Zenon
  <2>11. \A i \in m..n : i = m \/ i \in (m + 1)..n
    BY <2>2
  <2>12. \A i \in m..n : g[i] \in Seq(S) /\ g[i] = IF stop[i] THEN part[i] ELSE part[i] \o g[next[i]]
    BY <2>9, <2>10, <2>11, Zenon
  <2>13. g \in [m..n -> Seq(S)]
    BY <2>4, <2>12
  <2>14. IsChunks(g, m, n, S, stop, part, next)
    BY <2>12, <2>13, Zenon DEF IsChunks
  <2> QED
    BY <2>1, <2>14
<1> HIDE DEF Good
<1>3. T = {}
  <2> SUFFICES ASSUME T # {} PROVE FALSE
    OBVIOUS
  <2> T \in SUBSET Nat
    OBVIOUS
  <2>1. PICK k \in T : \A y \in T : k <= y
    BY LeastNumber, Zenon
  <2>2. k \in 1..n /\ k - 1 \in 0..n
    BY <1>1
  <2>3. k - 1 \notin T
    BY <2>1, <2>2
  <2> QED
    BY <1>2, <2>2, <2>3
<1>4. n \in Good
  BY <1>3
<1>5. n + 1 - n = 1
  OBVIOUS
<1> QED
  BY <1>4, <1>5, Zenon DEF Good

\* There is no other such function.
LooksAhead(n, stop, next) == \A i \in 1..n : ~stop[i] => next[i] \in (i + 1)..n
Chunked(p, n, stop, part, next) ==
  \A i \in 1..n : p[i] = IF stop[i] THEN part[i] ELSE part[i] \o p[next[i]]

\* What satisfies the equation, whatever its domain, is that function.
LEMMA ChunksAgree ==
  ASSUME NEW S, NEW n \in Nat, NEW stop, NEW part, NEW next, LooksAhead(n, stop, next),
         NEW f, IsChunks(f, 1, n, S, stop, part, next),
         NEW p, Chunked(p, n, stop, part, next)
  PROVE  \A i \in 1..n : p[i] = f[i] /\ p[i] \in Seq(S)
<1>0. /\ f \in [1..n -> Seq(S)]
      /\ \A i \in 1..n : f[i] = IF stop[i] THEN part[i] ELSE part[i] \o f[next[i]]
  BY Zenon DEF IsChunks
<1> DEFINE T == {m \in 1..n : p[n + 1 - m] # f[n + 1 - m]}
<1>1. T = {}
  <2> SUFFICES ASSUME T # {} PROVE FALSE
    OBVIOUS
  <2>1. PICK m \in T : \A y \in T : m <= y
    <3>1. T \in SUBSET Nat
      OBVIOUS
    <3> HIDE DEF T
    <3> QED
      BY <3>1, LeastNumber, Zenon
  <2>2. PICK k : k = n + 1 - m
    OBVIOUS
  <2>3. k \in 1..n /\ p[k] # f[k] /\ m = n + 1 - k
    BY <2>2
  <2>4. ~stop[k] /\ p[next[k]] # f[next[k]]
    <3>1. /\ p[k] = IF stop[k] THEN part[k] ELSE part[k] \o p[next[k]]
          /\ f[k] = IF stop[k] THEN part[k] ELSE part[k] \o f[next[k]]
      BY <1>0, <2>3, Zenon DEF Chunked
    <3> QED
      BY <2>3, <3>1, Zenon
  <2>5. PICK l : l = next[k]
    OBVIOUS
  <2>6. l \in (k + 1)..n /\ p[l] # f[l]
    BY <2>3, <2>4, <2>5 DEF LooksAhead
  <2>7. PICK y : y = n + 1 - l
    OBVIOUS
  <2>8. y \in 1..n /\ l = n + 1 - y /\ ~(m <= y)
    BY <2>3, <2>6, <2>7
  <2>9. y \in T
    BY <2>6, <2>8
  <2> QED
    BY <2>1, <2>8, <2>9
<1>2. ASSUME NEW i \in 1..n PROVE p[i] = f[i]
  <2> DEFINE m == n + 1 - i
  <2>1. m \in 1..n /\ i = n + 1 - m
    OBVIOUS
  <2> QED
    BY <1>1, <2>1
<1> QED
  BY <1>0, <1>2

-----------------------------------------------------------------------------
(* The meaning of a text. *)

CharSet == [code : Int, escaped : BOOLEAN]

\* What PairedUpTo is defined to be, up to m.
IsPaired(u, chars, m) ==
  /\ u[0] = <<>>
  /\ \A i \in 1..m : u[i] = IF PairAt(chars, i - 1) THEN u[i - 1] ELSE Append(u[i - 1], CodeOf(chars, i))

\* The code points of characters are numbers.
LEMMA PairCodeType ==
  ASSUME NEW high \in Int, NEW low \in Int
  PROVE  PairCode(high, low) \in Int
  BY SMT DEF PairCode

\* The code of a character, or of the pair it ends, is a number.
LEMMA CodeType ==
  ASSUME NEW chars \in Seq(CharSet), NEW i \in 1..Len(chars)
  PROVE  CodeOf(chars, i) \in Int
<1>0. Len(chars) \in Nat
  OBVIOUS
<1>2. \A j \in 1..Len(chars) : chars[j].code \in Int
  <2>1. \A j \in 1..Len(chars) : chars[j] \in CharSet
    OBVIOUS
  <2> QED
    BY <2>1 DEF CharSet
<1>3. CASE PairAt(chars, i)
  <2>1. i \in 1..(Len(chars) - 1)
    BY <1>3, Zenon DEF PairAt
  <2>2. PICK h \in Int, l \in Int : h = chars[i].code /\ l = chars[i + 1].code
    BY <1>0, <1>2, <2>1
  <2>3. PairCode(h, l) \in Int
    BY PairCodeType
  <2>4. CodeOf(chars, i) = PairCode(h, l)
    BY <1>3, <2>2 DEF CodeOf
  <2> QED
    BY <2>3, <2>4
<1>4. CASE ~PairAt(chars, i)
  BY <1>2, <1>4 DEF CodeOf
<1> QED
  BY <1>3, <1>4

\* It exists.
LEMMA PairedExists ==
  ASSUME NEW chars \in Seq(CharSet)
  PROVE  \E u : IsPaired(u, chars, Len(chars))
<1> DEFINE Good == {m \in 0..Len(chars) : \E u : IsPaired(u, chars, m)}
           T == (0..Len(chars)) \ Good
<1>0. Len(chars) \in Nat
  OBVIOUS
<1>1. 0 \in Good
  <2>1. PICK u : u = [i \in 0..0 |-> <<>>]
    OBVIOUS
  <2>2. IsPaired(u, chars, 0)
    BY <2>1 DEF IsPaired
  <2> QED
    BY <1>0, <2>2
<1>2. ASSUME NEW m \in 1..Len(chars), m - 1 \in Good PROVE m \in Good
  <2>1. PICK u : IsPaired(u, chars, m - 1)
    BY <1>2
  <2>2. m - 1 \in Nat /\ m \in Nat
    BY <1>0
  <2>3. PICK e : e = IF PairAt(chars, m - 1) THEN u[m - 1] ELSE Append(u[m - 1], CodeOf(chars, m))
    OBVIOUS
  <2>6. PICK g : g = [i \in 0..m |-> IF i = m THEN e ELSE u[i]]
    OBVIOUS
  <2>7. g[m] = e /\ \A i \in 0..(m - 1) : g[i] = u[i]
    BY <2>2, <2>6
  <2>8. u[0] = <<>>
        /\ \A i \in 1..(m - 1) :
             u[i] = IF PairAt(chars, i - 1) THEN u[i - 1] ELSE Append(u[i - 1], CodeOf(chars, i))
    BY <2>1, Zenon DEF IsPaired
  <2>9. g[0] = <<>>
    <3>1. 0 \in 0..(m - 1)
      BY <2>2
    <3> QED
      BY <2>6, <2>7, <2>8, <3>1
  <2>10. ASSUME NEW i \in 1..m
         PROVE  g[i] = IF PairAt(chars, i - 1) THEN g[i - 1] ELSE Append(g[i - 1], CodeOf(chars, i))
    <3>1. i - 1 \in 0..(m - 1)
      BY <2>2
    <3>2. g[i - 1] = u[i - 1]
      BY <2>7, <3>1
    <3>3. CASE i = m
      BY <2>3, <2>7, <3>2, <3>3, Zenon
    <3>4. CASE i # m
      <4>1. i \in 1..(m - 1) /\ i \in 0..(m - 1)
        BY <2>2, <3>4
      <4> QED
        BY <2>7, <2>8, <3>2, <4>1, Zenon
    <3> QED
      BY <3>3, <3>4
  <2>11. IsPaired(g, chars, m)
    BY <2>9, <2>10, Zenon DEF IsPaired
  <2>12. m \in 0..Len(chars)
    BY <1>0
  <2> QED
    BY <2>11, <2>12
<1> HIDE DEF Good
<1>3. T = {}
  <2> SUFFICES ASSUME T # {} PROVE FALSE
    OBVIOUS
  <2> T \in SUBSET Nat
    OBVIOUS
  <2>1. PICK m \in T : \A y \in T : m <= y
    BY LeastNumber, Zenon
  <2>2. m \in 1..Len(chars) /\ m - 1 \in 0..Len(chars)
    BY <1>0, <1>1
  <2>3. m - 1 \notin T
    BY <2>1, <2>2
  <2> QED
    BY <1>2, <2>2, <2>3
<1>4. Len(chars) \in Good
  BY <1>0, <1>3
<1> QED
  BY <1>4, Zenon DEF Good

\* The definition of PairedUpTo as equations.
LEMMA PairedEquation ==
  ASSUME NEW chars \in Seq(CharSet)
  PROVE  IsPaired(PairedUpTo(chars), chars, Len(chars))
<1>0. Len(chars) \in Nat
  OBVIOUS
<1>1. PICK u : IsPaired(u, chars, Len(chars))
  BY PairedExists
<1>2. PICK w : w = [i \in 0..Len(chars) |-> u[i]]
  OBVIOUS
<1> DEFINE body(f) ==
      [n \in 0..Len(chars) |->
         IF n = 0 THEN <<>>
         ELSE IF PairAt(chars, n - 1) THEN f[n - 1]
         ELSE Append(f[n - 1], CodeOf(chars, n))]
<1>3. \A n \in 0..Len(chars) : n = 0 \/ (n \in 1..Len(chars) /\ n - 1 \in 0..Len(chars))
  BY <1>0
<1>4. w = body(w)
  <2>1. ASSUME NEW n \in 0..Len(chars)
        PROVE  w[n] = IF n = 0 THEN <<>>
                      ELSE IF PairAt(chars, n - 1) THEN w[n - 1]
                      ELSE Append(w[n - 1], CodeOf(chars, n))
    <3>1. w[n] = u[n]
      BY <1>2
    <3>2. CASE n = 0
      BY <1>1, <3>1, <3>2, Zenon DEF IsPaired
    <3>3. CASE n # 0
      <4>1. n \in 1..Len(chars) /\ w[n - 1] = u[n - 1]
        BY <1>2, <1>3, <3>3
      <4> QED
        BY <1>1, <3>1, <3>3, <4>1, Zenon DEF IsPaired
    <3> QED
      BY <3>2, <3>3
  <2>2. w = [n \in 0..Len(chars) |-> w[n]]
    BY <1>2
  <2> QED
    BY <2>1, <2>2, Zenon
<1>5. PairedUpTo(chars) = CHOOSE f : f = body(f)
  BY Zenon DEF PairedUpTo
<1>6. PairedUpTo(chars) = body(PairedUpTo(chars))
  BY <1>4, <1>5, Zenon
<1>7. PICK p : p = PairedUpTo(chars)
  OBVIOUS
<1>8. p = body(p)
  BY <1>6, <1>7, Zenon
<1>9. \A n \in 0..Len(chars) :
        p[n] = IF n = 0 THEN <<>>
               ELSE IF PairAt(chars, n - 1) THEN p[n - 1]
               ELSE Append(p[n - 1], CodeOf(chars, n))
  BY <1>8, Zenon
<1>10. 0 \in 0..Len(chars) /\ \A n \in 1..Len(chars) : n \in 0..Len(chars) /\ n # 0
  BY <1>0
<1>11. IsPaired(p, chars, Len(chars))
  BY <1>9, <1>10, Zenon DEF IsPaired
<1> QED
  BY <1>7, <1>11

\* Its values are code points.
LEMMA PairedType ==
  ASSUME NEW chars \in Seq(CharSet), NEW n \in 0..Len(chars)
  PROVE  PairedUpTo(chars)[n] \in Seq(Int)
<1>0. Len(chars) \in Nat
  OBVIOUS
<1>1. PICK u : u = PairedUpTo(chars)
  OBVIOUS
<1>2. IsPaired(u, chars, Len(chars))
  BY <1>1, PairedEquation
<1> DEFINE T == {m \in 0..Len(chars) : u[m] \notin Seq(Int)}
<1>3. T = {}
  <2> SUFFICES ASSUME T # {} PROVE FALSE
    OBVIOUS
  <2>1. PICK m \in T : \A y \in T : m <= y
    <3>1. T \in SUBSET Nat
      BY <1>0
    <3> HIDE DEF T
    <3> QED
      BY <3>1, LeastNumber, Zenon
  <2>2. m \in 0..Len(chars) /\ u[m] \notin Seq(Int)
    OBVIOUS
  <2>3. m # 0
    <3>1. u[0] \in Seq(Int)
      BY <1>2 DEF IsPaired
    <3> HIDE DEF T
    <3> QED
      BY <2>2, <3>1
  <2>4. m \in 1..Len(chars) /\ m - 1 \in 0..Len(chars)
    BY <1>0, <2>2, <2>3
  <2>5. u[m - 1] \in Seq(Int)
    BY <2>1, <2>4
  <2>6. CodeOf(chars, m) \in Int
    BY <2>4, CodeType
  <2>7. u[m] = IF PairAt(chars, m - 1) THEN u[m - 1] ELSE Append(u[m - 1], CodeOf(chars, m))
    BY <1>2, <2>4, Zenon DEF IsPaired
  <2> QED
    BY <2>2, <2>5, <2>6, <2>7
<1> QED
  BY <1>1, <1>3

\* It looks no further than at the next character.
LEMMA PairedAgree ==
  ASSUME NEW m \in Nat, NEW chars, NEW other, NEW u, NEW w,
         IsPaired(u, chars, m), IsPaired(w, other, m),
         \A i \in 1..m : /\ PairAt(chars, i - 1) <=> PairAt(other, i - 1)
                         /\ CodeOf(chars, i) = CodeOf(other, i)
  PROVE  u[m] = w[m]
<1> DEFINE T == {k \in 0..m : u[k] # w[k]}
<1>1. T = {}
  <2> SUFFICES ASSUME T # {} PROVE FALSE
    OBVIOUS
  <2>1. PICK k \in T : \A y \in T : k <= y
    <3>1. T \in SUBSET Nat
      OBVIOUS
    <3> HIDE DEF T
    <3> QED
      BY <3>1, LeastNumber, Zenon
  <2>2. k \in 0..m /\ u[k] # w[k]
    OBVIOUS
  <2>3. k # 0
    BY <2>2 DEF IsPaired
  <2>4. k \in 1..m /\ k - 1 \in 0..m
    BY <2>2, <2>3
  <2>5. u[k - 1] = w[k - 1]
    BY <2>1, <2>4
  <2> HIDE DEF T
  <2>6. /\ u[k] = IF PairAt(chars, k - 1) THEN u[k - 1] ELSE Append(u[k - 1], CodeOf(chars, k))
        /\ w[k] = IF PairAt(other, k - 1) THEN w[k - 1] ELSE Append(w[k - 1], CodeOf(other, k))
    BY <2>4, Zenon DEF IsPaired
  <2> QED
    BY <2>2, <2>4, <2>5, <2>6, Zenon
<1>2. m \in 0..m
  OBVIOUS
<1> QED
  BY <1>1, <1>2

\* No surrogate is both high and low.
LEMMA SurrogatesApart == \A k : ~(k \in HighSurrogates /\ k \in LowSurrogates)
<1>1. PICK h \in Int, l \in Int, e \in Int : h = HighStart /\ l = LowStart /\ e = LowEnd
  <2>1. HighStart \in Int /\ LowStart \in Int /\ LowEnd \in Int
    BY SMT DEF HighStart, LowStart, LowEnd
  <2> QED
    BY <2>1, Zenon
<1>2. HighSurrogates = h..(l - 1) /\ LowSurrogates = l..e
  BY <1>1, Zenon DEF HighSurrogates, LowSurrogates
<1>3. \A k : ~(k \in h..(l - 1) /\ k \in l..e)
  OBVIOUS
<1> QED
  BY <1>2, <1>3, Zenon

\* The last element replaced.
LEMMA LastReplaced ==
  ASSUME NEW x \in Seq(Int), NEW a \in Int, NEW e \in Int
  PROVE  Append(x, a) # <<>> /\ Append(x, e) = [Append(x, a) EXCEPT ![Len(Append(x, a))] = e]
<1>1. PICK y : y = Append(x, a)
  OBVIOUS
<1>2. y \in Seq(Int) /\ Len(y) = Len(x) + 1 /\ Len(x) \in Nat
  BY <1>1
<1>3. PICK z : z = [y EXCEPT ![Len(y)] = e]
  OBVIOUS
<1>4. z \in Seq(Int) /\ Len(z) = Len(x) + 1 /\ \A i \in 1..(Len(x) + 1) : z[i] = IF i = Len(x) + 1 THEN e ELSE y[i]
  BY <1>2, <1>3
<1>5. Append(x, e) \in Seq(Int) /\ Len(Append(x, e)) = Len(x) + 1
  OBVIOUS
<1>6. \A i \in 1..(Len(x) + 1) : z[i] = Append(x, e)[i]
  BY <1>1, <1>2, <1>4
<1>7. z = Append(x, e)
  BY <1>4, <1>5, <1>6, SeqEqual
<1>8. y # <<>>
  BY <1>2
<1> QED
  BY <1>1, <1>3, <1>7, <1>8

\* No characters, no codes.
LEMMA PairedEmpty == Paired(<<>>) = <<>>
<1>1. <<>> \in Seq(CharSet) /\ Len(<<>>) = 0
  OBVIOUS
<1>2. IsPaired(PairedUpTo(<<>>), <<>>, Len(<<>>))
  BY <1>1, PairedEquation
<1> QED
  BY <1>1, <1>2 DEF IsPaired, Paired

\* One more character is combined with the last one, or not.
LEMMA PairedAppend ==
  ASSUME NEW chars \in Seq(CharSet), NEW c \in CharSet
  PROVE  /\ Append(chars, c) \in Seq(CharSet)
         /\ Paired(chars) \in Seq(Int)
         /\ IF Len(chars) > 0 /\ IsPair(chars[Len(chars)], c)
            THEN /\ Paired(chars) # <<>>
                 /\ Paired(Append(chars, c))
                      = [Paired(chars) EXCEPT ![Len(Paired(chars))] =
                           PairCode(chars[Len(chars)].code, c.code)]
            ELSE Paired(Append(chars, c)) = Append(Paired(chars), c.code)
<1>1. PICK n \in Nat, s \in Seq(CharSet) : n = Len(chars) /\ s = Append(chars, c)
  <2>1. Len(chars) \in Nat
    OBVIOUS
  <2>2. Append(chars, c) \in Seq(CharSet)
    OBVIOUS
  <2> QED
    BY <2>1, <2>2, Zenon
<1>2. Len(s) = n + 1 /\ s[n + 1] = c /\ \A i \in 1..n : s[i] = chars[i]
  BY <1>1
<1>3. PICK u, w : u = PairedUpTo(chars) /\ w = PairedUpTo(s)
  OBVIOUS
<1>4. IsPaired(u, chars, n) /\ IsPaired(w, s, n + 1)
  BY <1>1, <1>2, <1>3, PairedEquation
<1>5. Paired(chars) = u[n] /\ Paired(s) = w[n + 1]
  BY <1>1, <1>2, <1>3 DEF Paired
<1>6. \A i \in 0..n : u[i] \in Seq(Int)
  BY <1>1, <1>3, PairedType
<1>7. \A i \in 0..(n - 1) : PairAt(chars, i) <=> PairAt(s, i)
  <2>1. \A i \in 1..(n - 1) : i \in 1..n /\ i + 1 \in 1..n
    OBVIOUS
  <2>2. \A i \in 1..(n - 1) : s[i] = chars[i] /\ s[i + 1] = chars[i + 1]
    BY <1>2, <2>1
  <2>3. \A i \in 0..(n - 1) : i \in 1..(Len(chars) - 1) <=> i \in 1..(Len(s) - 1) /\ i \in 1..(n - 1)
    BY <1>1, <1>2
  <2>4. \A i \in 0..(n - 1) : i \in 1..(Len(s) - 1) => i \in 1..(n - 1)
    BY <1>1, <1>2
  <2> QED
    BY <2>2, <2>3, <2>4, Zenon DEF PairAt
<1>8. ~PairAt(chars, n) /\ ~PairAt(s, n + 1)
  BY <1>1, <1>2 DEF PairAt
<1>9. PairAt(s, n) <=> n > 0 /\ IsPair(chars[n], c)
  <2>1. n \in 1..(Len(s) - 1) <=> n > 0
    BY <1>2
  <2>2. n > 0 => s[n] = chars[n]
    BY <1>2
  <2> QED
    BY <1>2, <2>1, <2>2 DEF PairAt
<1>10. \A i \in 1..(n - 1) : CodeOf(chars, i) = CodeOf(s, i)
  <2>1. \A i \in 1..(n - 1) : i \in 1..n /\ i + 1 \in 1..n /\ i \in 0..(n - 1)
    OBVIOUS
  <2>2. ASSUME NEW i \in 1..(n - 1) PROVE CodeOf(chars, i) = CodeOf(s, i)
    <3>1. s[i] = chars[i] /\ s[i + 1] = chars[i + 1] /\ (PairAt(chars, i) <=> PairAt(s, i))
      BY <1>2, <1>7, <2>1
    <3>2. PICK x : x = PairCode(chars[i].code, chars[i + 1].code)
      OBVIOUS
    <3>3. CodeOf(chars, i) = IF PairAt(chars, i) THEN x ELSE chars[i].code
      BY <3>2 DEF CodeOf
    <3>4. CodeOf(s, i) = IF PairAt(s, i) THEN x ELSE s[i].code
      BY <3>1, <3>2 DEF CodeOf
    <3>5. CASE PairAt(s, i)
      BY <3>1, <3>3, <3>4, <3>5
    <3>6. CASE ~PairAt(s, i)
      BY <3>1, <3>3, <3>4, <3>6
    <3> QED
      BY <3>5, <3>6
  <2> QED
    BY <2>2
<1>11. \A m \in 0..n : IsPaired(u, chars, m) /\ IsPaired(w, s, m)
  <2>1. ASSUME NEW m \in 0..n PROVE \A i \in 1..m : i \in 1..n /\ i \in 1..(n + 1)
    OBVIOUS
  <2> QED
    BY <1>4, <2>1, Zenon DEF IsPaired
<1>12. w[n + 1] = IF PairAt(s, n) THEN w[n] ELSE Append(w[n], c.code)
  <2>1. n + 1 \in 1..(n + 1) /\ (n + 1) - 1 = n
    OBVIOUS
  <2>2. CodeOf(s, n + 1) = c.code
    <3>1. CodeOf(s, n + 1) = s[n + 1].code
      BY <1>8 DEF CodeOf
    <3> QED
      BY <1>2, <3>1
  <2>3. w[n + 1] = IF PairAt(s, (n + 1) - 1) THEN w[(n + 1) - 1] ELSE Append(w[(n + 1) - 1], CodeOf(s, n + 1))
    BY <1>4, <2>1, Zenon DEF IsPaired
  <2> QED
    BY <2>1, <2>2, <2>3
<1>13. CASE PairAt(s, n)
  <2>1. n > 0 /\ IsPair(chars[n], c)
    BY <1>9, <1>13
  <2>2. PICK m \in Nat : m = n - 1
    BY <2>1
  <2>3. ~PairAt(chars, m)
    <3>1. SUFFICES ASSUME PairAt(chars, m) PROVE FALSE
      OBVIOUS
    <3>2. IsPair(chars[m], chars[m + 1]) /\ m + 1 = n
      BY <2>2, <3>1 DEF PairAt
    <3>3. chars[n].code \in LowSurrogates /\ chars[n].code \in HighSurrogates
      BY <2>1, <3>2 DEF IsPair
    <3>4. PICK k : k = chars[n].code
      OBVIOUS
    <3>5. k \in LowSurrogates /\ k \in HighSurrogates
      BY <3>3, <3>4
    <3> QED
      BY <3>5, SurrogatesApart
  <2>4. ~PairAt(s, m)
    BY <1>7, <2>2, <2>3
  <2>5. n \in 1..n /\ n \in 1..(n + 1) /\ m \in 0..n /\ m = n - 1
    BY <2>1, <2>2
  <2>6. u[n] = Append(u[m], chars[n].code)
    <3>1. u[n] = IF PairAt(chars, n - 1) THEN u[n - 1] ELSE Append(u[n - 1], CodeOf(chars, n))
      BY <1>4, <2>5, Zenon DEF IsPaired
    <3>2. CodeOf(chars, n) = chars[n].code
      BY <1>8 DEF CodeOf
    <3> QED
      BY <2>3, <2>5, <3>1, <3>2, Zenon
  <2>7. w[n] = Append(w[m], PairCode(chars[n].code, c.code))
    <3>1. w[n] = IF PairAt(s, n - 1) THEN w[n - 1] ELSE Append(w[n - 1], CodeOf(s, n))
      BY <1>4, <2>5, Zenon DEF IsPaired
    <3>2. s[n] = chars[n]
      BY <1>2, <2>5
    <3>3. CodeOf(s, n) = PairCode(s[n].code, s[n + 1].code)
      BY <1>13 DEF CodeOf
    <3>4. CodeOf(s, n) = PairCode(chars[n].code, c.code)
      BY <1>2, <3>2, <3>3
    <3>5. w[n] = Append(w[m], CodeOf(s, n))
      BY <2>4, <2>5, <3>1, Zenon
    <3> QED
      BY <3>4, <3>5
  <2>8. u[m] = w[m]
    <3>1. \A i \in 1..m : i - 1 \in 0..(n - 1) /\ i \in 1..(n - 1)
      BY <2>5
    <3>2. \A i \in 1..m : /\ PairAt(chars, i - 1) <=> PairAt(s, i - 1)
                          /\ CodeOf(chars, i) = CodeOf(s, i)
      BY <1>7, <1>10, <3>1
    <3> QED
      BY <1>11, <2>2, <2>5, <3>2, PairedAgree
  <2>9. PICK x \in Seq(Int) : x = u[m]
    BY <1>6, <2>5
  <2>10. chars[n].code \in Int /\ c.code \in Int
    <3>1. chars[n] \in CharSet
      BY <1>1, <2>1
    <3> QED
      BY <3>1 DEF CharSet
  <2>11. PICK e \in Int : e = PairCode(chars[n].code, c.code)
    BY <2>10, PairCodeType
  <2>12. Append(x, chars[n].code) # <<>>
         /\ Append(x, e) = [Append(x, chars[n].code) EXCEPT ![Len(Append(x, chars[n].code))] = e]
    BY <2>10, LastReplaced
  <2>13. Paired(chars) = Append(x, chars[n].code)
    BY <1>5, <2>6, <2>9, Zenon
  <2>14. Paired(s) = Append(x, e)
    <3>1. w[n] = Append(w[m], e)
      BY <2>7, <2>11
    <3> QED
      BY <1>5, <1>12, <1>13, <2>8, <2>9, <3>1, Zenon
  <2>15. Paired(chars) # <<>> /\ Paired(s) = [Paired(chars) EXCEPT ![Len(Paired(chars))] = e]
    BY <2>12, <2>13, <2>14, Zenon
  <2>16. Paired(chars) \in Seq(Int) /\ s \in Seq(CharSet)
    BY <1>5, <1>6, <2>5
  <2>17. Len(chars) > 0 /\ IsPair(chars[Len(chars)], c)
    BY <1>1, <2>1
  <2>18. e = PairCode(chars[Len(chars)].code, c.code)
    BY <1>1, <2>11
  <2> QED
    BY <1>1, <2>15, <2>16, <2>17, <2>18
<1>14. CASE ~PairAt(s, n)
  <2>1. u[n] = w[n]
    <3>1. \A i \in 1..n : i - 1 \in 0..(n - 1) /\ (i \in 1..(n - 1) \/ i = n)
      OBVIOUS
    <3>2. n > 0 => CodeOf(chars, n) = CodeOf(s, n)
      <4>1. n > 0 => s[n] = chars[n]
        BY <1>2
      <4>2. CodeOf(chars, n) = chars[n].code
        BY <1>8 DEF CodeOf
      <4>3. CodeOf(s, n) = s[n].code
        BY <1>14 DEF CodeOf
      <4> QED
        BY <4>1, <4>2, <4>3
    <3>3. \A i \in 1..n : /\ PairAt(chars, i - 1) <=> PairAt(s, i - 1)
                          /\ CodeOf(chars, i) = CodeOf(s, i)
      BY <1>7, <1>10, <3>1, <3>2
    <3>4. n \in 0..n
      OBVIOUS
    <3> QED
      BY <1>11, <3>3, <3>4, PairedAgree
  <2>2. Paired(s) = Append(Paired(chars), c.code)
    BY <1>5, <1>12, <1>14, <2>1
  <2>3. n \in 0..n
    OBVIOUS
  <2> QED
    BY <1>1, <1>5, <1>6, <1>9, <1>14, <2>2, <2>3
<1> QED
  BY <1>13, <1>14

\* Bytes are numbers.
LEMMA TextBytes ==
  ASSUME NEW t, IsText(t), NEW k \in 1..Len(t)
  PROVE  t[k] \in Nat /\ t[k] <= 255
<1>1. \A b \in Bytes : b \in Nat /\ b <= 255
  BY SMT DEF Bytes
<1>2. t[k] \in Bytes
  BY DEF IsText
<1> QED
  BY <1>1, <1>2

\* The ranges of the first and of the second byte.
LEMMA FirstByte ==
  ASSUME NEW n \in 1..4, NEW b \in FirstBytes(n)
  PROVE  /\ n = 1 => 0 <= b /\ b <= 127
         /\ n = 2 => 194 <= b /\ b <= 223
         /\ n = 3 => 224 <= b /\ b <= 239
         /\ n = 4 => 240 <= b /\ b <= 244
<1>1. n = 1 => b \in 0..127
  BY DEF FirstBytes
<1>2. n = 2 => b \in 194..223
  BY DEF FirstBytes
<1>3. n = 3 => b \in 224..239
  BY DEF FirstBytes
<1>4. n = 4 => b \in 240..244
  BY DEF FirstBytes
<1> QED
  BY <1>1, <1>2, <1>3, <1>4

\* Whatever the first byte, the second is a continuation byte.
LEMMA SecondByte ==
  ASSUME NEW first, NEW b \in SecondBytes(first)
  PROVE  128 <= b /\ b <= 191
<1>1. b \in 160..191 \/ b \in 144..191 \/ b \in 128..143 \/ b \in 128..191
  BY DEF SecondBytes
<1> QED
  BY <1>1

\* A character in UTF-8: its bytes, and the ranges its lead determines.
CharacterRanges(t, i, n) ==
  /\ \A j \in 0..(n - 1) : i + j \in 1..Len(t) /\ t[i + j] \in Int
  /\ n = 1 => 0 <= t[i] /\ t[i] <= 127
  /\ n = 2 => 194 <= t[i] /\ t[i] <= 223
  /\ n = 3 => 224 <= t[i] /\ t[i] <= 239
  /\ n = 4 => 240 <= t[i] /\ t[i] <= 244
  /\ n > 1 => 128 <= t[i + 1] /\ t[i + 1] <= 191
  /\ \A j \in 2..(n - 1) : 128 <= t[i + j] /\ t[i + j] <= 191

\* A character has those bytes.
LEMMA CharacterBytes ==
  ASSUME NEW t \in Seq(Int), NEW i \in 1..Len(t), NEW n \in 1..4, IsCharacter(t, i, n)
  PROVE  CharacterRanges(t, i, n)
<1>1. Len(t) \in Nat /\ \A k \in 1..Len(t) : t[k] \in Int
  OBVIOUS
<1>2. i + n - 1 <= Len(t)
  BY Zenon DEF IsCharacter
<1>3. \A j \in 0..(n - 1) : i + j \in 1..Len(t)
  BY <1>1, <1>2
<1>4. \A j \in 0..(n - 1) : i + j \in 1..Len(t) /\ t[i + j] \in Int
  BY <1>1, <1>3
<1>5. n > 1 => 128 <= t[i + 1] /\ t[i + 1] <= 191
  <2>1. n > 1 => t[i + 1] \in SecondBytes(t[i])
    BY Zenon DEF IsCharacter
  <2> QED
    BY <2>1, SecondByte
<1>6. \A j \in 2..(n - 1) : 128 <= t[i + j] /\ t[i + j] <= 191
  <2>1. \A j \in 2..(n - 1) : t[i + j] \in 128..191
    BY Zenon DEF IsCharacter
  <2>2. \A b : b \in 128..191 => 128 <= b /\ b <= 191
    OBVIOUS
  <2> QED
    BY <2>1, <2>2, Zenon
<1>7. t[i] \in FirstBytes(n)
  BY Zenon DEF IsCharacter
<1> QED
  BY <1>4, <1>5, <1>6, <1>7, FirstByte DEF CharacterRanges

\* At most one character starts at a place.
LEMMA CharacterUnique ==
  ASSUME NEW t \in Seq(Int), NEW i \in 1..Len(t), NEW m \in 1..4, NEW n \in 1..4,
         IsCharacter(t, i, m), IsCharacter(t, i, n)
  PROVE  m = n
<1>1. /\ m = 1 => 0 <= t[i] /\ t[i] <= 127
      /\ m = 2 => 194 <= t[i] /\ t[i] <= 223
      /\ m = 3 => 224 <= t[i] /\ t[i] <= 239
      /\ m = 4 => 240 <= t[i] /\ t[i] <= 244
  BY CharacterBytes DEF CharacterRanges
<1>2. /\ n = 1 => 0 <= t[i] /\ t[i] <= 127
      /\ n = 2 => 194 <= t[i] /\ t[i] <= 223
      /\ n = 3 => 224 <= t[i] /\ t[i] <= 239
      /\ n = 4 => 240 <= t[i] /\ t[i] <= 244
  BY CharacterBytes DEF CharacterRanges
<1>3. t[i] \in Int
  OBVIOUS
<1> QED
  BY <1>1, <1>2, <1>3

\* There is at most one character at a place, and EncodedWidth is its width.
LEMMA EncodedWidthIs ==
  ASSUME NEW t \in Seq(Int), NEW i \in 1..Len(t)
  PROVE  /\ \A n \in 1..4 : IsCharacter(t, i, n) => EncodedWidth(t, i) = n
         /\ EncodedWidth(t, i) = 0 <=> \A n \in 1..4 : ~IsCharacter(t, i, n)
         /\ EncodedWidth(t, i) # 0 => EncodedWidth(t, i) \in 1..4 /\ IsCharacter(t, i, EncodedWidth(t, i))
<1>1. CASE \E n \in 1..4 : IsCharacter(t, i, n)
  <2>1. PICK w : w = CHOOSE m \in 1..4 : IsCharacter(t, i, m)
    OBVIOUS
  <2>2. w \in 1..4 /\ IsCharacter(t, i, w)
    BY <1>1, <2>1, Zenon
  <2>3. EncodedWidth(t, i) = w
    BY <1>1, <2>1, Zenon DEF EncodedWidth
  <2>4. \A n \in 1..4 : IsCharacter(t, i, n) => n = w
    BY <2>2, CharacterUnique
  <2>5. w # 0
    BY <2>2
  <2> QED
    BY <1>1, <2>2, <2>3, <2>4, <2>5, Zenon
<1>2. CASE \A n \in 1..4 : ~IsCharacter(t, i, n)
  <2>1. EncodedWidth(t, i) = 0
    BY <1>2, Zenon DEF EncodedWidth
  <2> QED
    BY <1>2, <2>1, Zenon
<1> QED
  BY <1>1, <1>2, Zenon

\* Bytes are numbers.
LEMMA TextInts ==
  ASSUME NEW t, IsText(t)
  PROVE  t \in Seq(Int)
<1>1. \A b \in Bytes : b \in Int
  BY SMT DEF Bytes
<1> QED
  BY <1>1 DEF IsText

\* A character that starts with a byte other than NUL ends before the NUL.
LEMMA CharacterEnds ==
  ASSUME NEW t, IsText(t), NEW i \in 1..Len(t), NEW n \in 1..4, IsCharacter(t, i, n), t[i] # 0
  PROVE  i + n <= Len(t)
<1>1. Len(t) \in Nat /\ t[Len(t)] = 0
  BY DEF IsText
<1>2. PICK k \in Int : k = i + (n - 1)
  BY <1>1
<1>3. k \in 1..Len(t)
  <2>1. n - 1 \in 0..(n - 1)
    OBVIOUS
  <2> QED
    BY <1>2, <2>1, CharacterBytes, TextInts DEF CharacterRanges
<1>4. t[k] # 0
  <2>1. CASE n = 1
    BY <1>2, <2>1
  <2>2. CASE n = 2
    <3>1. 128 <= t[i + 1] /\ k = i + 1
      BY <1>2, <2>2, CharacterBytes, TextInts DEF CharacterRanges
    <3> QED
      BY <3>1
  <2>3. CASE n > 2
    <3>1. n - 1 \in 2..(n - 1)
      BY <2>3
    <3>2. 128 <= t[i + (n - 1)]
      BY <3>1, CharacterBytes, TextInts, SMTT(30) DEF CharacterRanges
    <3> QED
      BY <1>2, <3>2
  <2> QED
    BY <2>1, <2>2, <2>3
<1> QED
  BY <1>1, <1>2, <1>3, <1>4

\* The width of a character in UTF-8.
LEMMA WidthIs ==
  ASSUME NEW t, IsText(t), NEW i \in 1..Len(t), t[i] # 92, t[i] # 0,
         NEW n \in 1..4, IsCharacter(t, i, n)
  PROVE  Width(t, i) = n
<1>1. EncodedWidth(t, i) = n
  BY TextInts, EncodedWidthIs
<1> QED
  BY <1>1 DEF Width

\* No character, no width.
LEMMA NoWidth ==
  ASSUME NEW t, NEW i, t[i] # 92, t[i] = 0 \/ \A n \in 1..4 : ~IsCharacter(t, i, n)
  PROVE  Width(t, i) = 0
<1>1. t[i] = 0 \/ EncodedWidth(t, i) = 0
  BY Zenon DEF EncodedWidth
<1> QED
  BY <1>1 DEF Width

\* A character ends before the NUL, so that there is a place behind it.
LEMMA WidthBound ==
  ASSUME NEW t, IsText(t), NEW i \in 1..Len(t), Width(t, i) # 0
  PROVE  /\ Width(t, i) \in 1..6
         /\ i + Width(t, i) \in (i + 1)..Len(t)
<1>0. Len(t) \in Nat /\ t[Len(t)] = 0 /\ i \in Nat
  BY DEF IsText
<1>1. CASE t[i] = 92 /\ t[i + 1] = 117
  <2>1. IsUnit(t, i) /\ Width(t, i) = 6
    BY <1>1 DEF Width
  <2>2. i + 5 < Len(t)
    BY <2>1 DEF IsUnit
  <2> QED
    BY <1>0, <2>1, <2>2
<1>2. CASE t[i] = 92 /\ t[i + 1] # 117
  <2>1. t[i + 1] \in Letters /\ Width(t, i) = 2
    BY <1>2 DEF Width
  <2>2. t[i + 1] # 0
    BY <2>1 DEF Letters
  <2>3. i + 1 <= Len(t)
    BY <1>0, <1>2
  <2> QED
    BY <1>0, <2>1, <2>2, <2>3
<1>3. CASE t[i] # 92
  <2>1. t[i] # 0 /\ \E n \in 1..4 : IsCharacter(t, i, n)
    BY <1>3, NoWidth, Zenon
  <2>2. PICK n \in 1..4 : IsCharacter(t, i, n)
    BY <2>1
  <2>3. Width(t, i) = n /\ i + n <= Len(t)
    BY <1>3, <2>1, <2>2, WidthIs, CharacterEnds
  <2> QED
    BY <1>0, <2>3
<1> QED
  BY <1>1, <1>2, <1>3

\* The code point, by the number of bytes, with a name for what is computed.
Value2(a, b) == (a - 192) * 64 + (b - 128)
Value3(a, b, c) == ((a - 224) * 64 + (b - 128)) * 64 + (c - 128)
Value4(a, b, c, d) == (((a - 240) * 64 + (b - 128)) * 64 + (c - 128)) * 64 + (d - 128)

\* The values of such bytes are numbers.
LEMMA ValueType ==
  ASSUME NEW a \in Int, NEW b \in Int, NEW c \in Int, NEW d \in Int, b >= 128
  PROVE  /\ a >= 192 => Value2(a, b) \in Nat
         /\ a >= 224 /\ c >= 128 => Value3(a, b, c) \in Nat
         /\ a >= 240 /\ c >= 128 /\ d >= 128 => Value4(a, b, c, d) \in Nat
  BY SMT DEF Value2, Value3, Value4

\* The code point of a character, by its width.
LEMMA CodePointIs ==
  ASSUME NEW t, NEW i
  PROVE  /\ CodePoint(t, i, 1) = t[i]
         /\ CodePoint(t, i, 2) = Value2(t[i], t[i + 1])
         /\ CodePoint(t, i, 3) = Value3(t[i], t[i + 1], t[i + 2])
         /\ CodePoint(t, i, 4) = Value4(t[i], t[i + 1], t[i + 2], t[i + 3])
<1>1. CodePoint(t, i, 1) = t[i]
  BY SMT DEF CodePoint
<1>2. CodePoint(t, i, 2) = Value2(t[i], t[i + 1])
  BY SMT DEF CodePoint, Value2
<1>3. CodePoint(t, i, 3) = Value3(t[i], t[i + 1], t[i + 2])
  BY SMT DEF CodePoint, Value3
<1>4. CodePoint(t, i, 4) = Value4(t[i], t[i + 1], t[i + 2], t[i + 3])
  BY SMT DEF CodePoint, Value4
<1> QED
  BY <1>1, <1>2, <1>3, <1>4

\* A code point is a number.
LEMMA CodePointType ==
  ASSUME NEW t \in Seq(Int), NEW i \in 1..Len(t), NEW n \in 1..4, IsCharacter(t, i, n)
  PROVE  CodePoint(t, i, n) \in Nat
<1>1. CharacterRanges(t, i, n)
  BY CharacterBytes
<1>2. PICK a \in Int : a = t[i]
  OBVIOUS
<1>3. CASE n = 1
  <2>1. a \in Nat
    BY <1>1, <1>2, <1>3 DEF CharacterRanges
  <2> QED
    BY <1>2, <1>3, <2>1, CodePointIs, Zenon
<1>4. CASE n = 2
  <2>1. PICK b \in Int : b = t[i + 1] /\ a >= 192 /\ b >= 128
    BY <1>1, <1>2, <1>4 DEF CharacterRanges
  <2>2. Value2(a, b) \in Nat
    BY <2>1, ValueType
  <2> QED
    BY <1>2, <1>4, <2>1, <2>2, CodePointIs, Zenon
<1>5. CASE n = 3
  <2>1. PICK b \in Int, c \in Int : /\ b = t[i + 1] /\ c = t[i + 2]
                                    /\ a >= 224 /\ b >= 128 /\ c >= 128
    BY <1>1, <1>2, <1>5, SMTT(30) DEF CharacterRanges
  <2>2. Value3(a, b, c) \in Nat
    BY <2>1, ValueType
  <2> QED
    BY <1>2, <1>5, <2>1, <2>2, CodePointIs, Zenon
<1>6. CASE n = 4
  <2>1. PICK b \in Int, c \in Int, d \in Int : /\ b = t[i + 1] /\ c = t[i + 2] /\ d = t[i + 3]
                                               /\ a >= 240 /\ b >= 128 /\ c >= 128 /\ d >= 128
    <3>1. /\ 1 \in 0..(n - 1) /\ 2 \in 0..(n - 1) /\ 3 \in 0..(n - 1)
          /\ 2 \in 2..(n - 1) /\ 3 \in 2..(n - 1)
      BY <1>6
    <3>2. t[i + 1] \in Int /\ t[i + 2] \in Int /\ t[i + 3] \in Int
      BY <1>1, <3>1, Zenon DEF CharacterRanges
    <3>3. 128 <= t[i + 2] /\ 128 <= t[i + 3]
      BY <1>1, <3>1 DEF CharacterRanges
    <3>4. 240 <= a /\ 128 <= t[i + 1]
      BY <1>1, <1>2, <1>6, SMTT(30) DEF CharacterRanges
    <3> QED
      BY <3>2, <3>3, <3>4
  <2>2. Value4(a, b, c, d) \in Nat
    BY <2>1, ValueType
  <2> QED
    BY <1>2, <1>6, <2>1, <2>2, CodePointIs, Zenon
<1> QED
  BY <1>3, <1>4, <1>5, <1>6

\* Its code is a number.
LEMMA CharAtType ==
  ASSUME NEW t, IsText(t), NEW i \in 1..Len(t), Width(t, i) # 0
  PROVE  CharAt(t, i) \in CharSet
<1>0. Len(t) \in Nat /\ i \in Nat
  BY DEF IsText
<1>1. CASE t[i] = 92 /\ t[i + 1] = 117
  <2>1. IsUnit(t, i) /\ CharAt(t, i) = Char(UnitAt(t, i), TRUE)
    BY <1>1 DEF Width, CharAt
  <2>2. \A j \in 2..5 : Hex(t[i + j]) \in Int
    BY <2>1, HexBound DEF IsUnit
  <2>3. Hex(t[i + 2]) \in Int /\ Hex(t[i + 3]) \in Int /\ Hex(t[i + 4]) \in Int /\ Hex(t[i + 5]) \in Int
    BY <2>2
  <2>4. UnitAt(t, i) \in Int
    BY <2>3, SMTT(30) DEF UnitAt
  <2> QED
    BY <2>1, <2>4 DEF CharSet, Char
<1>2. CASE t[i] = 92 /\ t[i + 1] # 117
  <2>1. t[i + 1] \in Letters /\ CharAt(t, i) = Char(Escape(t[i + 1]), FALSE)
    BY <1>2 DEF Width, CharAt
  <2>2. Escape(t[i + 1]) \in Int
    BY <2>1 DEF Escape, Letters
  <2> QED
    BY <2>1, <2>2 DEF CharSet, Char
<1>3. CASE t[i] # 92
  <2>1. t[i] # 0 /\ \E n \in 1..4 : IsCharacter(t, i, n)
    BY <1>3, NoWidth, Zenon
  <2>2. PICK n \in 1..4 : IsCharacter(t, i, n)
    BY <2>1
  <2>3. CharAt(t, i) = Char(CodePoint(t, i, n), FALSE)
    <3>1. Width(t, i) = n
      BY <1>3, <2>1, <2>2, WidthIs
    <3> QED
      BY <1>3, <3>1 DEF CharAt
  <2>6. CodePoint(t, i, n) \in Int
    BY <2>2, CodePointType, TextInts
  <2> QED
    BY <2>3, <2>6 DEF CharSet, Char
<1> QED
  BY <1>1, <1>2, <1>3

\* The definition of CharsFrom as equations.
LEMMA CharsEquation ==
  ASSUME NEW t, IsText(t), NEW i \in 1..Len(t)
  PROVE  /\ CharsFrom(t)[i] \in Seq(CharSet)
         /\ CharsFrom(t)[i] = IF t[i] = 34 THEN <<>>
                              ELSE IF Width(t, i) = 0 THEN <<NoChar>>
                              ELSE <<CharAt(t, i)>> \o CharsFrom(t)[i + Width(t, i)]
<1>0. Len(t) \in Nat
  BY DEF IsText
<1>1. PICK stop, part, next :
        /\ stop = [k \in 1..Len(t) |-> t[k] = 34 \/ Width(t, k) = 0]
        /\ part = [k \in 1..Len(t) |-> IF t[k] = 34 THEN <<>>
                                       ELSE IF Width(t, k) = 0 THEN <<NoChar>> ELSE <<CharAt(t, k)>>]
        /\ next = [k \in 1..Len(t) |-> k + Width(t, k)]
  OBVIOUS
<1>2. part \in [1..Len(t) -> Seq(CharSet)]
  <2>1. NoChar \in CharSet
    BY DEF NoChar, CharSet, Char
  <2>2. ASSUME NEW k \in 1..Len(t)
        PROVE  (IF t[k] = 34 THEN <<>>
                ELSE IF Width(t, k) = 0 THEN <<NoChar>> ELSE <<CharAt(t, k)>>) \in Seq(CharSet)
    <3>1. CASE t[k] # 34 /\ Width(t, k) # 0
      <4>1. CharAt(t, k) \in CharSet
        BY <3>1, CharAtType
      <4> QED
        BY <3>1, <4>1
    <3>2. CASE t[k] = 34 \/ Width(t, k) = 0
      BY <2>1, <3>2
    <3> QED
      BY <3>1, <3>2
  <2> QED
    BY <1>1, <2>2
<1>3. \A k \in 1..Len(t) : ~stop[k] => next[k] \in (k + 1)..Len(t)
  BY <1>1, WidthBound
<1>4. PICK f : IsChunks(f, 1, Len(t), CharSet, stop, part, next)
  BY <1>0, <1>2, <1>3, ChunksExist
<1> DEFINE body(g) ==
      [k \in 1..Len(t) |-> IF t[k] = 34 THEN <<>>
                           ELSE IF Width(t, k) = 0 THEN <<NoChar>>
                           ELSE <<CharAt(t, k)>> \o g[k + Width(t, k)]]
<1>6. ASSUME NEW g, IsChunks(g, 1, Len(t), CharSet, stop, part, next) PROVE g = body(g)
  <2>1. ASSUME NEW k \in 1..Len(t)
        PROVE  g[k] = IF t[k] = 34 THEN <<>>
                      ELSE IF Width(t, k) = 0 THEN <<NoChar>>
                      ELSE <<CharAt(t, k)>> \o g[k + Width(t, k)]
    <3>1. g[k] = IF stop[k] THEN part[k] ELSE part[k] \o g[next[k]]
      BY <1>6, Zenon DEF IsChunks
    <3>2. /\ stop[k] <=> t[k] = 34 \/ Width(t, k) = 0
          /\ part[k] = IF t[k] = 34 THEN <<>>
                       ELSE IF Width(t, k) = 0 THEN <<NoChar>> ELSE <<CharAt(t, k)>>
          /\ next[k] = k + Width(t, k)
      BY <1>1, Zenon
    <3> QED
      BY <3>1, <3>2, Zenon
  <2>2. g = [k \in 1..Len(t) |-> g[k]]
    BY <1>6 DEF IsChunks
  <2> QED
    BY <2>1, <2>2, Zenon
<1>7. f = body(f)
  BY <1>4, <1>6
<1>8. CharsFrom(t) = CHOOSE g : g = body(g)
  BY Zenon DEF CharsFrom
<1>9. CharsFrom(t) = body(CharsFrom(t))
  BY <1>7, <1>8, Zenon
<1>10. PICK p : p = CharsFrom(t)
  OBVIOUS
<1>11. p = body(p)
  BY <1>9, <1>10, Zenon
<1>12. \A k \in 1..Len(t) :
         p[k] = IF t[k] = 34 THEN <<>>
                ELSE IF Width(t, k) = 0 THEN <<NoChar>>
                ELSE <<CharAt(t, k)>> \o p[k + Width(t, k)]
  BY <1>11, Zenon
<1>13. \A k \in 1..Len(t) : p[k] = IF stop[k] THEN part[k] ELSE part[k] \o p[next[k]]
  <2>1. ASSUME NEW k \in 1..Len(t)
        PROVE  p[k] = IF stop[k] THEN part[k] ELSE part[k] \o p[next[k]]
    <3>1. p[k] = IF t[k] = 34 THEN <<>>
                 ELSE IF Width(t, k) = 0 THEN <<NoChar>>
                 ELSE <<CharAt(t, k)>> \o p[k + Width(t, k)]
      BY <1>12, Zenon
    <3>2. /\ stop[k] <=> t[k] = 34 \/ Width(t, k) = 0
          /\ part[k] = IF t[k] = 34 THEN <<>>
                       ELSE IF Width(t, k) = 0 THEN <<NoChar>> ELSE <<CharAt(t, k)>>
          /\ next[k] = k + Width(t, k)
      BY <1>1, Zenon
    <3> QED
      BY <3>1, <3>2, Zenon
  <2> QED
    BY <2>1
<1>14. p[i] \in Seq(CharSet)
  <2>1. LooksAhead(Len(t), stop, next) /\ Chunked(p, Len(t), stop, part, next)
    BY <1>3, <1>13, Zenon DEF LooksAhead, Chunked
  <2>2. \A k \in 1..Len(t) : p[k] = f[k] /\ p[k] \in Seq(CharSet)
    BY <1>0, <1>4, <2>1, ChunksAgree, Zenon
  <2> QED
    BY <2>2
<1> QED
  BY <1>10, <1>12, <1>14, Zenon

-----------------------------------------------------------------------------
(* What decode_string has read. *)

\* The bits of the lead and of a continuation byte are what is above the first
\* of their kind.
LEMMA ByteBits ==
  /\ \A b \in Int : 192 <= b /\ b <= 223 => b % 32 = b - 192
  /\ \A b \in Int : 224 <= b /\ b <= 239 => b % 16 = b - 224
  /\ \A b \in Int : 240 <= b /\ b <= 244 => b % 8 = b - 240
  /\ \A b \in Int : 128 <= b /\ b <= 191 => b % 64 = b - 128
  OBVIOUS

\* Sequence and IsSequence, by the number of bytes.
LEMMA Sequence2 == Sequence(2) = (text[pos] % 32) * 64 + (text[pos + 1] % 64)
<1>1. 2 # 3 /\ 2 # 4
  OBVIOUS
<1> QED
  BY <1>1, Zenon DEF Sequence, Byte

\* The same of three bytes ...
LEMMA Sequence3 ==
  Sequence(3) = ((text[pos] % 16) * 64 + (text[pos + 1] % 64)) * 64 + (text[pos + 2] % 64)
<1>1. 3 # 2 /\ 3 # 4
  OBVIOUS
<1> QED
  BY <1>1, Zenon DEF Sequence, Byte

\* ... and of four.
LEMMA Sequence4 ==
  Sequence(4) = (((text[pos] % 8) * 64 + (text[pos + 1] % 64)) * 64 + (text[pos + 2] % 64)) * 64
                + (text[pos + 3] % 64)
<1>1. 4 # 2 /\ 4 # 3
  OBVIOUS
<1> QED
  BY <1>1, Zenon DEF Sequence, Byte

\* The bytes behind the lead, read one by one.
Continued(n) ==
  /\ text[pos + 1] \in Continuation
  /\ n > 2 => text[pos + 2] \in Continuation
  /\ n > 3 => text[pos + 3] \in Continuation

\* They are in the text, and in these ranges.
InRanges(n) ==
  /\ pos \in 1..Len(text) /\ pos + n <= Len(text)
  /\ text[pos] \in Int
  /\ n = 2 => 192 <= text[pos] /\ text[pos] <= 223
  /\ n = 3 => 224 <= text[pos] /\ text[pos] <= 239
  /\ n = 4 => 240 <= text[pos] /\ text[pos] <= 244
  /\ text[pos + 1] \in Int /\ 128 <= text[pos + 1] /\ text[pos + 1] <= 191
  /\ n > 2 => text[pos + 2] \in Int /\ 128 <= text[pos + 2] /\ text[pos + 2] <= 191
  /\ n > 3 => text[pos + 3] \in Int /\ 128 <= text[pos + 3] /\ text[pos + 3] <= 191

\* The bytes of a sequence that is continued are in these ranges.
LEMMA SequenceBytes ==
  ASSUME ReaderInv, NEW n \in 2..4, Byte \in Leads(n), Continued(n)
  PROVE  InRanges(n)
<1>1. \A b : b \in Continuation => b \in Int /\ 128 <= b /\ b <= 191
  BY SMT DEF Continuation
<1>2. /\ n = 2 => 192 <= Byte /\ Byte <= 223
      /\ n = 3 => 224 <= Byte /\ Byte <= 239
      /\ n = 4 => 240 <= Byte /\ Byte <= 244
  BY SMT DEF Leads
<1>3. pos \in 1..Len(text)
  BY DEF ReaderInv, ReaderTypeOK, EscapesFit, IsText
<1>4. Byte \in Int
  BY <1>3, TextBytes DEF ReaderInv, ReaderTypeOK, Byte
<1>5. Byte # 0
  BY <1>2, <1>4
<1>6. /\ text[pos + 1] \in Int /\ 128 <= text[pos + 1] /\ text[pos + 1] <= 191
      /\ n > 2 => text[pos + 2] \in Int /\ 128 <= text[pos + 2] /\ text[pos + 2] <= 191
      /\ n > 3 => text[pos + 3] \in Int /\ 128 <= text[pos + 3] /\ text[pos + 3] <= 191
  BY <1>1, Zenon DEF Continued
<1>7. text[pos + 1] # 0 /\ (n > 2 => text[pos + 2] # 0) /\ (n > 3 => text[pos + 3] # 0)
  BY <1>6
<1>8. pos + n <= Len(text)
  BY <1>5, <1>7, ByteType
<1>9. Byte = text[pos]
  BY DEF Byte
<1> QED
  BY <1>2, <1>3, <1>4, <1>6, <1>8, <1>9, ZenonT(60) DEF InRanges

\* So are those of a character.
LEMMA CharacterContinued ==
  ASSUME IsText(text), pos \in 1..Len(text), NEW n \in 2..4, IsCharacter(text, pos, n)
  PROVE  Continued(n)
<1>1. n \in 1..4 /\ n > 1
  OBVIOUS
<1>2. /\ n > 1 => 128 <= text[pos + 1] /\ text[pos + 1] <= 191
      /\ \A j \in 2..(n - 1) : 128 <= text[pos + j] /\ text[pos + j] <= 191
      /\ \A j \in 0..(n - 1) : text[pos + j] \in Int
  <2>1. CharacterRanges(text, pos, n)
    BY <1>1, CharacterBytes, TextInts, Zenon
  <2> QED
    BY <2>1, Zenon DEF CharacterRanges
<1>3. \A b \in Int : 128 <= b /\ b <= 191 => b \in Continuation
  BY SMT DEF Continuation
<1>4. 1 \in 0..(n - 1) /\ (n > 2 => 2 \in 0..(n - 1) /\ 2 \in 2..(n - 1))
      /\ (n > 3 => 3 \in 0..(n - 1) /\ 3 \in 2..(n - 1))
  OBVIOUS
<1> QED
  BY <1>1, <1>2, <1>3, <1>4, Zenon DEF Continued

\* The ranges of the second byte, for a first byte of each kind.
LEMMA SecondRange ==
  ASSUME NEW first \in Int, NEW b \in Int
  PROVE  b \in SecondBytes(first) <=>
           /\ 128 <= b /\ b <= 191
           /\ first = 224 => 160 <= b
           /\ first = 240 => 144 <= b
           /\ first = 244 => b <= 143
<1>1. CASE first = 224
  <2>1. SecondBytes(first) = 160..191
    BY <1>1 DEF SecondBytes
  <2> QED
    BY <1>1, <2>1
<1>2. CASE first = 240
  <2>1. SecondBytes(first) = 144..191
    BY <1>2 DEF SecondBytes
  <2> QED
    BY <1>2, <2>1
<1>3. CASE first = 244
  <2>1. SecondBytes(first) = 128..143
    BY <1>3 DEF SecondBytes
  <2> QED
    BY <1>3, <2>1
<1>4. CASE first # 224 /\ first # 240 /\ first # 244
  <2>1. SecondBytes(first) = 128..191
    BY <1>4 DEF SecondBytes
  <2> QED
    BY <1>4, <2>1
<1> QED
  BY <1>1, <1>2, <1>3, <1>4

\* What the bits of a sequence make is bounded, from below by that of the
\* shorter ones except for some first bytes, from above except for the last.
LEMMA Range2 ==
  ASSUME NEW a \in Int, 192 <= a, a <= 223, NEW b \in Int, 128 <= b, b <= 191,
         NEW s \in Int, s = (a - 192) * 64 + (b - 128)
  PROVE  s \in 128..MaxCodePoint <=> 194 <= a
<1>1. PICK m \in Int : m = MaxCodePoint /\ m >= 1114111
  BY Bounds, SMT
<1>2. s \in 128..m <=> 194 <= a
  BY <1>1, SMT
<1> QED
  BY <1>1, <1>2

\* A value of three bytes is none of two exactly if the second byte says so ...
LEMMA Range3 ==
  ASSUME NEW a \in Int, 224 <= a, a <= 239, NEW b \in Int, 128 <= b, b <= 191,
         NEW c \in Int, 128 <= c, c <= 191
  PROVE  Value3(a, b, c) \in 2048..MaxCodePoint <=> (a = 224 => 160 <= b)
<1>1. PICK m \in Int : m = MaxCodePoint /\ m >= 1114111
  BY Bounds, SMT
<1>2. PICK s \in Int : s = Value3(a, b, c) /\ s = ((a - 224) * 64 + (b - 128)) * 64 + (c - 128)
  BY DEF Value3
<1>3. s \in 2048..m <=> (a = 224 => 160 <= b)
  BY <1>1, <1>2, SMT
<1> QED
  BY <1>1, <1>2, <1>3

\* ... and a value of four bytes is none of three, and not too large.
LEMMA Range4 ==
  ASSUME NEW a \in Int, 240 <= a, a <= 244, NEW b \in Int, 128 <= b, b <= 191,
         NEW c \in Int, 128 <= c, c <= 191, NEW d \in Int, 128 <= d, d <= 191
  PROVE  Value4(a, b, c, d) \in 65536..MaxCodePoint <=> (a = 240 => 144 <= b) /\ (a = 244 => b <= 143)
<1>1. PICK s \in Int :
        s = Value4(a, b, c, d) /\ s = (((a - 240) * 64 + (b - 128)) * 64 + (c - 128)) * 64 + (d - 128)
  BY DEF Value4
<1>2. PICK m \in Int : m = MaxCodePoint
  BY Bounds, SMT
<1>3. m = 1114111
  BY <1>2, SMT DEF MaxCodePoint
<1>4. s <= m <=> (a = 244 => b <= 143)
  BY <1>1, <1>3, SMT
<1>5. 65536 <= s <=> (a = 240 => 144 <= b)
  BY <1>1, SMT
<1> QED
  BY <1>1, <1>2, <1>4, <1>5, SMT

\* What decode_string accepts as a sequence is a character of Unicode in UTF-8,
\* a surrogate or not, in its shortest form, and it computes its code point.
LEMMA SequenceIsCharacter ==
  ASSUME ReaderInv, NEW n \in 2..4, Byte \in Leads(n)
  PROVE  /\ IsSequence(n) <=> IsCharacter(text, pos, n)
         /\ IsSequence(n) => Sequence(n) = CodePoint(text, pos, n)
<1>0. IsText(text) /\ pos \in 1..Len(text) /\ Len(text) \in Nat
  BY DEF ReaderInv, ReaderTypeOK, EscapesFit, IsText
<1>2. CASE Continued(n)
  <2>1. InRanges(n)
    BY <1>2, SequenceBytes, Zenon
  <2>2. PICK a \in Int, b \in Int : a = text[pos] /\ b = text[pos + 1]
    BY <1>0, <2>1 DEF InRanges
  <2>3. IsCharacter(text, pos, n) <=> a \in FirstBytes(n) /\ b \in SecondBytes(a)
    <3>1. \A j \in 2..(n - 1) : text[pos + j] \in 128..191
      <4>1. \A j \in 2..(n - 1) : (j = 2 /\ n > 2) \/ (j = 3 /\ n > 3)
        OBVIOUS
      <4>0. \A x \in Int : 128 <= x /\ x <= 191 => x \in 128..191
        OBVIOUS
      <4>2. n > 2 => text[pos + 2] \in 128..191
        BY <2>1, <4>0, Zenon DEF InRanges
      <4>3. n > 3 => text[pos + 3] \in 128..191
        BY <2>1, <4>0, Zenon DEF InRanges
      <4> QED
        BY <4>1, <4>2, <4>3, Zenon
    <3>2. n > 1 /\ pos + n - 1 <= Len(text)
      BY <1>0, <2>1 DEF InRanges
    <3> QED
      BY <2>2, <3>1, <3>2, Zenon DEF IsCharacter
  <2>4. 128 <= b /\ b <= 191
    BY <2>1, <2>2 DEF InRanges
  <2>5. b \in SecondBytes(a) <=> (a = 224 => 160 <= b) /\ (a = 240 => 144 <= b) /\ (a = 244 => b <= 143)
    BY <2>4, SecondRange
  <2>6. IsSequence(n) <=> Sequence(n) \in Shortest(n)..MaxCodePoint
    BY <1>2, Zenon DEF IsSequence, Continued
  <2>7. CASE n = 2
    <3>1. PICK s \in Int : s = Value2(a, b) /\ s = (a - 192) * 64 + (b - 128)
      BY DEF Value2
    <3>2. 192 <= a /\ a <= 223
      BY <2>1, <2>2, <2>7 DEF InRanges
    <3>3. Sequence(2) = s
      BY <2>2, <2>4, <3>1, <3>2, Sequence2, ByteBits
    <3>4. CodePoint(text, pos, 2) = s
      <4>1. Value2(a, b) = s
        BY <3>1
      <4> QED
        BY <2>2, <4>1, CodePointIs, Zenon
    <3>5. FirstBytes(2) = 194..223 /\ Shortest(2) = 128
      BY DEF FirstBytes, Shortest
    <3>6. a \in FirstBytes(2) <=> 194 <= a
      BY <3>2, <3>5
    <3>7. s \in 128..MaxCodePoint <=> 194 <= a
      BY <2>4, <3>1, <3>2, Range2
    <3>8. b \in SecondBytes(a)
      BY <2>5, <3>2
    <3>9. IsSequence(2) <=> s \in 128..MaxCodePoint
      BY <2>6, <2>7, <3>3, <3>5
    <3>10. IsCharacter(text, pos, 2) <=> a \in FirstBytes(2) /\ b \in SecondBytes(a)
      BY <2>3, <2>7
    <3>11. IsSequence(2) <=> IsCharacter(text, pos, 2)
      BY <3>6, <3>7, <3>8, <3>9, <3>10
    <3> QED
      BY <2>7, <3>3, <3>4, <3>11
  <2>8. CASE n = 3
    <3>0. PICK c \in Int : c = text[pos + 2] /\ 128 <= c /\ c <= 191
      BY <2>1, <2>8 DEF InRanges
    <3>1. PICK s \in Int : s = Value3(a, b, c) /\ s = ((a - 224) * 64 + (b - 128)) * 64 + (c - 128)
      BY <3>0 DEF Value3
    <3>2. 224 <= a /\ a <= 239
      BY <2>1, <2>2, <2>8 DEF InRanges
    <3>3. Sequence(3) = s
      <4>1. a % 16 = a - 224 /\ b % 64 = b - 128 /\ c % 64 = c - 128
        BY <2>4, <3>0, <3>2, ByteBits
      <4>2. Sequence(3) = ((a % 16) * 64 + (b % 64)) * 64 + (c % 64)
        BY <2>2, <3>0, Sequence3
      <4> QED
        BY <3>1, <4>1, <4>2
    <3>4. CodePoint(text, pos, 3) = s
      <4>1. Value3(text[pos], text[pos + 1], text[pos + 2]) = Value3(a, b, c)
        BY <2>2, <3>0
      <4>2. Value3(a, b, c) = s
        BY <3>1
      <4> QED
        BY <4>1, <4>2, CodePointIs, Zenon
    <3>5. FirstBytes(3) = 224..239 /\ Shortest(3) = 2048
      BY DEF FirstBytes, Shortest
    <3>6. a \in FirstBytes(3)
      BY <3>2, <3>5
    <3>7. s \in 2048..MaxCodePoint <=> (a = 224 => 160 <= b)
      <4>1. Value3(a, b, c) \in 2048..MaxCodePoint <=> (a = 224 => 160 <= b)
        BY <2>4, <3>0, <3>2, Range3, SMT
      <4>2. s = Value3(a, b, c)
        BY <3>1
      <4> QED
        BY <4>1, <4>2, SMT
    <3>8. b \in SecondBytes(a) <=> (a = 224 => 160 <= b)
      BY <2>5, <3>2
    <3>9. IsSequence(3) <=> s \in 2048..MaxCodePoint
      BY <2>6, <2>8, <3>3, <3>5
    <3>10. IsCharacter(text, pos, 3) <=> a \in FirstBytes(3) /\ b \in SecondBytes(a)
      BY <2>3, <2>8
    <3>11. IsSequence(3) <=> IsCharacter(text, pos, 3)
      BY <3>6, <3>7, <3>8, <3>9, <3>10
    <3> QED
      BY <2>8, <3>3, <3>4, <3>11
  <2>9. CASE n = 4
    <3>0. PICK c \in Int, d \in Int : /\ c = text[pos + 2] /\ 128 <= c /\ c <= 191
                                      /\ d = text[pos + 3] /\ 128 <= d /\ d <= 191
      BY <2>1, <2>9 DEF InRanges
    <3>1. PICK s \in Int : /\ s = Value4(a, b, c, d)
                           /\ s = (((a - 240) * 64 + (b - 128)) * 64 + (c - 128)) * 64 + (d - 128)
      BY <3>0 DEF Value4
    <3>2. 240 <= a /\ a <= 244
      BY <2>1, <2>2, <2>9 DEF InRanges
    <3>3. Sequence(4) = s
      <4>1. a % 8 = a - 240 /\ b % 64 = b - 128 /\ c % 64 = c - 128 /\ d % 64 = d - 128
        BY <2>4, <3>0, <3>2, ByteBits
      <4>2. Sequence(4) = (((a % 8) * 64 + (b % 64)) * 64 + (c % 64)) * 64 + (d % 64)
        BY <2>2, <3>0, Sequence4
      <4> QED
        BY <3>1, <4>1, <4>2
    <3>4. CodePoint(text, pos, 4) = s
      <4>1. Value4(text[pos], text[pos + 1], text[pos + 2], text[pos + 3]) = Value4(a, b, c, d)
        BY <2>2, <3>0
      <4>2. Value4(a, b, c, d) = s
        BY <3>1
      <4> QED
        BY <4>1, <4>2, CodePointIs, Zenon
    <3>5. FirstBytes(4) = 240..244 /\ Shortest(4) = 65536
      BY SMT DEF FirstBytes, Shortest
    <3>6. a \in FirstBytes(4)
      BY <3>2, <3>5
    <3>7. s \in 65536..MaxCodePoint <=> (a = 240 => 144 <= b) /\ (a = 244 => b <= 143)
      <4>1. Value4(a, b, c, d) \in 65536..MaxCodePoint <=> (a = 240 => 144 <= b) /\ (a = 244 => b <= 143)
        BY <2>4, <3>0, <3>2, Range4, SMT
      <4>2. s = Value4(a, b, c, d)
        BY <3>1
      <4> QED
        BY <4>1, <4>2, SMT
    <3>8. b \in SecondBytes(a) <=> (a = 240 => 144 <= b) /\ (a = 244 => b <= 143)
      BY <2>5, <3>2
    <3>9. IsSequence(4) <=> s \in 65536..MaxCodePoint
      BY <2>6, <2>9, <3>3, <3>5
    <3>10. IsCharacter(text, pos, 4) <=> a \in FirstBytes(4) /\ b \in SecondBytes(a)
      BY <2>3, <2>9
    <3>11. IsSequence(4) <=> IsCharacter(text, pos, 4)
      BY <3>6, <3>7, <3>8, <3>9, <3>10
    <3> QED
      BY <2>9, <3>3, <3>4, <3>11
  <2> QED
    BY <2>7, <2>8, <2>9
<1>3. CASE ~Continued(n)
  <2>1. ~IsSequence(n)
    BY <1>3, Zenon DEF IsSequence, Continued
  <2>2. ~IsCharacter(text, pos, n)
    BY <1>0, <1>3, CharacterContinued
  <2> QED
    BY <2>1, <2>2 DEF InRanges
<1> QED
  BY <1>2, <1>3

\* What is read at pos: a character of n bytes.
Reads(n, c) == Byte # 34 /\ Width(text, pos) = n /\ CharAt(text, pos) = c

\* A character in UTF-8.
LEMMA CharacterReads ==
  ASSUME ReaderInv, NEW n \in 1..4, Byte # 34, Byte # 92, Byte # 0, IsCharacter(text, pos, n)
  PROVE  Reads(n, Char(CodePoint(text, pos, n), FALSE))
<1>1. IsText(text) /\ pos \in 1..Len(text)
  BY DEF ReaderInv, ReaderTypeOK, EscapesFit, IsText
<1>2. Width(text, pos) = n
  BY <1>1, WidthIs DEF Byte
<1>3. CharAt(text, pos) = Char(CodePoint(text, pos, n), FALSE)
  BY <1>2 DEF CharAt, Byte
<1> QED
  BY <1>2, <1>3 DEF Reads

\* The step that copies a byte reads a character of one byte.
LEMMA CopyReads ==
  ASSUME ReaderInv, Copy
  PROVE  Reads(1, Char(Byte, FALSE)) /\ Byte \in Nat
<1>1. \A b : b \in Plain => b \in 0..127 /\ b \in Nat /\ b # 34 /\ b # 92 /\ b # 0
  BY SMT DEF Plain
<1>2. Byte \in 0..127 /\ Byte \in Nat /\ Byte # 34 /\ Byte # 92 /\ Byte # 0
  BY <1>1 DEF Copy
<1>3. IsCharacter(text, pos, 1)
  <2>1. pos + 1 - 1 <= Len(text) /\ ~(1 > 1) /\ 2..(1 - 1) = {}
    BY DEF ReaderInv, ReaderTypeOK, EscapesFit, IsText
  <2>2. FirstBytes(1) = 0..127
    BY DEF FirstBytes
  <2> QED
    BY <1>2, <2>1, <2>2 DEF IsCharacter, Byte
<1>4. CodePoint(text, pos, 1) = Byte
  BY CodePointIs, Zenon DEF Byte
<1>5. Reads(1, Char(CodePoint(text, pos, 1), FALSE))
  <2>1. 1 \in 1..4
    OBVIOUS
  <2> QED
    BY <1>2, <1>3, <2>1, CharacterReads, Zenon
<1> QED
  BY <1>2, <1>4, <1>5

\* The step that decodes a sequence reads the character it is.
LEMMA SequenceReads ==
  ASSUME ReaderInv, NEW n \in 2..4, Byte \in Leads(n), IsSequence(n)
  PROVE  Reads(n, Char(Sequence(n), FALSE)) /\ Sequence(n) \in Nat
<1>1. IsCharacter(text, pos, n) /\ Sequence(n) = CodePoint(text, pos, n)
  BY SequenceIsCharacter
<1>2. Byte # 34 /\ Byte # 92 /\ Byte # 0
  BY SMT DEF Leads
<1>3. Sequence(n) \in Nat
  <2>1. Shortest(n) \in Nat
    BY SMT DEF Shortest
  <2> QED
    BY <2>1 DEF IsSequence
<1>4. Reads(n, Char(CodePoint(text, pos, n), FALSE))
  <2>1. n \in 1..4
    OBVIOUS
  <2> QED
    BY <1>1, <1>2, <2>1, CharacterReads
<1> QED
  BY <1>1, <1>3, <1>4

\* The step that decodes an escape of one letter reads what the letter means.
LEMMA EscapeReads ==
  ASSUME ReaderInv, CopyEscape
  PROVE  Reads(2, Char(Escape(text[pos + 1]), FALSE)) /\ Escape(text[pos + 1]) \in Nat
<1>1. Byte = 92 /\ text[pos + 1] \in Letters
  BY DEF CopyEscape
<1>2. text[pos + 1] # 117 /\ Byte # 34
  BY <1>1 DEF Letters
<1>3. Width(text, pos) = 2 /\ CharAt(text, pos) = Char(Escape(text[pos + 1]), FALSE)
  BY <1>1, <1>2 DEF Width, CharAt, Byte
<1>4. Escape(text[pos + 1]) \in Nat
  BY <1>1, SMT DEF Escape, Letters
<1> QED
  BY <1>2, <1>3, <1>4 DEF Reads

\* The digits of an escape, in the text and where decode_string looks.
LEMMA DigitsAreUnit ==
  ASSUME ReaderInv, UnicodeEscape
  PROVE  /\ HasDigits <=> IsUnit(text, pos)
         /\ HasDigits => CodeUnit = UnitAt(text, pos)
<1>0. Len(text) \in Nat /\ pos \in Nat
  BY DEF ReaderInv, ReaderTypeOK, IsText
<1>1. ASSUME HasDigits PROVE IsUnit(text, pos) /\ CodeUnit = UnitAt(text, pos)
  <2>1. pos + 6 <= Len(text)
    BY <1>1, UnitBound
  <2>2. \A j \in 2..5 : j = 2 \/ j = 3 \/ j = 4 \/ j = 5
    OBVIOUS
  <2>3. IsUnit(text, pos)
    <3>1. pos + 5 < Len(text)
      BY <1>0, <2>1
    <3> QED
      BY <1>1, <2>2, <3>1, Zenon DEF HasDigits, IsUnit
  <2>4. PICK a \in Int, b \in Int, c \in Int, d \in Int :
          /\ a = Hex(text[pos + 2]) /\ b = Hex(text[pos + 3])
          /\ c = Hex(text[pos + 4]) /\ d = Hex(text[pos + 5])
    <3>1. /\ Hex(text[pos + 2]) \in Int /\ Hex(text[pos + 3]) \in Int
          /\ Hex(text[pos + 4]) \in Int /\ Hex(text[pos + 5]) \in Int
      BY <1>1, HexBound DEF HasDigits
    <3> QED
      BY <3>1, Zenon
  <2>5. CodeUnit = a * 4096 + b * 256 + c * 16 + d
    BY <2>4 DEF CodeUnit
  <2>6. UnitAt(text, pos) = ((a * 16 + b) * 16 + c) * 16 + d
    BY <2>4 DEF UnitAt
  <2>7. a * 4096 + b * 256 + c * 16 + d = ((a * 16 + b) * 16 + c) * 16 + d
    BY SMT
  <2> QED
    BY <2>3, <2>5, <2>6, <2>7
<1>2. ASSUME IsUnit(text, pos) PROVE HasDigits
  <2>1. 2 \in 2..5 /\ 3 \in 2..5 /\ 4 \in 2..5 /\ 5 \in 2..5
    OBVIOUS
  <2> QED
    BY <1>2, <2>1, Zenon DEF HasDigits, IsUnit
<1> QED
  BY <1>1, <1>2

\* The step that decodes a unicode escape reads its code unit.
LEMMA UnicodeReads ==
  ASSUME ReaderInv, CopyUnicodeEscape
  PROVE  Reads(6, Char(CodeUnit, TRUE)) /\ CodeUnit \in Nat
<1>1. UnicodeEscape /\ HasDigits
  BY DEF CopyUnicodeEscape
<1>2. IsUnit(text, pos) /\ CodeUnit = UnitAt(text, pos)
  BY <1>1, DigitsAreUnit
<1>3. text[pos] = 92 /\ text[pos + 1] = 117
  BY <1>1 DEF UnicodeEscape, Byte
<1>4. Width(text, pos) = 6 /\ CharAt(text, pos) = Char(CodeUnit, TRUE)
  BY <1>2, <1>3 DEF Width, CharAt
<1>5. CodeUnit \in Nat
  <2>1. \A k : k \in 0..MaxCodeUnit => k \in Nat
    BY Bounds
  <2> QED
    BY <1>1, <2>1, UnitBound
<1> QED
  BY <1>3, <1>4, <1>5 DEF Reads, Byte

\* What decode_string rejects is no character.
LEMMA RejectReads ==
  ASSUME ReaderInv, RejectByte \/ RejectSequence \/ RejectEscape
  PROVE  Byte # 34 /\ Width(text, pos) = 0
<1>0. IsText(text) /\ pos \in 1..Len(text) /\ Byte \in Nat
  <2>1. IsText(text) /\ pos \in 1..Len(text)
    BY DEF ReaderInv, ReaderTypeOK, EscapesFit, IsText
  <2> QED
    BY <2>1, TextBytes DEF Byte
<1>1. CASE RejectByte
  <2>1. Byte = 0 \/ (128 <= Byte /\ Byte <= 191) \/ Byte >= 245
    <3>1. \A b : b \in Continuation => 128 <= b /\ b <= 191
      BY SMT DEF Continuation
    <3> QED
      BY <1>1, <3>1 DEF RejectByte
  <2>2. Byte # 34 /\ Byte # 92
    BY <1>0, <2>1
  <2>3. ASSUME NEW n \in 1..4, IsCharacter(text, pos, n), Byte # 0 PROVE FALSE
    <3>1. CharacterRanges(text, pos, n)
      BY <1>0, <2>3, CharacterBytes, TextInts
    <3>2. /\ n = 1 => 0 <= Byte /\ Byte <= 127
          /\ n = 2 => 194 <= Byte /\ Byte <= 223
          /\ n = 3 => 224 <= Byte /\ Byte <= 239
          /\ n = 4 => 240 <= Byte /\ Byte <= 244
      BY <3>1 DEF CharacterRanges, Byte
    <3> QED
      BY <1>0, <2>1, <2>3, <3>2
  <2> QED
    BY <2>2, <2>3, NoWidth DEF Byte
<1>2. CASE RejectSequence
  <2>1. PICK m \in 2..4 : Byte \in Leads(m) /\ ~IsSequence(m)
    BY <1>2 DEF RejectSequence
  <2>2. ~IsCharacter(text, pos, m)
    BY <2>1, SequenceIsCharacter
  <2>3. /\ m = 2 => 192 <= Byte /\ Byte <= 223
        /\ m = 3 => 224 <= Byte /\ Byte <= 239
        /\ m = 4 => 240 <= Byte /\ Byte <= 244
    BY <2>1, SMT DEF Leads
  <2>4. Byte # 34 /\ Byte # 92
    BY <1>0, <2>3
  <2>5. ASSUME NEW n \in 1..4, IsCharacter(text, pos, n) PROVE FALSE
    <3>1. CharacterRanges(text, pos, n)
      BY <1>0, <2>5, CharacterBytes, TextInts
    <3>2. /\ n = 1 => 0 <= Byte /\ Byte <= 127
          /\ n = 2 => 194 <= Byte /\ Byte <= 223
          /\ n = 3 => 224 <= Byte /\ Byte <= 239
          /\ n = 4 => 240 <= Byte /\ Byte <= 244
      BY <3>1 DEF CharacterRanges, Byte
    <3>3. n = m
      BY <1>0, <2>3, <3>2
    <3> QED
      BY <2>2, <2>5, <3>3
  <2> QED
    BY <2>4, <2>5, NoWidth DEF Byte
<1>3. CASE RejectEscape
  <2>1. Byte = 92 /\ text[pos + 1] \notin Letters /\ (text[pos + 1] = 117 => ~HasDigits)
    BY <1>3 DEF RejectEscape
  <2>2. CASE text[pos + 1] = 117
    <3>1. ~IsUnit(text, pos)
      BY <2>1, <2>2, DigitsAreUnit DEF UnicodeEscape
    <3> QED
      BY <2>1, <2>2, <3>1 DEF Width, Byte
  <2>3. CASE text[pos + 1] # 117
    BY <2>1, <2>3 DEF Width, Byte
  <2> QED
    BY <2>2, <2>3
<1> QED
  BY <1>1, <1>2, <1>3

\* The characters read so far: all are characters, and what has been written is
\* what they are paired.
HasRead(chars) ==
  /\ chars \in Seq(CharSet)
  /\ \A i \in 1..Len(chars) : chars[i] # NoChar
  /\ out = Paired(chars)

\* An escaped high surrogate is the last of them.
EndsHigh(chars) ==
  /\ Len(chars) > 0
  /\ chars[Len(chars)].escaped
  /\ chars[Len(chars)].code \in HighSurrogates

\* What is to be read behind them, and what lastHigh stands for: the last of
\* them, not yet paired, which is then also what was written last.
IsPrefix(chars) ==
  /\ HasRead(chars)
  /\ Chars(text) = chars \o CharsFrom(text)[pos]
  /\ lastHigh = pos <=> EndsHigh(chars)
  /\ lastHigh = pos => out[Len(out)] = chars[Len(chars)].code

\* The loop has read some of the characters of the text, all of them, or those
\* in front of something else.
ReadsChars ==
  /\ result = "none" => \E chars : IsPrefix(chars)
  /\ result = "str" => HasRead(Chars(text))
  /\ result = "error" => /\ Chars(text) \in Seq(CharSet)
                         /\ Chars(text) # <<>>
                         /\ Chars(text)[Len(Chars(text))] = NoChar

\* Nothing is read at first.
LEMMA NothingRead ==
  ASSUME NEW t, IsText(t)
  PROVE  /\ <<>> \in Seq(CharSet) /\ \A i \in 1..Len(<<>>) : <<>>[i] # NoChar
         /\ Paired(<<>>) = <<>>
         /\ Chars(t) = <<>> \o CharsFrom(t)[1]
         /\ ~(Len(<<>>) > 0)
<1>1. <<>> \in Seq(CharSet) /\ Len(<<>>) = 0 /\ 1..0 = {}
  OBVIOUS
<1>2. 1 \in 1..Len(t)
  BY DEF IsText
<1>3. CharsFrom(t)[1] \in Seq(CharSet)
  BY <1>2, CharsEquation
<1>4. Chars(t) = <<>> \o CharsFrom(t)[1]
  BY <1>3 DEF Chars
<1> QED
  BY <1>1, <1>4, PairedEmpty

\* The next element of the second sequence, moved behind the first.
LEMMA NextBehind ==
  ASSUME NEW s \in Seq(CharSet), NEW c \in CharSet, NEW t \in Seq(CharSet)
  PROVE  s \o (<<c>> \o t) = Append(s, c) \o t
<1>1. PICK one \in Seq(CharSet) : one = <<c>>
  <2>1. <<c>> \in Seq(CharSet)
    OBVIOUS
  <2> QED
    BY <2>1, Zenon
<1>2. (s \o one) \o t = s \o (one \o t)
  BY ConcatAssociative
<1>3. s \o <<c>> = Append(s, c)
  BY AppendIsConcat
<1> QED
  BY <1>1, <1>2, <1>3

\* One more character is read, and written behind the others or over the last.
LEMMA TakeCharacter ==
  ASSUME ReaderInv, NEW chars, IsPrefix(chars),
         NEW n \in 1..6, NEW c \in CharSet, c.code \in Nat, Reads(n, c),
         text' = text, pos' = pos + n,
         out' = IF Len(chars) > 0 /\ IsPair(chars[Len(chars)], c)
                THEN [out EXCEPT ![Len(out)] =
                        PairCode(chars[Len(chars)].code, c.code)]
                ELSE Append(out, c.code),
         lastHigh' = pos' <=> c.escaped /\ c.code \in HighSurrogates
  PROVE  IsPrefix(Append(chars, c))'
<1>0. IsText(text) /\ pos \in 1..Len(text)
  BY DEF ReaderInv, ReaderTypeOK, EscapesFit, IsText
<1>1. HasRead(chars) /\ Chars(text) = chars \o CharsFrom(text)[pos]
  BY DEF IsPrefix
<1>2. chars \in Seq(CharSet) /\ out = Paired(chars) /\ \A i \in 1..Len(chars) : chars[i] # NoChar
  BY <1>1 DEF HasRead
<1>3. /\ Append(chars, c) \in Seq(CharSet)
      /\ Paired(chars) \in Seq(Int)
      /\ IF Len(chars) > 0 /\ IsPair(chars[Len(chars)], c)
         THEN Paired(Append(chars, c))
                = [Paired(chars) EXCEPT ![Len(Paired(chars))] =
                     PairCode(chars[Len(chars)].code, c.code)]
         ELSE Paired(Append(chars, c)) = Append(Paired(chars), c.code)
  BY <1>2, PairedAppend
<1>4. PICK more : more = Append(chars, c)
  OBVIOUS
<1>5. more \in Seq(CharSet) /\ Len(more) = Len(chars) + 1 /\ more[Len(more)] = c
      /\ Len(chars) \in Nat /\ \A i \in 1..Len(chars) : more[i] = chars[i]
  BY <1>2, <1>4
<1>6. c # NoChar
  BY DEF NoChar, Char
<1>7. \A i \in 1..Len(more) : more[i] # NoChar
  BY <1>2, <1>5, <1>6, SMTT(30)
<1>8. out' = Paired(more)
  BY <1>2, <1>3, <1>4, Zenon
<1>9. CharsFrom(text)[pos] = <<c>> \o CharsFrom(text)[pos + n]
      /\ CharsFrom(text)[pos + n] \in Seq(CharSet)
  <2>1. text[pos] # 34 /\ Width(text, pos) = n /\ CharAt(text, pos) = c
    BY Zenon DEF Reads, Byte
  <2>2. n # 0
    OBVIOUS
  <2>3. Width(text, pos) # 0
    BY <2>1, <2>2
  <2>4. CharsFrom(text)[pos] = <<CharAt(text, pos)>> \o CharsFrom(text)[pos + Width(text, pos)]
    BY <1>0, <2>1, <2>3, CharsEquation, Zenon
  <2>5. pos + Width(text, pos) \in (pos + 1)..Len(text)
    BY <1>0, <2>3, WidthBound
  <2>6. pos + n \in 1..Len(text)
    BY <1>0, <2>1, <2>5
  <2>7. CharsFrom(text)[pos + n] \in Seq(CharSet)
    BY <1>0, <2>6, CharsEquation
  <2> QED
    BY <2>1, <2>4, <2>7
<1>10. Chars(text) = more \o CharsFrom(text)[pos + n]
  <2>1. PICK rest \in Seq(CharSet) : rest = CharsFrom(text)[pos + n]
    BY <1>9
  <2>2. chars \o (<<c>> \o rest) = Append(chars, c) \o rest
    BY <1>2, NextBehind
  <2> QED
    BY <1>1, <1>4, <1>9, <2>1, <2>2, Zenon
<1>11. EndsHigh(more) <=> c.escaped /\ c.code \in HighSurrogates
  BY <1>5 DEF EndsHigh
<1>12. ASSUME lastHigh' = pos' PROVE out'[Len(out')] = more[Len(more)].code
  <2>1. c.code \in HighSurrogates
    BY <1>12
  <2>2. c.code \notin LowSurrogates
    BY <2>1, SurrogatesApart
  <2>3. out' = Append(out, c.code)
    BY <2>2 DEF IsPair
  <2> QED
    BY <1>2, <1>3, <1>5, <2>3
<1>13. HasRead(more)'
  BY <1>5, <1>7, <1>8 DEF HasRead
<1>14. (Chars(text) = more \o CharsFrom(text)[pos])'
  BY <1>10
<1>15. IsPrefix(more)'
  BY <1>11, <1>12, <1>13, <1>14 DEF IsPrefix
<1> QED
  BY <1>4, <1>15

\* What is put in place of the two surrogates.
LEMMA CombineIs ==
  ASSUME NEW high \in HighSurrogates, NEW low \in LowSurrogates
  PROVE  Combine(high, low) = PairCode(high, low)
<1>1. \A k : k \in HighSurrogates => k \in Int /\ 55296 <= k /\ k < 56320
  BY SMT DEF HighSurrogates, HighStart, LowStart
<1>2. \A k : k \in LowSurrogates => k \in Int /\ 56320 <= k /\ k <= 57343
  BY SMT DEF LowSurrogates, LowStart, LowEnd
<1>3. high % 1024 = high - 55296
  BY <1>1, SMT
<1>4. low % 1024 = low - 56320
  BY <1>2, SMT
<1>5. Combine(high, low) = (high - 55296) * 1024 + (low - 56320) + 65536
  BY SMT DEF Combine, HighStart, LowStart
<1>6. PairCode(high, low) = 65536 + 1024 * (high % 1024) + (low % 1024)
  BY SMT DEF PairCode
<1> QED
  BY <1>1, <1>2, <1>3, <1>4, <1>5, <1>6, SMT

\* Each step of decode_string reads the text.
LEMMA ReadsStep ==
  ASSUME ReaderInv, ReadsChars, [ReaderNext]_readerVars
  PROVE  ReadsChars'
<1>0. IsText(text) /\ pos \in 1..Len(text) /\ lastHigh \in Nat /\ lastHigh <= pos
  BY DEF ReaderInv, ReaderTypeOK, EscapesFit, IsText
<1>1. ASSUME UNCHANGED readerVars PROVE ReadsChars'
  BY <1>1 DEF readerVars, ReadsChars, IsPrefix, HasRead
<1>2. ASSUME ReaderNext PROVE ReadsChars'
  <2>0. result = "none" /\ (CloseQuote \/ Character)
    BY <1>2 DEF ReaderNext
  <2>1. PICK chars : IsPrefix(chars)
    BY <2>0 DEF ReadsChars
  <2>2. chars \in Seq(CharSet) /\ Chars(text) = chars \o CharsFrom(text)[pos] /\ HasRead(chars)
    BY <2>1 DEF IsPrefix, HasRead
  <2>3. ASSUME NEW n \in 1..6, NEW code \in Nat, NEW escaped \in BOOLEAN,
               Reads(n, Char(code, escaped)),
               text' = text, pos' = pos + n, result' = result,
               out' = IF Len(chars) > 0 /\ IsPair(chars[Len(chars)], Char(code, escaped))
                      THEN [out EXCEPT ![Len(out)] =
                              PairCode(chars[Len(chars)].code, code)]
                      ELSE Append(out, code),
               lastHigh' = pos' <=> escaped /\ code \in HighSurrogates
        PROVE  ReadsChars'
    <3>1. PICK c \in CharSet : c = Char(code, escaped) /\ c.code = code /\ c.escaped = escaped
      <4>1. Char(code, escaped) \in CharSet
        BY DEF CharSet, Char
      <4>2. Char(code, escaped).code = code /\ Char(code, escaped).escaped = escaped
        BY DEF Char
      <4> QED
        BY <4>1, <4>2, Zenon
    <3>2. IsPrefix(Append(chars, c))'
      BY <2>1, <2>3, <3>1, TakeCharacter
    <3> QED
      BY <2>0, <2>3, <3>2 DEF ReadsChars
  <2>4. ASSUME NEW n \in 1..6, NEW code \in Nat, Reads(n, Char(code, FALSE)),
               Advance(n, code), lastHigh' = lastHigh
        PROVE  ReadsChars'
    <3>1. text' = text /\ pos' = pos + n /\ result' = result /\ out' = Append(out, code)
      BY <2>4 DEF Advance
    <3>2. lastHigh' # pos'
      BY <1>0, <2>4, <3>1
    <3>3. ~IsPair(chars[Len(chars)], Char(code, FALSE))
      BY DEF IsPair, Char
    <3> QED
      BY <2>3, <2>4, <3>1, <3>2, <3>3
  <2>5. CASE Copy
    <3>1. Reads(1, Char(Byte, FALSE)) /\ Byte \in Nat
      BY <2>5, CopyReads
    <3>2. Advance(1, Byte) /\ lastHigh' = lastHigh /\ 1 \in 1..6
      BY <2>5 DEF Copy
    <3> QED
      BY <2>4, <3>1, <3>2
  <2>6. CASE CopySequence
    <3>1. PICK n \in 2..4 : /\ Byte \in Leads(n) /\ IsSequence(n)
                            /\ Advance(n, Sequence(n)) /\ lastHigh' = lastHigh
      BY <2>6 DEF CopySequence
    <3>2. Reads(n, Char(Sequence(n), FALSE)) /\ Sequence(n) \in Nat
      BY <3>1, SequenceReads, Zenon
    <3>3. n \in 1..6
      OBVIOUS
    <3> QED
      BY <2>4, <3>1, <3>2, <3>3, Zenon
  <2>7. CASE CopyEscape
    <3>1. Reads(2, Char(Escape(text[pos + 1]), FALSE)) /\ Escape(text[pos + 1]) \in Nat
      BY <2>7, EscapeReads
    <3>2. Advance(2, Escape(text[pos + 1])) /\ lastHigh' = lastHigh /\ 2 \in 1..6
      BY <2>7 DEF CopyEscape
    <3> QED
      BY <2>4, <3>1, <3>2
  <2>8. CASE CopyUnicodeEscape
    <3>1. PICK u \in Nat : u = CodeUnit /\ Reads(6, Char(u, TRUE))
      BY <2>8, UnicodeReads
    <3>2. /\ out' = IF u \in LowSurrogates /\ lastHigh = pos
                    THEN [out EXCEPT ![Len(out)] = Combine(out[Len(out)], u)]
                    ELSE Append(out, u)
          /\ lastHigh' = IF u \in HighSurrogates THEN pos + 6 ELSE lastHigh
          /\ pos' = pos + 6 /\ text' = text /\ result' = result
      BY <2>8, <3>1 DEF CopyUnicodeEscape, Pairs, IsHigh
    <3>3. lastHigh' = pos' <=> TRUE /\ u \in HighSurrogates
      BY <1>0, <3>2
    <3>4. u \in LowSurrogates /\ lastHigh = pos
            <=> Len(chars) > 0 /\ IsPair(chars[Len(chars)], Char(u, TRUE))
      <4>1. lastHigh = pos <=> EndsHigh(chars)
        BY <2>1 DEF IsPrefix
      <4> QED
        BY <4>1 DEF EndsHigh, IsPair, Char
    <3>5. ASSUME u \in LowSurrogates, lastHigh = pos
          PROVE  Combine(out[Len(out)], u) = PairCode(chars[Len(chars)].code, u)
      <4>1. PICK h : h = out[Len(out)] /\ h = chars[Len(chars)].code
        BY <2>1, <3>5 DEF IsPrefix
      <4>2. h \in HighSurrogates
        BY <2>1, <3>5, <4>1 DEF IsPrefix, EndsHigh
      <4>3. Combine(h, u) = PairCode(h, u)
        BY <3>5, <4>2, CombineIs
      <4> QED
        BY <4>1, <4>3
    <3>6. out' = IF Len(chars) > 0 /\ IsPair(chars[Len(chars)], Char(u, TRUE))
                 THEN [out EXCEPT ![Len(out)] =
                         PairCode(chars[Len(chars)].code, u)]
                 ELSE Append(out, u)
      <4>1. CASE u \in LowSurrogates /\ lastHigh = pos
        BY <3>2, <3>4, <3>5, <4>1
      <4>2. CASE ~(u \in LowSurrogates /\ lastHigh = pos)
        BY <3>2, <3>4, <4>2
      <4> QED
        BY <4>1, <4>2
    <3>7. 6 \in 1..6 /\ TRUE \in BOOLEAN
      OBVIOUS
    <3> QED
      BY <2>3, <3>1, <3>2, <3>3, <3>6, <3>7
  <2>9. CASE RejectByte \/ RejectSequence \/ RejectEscape
    <3>1. Byte # 34 /\ Width(text, pos) = 0
      BY <2>9, RejectReads
    <3>2. result' = "error" /\ text' = text
      BY <2>9 DEF RejectByte, RejectSequence, RejectEscape, SetError
    <3>3. CharsFrom(text)[pos] = <<NoChar>>
      BY <1>0, <3>1, CharsEquation DEF Byte
    <3>4. NoChar \in CharSet
      BY DEF NoChar, CharSet, Char
    <3>5. PICK s \in Seq(CharSet) : s = chars \o <<NoChar>> /\ s # <<>> /\ s[Len(s)] = NoChar
      <4>1. PICK last \in CharSet : last = NoChar
        BY <3>4
      <4>2. PICK s \in Seq(CharSet) : s = Append(chars, last)
        <5>1. Append(chars, last) \in Seq(CharSet)
          BY <2>2
        <5> QED
          BY <5>1, Zenon
      <4>3. s # <<>> /\ s[Len(s)] = last
        BY <2>2, <4>2
      <4>4. chars \o <<last>> = s
        BY <2>2, <4>2, AppendIsConcat
      <4> QED
        BY <4>1, <4>3, <4>4
    <3>6. Chars(text) = s
      BY <2>2, <3>3, <3>5
    <3> QED
      BY <3>2, <3>5, <3>6 DEF ReadsChars
  <2>10. CASE CloseQuote
    <3>1. Byte = 34 /\ result' = "str" /\ text' = text /\ out' = out
      BY <2>10 DEF CloseQuote
    <3>2. CharsFrom(text)[pos] = <<>>
      BY <1>0, <3>1, CharsEquation DEF Byte
    <3>3. Chars(text) = chars
      BY <2>2, <3>2
    <3>4. HasRead(Chars(text))
      BY <2>2, <3>3
    <3>5. HasRead(Chars(text))'
      BY <3>1, <3>4 DEF HasRead
    <3> QED
      BY <3>1, <3>5 DEF ReadsChars
  <2> QED
    BY <2>0, <2>5, <2>6, <2>7, <2>8, <2>9, <2>10 DEF Character
<1> QED
  BY <1>1, <1>2

\* decode_string accepts a text exactly if it is a JSON string in UTF-8, or would
\* be one but for surrogates that are encoded and control characters that are not
\* escaped, and then returns its characters: for every text.
THEOREM DecodesTextCorrect == CodecSpec => []DecodesText
<1>1. CodecInit /\ CodecInv => ReadsChars
  <2> SUFFICES ASSUME CodecInit, CodecInv PROVE ReadsChars
    OBVIOUS
  <2>1. IsText(text) /\ pos = 1 /\ out = <<>> /\ lastHigh = 0 /\ result \notin {"str", "error"}
    BY DEF CodecInit, Idle, ReaderInit, CodecInv, ReaderInv, ReaderTypeOK
  <2>2. lastHigh # pos
    BY <2>1
  <2>3. IsPrefix(<<>>)
    BY <2>1, <2>2, NothingRead, Zenon DEF IsPrefix, HasRead, EndsHigh
  <2> QED
    BY <2>1, <2>3 DEF ReadsChars
<1>2. CodecInv /\ CodecInv' /\ ReadsChars /\ [CodecNext]_codecVars => ReadsChars'
  <2> SUFFICES ASSUME CodecInv, CodecInv', ReadsChars, [CodecNext]_codecVars PROVE ReadsChars'
    OBVIOUS
  <2>1. CASE Encode \/ Decode \/ UNCHANGED codecVars
    <3>1. [ReaderNext]_readerVars
      BY <2>1 DEF Encode, Decode, codecVars
    <3> QED
      BY <3>1, ReadsStep DEF CodecInv
  <2>2. CASE Pass
    <3>1. (IsText(text) /\ result \notin {"str", "error"})'
      BY <2>2 DEF Pass, CodecInv, ReaderInv, ReaderTypeOK
    <3>2. pos' = 1 /\ out' = <<>> /\ lastHigh' = 0
      BY <2>2 DEF Pass, CodecInv
    <3>3. lastHigh' # pos'
      BY <3>2
    <3>4. IsPrefix(<<>>)'
      BY <3>1, <3>2, <3>3, NothingRead, Zenon DEF IsPrefix, HasRead, EndsHigh
    <3> QED
      BY <3>1, <3>4 DEF ReadsChars
  <2> QED
    BY <2>1, <2>2 DEF CodecNext
<1>3. ReadsChars => DecodesText
  <2> SUFFICES ASSUME ReadsChars, result \in {"str", "error"} PROVE DecodesText
    BY DEF DecodesText
  <2>1. CASE result = "str"
    <3>1. HasRead(Chars(text))
      BY <2>1 DEF ReadsChars
    <3>2. PICK chars : chars = Chars(text)
      OBVIOUS
    <3>3. chars \in Seq(CharSet) /\ out = Paired(chars) /\ \A i \in 1..Len(chars) : chars[i] # NoChar
      BY <3>1, <3>2 DEF HasRead
    <3>4. chars # <<>> => chars[Len(chars)] # NoChar
      <4>1. chars # <<>> => Len(chars) \in 1..Len(chars)
        BY <3>3
      <4> QED
        BY <3>3, <4>1
    <3> QED
      BY <2>1, <3>2, <3>3, <3>4, Zenon DEF DecodesText
  <2>2. CASE result = "error"
    BY <2>2, Zenon DEF ReadsChars, DecodesText
  <2> QED
    BY <2>1, <2>2
<1> QED
  BY <1>1, <1>2, <1>3, CodecInvariant, PTL DEF CodecSpec

-----------------------------------------------------------------------------
(* The characters of a string. *)

\* A character ends in front of the place behind the last byte.
EncodedParts(b, stop, next) ==
  /\ stop = [k \in 1..(Len(b) + 1) |-> k = Len(b) + 1 \/ EncodedWidth(b, k) = 0]
  /\ next = [k \in 1..(Len(b) + 1) |-> k + EncodedWidth(b, k)]

\* Its steps look ahead, as a character has at least one byte.
LEMMA EncodedAhead ==
  ASSUME NEW b \in Seq(Int), NEW stop, NEW next, EncodedParts(b, stop, next)
  PROVE  /\ Len(b) + 1 \in Nat
         /\ LooksAhead(Len(b) + 1, stop, next)
         /\ \A k \in 1..(Len(b) + 1) :
              /\ stop[k] <=> k = Len(b) + 1 \/ EncodedWidth(b, k) = 0
              /\ next[k] = k + EncodedWidth(b, k)
<1>1. Len(b) \in Nat
  OBVIOUS
<1>2. \A k \in 1..(Len(b) + 1) :
        /\ stop[k] <=> k = Len(b) + 1 \/ EncodedWidth(b, k) = 0
        /\ next[k] = k + EncodedWidth(b, k)
  BY Zenon DEF EncodedParts
<1>3. ASSUME NEW k \in 1..(Len(b) + 1), ~stop[k] PROVE next[k] \in (k + 1)..(Len(b) + 1)
  <2>1. k \in 1..Len(b) /\ EncodedWidth(b, k) # 0
    BY <1>1, <1>2, <1>3
  <2>2. PICK w \in 1..4 : w = EncodedWidth(b, k) /\ IsCharacter(b, k, w)
    BY <2>1, EncodedWidthIs
  <2>3. k + w - 1 <= Len(b)
    BY <2>2, Zenon DEF IsCharacter
  <2>4. next[k] = k + w
    BY <1>2, <2>2
  <2> QED
    BY <1>1, <2>3, <2>4
<1> QED
  BY <1>1, <1>2, <1>3 DEF LooksAhead

\* The definition of WellFormedFrom as an equation.
LEMMA WellFormedEquation ==
  ASSUME NEW b \in Seq(Int), NEW i \in 1..(Len(b) + 1)
  PROVE  WellFormedFrom(b)[i] <=>
           i = Len(b) + 1 \/ (EncodedWidth(b, i) # 0 /\ WellFormedFrom(b)[i + EncodedWidth(b, i)])
<1>1. PICK stop, next, part :
        /\ EncodedParts(b, stop, next)
        /\ part = [k \in 1..(Len(b) + 1) |->
                     IF k # Len(b) + 1 /\ EncodedWidth(b, k) = 0 THEN <<0>> ELSE <<>>]
  BY DEF EncodedParts
<1>2. /\ Len(b) + 1 \in Nat
      /\ LooksAhead(Len(b) + 1, stop, next)
      /\ \A k \in 1..(Len(b) + 1) :
           /\ stop[k] <=> k = Len(b) + 1 \/ EncodedWidth(b, k) = 0
           /\ next[k] = k + EncodedWidth(b, k)
  BY <1>1, EncodedAhead, Zenon
<1>3. part \in [1..(Len(b) + 1) -> Seq(Int)]
  BY <1>1
<1>4. PICK g : IsChunks(g, 1, Len(b) + 1, Int, stop, part, next)
  BY <1>2, <1>3, ChunksExist DEF LooksAhead
<1>5. PICK f : f = [k \in 1..(Len(b) + 1) |-> g[k] = <<>>]
  OBVIOUS
<1> DEFINE body(h) ==
      [k \in 1..(Len(b) + 1) |->
         k = Len(b) + 1 \/ (EncodedWidth(b, k) # 0 /\ h[k + EncodedWidth(b, k)])]
<1>6. f = body(f)
  <2>1. ASSUME NEW k \in 1..(Len(b) + 1)
        PROVE  (g[k] = <<>>) = (k = Len(b) + 1 \/ (EncodedWidth(b, k) # 0 /\ f[k + EncodedWidth(b, k)]))
    <3>1. g[k] = IF stop[k] THEN part[k] ELSE part[k] \o g[next[k]]
      BY <1>4, Zenon DEF IsChunks
    <3>2. CASE k = Len(b) + 1
      <4>1. stop[k] /\ part[k] = <<>>
        BY <1>1, <1>2, <3>2
      <4> QED
        BY <3>1, <3>2, <4>1, Zenon
    <3>3. CASE k # Len(b) + 1 /\ EncodedWidth(b, k) = 0
      <4>1. stop[k] /\ part[k] = <<0>>
        BY <1>1, <1>2, <3>3
      <4>2. g[k] # <<>>
        <5>1. <<0>> # <<>>
          OBVIOUS
        <5> QED
          BY <3>1, <4>1, <5>1, Zenon
      <4> QED
        BY <3>3, <4>2, Zenon
    <3>4. CASE k # Len(b) + 1 /\ EncodedWidth(b, k) # 0
      <4>1. ~stop[k] /\ part[k] = <<>>
        BY <1>1, <1>2, <3>4
      <4>2. next[k] \in 1..(Len(b) + 1) /\ next[k] = k + EncodedWidth(b, k)
        BY <1>2, <4>1 DEF LooksAhead
      <4>3. g[next[k]] \in Seq(Int)
        BY <1>4, <4>2 DEF IsChunks
      <4>4. <<>> \o g[next[k]] = g[next[k]]
        BY <4>3
      <4>5. g[k] = g[next[k]]
        BY <3>1, <4>1, <4>4, Zenon
      <4>6. f[next[k]] = (g[next[k]] = <<>>)
        BY <1>5, <4>2, Zenon
      <4>7. f[k + EncodedWidth(b, k)] = (g[k] = <<>>)
        BY <4>2, <4>5, <4>6, Zenon
      <4> QED
        BY <3>4, <4>7, Zenon
    <3> QED
      BY <3>2, <3>3, <3>4, Zenon
  <2> QED
    BY <1>5, <2>1, Zenon
<1>7. WellFormedFrom(b) = CHOOSE h : h = body(h)
  BY Zenon DEF WellFormedFrom
<1>8. WellFormedFrom(b) = body(WellFormedFrom(b))
  <2> DEFINE Solves(h) == h = body(h)
  <2>1. Solves(f)
    BY <1>6
  <2>2. WellFormedFrom(b) = CHOOSE h : Solves(h)
    BY <1>7
  <2> HIDE DEF Solves
  <2>3. Solves(WellFormedFrom(b))
    BY <2>1, <2>2, Zenon
  <2> QED
    BY <2>3 DEF Solves
<1>9. PICK p : p = WellFormedFrom(b)
  OBVIOUS
<1>10. p = body(p)
  BY <1>8, <1>9, Zenon
<1>11. p[i] = (i = Len(b) + 1 \/ (EncodedWidth(b, i) # 0 /\ p[i + EncodedWidth(b, i)]))
  BY <1>10, Zenon
<1> QED
  BY <1>9, <1>11, Zenon

\* The definition of PointsFrom as equations.
LEMMA PointsEquation ==
  ASSUME NEW b \in Seq(Int), NEW i \in 1..(Len(b) + 1)
  PROVE  /\ PointsFrom(b)[i] \in Seq(CharSet)
         /\ PointsFrom(b)[i] = IF i = Len(b) + 1 THEN <<>>
                               ELSE IF EncodedWidth(b, i) = 0 THEN <<NoChar>>
                               ELSE <<PointAt(b, i)>> \o PointsFrom(b)[i + EncodedWidth(b, i)]
<1>1. PICK stop, next, part :
        /\ EncodedParts(b, stop, next)
        /\ part = [k \in 1..(Len(b) + 1) |->
                     IF k = Len(b) + 1 THEN <<>>
                     ELSE IF EncodedWidth(b, k) = 0 THEN <<NoChar>> ELSE <<PointAt(b, k)>>]
  BY DEF EncodedParts
<1>2. /\ Len(b) + 1 \in Nat
      /\ LooksAhead(Len(b) + 1, stop, next)
      /\ \A k \in 1..(Len(b) + 1) :
           /\ stop[k] <=> k = Len(b) + 1 \/ EncodedWidth(b, k) = 0
           /\ next[k] = k + EncodedWidth(b, k)
  BY <1>1, EncodedAhead, Zenon
<1>3. part \in [1..(Len(b) + 1) -> Seq(CharSet)]
  <2>1. NoChar \in CharSet
    BY DEF NoChar, CharSet, Char
  <2>2. ASSUME NEW k \in 1..(Len(b) + 1)
        PROVE  (IF k = Len(b) + 1 THEN <<>>
                ELSE IF EncodedWidth(b, k) = 0 THEN <<NoChar>> ELSE <<PointAt(b, k)>>) \in Seq(CharSet)
    <3>1. CASE k # Len(b) + 1 /\ EncodedWidth(b, k) # 0
      <4>1. PICK n \in 1..4 : n = EncodedWidth(b, k) /\ IsCharacter(b, k, n)
        BY <3>1, EncodedWidthIs
      <4>2. CodePoint(b, k, n) \in Int
        <5>1. k \in 1..Len(b)
          BY <3>1
        <5>2. CodePoint(b, k, n) \in Nat
          BY <4>1, <5>1, CodePointType, Zenon
        <5> QED
          BY <5>2
      <4>3. PointAt(b, k) = Char(CodePoint(b, k, n), style.ascii /\ n > 1)
        BY <4>1 DEF PointAt
      <4>4. (style.ascii /\ n > 1) \in BOOLEAN
        OBVIOUS
      <4>5. PointAt(b, k) \in CharSet
        BY <4>2, <4>3, <4>4 DEF CharSet, Char
      <4> QED
        BY <3>1, <4>5
    <3>2. CASE k = Len(b) + 1 \/ EncodedWidth(b, k) = 0
      BY <2>1, <3>2
    <3> QED
      BY <3>1, <3>2
  <2> QED
    BY <1>1, <2>2
<1>4. PICK f : IsChunks(f, 1, Len(b) + 1, CharSet, stop, part, next)
  BY <1>2, <1>3, ChunksExist DEF LooksAhead
<1> DEFINE body(h) ==
      [k \in 1..(Len(b) + 1) |->
         IF k = Len(b) + 1 THEN <<>>
         ELSE IF EncodedWidth(b, k) = 0 THEN <<NoChar>>
         ELSE <<PointAt(b, k)>> \o h[k + EncodedWidth(b, k)]]
<1>5. \A k \in 1..(Len(b) + 1) : \A rest :
        (IF stop[k] THEN part[k] ELSE part[k] \o rest[next[k]])
          = IF k = Len(b) + 1 THEN <<>>
            ELSE IF EncodedWidth(b, k) = 0 THEN <<NoChar>>
            ELSE <<PointAt(b, k)>> \o rest[k + EncodedWidth(b, k)]
  <2>1. \A k \in 1..(Len(b) + 1) :
          part[k] = IF k = Len(b) + 1 THEN <<>>
                    ELSE IF EncodedWidth(b, k) = 0 THEN <<NoChar>> ELSE <<PointAt(b, k)>>
    BY <1>1, Zenon
  <2> QED
    BY <1>2, <2>1, Zenon
<1>6. f = body(f)
  <2>1. f = [k \in 1..(Len(b) + 1) |-> f[k]]
    BY <1>4 DEF IsChunks
  <2>2. \A k \in 1..(Len(b) + 1) : f[k] = IF stop[k] THEN part[k] ELSE part[k] \o f[next[k]]
    BY <1>4, Zenon DEF IsChunks
  <2>3. \A k \in 1..(Len(b) + 1) :
          f[k] = IF k = Len(b) + 1 THEN <<>>
                 ELSE IF EncodedWidth(b, k) = 0 THEN <<NoChar>>
                 ELSE <<PointAt(b, k)>> \o f[k + EncodedWidth(b, k)]
    BY <1>5, <2>2, Zenon
  <2> QED
    BY <2>1, <2>3, Zenon
<1>7. PointsFrom(b) = CHOOSE h : h = body(h)
  BY Zenon DEF PointsFrom
<1>8. PointsFrom(b) = body(PointsFrom(b))
  BY <1>6, <1>7, Zenon
<1>9. PICK p : p = PointsFrom(b)
  OBVIOUS
<1>10. p = body(p)
  BY <1>8, <1>9, Zenon
<1>11. \A k \in 1..(Len(b) + 1) :
         p[k] = IF k = Len(b) + 1 THEN <<>>
                ELSE IF EncodedWidth(b, k) = 0 THEN <<NoChar>>
                ELSE <<PointAt(b, k)>> \o p[k + EncodedWidth(b, k)]
  BY <1>10, Zenon
<1>12. Chunked(p, Len(b) + 1, stop, part, next)
  <2>1. \A k \in 1..(Len(b) + 1) : p[k] = IF stop[k] THEN part[k] ELSE part[k] \o p[next[k]]
    BY <1>5, <1>11, Zenon
  <2> QED
    BY <2>1, Zenon DEF Chunked
<1>13. \A k \in 1..(Len(b) + 1) : p[k] = f[k] /\ p[k] \in Seq(CharSet)
  BY <1>2, <1>4, <1>12, ChunksAgree, Zenon
<1> QED
  BY <1>9, <1>11, <1>13, Zenon

-----------------------------------------------------------------------------
(* What Buffer_EscapeString takes for a sequence. *)

\* The bytes behind the lead.
HasTail(n) == io + n - 1 <= Len(source) /\ \A i \in 1..(n - 1) : source[io + i] \in 128..191

\* The bytes of a sequence of n, and its bits put together.
TailBytes(n) ==
  /\ \A b \in {Octet, source[io + 1]} : b \in Int
  /\ 128 <= source[io + 1] /\ source[io + 1] <= 191
  /\ n > 2 => source[io + 2] \in Int /\ 128 <= source[io + 2] /\ source[io + 2] <= 191
  /\ n > 3 => source[io + 3] \in Int /\ 128 <= source[io + 3] /\ source[io + 3] <= 191

\* The string is numbers, and the next byte is one of it.
LEMMA SourceInts ==
  ASSUME WriterInv
  PROVE  /\ source \in Seq(Int) /\ Len(source) \in Nat /\ io \in Nat /\ io >= 1
         /\ \A k \in 1..Len(source) : source[k] \in Nat /\ source[k] <= 255 /\ source[k] \in Octets
<1>1. source \in Seq(Octets) /\ io \in Nat \ {0}
  BY DEF WriterInv, WriterTypeOK
<1>2. Octets \subseteq Int
  BY DEF Octets
<1>3. source \in Seq(Int)
  <2>1. source \in [1..Len(source) -> Octets] /\ Len(source) \in Nat
    BY <1>1
  <2>2. source \in [1..Len(source) -> Int]
    BY <1>2, <2>1
  <2> QED
    BY <2>1, <2>2
<1>4. \A k \in 1..Len(source) : source[k] \in Octets
  BY <1>1
<1> QED
  BY <1>1, <1>3, <1>4, OctetBound

\* The bytes behind a lead byte, if they are a tail.
LEMMA TailRanges ==
  ASSUME WriterInv, io <= Len(source), NEW n \in 2..4, HasTail(n)
  PROVE  TailBytes(n)
<1>1. io \in 1..Len(source) /\ io \in Nat /\ Len(source) \in Nat
  BY SourceInts
<1>2. \A k \in 1..Len(source) : source[k] \in Int
  BY SourceInts
<1>3. \A i \in 1..(n - 1) : source[io + i] \in Int /\ 128 <= source[io + i] /\ source[io + i] <= 191
  <2>1. \A b \in 128..191 : b \in Int /\ 128 <= b /\ b <= 191
    OBVIOUS
  <2> QED
    BY <2>1, Zenon DEF HasTail
<1>4. 1 \in 1..(n - 1) /\ (n > 2 => 2 \in 1..(n - 1)) /\ (n > 3 => 3 \in 1..(n - 1))
  OBVIOUS
<1>5. Octet \in Int
  BY <1>1, <1>2 DEF Octet
<1> QED
  BY <1>3, <1>4, <1>5, Zenon DEF TailBytes

\* A character has them.
LEMMA CharacterTail ==
  ASSUME WriterInv, io <= Len(source), NEW n \in 2..4
  PROVE  IsCharacter(source, io, n) <=>
           HasTail(n) /\ Octet \in FirstBytes(n) /\ source[io + 1] \in SecondBytes(Octet)
<1>1. io \in 1..Len(source) /\ io \in Nat /\ source \in Seq(Int)
  BY SourceInts
<1>2. n > 1 /\ n \in 1..4
  OBVIOUS
<1>3. ASSUME IsCharacter(source, io, n)
      PROVE  HasTail(n)
  <2>1. CharacterRanges(source, io, n)
    BY <1>1, <1>2, <1>3, CharacterBytes, Zenon
  <2>2. ASSUME NEW i \in 1..(n - 1) PROVE source[io + i] \in 128..191
    <3>1. i \in 0..(n - 1) /\ (i = 1 \/ i \in 2..(n - 1))
      OBVIOUS
    <3>2. source[io + i] \in Int
      BY <2>1, <3>1, Zenon DEF CharacterRanges
    <3>3. 128 <= source[io + i] /\ source[io + i] <= 191
      <4>1. CASE i = 1
        BY <1>2, <2>1, <4>1, Zenon DEF CharacterRanges
      <4>2. CASE i \in 2..(n - 1)
        BY <2>1, <4>2 DEF CharacterRanges
      <4> QED
        BY <3>1, <4>1, <4>2
    <3>4. \A x \in Int : 128 <= x /\ x <= 191 => x \in 128..191
      OBVIOUS
    <3> QED
      BY <3>2, <3>3, <3>4, Zenon
  <2>3. io + n - 1 <= Len(source)
    BY <1>3, Zenon DEF IsCharacter
  <2> QED
    BY <2>2, <2>3, Zenon DEF HasTail
<1>4. ASSUME HasTail(n) PROVE \A j \in 2..(n - 1) : source[io + j] \in 128..191
  <2>1. \A j \in 2..(n - 1) : j \in 1..(n - 1)
    OBVIOUS
  <2> QED
    BY <1>4, <2>1, Zenon DEF HasTail
<1>5. HasTail(n) => io + n - 1 <= Len(source)
  BY Zenon DEF HasTail
<1> QED
  BY <1>2, <1>3, <1>4, <1>5, Zenon DEF IsCharacter, Octet

\* The bits of a lead of four, also above the last of Unicode.
LEMMA LeadBits ==
  /\ \A b \in Int : 240 <= b /\ b <= 247 => b % 8 = b - 240
  /\ \A a \in Int, b \in Int, c \in Int, d \in Int :
       a >= 245 /\ b >= 128 /\ c >= 128 /\ d >= 128 => ~(Value4(a, b, c, d) <= MaxCodePoint)
<1>1. \A b \in Int : 240 <= b /\ b <= 247 => b % 8 = b - 240
  BY SMT
<1>2. PICK m \in Int : m = MaxCodePoint /\ m < 65536 + 1048576
  BY Bounds
<1>3. ASSUME NEW a \in Int, NEW b \in Int, NEW c \in Int, NEW d \in Int,
             a >= 245, b >= 128, c >= 128, d >= 128
      PROVE  ~(Value4(a, b, c, d) <= m)
  BY <1>2, <1>3, SMT DEF Value4
<1> QED
  BY <1>1, <1>2, <1>3

\* The bits of a sequence are its code point, and they are in the range of its
\* length exactly for the first and second bytes of a character.
Fits2(a, b) ==
  /\ (a % 32) * 64 + (b % 64) = Value2(a, b)
  /\ Value2(a, b) \in 128..MaxCodePoint <=> a \in FirstBytes(2) /\ b \in SecondBytes(a)
Fits3(a, b, c) ==
  /\ (a % 16) * 4096 + (b % 64) * 64 + (c % 64) = Value3(a, b, c)
  /\ Value3(a, b, c) \in 2048..MaxCodePoint <=> a \in FirstBytes(3) /\ b \in SecondBytes(a)
Fits4(a, b, c, d) ==
  /\ (a % 8) * 262144 + (b % 64) * 4096 + (c % 64) * 64 + (d % 64) = Value4(a, b, c, d)
  /\ Value4(a, b, c, d) \in 65536..MaxCodePoint <=> a \in FirstBytes(4) /\ b \in SecondBytes(a)

\* What the masks and shifts of two bytes compute ...
LEMMA Bits2 ==
  ASSUME NEW a \in Int, 192 <= a, a <= 223, NEW b \in Int, 128 <= b, b <= 191
  PROVE  Fits2(a, b)
<1>1. a % 32 = a - 192 /\ b % 64 = b - 128
  BY ByteBits
<1>2. PICK s \in Int : s = Value2(a, b) /\ s = (a - 192) * 64 + (b - 128)
  BY DEF Value2
<1>3. a \in FirstBytes(2) <=> 194 <= a
  <2>1. FirstBytes(2) = 194..223
    BY DEF FirstBytes
  <2> QED
    BY <2>1
<1>4. s \in 128..MaxCodePoint <=> 194 <= a
  BY <1>2, Range2
<1>5. b \in SecondBytes(a)
  BY SecondRange
<1>6. (a % 32) * 64 + (b % 64) = s
  BY <1>1, <1>2
<1> QED
  BY <1>2, <1>3, <1>4, <1>5, <1>6, SMT DEF Fits2

\* ... of three ...
LEMMA Bits3 ==
  ASSUME NEW a \in Int, 224 <= a, a <= 239, NEW b \in Int, 128 <= b, b <= 191,
         NEW c \in Int, 128 <= c, c <= 191
  PROVE  Fits3(a, b, c)
<1>1. a % 16 = a - 224 /\ b % 64 = b - 128 /\ c % 64 = c - 128
  BY ByteBits
<1>2. Value3(a, b, c) = ((a - 224) * 64 + (b - 128)) * 64 + (c - 128)
  BY DEF Value3
<1>3. a \in FirstBytes(3)
  <2>1. FirstBytes(3) = 224..239
    BY DEF FirstBytes
  <2> QED
    BY <2>1
<1>4. Value3(a, b, c) \in 2048..MaxCodePoint <=> (a = 224 => 160 <= b)
  BY Range3, SMT
<1>5. b \in SecondBytes(a) <=> (a = 224 => 160 <= b)
  BY SecondRange
<1>6. (a % 16) * 4096 + (b % 64) * 64 + (c % 64) = Value3(a, b, c)
  BY <1>1, <1>2
<1> QED
  BY <1>3, <1>4, <1>5, <1>6, SMT DEF Fits3

\* ... and of four.
LEMMA Bits4 ==
  ASSUME NEW a \in Int, 240 <= a, a <= 247, NEW b \in Int, 128 <= b, b <= 191,
         NEW c \in Int, 128 <= c, c <= 191, NEW d \in Int, 128 <= d, d <= 191
  PROVE  Fits4(a, b, c, d)
<1>1. a % 8 = a - 240 /\ b % 64 = b - 128 /\ c % 64 = c - 128 /\ d % 64 = d - 128
  BY ByteBits, LeadBits
<1>2. Value4(a, b, c, d) = (((a - 240) * 64 + (b - 128)) * 64 + (c - 128)) * 64 + (d - 128)
  BY DEF Value4
<1>3. a \in FirstBytes(4) <=> a <= 244
  <2>1. FirstBytes(4) = 240..244
    BY DEF FirstBytes
  <2> QED
    BY <2>1
<1>4. CASE a <= 244
  <2>1. Value4(a, b, c, d) \in 65536..MaxCodePoint <=> (a = 240 => 144 <= b) /\ (a = 244 => b <= 143)
    BY <1>4, Range4, SMT
  <2>2. b \in SecondBytes(a) <=> (a = 240 => 144 <= b) /\ (a = 244 => b <= 143)
    BY SecondRange
  <2> QED
    BY <1>1, <1>2, <1>3, <1>4, <2>1, <2>2, SMT DEF Fits4
<1>5. CASE a >= 245
  <2>1. ~(Value4(a, b, c, d) <= MaxCodePoint)
    BY <1>5, LeadBits, SMT
  <2>2. PICK m \in Int : m = MaxCodePoint
    BY Bounds, SMT
  <2>3. Value4(a, b, c, d) \notin 65536..MaxCodePoint
    BY <2>1, <2>2, SMT
  <2> QED
    BY <1>1, <1>2, <1>3, <1>5, <2>3, SMT DEF Fits4
<1> QED
  BY <1>4, <1>5

\* So are those of the sequence read.
UcsIs(n) ==
  /\ Ucs(n) \in Least(n)..MaxCodePoint <=>
       Octet \in FirstBytes(n) /\ source[io + 1] \in SecondBytes(Octet)
  /\ Ucs(n) = CodePoint(source, io, n)

\* What the writer decodes from two bytes ...
LEMMA Ucs2 ==
  ASSUME WriterInv, io <= Len(source), Octet \in LeadsOf(2), HasTail(2)
  PROVE  UcsIs(2)
<1>1. TailBytes(2)
  BY TailRanges
<1>2. PICK a \in Int, b \in Int : /\ a = Octet /\ b = source[io + 1] /\ 128 <= b /\ b <= 191
  BY <1>1 DEF TailBytes
<1>3. 192 <= a /\ a <= 223
  <2>1. LeadsOf(2) = 192..223
    BY DEF LeadsOf
  <2>2. a \in 192..223
    BY <1>2, <2>1
  <2> QED
    BY <2>2
<1>4. Ucs(2) = (a % 32) * 64 + (b % 64)
  BY <1>2 DEF Ucs
<1>5. CodePoint(source, io, 2) = Value2(a, b)
  <2>1. CodePoint(source, io, 2) = Value2(source[io], source[io + 1])
    BY CodePointIs, Zenon
  <2> QED
    BY <1>2, <2>1, Zenon DEF Octet
<1>6. Least(2) = 128
  BY DEF Least
<1>7. Fits2(a, b)
  BY <1>2, <1>3, Bits2, Zenon
<1> QED
  BY <1>2, <1>4, <1>5, <1>6, <1>7, SMT DEF UcsIs, Fits2

\* ... from three ...
LEMMA Ucs3 ==
  ASSUME WriterInv, io <= Len(source), Octet \in LeadsOf(3), HasTail(3)
  PROVE  UcsIs(3)
<1>1. TailBytes(3)
  BY TailRanges
<1>2. PICK a \in Int, b \in Int, c \in Int :
        /\ a = Octet /\ b = source[io + 1] /\ 128 <= b /\ b <= 191
        /\ c = source[io + 2] /\ 128 <= c /\ c <= 191
  BY <1>1 DEF TailBytes
<1>3. 224 <= a /\ a <= 239
  <2>1. LeadsOf(3) = 224..239
    BY DEF LeadsOf
  <2>2. a \in 224..239
    BY <1>2, <2>1
  <2> QED
    BY <2>2
<1>4. Ucs(3) = (a % 16) * 4096 + (b % 64) * 64 + (c % 64)
  BY <1>2 DEF Ucs
<1>5. CodePoint(source, io, 3) = Value3(a, b, c)
  <2>1. CodePoint(source, io, 3) = Value3(source[io], source[io + 1], source[io + 2])
    BY CodePointIs, Zenon
  <2> QED
    BY <1>2, <2>1, Zenon DEF Octet
<1>6. Least(3) = 2048
  BY DEF Least
<1>7. Fits3(a, b, c)
  BY <1>2, <1>3, Bits3, Zenon
<1> QED
  BY <1>2, <1>4, <1>5, <1>6, <1>7, SMT DEF UcsIs, Fits3

\* ... and from four.
LEMMA Ucs4 ==
  ASSUME WriterInv, io <= Len(source), Octet \in LeadsOf(4), HasTail(4)
  PROVE  UcsIs(4)
<1>1. TailBytes(4)
  BY TailRanges
<1>2. PICK a \in Int, b \in Int, c \in Int, d \in Int :
        /\ a = Octet /\ b = source[io + 1] /\ 128 <= b /\ b <= 191
        /\ c = source[io + 2] /\ 128 <= c /\ c <= 191
        /\ d = source[io + 3] /\ 128 <= d /\ d <= 191
  BY <1>1, SMTT(30) DEF TailBytes
<1>3. 240 <= a /\ a <= 247
  <2>1. LeadsOf(4) = 240..247
    BY DEF LeadsOf
  <2>2. a \in 240..247
    BY <1>2, <2>1
  <2> QED
    BY <2>2
<1>4. Ucs(4) = (a % 8) * 262144 + (b % 64) * 4096 + (c % 64) * 64 + (d % 64)
  BY <1>2, SMT DEF Ucs
<1>5. CodePoint(source, io, 4) = Value4(a, b, c, d)
  <2>1. CodePoint(source, io, 4) = Value4(source[io], source[io + 1], source[io + 2], source[io + 3])
    BY CodePointIs, Zenon
  <2> QED
    BY <1>2, <2>1, Zenon DEF Octet
<1>6. Least(4) = 65536
  BY SMT DEF Least
<1>7. Fits4(a, b, c, d)
  BY <1>2, <1>3, Bits4, Zenon
<1> QED
  BY <1>2, <1>4, <1>5, <1>6, <1>7, SMT DEF UcsIs, Fits4

\* What Buffer_EscapeString accepts as a sequence is a character in UTF-8, and
\* it computes its code point.
LEMMA AcceptedIsCharacter ==
  ASSUME WriterInv, io <= Len(source), NEW n \in 2..4, Octet \in LeadsOf(n)
  PROVE  /\ Accepted(n) <=> IsCharacter(source, io, n)
         /\ Accepted(n) => Ucs(n) = CodePoint(source, io, n) /\ Ucs(n) \in Nat /\ Ucs(n) <= MaxCodePoint
<1>1. Accepted(n) <=> HasTail(n) /\ Ucs(n) \in Least(n)..MaxCodePoint
  BY Zenon DEF Accepted, HasTail
<1>2. ASSUME HasTail(n) PROVE UcsIs(n)
  <2>1. n = 2 \/ n = 3 \/ n = 4
    OBVIOUS
  <2> QED
    BY <1>2, <2>1, Ucs2, Ucs3, Ucs4, Zenon
<1>3. IsCharacter(source, io, n) <=>
        HasTail(n) /\ Octet \in FirstBytes(n) /\ source[io + 1] \in SecondBytes(Octet)
  BY CharacterTail, Zenon
<1>4. \A s : s \in Least(n)..MaxCodePoint => s \in Nat /\ s <= MaxCodePoint
  <2>1. PICK m \in Int : m = MaxCodePoint
    BY Bounds, SMT
  <2>2. PICK l \in Nat : l = Least(n)
    <3>1. n = 2 \/ n = 3 \/ n = 4
      OBVIOUS
    <3>2. Least(2) \in Nat /\ Least(3) \in Nat /\ Least(4) \in Nat
      BY SMT DEF Least
    <3> QED
      BY <3>1, <3>2, Zenon
  <2> QED
    BY <2>1, <2>2
<1> QED
  BY <1>1, <1>2, <1>3, <1>4, Zenon DEF UcsIs

-----------------------------------------------------------------------------
(* What decode_string makes of what Buffer_EscapeString has written. *)

\* The sequence w stands in t at i.
StandsAt(t, i, w) == i + Len(w) - 1 <= Len(t) /\ \A k \in 1..Len(w) : t[i + k - 1] = w[k]

\* The character c of n bytes stands in t at i.
ReadsAt(t, i, n, c) == t[i] # 34 /\ Width(t, i) = n /\ CharAt(t, i) = c

\* The digits of a number below 16.
LEMMA HexInverse ==
  ASSUME NEW v \in Nat, v <= 15
  PROVE  HexDigit(v) \in HexDigits /\ Hex(HexDigit(v)) = v
<1>1. CASE v < 10
  <2>1. HexDigit(v) = 48 + v
    BY <1>1 DEF HexDigit
  <2> QED
    BY <1>1, <2>1, SMT DEF HexDigits, Hex
<1>2. CASE v >= 10
  <2>1. HexDigit(v) = 87 + v
    BY <1>2, SMT DEF HexDigit
  <2> QED
    BY <1>2, <2>1, SMT DEF HexDigits, Hex
<1> QED
  BY <1>1, <1>2

\* A code unit is put together from its digits.
LEMMA DigitsOfUnit ==
  ASSUME NEW u \in Nat
  PROVE  (((u \div 4096) * 16 + ((u \div 256) % 16)) * 16 + ((u \div 16) % 16)) * 16 + (u % 16) = u
<1>1. PICK p \in Nat, q \in Nat, r \in Nat : p = u \div 16 /\ q = p \div 16 /\ r = q \div 16
  OBVIOUS
<1>2. u \div 256 = q /\ u \div 4096 = r
  BY <1>1, SMT
<1>3. u = p * 16 + (u % 16) /\ p = q * 16 + (p % 16) /\ q = r * 16 + (q % 16)
  BY <1>1, SMT
<1> QED
  BY <1>1, <1>2, <1>3, SMT

\* The escape of a code unit reads as that unit, escaped.
LEMMA UnitReads ==
  ASSUME NEW t, IsText(t), NEW i \in 1..Len(t), NEW u \in Nat, u <= MaxCodeUnit,
         StandsAt(t, i, Unit(u)), i + 6 <= Len(t)
  PROVE  ReadsAt(t, i, 6, Char(u, TRUE))
<1>0. Len(t) \in Nat /\ i \in Nat
  BY DEF IsText
<1>1. PICK a, b, c, d : a = u \div 4096 /\ b = (u \div 256) % 16 /\ c = (u \div 16) % 16 /\ d = u % 16
  OBVIOUS
<1>2. /\ a \in Nat /\ a <= 15 /\ b \in Nat /\ b <= 15
      /\ c \in Nat /\ c <= 15 /\ d \in Nat /\ d <= 15
  BY <1>1, Bounds, SMT
<1>3. PICK w : w = Unit(u)
  OBVIOUS
<1>4. w = <<92, 117, HexDigit(a), HexDigit(b), HexDigit(c), HexDigit(d)>>
  BY <1>1, <1>3 DEF Unit
<1>5. /\ Len(w) = 6 /\ w[1] = 92 /\ w[2] = 117 /\ w[3] = HexDigit(a) /\ w[4] = HexDigit(b)
      /\ w[5] = HexDigit(c) /\ w[6] = HexDigit(d)
  BY <1>4
<1>6. \A k \in 1..6 : t[i + k - 1] = w[k]
  BY <1>3, <1>5 DEF StandsAt
<1>7. /\ t[i] = 92 /\ t[i + 1] = 117 /\ t[i + 2] = HexDigit(a) /\ t[i + 3] = HexDigit(b)
      /\ t[i + 4] = HexDigit(c) /\ t[i + 5] = HexDigit(d)
  <2>1. i + 1 - 1 = i /\ i + 2 - 1 = i + 1 /\ i + 3 - 1 = i + 2 /\ i + 4 - 1 = i + 3
        /\ i + 5 - 1 = i + 4 /\ i + 6 - 1 = i + 5
    BY <1>0
  <2> QED
    BY <1>5, <1>6, <2>1
<1>8. /\ HexDigit(a) \in HexDigits /\ HexDigit(b) \in HexDigits
      /\ HexDigit(c) \in HexDigits /\ HexDigit(d) \in HexDigits
      /\ Hex(HexDigit(a)) = a /\ Hex(HexDigit(b)) = b /\ Hex(HexDigit(c)) = c /\ Hex(HexDigit(d)) = d
  BY <1>2, HexInverse
<1>9. IsUnit(t, i)
  <2>1. \A j \in 2..5 : j = 2 \/ j = 3 \/ j = 4 \/ j = 5
    OBVIOUS
  <2>2. \A j \in 2..5 : t[i + j] \in HexDigits
    BY <1>7, <1>8, <2>1
  <2>3. i + 5 < Len(t)
    BY <1>0
  <2> QED
    BY <2>2, <2>3, Zenon DEF IsUnit
<1>10. UnitAt(t, i) = u
  <2>1. UnitAt(t, i) = ((a * 16 + b) * 16 + c) * 16 + d
    <3>1. /\ Hex(t[i + 2]) = a /\ Hex(t[i + 3]) = b /\ Hex(t[i + 4]) = c /\ Hex(t[i + 5]) = d
      BY <1>7, <1>8
    <3> QED
      BY <3>1, Zenon DEF UnitAt
  <2> QED
    BY <1>1, <2>1, DigitsOfUnit
<1> QED
  BY <1>7, <1>9, <1>10 DEF Width, CharAt, ReadsAt

\* A byte that is a character of its own, written as it is or as an escape.
LEMMA OneByteReads ==
  ASSUME NEW t, IsText(t), NEW i \in 1..Len(t), NEW b \in Octets, b < 128,
         StandsAt(t, i, OneByte(b)), i + Len(OneByte(b)) <= Len(t)
  PROVE  \E escaped \in BOOLEAN : ReadsAt(t, i, Len(OneByte(b)), Char(b, escaped))
<1>0. Len(t) \in Nat /\ i \in Nat /\ b \in Nat /\ b <= MaxCodeUnit
  BY OctetBound, Bounds DEF IsText
<1>1. ASSUME NEW x \in Letters, x # 117, OneByte(b) = <<92, x>>, Escape(x) = b
      PROVE  ReadsAt(t, i, Len(OneByte(b)), Char(b, FALSE))
  <2>1. Len(OneByte(b)) = 2 /\ OneByte(b)[1] = 92 /\ OneByte(b)[2] = x
    BY <1>1
  <2>2. t[i + 1 - 1] = 92 /\ t[i + 2 - 1] = x
    BY <2>1 DEF StandsAt
  <2>3. t[i] = 92 /\ t[i + 1] = x
    BY <1>0, <2>2
  <2> QED
    BY <1>1, <2>1, <2>3 DEF Width, CharAt, ReadsAt
<1>2. CASE b \in HasLetter
  <2>1. OneByte(b) = <<92, Letter(b)>>
    BY <1>2, Zenon DEF OneByte
  <2>2. Letter(b) \in Letters /\ Letter(b) # 117 /\ Escape(Letter(b)) = b
    BY <1>2, SMT DEF HasLetter, Letter, Letters, Escape
  <2> QED
    BY <1>1, <2>1, <2>2
<1>3. CASE b \notin HasLetter /\ IsSlash(b)
  <2>1. OneByte(b) = <<92, 47>> /\ b = 47
    BY <1>3 DEF OneByte, IsSlash
  <2>2. 47 \in Letters /\ 47 # 117 /\ Escape(47) = 47
    BY SMT DEF Letters, Escape
  <2> QED
    BY <1>1, <2>1, <2>2, ZenonT(60)
<1>4. CASE b \notin HasLetter /\ ~IsSlash(b) /\ (b < 32 \/ IsHTML(b))
  <2>1. OneByte(b) = Unit(b)
    BY <1>4, Zenon DEF OneByte
  <2>2. Len(Unit(b)) = 6
    BY <1>0, UnitType
  <2>3. ReadsAt(t, i, 6, Char(b, TRUE))
    BY <1>0, <2>1, <2>2, UnitReads
  <2> QED
    BY <2>1, <2>2, <2>3
<1>5. CASE b \notin HasLetter /\ ~IsSlash(b) /\ ~(b < 32 \/ IsHTML(b))
  <2>1. OneByte(b) = <<b>>
    BY <1>5, Zenon DEF OneByte
  <2>2. b # 34 /\ b # 92 /\ b # 0
    BY <1>0, <1>5 DEF HasLetter
  <2>3. t[i] = b
    <3>1. Len(OneByte(b)) = 1 /\ OneByte(b)[1] = b
      BY <2>1
    <3>2. t[i + 1 - 1] = b
      BY <3>1 DEF StandsAt
    <3> QED
      BY <1>0, <3>2
  <2>4. IsCharacter(t, i, 1)
    <3>1. FirstBytes(1) = 0..127
      BY DEF FirstBytes
    <3>2. i + 1 - 1 <= Len(t) /\ ~(1 > 1) /\ 2..(1 - 1) = {}
      BY <1>0
    <3>3. t[i] \in FirstBytes(1)
      <4>1. b \in 0..127
        BY <1>0
      <4> QED
        BY <2>3, <3>1, <4>1, Zenon
    <3> QED
      BY <3>2, <3>3 DEF IsCharacter
  <2>5. Width(t, i) = 1
    BY <2>2, <2>3, <2>4, WidthIs
  <2>6. CharAt(t, i) = Char(b, FALSE)
    <3>1. CodePoint(t, i, 1) = b
      BY <2>3, CodePointIs, Zenon
    <3> QED
      BY <2>2, <2>3, <2>5, <3>1, ZenonT(60) DEF CharAt
  <2> QED
    BY <2>1, <2>2, <2>3, <2>5, <2>6 DEF ReadsAt
<1> QED
  BY <1>2, <1>3, <1>4, <1>5, Zenon

\* A character written as an escape, or as two.
LEMMA EscapedOnce ==
  ASSUME NEW t, IsText(t), NEW i \in 1..Len(t), NEW u \in Nat, u <= MaxCodeUnit,
         StandsAt(t, i, Escaped(u)), i + Len(Escaped(u)) <= Len(t)
  PROVE  Len(Escaped(u)) = 6 /\ ReadsAt(t, i, 6, Char(u, TRUE))
<1>1. Escaped(u) = Unit(u)
  BY Bounds, SMT DEF Escaped
<1>2. Len(Unit(u)) = 6
  BY UnitType
<1>3. StandsAt(t, i, Unit(u)) /\ i + 6 <= Len(t)
  BY <1>1, <1>2, Zenon
<1>4. ReadsAt(t, i, 6, Char(u, TRUE))
  BY <1>3, UnitReads
<1> QED
  BY <1>1, <1>2, <1>4, Zenon

\* Two surrogates, and the character they stand for.
IsSplit(u, high, low) == high \in HighSurrogates /\ low \in LowSurrogates /\ u = PairCode(high, low)

\* Where two parts stand, one behind the other, each stands.
LEMMA BothStand ==
  ASSUME NEW t, Len(t) \in Nat, NEW i \in Nat, NEW h \in Seq(Octets), NEW l \in Seq(Octets),
         StandsAt(t, i, h \o l)
  PROVE  /\ StandsAt(t, i, h) /\ StandsAt(t, i + Len(h), l)
         /\ Len(h \o l) = Len(h) + Len(l)
<1>1. Len(h \o l) = Len(h) + Len(l) /\ Len(h) \in Nat /\ Len(l) \in Nat
  OBVIOUS
<1>2. PICK s : s = h \o l
  OBVIOUS
<1>3. i + Len(s) - 1 <= Len(t) /\ \A k \in 1..Len(s) : t[i + k - 1] = s[k]
  BY <1>2 DEF StandsAt
<1>4. ASSUME NEW k \in 1..Len(h) PROVE t[i + k - 1] = h[k]
  BY <1>2, <1>3, FirstOfBoth
<1>5. ASSUME NEW k \in 1..Len(l) PROVE t[(i + Len(h)) + k - 1] = l[k]
  <2>1. s[Len(h) + k] = l[k] /\ Len(h) + k \in 1..Len(s)
    BY <1>2, SecondOfBoth
  <2>2. i + (Len(h) + k) - 1 = (i + Len(h)) + k - 1
    BY <1>1
  <2> QED
    BY <1>3, <2>1, <2>2
<1>6. i + Len(h) - 1 <= Len(t) /\ (i + Len(h)) + Len(l) - 1 <= Len(t)
  BY <1>1, <1>2, <1>3
<1> QED
  BY <1>1, <1>4, <1>5, <1>6 DEF StandsAt

\* The escape of a character above the code units reads as its two surrogates.
LEMMA EscapedTwice ==
  ASSUME NEW t, IsText(t), NEW i \in 1..Len(t), NEW u \in Nat, u > MaxCodeUnit, u <= MaxCodePoint,
         StandsAt(t, i, Escaped(u)), i + Len(Escaped(u)) <= Len(t)
  PROVE  \E high, low : /\ IsSplit(u, high, low) /\ Len(Escaped(u)) = 12
                        /\ ReadsAt(t, i, 6, Char(high, TRUE))
                        /\ ReadsAt(t, i + 6, 6, Char(low, TRUE))
<1>0. Len(t) \in Nat /\ i \in Nat
  BY DEF IsText
<1>1. PICK high, low : /\ high = HighStart + ((u - 65536) \div 1024)
                       /\ low = LowStart + ((u - 65536) % 1024)
  OBVIOUS
<1>2. /\ high \in Nat /\ high <= MaxCodeUnit /\ high \in HighSurrogates
      /\ low \in Nat /\ low <= MaxCodeUnit /\ low \in LowSurrogates
      /\ u = PairCode(high, low)
  <2>1. PICK q \in Nat, r \in Nat : /\ q = (u - 65536) \div 1024 /\ r = (u - 65536) % 1024
                                    /\ u - 65536 = q * 1024 + r /\ r < 1024
    BY Bounds, SMT
  <2>2. q < 1024
    BY <2>1, Bounds
  <2>3. high = 55296 + q /\ low = 56320 + r
    BY <1>1, <2>1 DEF HighStart, LowStart
  <2>4. high \in HighSurrogates /\ low \in LowSurrogates
    <3>1. high \in 55296..(56320 - 1) /\ low \in 56320..57343
      BY <2>1, <2>2, <2>3, SMT
    <3> QED
      BY <3>1 DEF HighSurrogates, LowSurrogates, HighStart, LowStart, LowEnd
  <2>5. high % 1024 = q /\ low % 1024 = r
    BY <2>1, <2>2, <2>3, SMT
  <2>6. u = 65536 + 1024 * q + r
    BY <2>1
  <2>7. u = PairCode(high, low)
    BY <2>5, <2>6 DEF PairCode
  <2>8. high <= MaxCodeUnit /\ low <= MaxCodeUnit /\ high \in Nat /\ low \in Nat
    BY <2>1, <2>2, <2>3, Bounds
  <2> QED
    BY <2>4, <2>7, <2>8
<1>3. Escaped(u) = Unit(high) \o Unit(low)
  BY <1>1, Bounds, SMT DEF Escaped
<1>4. /\ Unit(high) \in Seq(Octets) /\ Len(Unit(high)) = 6
      /\ Unit(low) \in Seq(Octets) /\ Len(Unit(low)) = 6
  BY <1>2, UnitType, Zenon
<1>5. /\ StandsAt(t, i, Unit(high)) /\ StandsAt(t, i + 6, Unit(low))
      /\ Len(Escaped(u)) = 12
  <2>1. StandsAt(t, i, Unit(high) \o Unit(low))
    BY <1>3, Zenon
  <2> DEFINE Joined(h, l) ==
        /\ StandsAt(t, i, h) /\ StandsAt(t, i + Len(h), l)
        /\ Len(h \o l) = Len(h) + Len(l)
  <2>4. ASSUME NEW h \in Seq(Octets), NEW l \in Seq(Octets), StandsAt(t, i, h \o l)
        PROVE  Joined(h, l)
    BY <1>0, <2>4, BothStand
  <2> HIDE DEF Joined
  <2>5. Joined(Unit(high), Unit(low))
    BY <1>4, <2>1, <2>4, Zenon
  <2>2. /\ StandsAt(t, i, Unit(high)) /\ StandsAt(t, i + Len(Unit(high)), Unit(low))
        /\ Len(Unit(high) \o Unit(low)) = Len(Unit(high)) + Len(Unit(low))
    BY <2>5 DEF Joined
  <2>3. 6 + 6 = 12
    OBVIOUS
  <2> QED
    BY <1>3, <1>4, <2>2, <2>3, Zenon
<1>9. i + 6 <= Len(t) /\ i + 6 + 6 <= Len(t) /\ i + 6 \in 1..Len(t)
  <2>1. PICK m : m = Len(Escaped(u)) /\ m = 12 /\ i + m <= Len(t)
    BY <1>5, Zenon
  <2> QED
    BY <1>0, <2>1
<1>11. ReadsAt(t, i, 6, Char(high, TRUE))
  BY <1>2, <1>5, <1>9, UnitReads, Zenon
<1>12. ReadsAt(t, i + 6, 6, Char(low, TRUE))
  BY <1>2, <1>5, <1>9, UnitReads, Zenon
<1>13. IsSplit(u, high, low) /\ Len(Escaped(u)) = 12
  BY <1>2, <1>5, Zenon DEF IsSplit
<1> QED
  BY <1>11, <1>12, <1>13, Zenon

-----------------------------------------------------------------------------
(* Where each character of the string has been written. *)

\* The next place of the string is n bytes behind i, and w, in what is written,
\* is between them.
Piece(V, e, i, n, w) == i + n \in V /\ e[i + n] = e[i] + Len(w) /\ StandsAt(of, e[i], w)

CopiedAt(V, e, i) ==
  /\ Piece(V, e, i, 1, OneByte(source[i]))
  /\ style.ascii => source[i] \notin 192..253
EscapedAt(V, e, i) ==
  /\ style.ascii
  /\ \E n \in 2..4, u \in Nat :
       /\ IsCharacter(source, i, n) /\ u = CodePoint(source, i, n) /\ u <= MaxCodePoint
       /\ Piece(V, e, i, n, Escaped(u))

\* The places the loop has been at, and for each of them how far of was then.
IsTrace(V, e) ==
  /\ V \subseteq 1..io /\ 1 \in V /\ io \in V
  /\ e \in [Nat -> Nat \ {0}] /\ e[1] = 1 /\ e[io] = Len(of) + 1
  /\ \A i \in V \ {io} : CopiedAt(V, e, i) \/ EscapedAt(V, e, i)
HasTrace == \E V, e : IsTrace(V, e)

\* What stands somewhere still does when more is written, which stands behind it.
LEMMA StandsKept ==
  ASSUME NEW s \in Seq(Octets), NEW w \in Seq(Octets), NEW x \in Seq(Octets), NEW a \in Nat \ {0},
         StandsAt(s, a, x)
  PROVE  StandsAt(s \o w, a, x)
<1>1. Len(s \o w) = Len(s) + Len(w) /\ Len(s) \in Nat /\ Len(w) \in Nat /\ Len(x) \in Nat
  OBVIOUS
<1>2. a + Len(x) - 1 <= Len(s) /\ \A k \in 1..Len(x) : s[a + k - 1] = x[k]
  BY Zenon DEF StandsAt
<1>3. ASSUME NEW k \in 1..Len(x) PROVE (s \o w)[a + k - 1] = x[k]
  <2>1. a + k - 1 \in 1..Len(s)
    BY <1>1, <1>2
  <2> QED
    BY <1>2, <2>1, FirstOfBoth
<1>4. a + Len(x) - 1 <= Len(s \o w)
  BY <1>1, <1>2
<1> QED
  BY <1>3, <1>4 DEF StandsAt

\* What has been appended stands at the end.
LEMMA StandsNew ==
  ASSUME NEW s \in Seq(Octets), NEW w \in Seq(Octets)
  PROVE  StandsAt(s \o w, Len(s) + 1, w)
<1>1. Len(s \o w) = Len(s) + Len(w) /\ Len(s) \in Nat /\ Len(w) \in Nat
  OBVIOUS
<1>2. ASSUME NEW k \in 1..Len(w) PROVE (s \o w)[(Len(s) + 1) + k - 1] = w[k]
  <2>1. (Len(s) + 1) + k - 1 = Len(s) + k
    BY <1>1
  <2> QED
    BY <2>1, SecondOfBoth
<1>3. (Len(s) + 1) + Len(w) - 1 <= Len(s \o w)
  BY <1>1
<1> QED
  BY <1>2, <1>3 DEF StandsAt

\* One more place, n bytes further.
LEMMA PutTraced ==
  ASSUME WriterInv, NEW V, NEW e, IsTrace(V, e), NEW n \in Nat \ {0}, io + n - 1 <= Len(source),
         NEW w \in Seq(Octets), Put(n, w),
         \/ n = 1 /\ w = OneByte(source[io]) /\ (style.ascii => source[io] \notin 192..253)
         \/ /\ style.ascii /\ n \in 2..4
            /\ \E u \in Nat : /\ IsCharacter(source, io, n) /\ u = CodePoint(source, io, n)
                              /\ u <= MaxCodePoint /\ w = Escaped(u)
  PROVE  HasTrace'
<1>0. /\ of \in Seq(Octets) /\ io \in Nat \ {0} /\ Len(of) \in Nat /\ Len(w) \in Nat
      /\ Len(source) \in Nat /\ \A k \in 1..Len(source) : source[k] \in Octets
  BY SourceInts DEF WriterInv, WriterTypeOK
<1>1. /\ V \subseteq 1..io /\ 1 \in V /\ io \in V
      /\ e \in [Nat -> Nat \ {0}] /\ e[1] = 1 /\ e[io] = Len(of) + 1
      /\ \A i \in V \ {io} : CopiedAt(V, e, i) \/ EscapedAt(V, e, i)
  BY DEF IsTrace
<1>2. /\ io' = io + n /\ of' = of \o w /\ source' = source /\ style' = style
  BY DEF Put
<1>3. PICK p, q, W, f : /\ p = io /\ q = Len(of) + Len(w) + 1
                        /\ W = V \union {p + n} /\ f = [e EXCEPT ![p + n] = q]
  OBVIOUS
<1>4. \A i \in V : i \in W /\ i \in Nat /\ i >= 1 /\ i <= io /\ f[i] = e[i]
  <2>1. ASSUME NEW i \in V PROVE i \in W /\ i \in Nat /\ i >= 1 /\ i <= io /\ f[i] = e[i]
    <3>1. i \in Nat /\ i >= 1 /\ i <= io /\ i # p + n
      BY <1>0, <1>1, <1>3
    <3> QED
      BY <1>1, <1>3, <3>1
  <2> QED
    BY <2>1
<1>5. f[p + n] = q /\ f \in [Nat -> Nat \ {0}]
  <2>1. p + n \in Nat /\ q \in Nat \ {0}
    BY <1>0, <1>3
  <2> QED
    BY <1>1, <1>3, <2>1
<1>6. \A u \in Nat : u <= MaxCodePoint => Escaped(u) \in Seq(Octets)
  BY EscapedType
<1>7. ASSUME NEW i \in V, NEW m, NEW x \in Seq(Octets), Piece(V, e, i, m, x)
      PROVE  Piece(W, f, i, m, x)'
  <2>1. StandsAt(of, e[i], x) /\ i + m \in V /\ e[i + m] = e[i] + Len(x)
    BY <1>7 DEF Piece
  <2>2. e[i] \in Nat \ {0}
    BY <1>1, <1>4
  <2>3. StandsAt(of \o w, e[i], x)
    BY <1>0, <2>1, <2>2, StandsKept
  <2>4. f[i] = e[i] /\ f[i + m] = e[i + m] /\ i + m \in W
    BY <1>4, <2>1
  <2>5. f[i + m] = f[i] + Len(x)
    BY <2>1, <2>4
  <2>6. StandsAt(of', f[i], x)
    BY <1>2, <2>3, <2>4
  <2> QED
    BY <2>4, <2>5, <2>6 DEF Piece
<1>8. Piece(W, f, p, n, w)'
  <2>1. StandsAt(of \o w, Len(of) + 1, w)
    BY <1>0, StandsNew
  <2>2. f[p] = Len(of) + 1 /\ p + n \in W
    BY <1>1, <1>3, <1>4
  <2>3. f[p + n] = f[p] + Len(w)
    BY <1>0, <1>3, <1>5, <2>2
  <2>4. StandsAt(of', f[p], w)
    BY <1>2, <2>1, <2>2
  <2> QED
    BY <2>2, <2>3, <2>4 DEF Piece
<1>9. ASSUME NEW i \in V, i # io PROVE (CopiedAt(W, f, i) \/ EscapedAt(W, f, i))'
  <2>1. i \in 1..Len(source)
    BY <1>0, <1>4, <1>9
  <2>2. CASE CopiedAt(V, e, i)
    <3>1. PICK x : x = OneByte(source[i])
      OBVIOUS
    <3>2. x \in Seq(Octets)
      BY <1>0, <2>1, <3>1, OneByteType
    <3>3. Piece(W, f, i, 1, x)'
      BY <1>7, <2>2, <3>1, <3>2, Zenon DEF CopiedAt
    <3>4. OneByte(source[i])' = x
      BY <1>2, <3>1, Zenon DEF OneByte, IsHTML, IsSlash
    <3>5. Piece(W, f, i, 1, OneByte(source[i]))'
      BY <3>3, <3>4, Zenon DEF Piece
    <3>6. (style.ascii => source[i] \notin 192..253)'
      BY <1>2, <2>2, Zenon DEF CopiedAt
    <3> QED
      BY <3>5, <3>6, Zenon DEF CopiedAt
  <2>3. CASE EscapedAt(V, e, i)
    <3>1. PICK m \in 2..4, u \in Nat :
            /\ IsCharacter(source, i, m) /\ u = CodePoint(source, i, m) /\ u <= MaxCodePoint
            /\ Piece(V, e, i, m, Escaped(u))
      BY <2>3, Zenon DEF EscapedAt
    <3>2. Piece(W, f, i, m, Escaped(u))'
      BY <1>6, <1>7, <3>1, Zenon
    <3>3. (IsCharacter(source, i, m) /\ u = CodePoint(source, i, m))'
      BY <1>2, <3>1, Zenon
    <3>4. style'.ascii
      BY <1>2, <2>3, Zenon DEF EscapedAt
    <3> QED
      BY <3>1, <3>2, <3>3, <3>4, Zenon DEF EscapedAt
  <2> QED
    BY <1>1, <1>9, <2>2, <2>3
<1>10. (CopiedAt(W, f, p) \/ EscapedAt(W, f, p))'
  <2>1. CASE n = 1 /\ w = OneByte(source[io]) /\ (style.ascii => source[io] \notin 192..253)
    <3>1. OneByte(source[p])' = w
      <4>1. PICK b : b = source[p]
        OBVIOUS
      <4>2. OneByte(b) = w /\ source'[p] = b
        BY <1>2, <1>3, <2>1, <4>1
      <4>3. OneByte(b)' = OneByte(b)
        BY <1>2, Zenon DEF OneByte, IsHTML, IsSlash
      <4> QED
        BY <4>2, <4>3
    <3>2. Piece(W, f, p, 1, OneByte(source[p]))'
      BY <1>8, <2>1, <3>1, ZenonT(60) DEF Piece
    <3>3. (style.ascii => source[p] \notin 192..253)'
      BY <1>2, <1>3, <2>1, Zenon
    <3> QED
      BY <3>2, <3>3, Zenon DEF CopiedAt
  <2>2. ASSUME style.ascii, n \in 2..4,
               NEW u \in Nat, IsCharacter(source, io, n), u = CodePoint(source, io, n),
               u <= MaxCodePoint, w = Escaped(u)
        PROVE  EscapedAt(W, f, p)'
    <3>1. (IsCharacter(source, p, n) /\ u = CodePoint(source, p, n))'
      BY <1>2, <1>3, <2>2, Zenon
    <3>2. Piece(W, f, p, n, Escaped(u))'
      BY <1>8, <2>2, Zenon
    <3>3. style'.ascii
      BY <1>2, <2>2, Zenon
    <3> QED
      BY <2>2, <3>1, <3>2, <3>3, Zenon DEF EscapedAt
  <2> QED
    BY <2>1, <2>2, Zenon
<1>11. io' = p + n /\ p + n \in W /\ 1 \in W /\ W \subseteq 1..(p + n) /\ f[1] = 1 /\ Len(of') + 1 = q
  <2>1. W \subseteq 1..(p + n)
    <3>1. 1..p \subseteq 1..(p + n) /\ p + n \in 1..(p + n)
      BY <1>0, <1>3
    <3>2. V \subseteq 1..p
      BY <1>1, <1>3
    <3> QED
      BY <1>3, <3>1, <3>2, Zenon
  <2>2. f[1] = 1 /\ 1 \in W
    BY <1>1, <1>4
  <2>3. Len(of') + 1 = q
    BY <1>0, <1>2, <1>3
  <2> QED
    BY <1>2, <1>3, <2>1, <2>2, <2>3
<1>12. IsTrace(W, f)'
  <2>1. \A i \in W \ {p + n} : i \in V
    BY <1>3
  <2>2. \A i \in W \ {io'} : (CopiedAt(W, f, i) \/ EscapedAt(W, f, i))'
    BY <1>3, <1>9, <1>10, <1>11, <2>1, Zenon
  <2>3. f[io'] = Len(of') + 1
    BY <1>5, <1>11
  <2> QED
    BY <1>5, <1>11, <2>2, <2>3, Zenon DEF IsTrace
<1> QED
  BY <1>12, Zenon DEF HasTrace

\* A byte below 128 is a character of its own, and only a lead starts another.
LEMMA PlainByte ==
  ASSUME NEW t \in Seq(Int), NEW i \in 1..Len(t), 0 <= t[i], t[i] < 128
  PROVE  IsCharacter(t, i, 1) /\ EncodedWidth(t, i) = 1 /\ CodePoint(t, i, 1) = t[i]
<1>1. t[i] \in 0..127
  <2>1. PICK x \in Int : x = t[i] /\ 0 <= x /\ x < 128
    OBVIOUS
  <2>2. \A b \in Int : 0 <= b /\ b < 128 => b \in 0..127
    OBVIOUS
  <2> QED
    BY <2>1, <2>2, Zenon
<1>2. IsCharacter(t, i, 1)
  <2>1. FirstBytes(1) = 0..127
    BY DEF FirstBytes
  <2>2. i + 1 - 1 <= Len(t) /\ ~(1 > 1) /\ 2..(1 - 1) = {}
    OBVIOUS
  <2> QED
    BY <1>1, <2>1, <2>2, Zenon DEF IsCharacter
<1>3. CodePoint(t, i, 1) = t[i]
  BY CodePointIs, Zenon
<1>4. 1 \in 1..4
  OBVIOUS
<1> QED
  BY <1>2, <1>3, <1>4, EncodedWidthIs, Zenon

\* A character whose first byte is above 127 has at least two bytes.
LEMMA HighByte ==
  ASSUME NEW t \in Seq(Int), NEW i \in 1..Len(t), t[i] >= 128, EncodedWidth(t, i) # 0
  PROVE  /\ EncodedWidth(t, i) \in 2..4 /\ IsCharacter(t, i, EncodedWidth(t, i))
         /\ t[i] \in 192..253
<1>1. PICK n \in 1..4 : n = EncodedWidth(t, i) /\ IsCharacter(t, i, n)
  BY EncodedWidthIs, Zenon
<1>2. CharacterRanges(t, i, n)
  BY <1>1, CharacterBytes
<1>3. PICK x \in Int : x = t[i] /\ x >= 128
  OBVIOUS
<1>4. /\ n = 1 => 0 <= x /\ x <= 127
      /\ n = 2 => 194 <= x /\ x <= 223
      /\ n = 3 => 224 <= x /\ x <= 239
      /\ n = 4 => 240 <= x /\ x <= 244
  BY <1>2, <1>3 DEF CharacterRanges
<1>5. n \in 2..4 /\ x \in 192..253
  <2>1. n = 2 \/ n = 3 \/ n = 4
    BY <1>3, <1>4
  <2>2. 192 <= x /\ x <= 253
    BY <1>3, <1>4, <2>1
  <2> QED
    BY <2>1, <2>2
<1> QED
  BY <1>1, <1>3, <1>5

\* If sequences are escaped, the string has been UTF-8 so far; it is refused if
\* it is not, and otherwise read to the end.
Refuses ==
  /\ style.ascii /\ WellFormedUTF8(source) => WellFormedFrom(source)[io]
  /\ verdict = "TRUE" => io = Len(source) + 1
  /\ verdict = "FALSE" => ~WellFormedUTF8(source)

\* The place behind a character is followed by characters if that is.
LEMMA BehindCharacter ==
  ASSUME WriterInv, io <= Len(source), WellFormedFrom(source)[io], NEW n \in 1..4,
         source[io] >= 128 => n > 1 /\ IsCharacter(source, io, n),
         source[io] < 128 => n = 1
  PROVE  WellFormedFrom(source)[io + n]
<1>1. source \in Seq(Int) /\ io \in 1..Len(source) /\ io \in 1..(Len(source) + 1) /\ io # Len(source) + 1
  BY SourceInts
<1>2. source[io] \in Nat
  BY <1>1, SourceInts
<1>3. EncodedWidth(source, io) = n
  <2>1. CASE source[io] < 128
    BY <1>1, <1>2, <2>1, PlainByte
  <2>2. CASE source[io] >= 128
    BY <1>1, <2>2, EncodedWidthIs
  <2> QED
    BY <1>2, <2>1, <2>2
<1> QED
  BY <1>1, <1>3, WellFormedEquation, Zenon

\* Each step of Buffer_EscapeString keeps a trace, and refuses only what is not
\* UTF-8.
LEMMA TraceStep ==
  ASSUME WriterInv, HasTrace, Refuses, [WriterNext]_writerVars
  PROVE  HasTrace' /\ Refuses'
<1>0. /\ source \in Seq(Int) /\ io \in Nat \ {0} /\ Len(source) \in Nat
      /\ io - 1 <= Len(source)
      /\ \A k \in 1..Len(source) : source[k] \in Octets /\ source[k] \in Nat /\ source[k] <= 255
  BY SourceInts DEF WriterInv, WriterTypeOK, SixPerByte
<1>1. PICK V, e : IsTrace(V, e)
  BY DEF HasTrace
<1>2. ASSUME source' = source, style' = style, io' = io, of' = of PROVE HasTrace'
  <2>1. ASSUME NEW i PROVE /\ CopiedAt(V, e, i) => CopiedAt(V, e, i)'
                           /\ EscapedAt(V, e, i) => EscapedAt(V, e, i)'
    <3>1. OneByte(source[i])' = OneByte(source[i])
      <4>1. PICK b : b = source[i] /\ b = source'[i]
        BY <1>2
      <4>2. OneByte(b)' = OneByte(b)
        BY <1>2, Zenon DEF OneByte, IsHTML, IsSlash
      <4> QED
        BY <4>1, <4>2
    <3>2. \A m, w : Piece(V, e, i, m, w)' <=> Piece(V, e, i, m, w)
      BY <1>2, Zenon DEF Piece
    <3>3. CopiedAt(V, e, i) => CopiedAt(V, e, i)'
      BY <1>2, <3>1, <3>2, Zenon DEF CopiedAt
    <3>4. EscapedAt(V, e, i) => EscapedAt(V, e, i)'
      BY <1>2, <3>2, Zenon DEF EscapedAt
    <3> QED
      BY <3>3, <3>4
  <2>2. IsTrace(V, e)'
    BY <1>1, <1>2, <2>1, Zenon DEF IsTrace
  <2> QED
    BY <2>2, Zenon DEF HasTrace
<1>3. CASE UNCHANGED writerVars
  BY <1>2, <1>3, Zenon DEF writerVars, Refuses
<1>4. CASE verdict = "none" /\ EndString
  <2>1. io = Len(source) + 1
    BY <1>0, <1>4 DEF EndString, AtEnd
  <2>2. source' = source /\ style' = style /\ io' = io /\ of' = of /\ verdict' = "TRUE"
    BY <1>4 DEF EndString, Conclude
  <2> QED
    BY <1>2, <2>1, <2>2 DEF Refuses
<1>5. CASE verdict = "none" /\ WriteByte
  <2>1. /\ io <= Len(source) /\ io \in 1..Len(source)
        /\ style.ascii => source[io] \notin 192..253
        /\ Put(1, OneByte(source[io]))
    BY <1>0, <1>5 DEF WriteByte, AtEnd, Octet
  <2>2. OneByte(source[io]) \in Seq(Octets)
    BY <1>0, <2>1, OneByteType
  <2>3. HasTrace'
    <3>1. 1 \in Nat \ {0} /\ io + 1 - 1 <= Len(source)
      BY <1>0, <2>1
    <3> QED
      BY <1>1, <2>1, <2>2, <3>1, PutTraced, Zenon
  <2>4. ASSUME style.ascii, WellFormedUTF8(source) PROVE WellFormedFrom(source)[io + 1]
    <3>1. WellFormedFrom(source)[io]
      BY <2>4 DEF Refuses
    <3>2. EncodedWidth(source, io) # 0
      <4>1. io \in 1..(Len(source) + 1) /\ io # Len(source) + 1
        BY <1>0, <2>1
      <4> QED
        BY <1>0, <3>1, <4>1, WellFormedEquation, Zenon
    <3>3. ~(source[io] >= 128)
      BY <1>0, <2>1, <2>4, <3>2, HighByte, Zenon
    <3>4. 1 \in 1..4
      OBVIOUS
    <3> QED
      BY <2>1, <3>1, <3>3, <3>4, BehindCharacter, Zenon
  <2>5. source' = source /\ style' = style /\ io' = io + 1 /\ verdict' = "none"
    BY <1>5, <2>1 DEF Put
  <2> QED
    BY <2>3, <2>4, <2>5 DEF Refuses
<1>6. CASE verdict = "none" /\ WriteSequence
  <2>1. PICK n \in 2..4 : Octet \in LeadsOf(n) /\ Accepted(n) /\ Put(n, Escaped(Ucs(n)))
    BY <1>6 DEF WriteSequence
  <2>2. io <= Len(source) /\ style.ascii /\ io \in 1..Len(source)
    BY <1>0, <1>6 DEF WriteSequence, AtEnd
  <2>3. PICK u \in Nat : /\ u = Ucs(n) /\ IsCharacter(source, io, n) /\ u = CodePoint(source, io, n)
                         /\ u <= MaxCodePoint
    BY <2>1, <2>2, AcceptedIsCharacter, Zenon
  <2>4. HasTrace'
    <3>1. n \in Nat \ {0}
      OBVIOUS
    <3>2. io + n - 1 <= Len(source)
      BY <2>1, Zenon DEF Accepted
    <3>3. PICK w : w = Escaped(u)
      OBVIOUS
    <3>4. w \in Seq(Octets) /\ Put(n, w)
      BY <2>1, <2>3, <3>3, EscapedType, Zenon
    <3> QED
      BY <1>1, <2>2, <2>3, <3>1, <3>2, <3>3, <3>4, PutTraced, Zenon
  <2>5. ASSUME WellFormedUTF8(source) PROVE WellFormedFrom(source)[io + n]
    <3>1. WellFormedFrom(source)[io]
      BY <2>2, <2>5 DEF Refuses
    <3>2. n \in 1..4 /\ n > 1
      OBVIOUS
    <3>3. ~(source[io] < 128)
      <4>1. CharacterRanges(source, io, n)
        BY <1>0, <2>2, <2>3, <3>2, CharacterBytes, Zenon
      <4>2. /\ n = 2 => 194 <= source[io]
            /\ n = 3 => 224 <= source[io]
            /\ n = 4 => 240 <= source[io]
        BY <4>1 DEF CharacterRanges
      <4>3. source[io] \in Nat
        BY <1>0, <2>2
      <4> QED
        BY <4>2, <4>3
    <3> QED
      BY <2>2, <2>3, <3>1, <3>2, <3>3, BehindCharacter, Zenon
  <2>6. source' = source /\ style' = style /\ io' = io + n /\ verdict' = "none"
    BY <1>6, <2>1 DEF Put
  <2> QED
    BY <2>4, <2>5, <2>6 DEF Refuses
<1>7. CASE verdict = "none" /\ RefuseSequence
  <2>1. /\ io <= Len(source) /\ style.ascii /\ io \in 1..Len(source)
        /\ Octet \in Unsupported \/ \E n \in 2..4 : Octet \in LeadsOf(n) /\ ~Accepted(n)
    BY <1>0, <1>7 DEF RefuseSequence, AtEnd
  <2>2. source' = source /\ style' = style /\ io' = io /\ of' = of /\ verdict' = "FALSE"
    BY <1>7 DEF RefuseSequence, Conclude
  <2>3. ASSUME WellFormedUTF8(source) PROVE FALSE
    <3>1. WellFormedFrom(source)[io]
      BY <2>1, <2>3 DEF Refuses
    <3>2. EncodedWidth(source, io) # 0
      <4>1. io \in 1..(Len(source) + 1) /\ io # Len(source) + 1
        BY <1>0, <2>1
      <4> QED
        BY <1>0, <3>1, <4>1, WellFormedEquation, Zenon
    <3>3. PICK m \in 1..4 : IsCharacter(source, io, m)
      BY <1>0, <2>1, <3>2, EncodedWidthIs
    <3>4. PICK b \in Nat : b = source[io] /\ b = Octet
      BY <1>0, <2>1 DEF Octet
    <3>5. /\ m = 1 => 0 <= b /\ b <= 127
          /\ m = 2 => 194 <= b /\ b <= 223
          /\ m = 3 => 224 <= b /\ b <= 239
          /\ m = 4 => 240 <= b /\ b <= 244
      <4>1. CharacterRanges(source, io, m)
        BY <1>0, <2>1, <3>3, CharacterBytes, Zenon
      <4> QED
        BY <3>4, <4>1 DEF CharacterRanges
    <3>6. CASE Octet \in Unsupported
      <4>1. 248 <= b
        BY <3>4, <3>6 DEF Unsupported
      <4> QED
        BY <3>5, <4>1
    <3>7. ASSUME NEW n \in 2..4, Octet \in LeadsOf(n), ~Accepted(n) PROVE FALSE
      <4>1. /\ n = 2 => 192 <= b /\ b <= 223
            /\ n = 3 => 224 <= b /\ b <= 239
            /\ n = 4 => 240 <= b /\ b <= 247
        <5>1. LeadsOf(2) = 192..223 /\ LeadsOf(3) = 224..239 /\ LeadsOf(4) = 240..247
          BY SMT DEF LeadsOf
        <5>2. /\ n = 2 => b \in 192..223
              /\ n = 3 => b \in 224..239
              /\ n = 4 => b \in 240..247
          BY <3>4, <3>7, <5>1
        <5> QED
          BY <5>2
      <4>2. m = n
        BY <3>5, <4>1
      <4>3. ~IsCharacter(source, io, n)
        BY <2>1, <3>7, AcceptedIsCharacter, Zenon
      <4> QED
        BY <3>3, <4>2, <4>3
    <3> QED
      BY <2>1, <3>6, <3>7
  <2> QED
    BY <1>2, <2>1, <2>2, <2>3 DEF Refuses
<1> QED
  BY <1>3, <1>4, <1>5, <1>6, <1>7 DEF WriterNext

\* Before anything is written the trace is the first place.
LEMMA TraceStart ==
  ASSUME io = 1, of = <<>>, verdict \notin {"TRUE", "FALSE"}
  PROVE  HasTrace /\ Refuses
<1>1. PICK V, e : V = {1} /\ e = [k \in Nat |-> 1]
  OBVIOUS
<1>2. IsTrace(V, e)
  <2>1. e \in [Nat -> Nat \ {0}] /\ e[1] = 1 /\ e[1] = Len(<<>>) + 1
    BY <1>1
  <2>2. V \subseteq 1..1 /\ 1 \in V /\ V \ {1} = {}
    BY <1>1
  <2> QED
    BY <2>1, <2>2 DEF IsTrace
<1> QED
  BY <1>2 DEF HasTrace, Refuses, WellFormedUTF8

-----------------------------------------------------------------------------
(* Characters that are the same when they are paired. *)

\* An escaped low surrogate, which is one with an escaped high one before it.
IsLow(c) == c.escaped /\ c.code \in LowSurrogates

Alike(cs, ps) ==
  /\ cs \in Seq(CharSet) /\ ps \in Seq(CharSet)
  /\ Paired(cs) = Paired(ps)
  /\ EndsHigh(cs) <=> EndsHigh(ps)
  /\ EndsHigh(cs) => cs[Len(cs)].code = ps[Len(ps)].code
  /\ cs # <<>> => cs[Len(cs)] # NoChar

\* One more character, in terms of how the others end.
LEMMA OneMore ==
  ASSUME NEW s \in Seq(CharSet), NEW c \in CharSet
  PROVE  /\ Append(s, c) \in Seq(CharSet) /\ Append(s, c) # <<>>
         /\ Append(s, c)[Len(Append(s, c))] = c
         /\ EndsHigh(Append(s, c)) <=> c.escaped /\ c.code \in HighSurrogates
         /\ EndsHigh(s) /\ IsLow(c) =>
              Paired(Append(s, c)) =
                [Paired(s) EXCEPT ![Len(Paired(s))] = PairCode(s[Len(s)].code, c.code)]
         /\ ~(EndsHigh(s) /\ IsLow(c)) => Paired(Append(s, c)) = Append(Paired(s), c.code)
<1>1. PICK m : m = Append(s, c)
  OBVIOUS
<1>2. m \in Seq(CharSet) /\ m # <<>> /\ Len(m) > 0 /\ m[Len(m)] = c
  BY <1>1
<1>3. EndsHigh(m) <=> c.escaped /\ c.code \in HighSurrogates
  BY <1>2, Zenon DEF EndsHigh
<1>4. Len(s) > 0 /\ IsPair(s[Len(s)], c) <=> EndsHigh(s) /\ IsLow(c)
  BY Zenon DEF IsPair, EndsHigh, IsLow
<1>5. IF Len(s) > 0 /\ IsPair(s[Len(s)], c)
      THEN Paired(m) = [Paired(s) EXCEPT ![Len(Paired(s))] = PairCode(s[Len(s)].code, c.code)]
      ELSE Paired(m) = Append(Paired(s), c.code)
  BY <1>1, PairedAppend, Zenon
<1> QED
  BY <1>1, <1>2, <1>3, <1>4, <1>5, Zenon

\* The same character more, escaped or not if that makes no difference.
LEMMA AlikeAppend ==
  ASSUME NEW cs, NEW ps, Alike(cs, ps), NEW c \in CharSet, NEW p \in CharSet,
         c # NoChar, c.code = p.code,
         \/ c.escaped <=> p.escaped
         \/ c.code \notin HighSurrogates /\ c.code \notin LowSurrogates
  PROVE  Alike(Append(cs, c), Append(ps, p))
<1>1. cs \in Seq(CharSet) /\ ps \in Seq(CharSet) /\ Paired(cs) = Paired(ps)
      /\ (EndsHigh(cs) <=> EndsHigh(ps))
      /\ (EndsHigh(cs) => cs[Len(cs)].code = ps[Len(ps)].code)
  BY DEF Alike
<1>2. IsLow(c) <=> IsLow(p)
  BY DEF IsLow
<1>3. PICK a, b : a = Append(cs, c) /\ b = Append(ps, p)
  OBVIOUS
<1>4. /\ a \in Seq(CharSet) /\ b \in Seq(CharSet)
      /\ a[Len(a)] = c /\ b[Len(b)] = p
      /\ EndsHigh(a) <=> c.escaped /\ c.code \in HighSurrogates
      /\ EndsHigh(b) <=> p.escaped /\ p.code \in HighSurrogates
  BY <1>1, <1>3, OneMore, Zenon
<1>5. EndsHigh(a) <=> EndsHigh(b)
  BY <1>4
<1>6. Paired(a) = Paired(b)
  <2>1. CASE EndsHigh(cs) /\ IsLow(c)
    <3>1. /\ Paired(a) = [Paired(cs) EXCEPT ![Len(Paired(cs))] = PairCode(cs[Len(cs)].code, c.code)]
          /\ Paired(b) = [Paired(ps) EXCEPT ![Len(Paired(ps))] = PairCode(ps[Len(ps)].code, p.code)]
      BY <1>1, <1>2, <1>3, <2>1, OneMore, Zenon
    <3> QED
      BY <1>1, <2>1, <3>1, Zenon
  <2>2. CASE ~(EndsHigh(cs) /\ IsLow(c))
    <3>1. Paired(a) = Append(Paired(cs), c.code) /\ Paired(b) = Append(Paired(ps), p.code)
      BY <1>1, <1>2, <1>3, <2>2, OneMore, Zenon
    <3> QED
      BY <1>1, <3>1, Zenon
  <2> QED
    BY <2>1, <2>2
<1>7. Alike(a, b)
  BY <1>4, <1>5, <1>6, Zenon DEF Alike
<1> QED
  BY <1>3, <1>7, Zenon

\* A character, and the two surrogates that stand for it.
LEMMA AlikePair ==
  ASSUME NEW cs, NEW ps, Alike(cs, ps), NEW high \in Int, NEW low \in Int, NEW u \in Int,
         IsSplit(u, high, low), u \notin HighSurrogates, u \notin LowSurrogates,
         NEW escaped \in BOOLEAN
  PROVE  Alike(Append(Append(cs, Char(high, TRUE)), Char(low, TRUE)), Append(ps, Char(u, escaped)))
<1>1. cs \in Seq(CharSet) /\ ps \in Seq(CharSet) /\ Paired(cs) = Paired(ps)
  BY DEF Alike
<1>2. PICK h \in CharSet, l \in CharSet, p \in CharSet :
        h = Char(high, TRUE) /\ l = Char(low, TRUE) /\ p = Char(u, escaped)
  <2>1. Char(high, TRUE) \in CharSet /\ Char(low, TRUE) \in CharSet /\ Char(u, escaped) \in CharSet
    BY DEF CharSet, Char
  <2> QED
    BY <2>1, Zenon
<1>3. /\ h.code = high /\ h.escaped /\ l.code = low /\ l.escaped /\ p.code = u
      /\ high \in HighSurrogates /\ low \in LowSurrogates /\ u = PairCode(high, low)
  BY <1>2 DEF Char, IsSplit
<1>4. high \notin LowSurrogates /\ low \notin HighSurrogates
  BY <1>3, SurrogatesApart
<1>5. ~IsLow(h) /\ IsLow(l) /\ ~IsLow(p)
  BY <1>3, <1>4 DEF IsLow
<1>6. PICK a, b, c : a = Append(cs, h) /\ b = Append(a, l) /\ c = Append(ps, p)
  OBVIOUS
<1>7. a \in Seq(CharSet) /\ a[Len(a)] = h /\ EndsHigh(a) /\ Paired(a) = Append(Paired(cs), high)
  BY <1>1, <1>3, <1>5, <1>6, OneMore, Zenon
<1>8. /\ b \in Seq(CharSet) /\ b[Len(b)] = l /\ ~EndsHigh(b)
      /\ Paired(b) = [Paired(a) EXCEPT ![Len(Paired(a))] = PairCode(high, low)]
  <2>1. /\ b \in Seq(CharSet) /\ b[Len(b)] = l
        /\ EndsHigh(b) <=> l.escaped /\ l.code \in HighSurrogates
        /\ Paired(b) = [Paired(a) EXCEPT ![Len(Paired(a))] = PairCode(a[Len(a)].code, l.code)]
    BY <1>5, <1>6, <1>7, OneMore, Zenon
  <2>2. a[Len(a)].code = high /\ l.code = low
    BY <1>3, <1>7
  <2> QED
    BY <1>4, <2>1, <2>2, Zenon
<1>9. /\ c \in Seq(CharSet) /\ ~EndsHigh(c) /\ Paired(c) = Append(Paired(ps), u)
  BY <1>1, <1>3, <1>5, <1>6, OneMore, ZenonT(60)
<1>10. Paired(b) = Paired(c)
  <2>1. Paired(cs) \in Seq(Int)
    BY <1>1, <1>2, PairedAppend, Zenon
  <2>2. Append(Paired(cs), u)
          = [Append(Paired(cs), high) EXCEPT ![Len(Append(Paired(cs), high))] = u]
    BY <2>1, LastReplaced
  <2> QED
    BY <1>1, <1>3, <1>7, <1>8, <1>9, <2>2, Zenon
<1>11. l # NoChar
  <2>1. l.code = low /\ low \in Nat
    BY <1>3, Bounds DEF LowSurrogates
  <2>2. NoChar.code = 0 - 1
    BY DEF NoChar, Char
  <2> QED
    BY <2>1, <2>2
<1>12. Alike(b, c)
  BY <1>8, <1>9, <1>10, <1>11, Zenon DEF Alike
<1> QED
  BY <1>2, <1>6, <1>12, Zenon

\* Two empty sequences are alike.
LEMMA AlikeEmpty == Alike(<<>>, <<>>)
<1>1. <<>> \in Seq(CharSet) /\ Len(<<>>) = 0 /\ ~(0 > 0)
  OBVIOUS
<1>2. ~EndsHigh(<<>>)
  BY <1>1, Zenon DEF EndsHigh
<1> QED
  BY <1>1, <1>2, Zenon DEF Alike

-----------------------------------------------------------------------------
(* The text that has been written, read back along with the string. *)

\* Behind what is written stand a quote and the end of the text.
IsWritten(t) == t = of \o <<34, 0>>

\* That is a text, and what stands in what is written stands in it.
LEMMA WrittenText ==
  ASSUME WriterInv, NEW t, IsWritten(t)
  PROVE  /\ IsText(t) /\ Len(of) \in Nat /\ Len(t) = Len(of) + 2 /\ t[Len(of) + 1] = 34
         /\ of \in Seq(Octets) /\ \A k \in 1..Len(of) : t[k] = of[k]
         /\ \A a \in Nat \ {0}, w \in Seq(Octets) : StandsAt(of, a, w) => StandsAt(t, a, w)
<1>1. of \in Seq(Octets)
  BY DEF WriterInv, WriterTypeOK
<1>2. PICK z \in Seq(Octets) : z = <<34, 0>> /\ Len(z) = 2 /\ z[1] = 34 /\ z[2] = 0
  <2>1. <<34, 0>> \in Seq(Octets)
    BY DEF Octets
  <2> QED
    BY <2>1
<1>3. t = of \o z
  BY <1>2 DEF IsWritten
<1>4. t \in Seq(Octets) /\ Len(of) \in Nat /\ Len(t) = Len(of) + 2
  BY <1>1, <1>2, <1>3
<1>5. t[Len(of) + 1] = 34 /\ t[Len(of) + 2] = 0
  <2>1. 1 \in 1..Len(z) /\ 2 \in 1..Len(z)
    BY <1>2
  <2> QED
    BY <1>1, <1>2, <1>3, <2>1, SecondOfBoth
<1>6. \A k \in 1..Len(of) : t[k] = of[k]
  BY <1>1, <1>3, FirstOfBoth
<1>7. IsText(t)
  <2>1. Octets = Bytes
    BY DEF Octets, Bytes
  <2>2. Len(t) > 0
    BY <1>4
  <2> QED
    BY <1>4, <1>5, <2>1, <2>2, Zenon DEF IsText
<1>8. \A a \in Nat \ {0}, w \in Seq(Octets) : StandsAt(of, a, w) => StandsAt(t, a, w)
  BY <1>1, <1>3, StandsKept, Zenon
<1> QED
  BY <1>1, <1>4, <1>5, <1>6, <1>7, <1>8, Zenon

\* All bytes of w are characters of their own.
IsPlain(w) == \A k \in 1..Len(w) : w[k] \in Nat /\ w[k] < 128

\* The escape of a code unit is plain.
LEMMA PlainUnit ==
  ASSUME NEW u \in Nat, u <= MaxCodeUnit
  PROVE  IsPlain(Unit(u))
<1>1. PICK a, b, c, d : a = u \div 4096 /\ b = (u \div 256) % 16 /\ c = (u \div 16) % 16 /\ d = u % 16
  OBVIOUS
<1>2. /\ a \in Nat /\ a <= 15 /\ b \in Nat /\ b <= 15
      /\ c \in Nat /\ c <= 15 /\ d \in Nat /\ d <= 15
  BY <1>1, Bounds, SMT
<1>3. PICK w : w = Unit(u)
  OBVIOUS
<1>4. w = <<92, 117, HexDigit(a), HexDigit(b), HexDigit(c), HexDigit(d)>>
  BY <1>1, <1>3 DEF Unit
<1>5. \A v \in Nat : v <= 15 => HexDigit(v) \in Nat /\ HexDigit(v) < 128
  BY DEF HexDigit
<1>6. \A k \in 1..Len(w) : w[k] \in Nat /\ w[k] < 128
  BY <1>2, <1>4, <1>5
<1> QED
  BY <1>3, <1>6, Zenon DEF IsPlain

\* What is written for a byte below 128 is plain; any other is written as it is.
LEMMA PlainOneByte ==
  ASSUME NEW b \in Octets
  PROVE  IF b < 128 THEN IsPlain(OneByte(b)) ELSE OneByte(b) = <<b>>
<1>0. b \in Nat
  BY OctetBound
<1>1. CASE b >= 128
  <2>1. b \notin HasLetter /\ ~IsSlash(b) /\ ~(b < 32 \/ IsHTML(b))
    BY <1>0, <1>1 DEF HasLetter, IsSlash, IsHTML
  <2>2. OneByte(b) = <<b>>
    BY <2>1, Zenon DEF OneByte
  <2> QED
    BY <1>0, <1>1, <2>2
<1>2. CASE b < 128
  <2>1. CASE b \in HasLetter
    <3>1. OneByte(b) = <<92, Letter(b)>>
      BY <2>1, Zenon DEF OneByte
    <3>2. Letter(b) \in Nat /\ Letter(b) < 128
      BY <1>0, <1>2 DEF Letter
    <3>3. IsPlain(<<92, Letter(b)>>)
      BY <3>2 DEF IsPlain
    <3> QED
      BY <1>2, <3>1, <3>3
  <2>2. CASE b \notin HasLetter /\ IsSlash(b)
    <3>1. OneByte(b) = <<92, 47>>
      BY <2>2, Zenon DEF OneByte
    <3>2. IsPlain(<<92, 47>>)
      BY DEF IsPlain
    <3> QED
      BY <1>2, <3>1, <3>2
  <2>3. CASE b \notin HasLetter /\ ~IsSlash(b) /\ (b < 32 \/ IsHTML(b))
    <3>1. OneByte(b) = Unit(b)
      BY <2>3, Zenon DEF OneByte
    <3>2. IsPlain(Unit(b))
      BY <1>0, <1>2, Bounds, PlainUnit
    <3> QED
      BY <1>2, <3>1, <3>2
  <2>4. CASE b \notin HasLetter /\ ~IsSlash(b) /\ ~(b < 32 \/ IsHTML(b))
    <3>1. OneByte(b) = <<b>>
      BY <2>4, Zenon DEF OneByte
    <3>2. IsPlain(<<b>>)
      BY <1>0, <1>2 DEF IsPlain
    <3> QED
      BY <1>2, <3>1, <3>2
  <2> QED
    BY <2>1, <2>2, <2>3, <2>4, Zenon
<1> QED
  BY <1>0, <1>1, <1>2

\* The escapes of a character are plain.
LEMMA PlainEscaped ==
  ASSUME NEW u \in Nat, u <= MaxCodePoint
  PROVE  IsPlain(Escaped(u))
<1>1. CASE u < 65536
  <2>1. Escaped(u) = Unit(u)
    BY <1>1 DEF Escaped
  <2>2. u <= MaxCodeUnit
    BY <1>1, Bounds
  <2> QED
    BY <2>1, <2>2, PlainUnit
<1>2. CASE u >= 65536
  <2>1. PICK h \in Nat, l \in Nat :
          /\ h = HighStart + (u - 65536) \div 1024 /\ l = LowStart + ((u - 65536) % 1024)
          /\ h <= MaxCodeUnit /\ l <= MaxCodeUnit
    BY <1>2, Bounds, SMT
  <2>2. Escaped(u) = Unit(h) \o Unit(l)
    BY <1>2, <2>1 DEF Escaped
  <2>3. PICK s, t : s = Unit(h) /\ t = Unit(l)
    OBVIOUS
  <2>4. s \in Seq(Octets) /\ t \in Seq(Octets) /\ IsPlain(s) /\ IsPlain(t)
    BY <2>1, <2>3, PlainUnit, UnitType
  <2>5. IsPlain(s \o t)
    <3>1. ASSUME NEW k \in 1..Len(s \o t) PROVE (s \o t)[k] \in Nat /\ (s \o t)[k] < 128
      <4>1. Len(s \o t) = Len(s) + Len(t) /\ Len(s) \in Nat /\ Len(t) \in Nat
        BY <2>4
      <4>2. CASE k \in 1..Len(s)
        BY <2>4, <4>2, FirstOfBoth DEF IsPlain
      <4>3. CASE k \notin 1..Len(s)
        <5>1. PICK j \in 1..Len(t) : k = Len(s) + j
          <6>1. k - Len(s) \in 1..Len(t) /\ k = Len(s) + (k - Len(s))
            BY <4>1, <4>3
          <6> QED
            BY <6>1
        <5>2. (s \o t)[k] = t[j]
          BY <2>4, <5>1, SecondOfBoth
        <5> QED
          BY <2>4, <5>2 DEF IsPlain
      <4> QED
        BY <4>2, <4>3
    <3> QED
      BY <3>1 DEF IsPlain
  <2> QED
    BY <2>2, <2>3, <2>5
<1> QED
  BY <1>1, <1>2

\* Octets are numbers.
LEMMA OctetSeq ==
  ASSUME NEW b \in Seq(Octets)
  PROVE  b \in Seq(Int) /\ Len(b) \in Nat
<1>1. Octets \subseteq Int
  BY DEF Octets
<1>2. b \in [1..Len(b) -> Octets] /\ Len(b) \in Nat
  OBVIOUS
<1>3. b \in [1..Len(b) -> Int]
  BY <1>1, <1>2
<1> QED
  BY <1>2, <1>3

\* Such bytes are well-formed if what follows them is: the first place of which
\* this is not true would be behind another.
LEMMA PlainSkips ==
  ASSUME NEW b \in Seq(Octets), NEW w \in Seq(Octets), IsPlain(w), NEW a \in Nat \ {0}, StandsAt(b, a, w)
  PROVE  WellFormedFrom(b)[a] <=> WellFormedFrom(b)[a + Len(w)]
<1>0. b \in Seq(Int) /\ Len(b) \in Nat /\ Len(w) \in Nat
  BY OctetSeq
<1>1. /\ a + Len(w) - 1 <= Len(b)
      /\ \A k \in 1..Len(w) : b[a + k - 1] = w[k] /\ w[k] \in Nat /\ w[k] < 128
  BY Zenon DEF StandsAt, IsPlain
<1> DEFINE Same(k) == WellFormedFrom(b)[a] <=> WellFormedFrom(b)[a + k]
<1>2. ASSUME NEW k \in 0..Len(w), k # Len(w), Same(k) PROVE Same(k + 1)
  <2>1. PICK p \in 1..Len(b) : p = a + k
    BY <1>0, <1>1, <1>2
  <2>2. b[p] \in Nat /\ b[p] < 128
    <3>1. k + 1 \in 1..Len(w) /\ a + (k + 1) - 1 = p
      BY <1>0, <1>2, <2>1
    <3> QED
      BY <1>1, <3>1
  <2>3. EncodedWidth(b, p) = 1
    BY <1>0, <2>2, PlainByte
  <2>4. WellFormedFrom(b)[p] <=> WellFormedFrom(b)[p + 1]
    <3>1. p \in 1..(Len(b) + 1) /\ p # Len(b) + 1 /\ 1 # 0
      BY <1>0
    <3> QED
      BY <1>0, <2>3, <3>1, WellFormedEquation, Zenon
  <2>5. p + 1 = a + (k + 1)
    BY <2>1
  <2> QED
    BY <1>2, <2>1, <2>4, <2>5
<1>3. PICK T : T = {k \in 0..Len(w) : ~Same(k)}
  OBVIOUS
<1>4. ASSUME T # {} PROVE FALSE
  <2>1. T \in SUBSET Nat
    BY <1>0, <1>3
  <2>2. PICK x \in T : \A y \in T : x <= y
    BY <1>4, <2>1, LeastNumber
  <2>3. x \in 0..Len(w) /\ ~Same(x)
    BY <1>3, <2>2
  <2>4. Same(0)
    <3>1. a + 0 = a
      OBVIOUS
    <3> QED
      BY <3>1
  <2>5. x # 0
    BY <2>3, <2>4
  <2>6. x - 1 \in 0..Len(w) /\ x - 1 # Len(w) /\ (x - 1) + 1 = x /\ ~(x <= x - 1)
    BY <1>0, <2>3, <2>5
  <2>7. Same(x - 1)
    <3> HIDE DEF Same
    <3> QED
      BY <1>3, <2>2, <2>6, Zenon
  <2>8. Same((x - 1) + 1)
    <3> HIDE DEF Same
    <3> QED
      BY <1>2, <2>6, <2>7, Zenon
  <2> QED
    BY <2>3, <2>6, <2>8
<1>5. Len(w) \in 0..Len(w)
  BY <1>0
<1> QED
  BY <1>3, <1>4, <1>5

\* The characters of the text up to a are those of the string up to i.
Agree(cs, ps, t, a, i) ==
  /\ Alike(cs, ps)
  /\ Chars(t) = cs \o CharsFrom(t)[a]
  /\ Points(source) = ps \o PointsFrom(source)[i]

\* The next character of the text.
LEMMA TextReads ==
  ASSUME NEW t, IsText(t), NEW a \in 1..Len(t), NEW n \in 1..6, NEW c, ReadsAt(t, a, n, c)
  PROVE  /\ c \in CharSet /\ a + n \in 1..Len(t)
         /\ CharsFrom(t)[a + n] \in Seq(CharSet)
         /\ CharsFrom(t)[a] = <<c>> \o CharsFrom(t)[a + n]
<1>0. Len(t) \in Nat
  BY DEF IsText
<1>1. t[a] # 34 /\ Width(t, a) = n /\ CharAt(t, a) = c
  BY Zenon DEF ReadsAt
<1>2. Width(t, a) # 0
  BY <1>1
<1>3. c \in CharSet
  BY <1>1, <1>2, CharAtType
<1>4. a + n \in 1..Len(t)
  <2>1. a + Width(t, a) \in (a + 1)..Len(t)
    BY <1>2, WidthBound
  <2> QED
    BY <1>0, <1>1, <2>1
<1>5. CharsFrom(t)[a + n] \in Seq(CharSet)
  BY <1>4, CharsEquation
<1>6. CharsFrom(t)[a] = <<CharAt(t, a)>> \o CharsFrom(t)[a + Width(t, a)]
  BY <1>1, <1>2, CharsEquation, Zenon
<1> QED
  BY <1>1, <1>3, <1>4, <1>5, <1>6, Zenon

\* The next character of the string.
LEMMA SourceReads ==
  ASSUME WriterInv, NEW i \in 1..Len(source), NEW n, n = EncodedWidth(source, i), n # 0
  PROVE  /\ n \in 1..4 /\ IsCharacter(source, i, n) /\ i + n \in 1..(Len(source) + 1)
         /\ PointAt(source, i) = Char(CodePoint(source, i, n), style.ascii /\ n > 1)
         /\ CodePoint(source, i, n) \in Nat
         /\ PointAt(source, i) \in CharSet
         /\ PointsFrom(source)[i + n] \in Seq(CharSet)
         /\ PointsFrom(source)[i] = <<PointAt(source, i)>> \o PointsFrom(source)[i + n]
         /\ WellFormedFrom(source)[i] <=> WellFormedFrom(source)[i + n]
<1>0. source \in Seq(Int) /\ Len(source) \in Nat
  BY SourceInts
<1>1. n \in 1..4 /\ IsCharacter(source, i, n)
  BY <1>0, EncodedWidthIs, Zenon
<1>2. i + n \in 1..(Len(source) + 1)
  <2>1. i + n - 1 <= Len(source)
    BY <1>1, Zenon DEF IsCharacter
  <2> QED
    BY <1>0, <1>1, <2>1
<1>3. CodePoint(source, i, n) \in Nat
  BY <1>0, <1>1, CodePointType, Zenon
<1>4. PICK p : p = PointAt(source, i)
  OBVIOUS
<1>5. p = Char(CodePoint(source, i, n), style.ascii /\ n > 1)
  BY <1>4, Zenon DEF PointAt
<1>6. p \in CharSet
  <2>1. (style.ascii /\ n > 1) \in BOOLEAN
    OBVIOUS
  <2>2. CodePoint(source, i, n) \in Int
    BY <1>3
  <2> QED
    BY <1>5, <2>1, <2>2 DEF CharSet, Char
<1>7. i \in 1..(Len(source) + 1) /\ i # Len(source) + 1
  BY <1>0
<1>8. PointsFrom(source)[i] = <<p>> \o PointsFrom(source)[i + n]
  BY <1>0, <1>4, <1>7, PointsEquation, Zenon
<1>9. PointsFrom(source)[i + n] \in Seq(CharSet)
  BY <1>0, <1>2, PointsEquation, Zenon
<1>10. WellFormedFrom(source)[i] <=> WellFormedFrom(source)[i + n]
  BY <1>0, <1>7, WellFormedEquation, Zenon
<1> QED
  BY <1>1, <1>2, <1>3, <1>4, <1>5, <1>6, <1>8, <1>9, <1>10, Zenon

\* The same character is next in both.
LEMMA AgreeStep ==
  ASSUME WriterInv, NEW t, IsText(t), NEW a \in 1..Len(t), NEW i \in 1..Len(source),
         NEW cs, NEW ps, Agree(cs, ps, t, a, i),
         NEW m \in 1..6, NEW code \in Nat, NEW escaped \in BOOLEAN, ReadsAt(t, a, m, Char(code, escaped)),
         NEW n, n = EncodedWidth(source, i), n # 0, code = CodePoint(source, i, n),
         \/ escaped <=> style.ascii /\ n > 1
         \/ code \notin HighSurrogates /\ code \notin LowSurrogates
  PROVE  \E ds, qs : Agree(ds, qs, t, a + m, i + n)
<1>1. cs \in Seq(CharSet) /\ ps \in Seq(CharSet) /\ Alike(cs, ps)
  BY DEF Agree, Alike
<1>2. PICK c \in CharSet : c = Char(code, escaped)
  <2>1. Char(code, escaped) \in CharSet
    BY DEF CharSet, Char
  <2> QED
    BY <2>1
<1>3. c.code = code /\ (c.escaped <=> escaped) /\ c # NoChar
  BY <1>2 DEF Char, NoChar
<1>4. PICK p \in CharSet : /\ p = PointAt(source, i) /\ p.code = code
                           /\ p.escaped <=> style.ascii /\ n > 1
  <2>1. PointAt(source, i) \in CharSet /\ PointAt(source, i) = Char(code, style.ascii /\ n > 1)
    BY SourceReads, Zenon
  <2>2. Char(code, style.ascii /\ n > 1).code = code
    BY DEF Char
  <2>3. Char(code, style.ascii /\ n > 1).escaped <=> style.ascii /\ n > 1
    BY DEF Char
  <2> QED
    BY <2>1, <2>2, <2>3, Zenon
<1>5. Alike(Append(cs, c), Append(ps, p))
  BY <1>1, <1>3, <1>4, AlikeAppend, Zenon
<1>6. PICK rest \in Seq(CharSet) : rest = CharsFrom(t)[a + m] /\ CharsFrom(t)[a] = <<c>> \o rest
  <2>1. ReadsAt(t, a, m, c)
    BY <1>2
  <2>2. CharsFrom(t)[a + m] \in Seq(CharSet) /\ CharsFrom(t)[a] = <<c>> \o CharsFrom(t)[a + m]
    BY <2>1, TextReads
  <2> QED
    BY <2>2, Zenon
<1>7. PICK behind \in Seq(CharSet) :
        behind = PointsFrom(source)[i + n] /\ PointsFrom(source)[i] = <<p>> \o behind
  BY <1>4, SourceReads, Zenon
<1>8. Chars(t) = Append(cs, c) \o rest
  <2>1. Chars(t) = cs \o (<<c>> \o rest)
    BY <1>6, Zenon DEF Agree
  <2> QED
    BY <1>1, <2>1, NextBehind, Zenon
<1>9. Points(source) = Append(ps, p) \o behind
  <2>1. Points(source) = ps \o (<<p>> \o behind)
    BY <1>7, Zenon DEF Agree
  <2> QED
    BY <1>1, <2>1, NextBehind, Zenon
<1> QED
  BY <1>5, <1>6, <1>7, <1>8, <1>9, Zenon DEF Agree

\* A character is next in the string, and two surrogates in the text.
LEMMA AgreePair ==
  ASSUME WriterInv, NEW t, IsText(t), NEW a \in 1..Len(t), NEW i \in 1..Len(source),
         NEW cs, NEW ps, Agree(cs, ps, t, a, i),
         NEW u \in Nat, NEW high, NEW low, IsSplit(u, high, low),
         u \notin HighSurrogates, u \notin LowSurrogates,
         ReadsAt(t, a, 6, Char(high, TRUE)), ReadsAt(t, a + 6, 6, Char(low, TRUE)),
         NEW n, n = EncodedWidth(source, i), n # 0, u = CodePoint(source, i, n)
  PROVE  \E ds, qs : Agree(ds, qs, t, (a + 6) + 6, i + n)
<1>1. cs \in Seq(CharSet) /\ ps \in Seq(CharSet) /\ Alike(cs, ps)
  BY DEF Agree, Alike
<1>2. 6 \in 1..6
  OBVIOUS
<1>3. PICK h : h = Char(high, TRUE)
  OBVIOUS
<1>4. PICK l : l = Char(low, TRUE)
  OBVIOUS
<1>5. PICK rest \in Seq(CharSet) :
        /\ h \in CharSet /\ a + 6 \in 1..Len(t)
        /\ rest = CharsFrom(t)[a + 6] /\ CharsFrom(t)[a] = <<h>> \o rest
  <2>1. ReadsAt(t, a, 6, h)
    BY <1>3
  <2>2. /\ h \in CharSet /\ a + 6 \in 1..Len(t) /\ CharsFrom(t)[a + 6] \in Seq(CharSet)
        /\ CharsFrom(t)[a] = <<h>> \o CharsFrom(t)[a + 6]
    BY <1>2, <2>1, TextReads
  <2> QED
    BY <2>2, Zenon
<1>6. PICK more \in Seq(CharSet) :
        /\ l \in CharSet
        /\ more = CharsFrom(t)[(a + 6) + 6] /\ CharsFrom(t)[a + 6] = <<l>> \o more
  <2>1. ReadsAt(t, a + 6, 6, l)
    BY <1>4
  <2>2. /\ l \in CharSet /\ CharsFrom(t)[(a + 6) + 6] \in Seq(CharSet)
        /\ CharsFrom(t)[a + 6] = <<l>> \o CharsFrom(t)[(a + 6) + 6]
    BY <1>2, <1>5, <2>1, TextReads
  <2> QED
    BY <2>2, Zenon
<1>7. PICK escaped \in BOOLEAN : escaped <=> style.ascii /\ n > 1
  OBVIOUS
<1>8. PICK p \in CharSet : p = PointAt(source, i) /\ p = Char(u, escaped)
  <2>1. PointAt(source, i) \in CharSet /\ PointAt(source, i) = Char(u, style.ascii /\ n > 1)
    BY SourceReads, Zenon
  <2>2. escaped = (style.ascii /\ n > 1)
    BY <1>7
  <2> QED
    BY <2>1, <2>2, Zenon
<1>9. PICK behind \in Seq(CharSet) :
        behind = PointsFrom(source)[i + n] /\ PointsFrom(source)[i] = <<p>> \o behind
  BY <1>8, SourceReads, Zenon
<1>10. high \in Int /\ low \in Int /\ u \in Int
  <2>1. \A x : x \in HighSurrogates \/ x \in LowSurrogates => x \in Int
    BY Bounds DEF HighSurrogates, LowSurrogates
  <2> QED
    BY <2>1 DEF IsSplit
<1>11. Alike(Append(Append(cs, h), l), Append(ps, p))
  BY <1>1, <1>3, <1>4, <1>8, <1>10, AlikePair, Zenon
<1>12. Append(cs, h) \in Seq(CharSet)
  BY <1>1, <1>5
<1>13. Chars(t) = Append(Append(cs, h), l) \o more
  <2>1. Chars(t) = cs \o (<<h>> \o rest)
    BY <1>5, Zenon DEF Agree
  <2>2. Chars(t) = Append(cs, h) \o rest
    BY <1>1, <1>5, <2>1, NextBehind, ZenonT(60)
  <2>3. Append(cs, h) \o (<<l>> \o more) = Append(Append(cs, h), l) \o more
    BY <1>6, <1>12, NextBehind, Zenon
  <2> QED
    BY <1>5, <1>6, <2>2, <2>3, Zenon
<1>14. Points(source) = Append(ps, p) \o behind
  <2>1. Points(source) = ps \o (<<p>> \o behind)
    BY <1>9, Zenon DEF Agree
  <2> QED
    BY <1>1, <2>1, NextBehind, Zenon
<1> QED
  BY <1>6, <1>9, <1>11, <1>13, <1>14, Zenon DEF Agree

\* The string has been written up to its end, and t is what is read.
IsRecord(V, e, t) ==
  /\ WriterInv /\ IsTrace(V, e) /\ io = Len(source) + 1 /\ IsWritten(t)

\* The place i has been reached in both, with the same characters before it.
Aligned(V, e, t, i) ==
  /\ i \in V
  /\ WellFormedUTF8(source) <=> WellFormedFrom(source)[i]
  /\ WellFormedUTF8(of) <=> WellFormedFrom(of)[e[i]]
  /\ \E cs, ps : Agree(cs, ps, t, e[i], i)

\* What has been written at a place of the trace.
LEMMA RecordPlaces ==
  ASSUME NEW V, NEW e, NEW t, IsRecord(V, e, t), NEW i \in V
  PROVE  /\ i \in 1..(Len(source) + 1) /\ Len(source) \in Nat /\ e[i] \in Nat \ {0}
         /\ i = Len(source) + 1 => e[i] = Len(of) + 1
         /\ i # Len(source) + 1 =>
              /\ i \in 1..Len(source) /\ source[i] \in Octets /\ source[i] \in Nat
              /\ CopiedAt(V, e, i) \/ EscapedAt(V, e, i)
<1>1. /\ WriterInv /\ io = Len(source) + 1
      /\ V \subseteq 1..io /\ e \in [Nat -> Nat \ {0}] /\ e[io] = Len(of) + 1
      /\ \A k \in V \ {io} : CopiedAt(V, e, k) \/ EscapedAt(V, e, k)
  BY DEF IsRecord, IsTrace
<1>2. Len(source) \in Nat /\ \A k \in 1..Len(source) : source[k] \in Octets /\ source[k] \in Nat
  BY <1>1, SourceInts
<1>3. i \in 1..(Len(source) + 1) /\ i \in Nat
  BY <1>1, <1>2
<1>4. e[i] \in Nat \ {0}
  BY <1>1, <1>3
<1>5. i # Len(source) + 1 => i \in 1..Len(source) /\ i \in V \ {io}
  BY <1>1, <1>2, <1>3
<1> QED
  BY <1>1, <1>2, <1>3, <1>4, <1>5, Zenon

\* The next place, if plain bytes have been written in between.
LEMMA AlignedNext ==
  ASSUME NEW V, NEW e, NEW t, IsRecord(V, e, t), NEW i, Aligned(V, e, t, i), i \in 1..Len(source),
         NEW n, n = EncodedWidth(source, i), n # 0,
         NEW w \in Seq(Octets), IsPlain(w), Piece(V, e, i, n, w),
         \E ds, qs : Agree(ds, qs, t, e[i] + Len(w), i + n)
  PROVE  Aligned(V, e, t, i + n) /\ i + n > i
<1>1. WriterInv /\ i \in V
  BY DEF IsRecord, Aligned
<1>2. n \in 1..4 /\ (WellFormedFrom(source)[i] <=> WellFormedFrom(source)[i + n])
  BY <1>1, SourceReads, Zenon
<1>3. i + n \in V /\ e[i + n] = e[i] + Len(w) /\ StandsAt(of, e[i], w)
  BY Zenon DEF Piece
<1>4. e[i] \in Nat \ {0} /\ i \in Nat
  BY <1>1, RecordPlaces
<1>5. of \in Seq(Octets)
  BY <1>1 DEF WriterInv, WriterTypeOK
<1>6. WellFormedFrom(of)[e[i]] <=> WellFormedFrom(of)[e[i + n]]
  BY <1>3, <1>4, <1>5, PlainSkips
<1>7. i + n > i
  BY <1>2, <1>4
<1>8. \E ds, qs : Agree(ds, qs, t, e[i + n], i + n)
  BY <1>3
<1> QED
  BY <1>2, <1>3, <1>6, <1>7, <1>8, Zenon DEF Aligned

\* What stands in what is written stands in the text, in front of the quote.
LEMMA StandsInText ==
  ASSUME WriterInv, NEW t, IsWritten(t), NEW a \in Nat \ {0}, NEW w \in Seq(Octets), Len(w) >= 1,
         StandsAt(of, a, w)
  PROVE  /\ IsText(t) /\ StandsAt(t, a, w) /\ a \in 1..Len(t) /\ a + Len(w) <= Len(t)
         /\ a \in 1..Len(of) /\ of[a] = w[1]
<1>1. IsText(t) /\ StandsAt(t, a, w) /\ Len(of) \in Nat /\ Len(t) = Len(of) + 2
  BY WrittenText, Zenon
<1>2. a + Len(w) - 1 <= Len(of) /\ \A k \in 1..Len(w) : of[a + k - 1] = w[k]
  BY Zenon DEF StandsAt
<1>3. Len(w) \in Nat
  OBVIOUS
<1>4. a \in 1..Len(t) /\ a + Len(w) <= Len(t) /\ a \in 1..Len(of)
  BY <1>1, <1>2, <1>3
<1>5. of[a] = w[1]
  <2>1. 1 \in 1..Len(w) /\ a + 1 - 1 = a
    BY <1>3
  <2> QED
    BY <1>2, <2>1
<1> QED
  BY <1>1, <1>4, <1>5

\* Small numbers are no surrogates, and large ones are none.
LEMMA NoSurrogate ==
  ASSUME NEW u \in Nat, u < 128 \/ u > MaxCodeUnit
  PROVE  u \notin HighSurrogates /\ u \notin LowSurrogates
<1>1. PICK h \in Nat, l \in Nat, e \in Nat, m \in Nat :
        /\ h = HighStart /\ l = LowStart /\ e = LowEnd /\ m = MaxCodeUnit
        /\ 128 <= h /\ h <= l /\ l <= m + 1 /\ e <= m
  BY SMT DEF HighStart, LowStart, LowEnd, MaxCodeUnit
<1>2. HighSurrogates = h..(l - 1) /\ LowSurrogates = l..e
  BY <1>1, Zenon DEF HighSurrogates, LowSurrogates
<1>3. u < 128 \/ u > m
  BY <1>1
<1> QED
  BY <1>1, <1>2, <1>3

\* A byte that is a character of its own.
LEMMA PlainStep ==
  ASSUME NEW V, NEW e, NEW t, IsRecord(V, e, t), NEW i, Aligned(V, e, t, i), i \in 1..Len(source),
         source[i] < 128
  PROVE  \E j : Aligned(V, e, t, j) /\ j > i
<1>1. WriterInv /\ i \in V /\ IsWritten(t) /\ i # Len(source) + 1
  <2>1. Len(source) \in Nat
    BY SourceInts DEF IsRecord
  <2> QED
    BY <2>1 DEF IsRecord, Aligned
<1>2. PICK b \in Octets : b = source[i] /\ b \in Nat /\ b < 128
  BY <1>1, RecordPlaces
<1>3. source \in Seq(Int)
  BY <1>1, SourceInts
<1>4. EncodedWidth(source, i) = 1 /\ CodePoint(source, i, 1) = b
  BY <1>2, <1>3, PlainByte
<1>5. CopiedAt(V, e, i)
  <2>1. ASSUME NEW n \in 2..4, IsCharacter(source, i, n) PROVE FALSE
    <3>1. n \in 1..4 /\ n # 1
      OBVIOUS
    <3> QED
      BY <1>3, <1>4, <2>1, <3>1, EncodedWidthIs, Zenon
  <2> QED
    BY <1>1, <2>1, RecordPlaces, Zenon DEF EscapedAt
<1>6. PICK w \in Seq(Octets) : /\ w = OneByte(b) /\ Len(w) >= 1 /\ Len(w) <= 6
                               /\ Piece(V, e, i, 1, w) /\ IsPlain(w)
  <2>1. OneByte(b) \in Seq(Octets) /\ Len(OneByte(b)) >= 1 /\ Len(OneByte(b)) <= 6
    BY OneByteType
  <2>2. IsPlain(OneByte(b))
    BY <1>2, PlainOneByte
  <2>3. Piece(V, e, i, 1, OneByte(b))
    BY <1>2, <1>5 DEF CopiedAt
  <2> QED
    BY <2>1, <2>2, <2>3, Zenon
<1>7. /\ IsText(t) /\ StandsAt(t, e[i], w) /\ e[i] \in 1..Len(t) /\ e[i] + Len(w) <= Len(t)
  <2>1. e[i] \in Nat \ {0} /\ StandsAt(of, e[i], w)
    BY <1>1, <1>6, RecordPlaces DEF Piece
  <2> QED
    BY <1>1, <1>6, <2>1, StandsInText, Zenon
<1>8. PICK escaped \in BOOLEAN : ReadsAt(t, e[i], Len(w), Char(b, escaped))
  BY <1>2, <1>6, <1>7, OneByteReads
<1>9. PICK cs, ps : Agree(cs, ps, t, e[i], i)
  BY Zenon DEF Aligned
<1>10. \E ds, qs : Agree(ds, qs, t, e[i] + Len(w), i + 1)
  <2>1. Len(w) \in 1..6 /\ 1 # 0
    <3>1. \A m \in Nat : m >= 1 /\ m <= 6 => m \in 1..6
      OBVIOUS
    <3>2. Len(w) \in Nat /\ 1 # 0
      OBVIOUS
    <3> QED
      BY <1>6, <3>1, <3>2, Zenon
  <2>2. b \notin HighSurrogates /\ b \notin LowSurrogates
    BY <1>2, NoSurrogate
  <2> QED
    BY <1>1, <1>2, <1>4, <1>7, <1>8, <1>9, <2>1, <2>2, AgreeStep, Zenon
<1>11. Aligned(V, e, t, i + 1) /\ i + 1 > i
  <2>1. 1 # 0
    OBVIOUS
  <2> QED
    BY <1>4, <1>6, <1>10, <2>1, AlignedNext, Zenon
<1> QED
  BY <1>11

\* A character that has been escaped.
LEMMA EscapedStep ==
  ASSUME NEW V, NEW e, NEW t, IsRecord(V, e, t), NEW i, Aligned(V, e, t, i), i \in 1..Len(source),
         EscapedAt(V, e, i)
  PROVE  \E j : Aligned(V, e, t, j) /\ j > i
<1>1. WriterInv /\ i \in V /\ IsWritten(t) /\ style.ascii
  BY DEF IsRecord, Aligned, EscapedAt
<1>2. PICK n \in 2..4, u \in Nat :
        /\ IsCharacter(source, i, n) /\ u = CodePoint(source, i, n) /\ u <= MaxCodePoint
        /\ Piece(V, e, i, n, Escaped(u))
  BY Zenon DEF EscapedAt
<1>3. n = EncodedWidth(source, i) /\ n # 0 /\ n > 1
  <2>1. n \in 1..4 /\ n # 0 /\ n > 1
    OBVIOUS
  <2> QED
    BY <1>1, <1>2, <2>1, EncodedWidthIs, SourceInts, Zenon
<1>4. PICK w \in Seq(Octets) : w = Escaped(u) /\ Len(w) >= 1 /\ IsPlain(w)
  <2>1. Escaped(u) \in Seq(Octets) /\ Len(Escaped(u)) >= 1
    BY <1>2, EscapedType
  <2>2. IsPlain(Escaped(u))
    BY <1>2, PlainEscaped
  <2> QED
    BY <2>1, <2>2, Zenon
<1>5. /\ IsText(t) /\ StandsAt(t, e[i], w) /\ e[i] \in 1..Len(t) /\ e[i] + Len(w) <= Len(t)
  <2>1. e[i] \in Nat \ {0}
    BY <1>1, RecordPlaces
  <2>2. StandsAt(of, e[i], w)
    BY <1>2, <1>4, Zenon DEF Piece
  <2> QED
    BY <1>1, <1>4, <2>1, <2>2, StandsInText, Zenon
<1>6. PICK cs, ps : Agree(cs, ps, t, e[i], i)
  BY Zenon DEF Aligned
<1>7. PICK p \in 1..Len(t) : p = e[i] /\ p \in Nat
  BY <1>5 DEF IsText
<1>8. \E ds, qs : Agree(ds, qs, t, p + Len(w), i + n)
  <2>1. CASE u <= MaxCodeUnit
    <3>1. Len(w) = 6 /\ ReadsAt(t, p, 6, Char(u, TRUE))
      BY <1>4, <1>5, <1>7, <2>1, EscapedOnce, Zenon
    <3>2. 6 \in 1..6 /\ TRUE \in BOOLEAN /\ (TRUE <=> style.ascii /\ n > 1)
      BY <1>1, <1>3
    <3> QED
      BY <1>1, <1>2, <1>3, <1>5, <1>6, <1>7, <3>1, <3>2, AgreeStep, Zenon
  <2>2. CASE u > MaxCodeUnit
    <3>1. PICK high, low : /\ IsSplit(u, high, low) /\ Len(w) = 12
                           /\ ReadsAt(t, p, 6, Char(high, TRUE))
                           /\ ReadsAt(t, p + 6, 6, Char(low, TRUE))
      BY <1>2, <1>4, <1>5, <1>7, <2>2, EscapedTwice, Zenon
    <3>2. u \notin HighSurrogates /\ u \notin LowSurrogates
      BY <2>2, NoSurrogate
    <3>3. (p + 6) + 6 = p + Len(w)
      BY <1>7, <3>1
    <3>4. \E ds, qs : Agree(ds, qs, t, (p + 6) + 6, i + n)
      BY <1>1, <1>2, <1>3, <1>5, <1>6, <1>7, <3>1, <3>2, AgreePair, Zenon
    <3> QED
      BY <3>3, <3>4, Zenon
  <2>3. u <= MaxCodeUnit \/ u > MaxCodeUnit
    BY Bounds
  <2> QED
    BY <2>1, <2>2, <2>3
<1>9. Aligned(V, e, t, i + n) /\ i + n > i
  <2>1. Piece(V, e, i, n, w)
    BY <1>2, <1>4, Zenon
  <2> QED
    BY <1>3, <1>4, <1>7, <1>8, <2>1, AlignedNext, Zenon
<1> QED
  BY <1>9

\* The bytes from j on in c are those from i on in b, and so is the character.
SameSpan(b, i, c, j, n) ==
  j + n - 1 <= Len(c) /\ \A k \in 0..(n - 1) : c[j + k] = b[i + k]
SameCharacter(b, i, c, j, n) ==
  IsCharacter(c, j, n) /\ CodePoint(c, j, n) = CodePoint(b, i, n)

\* Bytes that are the same are the same character.
LEMMA SameBytes ==
  ASSUME NEW b, NEW i \in Nat, NEW n \in 2..4, IsCharacter(b, i, n),
         NEW c, NEW j \in Nat, SameSpan(b, i, c, j, n)
  PROVE  SameCharacter(b, i, c, j, n)
<1> USE DEF SameSpan, SameCharacter
<1>1. 0 \in 0..(n - 1) /\ 1 \in 0..(n - 1) /\ i + 0 = i /\ j + 0 = j /\ n > 1
  OBVIOUS
<1>2. c[j] = b[i] /\ c[j + 1] = b[i + 1]
  BY <1>1
<1>3. \A k \in 2..(n - 1) : k \in 0..(n - 1)
  OBVIOUS
<1>4. \A k \in 2..(n - 1) : c[j + k] \in 128..191
  BY <1>3, Zenon DEF IsCharacter
<1>5. IsCharacter(c, j, n)
  BY <1>1, <1>2, <1>4, Zenon DEF IsCharacter
<1>6. CodePoint(c, j, n) = CodePoint(b, i, n)
  <2>1. (n > 2 => 2 \in 0..(n - 1)) /\ (n > 3 => 3 \in 0..(n - 1))
    OBVIOUS
  <2>2. (n > 2 => c[j + 2] = b[i + 2]) /\ (n > 3 => c[j + 3] = b[i + 3])
    BY <2>1
  <2>3. CASE n = 2
    <3>1. /\ CodePoint(c, j, 2) = Value2(c[j], c[j + 1])
          /\ CodePoint(b, i, 2) = Value2(b[i], b[i + 1])
      BY CodePointIs, Zenon
    <3> QED
      BY <1>2, <2>3, <3>1
  <2>4. CASE n = 3
    <3>1. /\ CodePoint(c, j, 3) = Value3(c[j], c[j + 1], c[j + 2])
          /\ CodePoint(b, i, 3) = Value3(b[i], b[i + 1], b[i + 2])
      BY CodePointIs, Zenon
    <3> QED
      BY <1>2, <2>2, <2>4, <3>1
  <2>5. CASE n = 4
    <3>1. /\ CodePoint(c, j, 4) = Value4(c[j], c[j + 1], c[j + 2], c[j + 3])
          /\ CodePoint(b, i, 4) = Value4(b[i], b[i + 1], b[i + 2], b[i + 3])
      BY CodePointIs, Zenon
    <3> QED
      BY <1>2, <2>2, <2>5, <3>1
  <2>6. n = 2 \/ n = 3 \/ n = 4
    OBVIOUS
  <2> QED
    BY <2>3, <2>4, <2>5, <2>6, Zenon
<1> QED
  BY <1>5, <1>6

\* A byte above 127, in the string or where it has been copied to.
IsHigh128(b, k) == k \in 1..Len(b) /\ b[k] >= 128
CopiedByte(V, e, i) ==
  /\ IsHigh128(source, i) /\ IsHigh128(of, e[i]) /\ of[e[i]] = source[i]
  /\ i + 1 \in V /\ e[i + 1] = e[i] + 1

\* A byte above 127 that is no escape has been copied.
LEMMA HighCopied ==
  ASSUME NEW V, NEW e, NEW t, IsRecord(V, e, t), NEW i \in V, ~EscapedAt(V, e, i),
         IsHigh128(source, i) \/ IsHigh128(of, e[i])
  PROVE  CopiedByte(V, e, i) /\ (style.ascii => source[i] \notin 192..253)
<1>1. WriterInv /\ IsWritten(t)
  BY DEF IsRecord
<1>2. Len(of) \in Nat /\ e[i] \in Nat \ {0}
  BY <1>1, WrittenText, RecordPlaces, Zenon
<1>3. i \in 1..Len(source)
  <2>1. ASSUME i = Len(source) + 1 PROVE FALSE
    <3>1. e[i] = Len(of) + 1 /\ Len(source) \in Nat
      BY <2>1, RecordPlaces
    <3> QED
      BY <1>2, <2>1, <3>1 DEF IsHigh128
  <2> QED
    BY <2>1, RecordPlaces
<1>4. i # Len(source) + 1
  <2>1. Len(source) \in Nat
    BY RecordPlaces
  <2> QED
    BY <1>3, <2>1
<1>5. PICK b \in Octets : b = source[i] /\ b \in Nat /\ CopiedAt(V, e, i)
  BY <1>4, RecordPlaces, Zenon
<1>6. PICK w \in Seq(Octets) : w = OneByte(b) /\ Len(w) >= 1
  BY OneByteType
<1>7. Piece(V, e, i, 1, w) /\ (style.ascii => b \notin 192..253)
  BY <1>5, <1>6 DEF CopiedAt
<1>8. e[i] \in 1..Len(of) /\ of[e[i]] = w[1]
  <2>1. StandsAt(of, e[i], w)
    BY <1>7 DEF Piece
  <2> QED
    BY <1>1, <1>2, <1>6, <2>1, StandsInText, Zenon
<1>9. b >= 128
  <2>1. ASSUME b < 128 PROVE FALSE
    <3>1. IsPlain(w)
      BY <1>6, <2>1, PlainOneByte
    <3>2. w[1] \in Nat /\ w[1] < 128
      BY <1>6, <3>1 DEF IsPlain
    <3>3. IsHigh128(of, e[i])
      BY <1>5, <2>1 DEF IsHigh128
    <3> QED
      BY <1>8, <3>2, <3>3 DEF IsHigh128
  <2> QED
    BY <1>5, <2>1
<1>10. w = <<b>> /\ Len(w) = 1 /\ w[1] = b
  <2>1. w = <<b>>
    BY <1>5, <1>6, <1>9, PlainOneByte
  <2> QED
    BY <2>1
<1>11. i + 1 \in V /\ e[i + 1] = e[i] + 1
  BY <1>7, <1>10 DEF Piece
<1> QED
  BY <1>3, <1>5, <1>7, <1>8, <1>9, <1>10, <1>11 DEF CopiedByte, IsHigh128

\* The bytes of a character, in the string or in what is written, are copied one
\* by one if nothing is escaped.
IsCopied(V, e, i, n) ==
  /\ i + n \in V /\ e[i + n] = e[i] + n
  /\ i \in Nat /\ i + n - 1 <= Len(source) /\ e[i] \in Nat /\ e[i] + n - 1 <= Len(of)
  /\ \A k \in 0..(n - 1) : of[e[i] + k] = source[i + k]

\* If all of them are above 127 in one of the two, they have been copied.
LEMMA CharacterCopied ==
  ASSUME NEW V, NEW e, NEW t, IsRecord(V, e, t), NEW i \in V, ~style.ascii,
         NEW n \in 2..4, \/ \A k \in 0..(n - 1) : IsHigh128(source, i + k)
                         \/ \A k \in 0..(n - 1) : IsHigh128(of, e[i] + k)
  PROVE  IsCopied(V, e, i, n)
<1>1. i \in Nat /\ e[i] \in Nat
  BY RecordPlaces
<1> DEFINE Follows(k) == i + k \in V /\ e[i + k] = e[i] + k
           Equal(k) == of[e[i] + k] = source[i + k] /\ i + k <= Len(source) /\ e[i] + k <= Len(of)
<1>2. ASSUME NEW k \in 0..(n - 1), Follows(k) PROVE Follows(k + 1) /\ Equal(k)
  <2>1. PICK p \in V : p = i + k /\ e[p] = e[i] + k
    BY <1>2
  <2>2. IsHigh128(source, p) \/ IsHigh128(of, e[p])
    BY <2>1
  <2>3. ~EscapedAt(V, e, p)
    BY DEF EscapedAt
  <2>4. CopiedByte(V, e, p)
    BY <2>2, <2>3, HighCopied, Zenon
  <2>5. i + (k + 1) = p + 1 /\ e[i] + (k + 1) = e[p] + 1
    BY <1>1, <2>1
  <2>6. Follows(k + 1)
    BY <2>4, <2>5 DEF CopiedByte
  <2>7. Equal(k)
    BY <2>1, <2>4 DEF CopiedByte, IsHigh128
  <2> QED
    BY <2>6, <2>7
<1>3. Follows(0)
  <2>1. i + 0 = i /\ e[i] + 0 = e[i]
    BY <1>1
  <2> QED
    BY <2>1, Zenon
<1>4. /\ 0 \in 0..(n - 1) /\ 1 \in 0..(n - 1)
      /\ n > 2 => 2 \in 0..(n - 1)
      /\ n > 3 => 3 \in 0..(n - 1)
      /\ 0 + 1 = 1 /\ 1 + 1 = 2 /\ 2 + 1 = 3 /\ 3 + 1 = 4
  OBVIOUS
<1> HIDE DEF Follows, Equal
<1>5. /\ Follows(1) /\ Follows(2) /\ Equal(0) /\ Equal(1)
      /\ n > 2 => Follows(3) /\ Equal(2)
      /\ n > 3 => Follows(4) /\ Equal(3)
  <2>1. Follows(1) /\ Equal(0)
    BY <1>2, <1>3, <1>4
  <2>2. Follows(2) /\ Equal(1)
    BY <1>2, <1>4, <2>1
  <2>3. n > 2 => Follows(3) /\ Equal(2)
    BY <1>2, <1>4, <2>2
  <2>4. n > 3 => Follows(4) /\ Equal(3)
    BY <1>2, <1>4, <2>3
  <2> QED
    BY <2>1, <2>2, <2>3, <2>4
<1>6. Follows(n) /\ Equal(n - 1) /\ \A k \in 0..(n - 1) : Equal(k)
  <2>1. CASE n = 2
    <3>1. \A k \in 0..1 : k = 0 \/ k = 1
      OBVIOUS
    <3> QED
      BY <1>5, <2>1, <3>1
  <2>2. CASE n = 3
    <3>1. \A k \in 0..2 : k = 0 \/ k = 1 \/ k = 2
      OBVIOUS
    <3> QED
      BY <1>5, <2>2, <3>1
  <2>3. CASE n = 4
    <3>1. \A k \in 0..3 : k = 0 \/ k = 1 \/ k = 2 \/ k = 3
      OBVIOUS
    <3> QED
      BY <1>5, <2>3, <3>1
  <2> QED
    BY <2>1, <2>2, <2>3
<1>7. i + (n - 1) = i + n - 1 /\ e[i] + (n - 1) = e[i] + n - 1
  BY <1>1
<1> QED
  BY <1>1, <1>6, <1>7 DEF IsCopied, Follows, Equal

\* The bytes of a longer character are above 127.
LEMMA CharacterHigh ==
  ASSUME NEW b \in Seq(Int), NEW i \in 1..Len(b), NEW n \in 2..4, IsCharacter(b, i, n)
  PROVE  \A k \in 0..(n - 1) : IsHigh128(b, i + k)
<1>1. CharacterRanges(b, i, n)
  <2>1. n \in 1..4
    OBVIOUS
  <2> QED
    BY <2>1, CharacterBytes, Zenon
<1>2. ASSUME NEW k \in 0..(n - 1) PROVE IsHigh128(b, i + k)
  <2>1. i + k \in 1..Len(b) /\ b[i + k] \in Int
    BY <1>1 DEF CharacterRanges
  <2>2. CASE k = 0
    <3>1. i + k = i /\ b[i] \in Int
      BY <2>2
    <3>2. b[i] >= 128
      BY <1>1, <3>1 DEF CharacterRanges
    <3> QED
      BY <2>1, <3>1, <3>2 DEF IsHigh128
  <2>3. CASE k = 1
    <3>1. b[i + 1] >= 128
      BY <1>1, <2>1, <2>3 DEF CharacterRanges
    <3> QED
      BY <2>1, <2>3, <3>1 DEF IsHigh128
  <2>4. CASE k \in 2..(n - 1)
    <3>1. b[i + k] >= 128
      BY <1>1, <2>1, <2>4 DEF CharacterRanges
    <3> QED
      BY <2>1, <3>1 DEF IsHigh128
  <2> QED
    BY <2>2, <2>3, <2>4
<1> QED
  BY <1>2

\* Where the bytes of a character are.
LEMMA BytePlaces ==
  ASSUME NEW a \in Nat, a # 0, NEW n \in 2..4, NEW m \in Nat, a + n - 1 <= m
  PROVE  /\ \A k \in 0..(n - 1) : a + k \in 1..m
         /\ a + n - 1 <= m + 2 /\ a \in 1..m /\ a \in 1..(m + 2)
         /\ a \in 1..(m + 1) /\ a # m + 1
         /\ n \in 1..4 /\ n \in 1..6 /\ n # 0 /\ n > 1
OBVIOUS

\* A character that has been copied byte by byte.
LEMMA CopiedStep ==
  ASSUME NEW V, NEW e, NEW t, IsRecord(V, e, t), NEW i, Aligned(V, e, t, i), i \in 1..Len(source),
         ~style.ascii, source[i] >= 128, EncodedWidth(source, i) # 0
  PROVE  \E j : Aligned(V, e, t, j) /\ j > i
<1>1. WriterInv /\ i \in V /\ IsWritten(t)
  BY DEF IsRecord, Aligned
<1>2. source \in Seq(Int) /\ i \in Nat
  BY <1>1, SourceInts
<1>3. PICK n \in 2..4 : n = EncodedWidth(source, i) /\ IsCharacter(source, i, n)
  BY <1>2, HighByte, Zenon
<1>4. IsCopied(V, e, i, n)
  BY <1>1, <1>2, <1>3, CharacterHigh, CharacterCopied, Zenon
<1>5. PICK a \in Nat : /\ a = e[i] /\ a # 0 /\ e[i + n] = a + n /\ i + n \in V
                       /\ a + n - 1 <= Len(of) /\ \A k \in 0..(n - 1) : of[a + k] = source[i + k]
  <2>1. e[i] \in Nat /\ e[i] # 0
    BY <1>1, RecordPlaces
  <2> QED
    BY <1>4, <2>1, Zenon DEF IsCopied
<1>6. /\ IsText(t) /\ Len(of) \in Nat /\ Len(t) = Len(of) + 2 /\ of \in Seq(Octets)
      /\ \A k \in 1..Len(of) : t[k] = of[k]
  BY <1>1, WrittenText, Zenon
<1>7. PICK u \in Nat : u = CodePoint(source, i, n)
  <2>1. n \in 1..4
    OBVIOUS
  <2> QED
    BY <1>2, <1>3, <2>1, CodePointType, Zenon
<1>8. IsCharacter(of, a, n)
  <2>1. SameSpan(source, i, of, a, n)
    BY <1>5 DEF SameSpan
  <2> QED
    BY <1>2, <1>3, <2>1, SameBytes, Zenon DEF SameCharacter
<1>9. /\ \A k \in 0..(n - 1) : a + k \in 1..Len(of)
      /\ a + n - 1 <= Len(t) /\ a \in 1..Len(of) /\ a \in 1..Len(t)
      /\ a \in 1..(Len(of) + 1) /\ a # Len(of) + 1
      /\ n \in 1..4 /\ n \in 1..6 /\ n # 0 /\ n > 1
  <2>1. a \in Nat /\ a # 0 /\ n \in 2..4 /\ a + n - 1 <= Len(of)
    BY <1>5, Zenon
  <2>2. PICK m \in Nat : m = Len(of) /\ m + 2 = Len(t)
    BY <1>6
  <2>3. a + n - 1 <= m
    BY <2>1, <2>2
  <2>4. /\ \A k \in 0..(n - 1) : a + k \in 1..m
        /\ a + n - 1 <= m + 2 /\ a \in 1..m /\ a \in 1..(m + 2)
        /\ a \in 1..(m + 1) /\ a # m + 1
        /\ n \in 1..4 /\ n \in 1..6 /\ n # 0 /\ n > 1
    BY <2>1, <2>3, BytePlaces, Zenon
  <2> QED
    BY <2>2, <2>4, Zenon
<1>10. /\ IsCharacter(t, a, n) /\ CodePoint(t, a, n) = u
       /\ t[a] >= 128 /\ t[a] \in Nat /\ source[i] \in Int
  <2>1. \A k \in 0..(n - 1) : t[a + k] = source[i + k]
    BY <1>5, <1>6, <1>9, Zenon
  <2>2. IsCharacter(t, a, n) /\ CodePoint(t, a, n) = CodePoint(source, i, n)
    <3>1. a + n - 1 <= Len(t) /\ i \in Nat /\ IsCharacter(source, i, n)
      BY <1>2, <1>3, <1>9, Zenon
    <3>2. SameSpan(source, i, t, a, n)
      BY <2>1, <3>1 DEF SameSpan
    <3>3. SameCharacter(source, i, t, a, n)
      BY <3>1, <3>2, SameBytes, Zenon
    <3> QED
      BY <3>3 DEF SameCharacter
  <2>3. 0 \in 0..(n - 1) /\ a + 0 = a /\ i + 0 = i
    BY <1>2
  <2>4. t[a] = source[i]
    BY <2>1, <2>3
  <2>5. t[a] \in Nat
    BY <1>6, <1>9, TextBytes
  <2> QED
    BY <1>2, <1>7, <2>2, <2>4, <2>5
<1>11. ReadsAt(t, a, n, Char(u, FALSE))
  <2>1. t[a] # 34 /\ t[a] # 92 /\ t[a] # 0
    BY <1>10
  <2>2. Width(t, a) = n
    BY <1>6, <1>9, <1>10, <2>1, WidthIs, Zenon
  <2>3. CharAt(t, a) = Char(u, FALSE)
    BY <1>10, <2>1, <2>2 DEF CharAt
  <2> QED
    BY <2>1, <2>2, <2>3, Zenon DEF ReadsAt
<1>12. \E ds, qs : Agree(ds, qs, t, e[i + n], i + n)
  <2>1. PICK cs, ps : Agree(cs, ps, t, a, i)
    BY <1>5, Zenon DEF Aligned
  <2>2. FALSE \in BOOLEAN /\ (FALSE <=> style.ascii /\ n > 1)
    OBVIOUS
  <2>3. \E ds, qs : Agree(ds, qs, t, a + n, i + n)
    BY <1>1, <1>2, <1>3, <1>6, <1>7, <1>9, <1>11, <2>1, <2>2, AgreeStep, Zenon
  <2> QED
    BY <1>5, <2>3, Zenon
<1>13. WellFormedUTF8(source) <=> WellFormedFrom(source)[i + n]
  BY <1>1, <1>3, <1>9, SourceReads, Zenon DEF Aligned
<1>14. WellFormedUTF8(of) <=> WellFormedFrom(of)[e[i + n]]
  <2>1. of \in Seq(Int)
    BY <1>6, OctetSeq
  <2>2. EncodedWidth(of, a) = n
    BY <1>8, <1>9, <2>1, EncodedWidthIs, Zenon
  <2>3. WellFormedFrom(of)[a] <=> WellFormedFrom(of)[a + n]
    BY <1>9, <2>1, <2>2, WellFormedEquation, Zenon
  <2> QED
    BY <1>5, <2>3, Zenon DEF Aligned
<1>15. Aligned(V, e, t, i + n) /\ i + n > i
  <2>1. i + n > i
    BY <1>2
  <2> QED
    BY <1>5, <1>12, <1>13, <1>14, <2>1, Zenon DEF Aligned
<1> QED
  BY <1>15

\* Where the string is no character, what has been written is none either.
LEMMA NoneAligned ==
  ASSUME NEW V, NEW e, NEW t, IsRecord(V, e, t), NEW i, Aligned(V, e, t, i), i \in 1..Len(source),
         EncodedWidth(source, i) = 0
  PROVE  ~WellFormedUTF8(source) /\ ~WellFormedUTF8(of)
<1>1. WriterInv /\ i \in V /\ IsWritten(t)
  BY DEF IsRecord, Aligned
<1>2. source \in Seq(Int) /\ i \in Nat /\ Len(source) \in Nat /\ source[i] \in Nat
  BY <1>1, SourceInts
<1>3. source[i] >= 128
  <2>1. 1 # 0
    OBVIOUS
  <2>2. ~(source[i] < 128)
    BY <1>2, <2>1, PlainByte
  <2> QED
    BY <1>2, <2>2
<1>4. \A n \in 1..4 : ~IsCharacter(source, i, n)
  BY <1>2, EncodedWidthIs, Zenon
<1>5. ~EscapedAt(V, e, i)
  <2>1. \A n \in 2..4 : n \in 1..4
    OBVIOUS
  <2> QED
    BY <1>4, <2>1, Zenon DEF EscapedAt
<1>6. CopiedByte(V, e, i) /\ (style.ascii => source[i] \notin 192..253)
  BY <1>1, <1>3, <1>5, HighCopied, Zenon DEF IsHigh128
<1>7. PICK a \in 1..Len(of) : a = e[i] /\ of[a] = source[i] /\ of[a] >= 128 /\ a \in Nat
  <2>1. e[i] \in 1..Len(of) /\ of[e[i]] = source[i] /\ of[e[i]] >= 128
    BY <1>6, Zenon DEF CopiedByte, IsHigh128
  <2>2. e[i] \in Nat
    BY <1>1, RecordPlaces
  <2> QED
    BY <2>1, <2>2, Zenon
<1>8. of \in Seq(Int) /\ Len(of) \in Nat
  BY <1>1, OctetSeq DEF WriterInv, WriterTypeOK
<1>9. ASSUME EncodedWidth(of, a) # 0 PROVE FALSE
  <2>1. PICK n \in 2..4 : IsCharacter(of, a, n) /\ of[a] \in 192..253
    BY <1>7, <1>8, <1>9, HighByte, ZenonT(60)
  <2>2. ~style.ascii
    BY <1>6, <1>7, <2>1
  <2>3. \A k \in 0..(n - 1) : IsHigh128(of, a + k)
    BY <1>8, <2>1, CharacterHigh
  <2>4. IsCopied(V, e, i, n)
    BY <1>1, <1>7, <2>2, <2>3, CharacterCopied, Zenon
  <2>5. i + n - 1 <= Len(source) /\ \A k \in 0..(n - 1) : source[i + k] = of[a + k]
    BY <1>7, <2>4, Zenon DEF IsCopied
  <2>6. IsCharacter(source, i, n)
    <3>1. a \in Nat /\ i \in Nat /\ n \in 2..4 /\ IsCharacter(of, a, n)
      BY <1>2, <1>7, <2>1, Zenon
    <3>2. SameSpan(of, a, source, i, n)
      BY <2>5 DEF SameSpan
    <3> QED
      BY <3>1, <3>2, SameBytes, Zenon DEF SameCharacter
  <2>7. n \in 1..4
    OBVIOUS
  <2> QED
    BY <1>4, <2>6, <2>7, Zenon
<1>10. ~WellFormedFrom(of)[a]
  <2>1. a \in 1..(Len(of) + 1) /\ a # Len(of) + 1
    BY <1>7, <1>8
  <2> QED
    BY <1>8, <1>9, <2>1, WellFormedEquation, Zenon
<1>11. ~WellFormedFrom(source)[i]
  <2>1. i \in 1..(Len(source) + 1) /\ i # Len(source) + 1
    BY <1>2
  <2> QED
    BY <1>2, <2>1, WellFormedEquation, Zenon
<1> QED
  BY <1>7, <1>10, <1>11, Zenon DEF Aligned

\* The end of both.
LEMMA EndAligned ==
  ASSUME NEW V, NEW e, NEW t, IsRecord(V, e, t), Aligned(V, e, t, Len(source) + 1)
  PROVE  WellFormedUTF8(source) /\ WellFormedUTF8(of) /\ Alike(Chars(t), Points(source))
<1>1. WriterInv /\ IsWritten(t) /\ Len(source) + 1 \in V
  BY DEF IsRecord, Aligned
<1>2. source \in Seq(Int) /\ Len(source) + 1 \in 1..(Len(source) + 1)
  BY <1>1, SourceInts
<1>3. of \in Seq(Int) /\ Len(of) + 1 \in 1..(Len(of) + 1)
  <2>1. of \in Seq(Int) /\ Len(of) \in Nat
    BY <1>1, OctetSeq DEF WriterInv, WriterTypeOK
  <2> QED
    BY <2>1
<1>4. e[Len(source) + 1] = Len(of) + 1
  BY <1>1, RecordPlaces
<1>5. WellFormedFrom(source)[Len(source) + 1] /\ WellFormedFrom(of)[Len(of) + 1]
  BY <1>2, <1>3, WellFormedEquation, Zenon
<1>6. WellFormedUTF8(source) /\ WellFormedUTF8(of)
  BY <1>4, <1>5, Zenon DEF Aligned
<1>7. PICK cs, ps : Agree(cs, ps, t, Len(of) + 1, Len(source) + 1)
  BY <1>4, Zenon DEF Aligned
<1>8. PointsFrom(source)[Len(source) + 1] = <<>>
  BY <1>2, PointsEquation, Zenon
<1>9. CharsFrom(t)[Len(of) + 1] = <<>>
  <2>1. IsText(t) /\ t[Len(of) + 1] = 34 /\ Len(of) \in Nat /\ Len(t) = Len(of) + 2
    BY <1>1, WrittenText, Zenon
  <2>2. Len(of) + 1 \in 1..Len(t)
    BY <2>1
  <2> QED
    BY <2>1, <2>2, CharsEquation, Zenon
<1>10. cs \in Seq(CharSet) /\ ps \in Seq(CharSet) /\ Alike(cs, ps)
  BY <1>7 DEF Agree, Alike
<1>11. cs \o <<>> = cs /\ ps \o <<>> = ps
  BY <1>10
<1>12. Chars(t) = cs /\ Points(source) = ps
  BY <1>7, <1>8, <1>9, <1>11, Zenon DEF Agree
<1> QED
  BY <1>6, <1>10, <1>12, Zenon

\* What has been written is UTF-8 if and only if the string is, and then its
\* characters are those of the string: of the places that are aligned, the last
\* one is the end, or one that is no character.
LEMMA ReadBack ==
  ASSUME WriterInv, HasTrace, io = Len(source) + 1
  PROVE  /\ WellFormedUTF8(source) <=> WellFormedUTF8(of)
         /\ WellFormedUTF8(source) => Alike(Chars(of \o <<34, 0>>), Points(source))
<1>1. PICK V, e : IsTrace(V, e)
  BY DEF HasTrace
<1>2. PICK t : t = of \o <<34, 0>>
  OBVIOUS
<1>3. IsRecord(V, e, t) /\ Len(source) \in Nat
  BY <1>1, <1>2, SourceInts DEF IsRecord, IsWritten
<1>4. Aligned(V, e, t, 1)
  <2>1. 1 \in V /\ e[1] = 1
    BY <1>1 DEF IsTrace
  <2>2. Chars(t) = <<>> \o CharsFrom(t)[1]
    <3>1. IsText(t)
      BY <1>2, WrittenText DEF IsWritten
    <3> QED
      BY <3>1, NothingRead
  <2>3. Points(source) = <<>> \o PointsFrom(source)[1]
    <3>1. source \in Seq(Int) /\ 1 \in 1..(Len(source) + 1)
      BY <1>3, SourceInts
    <3>2. PointsFrom(source)[1] \in Seq(CharSet)
      BY <3>1, PointsEquation, Zenon
    <3> QED
      BY <3>2 DEF Points
  <2>4. Agree(<<>>, <<>>, t, e[1], 1)
    BY <2>1, <2>2, <2>3, AlikeEmpty, Zenon DEF Agree
  <2> QED
    BY <2>1, <2>4, Zenon DEF Aligned, WellFormedUTF8
<1>5. PICK i : Aligned(V, e, t, i) /\ ~\E j : Aligned(V, e, t, j) /\ j > i
  <2>1. \A j : Aligned(V, e, t, j) => j \in 1..(Len(source) + 1)
    BY <1>3, RecordPlaces, Zenon DEF Aligned
  <2>2. PICK T : T = {k \in Nat : Aligned(V, e, t, Len(source) + 1 - k)}
    OBVIOUS
  <2>3. Len(source) \in T
    <3>1. Len(source) + 1 - Len(source) = 1
      BY <1>3
    <3> QED
      BY <1>3, <1>4, <2>2, <3>1
  <2>4. PICK k \in T : \A y \in T : k <= y
    BY <2>2, <2>3, LeastNumber
  <2>5. ASSUME NEW j, Aligned(V, e, t, j), j > Len(source) + 1 - k PROVE FALSE
    <3>1. j \in 1..(Len(source) + 1) /\ k \in Nat
      BY <2>1, <2>2, <2>4, <2>5
    <3>2. PICK y \in Nat : y = Len(source) + 1 - j /\ Len(source) + 1 - y = j /\ ~(k <= y)
      BY <1>3, <2>5, <3>1
    <3> QED
      BY <2>2, <2>4, <2>5, <3>2
  <2> QED
    BY <2>2, <2>4, <2>5
<1>6. CASE i = Len(source) + 1
  BY <1>2, <1>3, <1>5, <1>6, EndAligned, Zenon
<1>7. CASE i # Len(source) + 1
  <2>1. i \in V
    BY <1>5 DEF Aligned
  <2>2. /\ i \in 1..Len(source) /\ source[i] \in Nat
        /\ CopiedAt(V, e, i) \/ EscapedAt(V, e, i)
    BY <1>3, <1>7, <2>1, RecordPlaces, Zenon
  <2>3. ~(source[i] < 128)
    BY <1>3, <1>5, <2>2, PlainStep, Zenon
  <2>4. ~EscapedAt(V, e, i)
    BY <1>3, <1>5, <2>2, EscapedStep, Zenon
  <2>5. source[i] >= 128 /\ source \in Seq(Int)
    BY <2>2, <2>3, SourceInts
  <2>6. EncodedWidth(source, i) = 0
    <3>1. ASSUME EncodedWidth(source, i) # 0, style.ascii PROVE FALSE
      <4>1. source[i] \in 192..253
        BY <2>2, <2>5, <3>1, HighByte, Zenon
      <4> QED
        BY <2>2, <2>4, <3>1, <4>1 DEF CopiedAt
    <3>2. ASSUME EncodedWidth(source, i) # 0, ~style.ascii PROVE FALSE
      BY <1>3, <1>5, <2>2, <2>5, <3>2, CopiedStep, Zenon
    <3> QED
      BY <3>1, <3>2
  <2> QED
    BY <1>3, <1>5, <2>2, <2>6, NoneAligned, Zenon
<1> QED
  BY <1>6, <1>7

\* What loads is given, and whether it is.
IsPassed ==
  /\ verdict \in {"none", "FALSE"} => result = "idle"
  /\ verdict = "TRUE" /\ result # "idle" =>
       IF WellFormedUTF8(of)
       THEN text = of \o <<34, 0>> /\ result # "UnicodeDecodeError"
       ELSE result = "UnicodeDecodeError"

\* A string written and read again is the same, surrogates apart that stand for
\* one character and have been escaped; one that is not UTF-8 is refused by dumps
\* or by CPython: for every string and all options.
THEOREM RoundTripCorrect == CodecSpec => []RoundTrip
<1>1. CodecInit => HasTrace /\ Refuses /\ IsPassed
  <2> SUFFICES ASSUME CodecInit PROVE HasTrace /\ Refuses /\ IsPassed
    OBVIOUS
  <2>1. CASE WriterInit /\ Idle
    <3>1. io = 1 /\ of = <<>> /\ verdict = "none" /\ result = "idle"
      BY <2>1 DEF WriterInit, Idle
    <3> QED
      BY <3>1, TraceStart DEF IsPassed
  <2>2. CASE ReaderInit /\ io = 1 /\ of = <<>> /\ verdict = "unused"
    BY <2>2, TraceStart DEF IsPassed
  <2> QED
    BY <2>1, <2>2 DEF CodecInit
<1>2. CodecInv /\ HasTrace /\ Refuses /\ IsPassed /\ [CodecNext]_codecVars
        => HasTrace' /\ Refuses' /\ IsPassed'
  <2> SUFFICES ASSUME CodecInv, HasTrace, Refuses, IsPassed, [CodecNext]_codecVars
               PROVE  HasTrace' /\ Refuses' /\ IsPassed'
    OBVIOUS
  <2>1. [WriterNext]_writerVars
    BY DEF CodecNext, Encode, Decode, Pass, codecVars
  <2>2. HasTrace' /\ Refuses'
    BY <2>1, TraceStep DEF CodecInv
  <2>3. IsPassed'
    <3>1. CASE Encode
      <4>1. verdict = "none" /\ result = "idle" /\ result' = result
        BY <3>1 DEF Encode, WriterNext, IsPassed, readerVars
      <4> QED
        BY <4>1 DEF IsPassed
    <3>2. CASE Pass
      <4>1. verdict' = "TRUE" /\ of' = of
        BY <3>2 DEF Pass, writerVars
      <4>2. IF WellFormedUTF8(of)
            THEN text' = of \o <<34, 0>> /\ result' = "none"
            ELSE result' = "UnicodeDecodeError"
        BY <3>2, Zenon DEF Pass
      <4> QED
        BY <4>1, <4>2, Zenon DEF IsPassed
    <3>3. CASE Decode
      <4>1. verdict' = verdict /\ of' = of /\ result = "none"
        BY <3>3 DEF Decode, ReaderNext, writerVars
      <4>2. text' = text /\ result' \in {"none", "str", "error"}
        BY <3>3, <4>1 DEF Decode, ReaderNext, CloseQuote, Character, Copy, RejectByte, CopySequence,
                          RejectSequence, CopyEscape, RejectEscape, CopyUnicodeEscape, Advance, SetError
      <4>3. verdict \notin {"none", "FALSE"}
        BY <4>1 DEF IsPassed
      <4> QED
        BY <4>1, <4>2, <4>3, Zenon DEF IsPassed
    <3>4. CASE UNCHANGED codecVars
      BY <3>4, Zenon DEF IsPassed, codecVars, writerVars, readerVars
    <3> QED
      BY <3>1, <3>2, <3>3, <3>4 DEF CodecNext
  <2> QED
    BY <2>2, <2>3
<1>3. CodecInv /\ HasTrace /\ Refuses /\ IsPassed /\ DecodesText => RoundTrip
  <2> SUFFICES ASSUME CodecInv, HasTrace, Refuses, IsPassed, DecodesText,
                      verdict # "unused", verdict = "FALSE" \/ result \notin {"idle", "none"}
               PROVE  IF WellFormedUTF8(source)
                      THEN result = "str" /\ out = Paired(Points(source))
                      ELSE result # "str"
    BY Zenon DEF RoundTrip
  <2>1. WriterInv /\ verdict \in {"none", "TRUE", "FALSE", "unused"}
        /\ result \in {"none", "str", "error", "idle", "UnicodeDecodeError"}
    BY DEF CodecInv, WriterInv, WriterTypeOK, ReaderInv, ReaderTypeOK
  <2>2. CASE verdict = "FALSE"
    BY <2>2, Zenon DEF Refuses, IsPassed
  <2>3. CASE verdict = "TRUE" /\ result \notin {"idle", "none"}
    <3>1. io = Len(source) + 1
      BY <2>3 DEF Refuses
    <3>2. /\ WellFormedUTF8(source) <=> WellFormedUTF8(of)
          /\ WellFormedUTF8(source) => Alike(Chars(of \o <<34, 0>>), Points(source))
      BY <2>1, <3>1, ReadBack, Zenon
    <3>3. CASE WellFormedUTF8(source)
      <4>1. text = of \o <<34, 0>> /\ result \in {"str", "error"}
        BY <2>1, <2>3, <3>2, <3>3 DEF IsPassed
      <4>2. Alike(Chars(text), Points(source))
        BY <3>2, <3>3, <4>1
      <4>3. /\ ~(Chars(text) # <<>> /\ Chars(text)[Len(Chars(text))] = NoChar)
            /\ Paired(Chars(text)) = Paired(Points(source))
        BY <4>2, Zenon DEF Alike
      <4>4. result = "str" /\ out = Paired(Chars(text))
        BY <4>1, <4>3, Zenon DEF DecodesText
      <4> QED
        BY <3>3, <4>3, <4>4
    <3>4. CASE ~WellFormedUTF8(source)
      <4>1. result = "UnicodeDecodeError"
        BY <2>3, <3>2, <3>4 DEF IsPassed
      <4> QED
        BY <3>4, <4>1
    <3> QED
      BY <3>3, <3>4
  <2>4. verdict = "none" => result = "idle"
    BY DEF IsPassed
  <2> QED
    BY <2>1, <2>2, <2>3, <2>4
<1> QED
  BY <1>1, <1>2, <1>3, CodecInvariant, DecodesTextCorrect, PTL DEF CodecSpec
=============================================================================
