---------------------------- MODULE StringWriter ----------------------------
(***************************************************************************)
(* Buffer_EscapeStringValidated and Buffer_EscapeStringUnvalidated of      *)
(* ultrajsonenc.c: the bytes of one string into the buffer reserved for    *)
(* it, without the quotes.  A step is one iteration of the loop.           *)
(*                                                                         *)
(* A definition marked "Mutant" is its successor with a bug; it is used by *)
(* no definition here and shows which property catches the bug.            *)
(***************************************************************************)
EXTENDS Unicode

CONSTANTS
  Strings,   \* the strings considered, as bytes
  Styles     \* the options considered

Octets == 0..255
ASSUME WriterAssumption ==
  /\ Strings \subseteq Seq(Octets)
  /\ Styles \subseteq [ascii : BOOLEAN, html : BOOLEAN, slashes : BOOLEAN] /\ Styles # {}

VARIABLES
  source,    \* the string; a NUL follows it
  style,     \* forceASCII, encodeHTMLChars, escapeForwardSlashes
  io,        \* the next byte, as an index into source
  of,        \* the bytes written
  verdict    \* "none" while the loop runs, then TRUE or an error; "unused"
             \* in StringCodec when nothing is written

writerVars == <<source, style, io, of, verdict>>

-----------------------------------------------------------------------------
AtEnd == io > Len(source)
Octet == source[io]
HexDigit(v) == IF v < 10 THEN 48 + v ELSE 87 + v

\* \u and four digits.
Unit(u) == <<92, 117, HexDigit(u \div 4096), HexDigit((u \div 256) % 16),
             HexDigit((u \div 16) % 16), HexDigit(u % 16)>>

\* The letter of a byte that has an escape of its own.
HasLetter == {8, 9, 10, 12, 13, 34, 92}
Letter(b) == CASE b = 8 -> 98 [] b = 9 -> 116 [] b = 10 -> 110 [] b = 12 -> 102 [] b = 13 -> 114
               [] OTHER -> b

IsHTML(b) == style.html /\ b \in {38, 60, 62}
IsSlash(b) == style.slashes /\ b = 47

\* Mutant: the HTML characters are looked up after the plain ones.
OneByteEscapingLate(b) ==
  IF b \in HasLetter THEN <<92, Letter(b)>>
  ELSE IF IsSlash(b) THEN <<92, 47>>
  ELSE IF b < 32 THEN Unit(b)
  ELSE <<b>>

\* What is written for a byte that is not part of a sequence.
OneByte(b) ==
  IF b \in HasLetter THEN <<92, Letter(b)>>
  ELSE IF IsSlash(b) THEN <<92, 47>>
  ELSE IF b < 32 \/ IsHTML(b) THEN Unit(b)
  ELSE <<b>>

\* g_asciiOutputTable: leads of sequences, leads of longer ones than there are;
\* the bytes that are neither are copied, also continuation bytes, 254 and 255.
LeadsOf(n) == CASE n = 2 -> 192..223 [] n = 3 -> 224..239 [] n = 4 -> 240..247
Unsupported == 248..253

\* ucs, as the bits of the sequence are shifted together.
Ucs(n) ==
  CASE n = 2 -> (Octet % 32) * 64 + (source[io + 1] % 64)
    [] n = 3 -> (Octet % 16) * 4096 + (source[io + 1] % 64) * 64 + (source[io + 2] % 64)
    [] n = 4 -> (Octet % 8) * 262144 + (source[io + 1] % 64) * 4096
                + (source[io + 2] % 64) * 64 + (source[io + 3] % 64)
Least(n) == CASE n = 2 -> 128 [] n = 3 -> 2048 [] n = 4 -> 65536

Accepted(n) ==
  /\ io + n - 1 <= Len(source)
  /\ \A i \in 1..(n - 1) : source[io + i] \in 128..191
  /\ Ucs(n) \in Least(n)..MaxCodePoint

\* Mutant: the high half of a pair is not lowered by 0x10000.
EscapedUnshifted(u) ==
  IF u < 65536 THEN Unit(u)
  ELSE Unit(HighStart + u \div 1024) \o Unit(LowStart + ((u - 65536) % 1024))

\* One escape, or a surrogate pair.
Escaped(u) ==
  IF u < 65536 THEN Unit(u)
  ELSE Unit(HighStart + (u - 65536) \div 1024) \o Unit(LowStart + ((u - 65536) % 1024))

-----------------------------------------------------------------------------
WriterInit ==
  /\ source \in Strings
  /\ style \in Styles
  /\ io = 1
  /\ of = <<>>
  /\ verdict = "none"

\* Mutant: only the lead of a sequence is consumed.
PutAfterLead(n, bytes) ==
  /\ io' = io + 1
  /\ of' = of \o bytes
  /\ UNCHANGED <<source, style, verdict>>

Put(n, bytes) ==
  /\ io' = io + n
  /\ of' = of \o bytes
  /\ UNCHANGED <<source, style, verdict>>

Conclude(v) ==
  /\ verdict' = v
  /\ UNCHANGED <<source, style, io, of>>

\* The NUL behind the string, not one in the string.
EndString == AtEnd /\ Conclude("TRUE")

\* Only forceASCII looks at bytes above 127.
WriteByte ==
  /\ ~AtEnd
  /\ style.ascii => Octet \notin 192..253
  /\ Put(1, OneByte(Octet))

WriteSequence ==
  /\ ~AtEnd /\ style.ascii
  /\ \E n \in 2..4 : Octet \in LeadsOf(n) /\ Accepted(n) /\ Put(n, Escaped(Ucs(n)))

RefuseSequence ==
  /\ ~AtEnd /\ style.ascii
  /\ Octet \in Unsupported \/ \E n \in 2..4 : Octet \in LeadsOf(n) /\ ~Accepted(n)
  /\ Conclude("FALSE")

WriterNext ==
  verdict = "none" /\ (EndString \/ WriteByte \/ WriteSequence \/ RefuseSequence)

WriterSpec == WriterInit /\ [][WriterNext]_writerVars

-----------------------------------------------------------------------------
(* Invariants. *)

\* The variables hold values of their types.
WriterTypeOK ==
  /\ source \in Seq(Octets) /\ style \in Styles
  /\ io \in Nat \ {0}
  /\ of \in Seq(Octets)
  /\ verdict \in {"none", "TRUE", "FALSE", "unused"}

\* Every byte of the string becomes one byte at least and six at most, a
\* sequence that becomes a surrogate pair included: what RESERVE_STRING reserves,
\* and what EncBuffer writes, for the bytes read so far.
SixPerByte == Len(of) \in (io - 1)..(6 * (io - 1)) /\ io - 1 <= Len(source)

\* What may follow a backslash that starts an escape: a letter, or u and digits.
EscapeLetters == {34, 47, 92, 98, 102, 110, 114, 116}
LowerHex == (48..57) \union (97..102)
EscapeAt(bytes, i) ==
  \/ i + 1 <= Len(bytes) /\ bytes[i + 1] \in EscapeLetters
  \/ i + 5 <= Len(bytes) /\ bytes[i + 1] = 117 /\ \A j \in 2..5 : bytes[i + j] \in LowerHex

\* bytes can stand inside the quotes of a JSON string, with escapes that start
\* at the indices starts: a quote, and a slash if slashes are escaped, are only
\* written as an escape, and a backslash starts one or is written as one.
Inside(bytes, starts) ==
  /\ \A i \in starts : i \in 1..Len(bytes) /\ bytes[i] = 92 /\ i - 1 \notin starts /\ EscapeAt(bytes, i)
  /\ \A i \in 1..Len(bytes) :
       /\ bytes[i] >= 32 /\ ~IsHTML(bytes[i])
       /\ bytes[i] = 34 \/ IsSlash(bytes[i]) => i - 1 \in starts
       /\ bytes[i] = 92 => i \in starts \/ i - 1 \in starts

\* What is written is the inside of a JSON string, at every moment: no control
\* character, no bare quote, no backslash but in a complete escape; and, if the
\* options ask for it, no & < > and no bare slash.
WellFormed == \E starts \in SUBSET {i \in DOMAIN of : of[i] = 92} : Inside(of, starts)
=============================================================================
