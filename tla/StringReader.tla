---------------------------- MODULE StringReader ----------------------------
(***************************************************************************)
(* decode_string of ultrajsondec.c: the text of one JSON string, byte by   *)
(* byte, into the code points of the escape buffer.                        *)
(*                                                                         *)
(* text is what follows the opening quote, up to the NUL behind the        *)
(* document.  A step is one iteration of the loop.                         *)
(*                                                                         *)
(* A definition marked "Mutant" is its successor with a bug; it is used by *)
(* no definition here and shows which property catches the bug.            *)
(***************************************************************************)
EXTENDS Unicode

CONSTANT Inputs   \* the texts considered

Bytes == 0..255
IsText(t) == t \in Seq(Bytes) /\ Len(t) > 0 /\ t[Len(t)] = 0

ASSUME ReaderAssumption == \A t \in Inputs : IsText(t)

VARIABLES
  text,       \* the document from ds->start on
  pos,        \* inputOffset, as an index into text
  out,        \* the code points from escStart to escOffset
  lastHigh,   \* lastHighSurrogate, 0 for NULL
  result      \* "none" while the loop runs, then "str" or "error"; in
              \* StringCodec "idle" before it runs, "UnicodeDecodeError" if
              \* it never does

readerVars == <<text, pos, out, lastHigh, result>>

-----------------------------------------------------------------------------
(* Characters. *)

Byte == text[pos]

\* g_decoderLookup: bytes that are a character, and leads of UTF-8 sequences.
Plain == (1..127) \ {34, 92}
Leads(n) == CASE n = 2 -> 192..223 [] n = 3 -> 224..239 [] n = 4 -> 240..244
Continuation == 128..191

\* The bits of a lead and of a continuation byte, as they are shifted together.
Sequence(n) ==
  LET bits(j) == text[pos + j] % 64
  IN CASE n = 2 -> (Byte % 32) * 64 + bits(1)
       [] n = 3 -> ((Byte % 16) * 64 + bits(1)) * 64 + bits(2)
       [] n = 4 -> (((Byte % 8) * 64 + bits(1)) * 64 + bits(2)) * 64 + bits(3)

\* Shorter sequences would do for less.
Shortest(n) == CASE n = 2 -> 128 [] n = 3 -> 2048 [] n = 4 -> 65536

\* \ " / b f n r t
Letters == {34, 47, 92, 98, 102, 110, 114, 116}
Escape(b) == CASE b = 98 -> 8 [] b = 102 -> 12 [] b = 110 -> 10 [] b = 114 -> 13 [] b = 116 -> 9
               [] OTHER -> b

HexDigits == (48..57) \union (65..70) \union (97..102)
Hex(b) == IF b <= 57 THEN b - 48 ELSE IF b <= 70 THEN b - 55 ELSE b - 87

\* ch: four digits are shifted in, which shift out what it was before.
CodeUnit == Hex(text[pos + 2]) * 4096 + Hex(text[pos + 3]) * 256
            + Hex(text[pos + 4]) * 16 + Hex(text[pos + 5])

Combine(high, low) == (high - HighStart) * 1024 + (low - LowStart) + 65536

-----------------------------------------------------------------------------
ReaderInit ==
  /\ text \in Inputs
  /\ pos = 1
  /\ out = <<>>
  /\ lastHigh = 0
  /\ result = "none"

Advance(n, code) ==
  /\ pos' = pos + n
  /\ out' = Append(out, code)
  /\ UNCHANGED <<text, result>>

SetError ==
  /\ result' = "error"
  /\ UNCHANGED <<text, pos, out, lastHigh>>

CloseQuote ==
  /\ Byte = 34
  /\ result' = "str"
  /\ pos' = pos + 1
  /\ UNCHANGED <<text, out, lastHigh>>

\* Mutant: the NUL is stored before it is found to be one.
CopyNul ==
  /\ Byte \in Plain \union {0}
  /\ out' = Append(out, Byte)
  /\ IF Byte = 0 THEN pos' = pos /\ result' = "error" ELSE pos' = pos + 1 /\ result' = result
  /\ UNCHANGED <<text, lastHigh>>

Copy ==
  /\ Byte \in Plain
  /\ Advance(1, Byte)
  /\ UNCHANGED lastHigh

\* No character: the NUL, a continuation byte, a lead above U+10FFFF or of a
\* sequence of more than four bytes.
RejectByte ==
  /\ Byte = 0 \/ Byte \in Continuation \/ Byte >= 245
  /\ SetError

\* Bytes are read in order, so that none is read behind the NUL.
IsSequence(n) ==
  /\ text[pos + 1] \in Continuation
  /\ n > 2 => text[pos + 2] \in Continuation
  /\ n > 3 => text[pos + 3] \in Continuation
  /\ Sequence(n) \in Shortest(n)..MaxCodePoint

CopySequence ==
  \E n \in 2..4 :
    /\ Byte \in Leads(n)
    /\ IsSequence(n)
    /\ Advance(n, Sequence(n))
    /\ UNCHANGED lastHigh

RejectSequence ==
  \E n \in 2..4 :
    /\ Byte \in Leads(n)
    /\ ~IsSequence(n)
    /\ SetError

CopyEscape ==
  /\ Byte = 92
  /\ text[pos + 1] \in Letters
  /\ Advance(2, Escape(text[pos + 1]))
  /\ UNCHANGED lastHigh

UnicodeEscape == Byte = 92 /\ text[pos + 1] = 117
HasDigits ==
  /\ text[pos + 2] \in HexDigits /\ text[pos + 3] \in HexDigits
  /\ text[pos + 4] \in HexDigits /\ text[pos + 5] \in HexDigits

RejectEscape ==
  /\ Byte = 92
  /\ text[pos + 1] \notin Letters
  /\ text[pos + 1] = 117 => ~HasDigits
  /\ SetError

\* Mutant: a low surrogate pairs with the last code point if that is a high one.
PairsWithLast == CodeUnit \in LowSurrogates /\ out # <<>> /\ out[Len(out)] \in HighSurrogates

\* A low surrogate pairs if the escape before it was a high one: lastHigh is
\* where that escape ended and this one, six bytes long, begins.
Pairs == CodeUnit \in LowSurrogates /\ lastHigh = pos

\* Mutant: the mask that takes low surrogates for high ones too.
IsHighAnySurrogate(u) == u \in HighSurrogates \union LowSurrogates
IsHigh(u) == u \in HighSurrogates

CopyUnicodeEscape ==
  /\ UnicodeEscape
  /\ HasDigits
  /\ IF Pairs
     THEN out' = [out EXCEPT ![Len(out)] = Combine(@, CodeUnit)]
     ELSE out' = Append(out, CodeUnit)
  /\ lastHigh' = IF IsHigh(CodeUnit) THEN pos + 6 ELSE lastHigh
  /\ pos' = pos + 6
  /\ UNCHANGED <<text, result>>

Character ==
  \/ Copy \/ RejectByte \/ CopySequence \/ RejectSequence \/ CopyEscape \/ RejectEscape
  \/ CopyUnicodeEscape

ReaderNext == result = "none" /\ (CloseQuote \/ Character)

ReaderSpec == ReaderInit /\ [][ReaderNext]_readerVars

-----------------------------------------------------------------------------
(* Invariants. *)

\* The variables hold values of their types; what newString is given are code
\* points of Unicode, also where one was written over another.
ReaderTypeOK ==
  /\ IsText(text)
  /\ pos \in Nat \ {0}
  /\ out \in Seq(0..MaxCodePoint)
  /\ lastHigh \in Nat
  /\ result \in {"none", "str", "error", "idle", "UnicodeDecodeError"}

\* The code points fit into a buffer of one for each byte of the rest of the
\* document, and the scan, which looks for no end, does not pass the NUL.
EscapesFit == Len(out) < pos /\ pos <= Len(text)

\* lastHigh points at the escape to read only if the code point written last is
\* a high surrogate, so that there is one to write over.
PairsWithHigh ==
  lastHigh = pos => out # <<>> /\ out[Len(out)] \in HighSurrogates
=============================================================================
