----------------------------- MODULE StringCodec -----------------------------
(***************************************************************************)
(* A string is written by the encoder, made part of a str by CPython, and  *)
(* read back by the decoder: StringWriter, then StringReader on what it    *)
(* wrote; or StringReader alone on one of its own inputs.                  *)
(***************************************************************************)
EXTENDS StringWriter, StringReader

codecVars == <<writerVars, readerVars>>

Idle ==
  /\ text = <<0>>
  /\ pos = 1
  /\ out = <<>>
  /\ lastHigh = 0
  /\ result = "idle"

\* dumps is given a string, or loads a text that dumps has not written.
CodecInit ==
  \/ WriterInit /\ Idle
  \/ /\ ReaderInit
     /\ source = <<>> /\ style = CHOOSE s \in Styles : TRUE
     /\ io = 1 /\ of = <<>> /\ verdict = "unused"

\* encode() and decode_string, one after the other.
Encode == WriterNext /\ UNCHANGED readerVars
Decode == ReaderNext /\ UNCHANGED writerVars

\* dumps makes a str of what was written, and loads decodes it.
Pass ==
  /\ verdict = "TRUE" /\ result = "idle"
  /\ IF WellFormedUTF8(of)
     THEN text' = of \o <<34, 0>> /\ result' = "none"
     ELSE UNCHANGED text /\ result' = "UnicodeDecodeError"
  /\ UNCHANGED <<writerVars, pos, out, lastHigh>>

CodecNext == Encode \/ Pass \/ Decode

CodecSpec == CodecInit /\ [][CodecNext]_codecVars
=============================================================================
