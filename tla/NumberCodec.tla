----------------------------- MODULE NumberCodec -----------------------------
(***************************************************************************)
(* An int is written by the encoder and read back by the decoder:          *)
(* IntegerWriter, then NumberReader on what it wrote; or NumberReader      *)
(* alone on one of its own inputs.                                         *)
(***************************************************************************)
EXTENDS IntegerWriter, NumberReader

ASSUME CodecAssumption == Maximum = Half - 1

codecVars == <<writerVars, readerVars>>

Idle ==
  /\ text = <<0>>
  /\ pos = 1
  /\ phase = "idle"
  /\ intNeg = 1
  /\ intValue = 0
  /\ hasError = 0
  /\ result = NoCall
  /\ value = 0

\* dumps is given an int, or loads a text that dumps has not written.
CodecInit ==
  \/ WriterInit /\ Idle
  \/ ReaderInit /\ number = 0 /\ type = "none" /\ uvalue = 0 /\ wstr = <<>> /\ step = "unused"

\* dumps, loads of what it returned, and decode_numeric.
Write == WriterNext /\ UNCHANGED readerVars
Pass ==
  /\ step = "done" /\ phase = "idle"
  /\ text' = Append(wstr, 0)
  /\ phase' = "start"
  /\ UNCHANGED <<writerVars, pos, intNeg, intValue, hasError, result, value>>
Read == phase # "idle" /\ ReaderNext /\ UNCHANGED writerVars

CodecNext == Write \/ Pass \/ Read

CodecSpec == CodecInit /\ [][CodecNext]_codecVars

-----------------------------------------------------------------------------
(* Invariant. *)

\* The ints that no integer type holds: the limits on digits are about these.
Big(n) == n \notin (0 - Half)..(Modulus - 1)

\* loads returns the int that dumps was given, at the limits of each type and
\* beyond them, and by the constructor that goes with the type it was written as.
\* Only one that no type holds may be refused, by dumps or by loads, and it is
\* exactly if it has more digits than the interpreter converts at that moment.
IntRoundTrip ==
  /\ step \in {"done", "raised"} =>
       (step = "raised" <=> Big(number) /\ Beyond(number, WriteDigits))
  /\ phase = "done" /\ step = "done" =>
       IF Big(number) /\ Beyond(number, ReadDigits)
       THEN result.by = "ValueError"
       ELSE /\ result.arg = number
            /\ type = "JT_LONG" <=> result.by \in {"newInt", "newLong"}
            /\ type = "JT_ULONG" <=> result.by = "newUnsignedLong"
            /\ type = "JT_RAW" <=> result.by = "newIntegerFromString"
=============================================================================
