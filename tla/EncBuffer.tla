------------------------------ MODULE EncBuffer ------------------------------
(***************************************************************************)
(* The output buffer of ultrajsonenc.c: what encode() reserves, what it    *)
(* writes, and how the buffer grows.                                       *)
(*                                                                         *)
(* The output is its length.  Each step of encode() that reserves space    *)
(* ends at a Reserve, and each step that writes begins behind one; pc      *)
(* names the place.  What is encoded is chosen as encode() goes along.     *)
(*                                                                         *)
(* A definition marked "Mutant" is its successor with a bug; it is used by *)
(* no definition here and shows which property catches the bug.            *)
(***************************************************************************)
EXTENDS Integers, Sequences

CONSTANTS
  Formats,       \* the indentations and lengths of separators considered
  InitialSize,   \* sizeof(buffer) in objToJSON
  Fixed,         \* what encode() reserves for a bracket, a number or a constant
  Scalars,       \* lengths of numbers and constants
  Texts,         \* lengths of keys, strings and raw JSON
  RecursionMax,  \* JSON_MAX_RECURSION_DEPTH
  MaxCount,      \* bound on the elements of a container
  Failures       \* which of "malloc" and "realloc" may fail

ASSUME BufferAssumption ==
  /\ \A f \in Formats : f \in [indent : Nat, itemSep : Nat, keySep : Nat]
  /\ InitialSize \in Nat \ {0}
  /\ Fixed \in Nat \ {0}
  /\ Scalars \subseteq 1..Fixed
  /\ Texts \subseteq Nat
  /\ RecursionMax \in Nat
  /\ MaxCount \in Nat
  /\ Failures \subseteq {"malloc", "realloc"}

VARIABLES
  fmt,        \* enc->indent (negative as 0) and the lengths of the separators
  pc,         \* where the innermost encode() is
  name,       \* its argument name: NULL or a key
  stack,      \* activations of encode() in the loop over a container
  level,      \* enc->level
  errorMsg,   \* enc->errorMsg
  cb,         \* length of the key, string or raw JSON being written
  start,      \* enc->start: the caller's buffer, a block of the heap or NULL
  size,       \* enc->end, and
  offset,     \* enc->offset, relative to where the buffer starts
  need,       \* cbNeeded of a Buffer_Realloc,
  newSize,    \* its newSize
  after,      \* and where it returns to
  blocks,     \* blocks of the heap not released (history)
  moved       \* bytes copied from one buffer to the next (history)

encodeVars == <<name, stack, level, errorMsg, cb>>
bufferVars == <<start, size, offset>>
growVars == <<need, newSize, after>>
historyVars == <<blocks, moved>>
vars == <<fmt, pc, encodeVars, bufferVars, growVars, historyVars>>

-----------------------------------------------------------------------------
(* Reserving and writing. *)

\* RESERVE_STRING: the quotes and six bytes for each byte of the string.
ReserveString(n) == 2 + 6 * n

\* Indentation of a level; a frame of the loop knows what an element needs.
Pad(l) == fmt.indent * l

\* Reserved before each element: separator, newline, indentation.
ItemReserve(l) == Pad(l + 1) + fmt.itemSep + 1

Frame(type) == [type |-> type, reserve |-> ItemReserve(level), count |-> 0]
Top == stack[Len(stack)]
Pop == SubSeq(stack, 1, Len(stack) - 1)

\* Buffer_Reserve.  The difference is compared unsigned: a buffer that was
\* overrun has room for anything.
HasRoom(n) == offset > size \/ size - offset >= n

Reserve(n, next) ==
  IF HasRoom(n)
  THEN pc' = next /\ UNCHANGED growVars
  ELSE /\ pc' = "grow"
       /\ need' = n
       /\ newSize' = size
       /\ after' = next

Write(n) ==
  /\ offset' = offset + n
  /\ UNCHANGED <<start, size>>

\* SetError, in the functions of the buffer and elsewhere.
SetError(message) == errorMsg' = message

-----------------------------------------------------------------------------
Init ==
  /\ fmt \in Formats
  /\ pc = "encode"
  /\ name = "NULL"
  /\ stack = <<>>
  /\ level = 0
  /\ errorMsg = "none"
  /\ cb = 0
  /\ start = "given"
  /\ size = InitialSize
  /\ offset = 0
  /\ need = 0
  /\ newSize = 0
  /\ after = "done"
  /\ blocks = 0
  /\ moved = 0

(* Buffer_Realloc. *)

\* Mutants: newSize grows by what is in the buffer, or by what is needed.
DoubleByOffset ==
  /\ pc = "grow"
  /\ newSize < size + need
  /\ newSize' = newSize + offset
  /\ UNCHANGED <<fmt, pc, encodeVars, bufferVars, need, after, historyVars>>
GrowByNeed ==
  /\ pc = "grow"
  /\ newSize < size + need
  /\ newSize' = newSize + need
  /\ UNCHANGED <<fmt, pc, encodeVars, bufferVars, need, after, historyVars>>

\* while (newSize < curSize + cbNeeded) newSize *= 2
Double ==
  /\ pc = "grow"
  /\ newSize < size + need
  /\ newSize' = newSize * 2
  /\ UNCHANGED <<fmt, pc, encodeVars, bufferVars, need, after, historyVars>>

Allocator == IF start = "given" THEN "malloc" ELSE "realloc"

\* malloc and a copy of what was written, or realloc, which moves the block.
Allocate ==
  /\ pc = "grow"
  /\ newSize >= size + need
  /\ start # "NULL"
  /\ start' = "block"
  /\ size' = newSize
  /\ blocks' = IF start = "given" THEN blocks + 1 ELSE blocks
  /\ moved' = moved + (IF start = "given" THEN offset ELSE size)
  /\ pc' = after
  /\ UNCHANGED <<fmt, encodeVars, offset, growVars>>

\* enc->start becomes NULL, the other pointers stay.  A later call computes
\* the size as the distance from NULL and asks for more than there can be.
FailToAllocate ==
  /\ pc = "grow"
  /\ newSize >= size + need
  /\ start = "NULL" \/ Allocator \in Failures
  /\ start' = "NULL"
  /\ SetError("Could not reserve memory block")
  /\ pc' = after
  /\ UNCHANGED <<fmt, name, stack, level, cb, size, offset, growVars, historyVars>>

-----------------------------------------------------------------------------
(* encode(): its head and the switch over the types. *)

TooDeep ==
  /\ pc = "encode"
  /\ level > RecursionMax
  /\ SetError("Maximum recursion level reached")
  /\ pc' = "return"
  /\ UNCHANGED <<fmt, name, stack, level, cb, bufferVars, growVars, historyVars>>

\* encode() is entered with an error recorded when the reservation for an
\* element failed.
AlreadyFailed ==
  /\ pc = "encode"
  /\ level <= RecursionMax
  /\ errorMsg # "none"
  /\ pc' = "return"
  /\ UNCHANGED <<fmt, encodeVars, bufferVars, growVars, historyVars>>

Entered == pc = "encode" /\ level <= RecursionMax /\ errorMsg = "none"

ReserveName ==
  /\ Entered
  /\ name = "key"
  /\ \E n \in Texts :
       /\ cb' = n
       /\ Reserve(ReserveString(n) + fmt.keySep, "name")
  /\ UNCHANGED <<fmt, name, stack, level, errorMsg, bufferVars, historyVars>>

\* A string of n bytes is escaped into n bytes at least and 6 * n at most.
WriteName ==
  /\ pc = "name"
  /\ \E w \in cb..(6 * cb) : Write(2 + w + fmt.keySep)
  /\ pc' = "begin"
  /\ UNCHANGED <<fmt, encodeVars, growVars, historyVars>>

\* Buffer_EscapeStringValidated refuses the name after some of its bytes.
BadName ==
  /\ pc = "name"
  /\ cb > 0
  /\ \E w \in 0..(6 * (cb - 1)) : Write(1 + w)
  /\ SetError("Invalid UTF-8")
  /\ pc' = "return"
  /\ UNCHANGED <<fmt, name, stack, level, cb, growVars, historyVars>>

\* beginTypeContext writes nothing; Buffer_Reserve(enc, 128) follows it.
ReserveFixed ==
  /\ pc = "begin" \/ (Entered /\ name = "NULL")
  /\ Reserve(Fixed, "switch")
  /\ UNCHANGED <<fmt, encodeVars, bufferVars, historyVars>>

\* JT_INVALID, and a double that dconv_d2s refuses.
Refuse ==
  /\ pc = "switch"
  /\ SetError("Invalid")
  /\ level' = level - 1
  /\ pc' = "return"
  /\ UNCHANGED <<fmt, name, stack, cb, bufferVars, growVars, historyVars>>

EncodeScalar ==
  /\ pc = "switch"
  /\ \E w \in Scalars : Write(w)
  /\ level' = level - 1
  /\ pc' = "return"
  /\ UNCHANGED <<fmt, name, stack, errorMsg, cb, growVars, historyVars>>

\* getStringValue returns NULL: the level is not counted down.
NoStringValue ==
  /\ pc = "switch"
  /\ SetError("utf-8 encoding error")
  /\ pc' = "return"
  /\ UNCHANGED <<fmt, name, stack, level, cb, bufferVars, growVars, historyVars>>

\* Mutant: the length of the string is reserved as if nothing were escaped.
ReserveTextPlain ==
  /\ pc = "switch"
  /\ \E n \in Texts :
       /\ cb' = n
       /\ Reserve(2 + n, "text") \/ Reserve(n, "raw")
  /\ UNCHANGED <<fmt, name, stack, level, errorMsg, bufferVars, historyVars>>

\* JT_UTF8 and JT_RAW.
ReserveText ==
  /\ pc = "switch"
  /\ \E n \in Texts :
       /\ cb' = n
       /\ Reserve(ReserveString(n), "text") \/ Reserve(n, "raw")
  /\ UNCHANGED <<fmt, name, stack, level, errorMsg, bufferVars, historyVars>>

\* Here, and only here, errorMsg is looked at after a reservation.
TextFailed ==
  /\ pc \in {"text", "raw"}
  /\ errorMsg # "none"
  /\ pc' = "return"
  /\ UNCHANGED <<fmt, encodeVars, bufferVars, growVars, historyVars>>

WriteText ==
  /\ pc \in {"text", "raw"}
  /\ errorMsg = "none"
  /\ \E w \in cb..(6 * cb) : Write(IF pc = "text" THEN 2 + w ELSE cb)
  /\ level' = level - 1
  /\ pc' = "return"
  /\ UNCHANGED <<fmt, name, stack, errorMsg, cb, growVars, historyVars>>

BadText ==
  /\ pc = "text"
  /\ errorMsg = "none"
  /\ cb > 0
  /\ \E w \in 0..(6 * (cb - 1)) : Write(1 + w)
  /\ SetError("Invalid UTF-8")
  /\ level' = level - 1
  /\ pc' = "return"
  /\ UNCHANGED <<fmt, name, stack, cb, growVars, historyVars>>

-----------------------------------------------------------------------------
(* encode(): the loops over lists and dictionaries. *)

OpenContainer ==
  /\ pc = "switch"
  /\ Write(1)
  /\ \E type \in {"array", "object"} : stack' = Append(stack, Frame(type))
  /\ pc' = "next"
  /\ UNCHANGED <<fmt, name, level, errorMsg, cb, growVars, historyVars>>

\* iterNext has an element, or fails: both reserve.
ReserveItem ==
  /\ pc = "next"
  /\ Top.count < MaxCount
  /\ Reserve(Top.reserve, "item")
  /\ UNCHANGED <<fmt, encodeVars, bufferVars, historyVars>>

\* The separator, the newline and the indentation of the element.
WriteItem ==
  /\ pc = "item"
  /\ Write((IF Top.count > 0 THEN fmt.itemSep ELSE 0)
           + (IF fmt.indent > 0 THEN 1 ELSE 0) + Pad(level + 1))
  /\ level' = level + 1
  /\ name' = IF Top.type = "object" THEN "key" ELSE "NULL"
  /\ pc' = "encode"
  /\ UNCHANGED <<fmt, stack, errorMsg, cb, growVars, historyVars>>

\* iterNext of a dictionary returned -1.
IteratorFails ==
  /\ pc = "item"
  /\ Top.type = "object"
  /\ stack' = Pop
  /\ level' = level - 1
  /\ pc' = "return"
  /\ UNCHANGED <<fmt, name, errorMsg, cb, bufferVars, growVars, historyVars>>

ElementDone ==
  /\ pc = "return"
  /\ stack # <<>>
  /\ errorMsg = "none"
  /\ stack' = [stack EXCEPT ![Len(stack)].count = @ + 1]
  /\ pc' = "next"
  /\ UNCHANGED <<fmt, name, level, errorMsg, cb, bufferVars, growVars, historyVars>>

ElementFailed ==
  /\ pc = "return"
  /\ stack # <<>>
  /\ errorMsg # "none"
  /\ stack' = Pop
  /\ level' = level - 1
  /\ UNCHANGED <<fmt, pc, name, errorMsg, cb, bufferVars, growVars, historyVars>>

\* The end of the loop: the closing bracket goes on a line of its own if the
\* container has elements.
ReserveIndent ==
  /\ pc = "next"
  /\ IF Top.count > 0 /\ fmt.indent > 0
     THEN Reserve(Pad(level) + 1, "indent")
     ELSE pc' = "close" /\ UNCHANGED growVars
  /\ UNCHANGED <<fmt, encodeVars, bufferVars, historyVars>>

WriteIndent ==
  /\ pc = "indent"
  /\ Write(1 + Pad(level))
  /\ pc' = "close"
  /\ UNCHANGED <<fmt, encodeVars, growVars, historyVars>>

ReserveBracket ==
  /\ pc = "close"
  /\ Reserve(1, "bracket")
  /\ UNCHANGED <<fmt, encodeVars, bufferVars, historyVars>>

CloseContainer ==
  /\ pc = "bracket"
  /\ Write(1)
  /\ stack' = Pop
  /\ level' = level - 1
  /\ pc' = "return"
  /\ UNCHANGED <<fmt, name, errorMsg, cb, growVars, historyVars>>

\* Mutant: objToJSON relies on JSON_EncodeObject to free the block.
FinishFreeingOnError ==
  /\ pc = "return"
  /\ stack = <<>>
  /\ blocks' = IF start = "block" /\ errorMsg # "none" THEN blocks - 1 ELSE blocks
  /\ pc' = "done"
  /\ UNCHANGED <<fmt, encodeVars, bufferVars, growVars, moved>>

\* JSON_EncodeObject frees a block when there is an error, objToJSON when it
\* has made a str of it or finds an exception.
Finish ==
  /\ pc = "return"
  /\ stack = <<>>
  /\ blocks' = IF start = "block" THEN blocks - 1 ELSE blocks
  /\ pc' = "done"
  /\ UNCHANGED <<fmt, encodeVars, bufferVars, growVars, moved>>

-----------------------------------------------------------------------------
Grow == Double \/ Allocate \/ FailToAllocate
Enter == TooDeep \/ AlreadyFailed \/ ReserveName \/ WriteName \/ BadName \/ ReserveFixed
Switch ==
  \/ Refuse \/ EncodeScalar \/ NoStringValue \/ ReserveText \/ TextFailed \/ WriteText
  \/ BadText \/ OpenContainer
Loop ==
  \/ ReserveItem \/ WriteItem \/ IteratorFails \/ ElementDone \/ ElementFailed
  \/ ReserveIndent \/ WriteIndent \/ ReserveBracket \/ CloseContainer

Next == Grow \/ Enter \/ Switch \/ Loop \/ Finish

Spec == Init /\ [][Next]_vars

\* A C function that can run runs on, and objects are finite (MaxCount).
FairSpec == Spec /\ WF_vars(Next)

-----------------------------------------------------------------------------
(* Invariants. *)

Writing == {"name", "switch", "text", "raw", "item", "indent", "bracket"}
Frames == [type : {"array", "object"}, reserve : Nat, count : Nat]
Errors == {"none", "Could not reserve memory block", "Maximum recursion level reached",
           "Invalid UTF-8", "Invalid", "utf-8 encoding error"}

\* The variables hold values of their types.
TypeOK ==
  /\ fmt \in Formats
  /\ pc \in Writing \union {"encode", "begin", "next", "close", "grow", "return", "done"}
  /\ name \in {"NULL", "key"}
  /\ stack \in Seq(Frames)
  /\ level \in Int
  /\ errorMsg \in Errors
  /\ cb \in Nat
  /\ start \in {"given", "block", "NULL"}
  /\ size \in Nat \ {0} /\ offset \in Nat
  /\ need \in Nat /\ newSize \in Nat
  /\ after \in Writing \union {"done"}
  /\ blocks \in Nat /\ moved \in Nat

\* Unless an allocation failed, everything encode() writes, unchecked, is
\* inside the buffer: each write is covered by a reservation made before it,
\* perhaps with another level, another indentation or another encode() between.
Covered == start # "NULL" => offset <= size

\* However often the buffer is moved, copying it costs no more than the size it
\* has in the end.
MovesLinear == moved <= size

\* When dumps returns every block has been freed, by JSON_EncodeObject after
\* an error and by objToJSON otherwise.
Released == pc = "done" => blocks = 0

(* Liveness. *)

\* Every dumps returns: the loop of Buffer_Realloc reaches what is needed, and
\* nested containers do not keep each other going.
Returns == <>(pc = "done")
=============================================================================
