----------------------------- MODULE JSONDecoder -----------------------------
(***************************************************************************)
(* The recursive-descent decoder of ultrajsondec.c driven by the Python    *)
(* binding JSONToObj of JSONtoObj.c: one call of ujson.loads.              *)
(*                                                                         *)
(* The C call stack of decode_array / decode_object is the variable stack, *)
(* and pc names the place the innermost C function is at.  A scalar        *)
(* literal is one character of the document: what matters here is how its  *)
(* decoder ends, not how its bytes are read.                               *)
(*                                                                         *)
(* A definition marked "Mutant" is its successor with a bug; it is used by *)
(* no definition here and shows which property catches the bug.            *)
(***************************************************************************)
EXTENDS Integers, Sequences

CONSTANTS
  Docs,         \* the memory contents considered: sequences over Chars
  MaxDepth,     \* JSON_MAX_OBJECT_DEPTH
  EscStack,     \* characters the escape buffer on the C stack can hold
  Views,        \* TRUE: the argument may be a view of a longer buffer
  Failures      \* the callbacks that may fail, a subset of Callbacks

(***************************************************************************)
(* "s" a string literal, "q" one decode_string rejects, "n" another        *)
(* well-formed scalar, "x" one its decoder rejects, "z" a number dconv_s2d *)
(* consumes nothing of (such as "-."), "j" a byte that starts no value.    *)
(***************************************************************************)
Chars == {"[", "]", "{", "}", ",", ":", " ", "s", "q", "n", "x", "z", "j"}
NUL == "NUL"
Callbacks == {"newScalar", "addItem", "malloc", "encode"}

ASSUME DecoderAssumption ==
  /\ Docs \subseteq Seq(Chars)
  /\ MaxDepth \in Nat
  /\ EscStack \in Nat
  /\ Views \in BOOLEAN
  /\ Failures \subseteq Callbacks

VARIABLES
  argKind,      \* "buffer", "str" or "other": the argument of loads
  memory,       \* the bytes from the start of the document on
  end,          \* number of characters of memory that are the document
  pc,           \* where the innermost C function is
  start,        \* ds->start, as an index into memory
  stack,        \* activations of decode_array and decode_object
  ret,          \* the object being returned, 0 is NULL
  lastType,     \* ds->lastType
  objDepth,     \* ds->objDepth
  errorStr,     \* dec->errorStr
  escLen,       \* ds->escEnd - ds->escStart
  held,         \* "arg", "s2d", "esc": what must be freed before returning
  heap,         \* the Python objects created so far
  pyErr         \* the pending Python exception

dsVars == <<start, stack, ret, lastType, objDepth, errorStr, escLen>>
vars == <<argKind, memory, end, pc, dsVars, held, heap, pyErr>>

-----------------------------------------------------------------------------
(* Reading the document. *)

\* The byte at a position; the buffer of a Python object ends with a NUL.
CharAt(p) == IF p <= Len(memory) THEN memory[p] ELSE NUL

\* Mutant: the NUL is taken for white space.
IsSpaceOrNul == CharAt(start) \in {" ", NUL}

\* The characters SkipWhitespace and the loop of decode_any skip.
IsSpace == CharAt(start) = " "

\* ds->end - ds->start
Remaining == end + 1 - start

(* Objects: heap[o].refs counts the references the C frames own. *)

NewObject(kind) == Append(heap, [kind |-> kind, refs |-> 1, kids |-> <<>>])
NewId == Len(heap) + 1
Decref(h, o) == [h EXCEPT ![o].refs = @ - 1]
Adopt(h, c, kids) == [h EXCEPT ![c].kids = @ \o kids]

(* Activations: name is the pending key of decode_object, 0 when none. *)

Frame(kind, obj) == [kind |-> kind, obj |-> obj, name |-> 0, len |-> 0]
Top == stack[Len(stack)]
Pop == SubSeq(stack, 1, Len(stack) - 1)
SetTop(f) == [stack EXCEPT ![Len(stack)] = f]
Closer(kind) == IF kind = "array" THEN "]" ELSE "}"

\* The callbacks that fail do so at any call.
MayFail(callback) == IF callback \in Failures THEN BOOLEAN ELSE {FALSE}

\* SetError and return NULL to the caller.
Fail(message) ==
  /\ errorStr' = message
  /\ ret' = 0
  /\ pc' = "return"

-----------------------------------------------------------------------------
Init ==
  /\ argKind \in {"buffer", "str", "other"}
  /\ memory \in Docs
  /\ end \in IF Views /\ argKind = "buffer" THEN 0 .. Len(memory) ELSE {Len(memory)}
  /\ pc = "call"
  /\ start = 1
  /\ stack = <<>>
  /\ ret = 0
  /\ lastType = "INVALID"
  /\ objDepth = 0
  /\ errorStr = "none"
  /\ escLen = EscStack
  /\ held = {}
  /\ heap = <<>>
  /\ pyErr = "none"

\* JSONToObj refuses the argument: not bytes-like, not str, or not encodable.
RejectArgument ==
  /\ pc = "call"
  /\ \/ argKind = "other" /\ pyErr' = "TypeError"
     \/ argKind = "str" /\ TRUE \in MayFail("encode") /\ pyErr' = "callback"
  /\ pc' = "done"
  /\ UNCHANGED <<argKind, memory, end, dsVars, held, heap>>

\* JSONToObj pins the bytes, creates the converter, calls JSON_DecodeObject.
StartDecoding ==
  /\ pc = "call"
  /\ argKind # "other"
  /\ held' = {"arg", "s2d"}
  /\ pc' = "any"
  /\ UNCHANGED <<argKind, memory, end, dsVars, heap, pyErr>>

\* One turn of SkipWhitespace, or of the white space case of decode_any.
SkipWhitespace ==
  /\ pc \in {"any", "loop", "colon", "sep", "skip"}
  /\ IsSpace
  /\ start' = start + 1
  /\ UNCHANGED <<argKind, memory, end, pc, stack, ret, lastType, objDepth,
                 errorStr, escLen, held, heap, pyErr>>

-----------------------------------------------------------------------------
(* decode_any dispatches on a character; each action is one decoder. *)

Decode(chars) == pc = "any" /\ CharAt(start) \in chars

\* A value was made by a callback that had nothing to fail, or it failed.
Made(kind, callback) ==
  \E failed \in MayFail(callback) :
    /\ heap' = IF failed THEN heap ELSE NewObject(kind)
    /\ ret' = IF failed THEN 0 ELSE NewId
    /\ pyErr' = IF failed THEN "callback" ELSE pyErr
    /\ pc' = "return"

\* Mutant: the end of the buffer is computed in code points, not in bytes.
ReserveCodePoints(need) ==
  /\ need >= 0
  /\ escLen' = IF need > escLen THEN need \div 4 ELSE escLen
  /\ held' = IF need > escLen THEN held \union {"esc"} ELSE held

\* decode_string sizes its escape buffer by what is left of the document,
\* on the stack, else with malloc once and then realloc; need is a size_t.
ReserveEscapes(need) ==
  /\ need >= 0
  /\ escLen' = IF need > escLen THEN need ELSE escLen
  /\ held' = IF need > escLen THEN held \union {"esc"} ELSE held

NoMemory(need) ==
  /\ need < 0 \/ (need > escLen /\ TRUE \in MayFail("malloc"))
  /\ Fail("memory")
  /\ UNCHANGED <<escLen, held, heap, pyErr>>

DecodeString ==
  /\ Decode({"s", "q"})
  /\ start' = start + 1
  /\ LET need == end - start IN
       \/ NoMemory(need) /\ lastType' = "INVALID"
       \/ /\ ReserveEscapes(need)
          /\ \/ /\ CharAt(start) = "q"
                /\ lastType' = "INVALID"
                /\ Fail("string")
                /\ UNCHANGED <<heap, pyErr>>
             \/ /\ CharAt(start) = "s"
                /\ lastType' = "UTF8"
                /\ Made("str", "newScalar")
                /\ UNCHANGED errorStr
  /\ UNCHANGED <<argKind, memory, end, stack, objDepth>>

\* decode_numeric, decode_true, decode_false, decode_null and decodeDouble.
DecodeScalar ==
  /\ Decode({"n", "z"})
  /\ start' = IF CharAt(start) = "z" THEN start ELSE start + 1
  /\ lastType' = "SCALAR"
  /\ Made("other", "newScalar")
  /\ UNCHANGED <<argKind, memory, end, stack, objDepth, errorStr, escLen, held>>

\* A malformed literal, a byte that starts no value, or the end of memory.
RejectValue ==
  /\ Decode({"x", "j", "]", "}", ",", ":", NUL})
  /\ Fail("value")
  /\ UNCHANGED <<argKind, memory, end, start, stack, lastType, objDepth, escLen,
                 held, heap, pyErr>>

\* Entering decode_array or decode_object.
Enter(kind, container) ==
  /\ objDepth' = objDepth + 1
  /\ \/ /\ objDepth + 1 > MaxDepth
        /\ Fail("depth")
        /\ UNCHANGED <<start, stack, lastType, heap>>
     \/ /\ objDepth + 1 <= MaxDepth
        /\ heap' = NewObject(container)
        /\ stack' = Append(stack, Frame(kind, NewId))
        /\ lastType' = IF kind = "array" THEN "INVALID" ELSE lastType
        /\ start' = start + 1
        /\ pc' = "loop"
        /\ UNCHANGED <<ret, errorStr>>
  /\ UNCHANGED <<argKind, memory, end, escLen, held, pyErr>>

DecodeArray == Decode({"["}) /\ Enter("array", "list")
DecodeObject == Decode({"{"}) /\ Enter("object", "dict")

-----------------------------------------------------------------------------
(* The loops of decode_array and decode_object. *)

\* Mutant: the depth is not counted down on success, or it is twice.
ReturnContainerDepth(down) ==
  /\ stack' = Pop
  /\ ret' = Top.obj
  /\ objDepth' = objDepth - down
  /\ start' = start + 1
  /\ pc' = "return"
  /\ UNCHANGED <<errorStr, heap>>
ReturnContainerUncounted == ReturnContainerDepth(0)
ReturnContainerCountedTwice == ReturnContainerDepth(2)

\* The activation returns its container.
ReturnContainer ==
  /\ stack' = Pop
  /\ ret' = Top.obj
  /\ objDepth' = objDepth - 1
  /\ start' = start + 1
  /\ pc' = "return"
  /\ UNCHANGED <<errorStr, heap>>

\* Mutant: the pending key is not released.
AbandonKeepingKey ==
  /\ stack' = Pop
  /\ heap' = Decref(heap, Top.obj)

\* The activation releases its container and its pending key, returns NULL.
Abandon ==
  /\ stack' = Pop
  /\ heap' = IF Top.name = 0
             THEN Decref(heap, Top.obj)
             ELSE Decref(Decref(heap, Top.obj), Top.name)

\* Mutant: a closing bracket is accepted after a comma.
CloseAfterComma ==
  /\ pc = "loop"
  /\ CharAt(start) = Closer(Top.kind)
  /\ ReturnContainer
  /\ UNCHANGED <<argKind, memory, end, lastType, escLen, held, pyErr>>

\* The closing bracket at the head of the loop: only of an empty container.
CloseAtHead ==
  /\ pc = "loop"
  /\ CharAt(start) = Closer(Top.kind)
  /\ \/ Top.len = 0 /\ ReturnContainer
     \/ /\ Top.len > 0
        /\ objDepth' = objDepth - 1
        /\ Abandon
        /\ Fail("close")
        /\ UNCHANGED start
  /\ UNCHANGED <<argKind, memory, end, lastType, escLen, held, pyErr>>

\* The loop calls decode_any for the next item or key.
NextElement ==
  /\ pc = "loop"
  /\ ~IsSpace
  /\ CharAt(start) # Closer(Top.kind)
  /\ lastType' = IF Top.kind = "object" THEN "INVALID" ELSE lastType
  /\ pc' = "any"
  /\ UNCHANGED <<argKind, memory, end, start, stack, ret, objDepth, errorStr,
                 escLen, held, heap, pyErr>>

\* Mutant: the activation reports an error of its own.
UnwindWithError ==
  /\ pc = "return"
  /\ ret = 0
  /\ stack # <<>>
  /\ Abandon
  /\ Fail("value")
  /\ UNCHANGED <<argKind, memory, end, start, lastType, objDepth, escLen, held, pyErr>>

\* decode_any returned NULL: so does the activation.
Unwind ==
  /\ pc = "return"
  /\ ret = 0
  /\ stack # <<>>
  /\ Abandon
  /\ UNCHANGED <<argKind, memory, end, pc, start, ret, lastType, objDepth, errorStr,
                 escLen, held, pyErr>>

\* decode_any returned an object to the activation on top.
Returned(kind) ==
  /\ pc = "return"
  /\ ret # 0
  /\ stack # <<>>
  /\ Top.kind = kind

\* Mutant: a successful append clears the pending exception.
AddItemClearingError ==
  /\ Returned("array")
  /\ \E failed \in MayFail("addItem") :
       /\ heap' = Decref(IF failed THEN heap ELSE Adopt(heap, Top.obj, <<ret>>), ret)
       /\ pyErr' = IF failed THEN "callback" ELSE "none"
  /\ ret' = 0
  /\ pc' = "sep"
  /\ UNCHANGED <<argKind, memory, end, start, stack, lastType, objDepth, errorStr,
                 escLen, held>>

\* Object_arrayAddItem: append and drop the item's reference.
AddItem ==
  /\ Returned("array")
  /\ \E failed \in MayFail("addItem") :
       /\ heap' = Decref(IF failed THEN heap ELSE Adopt(heap, Top.obj, <<ret>>), ret)
       /\ pyErr' = IF failed THEN "callback" ELSE pyErr
  /\ ret' = 0
  /\ pc' = "sep"
  /\ UNCHANGED <<argKind, memory, end, start, stack, lastType, objDepth, errorStr,
                 escLen, held>>

\* Mutant: a key of any type is accepted.
TakeAnyKey ==
  /\ Returned("object")
  /\ Top.name = 0
  /\ stack' = SetTop([Top EXCEPT !.name = ret])
  /\ ret' = 0
  /\ pc' = "colon"
  /\ UNCHANGED <<argKind, memory, end, start, lastType, objDepth, errorStr, escLen, held,
                 heap, pyErr>>

\* The key of decode_object; what makes it a key is the last type decoded.
TakeKey ==
  /\ Returned("object")
  /\ Top.name = 0
  /\ \/ /\ lastType = "UTF8"
        /\ stack' = SetTop([Top EXCEPT !.name = ret])
        /\ ret' = 0
        /\ pc' = "colon"
        /\ UNCHANGED <<heap, errorStr>>
     \/ /\ lastType # "UTF8"
        /\ stack' = Pop
        /\ heap' = Decref(Decref(heap, Top.obj), ret)
        /\ Fail("key")
  /\ UNCHANGED <<argKind, memory, end, start, lastType, objDepth, escLen, held, pyErr>>

ExpectColon ==
  /\ pc = "colon"
  /\ ~IsSpace
  /\ start' = start + 1
  /\ \/ /\ CharAt(start) = ":"
        /\ pc' = "any"
        /\ UNCHANGED <<stack, ret, errorStr, heap>>
     \/ /\ CharAt(start) # ":"
        /\ Abandon
        /\ Fail("colon")
  /\ UNCHANGED <<argKind, memory, end, lastType, objDepth, escLen, held, pyErr>>

\* Object_objectAddKey: an unhashable key is a pending JSONDecodeError, and
\* decoding goes on; the references to key and value are dropped either way.
AddKey ==
  /\ Returned("object")
  /\ Top.name # 0
  /\ \E failed \in MayFail("addItem") \union {heap[Top.name].kind \in {"list", "dict"}} :
       /\ heap[Top.name].kind \in {"list", "dict"} => failed
       /\ heap' = Decref(Decref(IF failed THEN heap
                                ELSE Adopt(heap, Top.obj, <<Top.name, ret>>),
                                Top.name), ret)
       /\ pyErr' = IF failed THEN "JSONDecodeError" ELSE pyErr
  /\ stack' = SetTop([Top EXCEPT !.name = 0])
  /\ ret' = 0
  /\ pc' = "sep"
  /\ UNCHANGED <<argKind, memory, end, start, lastType, objDepth, errorStr, escLen, held>>

\* After an element: the closing bracket, a comma, or an error.
Separator ==
  /\ pc = "sep"
  /\ ~IsSpace
  /\ \/ CharAt(start) = Closer(Top.kind) /\ ReturnContainer
     \/ /\ CharAt(start) = ","
        /\ stack' = SetTop([Top EXCEPT !.len = @ + 1])
        /\ start' = start + 1
        /\ pc' = "loop"
        /\ UNCHANGED <<ret, objDepth, errorStr, heap>>
     \/ /\ CharAt(start) \notin {Closer(Top.kind), ","}
        /\ start' = start + 1
        /\ Abandon
        /\ Fail("separator")
        /\ UNCHANGED objDepth
  /\ UNCHANGED <<argKind, memory, end, lastType, escLen, held, pyErr>>

-----------------------------------------------------------------------------
(* JSON_DecodeObject after decode_any, then JSONToObj after it. *)

\* Mutant: the escape buffer is freed only on success.
FreeEscapesOnSuccess ==
  /\ pc = "return"
  /\ stack = <<>>
  /\ held' = IF errorStr # "none" THEN held ELSE held \ {"esc"}
  /\ pc' = IF errorStr # "none" THEN "binding"
           ELSE IF Remaining > 0 THEN "skip" ELSE "tail"
  /\ UNCHANGED <<argKind, memory, end, dsVars, heap, pyErr>>

FreeEscapes ==
  /\ pc = "return"
  /\ stack = <<>>
  /\ held' = held \ {"esc"}
  /\ pc' = IF errorStr # "none" THEN "binding"
           ELSE IF Remaining > 0 THEN "skip" ELSE "tail"
  /\ UNCHANGED <<argKind, memory, end, dsVars, heap, pyErr>>

\* Mutant: white space is skipped while anything remains.
SkipAllTrailing ==
  /\ pc = "tail" \/ (pc = "skip" /\ ~IsSpace)
  /\ Remaining <= 0
  /\ pc' = "binding"
  /\ UNCHANGED <<argKind, memory, end, dsVars, held, heap, pyErr>>

CheckTrailing ==
  /\ pc = "tail" \/ (pc = "skip" /\ ~IsSpace)
  /\ \/ /\ Remaining # 0 /\ ret # 0
        /\ heap' = Decref(heap, ret)
        /\ ret' = 0
        /\ errorStr' = "trailing"
     \/ /\ Remaining = 0 \/ ret = 0
        /\ UNCHANGED <<heap, ret, errorStr>>
  /\ pc' = "binding"
  /\ UNCHANGED <<argKind, memory, end, start, stack, lastType, objDepth, escLen, held, pyErr>>

\* Mutant: an exception that a callback left pending is not looked for.
ReturnDespiteException ==
  /\ pc = "binding"
  /\ held' = held \ {"s2d", "arg"}
  /\ pyErr' = IF errorStr # "none" THEN "JSONDecodeError" ELSE pyErr
  /\ pc' = "done"
  /\ UNCHANGED <<argKind, memory, end, dsVars, heap>>

\* Free the converter and the bytes; a pending exception comes before errorStr.
ReturnToPython ==
  /\ pc = "binding"
  /\ held' = held \ {"s2d", "arg"}
  /\ pyErr' = IF pyErr = "none" /\ errorStr # "none" THEN "JSONDecodeError" ELSE pyErr
  /\ IF ret # 0 /\ pyErr' # "none"
     THEN heap' = Decref(heap, ret) /\ ret' = 0
     ELSE UNCHANGED <<heap, ret>>
  /\ pc' = "done"
  /\ UNCHANGED <<argKind, memory, end, start, stack, lastType, objDepth, errorStr, escLen>>

-----------------------------------------------------------------------------
\* The decoders of the dispatch, and the steps of the container loops.
Element == DecodeString \/ DecodeScalar \/ RejectValue \/ DecodeArray \/ DecodeObject
Loop ==
  \/ CloseAtHead \/ NextElement \/ Unwind \/ AddItem
  \/ TakeKey \/ ExpectColon \/ AddKey \/ Separator
Finish == FreeEscapes \/ CheckTrailing \/ ReturnToPython

Next == RejectArgument \/ StartDecoding \/ SkipWhitespace \/ Element \/ Loop \/ Finish

Spec == Init /\ [][Next]_vars

\* A C call runs until it returns: nothing else has to happen for it to step.
FairSpec == Spec /\ WF_vars(Next)

-----------------------------------------------------------------------------
(* Invariants. *)

Kinds == {"str", "other", "list", "dict"}
Frames == [kind : {"array", "object"}, obj : Nat \ {0}, name : Nat, len : Nat]
Objects == [kind : Kinds, refs : Int, kids : Seq(Nat)]

\* The variables hold values of their types.
TypeOK ==
  /\ argKind \in {"buffer", "str", "other"}
  /\ memory \in Seq(Chars)
  /\ end \in 0 .. Len(memory)
  /\ pc \in {"call", "any", "loop", "colon", "sep", "return", "skip", "tail",
             "binding", "done"}
  /\ start \in Nat \ {0}
  /\ stack \in Seq(Frames)
  /\ ret \in Nat
  /\ lastType \in {"INVALID", "UTF8", "SCALAR"}
  /\ objDepth \in Nat
  /\ errorStr \in {"none", "memory", "string", "value", "depth", "close", "key",
                   "colon", "separator", "trailing"}
  /\ escLen \in Nat
  /\ held \subseteq {"arg", "s2d", "esc"}
  /\ heap \in Seq(Objects)
  /\ pyErr \in {"none", "TypeError", "JSONDecodeError", "callback"}

\* The objects some C variable points to and must release.
Owned ==
  ({ret} \union {stack[i].obj : i \in DOMAIN stack}
         \union {stack[i].name : i \in DOMAIN stack}) \ {0}

\* No object is leaked or released twice: on every path, the error paths of
\* decode_array and decode_object included, the C code owns one reference to
\* each object one of its variables points to and none to any other.
RefsBalanced ==
  \A o \in DOMAIN heap : heap[o].refs = IF o \in Owned THEN 1 ELSE 0

\* When loads returns, the escape buffer, the converter and the bytes of the
\* argument are free and no container is left half built: the only reference
\* handed out is the result's.
NothingHeld == pc = "done" => held = {} /\ stack = <<>> /\ Owned = {ret} \ {0}

\* loads returns an object or raises, never both and never neither.
Outcome == pc = "done" => (ret = 0 <=> pyErr # "none")

\* Whatever passes the check of lastType, which only says that the last thing
\* decoded was a string, no dict ever gets a key that is not a str.
StringKeys ==
  \A o \in DOMAIN heap : heap[o].kind = "dict" =>
    \A i \in DOMAIN heap[o].kids : i % 2 = 1 => heap[heap[o].kids[i]].kind = "str"

\* The depth counter is the number of active decode_array and decode_object
\* calls, and never more than the limit, wherever decoding still goes on.
DepthBalanced ==
  pc \in {"any", "loop", "colon", "sep"} => objDepth = Len(stack) /\ objDepth <= MaxDepth

\* No character behind the NUL that ends the bytes of the argument is read.
NoReadPastNul ==
  pc \in {"any", "loop", "colon", "sep", "skip"} => start <= Len(memory) + 1

(* Action properties. *)

\* The message of a failed decode is that of the first error met: unwinding
\* the activations, and the check of trailing data, never replace it.
FirstErrorWins == [][errorStr # "none" => errorStr' = errorStr]_vars

\* A Python exception raised by a callback is never dropped: the objects
\* decoded after it do not clear it.
ExceptionKept == [][pyErr # "none" => pyErr' # "none"]_vars

\* The escape buffer leaves the stack at most once in a call: the realloc
\* branch of decode_string is never taken, and the buffer of the first string
\* that needed one is large enough for every later string.
GrowsOnce == [][held \intersect {"esc"} # {} => escLen' = escLen]_vars

(* Liveness. *)

\* Every call of loads returns.
Returns == <>(pc = "done")
=============================================================================
