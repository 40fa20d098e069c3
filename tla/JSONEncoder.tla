----------------------------- MODULE JSONEncoder -----------------------------
(***************************************************************************)
(* The encoder of ultrajsonenc.c driven by the Python binding objToJSON.c: *)
(* one call of ujson.dumps.                                                *)
(*                                                                         *)
(* Python objects are the nodes of a graph.  stack is the C stack of       *)
(* encode(); a frame is one activation with its TypeContext, at the place  *)
(* pc names.  Output is a sequence of tokens: how a scalar or a string is  *)
(* spelled, and the buffer it is spelled into, are not modelled here.      *)
(*                                                                         *)
(* A definition marked "Mutant" is its successor with a bug; it is used by *)
(* no definition here and shows which property catches the bug.            *)
(***************************************************************************)
EXTENDS Integers, Sequences

CONSTANTS
  Graphs,         \* the object graphs considered; node 1 is the argument
  Options,        \* the keyword arguments considered
  RecursionMax,   \* JSON_MAX_RECURSION_DEPTH
  DefaultMax,     \* DEFAULT_FN_MAX_DEPTH
  Failures        \* TRUE: allocations of Python objects may fail

(***************************************************************************)
(* What a Python object is to beginTypeContext.  A "badFloat" is a Decimal *)
(* whose conversion to float raises, "badBytes" is not UTF-8; "toDict" and *)
(* "json" are objects with those methods and "object" has neither: items   *)
(* holds what the method, or default=, returns, and is empty if it raises. *)
(***************************************************************************)
Kinds == {"const", "int", "minusOne", "uint", "bigint", "float", "nan", "badFloat",
          "str", "bytes", "badBytes", "list", "dict", "toDict", "json", "object"}

\* Keys: strings that sort, a key that does not compare with others, one whose
\* __str__ raises (and that does not compare), and bytes that are not UTF-8.
Rank == [a |-> 1, b |-> 2, c |-> 3]
Keys == DOMAIN Rank \union {"mixed", "raising", "badKey"}
Sortable(keys) == Len(keys) <= 1 \/ \A i \in DOMAIN keys : keys[i] \in DOMAIN Rank

Nodes == Nat \ {0}
IsGraph(g) ==
  /\ 1 \in DOMAIN g /\ DOMAIN g \subseteq Nodes
  /\ \A n \in DOMAIN g :
       /\ g[n].kind \in Kinds
       /\ g[n].items \in Seq(DOMAIN g)
       /\ g[n].keys \in Seq(Keys)
       /\ g[n].kind = "dict" =>
            /\ Len(g[n].keys) = Len(g[n].items)
            /\ \A i, j \in DOMAIN g[n].keys : g[n].keys[i] = g[n].keys[j] => i = j

IsOptions(o) ==
  o \in [valid : BOOLEAN, sortKeys : BOOLEAN, rejectBytes : BOOLEAN, ensureAscii : BOOLEAN,
         allowNan : BOOLEAN, default : BOOLEAN]

ASSUME EncoderAssumption ==
  /\ \A g \in Graphs : IsGraph(g)
  /\ \A o \in Options : IsOptions(o)
  /\ RecursionMax \in Nat \ {0}
  /\ DefaultMax \in Nat
  /\ Failures \in BOOLEAN

VARIABLES
  graph,        \* the Python objects; dumps does not change them
  opt,          \* the keyword arguments
  pc,           \* where the innermost encode() is
  cur,          \* the argument obj of the encode() being entered
  name,         \* its argument name, "NULL" for an item of a list
  stack,        \* activations of encode() with a TypeContext
  out,          \* the tokens written to the buffer
  level,        \* enc->level
  errorMsg,     \* enc->errorMsg
  held,         \* the converter and the bytes of the separators
  lost,         \* what a TypeContext owned and no one released
  raised,       \* exceptions raised so far, and whether one was silent (history)
  pyErr,        \* the pending Python exception
  result        \* what dumps returns

encVars == <<cur, name, stack, out, level, errorMsg>>
vars == <<graph, opt, pc, encVars, held, lost, raised, pyErr, result>>

-----------------------------------------------------------------------------
(* Type contexts. *)

KeyList == 0 - 1   \* newObj of a sorted dictionary is the list of its keys

\* The object a frame encodes is newObj, when default= made one, else obj.
Frame(n) == [obj |-> n, newObj |-> 0, chain |-> 0, type |-> "unknown", dict |-> 0,
             order |-> <<>>, index |-> 0, size |-> 0, count |-> 0, slots |-> {"context"}]
Top == stack[Len(stack)]
Pop == SubSeq(stack, 1, Len(stack) - 1)
SetTop(f) == [stack EXCEPT ![Len(stack)] = f]
Object == IF Top.newObj > 0 THEN Top.newObj ELSE Top.obj
Kind == graph[Object].kind
Items == graph[Object].items

\* Mutant: what default= returned is not released.
EndWithoutNewObj == {"context", "raw", "utf8"}

\* Object_iterEnd and Object_endTypeContext.
IterEnd(f) == IF f.type = "object" THEN {"name", "dict"} ELSE {}
EndTypeContext == {"context", "newObj", "raw", "utf8"}

\* encode() returns, having released some slots of its TypeContext.
Return(released) ==
  /\ stack' = Pop
  /\ lost' = lost \union (Top.slots \ released)
  /\ pc' = "return"

\* SetError, in a return that accounts for its level or forgets to.
SetError(message) == errorMsg' = message

\* beginTypeContext frees the context alone; encode() does not end it.
Invalid ==
  /\ Return({"context"})
  /\ SetError("Invalid type")
  /\ level' = level - 1
  /\ UNCHANGED <<out>>

Emit(token) ==
  /\ out' = Append(out, token)
  /\ Return(EndTypeContext)
  /\ level' = level - 1
  /\ UNCHANGED errorMsg

MayFail == IF Failures THEN BOOLEAN ELSE {FALSE}

\* A lookup of an attribute by CPython keeps an exception that is pending, or
\* drops it when the type's method cache does not have the attribute.
AfterLookup == {pyErr, "none"}

Raise(exception) ==
  /\ pyErr' = exception
  /\ raised' = raised \union {exception}

\* An exception of which encode() is not told: it sets no errorMsg.
RaiseSilently(exception) ==
  /\ pyErr' = exception
  /\ raised' = raised \union {exception, "silent"}

-----------------------------------------------------------------------------
Init ==
  /\ graph \in Graphs
  /\ opt \in Options
  /\ pc = "call"
  /\ cur = 1
  /\ name = "NULL"
  /\ stack = <<>>
  /\ out = <<>>
  /\ level = 0
  /\ errorMsg = "none"
  /\ held = {}
  /\ lost = {}
  /\ raised = {}
  /\ pyErr = "none"
  /\ result = "none"

\* objToJSON refuses its arguments: indent above 1000, malformed separators.
RejectArguments ==
  /\ pc = "call"
  /\ ~opt.valid
  /\ Raise("ValueError") \/ Raise("TypeError")
  /\ result' = "NULL"
  /\ pc' = "done"
  /\ UNCHANGED <<graph, opt, encVars, held, lost>>

StartEncoding ==
  /\ pc = "call"
  /\ opt.valid
  /\ held' = {"d2s", "separators"}
  /\ pc' = "encode"
  /\ UNCHANGED <<graph, opt, encVars, lost, raised, pyErr, result>>

\* Mutant: the limit is met one level early.
TooDeepEarly ==
  /\ pc = "encode"
  /\ level >= RecursionMax
  /\ SetError("Maximum recursion level reached")
  /\ pc' = "return"
  /\ UNCHANGED <<graph, opt, cur, name, stack, out, level, held, lost, raised, pyErr, result>>

\* The head of encode(): the recursion limit, then the name.
TooDeep ==
  /\ pc = "encode"
  /\ level > RecursionMax
  /\ SetError("Maximum recursion level reached")
  /\ pc' = "return"
  /\ UNCHANGED <<graph, opt, cur, name, stack, out, level, held, lost, raised, pyErr, result>>

\* With ensure_ascii most, not all, bytes that are not UTF-8 are noticed here;
\* the others are written like those of any name.
BadName ==
  /\ pc = "encode"
  /\ level <= RecursionMax
  /\ name = "badKey" /\ opt.ensureAscii
  /\ SetError("Invalid UTF-8")
  /\ pc' = "return"
  /\ UNCHANGED <<graph, opt, cur, name, stack, out, level, held, lost, raised, pyErr, result>>

\* beginTypeContext allocates a TypeContext.
BeginTypeContext ==
  /\ pc = "encode"
  /\ level <= RecursionMax
  /\ out' = IF name = "NULL" THEN out ELSE out \o <<name, ":">>
  /\ \E failed \in MayFail :
       IF failed
       THEN /\ Raise("MemoryError")
            /\ SetError("Invalid type")
            /\ level' = level - 1
            /\ pc' = "return"
            /\ UNCHANGED stack
       ELSE /\ stack' = Append(stack, Frame(cur))
            /\ pc' = "begin"
            /\ UNCHANGED <<level, errorMsg, raised, pyErr>>
  /\ UNCHANGED <<graph, opt, cur, name, held, lost, result>>

-----------------------------------------------------------------------------
(* The cases of beginTypeContext, with that of encode() for a scalar. *)

Begin(kinds) ==
  /\ pc = "begin"
  /\ Kind \in kinds
  /\ UNCHANGED <<graph, opt, cur, name, held, result>>

EncodeScalar ==
  /\ Begin({"const", "int", "float"})
  /\ Emit(Kind)
  /\ UNCHANGED <<raised, pyErr>>

\* -1 is also what PyLong_AsLongLong returns for an error: with an exception
\* pending that is not OverflowError it is taken for one; with OverflowError
\* pending, so is the number, and the exception is cleared.
EncodeMinusOne ==
  /\ Begin({"minusOne"})
  /\ IF pyErr \in {"none", "OverflowError"}
     THEN Emit(Kind) /\ pyErr' = "none"
     ELSE Invalid /\ UNCHANGED pyErr
  /\ UNCHANGED raised

\* Integers of 2^63 and more: PyLong_AsLongLong, and above 2^64 - 1 also
\* PyLong_AsUnsignedLongLong, replace what is pending by an OverflowError and
\* beginTypeContext clears that.  PyNumber_ToBase may fail, without memory, or
\* with more digits than the interpreter converts (IntegerWriter's RejectRaw).
EncodeBigInteger ==
  /\ Begin({"uint", "bigint"})
  /\ \/ /\ Emit(Kind)
        /\ pyErr' = "none"
        /\ UNCHANGED raised
     \/ /\ Kind = "bigint" /\ TRUE \in MayFail
        /\ Invalid
        /\ Raise("MemoryError")

\* Infinity and NaN, which dconv_d2s refuses without allow_nan.
EncodeNan ==
  /\ Begin({"nan"})
  /\ IF opt.allowNan
     THEN Emit(Kind)
     ELSE /\ Return(EndTypeContext)
          /\ SetError("Invalid value when encoding double")
          /\ level' = level - 1
          /\ UNCHANGED out
  /\ UNCHANGED <<raised, pyErr>>

\* PyFloat_AsDouble raises and returns -1.0, which is written.
EncodeBadFloat ==
  /\ Begin({"badFloat"})
  /\ Emit("minusOne")
  /\ RaiseSilently("callback")

EncodeString ==
  /\ Begin({"str", "bytes", "badBytes"})
  /\ \/ /\ Kind # "str" /\ opt.rejectBytes
        /\ Invalid
        /\ Raise("TypeError")
     \/ /\ Kind = "badBytes" /\ ~opt.rejectBytes /\ opt.ensureAscii
        /\ Return(EndTypeContext)
        /\ SetError("Invalid UTF-8")
        /\ level' = level - 1
        /\ UNCHANGED <<out, raised, pyErr>>
     \/ \* getStringValue returns NULL: encode() returns at once
        /\ Kind = "str" /\ TRUE \in MayFail
        /\ Return({})
        /\ SetError("utf-8 encoding error")
        /\ Raise("MemoryError")
        /\ UNCHANGED <<out, level>>
     \/ /\ Kind # "str" => ~opt.rejectBytes
        /\ Emit(Kind)
        /\ UNCHANGED <<raised, pyErr>>

BeginList ==
  /\ Begin({"list"})
  /\ stack' = SetTop([Top EXCEPT !.type = "array", !.size = Len(Items)])
  /\ out' = Append(out, "[")
  /\ pc' = "next"
  /\ pyErr' \in AfterLookup
  /\ UNCHANGED <<level, errorMsg, lost, raised>>

\* SetupDictIter: size is not set, and newObj is as default= left it.
SetupDictIter(d) ==
  /\ stack' = SetTop([Top EXCEPT !.type = "object", !.dict = d, !.order = graph[d].keys,
                                 !.slots = @ \union {"dict"}])
  /\ out' = Append(out, "{")
  /\ pc' = "next"
  /\ UNCHANGED <<level, errorMsg, lost>>

BeginDict ==
  /\ Begin({"dict"})
  /\ SetupDictIter(Object)
  /\ pyErr' \in AfterLookup
  /\ UNCHANGED raised

BeginToDict ==
  /\ Begin({"toDict"})
  /\ \/ Items = <<>> /\ Invalid /\ Raise("callback")
     \/ /\ Items # <<>>
        /\ IF graph[Items[1]].kind = "dict"
           THEN SetupDictIter(Items[1]) /\ pyErr' \in AfterLookup /\ UNCHANGED raised
           ELSE Invalid /\ Raise("TypeError")

\* Looking for toDict in vain clears what is pending.  Bytes are taken as they
\* are: that they are not UTF-8 shows when dumps makes a str of its output.
BeginRawJSON ==
  /\ Begin({"json"})
  /\ \/ Items = <<>> /\ Invalid /\ Raise("callback")
     \/ /\ Items # <<>>
        /\ IF graph[Items[1]].kind \in {"str", "bytes", "badBytes"}
           THEN /\ Emit(IF graph[Items[1]].kind = "badBytes" THEN "badBytes" ELSE "raw")
                /\ pyErr' = "none"
                /\ UNCHANGED raised
           ELSE Invalid /\ Raise("TypeError")
     \/ \* getStringValue fails to encode the str
        /\ Items # <<>> /\ graph[Items[1]].kind = "str" /\ TRUE \in MayFail
        /\ stack' = Pop
        /\ lost' = lost \union Top.slots \union {"raw"}
        /\ pc' = "return"
        /\ SetError("utf-8 encoding error")
        /\ Raise("MemoryError")
        /\ UNCHANGED <<out, level>>

\* Mutant: the calls of default= are not counted.
CallDefaultUncounted ==
  /\ Begin({"object"})
  /\ opt.default /\ Top.chain < DefaultMax /\ Items # <<>>
  /\ stack' = SetTop([Top EXCEPT !.newObj = Items[1], !.slots = @ \union {"newObj"}])
  /\ pyErr' = "none"
  /\ UNCHANGED <<pc, level, errorMsg, lost, out, raised>>

\* default= makes another object of it, and beginTypeContext begins again.
CallDefault ==
  /\ Begin({"object"})
  /\ opt.default /\ Top.chain < DefaultMax /\ Items # <<>>
  /\ stack' = SetTop([Top EXCEPT !.newObj = Items[1], !.chain = @ + 1,
                                 !.slots = @ \union {"newObj"}])
  /\ pyErr' = "none"
  /\ UNCHANGED <<pc, level, errorMsg, lost, out, raised>>

\* No default=, or too many, or it raises.
RejectObject ==
  /\ Begin({"object"})
  /\ Invalid
  /\ IF opt.default /\ Top.chain < DefaultMax
     THEN Items = <<>> /\ Raise("callback")
     ELSE Raise("TypeError")

-----------------------------------------------------------------------------
(* The loops of encode() over lists and dictionaries. *)

\* Mutant: the count is taken to include the element that is begun.
EncodeElementLate(f, element, key) ==
  /\ stack' = SetTop(f)
  /\ out' = IF f.count > 1 THEN Append(out, ",") ELSE out
  /\ cur' = element
  /\ name' = key
  /\ level' = level + 1
  /\ pc' = "encode"
  /\ UNCHANGED <<graph, opt, errorMsg, held, lost, raised, pyErr, result>>

\* The loop of encode() writes a separator and calls encode() for an element.
EncodeElement(f, element, key) ==
  /\ stack' = SetTop(f)
  /\ out' = IF f.count > 0 THEN Append(out, ",") ELSE out
  /\ cur' = element
  /\ name' = key
  /\ level' = level + 1
  /\ pc' = "encode"
  /\ UNCHANGED <<graph, opt, errorMsg, held, lost, raised, pyErr, result>>

NextItem ==
  /\ pc = "next"
  /\ Top.type = "array"
  /\ Top.index < Top.size
  /\ EncodeElement([Top EXCEPT !.index = @ + 1], Items[Top.index + 1], "NULL")

\* SortedDict_iterNext sorts the keys when newObj is NULL, which it takes for
\* its first call, and counts up to size; Dict_iterNext asks the dictionary.
SortNow == opt.sortKeys /\ Top.newObj = 0

Orders(keys) ==
  {o \in [DOMAIN keys -> {keys[i] : i \in DOMAIN keys}] :
     \A i, j \in DOMAIN keys : i < j => Rank[o[i]] < Rank[o[j]]}

Sorted(f, order) ==
  [f EXCEPT !.newObj = KeyList, !.slots = @ \union {"newObj"}, !.size = Len(order),
            !.order = order]

\* The frame with which iterNext looks for a key; there is one order for keys
\* that sort.
Iterators == IF SortNow THEN {Sorted(Top, o) : o \in Orders(Top.order)} ELSE {Top}
HasKey(f) == f.index < IF opt.sortKeys THEN f.size ELSE Len(f.order)
InDictionary == pc = "next" /\ Top.type = "object"
CanIterate == SortNow => Sortable(Top.order)

\* The value the dictionary d has for a key.
Lookup(d, key) ==
  graph[d].items[CHOOSE i \in DOMAIN graph[d].keys : graph[d].keys[i] = key]

NextKey ==
  /\ InDictionary /\ CanIterate
  /\ \E f \in Iterators :
       LET key == f.order[f.index + 1] IN
         /\ HasKey(f)
         /\ key # "raising"
         /\ EncodeElement([f EXCEPT !.index = @ + 1, !.slots = @ \union {"name"}],
                          Lookup(f.dict, key), key)

\* iterNext returns -1: encode() ends the context and returns, but does not
\* set errorMsg.
IteratorFails ==
  /\ InDictionary
  /\ Return(IterEnd(Top) \union EndTypeContext)
  /\ level' = level - 1
  /\ UNCHANGED <<graph, opt, cur, name, out, errorMsg, held, result>>

SortFails ==
  /\ IteratorFails
  /\ ~CanIterate
  /\ RaiseSilently("TypeError")

KeyFails ==
  /\ IteratorFails
  /\ CanIterate
  /\ \E f \in Iterators :
       /\ HasKey(f)
       /\ \/ /\ f.order[f.index + 1] = "raising"
             /\ RaiseSilently("callback") \/ RaiseSilently("OverflowError")
          \/ TRUE \in MayFail /\ RaiseSilently("MemoryError")

\* There is no element left.
Exhausted ==
  IF Top.type = "array" THEN Top.index = Top.size
  ELSE CanIterate /\ \E f \in Iterators : ~HasKey(f)

\* Mutant: a container does not count its level down.
CloseContainerUncounted ==
  /\ pc = "next"
  /\ Exhausted
  /\ out' = Append(out, IF Top.type = "array" THEN "]" ELSE "}")
  /\ Return(IterEnd(Top) \union EndTypeContext)
  /\ UNCHANGED <<graph, opt, cur, name, level, errorMsg, held, raised, pyErr, result>>

CloseContainer ==
  /\ pc = "next"
  /\ Exhausted
  /\ out' = Append(out, IF Top.type = "array" THEN "]" ELSE "}")
  /\ Return(IterEnd(Top) \union EndTypeContext)
  /\ level' = level - 1
  /\ UNCHANGED <<graph, opt, cur, name, errorMsg, held, raised, pyErr, result>>

\* Mutants: the loop goes on after an error, or counts its elements down.
ElementDoneAlways ==
  /\ pc = "return"
  /\ stack # <<>>
  /\ stack' = SetTop([Top EXCEPT !.count = @ + 1])
  /\ pc' = "next"
  /\ UNCHANGED <<graph, opt, cur, name, out, level, errorMsg, held, lost, raised, pyErr, result>>
ElementUncounted ==
  /\ pc = "return"
  /\ stack # <<>>
  /\ errorMsg = "none"
  /\ stack' = SetTop([Top EXCEPT !.count = @ - 1])
  /\ pc' = "next"
  /\ UNCHANGED <<graph, opt, cur, name, out, level, errorMsg, held, lost, raised, pyErr, result>>

\* encode() of an element has returned to the loop.
ElementDone ==
  /\ pc = "return"
  /\ stack # <<>>
  /\ errorMsg = "none"
  /\ stack' = SetTop([Top EXCEPT !.count = @ + 1])
  /\ pc' = "next"
  /\ UNCHANGED <<graph, opt, cur, name, out, level, errorMsg, held, lost, raised, pyErr, result>>

ElementFailed ==
  /\ pc = "return"
  /\ stack # <<>>
  /\ errorMsg # "none"
  /\ Return(IterEnd(Top) \union EndTypeContext)
  /\ level' = level - 1
  /\ UNCHANGED <<graph, opt, cur, name, out, errorMsg, held, raised, pyErr, result>>

\* Mutant: objToJSON does not look for a pending exception.
ReturnDespiteException ==
  /\ pc = "return"
  /\ stack = <<>>
  /\ held' = {}
  /\ pyErr' = IF errorMsg # "none" /\ pyErr = "none" THEN "OverflowError" ELSE pyErr
  /\ result' = IF errorMsg # "none" THEN "NULL" ELSE "str"
  /\ pc' = "done"
  /\ UNCHANGED <<graph, opt, encVars, lost, raised>>

\* objToJSON after JSON_EncodeObject.
ReturnToPython ==
  /\ pc = "return"
  /\ stack = <<>>
  /\ held' = {}
  /\ IF errorMsg # "none"
     THEN /\ pyErr' = IF pyErr = "none" THEN "OverflowError" ELSE pyErr
          /\ result' = "NULL"
     ELSE IF pyErr # "none"
     THEN /\ result' = "NULL"
          /\ UNCHANGED pyErr
     ELSE IF \E i \in DOMAIN out : out[i] \in {"badKey", "badBytes"}
     THEN /\ result' = "NULL"
          /\ pyErr' = "UnicodeDecodeError"
     ELSE /\ result' = "str"
          /\ UNCHANGED pyErr
  /\ pc' = "done"
  /\ UNCHANGED <<graph, opt, encVars, lost, raised>>

-----------------------------------------------------------------------------
Enter == TooDeep \/ BadName \/ BeginTypeContext
Classify ==
  \/ EncodeScalar \/ EncodeMinusOne \/ EncodeBigInteger \/ EncodeNan \/ EncodeBadFloat
  \/ EncodeString \/ BeginList \/ BeginDict \/ BeginToDict \/ BeginRawJSON
  \/ CallDefault \/ RejectObject
Iterate ==
  \/ NextItem \/ NextKey \/ SortFails \/ KeyFails \/ CloseContainer
  \/ ElementDone \/ ElementFailed

Next == RejectArguments \/ StartEncoding \/ Enter \/ Classify \/ Iterate \/ ReturnToPython

Spec == Init /\ [][Next]_vars

\* A C call runs until it returns, and the callbacks it makes return.
FairSpec == Spec /\ WF_vars(Next)

-----------------------------------------------------------------------------
(* Invariants. *)

Slots == {"context", "newObj", "dict", "name", "raw", "utf8"}
Frames == [obj : Nodes, newObj : Int, chain : Nat, type : {"unknown", "array", "object"},
           dict : Nat, order : Seq(Keys), index : Nat, size : Nat, count : Nat,
           slots : SUBSET Slots]

Errors == {"none", "Maximum recursion level reached", "Invalid type", "Invalid UTF-8",
           "Invalid value when encoding double", "utf-8 encoding error"}
Exceptions == {"none", "callback", "TypeError", "ValueError", "OverflowError",
               "MemoryError", "UnicodeDecodeError"}
Tokens == Kinds \union Keys \union {"[", "]", "{", "}", ",", ":", "raw"}

\* The variables hold values of their types.
TypeOK ==
  /\ opt \in Options
  /\ pc \in {"call", "encode", "begin", "next", "return", "done"}
  /\ cur \in DOMAIN graph
  /\ name \in Keys \union {"NULL"}
  /\ stack \in Seq(Frames)
  /\ out \in Seq(Tokens)
  /\ level \in Int
  /\ errorMsg \in Errors
  /\ held \subseteq {"d2s", "separators"}
  /\ lost \subseteq Slots
  /\ raised \subseteq Exceptions \union {"silent"}
  /\ pyErr \in Exceptions
  /\ result \in {"none", "str", "NULL"}

\* While no error is recorded, enc->level is the depth of the C recursion,
\* although encode() counts it up for its elements and down for itself; so the
\* recursion is bounded.
LevelBalanced ==
  /\ pc = "encode" => level = Len(stack)
  /\ pc \in {"begin", "next"} => level = Len(stack) - 1
  /\ pc = "return" /\ errorMsg = "none" => level = Len(stack) - 1
  /\ Len(stack) <= RecursionMax + 1

\* dumps returns a str or raises, never both and never neither; and it raises
\* whenever an error was recorded, since encode() may then have stopped anywhere
\* in the output.
Outcome ==
  pc = "done" => /\ result = "NULL" <=> pyErr # "none"
                 /\ errorMsg # "none" => result = "NULL"

\* What encode() leaves behind when beginTypeContext finds an object invalid,
\* which frees the context alone (ultrajsonenc.c:763), and when getStringValue
\* fails, behind which it does not end the context (ultrajsonenc.c:923).
Leaks(error) ==
  CASE error = "Invalid type" -> {"newObj"}
    [] error = "utf-8 encoding error" -> {"context", "newObj", "raw"}
    [] OTHER -> {}

\* dumps has released everything its type contexts and its arguments owned when
\* it returns, however many contexts an error or an exception cuts short; what
\* it leaks is in the innermost one, by the two exits that Leaks names.
NothingLost == pc = "done" => held = {} /\ lost \subseteq Leaks(errorMsg)

(* Action properties. *)

\* Once an error is recorded nothing is written behind it and its message is
\* not replaced, however many activations of encode() are still to return.
ErrorStops == [][errorMsg # "none" => out' = out /\ errorMsg' = errorMsg]_vars

(* Liveness. *)

\* Every dumps returns, also of a list that contains itself and with a
\* default= that returns what it is given.
Returns == <>(pc = "done")

(* What the documentation promises and the code does not keep. *)

\* An exception raised while encoding makes dumps return NULL.
NullOnError == pc = "done" /\ raised # {} => result = "NULL"

\* beginTypeContext cleans up when it finds an object invalid: all that is
\* left for encode() to do is to return.
InvalidCleansUp == errorMsg = "Invalid type" => lost = {}
=============================================================================
