-------------------------- MODULE JSONEncoderProofs --------------------------
(***************************************************************************)
(* Theorems about JSONEncoder, for all object graphs and options, every    *)
(* limit of the recursion and of the calls of default=, and whichever      *)
(* callbacks and allocations fail.                                         *)
(***************************************************************************)
EXTENDS JSONEncoderText, JSONReference, SequenceTheorems, WellFoundedInduction, TLAPS

\* What the frames of a stack over the graph g are: the object of an array has
\* as many items as its size, that of an object is a dictionary and its order
\* has keys of this dictionary, and only an object owns the slots of an iterator.
Encoded(f) == IF f.newObj > 0 THEN f.newObj ELSE f.obj
KeysOf(d, g) == {g[d].keys[i] : i \in DOMAIN g[d].keys}
IsContext(f, g) ==
  /\ f.obj \in DOMAIN g
  /\ f.newObj \in DOMAIN g \union {0, KeyList}
  /\ f.type = "unknown" => f.size = 0 /\ f.count = 0
  /\ f.type = "array" => f.size = Len(g[Encoded(f)].items)
  /\ f.type = "object" => /\ f.dict \in DOMAIN g /\ g[f.dict].kind = "dict"
                          /\ f.size <= Len(f.order)
                          /\ f.order \in Seq(KeysOf(f.dict, g))
  /\ f.type # "object" => f.slots \subseteq {"context", "newObj"}
Contexts(g) == {f \in Frames : IsContext(f, g)}

\* The histories of exceptions.
Histories == SUBSET (Exceptions \union {"silent"})

\* TypeOK in parts: the control and the stack.
ControlTypes ==
  /\ graph \in Graphs
  /\ opt \in Options
  /\ pc \in {"call", "encode", "begin", "next", "return", "done"}
  /\ cur \in DOMAIN graph
  /\ name \in Keys \union {"NULL"}
  /\ out \in Seq(Tokens)
  /\ level \in Int
  /\ errorMsg \in Errors
  /\ held \subseteq {"d2s", "separators"}
  /\ lost \subseteq Slots
  /\ raised \in Histories
  /\ pyErr \in Exceptions
  /\ result \in {"none", "str", "NULL"}
Typed == ControlTypes /\ stack \in Seq(Contexts(graph))

\* beginTypeContext has classified every object but the one it is working on.
Classified ==
  \A i \in 1 .. Len(stack) : stack[i].type = "unknown" <=> i = Len(stack) /\ pc = "begin"

\* encode() goes on only without an error.
GoesOn == pc \in {"call", "encode", "begin", "next"} => errorMsg = "none"

\* Elements of dictionaries have a name, and no others.
Named ==
  /\ pc = "call" => stack = <<>> /\ name = "NULL" /\ level = 0
  /\ pc \in {"begin", "next"} => stack # <<>>
  /\ pc = "encode" => name = "NULL" <=> (stack = <<>> \/ Top.type = "array")

\* Slots are lost only with an error, encode() is told of all exceptions but the
\* silent ones, and only the end has a result.
Accounted ==
  /\ lost \subseteq Leaks(errorMsg)
  /\ raised = {} \/ "silent" \in raised \/ errorMsg # "none" \/ result = "NULL"
  /\ pc # "done" => result = "none"
  /\ pc \in {"call", "done"} => held = {}

\* The inductive invariant.
Inv == Typed /\ LevelBalanced /\ Classified /\ GoesOn /\ Named /\ Accounted /\ Outcome

-----------------------------------------------------------------------------
(* The stack. *)

\* What the assumption says of a graph.
LEMMA GraphFacts ==
  ASSUME graph \in Graphs, NEW n \in DOMAIN graph
  PROVE  /\ DOMAIN graph \subseteq Nodes /\ 1 \in DOMAIN graph
         /\ graph[n].kind \in Kinds
         /\ graph[n].items \in Seq(DOMAIN graph)
         /\ graph[n].keys \in Seq(Keys)
         /\ graph[n].kind = "dict" => Len(graph[n].keys) = Len(graph[n].items)
BY EncoderAssumption DEF IsGraph

\* The innermost frame, and the stack without it.
LEMMA Stacks ==
  ASSUME NEW S, stack \in Seq(S), stack # <<>>
  PROVE  /\ Len(stack) \in Nat \ {0} /\ Top \in S
         /\ Pop \in Seq(S) /\ Len(Pop) = Len(stack) - 1
         /\ \A i \in 1 .. Len(Pop) : Pop[i] = stack[i]
<1>1. Len(stack) \in Nat \ {0} /\ Top \in S
  BY EmptySeq, LenProperties, ElementOfSeq DEF Top
<1>2. \A i \in 1 .. Len(stack) - 1 : stack[i] \in S
  BY <1>1, ElementOfSeq
<1>3. ASSUME NEW m \in Nat, m = Len(stack) - 1
      PROVE  /\ SubSeq(stack, 1, m) \in Seq(S)
             /\ Len(SubSeq(stack, 1, m)) = m
             /\ \A i \in 1 .. m : SubSeq(stack, 1, m)[i] = stack[i]
  <2>1. /\ SubSeq(stack, 1, m) \in Seq(S)
        /\ Len(SubSeq(stack, 1, m)) = IF 1 <= m THEN m - 1 + 1 ELSE 0
        /\ \A i \in 1 .. m - 1 + 1 : SubSeq(stack, 1, m)[i] = stack[1 + i - 1]
    BY <1>2, <1>3, SubSeqProperties
  <2>2. QED
    BY <1>1, <1>3, <2>1
<1>4. Pop = SubSeq(stack, 1, Len(stack) - 1) /\ Len(stack) - 1 \in Nat
  BY <1>1 DEF Pop
<1>5. QED
  BY <1>1, <1>3, <1>4

\* Another frame in the place of the innermost one.
LEMMA Replaced ==
  ASSUME NEW S, stack \in Seq(S), stack # <<>>, NEW f \in S
  PROVE  /\ SetTop(f) \in Seq(S) /\ Len(SetTop(f)) = Len(stack) /\ SetTop(f) # <<>>
         /\ \A i \in 1 .. Len(stack) : SetTop(f)[i] = IF i = Len(stack) THEN f ELSE stack[i]
         /\ SetTop(f)[Len(stack)] = f
<1>1. Len(stack) \in 1 .. Len(stack)
  BY EmptySeq, LenProperties
<1>2. /\ SetTop(f) \in Seq(S) /\ Len(SetTop(f)) = Len(stack)
      /\ \A i \in 1 .. Len(stack) : SetTop(f)[i] = IF i = Len(stack) THEN f ELSE stack[i]
  BY <1>1, ExceptSeq DEF SetTop
<1>3. QED
  BY <1>1, <1>2, EmptySeq

\* encode() enters another object.
LEMMA Pushed ==
  ASSUME NEW S, stack \in Seq(S), NEW f \in S
  PROVE  /\ Append(stack, f) \in Seq(S) /\ Len(Append(stack, f)) = Len(stack) + 1
         /\ Append(stack, f) # <<>>
         /\ Append(stack, f)[Len(stack) + 1] = f
         /\ \A i \in 1 .. Len(stack) : Append(stack, f)[i] = stack[i]
BY AppendProperties, LenProperties, EmptySeq

\* The object of the innermost frame.
LEMMA ObjectFacts ==
  ASSUME Inv, stack # <<>>
  PROVE  /\ Top \in Frames /\ IsContext(Top, graph)
         /\ Object \in DOMAIN graph /\ Object = Encoded(Top)
         /\ Kind \in Kinds /\ Items \in Seq(DOMAIN graph)
<1>1. Top \in Frames /\ IsContext(Top, graph)
  BY Stacks DEF Inv, Typed, Contexts
<1>2. Object \in DOMAIN graph /\ Object = Encoded(Top)
  BY <1>1 DEF Object, Encoded, IsContext, KeyList
<1>3. QED
  BY <1>1, <1>2, GraphFacts DEF Inv, Typed, ControlTypes, Kind, Items

-----------------------------------------------------------------------------
(* Steps. *)

LEMMA NoLeaks == Leaks("none") = {}
BY DEF Leaks

LEMMA LeaksFacts ==
  /\ Leaks("none") = {} /\ Leaks("Invalid type") = {"newObj"}
  /\ Leaks("utf-8 encoding error") = {"context", "newObj", "raw"}
BY DEF Leaks

\* What raises keeps a history, and records an error unless it is silent.
Told == raised' = raised \/ "silent" \in raised' \/ errorMsg' # "none"

LEMMA RaisesTold ==
  ASSUME raised \in Histories, NEW exception \in Exceptions,
         Raise(exception) \/ RaiseSilently(exception)
  PROVE  /\ raised' \in Histories /\ pyErr' \in Exceptions
         /\ RaiseSilently(exception) \/ errorMsg' # "none" => Told
BY DEF Raise, RaiseSilently, Histories, Told

\* What a step does that ends the innermost activation: without an error it
\* has lost nothing and counts its level down.
Leaves ==
  /\ pc # "done" /\ stack # <<>> /\ stack' = Pop /\ pc' = "return"
  /\ out' \in Seq(Tokens) /\ level' \in Int /\ errorMsg' \in Errors
  /\ lost' \subseteq Slots /\ raised' \in Histories /\ pyErr' \in Exceptions
  /\ errorMsg' = "none" => level' = Len(stack) - 2
  /\ lost' \subseteq Leaks(errorMsg') /\ Told
  /\ errorMsg # "none" => errorMsg' # "none"
  /\ UNCHANGED <<graph, opt, cur, name, held, result>>

LEMMA LeavesKeeps == Inv /\ Leaves => Inv'
<1> SUFFICES ASSUME Inv, Leaves PROVE Inv'
  OBVIOUS
<1>1. /\ Len(stack) \in Nat \ {0} /\ Len(stack') = Len(stack) - 1
      /\ stack' \in Seq(Contexts(graph))
      /\ \A i \in 1 .. Len(stack) - 1 : stack'[i] = stack[i]
  BY Stacks DEF Inv, Typed, Leaves
<1>2. ControlTypes'
  BY DEF Inv, Typed, ControlTypes, Leaves
<1>3. Typed'
  BY <1>1, <1>2 DEF Typed, Leaves
<1>4. LevelBalanced' /\ GoesOn' /\ Named' /\ Accounted' /\ Outcome'
  BY <1>1, EncoderAssumption
  DEF Inv, LevelBalanced, GoesOn, Named, Accounted, Outcome, Leaves, Told
<1>5. Classified'
  BY <1>1 DEF Inv, Classified, Leaves
<1>6. QED
  BY <1>3, <1>4, <1>5 DEF Inv

\* The context of an object that is not classified, or of a list, owns no slot
\* that encode() does not release; an iterator owns all of them.
LEMMA SlotsOwned ==
  ASSUME Inv, stack # <<>>
  PROVE  /\ Top.slots \subseteq Slots
         /\ pc = "begin" => Top.type = "unknown" /\ Top.slots \subseteq {"context", "newObj"}
         /\ Top.slots \subseteq IterEnd(Top) \union EndTypeContext
<1>1. Top \in Frames /\ IsContext(Top, graph)
  BY ObjectFacts
<1>2. pc = "begin" => Top.type = "unknown"
  BY Stacks DEF Inv, Typed, Classified, Top
<1>3. QED
  BY <1>1, <1>2 DEF Frames, IsContext, IterEnd, EndTypeContext, Slots

\* A step of beginTypeContext in which dumps writes a token or records an error.
Ends ==
  \/ \E token \in Tokens : Emit(token)
  \/ Invalid
  \/ /\ \E released \in SUBSET Slots :
          Return(released) /\ Top.slots \ released \subseteq Leaks(errorMsg')
     /\ errorMsg' \in Errors \ {"none"}
     /\ level' \in {level, level - 1}
     /\ UNCHANGED out

LEMMA EndsKeeps ==
  ASSUME Inv, pc = "begin", Ends, raised' \in Histories, pyErr' \in Exceptions, Told,
         UNCHANGED <<graph, opt, cur, name, held, result>>
  PROVE  Inv'
<1>1. /\ stack # <<>> /\ errorMsg = "none" /\ lost = {} /\ level = Len(stack) - 1
      /\ level \in Int /\ out \in Seq(Tokens) /\ lost \subseteq Slots
  BY NoLeaks DEF Inv, Named, GoesOn, Accounted, LevelBalanced, Typed, ControlTypes
<1>2. Top.slots \subseteq Slots /\ Top.slots \subseteq {"context", "newObj"}
  BY <1>1, SlotsOwned
<1>3. Len(stack) \in Nat
  BY <1>1, Stacks DEF Inv, Typed
<1>4. CASE \E token \in Tokens : Emit(token)
  <2>1. PICK token \in Tokens : Emit(token)
    BY <1>4
  <2>2. out' \in Seq(Tokens)
    BY <1>1, <2>1 DEF Emit
  <2>3. lost' = {}
    BY <1>1, <1>2, <2>1 DEF Emit, Return, EndTypeContext
  <2>4. Leaves
    BY <1>1, <1>3, <2>1, <2>2, <2>3 DEF Leaves, Emit, Return, Errors
  <2>5. QED
    BY <2>4, LeavesKeeps
<1>5. CASE Invalid
  <2>1. lost' \subseteq Slots /\ lost' \subseteq Leaks(errorMsg')
    BY <1>1, <1>2, <1>5, LeaksFacts DEF Invalid, Return, SetError
  <2>2. errorMsg' \in Errors /\ errorMsg' # "none" /\ level' = level - 1 /\ out' = out
    BY <1>5 DEF Invalid, SetError, Errors
  <2>3. stack' = Pop /\ pc' = "return"
    BY <1>5 DEF Invalid, Return
  <2>4. Leaves
    BY <1>1, <2>1, <2>2, <2>3 DEF Leaves
  <2>5. QED
    BY <2>4, LeavesKeeps
<1>6. CASE /\ \E released \in SUBSET Slots :
                Return(released) /\ Top.slots \ released \subseteq Leaks(errorMsg')
           /\ errorMsg' \in Errors \ {"none"}
           /\ level' \in {level, level - 1}
           /\ UNCHANGED out
  <2>1. stack' = Pop /\ pc' = "return" /\ lost' \subseteq Slots
    BY <1>1, <1>2, <1>6 DEF Return
  <2>2. lost' \subseteq Leaks(errorMsg')
    BY <1>1, <1>6 DEF Return
  <2>3. errorMsg' \in Errors /\ errorMsg' # "none" /\ level' \in Int /\ out' = out
    BY <1>1, <1>6
  <2>4. Leaves
    BY <1>1, <2>1, <2>2, <2>3 DEF Leaves
  <2>5. QED
    BY <2>4, LeavesKeeps
<1>7. QED
  BY <1>4, <1>5, <1>6 DEF Ends

\* beginTypeContext finds an object invalid with an exception.
LEMMA InvalidRaises ==
  ASSUME raised \in Histories, Invalid, Raise("callback") \/ Raise("TypeError")
  PROVE  raised' \in Histories /\ pyErr' \in Exceptions /\ Told
<1>1. errorMsg' # "none" /\ "callback" \in Exceptions /\ "TypeError" \in Exceptions
  BY DEF Invalid, SetError, Exceptions
<1>2. QED
  BY <1>1, RaisesTold

\* A step that only changes the frame of the object, its output and the
\* pending exception.
LEMMA FrameKeeps ==
  ASSUME Inv, pc = "begin", NEW f \in Contexts(graph), stack' = SetTop(f),
         \/ pc' = "begin" /\ f.type = "unknown"
         \/ pc' = "next" /\ f.type # "unknown",
         out' \in Seq(Tokens), pyErr' \in Exceptions,
         UNCHANGED <<graph, opt, cur, name, held, result, level, errorMsg, lost, raised>>
  PROVE  Inv'
<1>1. stack # <<>> /\ stack \in Seq(Contexts(graph)) /\ errorMsg = "none"
  BY DEF Inv, Named, Typed, GoesOn
<1>2. /\ stack' \in Seq(Contexts(graph)) /\ Len(stack') = Len(stack) /\ stack' # <<>>
      /\ \A i \in 1 .. Len(stack) : stack'[i] = IF i = Len(stack) THEN f ELSE stack[i]
      /\ Len(stack) \in Nat
  BY <1>1, Replaced, Stacks
<1>3. Typed'
  BY <1>2 DEF Inv, Typed, ControlTypes
<1>4. LevelBalanced' /\ GoesOn' /\ Named' /\ Accounted' /\ Outcome'
  BY <1>1, <1>2 DEF Inv, LevelBalanced, GoesOn, Named, Accounted, Outcome
<1>5. Classified'
  BY <1>2 DEF Inv, Classified
<1>6. QED
  BY <1>3, <1>4, <1>5 DEF Inv

\* What a case of beginTypeContext may assume.
LEMMA Beginning ==
  ASSUME Inv, pc = "begin"
  PROVE  /\ stack # <<>> /\ stack \in Seq(Contexts(graph))
         /\ Top \in Contexts(graph) /\ Top \in Frames /\ IsContext(Top, graph)
         /\ Top.type = "unknown" /\ Top.slots \subseteq {"context", "newObj"}
         /\ Object \in DOMAIN graph /\ Object = Encoded(Top)
         /\ Kind \in Kinds /\ Items \in Seq(DOMAIN graph)
         /\ errorMsg = "none" /\ level \in Int /\ out \in Seq(Tokens)
         /\ raised \in Histories /\ pyErr \in Exceptions
<1>1. stack # <<>> /\ stack \in Seq(Contexts(graph)) /\ errorMsg = "none"
  BY DEF Inv, Named, Typed, GoesOn
<1>2. QED
  BY <1>1, ObjectFacts, SlotsOwned, Stacks DEF Inv, Typed, ControlTypes

\* The scalars and strings.
LEMMA Scalars ==
  ASSUME Inv,
         EncodeScalar \/ EncodeMinusOne \/ EncodeBigInteger \/ EncodeNan \/ EncodeBadFloat
         \/ EncodeString
  PROVE  Inv'
<1> USE DEF Begin
<1>a. pc = "begin" /\ UNCHANGED <<graph, opt, cur, name, held, result>>
  BY DEF EncodeScalar, EncodeMinusOne, EncodeBigInteger, EncodeNan, EncodeBadFloat, EncodeString
<1>b. /\ errorMsg = "none" /\ raised \in Histories /\ pyErr \in Exceptions
      /\ Kind \in Kinds /\ Kind \in Tokens
  BY <1>a, Beginning DEF Tokens
<1>c. /\ EndTypeContext \in SUBSET Slots /\ {} \in SUBSET Slots
      /\ Top.slots \ EndTypeContext \subseteq Leaks(errorMsg')
      /\ Top.slots \ {} \subseteq Leaks("utf-8 encoding error")
  BY <1>a, Beginning, LeaksFacts DEF EndTypeContext, Slots
<1>1. CASE EncodeScalar
  <2>1. Ends
    BY <1>1, <1>b DEF EncodeScalar, Ends
  <2>2. QED
    BY <1>1, <1>a, <1>b, <2>1, EndsKeeps DEF EncodeScalar, Told
<1>2. CASE EncodeMinusOne
  <2>1. Ends
    BY <1>2, <1>b DEF EncodeMinusOne, Ends
  <2>2. raised' \in Histories /\ pyErr' \in Exceptions /\ Told
    BY <1>2, <1>b DEF EncodeMinusOne, Exceptions, Told
  <2>3. QED
    BY <1>a, <2>1, <2>2, EndsKeeps
<1>3. CASE EncodeBigInteger
  <2>1. Ends
    BY <1>3, <1>b DEF EncodeBigInteger, Ends
  <2>2. raised' \in Histories /\ pyErr' \in Exceptions /\ Told
    <3>1. "MemoryError" \in Exceptions /\ "none" \in Exceptions
      BY DEF Exceptions
    <3>2. CASE Invalid /\ Raise("MemoryError")
      BY <1>b, <3>1, <3>2, RaisesTold DEF Invalid, SetError
    <3>3. CASE pyErr' = "none" /\ UNCHANGED raised
      BY <1>b, <3>1, <3>3 DEF Told
    <3>4. QED
      BY <1>3, <3>2, <3>3 DEF EncodeBigInteger
  <2>3. QED
    BY <1>a, <2>1, <2>2, EndsKeeps
<1>4. CASE EncodeNan
  <2>1. Ends
    <3>1. CASE opt.allowNan
      BY <1>4, <1>b, <3>1 DEF EncodeNan, Ends
    <3>2. CASE ~opt.allowNan
      BY <1>4, <1>c, <3>2 DEF EncodeNan, Ends, SetError, Errors
    <3>3. QED
      BY <3>1, <3>2
  <2>2. QED
    BY <1>4, <1>a, <1>b, <2>1, EndsKeeps DEF EncodeNan, Told
<1>5. CASE EncodeBadFloat
  <2>1. Ends
    BY <1>5 DEF EncodeBadFloat, Ends, Tokens, Kinds
  <2>2. raised' \in Histories /\ pyErr' \in Exceptions /\ Told
    BY <1>5, <1>b, RaisesTold DEF EncodeBadFloat, Exceptions
  <2>3. QED
    BY <1>a, <2>1, <2>2, EndsKeeps
<1>6. CASE EncodeString
  <2>1. Ends
    BY <1>6, <1>b, <1>c DEF EncodeString, Ends, SetError, Errors
  <2>2. raised' \in Histories /\ pyErr' \in Exceptions /\ Told
    <3>1. \/ UNCHANGED <<raised, pyErr>>
          \/ (Raise("TypeError") \/ Raise("MemoryError")) /\ errorMsg' # "none"
      BY <1>6 DEF EncodeString, Invalid, SetError
    <3>2. QED
      BY <1>b, <3>1, RaisesTold DEF Exceptions, Told
  <2>3. QED
    BY <1>a, <2>1, <2>2, EndsKeeps
<1>7. QED
  BY <1>1, <1>2, <1>3, <1>4, <1>5, <1>6

\* An attribute lookup leaves the pending exception or none.
LEMMA AfterLookupType ==
  ASSUME pyErr \in Exceptions
  PROVE  AfterLookup \subseteq Exceptions
BY DEF AfterLookup, Exceptions

\* The iterator of a dictionary.
LEMMA SetupDictIterKeeps ==
  ASSUME Inv, pc = "begin", NEW d \in DOMAIN graph, graph[d].kind = "dict",
         SetupDictIter(d), pyErr' \in AfterLookup, UNCHANGED raised,
         UNCHANGED <<graph, opt, cur, name, held, result>>
  PROVE  Inv'
<1>1. graph[d].keys \in Seq(Keys) /\ d \in Nat
  BY GraphFacts DEF Inv, Typed, ControlTypes, Nodes
<1> DEFINE f == [Top EXCEPT !.type = "object", !.dict = d, !.order = graph[d].keys,
                            !.slots = @ \union {"dict"}]
<1>2. f \in Frames
  BY <1>1, Beginning DEF Frames, Slots
<1>3. IsContext(f, graph)
  <2>1. graph[d].keys \in Seq(KeysOf(d, graph))
    <3>1. /\ graph[d].keys \in [1 .. Len(graph[d].keys) -> Keys]
          /\ Len(graph[d].keys) \in Nat
          /\ DOMAIN graph[d].keys = 1 .. Len(graph[d].keys)
      BY <1>1, LenProperties
    <3>2. graph[d].keys \in [1 .. Len(graph[d].keys) -> KeysOf(d, graph)]
      BY <3>1 DEF KeysOf
    <3>3. QED
      BY <3>1, <3>2
  <2>2. Top.size = 0 /\ Len(graph[d].keys) \in Nat
    BY <1>1, Beginning, LenProperties DEF IsContext
  <2>3. Top.obj \in DOMAIN graph /\ Top.newObj \in DOMAIN graph \union {0, KeyList}
    BY Beginning DEF IsContext
  <2>4. /\ f.obj = Top.obj /\ f.newObj = Top.newObj /\ f.type = "object" /\ f.dict = d
        /\ f.size = Top.size /\ f.order = graph[d].keys
    BY Beginning DEF Frames
  <2>5. QED
    BY <2>1, <2>2, <2>3, <2>4 DEF IsContext
<1>4. f.type = "object" /\ f \in Contexts(graph)
  <2>1. f.type = "object"
    BY Beginning DEF Frames
  <2> HIDE DEF f
  <2>2. QED
    BY <1>2, <1>3, <2>1 DEF Contexts
<1>5. out' \in Seq(Tokens) /\ pyErr' \in Exceptions
  <2>1. "{" \in Tokens /\ out' = Append(out, "{")
    BY DEF SetupDictIter, Tokens
  <2>2. out \in Seq(Tokens)
    BY Beginning
  <2>3. out' \in Seq(Tokens)
    BY <2>1, <2>2, AppendProperties
  <2>4. pyErr' \in Exceptions
    BY Beginning, AfterLookupType
  <2>5. QED
    BY <2>3, <2>4
<1>6. /\ pc' = "next" /\ stack' = SetTop(f)
      /\ UNCHANGED <<graph, opt, cur, name, held, result, level, errorMsg, lost, raised>>
  BY DEF SetupDictIter
<1>7. f.type # "unknown"
  BY <1>4
<1> HIDE DEF f
<1>8. QED
  BY <1>4, <1>5, <1>6, <1>7, FrameKeeps

\* A list, a dictionary or what a method of an object makes of it.
LEMMA ContainersBegin ==
  ASSUME Inv, BeginList \/ BeginDict \/ BeginToDict
  PROVE  Inv'
<1> USE DEF Begin
<1>a. pc = "begin" /\ UNCHANGED <<graph, opt, cur, name, held, result>>
  BY DEF BeginList, BeginDict, BeginToDict
<1>b. /\ raised \in Histories /\ pyErr \in Exceptions /\ out \in Seq(Tokens)
      /\ AfterLookup \subseteq Exceptions
  BY <1>a, Beginning, AfterLookupType
<1>1. CASE BeginList
  <2> DEFINE f == [Top EXCEPT !.type = "array", !.size = Len(Items)]
  <2>1. Len(Items) \in Nat
    BY <1>a, Beginning, LenProperties
  <2>2. f \in Frames
    BY <1>a, <2>1, Beginning DEF Frames
  <2>3. /\ f.type = "array" /\ f.size = Len(Items) /\ f.obj = Top.obj /\ f.newObj = Top.newObj
        /\ f.slots = Top.slots
    BY <1>a, Beginning DEF Frames
  <2>4. Object = Encoded(f)
    BY <1>a, <2>3, Beginning DEF Encoded
  <2>5. IsContext(f, graph)
    BY <1>a, <2>3, <2>4, Beginning DEF IsContext, Items
  <2>6. stack' = SetTop(f) /\ pc' = "next" /\ out' = Append(out, "[")
    BY <1>1 DEF BeginList
  <2>7. UNCHANGED <<graph, opt, cur, name, held, result, level, errorMsg, lost, raised>>
    BY <1>1 DEF BeginList
  <2>8. pyErr' \in Exceptions /\ out' \in Seq(Tokens)
    <3>1. "[" \in Tokens
      BY DEF Tokens
    <3>2. QED
      BY <1>1, <1>b, <2>6, <3>1 DEF BeginList
  <2> HIDE DEF f
  <2>9. f \in Contexts(graph) /\ f.type # "unknown"
    BY <2>2, <2>3, <2>5 DEF Contexts
  <2>10. QED
    BY <1>a, <2>6, <2>7, <2>8, <2>9, FrameKeeps
<1>2. CASE BeginDict
  <2>1. Object \in DOMAIN graph /\ graph[Object].kind = "dict"
    BY <1>2, <1>a, Beginning DEF BeginDict, Kind
  <2>2. QED
    BY <1>2, <1>a, <2>1, SetupDictIterKeeps DEF BeginDict
<1>3. CASE BeginToDict
  <2>1. CASE Invalid /\ (Raise("callback") \/ Raise("TypeError"))
    <3>1. Ends /\ raised' \in Histories /\ pyErr' \in Exceptions /\ Told
      BY <1>b, <2>1, InvalidRaises DEF Ends
    <3>2. QED
      BY <1>a, <3>1, EndsKeeps
  <2>2. CASE /\ Items # <<>> /\ graph[Items[1]].kind = "dict"
             /\ SetupDictIter(Items[1]) /\ pyErr' \in AfterLookup /\ UNCHANGED raised
    <3>1. Items[1] \in DOMAIN graph
      <4>1. Items \in Seq(DOMAIN graph)
        BY <1>a, Beginning
      <4>2. 1 \in 1 .. Len(Items)
        BY <2>2, <4>1, EmptySeq
      <4>3. QED
        BY <4>1, <4>2, ElementOfSeq
    <3>2. QED
      BY <1>a, <2>2, <3>1, SetupDictIterKeeps
  <2>3. QED
    BY <1>3, <2>1, <2>2 DEF BeginToDict
<1>4. QED
  BY <1>1, <1>2, <1>3

\* An object with __json__, and those for which default= is called.
LEMMA CustomObjects ==
  ASSUME Inv, BeginRawJSON \/ CallDefault \/ RejectObject
  PROVE  Inv'
<1> USE DEF Begin
<1>a. pc = "begin" /\ UNCHANGED <<graph, opt, cur, name, held, result>>
  BY DEF BeginRawJSON, CallDefault, RejectObject
<1>b. /\ raised \in Histories /\ pyErr \in Exceptions /\ out \in Seq(Tokens)
      /\ errorMsg = "none" /\ level \in Int /\ lost \subseteq Slots /\ lost = {}
  BY <1>a, Beginning, NoLeaks DEF Inv, Accounted, Typed, ControlTypes
<1>1. CASE BeginRawJSON
  <2>1. raised' \in Histories /\ pyErr' \in Exceptions /\ Told
    <3>1. \/ UNCHANGED raised /\ pyErr' = "none"
          \/ Raise("callback") /\ Invalid
          \/ Raise("TypeError") /\ Invalid
          \/ Raise("MemoryError") /\ errorMsg' # "none"
      BY <1>1 DEF BeginRawJSON, SetError
    <3>2. QED
      BY <1>b, <3>1, InvalidRaises, RaisesTold DEF Exceptions, Told
  <2>2. CASE Invalid \/ Emit("raw") \/ Emit("badBytes")
    <3>1. Ends
      BY <2>2 DEF Ends, Tokens, Kinds
    <3>2. QED
      BY <1>a, <2>1, <3>1, EndsKeeps
  <2>3. CASE /\ stack' = Pop /\ lost' = lost \union Top.slots \union {"raw"}
             /\ pc' = "return" /\ SetError("utf-8 encoding error")
             /\ UNCHANGED <<out, level>>
    <3>1. stack # <<>> /\ Top.slots \subseteq {"context", "newObj"}
      BY <1>a, Beginning
    <3>2. errorMsg' = "utf-8 encoding error"
      BY <2>3 DEF SetError
    <3>3. lost' \subseteq Slots /\ lost' \subseteq Leaks(errorMsg')
      BY <1>b, <2>3, <3>1, <3>2, LeaksFacts DEF Slots
    <3>4. Leaves
      BY <1>a, <1>b, <2>1, <2>3, <3>1, <3>2, <3>3 DEF Leaves, Errors
    <3>5. QED
      BY <3>4, LeavesKeeps
  <2>4. QED
    BY <1>1, <2>2, <2>3 DEF BeginRawJSON
<1>2. CASE CallDefault
  <2> DEFINE f == [Top EXCEPT !.newObj = Items[1], !.chain = @ + 1,
                              !.slots = @ \union {"newObj"}]
  <2>1. Items[1] \in DOMAIN graph
    <3>1. Items \in Seq(DOMAIN graph)
      BY <1>a, Beginning
    <3>2. 1 \in 1 .. Len(Items)
      BY <1>2, <3>1, EmptySeq DEF CallDefault
    <3>3. QED
      BY <3>1, <3>2, ElementOfSeq
  <2>2. Items[1] \in Nat
    BY <2>1, GraphFacts DEF Inv, Typed, ControlTypes, Nodes
  <2>3. f \in Frames
    <3>1. Top \in Frames
      BY <1>a, Beginning
    <3>2. Top.chain + 1 \in Nat /\ Top.slots \union {"newObj"} \in SUBSET Slots
      BY <3>1 DEF Frames, Slots
    <3>3. \A n \in Int, c \in Nat, o \in SUBSET Slots :
            [Top EXCEPT !.newObj = n, !.chain = c, !.slots = o] \in Frames
      BY <3>1 DEF Frames
    <3>4. Items[1] \in Int
      BY <2>2
    <3>5. QED
      BY <3>2, <3>3, <3>4
  <2>4. /\ f.type = "unknown" /\ f.size = Top.size /\ f.count = Top.count /\ f.obj = Top.obj
        /\ f.newObj = Items[1] /\ f.slots = Top.slots \union {"newObj"}
    BY <1>a, Beginning DEF Frames
  <2>5. IsContext(f, graph)
    BY <1>a, <2>1, <2>4, Beginning DEF IsContext
  <2>6. /\ pc' = "begin" /\ stack' = SetTop(f) /\ out' \in Seq(Tokens) /\ pyErr' \in Exceptions
        /\ UNCHANGED <<graph, opt, cur, name, held, result, level, errorMsg, lost, raised>>
    BY <1>2, <1>a, <1>b DEF CallDefault, Exceptions
  <2> HIDE DEF f
  <2>7. f \in Contexts(graph)
    BY <2>3, <2>5 DEF Contexts
  <2>8. QED
    BY <1>a, <2>4, <2>6, <2>7, FrameKeeps
<1>3. CASE RejectObject
  <2>1. Ends /\ raised' \in Histories /\ pyErr' \in Exceptions /\ Told
    BY <1>3, <1>b, InvalidRaises DEF RejectObject, Ends
  <2>2. QED
    BY <1>a, <2>1, EndsKeeps
<1>4. QED
  BY <1>1, <1>2, <1>3

-----------------------------------------------------------------------------
(* The call and the loops. *)

\* The calls of dumps begin in states of the invariant.
LEMMA InvInit == Init => Inv
<1> SUFFICES ASSUME Init PROVE Inv
  OBVIOUS
<1>1. 1 \in DOMAIN graph
  BY EncoderAssumption DEF Init, IsGraph
<1>2. Typed
  <2>1. ControlTypes
    <3>1. out \in Seq(Tokens) /\ held = {} /\ lost = {}
      BY EmptySeq DEF Init
    <3>2. errorMsg \in Errors /\ pyErr \in Exceptions
      BY DEF Init, Errors, Exceptions
    <3>3. raised \in Histories /\ cur \in DOMAIN graph /\ graph \in Graphs /\ opt \in Options
      BY <1>1 DEF Init, Histories
    <3>4. /\ pc = "call" /\ name = "NULL" /\ level \in Int /\ result = "none"
      BY DEF Init
    <3>5. held \subseteq {"d2s", "separators"} /\ lost \subseteq Slots
      BY <3>1
    <3>6. QED
      BY <3>1, <3>2, <3>3, <3>4, <3>5 DEF ControlTypes
  <2>2. stack \in Seq(Contexts(graph))
    BY EmptySeq DEF Init
  <2>3. QED
    BY <2>1, <2>2 DEF Typed
<1>3. LevelBalanced /\ Classified /\ GoesOn /\ Named /\ Accounted /\ Outcome
  BY EncoderAssumption DEF Init, LevelBalanced, Classified, GoesOn, Named, Accounted, Outcome
<1>4. QED
  BY <1>2, <1>3 DEF Inv

\* The steps of objToJSON before and behind encode().
LEMMA CallKeeps ==
  ASSUME Inv, RejectArguments \/ StartEncoding \/ ReturnToPython
  PROVE  Inv'
<1> USE DEF encVars
<1>a. /\ Typed /\ LevelBalanced /\ Classified /\ GoesOn /\ Named /\ Accounted /\ Outcome
      /\ Len(stack) \in Nat
  BY LenProperties DEF Inv, Typed
<1>b. UNCHANGED <<graph, opt, cur, name, stack, out, level, errorMsg, lost>>
  BY DEF RejectArguments, StartEncoding, ReturnToPython
<1>1. CASE RejectArguments
  <2>1. Typed'
    <3>1. Raise("ValueError") \/ Raise("TypeError")
      BY <1>1 DEF RejectArguments
    <3>2. raised' \in Histories /\ pyErr' \in Exceptions
      BY <1>a, <3>1, RaisesTold DEF Exceptions, Typed, ControlTypes
    <3>3. QED
      BY <1>a, <1>1, <1>b, <3>2 DEF Typed, ControlTypes, RejectArguments
  <2>2. LevelBalanced' /\ Classified' /\ GoesOn' /\ Named' /\ Accounted'
    BY <1>a, <1>1, <1>b
    DEF LevelBalanced, Classified, GoesOn, Named, Accounted, RejectArguments
  <2>3. Outcome'
    BY <1>a, <1>1, <1>b DEF Outcome, GoesOn, RejectArguments, Raise
  <2>4. QED
    BY <2>1, <2>2, <2>3 DEF Inv
<1>2. CASE StartEncoding
  <2>1. Typed'
    BY <1>a, <1>2, <1>b DEF Typed, ControlTypes, StartEncoding
  <2>2. LevelBalanced' /\ Classified' /\ GoesOn' /\ Named' /\ Accounted' /\ Outcome'
    BY <1>a, <1>2, <1>b, EncoderAssumption, EmptySeq
    DEF LevelBalanced, Classified, GoesOn, Named, Accounted, Outcome, StartEncoding
  <2>3. QED
    BY <2>1, <2>2 DEF Inv
<1>3. CASE ReturnToPython
  <2>1. Typed'
    BY <1>a, <1>3, <1>b DEF Typed, ControlTypes, ReturnToPython, Exceptions
  <2>2. LevelBalanced' /\ Classified' /\ GoesOn' /\ Named' /\ Accounted'
    BY <1>a, <1>3, <1>b
    DEF LevelBalanced, Classified, GoesOn, Named, Accounted, ReturnToPython
  <2>3. Outcome'
    BY <1>a, <1>3, <1>b DEF Outcome, ReturnToPython
  <2>4. QED
    BY <2>1, <2>2, <2>3 DEF Inv
<1>4. QED
  BY <1>1, <1>2, <1>3

\* The head of encode().
LEMMA EnterKeeps ==
  ASSUME Inv, Enter
  PROVE  Inv'
<1>a. /\ Typed /\ LevelBalanced /\ Classified /\ GoesOn /\ Named /\ Accounted /\ Outcome
      /\ Len(stack) \in Nat /\ stack \in Seq(Contexts(graph))
  BY LenProperties DEF Inv, Typed
<1>b. pc = "encode" /\ UNCHANGED <<graph, opt, cur, name, held, lost, result>>
  BY DEF Enter, TooDeep, BadName, BeginTypeContext
<1>c. lost = {}
  BY <1>a, <1>b, NoLeaks DEF GoesOn, Accounted
<1>1. ASSUME pc' = "return", errorMsg' \in Errors \ {"none"}, level' \in Int,
             out' \in Seq(Tokens), UNCHANGED stack, raised' \in Histories, pyErr' \in Exceptions
      PROVE  Inv'
  <2>1. Typed'
    BY <1>a, <1>b, <1>1 DEF Typed, ControlTypes
  <2>2. LevelBalanced' /\ Classified' /\ GoesOn' /\ Named' /\ Accounted' /\ Outcome'
    BY <1>a, <1>b, <1>c, <1>1
    DEF LevelBalanced, Classified, GoesOn, Named, Accounted, Outcome
  <2>3. QED
    BY <2>1, <2>2 DEF Inv
<1>2. CASE TooDeep \/ BadName
  BY <1>2, <1>1, <1>a DEF TooDeep, BadName, SetError, Errors, Typed, ControlTypes
<1>3. CASE BeginTypeContext
  <2>1. out' \in Seq(Tokens)
    <3>1. out \in Seq(Tokens) /\ name \in Keys \union {"NULL"}
      BY <1>a DEF Typed, ControlTypes
    <3>2. name # "NULL" => <<name, ":">> \in Seq(Tokens)
      <4>1. name # "NULL" => name \in Tokens /\ ":" \in Tokens
        BY <3>1 DEF Tokens
      <4>2. QED
        BY <4>1
    <3>3. name # "NULL" => out \o <<name, ":">> \in Seq(Tokens)
      BY <3>1, <3>2, ConcatProperties
    <3>4. QED
      BY <1>3, <3>1, <3>3 DEF BeginTypeContext
  <2>2. CASE pc' = "return"
    <3>1. /\ UNCHANGED stack /\ Raise("MemoryError") /\ SetError("Invalid type")
          /\ level' = level - 1
      BY <1>3, <2>2 DEF BeginTypeContext
    <3>2. raised' \in Histories /\ pyErr' \in Exceptions /\ errorMsg' \in Errors \ {"none"}
      BY <1>a, <3>1, RaisesTold DEF SetError, Errors, Exceptions, Typed, ControlTypes
    <3>3. level' \in Int
      <4>1. level \in Int
        BY <1>a DEF Typed, ControlTypes
      <4>2. level' = level - 1
        BY <3>1
      <4>3. QED
        BY <4>1, <4>2
    <3>4. QED
      BY <1>1, <2>1, <2>2, <3>1, <3>2, <3>3
  <2>3. CASE pc' # "return"
    <3>1. /\ stack' = Append(stack, Frame(cur)) /\ pc' = "begin"
          /\ UNCHANGED <<level, errorMsg, raised, pyErr>> /\ level <= RecursionMax
      BY <1>3, <2>3 DEF BeginTypeContext
    <3>2. cur \in DOMAIN graph /\ cur \in Nodes
      BY <1>a, GraphFacts DEF Typed, ControlTypes
    <3>3. Frame(cur) \in Contexts(graph) /\ Frame(cur).type = "unknown"
      BY <3>2, EmptySeq DEF Frame, Contexts, Frames, IsContext, Slots
    <3>4. /\ stack' \in Seq(Contexts(graph)) /\ Len(stack') = Len(stack) + 1 /\ stack' # <<>>
          /\ stack'[Len(stack) + 1] = Frame(cur)
          /\ \A i \in 1 .. Len(stack) : stack'[i] = stack[i]
      BY <1>a, <3>1, <3>3, Pushed
    <3>5. Typed'
      BY <1>a, <1>b, <2>1, <3>1, <3>4 DEF Typed, ControlTypes
    <3>6. LevelBalanced' /\ GoesOn' /\ Named' /\ Accounted' /\ Outcome'
      BY <1>a, <1>b, <3>1, <3>4, EncoderAssumption
      DEF LevelBalanced, GoesOn, Named, Accounted, Outcome
    <3>7. Classified'
      BY <1>a, <1>b, <3>1, <3>3, <3>4 DEF Classified
    <3>8. QED
      BY <3>5, <3>6, <3>7 DEF Inv
  <2>4. QED
    BY <2>2, <2>3
<1>4. QED
  BY <1>2, <1>3 DEF Enter

\* The loop calls encode() for an element.
LEMMA ElementKeeps ==
  ASSUME Inv, pc = "next", NEW f \in Contexts(graph), f.type \in {"array", "object"},
         NEW element \in DOMAIN graph, NEW key \in Keys \union {"NULL"},
         key = "NULL" <=> f.type = "array",
         EncodeElement(f, element, key)
  PROVE  Inv'
<1>a. /\ Typed /\ LevelBalanced /\ Classified /\ GoesOn /\ Named /\ Accounted /\ Outcome
      /\ stack # <<>> /\ stack \in Seq(Contexts(graph))
  BY DEF Inv, Typed, Named
<1>1. /\ stack' \in Seq(Contexts(graph)) /\ Len(stack') = Len(stack) /\ stack' # <<>>
      /\ \A i \in 1 .. Len(stack) : stack'[i] = IF i = Len(stack) THEN f ELSE stack[i]
      /\ stack'[Len(stack)] = f
      /\ Len(stack) \in Nat
  BY <1>a, Replaced, Stacks DEF EncodeElement
<1>2. Typed'
  <2>1. out' \in Seq(Tokens)
    <3>1. out \in Seq(Tokens) /\ "," \in Tokens
      BY <1>a DEF Typed, ControlTypes, Tokens
    <3>2. QED
      BY <3>1, AppendProperties DEF EncodeElement
  <2>2. /\ pc' = "encode" /\ cur' = element /\ name' = key /\ level' = level + 1
        /\ UNCHANGED <<graph, opt, errorMsg, held, lost, raised, pyErr, result>>
    BY DEF EncodeElement
  <2>3. ControlTypes'
    BY <1>a, <2>1, <2>2 DEF Typed, ControlTypes
  <2>4. QED
    BY <1>1, <2>2, <2>3 DEF Typed
<1>3. LevelBalanced' /\ GoesOn' /\ Accounted' /\ Outcome'
  <2>1. level = Len(stack) - 1 /\ Len(stack) <= RecursionMax + 1
    BY <1>a DEF LevelBalanced
  <2>2. /\ level' = level + 1 /\ pc' = "encode"
        /\ UNCHANGED <<errorMsg, lost, held, raised, result>>
    BY DEF EncodeElement
  <2>3. LevelBalanced'
    BY <1>1, <2>1, <2>2 DEF LevelBalanced
  <2>4. QED
    BY <1>a, <2>2, <2>3 DEF GoesOn, Accounted, Outcome
<1>4. Classified'
  BY <1>a, <1>1 DEF Classified, EncodeElement
<1>5. Named'
  BY <1>1 DEF Named, EncodeElement, Top
<1>6. QED
  BY <1>2, <1>3, <1>4, <1>5 DEF Inv

\* What the loop may assume.
LEMMA Looping ==
  ASSUME Inv, pc = "next"
  PROVE  /\ stack # <<>> /\ stack \in Seq(Contexts(graph))
         /\ Top \in Contexts(graph) /\ Top \in Frames /\ IsContext(Top, graph)
         /\ Top.type \in {"array", "object"}
         /\ Object \in DOMAIN graph /\ Object = Encoded(Top)
         /\ errorMsg = "none" /\ lost = {} /\ level = Len(stack) - 1 /\ level \in Int
         /\ Len(stack) \in Nat \ {0}
<1>1. stack # <<>> /\ stack \in Seq(Contexts(graph)) /\ errorMsg = "none"
  BY DEF Inv, Named, Typed, GoesOn
<1>2. Len(stack) \in Nat \ {0} /\ Top \in Contexts(graph)
  BY <1>1, Stacks
<1>3. Top.type # "unknown"
  BY <1>2 DEF Inv, Classified, Top
<1>4. Top.type \in {"array", "object"}
  BY <1>1, <1>3, ObjectFacts DEF Frames
<1>5. QED
  BY <1>1, <1>2, <1>4, ObjectFacts, NoLeaks DEF Inv, Typed, ControlTypes, LevelBalanced, Accounted

\* A list goes on.
LEMMA NextItemKeeps ==
  ASSUME Inv, NextItem
  PROVE  Inv'
<1> DEFINE f == [Top EXCEPT !.index = @ + 1]
<1>1. pc = "next" /\ Top.type = "array" /\ Top.index < Top.size
  BY DEF NextItem
<1>2. Top \in Frames /\ IsContext(Top, graph) /\ Object \in DOMAIN graph /\ Object = Encoded(Top)
  BY <1>1, Looping
<1>3. f \in Frames /\ f.type = "array"
  BY <1>1, <1>2 DEF Frames
<1>4. IsContext(f, graph)
  <2>1. /\ f.obj = Top.obj /\ f.newObj = Top.newObj /\ f.type = Top.type /\ f.size = Top.size
        /\ f.slots = Top.slots
    BY <1>2 DEF Frames
  <2>2. Encoded(f) = Encoded(Top)
    BY <2>1 DEF Encoded
  <2>3. QED
    BY <1>1, <1>2, <2>1, <2>2 DEF IsContext
<1>5. Items[Top.index + 1] \in DOMAIN graph
  <2>1. Items \in Seq(DOMAIN graph) /\ Top.size = Len(Items)
    BY <1>1, <1>2, ObjectFacts, Looping DEF IsContext, Items
  <2>2. Top.index + 1 \in 1 .. Len(Items)
    BY <1>1, <1>2, <2>1, LenProperties DEF Frames
  <2>3. QED
    BY <2>1, <2>2, ElementOfSeq
<1>6. EncodeElement(f, Items[Top.index + 1], "NULL")
  BY DEF NextItem
<1> HIDE DEF f
<1>7. f \in Contexts(graph)
  BY <1>3, <1>4 DEF Contexts
<1>8. QED
  BY <1>1, <1>3, <1>5, <1>6, <1>7, ElementKeeps

\* The frame of a dictionary after the keys were sorted, if they are.
LEMMA IteratorFacts ==
  ASSUME Inv, InDictionary, NEW f \in Iterators
  PROVE  /\ f \in Contexts(graph) /\ f.type = "object" /\ f.dict = Top.dict
         /\ f.index = Top.index /\ f.count = Top.count
<1>1. Top \in Contexts(graph) /\ Top \in Frames /\ IsContext(Top, graph) /\ Top.type = "object"
  BY Looping DEF InDictionary
<1>2. CASE f = Top
  BY <1>1, <1>2
<1>3. CASE \E o \in Orders(Top.order) : f = Sorted(Top, o)
  <2>1. PICK o \in Orders(Top.order) : f = Sorted(Top, o)
    BY <1>3
  <2>2. Top.order \in Seq(KeysOf(Top.dict, graph)) /\ Top.order \in Seq(Keys)
    BY <1>1 DEF IsContext, Frames
  <2>3. DOMAIN Top.order = 1 .. Len(Top.order) /\ Len(Top.order) \in Nat
    BY <2>2, LenProperties
  <2>4. o \in [1 .. Len(Top.order) -> {Top.order[i] : i \in DOMAIN Top.order}]
    BY <2>3 DEF Orders
  <2>5. \A i \in 1 .. Len(Top.order) : Top.order[i] \in KeysOf(Top.dict, graph) /\ Top.order[i] \in Keys
    BY <2>2, ElementOfSeq
  <2>6. \A i \in 1 .. Len(Top.order) : o[i] \in KeysOf(Top.dict, graph) /\ o[i] \in Keys
    BY <2>3, <2>4, <2>5
  <2>7. /\ o \in Seq(KeysOf(Top.dict, graph)) /\ o \in Seq(Keys) /\ Len(o) \in Nat
    BY <2>3, <2>4, <2>6, LenProperties
  <2>8. f \in Frames
    <3>1. Top.slots \union {"newObj"} \in SUBSET Slots /\ KeyList \in Int
      BY <1>1 DEF Frames, Slots, KeyList
    <3>2. \A s \in SUBSET Slots :
            [Top EXCEPT !.newObj = KeyList, !.slots = s, !.size = Len(o), !.order = o] \in Frames
      BY <1>1, <2>7, <3>1 DEF Frames
    <3>3. QED
      BY <2>1, <3>1, <3>2 DEF Sorted
  <2>9. /\ f.obj = Top.obj /\ f.newObj = KeyList /\ f.type = "object" /\ f.dict = Top.dict
        /\ f.size = Len(o) /\ f.order = o /\ f.index = Top.index /\ f.count = Top.count
    BY <1>1, <2>1 DEF Sorted, Frames
  <2>10. IsContext(f, graph)
    BY <1>1, <2>7, <2>9 DEF IsContext
  <2>11. QED
    BY <2>8, <2>9, <2>10 DEF Contexts
<1>4. QED
  BY <1>2, <1>3 DEF Iterators

\* The value of a key of the dictionary.
LEMMA LookupType ==
  ASSUME graph \in Graphs, NEW d \in DOMAIN graph, graph[d].kind = "dict",
         NEW key \in KeysOf(d, graph)
  PROVE  Lookup(d, key) \in DOMAIN graph
<1>1. /\ graph[d].items \in Seq(DOMAIN graph) /\ graph[d].keys \in Seq(Keys)
      /\ Len(graph[d].keys) = Len(graph[d].items)
  BY GraphFacts
<1>2. PICK i \in DOMAIN graph[d].keys : graph[d].keys[i] = key
  BY DEF KeysOf
<1> DEFINE j == CHOOSE j \in DOMAIN graph[d].keys : graph[d].keys[j] = key
<1>3. j \in DOMAIN graph[d].keys
  BY <1>2
<1>4. DOMAIN graph[d].keys = 1 .. Len(graph[d].items)
  BY <1>1, LenProperties
<1>5. graph[d].items[j] \in DOMAIN graph
  BY <1>1, <1>3, <1>4, ElementOfSeq
<1>6. QED
  BY <1>5 DEF Lookup

\* A dictionary goes on.
LEMMA NextKeyKeeps ==
  ASSUME Inv, NextKey
  PROVE  Inv'
<1>1. PICK f \in Iterators :
        /\ HasKey(f)
        /\ EncodeElement([f EXCEPT !.index = @ + 1, !.slots = @ \union {"name"}],
                         Lookup(f.dict, f.order[f.index + 1]), f.order[f.index + 1])
  BY DEF NextKey
<1>2. InDictionary /\ pc = "next"
  BY DEF NextKey, InDictionary
<1>3. /\ f \in Frames /\ IsContext(f, graph) /\ f.type = "object"
  BY <1>2, IteratorFacts DEF Contexts
<1> DEFINE key == f.order[f.index + 1]
           g == [f EXCEPT !.index = @ + 1, !.slots = @ \union {"name"}]
<1>4. /\ f.order \in Seq(KeysOf(f.dict, graph)) /\ f.order \in Seq(Keys) /\ f.size <= Len(f.order)
      /\ f.dict \in DOMAIN graph /\ graph[f.dict].kind = "dict" /\ f.index \in Nat /\ f.size \in Nat
  BY <1>3 DEF IsContext, Frames
<1>5. f.index + 1 \in 1 .. Len(f.order)
  BY <1>1, <1>4, LenProperties DEF HasKey
<1>6. key \in KeysOf(f.dict, graph) /\ key \in Keys
  BY <1>4, <1>5, ElementOfSeq
<1>7. Lookup(f.dict, key) \in DOMAIN graph
  BY <1>4, <1>6, LookupType DEF Inv, Typed, ControlTypes
<1>8. g \in Frames
  <2>1. f.index + 1 \in Nat /\ f.slots \union {"name"} \in SUBSET Slots
    BY <1>3, <1>4 DEF Frames, Slots
  <2>2. \A n \in Nat, s \in SUBSET Slots : [f EXCEPT !.index = n, !.slots = s] \in Frames
    BY <1>3 DEF Frames
  <2>3. QED
    BY <2>1, <2>2
<1>9. /\ g.obj = f.obj /\ g.newObj = f.newObj /\ g.type = f.type /\ g.dict = f.dict
      /\ g.size = f.size /\ g.order = f.order
  BY <1>3 DEF Frames
<1>10. EncodeElement(g, Lookup(f.dict, key), key)
  BY <1>1
<1>11. key # "NULL"
  BY <1>6 DEF Keys, Rank
<1> HIDE DEF key, g
<1>12. g \in Contexts(graph) /\ g.type = "object"
  BY <1>3, <1>8, <1>9 DEF Contexts, IsContext
<1>13. QED
  BY <1>2, <1>6, <1>7, <1>10, <1>11, <1>12, ElementKeeps

\* A dictionary, list or iterator that ends, and an element that failed: all
\* slots are released.
LEMMA LoopEnds ==
  ASSUME Inv, SortFails \/ KeyFails \/ CloseContainer \/ ElementFailed
  PROVE  Inv'
<1>1. /\ Typed /\ ControlTypes /\ stack \in Seq(Contexts(graph))
      /\ lost \subseteq Leaks(errorMsg) /\ raised \in Histories
  BY DEF Inv, Typed, ControlTypes, Accounted
<1>2. UNCHANGED <<graph, opt, cur, name, held, result>>
  BY DEF SortFails, KeyFails, IteratorFails, CloseContainer, ElementFailed
<1>3. Return(IterEnd(Top) \union EndTypeContext) /\ level' = level - 1 /\ UNCHANGED errorMsg
  BY DEF SortFails, KeyFails, IteratorFails, CloseContainer, ElementFailed
<1>4. stack # <<>> /\ pc # "done"
  BY Looping DEF SortFails, KeyFails, IteratorFails, InDictionary, CloseContainer, ElementFailed
<1>5. out' \in Seq(Tokens)
  <2>1. out' = out \/ \E token \in {"]", "}"} : out' = Append(out, token)
    BY DEF SortFails, KeyFails, IteratorFails, CloseContainer, ElementFailed
  <2>2. out \in Seq(Tokens) /\ "]" \in Tokens /\ "}" \in Tokens
    BY <1>1 DEF ControlTypes, Tokens
  <2>3. \A token \in Tokens : Append(out, token) \in Seq(Tokens)
    BY <2>2, AppendProperties
  <2>4. QED
    BY <2>1, <2>2, <2>3
<1>6. raised' \in Histories /\ pyErr' \in Exceptions /\ Told
  <2>1. CASE SortFails
    BY <1>1, <2>1, RaisesTold DEF SortFails, Exceptions
  <2>2. CASE KeyFails
    <3>1. RaiseSilently("callback") \/ RaiseSilently("OverflowError") \/ RaiseSilently("MemoryError")
      BY <2>2 DEF KeyFails
    <3>2. QED
      BY <1>1, <3>1, RaisesTold DEF Exceptions
  <2>3. CASE CloseContainer \/ ElementFailed
    BY <1>1, <2>3 DEF CloseContainer, ElementFailed, ControlTypes, Told
  <2>4. QED
    BY <2>1, <2>2, <2>3
<1>7. lost' = lost
  BY <1>3, <1>4, SlotsOwned DEF Return
<1>8. errorMsg = "none" => level = Len(stack) - 1
  <2>1. CASE pc = "next"
    BY <2>1, Looping
  <2>2. CASE ElementFailed
    BY <2>2 DEF ElementFailed
  <2>3. QED
    BY <2>1, <2>2 DEF SortFails, KeyFails, IteratorFails, InDictionary, CloseContainer
<1>9. level \in Int /\ errorMsg \in Errors /\ lost \subseteq Slots /\ Len(stack) \in Nat
  BY <1>1, LenProperties DEF ControlTypes
<1>10. /\ errorMsg' = "none" => level' = Len(stack) - 2
       /\ lost' \subseteq Leaks(errorMsg')
  BY <1>1, <1>3, <1>7, <1>8, <1>9
<1>11. stack' = Pop /\ pc' = "return" /\ level' \in Int
  BY <1>3, <1>9 DEF Return
<1>12. Leaves
  BY <1>2, <1>3, <1>4, <1>5, <1>6, <1>7, <1>9, <1>10, <1>11 DEF Leaves
<1>13. QED
  BY <1>12, LeavesKeeps

\* encode() of an element returned: the loop goes on.
LEMMA ElementDoneKeeps ==
  ASSUME Inv, ElementDone
  PROVE  Inv'
<1> DEFINE f == [Top EXCEPT !.count = @ + 1]
<1>a. /\ Typed /\ LevelBalanced /\ Classified /\ GoesOn /\ Named /\ Accounted /\ Outcome
      /\ stack # <<>> /\ stack \in Seq(Contexts(graph)) /\ ControlTypes
  BY DEF Inv, Typed, ElementDone
<1>b. /\ pc = "return" /\ pc' = "next" /\ errorMsg = "none" /\ stack' = SetTop(f)
      /\ UNCHANGED <<graph, opt, cur, name, out, level, errorMsg, held, lost, raised, pyErr, result>>
  BY DEF ElementDone
<1>1. Top \in Contexts(graph) /\ Len(stack) \in Nat \ {0}
  BY <1>a, Stacks
<1>2. Top.type # "unknown"
  BY <1>a, <1>b, <1>1 DEF Classified, Top
<1>3. f \in Frames
  BY <1>1 DEF Contexts, Frames
<1>4. /\ f.obj = Top.obj /\ f.newObj = Top.newObj /\ f.type = Top.type /\ f.dict = Top.dict
      /\ f.size = Top.size /\ f.order = Top.order /\ f.slots = Top.slots
  BY <1>1 DEF Contexts, Frames
<1>5. Encoded(f) = Encoded(Top)
  BY <1>4 DEF Encoded
<1> HIDE DEF f
<1>6. f \in Contexts(graph)
  BY <1>1, <1>2, <1>3, <1>4, <1>5 DEF Contexts, IsContext
<1>7. /\ stack' \in Seq(Contexts(graph)) /\ Len(stack') = Len(stack) /\ stack' # <<>>
      /\ \A i \in 1 .. Len(stack) : stack'[i] = IF i = Len(stack) THEN f ELSE stack[i]
  BY <1>a, <1>b, <1>6, Replaced
<1>8. Typed'
  BY <1>a, <1>b, <1>7 DEF Typed, ControlTypes
<1>9. LevelBalanced' /\ GoesOn' /\ Named' /\ Accounted' /\ Outcome'
  BY <1>a, <1>b, <1>1, <1>7 DEF LevelBalanced, GoesOn, Named, Accounted, Outcome
<1>10. Classified'
  BY <1>a, <1>b, <1>1, <1>2, <1>4, <1>7 DEF Classified
<1>11. QED
  BY <1>8, <1>9, <1>10 DEF Inv

\* The invariant is inductive.
LEMMA InvStep == Inv /\ [Next]_vars => Inv'
<1> SUFFICES ASSUME Inv, [Next]_vars PROVE Inv'
  OBVIOUS
<1>1. CASE RejectArguments \/ StartEncoding \/ ReturnToPython
  BY <1>1, CallKeeps
<1>2. CASE Enter
  BY <1>2, EnterKeeps
<1>3. CASE Classify
  BY <1>3, Scalars, ContainersBegin, CustomObjects DEF Classify
<1>4. CASE Iterate
  BY <1>4, NextItemKeeps, NextKeyKeeps, LoopEnds, ElementDoneKeeps DEF Iterate
<1>5. CASE UNCHANGED vars
  BY <1>5 DEF vars, encVars, Inv, Typed, ControlTypes, LevelBalanced, Classified, GoesOn, Named,
     Accounted, Outcome, Top
<1>6. QED
  BY <1>1, <1>2, <1>3, <1>4, <1>5 DEF Next

-----------------------------------------------------------------------------
(* Theorems. *)

\* The invariant holds in every state of a call of dumps.
THEOREM Invariant == Spec => []Inv
BY InvInit, InvStep, PTL DEF Spec

\* The variables of the encoder keep their types: whatever objects refer to,
\* every element encode() is called for is an object of the graph.
THEOREM TypeCorrect == Spec => []TypeOK
<1>1. \A f \in Contexts(graph) : f \in Frames
  BY DEF Contexts
<1>2. stack \in Seq(Contexts(graph)) => stack \in Seq(Frames)
  BY <1>1, SeqMonotonic
<1>3. Inv => TypeOK
  BY <1>2 DEF Inv, Typed, ControlTypes, TypeOK, Histories
<1>4. QED
  BY <1>3, Invariant, PTL

\* enc->level counts the activations of encode() wherever encoding goes on, and
\* these are bounded by the limit, for any limit and any graph, cyclic or not.
THEOREM LevelCorrect == Spec => []LevelBalanced
<1>1. Inv => LevelBalanced
  BY DEF Inv
<1>2. QED
  BY <1>1, Invariant, PTL

\* dumps returns a str or raises, and raises if encode() recorded an error,
\* whichever callbacks and allocations fail.
THEOREM OutcomeCorrect == Spec => []Outcome
<1>1. Inv => Outcome
  BY DEF Inv
<1>2. QED
  BY <1>1, Invariant, PTL

\* dumps has released all slots of all type contexts, those of objects default=
\* made and of iterators that were sorted or failed included, also when it raises;
\* it leaks no more than Leaks has for the error that was recorded.
THEOREM NothingLostCorrect == Spec => []NothingLost
<1>1. Inv => NothingLost
  BY DEF Inv, Accounted, NothingLost
<1>2. QED
  BY <1>1, Invariant, PTL

\* Behind the first error nothing is written and no other error recorded.
LEMMA StopsAtError ==
  ASSUME Inv, Next, errorMsg # "none"
  PROVE  out' = out /\ errorMsg' = errorMsg
<1>1. pc \notin {"call", "encode", "begin", "next"}
  BY DEF Inv, GoesOn
<1>2. CASE RejectArguments \/ StartEncoding \/ Enter
  BY <1>1, <1>2 DEF RejectArguments, StartEncoding, Enter, TooDeep, BadName, BeginTypeContext
<1>3. CASE Classify
  BY <1>1, <1>3 DEF Classify, EncodeScalar, EncodeMinusOne, EncodeBigInteger, EncodeNan,
     EncodeBadFloat, EncodeString, BeginList, BeginDict, BeginToDict, BeginRawJSON,
     CallDefault, RejectObject, Begin
<1>4. CASE Iterate
  BY <1>1, <1>4 DEF Iterate, NextItem, NextKey, SortFails, KeyFails, IteratorFails,
     InDictionary, CloseContainer, ElementDone, ElementFailed
<1>5. CASE ReturnToPython
  BY <1>5 DEF ReturnToPython, encVars
<1>6. QED
  BY <1>2, <1>3, <1>4, <1>5 DEF Next

\* Behind the first error nothing is written and no other error recorded, at
\* any depth.
THEOREM ErrorStopsCorrect == Spec => ErrorStops
<1>1. Inv /\ [Next]_vars => [errorMsg # "none" => out' = out /\ errorMsg' = errorMsg]_vars
  BY StopsAtError
<1>2. QED
  BY <1>1, Invariant, PTL DEF Spec, ErrorStops

-----------------------------------------------------------------------------
(* The writer of JSONOutput. *)

\* The types of the frames of a stack.
TypesOf(s) == [i \in DOMAIN s |-> s[i].type]
Types == {"unknown", "array", "object"}

LEMMA TypesType ==
  ASSUME NEW s \in Seq(Frames)
  PROVE  /\ TypesOf(s) \in Seq(Types) /\ Len(TypesOf(s)) = Len(s) /\ Len(s) \in Nat
         /\ \A i \in 1 .. Len(s) : TypesOf(s)[i] = s[i].type
<1>1. Len(s) \in Nat /\ DOMAIN s = 1 .. Len(s)
  BY LenProperties
<1>2. \A i \in 1 .. Len(s) : s[i].type \in Types
  <2>1. \A f \in Frames : f.type \in Types
    BY DEF Frames, Types
  <2>2. QED
    BY <2>1, ElementOfSeq
<1>3. TypesOf(s) = [i \in 1 .. Len(s) |-> s[i].type]
  BY <1>1 DEF TypesOf
<1>4. TypesOf(s) \in Seq(Types) /\ Len(TypesOf(s)) = Len(s)
  BY <1>1, <1>2, <1>3
<1>5. QED
  BY <1>1, <1>3, <1>4

\* Stacks of the same length and with the same types look the same to the writer.
LEMMA SameTypes ==
  ASSUME NEW s \in Seq(Frames), NEW t \in Seq(Frames), Len(s) = Len(t),
         \A i \in 1 .. Len(s) : s[i].type = t[i].type
  PROVE  TypesOf(s) = TypesOf(t)
BY TypesType, SeqEqual

\* The containers but the innermost.
LEMMA OuterTypes ==
  ASSUME stack \in Seq(Frames), stack # <<>>
  PROVE  TypesOf(Pop) = SubSeq(TypesOf(stack), 1, Len(TypesOf(stack)) - 1)
<1>1. /\ Len(stack) \in Nat \ {0} /\ Pop \in Seq(Frames) /\ Len(Pop) = Len(stack) - 1
      /\ \A i \in 1 .. Len(Pop) : Pop[i] = stack[i]
  BY Stacks
<1>2. /\ TypesOf(stack) \in Seq(Types) /\ Len(TypesOf(stack)) = Len(stack)
      /\ \A i \in 1 .. Len(stack) : TypesOf(stack)[i] = stack[i].type
  BY TypesType
<1>3. /\ TypesOf(Pop) \in Seq(Types) /\ Len(TypesOf(Pop)) = Len(stack) - 1
      /\ \A i \in 1 .. Len(stack) - 1 : TypesOf(Pop)[i] = stack[i].type
  BY <1>1, TypesType
<1>4. ASSUME NEW m \in Nat, m = Len(stack) - 1
      PROVE  TypesOf(Pop) = SubSeq(TypesOf(stack), 1, m)
  <2>1. \A i \in 1 .. m : TypesOf(stack)[i] \in Types
    BY <1>1, <1>2, <1>4, ElementOfSeq
  <2>2. /\ SubSeq(TypesOf(stack), 1, m) \in Seq(Types)
        /\ Len(SubSeq(TypesOf(stack), 1, m)) = IF 1 <= m THEN m - 1 + 1 ELSE 0
        /\ \A i \in 1 .. m - 1 + 1 : SubSeq(TypesOf(stack), 1, m)[i] = TypesOf(stack)[1 + i - 1]
    BY <1>4, <2>1, SubSeqProperties
  <2>3. /\ Len(SubSeq(TypesOf(stack), 1, m)) = m
        /\ \A i \in 1 .. m : SubSeq(TypesOf(stack), 1, m)[i] = stack[i].type
    BY <1>1, <1>2, <1>4, <2>2
  <2>4. QED
    BY <1>3, <1>4, <2>2, <2>3, SeqEqual
<1>5. QED
  BY <1>1, <1>2, <1>4

\* The stack with another frame on top.
LEMMA InnerTypes ==
  ASSUME stack \in Seq(Frames), stack # <<>>, NEW f \in Frames
  PROVE  /\ TypesOf(SetTop(f)) = Append(TypesOf(Pop), f.type)
         /\ f.type = Top.type => TypesOf(SetTop(f)) = TypesOf(stack)
<1>1. /\ Len(stack) \in Nat \ {0} /\ Pop \in Seq(Frames) /\ Len(Pop) = Len(stack) - 1
      /\ \A i \in 1 .. Len(Pop) : Pop[i] = stack[i]
  BY Stacks
<1>2. /\ SetTop(f) \in Seq(Frames) /\ Len(SetTop(f)) = Len(stack)
      /\ \A i \in 1 .. Len(stack) : SetTop(f)[i] = IF i = Len(stack) THEN f ELSE stack[i]
  BY Replaced
<1>3. f.type = Top.type => TypesOf(SetTop(f)) = TypesOf(stack)
  <2> SUFFICES ASSUME f.type = Top.type PROVE TypesOf(SetTop(f)) = TypesOf(stack)
    OBVIOUS
  <2>1. \A i \in 1 .. Len(stack) : SetTop(f)[i].type = stack[i].type
    BY <1>2 DEF Top
  <2>2. QED
    BY <1>2, <2>1, SameTypes
<1>4. /\ TypesOf(Pop) \in Seq(Types) /\ Len(TypesOf(Pop)) = Len(stack) - 1
      /\ \A i \in 1 .. Len(stack) - 1 : TypesOf(Pop)[i] = stack[i].type
  BY <1>1, TypesType
<1>5. /\ TypesOf(SetTop(f)) \in Seq(Types) /\ Len(TypesOf(SetTop(f))) = Len(stack)
      /\ \A i \in 1 .. Len(stack) : TypesOf(SetTop(f))[i] = SetTop(f)[i].type
  BY <1>2, TypesType
<1>6. f.type \in Types
  BY DEF Frames, Types
<1>7. /\ Append(TypesOf(Pop), f.type) \in Seq(Types)
      /\ Len(Append(TypesOf(Pop), f.type)) = Len(stack)
      /\ \A i \in 1 .. Len(stack) - 1 : Append(TypesOf(Pop), f.type)[i] = stack[i].type
      /\ Append(TypesOf(Pop), f.type)[Len(stack)] = f.type
  <2>1. Len(stack) - 1 + 1 = Len(stack)
    BY <1>1
  <2>2. QED
    BY <1>4, <1>6, <2>1, AppendProperties
<1>8. ASSUME NEW i \in 1 .. Len(stack)
      PROVE  TypesOf(SetTop(f))[i] = Append(TypesOf(Pop), f.type)[i]
  <2>1. CASE i = Len(stack)
    <3>1. SetTop(f)[i] = f
      BY <1>2, <2>1
    <3>2. QED
      BY <1>5, <1>7, <2>1, <3>1
  <2>2. CASE i # Len(stack)
    <3>1. i \in 1 .. Len(stack) - 1
      BY <1>1, <2>2
    <3>2. SetTop(f)[i] = stack[i]
      BY <1>2, <2>2
    <3>3. QED
      BY <1>5, <1>7, <3>1, <3>2
  <2>3. QED
    BY <2>1, <2>2
<1>9. QED
  BY <1>3, <1>5, <1>7, <1>8, SeqEqual

\* The writer while nothing has failed.
LEMMA Mapped ==
  ~GivenUp => Written = out /\ Open = TypesOf(OpenFrames) /\ Expect = ExpectedNext
BY DEF Written, Open, Expect, TypesOf

\* A step of the encoder as one of the writer.
LEMMA StepWrites ==
  ASSUME ~GivenUp, ~GivenUp', NEW tokens, NEW containers, NEW next,
         out' = out \o tokens, TypesOf(OpenFrames') = containers, ExpectedNext' = next
  PROVE  Writer!Write(tokens, containers, next)
BY Mapped DEF Writer!Write, Written, Open, Expect, TypesOf

LEMMA StepStutters ==
  ASSUME ~GivenUp, ~GivenUp',
         out' = out, TypesOf(OpenFrames') = TypesOf(OpenFrames), ExpectedNext' = ExpectedNext
  PROVE  UNCHANGED Writer!outputVars
BY Mapped DEF Writer!outputVars, Written, Open, Expect, TypesOf

\* Giving up is a step of the writer, and final.
LEMMA GivesUp ==
  ASSUME GivenUp'
  PROVE  Writer!GiveUp
BY DEF Writer!GiveUp, Written, Open, Expect
\* A stack without frames has no types.
LEMMA NoTypes ==
  ASSUME NEW s \in Seq(Frames)
  PROVE  TypesOf(s) = <<>> <=> s = <<>>
BY TypesType, EmptySeq

\* What the writer may assume of the stack.
LEMMA Framed ==
  ASSUME Inv
  PROVE  /\ stack \in Seq(Frames) /\ out \in Seq(Tokens)
         /\ stack # <<>> => Top \in Frames /\ Pop \in Seq(Frames) /\ Len(stack) \in Nat \ {0}
<1>1. \A f \in Contexts(graph) : f \in Frames
  BY DEF Contexts
<1>2. stack \in Seq(Frames)
  BY <1>1, SeqMonotonic DEF Inv, Typed
<1>3. QED
  BY <1>2, Stacks DEF Inv, Typed, ControlTypes

\* A stack without its innermost frame.
LEMMA Fronts ==
  ASSUME NEW s \in Seq(Frames), NEW t \in Seq(Frames), Len(s) = Len(t) + 1,
         \A i \in 1 .. Len(t) : s[i] = t[i]
  PROVE  SubSeq(s, 1, Len(s) - 1) = t
<1>1. Len(t) \in Nat /\ \A i \in 1 .. Len(t) : s[i] \in Frames
  BY LenProperties, ElementOfSeq
<1>2. /\ SubSeq(s, 1, Len(t)) \in Seq(Frames)
      /\ Len(SubSeq(s, 1, Len(t))) = IF 1 <= Len(t) THEN Len(t) - 1 + 1 ELSE 0
      /\ \A i \in 1 .. Len(t) - 1 + 1 : SubSeq(s, 1, Len(t))[i] = s[1 + i - 1]
  BY <1>1, SubSeqProperties
<1>3. Len(SubSeq(s, 1, Len(t))) = Len(t) /\ \A i \in 1 .. Len(t) : SubSeq(s, 1, Len(t))[i] = t[i]
  BY <1>1, <1>2
<1>4. SubSeq(s, 1, Len(t)) = t
  BY <1>2, <1>3, SeqEqual
<1>5. Len(s) - 1 = Len(t)
  BY <1>1
<1>6. QED
  BY <1>4, <1>5

\* The history of exceptions grows only.
LEMMA Remembers ==
  ASSUME Next
  PROVE  raised \subseteq raised'
<1> USE DEF Raise, RaiseSilently
<1>1. RejectArguments \/ StartEncoding \/ Enter \/ ReturnToPython => raised \subseteq raised'
  BY DEF RejectArguments, StartEncoding, Enter, TooDeep, BadName, BeginTypeContext,
     ReturnToPython
<1>2. Classify => raised \subseteq raised'
  BY DEF Classify, EncodeScalar, EncodeMinusOne, EncodeBigInteger, EncodeNan, EncodeBadFloat,
     EncodeString, BeginList, BeginDict, BeginToDict, BeginRawJSON, CallDefault, RejectObject
<1>3. Iterate => raised \subseteq raised'
  BY DEF Iterate, NextItem, NextKey, EncodeElement, SortFails, KeyFails, CloseContainer,
     ElementDone, ElementFailed
<1>4. QED
  BY <1>1, <1>2, <1>3 DEF Next

\* An error, an exception and their result stay.
LEMMA GivenUpStays == Inv /\ Next /\ GivenUp => GivenUp'
<1> SUFFICES ASSUME Inv, Next, GivenUp PROVE GivenUp'
  OBVIOUS
<1>1. CASE errorMsg # "none"
  BY <1>1, StopsAtError DEF GivenUp
<1>2. CASE result = "NULL"
  BY <1>2 DEF Inv, Accounted, Next, RejectArguments, StartEncoding, Enter, TooDeep, BadName,
     BeginTypeContext, Classify, EncodeScalar, EncodeMinusOne, EncodeBigInteger, EncodeNan,
     EncodeBadFloat, EncodeString, BeginList, BeginDict, BeginToDict, BeginRawJSON,
     CallDefault, RejectObject, Begin, Iterate, NextItem, NextKey, SortFails, KeyFails,
     IteratorFails, InDictionary, CloseContainer, ElementDone, ElementFailed, ReturnToPython
<1>3. CASE raised # {}
  <2>1. raised \subseteq raised'
    BY Remembers
  <2>2. QED
    BY <1>3, <2>1 DEF GivenUp
<1>4. QED
  BY <1>1, <1>2, <1>3 DEF GivenUp

\* A token of a value ends the object that beginTypeContext was looking at.
LEMMA EmitWrites ==
  ASSUME Inv, pc = "begin", ~GivenUp, ~GivenUp', NEW v \in Kinds \union {"raw"}, Emit(v)
  PROVE  Writer!Value
<1>1. stack # <<>> /\ Pop \in Seq(Frames) /\ out \in Seq(Tokens) /\ v \in Tokens
  BY Framed, Beginning DEF Tokens
<1>2. out' = out \o <<v>>
  BY <1>1, AppendIsConcat DEF Emit
<1>3. stack' = Pop /\ pc' = "return"
  BY DEF Emit, Return
<1>4. Expect = "value" /\ Open = TypesOf(Pop)
  BY Mapped DEF ExpectedNext, OpenFrames
<1>5. TypesOf(OpenFrames') = Open
  BY <1>3, <1>4 DEF OpenFrames
<1>6. ExpectedNext' = Writer!AfterValue(Open)
  BY <1>1, <1>3, <1>4, NoTypes DEF ExpectedNext, Writer!AfterValue
<1>7. Writer!Write(<<v>>, Open, Writer!AfterValue(Open))
  BY <1>2, <1>5, <1>6, StepWrites
<1>8. QED
  BY <1>4, <1>7 DEF Writer!Value

\* The context of an object becomes that of a container.
LEMMA OpenWrites ==
  ASSUME Inv, pc = "begin", ~GivenUp, ~GivenUp', NEW f \in Frames, stack' = SetTop(f),
         f.type \in {"array", "object"}, f.count = Top.count, pc' = "next",
         out' = Append(out, Writer!OpenerOf[f.type])
  PROVE  Writer!Open(f.type)
<1>1. /\ stack # <<>> /\ stack \in Seq(Frames) /\ Pop \in Seq(Frames) /\ out \in Seq(Tokens)
      /\ Top.count = 0 /\ Len(stack) \in Nat \ {0}
  BY Framed, Beginning DEF IsContext
<1>2. Writer!OpenerOf[f.type] \in Tokens
  <2>1. Writer!OpenerOf["array"] = "[" /\ Writer!OpenerOf["object"] = "{"
    BY DEF Writer!OpenerOf
  <2>2. QED
    BY <2>1 DEF Tokens
<1>3. out' = out \o <<Writer!OpenerOf[f.type]>>
  BY <1>1, <1>2, AppendIsConcat
<1>4. Expect = "value" /\ Open = TypesOf(Pop)
  BY Mapped DEF ExpectedNext, OpenFrames
<1>5. TypesOf(OpenFrames') = Append(Open, f.type)
  BY <1>1, <1>4, InnerTypes DEF OpenFrames
<1>6. ExpectedNext' = "first"
  <2>1. Top' = f
    BY <1>1, Replaced DEF Top
  <2>2. QED
    BY <1>1, <2>1 DEF ExpectedNext
<1>7. Len(Open) < RecursionMax + 1
  <2>1. Len(Open) = Len(stack) - 1
    BY <1>1, <1>4, TypesType, Stacks
  <2>2. Len(stack) <= RecursionMax + 1 /\ RecursionMax \in Nat
    BY EncoderAssumption DEF Inv, LevelBalanced
  <2>3. QED
    BY <1>1, <2>1, <2>2
<1>8. Writer!Write(<<Writer!OpenerOf[f.type]>>, Append(Open, f.type), "first")
  BY <1>3, <1>5, <1>6, StepWrites
<1>9. QED
  BY <1>4, <1>7, <1>8 DEF Writer!Open

\* The loop begins an element.
LEMMA ElementWrites ==
  ASSUME Inv, pc = "next", ~GivenUp, ~GivenUp', NEW f \in Frames,
         f.type = Top.type, f.count = Top.count, NEW element, NEW key,
         key = "NULL" <=> f.type = "array",
         EncodeElement(f, element, key)
  PROVE  Writer!Element
<1>1. /\ stack # <<>> /\ stack \in Seq(Frames) /\ Top \in Frames /\ out \in Seq(Tokens)
      /\ Len(stack) \in Nat \ {0}
  BY Framed, Looping
<1>2. Open = TypesOf(stack) /\ Expect = IF Top.count = 0 THEN "first" ELSE "separator"
  BY Mapped DEF ExpectedNext, OpenFrames
<1>3. Writer!Inner = Top.type
  <2>1. Len(Open) = Len(stack) /\ Open[Len(stack)] = stack[Len(stack)].type
    BY <1>1, <1>2, TypesType
  <2>2. QED
    BY <2>1 DEF Writer!Inner, Top
<1>4. out' = out \o IF Expect = "first" THEN <<>> ELSE <<",">>
  <2>1. out' = IF Top.count = 0 THEN out ELSE Append(out, ",")
    <3>1. f.count > 0 <=> Top.count # 0
      <4>1. f.count \in Nat
        BY DEF Frames
      <4>2. QED
        BY <4>1
    <3>2. out' = IF f.count > 0 THEN Append(out, ",") ELSE out
      BY DEF EncodeElement
    <3>3. QED
      BY <3>1, <3>2
  <2>2. Append(out, ",") = out \o <<",">> /\ out \o <<>> = out
    <3>1. "," \in Tokens
      BY DEF Tokens
    <3>2. QED
      BY <1>1, <3>1, AppendIsConcat, ConcatEmptySeq
  <2>3. QED
    BY <1>2, <2>1, <2>2
<1>5. TypesOf(OpenFrames') = Open
  BY <1>1, <1>2, InnerTypes DEF EncodeElement, OpenFrames
<1>6. ExpectedNext' = IF Writer!Inner = "array" THEN "value" ELSE "name"
  BY <1>3 DEF EncodeElement, ExpectedNext
<1>7. Writer!Write(IF Expect = "first" THEN <<>> ELSE <<",">>, Open,
                   IF Writer!Inner = "array" THEN "value" ELSE "name")
  BY <1>4, <1>5, <1>6, StepWrites
<1>8. QED
  BY <1>2, <1>7 DEF Writer!Element, Writer!AtElement

\* What the cases of beginTypeContext are to the writer.
LEMMA ClassifyWrites ==
  ASSUME Inv, Classify, ~GivenUp, ~GivenUp'
  PROVE  Writer!Next \/ UNCHANGED Writer!outputVars
<1> USE DEF Begin
<1>a. pc = "begin" /\ UNCHANGED <<graph, opt, cur, name, held, result>>
  BY DEF Classify, EncodeScalar, EncodeMinusOne, EncodeBigInteger, EncodeNan, EncodeBadFloat,
     EncodeString, BeginList, BeginDict, BeginToDict, BeginRawJSON, CallDefault, RejectObject
<1>b. /\ stack # <<>> /\ stack \in Seq(Frames) /\ Top \in Frames /\ Kind \in Kinds
      /\ Len(stack) \in Nat \ {0}
  BY <1>a, Framed, Beginning
<1>c. errorMsg' = "none" /\ raised' = {}
  BY DEF GivenUp
<1>d. ~Invalid
  BY <1>c DEF Invalid, SetError
<1>1. CASE \E v \in Kinds \union {"raw"} : Emit(v)
  BY <1>1, <1>a, EmitWrites DEF Writer!Next
<1>2. CASE EncodeScalar \/ EncodeMinusOne \/ EncodeBigInteger \/ EncodeNan \/ EncodeBadFloat
  <2>1. Emit(Kind) \/ Emit("minusOne")
    BY <1>2, <1>c, <1>d DEF EncodeScalar, EncodeMinusOne, EncodeBigInteger, EncodeNan,
       EncodeBadFloat, SetError
  <2>2. "minusOne" \in Kinds
    BY DEF Kinds
  <2>3. QED
    BY <1>1, <1>b, <2>1, <2>2
<1>3. CASE EncodeString
  BY <1>1, <1>3, <1>b, <1>c, <1>d DEF EncodeString, SetError
<1>4. CASE BeginRawJSON
  <2>1. Emit("raw") \/ Emit("badBytes")
    BY <1>4, <1>c, <1>d DEF BeginRawJSON, SetError
  <2>2. "badBytes" \in Kinds
    BY DEF Kinds
  <2>3. QED
    BY <1>1, <2>1, <2>2
<1>5. CASE RejectObject
  BY <1>5, <1>d DEF RejectObject
<1>6. CASE BeginList
  <2> DEFINE f == [Top EXCEPT !.type = "array", !.size = Len(Items)]
  <2>1. Len(Items) \in Nat
    BY <1>a, Beginning, LenProperties
  <2>2. f \in Frames /\ f.type = "array" /\ f.count = Top.count
    BY <1>b, <2>1 DEF Frames
  <2>3. stack' = SetTop(f) /\ pc' = "next" /\ out' = Append(out, Writer!OpenerOf["array"])
    BY <1>6 DEF BeginList, Writer!OpenerOf
  <2> HIDE DEF f
  <2>4. Writer!Open("array")
    BY <1>a, <2>2, <2>3, OpenWrites
  <2>5. QED
    BY <2>4 DEF Writer!Next
<1>7. ASSUME NEW d \in DOMAIN graph, SetupDictIter(d) PROVE Writer!Next
  <2> DEFINE f == [Top EXCEPT !.type = "object", !.dict = d, !.order = graph[d].keys,
                              !.slots = @ \union {"dict"}]
  <2>1. d \in Nat /\ graph[d].keys \in Seq(Keys)
    BY GraphFacts DEF Inv, Typed, ControlTypes, Nodes
  <2>2. f \in Frames /\ f.type = "object" /\ f.count = Top.count
    <3>1. Top.slots \union {"dict"} \in SUBSET Slots
      BY <1>b DEF Frames, Slots
    <3>2. \A t \in SUBSET Slots :
            [Top EXCEPT !.type = "object", !.dict = d, !.order = graph[d].keys, !.slots = t]
              \in Frames
      BY <1>b, <2>1 DEF Frames
    <3>3. f.type = "object" /\ f.count = Top.count
      BY <1>b DEF Frames
    <3>4. QED
      BY <3>1, <3>2, <3>3
  <2>3. stack' = SetTop(f) /\ pc' = "next" /\ out' = Append(out, Writer!OpenerOf["object"])
    BY <1>7 DEF SetupDictIter, Writer!OpenerOf
  <2> HIDE DEF f
  <2>4. Writer!Open("object")
    BY <1>a, <2>2, <2>3, OpenWrites
  <2>5. QED
    BY <2>4 DEF Writer!Next
<1>8. CASE BeginDict
  BY <1>7, <1>8, <1>a, Beginning DEF BeginDict
<1>9. CASE BeginToDict
  <2>1. Items # <<>> /\ SetupDictIter(Items[1])
    BY <1>9, <1>d DEF BeginToDict
  <2>2. Items[1] \in DOMAIN graph
    <3>1. Items \in Seq(DOMAIN graph)
      BY <1>a, Beginning
    <3>2. 1 \in 1 .. Len(Items)
      BY <2>1, <3>1, EmptySeq
    <3>3. QED
      BY <3>1, <3>2, ElementOfSeq
  <2>3. QED
    BY <1>7, <2>1, <2>2
<1>10. CASE CallDefault
  <2> DEFINE f == [Top EXCEPT !.newObj = Items[1], !.chain = @ + 1,
                              !.slots = @ \union {"newObj"}]
  <2>1. stack' = SetTop(f) /\ pc' = "begin" /\ out' = out /\ Items # <<>>
    BY <1>10, <1>a DEF CallDefault
  <2>2. f \in Frames
    <3>1. Items[1] \in Int
      <4>1. Items \in Seq(DOMAIN graph)
        BY <1>a, Beginning
      <4>2. Items[1] \in DOMAIN graph
        <5>1. 1 \in 1 .. Len(Items)
          BY <2>1, <4>1, EmptySeq
        <5>2. QED
          BY <4>1, <5>1, ElementOfSeq
      <4>3. DOMAIN graph \subseteq Nodes
        BY <4>2, GraphFacts DEF Inv, Typed, ControlTypes
      <4>4. QED
        BY <4>2, <4>3 DEF Nodes
    <3>2. Top.slots \union {"newObj"} \in SUBSET Slots /\ Top.chain + 1 \in Nat
      <4>1. Top.slots \in SUBSET Slots /\ Top.chain \in Nat
        BY <1>b DEF Frames
      <4>2. Top.slots \union {"newObj"} \in SUBSET Slots
        BY <4>1 DEF Slots
      <4>3. QED
        BY <4>1, <4>2
    <3>3. \A n \in Int, c \in Nat, t \in SUBSET Slots :
            [Top EXCEPT !.newObj = n, !.chain = c, !.slots = t] \in Frames
      BY <1>b DEF Frames
    <3>4. QED
      BY <3>1, <3>2, <3>3
  <2> HIDE DEF f
  <2>3. /\ Pop \in Seq(Frames) /\ Len(Pop) = Len(stack) - 1
        /\ \A i \in 1 .. Len(Pop) : Pop[i] = stack[i]
    BY <1>b, Stacks
  <2>4. /\ stack' \in Seq(Frames) /\ Len(stack') = Len(stack)
        /\ \A i \in 1 .. Len(stack) : stack'[i] = IF i = Len(stack) THEN f ELSE stack[i]
    BY <1>b, <2>1, <2>2, Replaced
  <2>5. Len(stack') = Len(Pop) + 1 /\ \A i \in 1 .. Len(Pop) : stack'[i] = Pop[i]
    BY <1>b, <2>3, <2>4
  <2>6. Pop' = Pop
    BY <2>3, <2>4, <2>5, Fronts DEF Pop
  <2>7. TypesOf(OpenFrames') = TypesOf(OpenFrames)
    BY <1>a, <2>1, <2>6 DEF OpenFrames
  <2>8. ExpectedNext' = ExpectedNext
    BY <1>a, <2>1 DEF ExpectedNext
  <2>9. QED
    BY <2>1, <2>7, <2>8, StepStutters
<1>11. QED
  BY <1>2, <1>3, <1>4, <1>5, <1>6, <1>8, <1>9, <1>10 DEF Classify

\* What the loops are to the writer.
LEMMA IterateWrites ==
  ASSUME Inv, Iterate, ~GivenUp, ~GivenUp'
  PROVE  Writer!Next \/ UNCHANGED Writer!outputVars
<1>a. errorMsg' = "none" /\ errorMsg = "none" /\ raised' = {}
  BY DEF GivenUp
<1>1. CASE NextItem
  <2> DEFINE f == [Top EXCEPT !.index = @ + 1]
  <2>1. pc = "next" /\ Top.type = "array" /\ Top \in Frames
    BY <1>1, Looping DEF NextItem
  <2>2. f \in Frames /\ f.type = Top.type /\ f.count = Top.count
    BY <2>1, SMTT(30) DEF Frames
  <2>3. EncodeElement(f, Items[Top.index + 1], "NULL")
    BY <1>1 DEF NextItem
  <2> HIDE DEF f
  <2>4. QED
    BY <2>1, <2>2, <2>3, ElementWrites DEF Writer!Next
<1>2. CASE NextKey
  <2>1. PICK f \in Iterators :
          /\ HasKey(f)
          /\ EncodeElement([f EXCEPT !.index = @ + 1, !.slots = @ \union {"name"}],
                           Lookup(f.dict, f.order[f.index + 1]), f.order[f.index + 1])
    BY <1>2 DEF NextKey
  <2> DEFINE key == f.order[f.index + 1]
             g == [f EXCEPT !.index = @ + 1, !.slots = @ \union {"name"}]
  <2>2. InDictionary /\ pc = "next" /\ Top.type = "object"
    BY <1>2 DEF NextKey, InDictionary
  <2>3. /\ f \in Frames /\ IsContext(f, graph) /\ f.type = "object" /\ f.count = Top.count
    BY <2>2, IteratorFacts DEF Contexts
  <2>4. f.order \in Seq(Keys) /\ f.size <= Len(f.order) /\ f.index \in Nat /\ f.size \in Nat
    BY <2>3 DEF IsContext, Frames
  <2>5. f.index + 1 \in 1 .. Len(f.order)
    BY <2>1, <2>4, LenProperties DEF HasKey
  <2>6. key \in Keys
    BY <2>4, <2>5, ElementOfSeq
  <2>7. key # "NULL"
    BY <2>6 DEF Keys, Rank
  <2>8. g \in Frames
    <3>1. f.index + 1 \in Nat /\ f.slots \union {"name"} \in SUBSET Slots
      BY <2>3, <2>4 DEF Frames, Slots
    <3>2. \A n \in Nat, t \in SUBSET Slots : [f EXCEPT !.index = n, !.slots = t] \in Frames
      BY <2>3 DEF Frames
    <3>3. QED
      BY <3>1, <3>2
  <2>9. g.type = "object" /\ g.count = Top.count
    BY <2>3 DEF Frames
  <2>10. EncodeElement(g, Lookup(f.dict, key), key)
    BY <2>1
  <2> HIDE DEF key, g
  <2>11. QED
    BY <2>2, <2>7, <2>8, <2>9, <2>10, ElementWrites DEF Writer!Next
<1>3. CASE SortFails \/ KeyFails
  BY <1>3, <1>a DEF SortFails, KeyFails, Raise, RaiseSilently
<1>4. CASE ElementFailed
  BY <1>4, <1>a DEF ElementFailed
<1>5. CASE ElementDone
  <2> DEFINE f == [Top EXCEPT !.count = @ + 1]
  <2>1. /\ stack # <<>> /\ pc = "return" /\ pc' = "next" /\ stack' = SetTop(f) /\ out' = out
    BY <1>5 DEF ElementDone
  <2>2. stack \in Seq(Frames) /\ Top \in Frames /\ Len(stack) \in Nat \ {0}
    BY <2>1, Framed
  <2>3. f \in Frames /\ f.type = Top.type /\ f.count # 0
    <3>1. Top.count \in Nat
      BY <2>2 DEF Frames
    <3>2. \A n \in Nat : LET g == [Top EXCEPT !.count = n] IN
            g \in Frames /\ g.type = Top.type /\ g.count = n
      BY <2>2 DEF Frames
    <3>3. Top.count + 1 \in Nat /\ Top.count + 1 # 0
      BY <3>1
    <3>4. QED
      BY <3>2, <3>3
  <2> HIDE DEF f
  <2>4. TypesOf(OpenFrames') = TypesOf(OpenFrames)
    BY <2>1, <2>2, <2>3, InnerTypes DEF OpenFrames
  <2>5. Top' = f
    BY <2>1, <2>2, <2>3, Replaced DEF Top
  <2>6. ExpectedNext' = ExpectedNext
    BY <2>1, <2>3, <2>5 DEF ExpectedNext
  <2>7. QED
    BY <2>1, <2>4, <2>6, StepStutters
<1>6. CASE CloseContainer
  <2>1. /\ pc = "next" /\ pc' = "return" /\ stack' = Pop
        /\ out' = Append(out, IF Top.type = "array" THEN "]" ELSE "}")
    BY <1>6 DEF CloseContainer, Return
  <2>2. /\ stack # <<>> /\ stack \in Seq(Frames) /\ Top \in Frames /\ out \in Seq(Tokens)
        /\ Len(stack) \in Nat \ {0} /\ Top.type \in {"array", "object"} /\ Pop \in Seq(Frames)
    BY <2>1, Framed, Looping
  <2>3. Open = TypesOf(stack) /\ Expect = IF Top.count = 0 THEN "first" ELSE "separator"
    BY <2>1, Mapped DEF ExpectedNext, OpenFrames
  <2>4. Writer!Inner = Top.type
    <3>1. Len(Open) = Len(stack) /\ Open[Len(stack)] = stack[Len(stack)].type
      BY <2>2, <2>3, TypesType
    <3>2. QED
      BY <3>1 DEF Writer!Inner, Top
  <2>5. out' = out \o <<Writer!CloserOf[Writer!Inner]>>
    <3>1. Writer!CloserOf["array"] = "]" /\ Writer!CloserOf["object"] = "}"
      BY DEF Writer!CloserOf
    <3>2. "]" \in Tokens /\ "}" \in Tokens
      BY DEF Tokens
    <3>3. Writer!CloserOf[Top.type] \in Tokens /\ out' = Append(out, Writer!CloserOf[Top.type])
      BY <2>1, <2>2, <3>1, <3>2
    <3>4. QED
      BY <2>2, <2>4, <3>3, AppendIsConcat
  <2>6. TypesOf(OpenFrames') = Writer!Outer
    BY <2>1, <2>2, <2>3, OuterTypes DEF OpenFrames, Writer!Outer
  <2>7. ExpectedNext' = Writer!AfterValue(Writer!Outer)
    <3>1. TypesOf(Pop) = Writer!Outer
      BY <2>2, <2>3, OuterTypes DEF Writer!Outer
    <3>2. Writer!Outer = <<>> <=> Pop = <<>>
      BY <2>2, <3>1, NoTypes
    <3>3. QED
      BY <2>1, <3>2 DEF ExpectedNext, Writer!AfterValue
  <2>8. Writer!Close
    BY <2>3, <2>5, <2>6, <2>7, StepWrites DEF Writer!Close, Writer!AtElement
  <2>9. QED
    BY <2>8 DEF Writer!Next
<1>7. QED
  BY <1>1, <1>2, <1>3, <1>4, <1>5, <1>6 DEF Iterate

\* What the head of encode() is to the writer.
LEMMA EnterWrites ==
  ASSUME Inv, Enter, ~GivenUp, ~GivenUp'
  PROVE  Writer!Next \/ UNCHANGED Writer!outputVars
<1>a. errorMsg' = "none" /\ raised' = {}
  BY DEF GivenUp
<1>b. cur \in DOMAIN graph /\ cur \in Nodes /\ stack \in Seq(Frames) /\ name \in Keys \union {"NULL"}
  BY Framed, GraphFacts DEF Inv, Typed, ControlTypes
<1>1. BeginTypeContext
  BY <1>a DEF Enter, TooDeep, BadName, SetError
<1>2. /\ pc = "encode" /\ pc' = "begin" /\ stack' = Append(stack, Frame(cur))
      /\ out' = IF name = "NULL" THEN out ELSE out \o <<name, ":">>
  BY <1>a, <1>1 DEF BeginTypeContext, SetError
<1>3. Frame(cur) \in Frames
  BY <1>b, EmptySeq DEF Frame, Frames, Slots
<1>4. Pop' = stack
  <2>1. /\ stack' \in Seq(Frames) /\ Len(stack') = Len(stack) + 1
        /\ \A i \in 1 .. Len(stack) : stack'[i] = stack[i]
    BY <1>b, <1>2, <1>3, Pushed
  <2>2. QED
    BY <1>b, <2>1, Fronts DEF Pop
<1>5. TypesOf(OpenFrames') = TypesOf(OpenFrames) /\ OpenFrames = stack
  BY <1>2, <1>4 DEF OpenFrames
<1>6. ExpectedNext' = "value" /\ ExpectedNext = IF name = "NULL" THEN "value" ELSE "name"
  BY <1>2 DEF ExpectedNext
<1>7. CASE name = "NULL"
  BY <1>2, <1>5, <1>6, <1>7, StepStutters
<1>8. CASE name # "NULL"
  <2>1. Open = TypesOf(OpenFrames) /\ Expect = "name"
    BY <1>6, <1>8, Mapped
  <2>2. Writer!Write(<<name, ":">>, Open, "value")
    BY <1>2, <1>5, <1>6, <1>8, <2>1, StepWrites
  <2>3. Writer!Name
    BY <1>b, <1>8, <2>1, <2>2 DEF Writer!Name
  <2>4. QED
    BY <2>3 DEF Writer!Next
<1>9. QED
  BY <1>7, <1>8

\* What the call of dumps and its return are to the writer.
LEMMA CallWrites ==
  ASSUME Inv, RejectArguments \/ StartEncoding \/ ReturnToPython, ~GivenUp, ~GivenUp'
  PROVE  UNCHANGED Writer!outputVars
<1>1. ~RejectArguments
  BY DEF RejectArguments, GivenUp
<1>2. UNCHANGED <<stack, out, name>>
  BY <1>1 DEF StartEncoding, ReturnToPython, encVars
<1>3. TypesOf(OpenFrames') = TypesOf(OpenFrames)
  BY <1>1, <1>2 DEF StartEncoding, ReturnToPython, OpenFrames
<1>4. CASE StartEncoding
  <2>1. name = "NULL"
    BY <1>4 DEF StartEncoding, Inv, Named
  <2>2. ExpectedNext' = ExpectedNext
    BY <1>2, <1>4, <2>1 DEF StartEncoding, ExpectedNext
  <2>3. QED
    BY <1>2, <1>3, <2>2, StepStutters
<1>5. CASE ReturnToPython
  <2>1. ExpectedNext' = ExpectedNext
    BY <1>2, <1>5 DEF ReturnToPython, ExpectedNext
  <2>2. QED
    BY <1>2, <1>3, <2>1, StepStutters
<1>6. QED
  BY <1>1, <1>4, <1>5

\* The encoder begins as the writer does.
LEMMA WriterInit == Init => Writer!Init
<1> SUFFICES ASSUME Init PROVE Writer!Init
  OBVIOUS
<1>1. ~GivenUp /\ stack = <<>> /\ out = <<>> /\ pc = "call"
  BY DEF Init, GivenUp
<1>2. Written = <<>> /\ Expect = "value" /\ Open = TypesOf(stack)
  BY <1>1, Mapped DEF ExpectedNext, OpenFrames
<1>3. Open = <<>>
  BY <1>1, <1>2, NoTypes, EmptySeq
<1>4. QED
  BY <1>2, <1>3 DEF Writer!Init

\* dumps implements the writer of JSONOutput: with whatever graph, cyclic or
\* not, order of keys, default= and failures, what it has written is the
\* beginning of one JSON text, and a whole one when it returns it, or it has
\* given up.
THEOREM WritesTextCorrect == Spec => WritesText
<1>1. Inv /\ [Next]_vars => [Writer!Next]_(Writer!outputVars)
  <2> SUFFICES ASSUME Inv, [Next]_vars
               PROVE  Writer!Next \/ UNCHANGED Writer!outputVars
    OBVIOUS
  <2>1. CASE UNCHANGED vars
    <3>1. UNCHANGED <<pc, name, stack, out, errorMsg, raised, result>>
      BY <2>1 DEF vars, encVars
    <3>2. (GivenUp' <=> GivenUp) /\ OpenFrames' = OpenFrames /\ ExpectedNext' = ExpectedNext
      BY <3>1 DEF GivenUp, OpenFrames, ExpectedNext, Top, Pop
    <3>3. QED
      BY <3>1, <3>2 DEF Writer!outputVars, Written, Open, Expect
  <2>2. CASE Next /\ GivenUp
    <3>1. GivenUp'
      BY <2>2, GivenUpStays
    <3>2. QED
      BY <2>2, <3>1 DEF Writer!outputVars, Written, Open, Expect
  <2>3. CASE Next /\ ~GivenUp /\ GivenUp'
    BY <2>3, GivesUp DEF Writer!Next
  <2>4. CASE Next /\ ~GivenUp /\ ~GivenUp'
    BY <2>4, CallWrites, EnterWrites, ClassifyWrites, IterateWrites DEF Next
  <2>5. QED
    BY <2>1, <2>2, <2>3, <2>4
<1>2. QED
  BY <1>1, Invariant, WriterInit, PTL DEF Spec, WritesText, Writer!Spec

\* A sequence of one element.
LEMMA Singleton ==
  ASSUME NEW S, NEW e \in S
  PROVE  <<e>> \in Seq(S)
OBVIOUS

\* Every number up to m is in a set that goes on from each number to the next.
LEMMA Reaches ==
  ASSUME NEW m \in Nat, NEW S, 0 \in S, \A j \in 1 .. m : j - 1 \in S => j \in S
  PROVE  \A j \in 0 .. m : j \in S
<1> DEFINE T == (0 .. m) \ S
<1> SUFFICES ASSUME T # {} PROVE FALSE
  OBVIOUS
<1>1. IsWellFoundedOn(OpToRel(<, Nat), Nat)
  BY NatLessThanWellFounded
<1>2. PICK less : less = {ss \in Nat \X Nat : ss[1] < ss[2]}
  OBVIOUS
<1>3. IsWellFoundedOn(less, Nat)
  BY <1>1, <1>2, Zenon DEF OpToRel
<1>4. T \subseteq Nat
  OBVIOUS
<1>5. PICK j \in T : \A i \in T : <<i, j>> \notin less
  BY <1>3, <1>4, WFMin
<1>6. j \in 1 .. m
  OBVIOUS
<1>7. j - 1 \in T
  BY <1>6
<1>8. <<j - 1, j>> \in less
  BY <1>2, <1>6
<1>9. QED
  BY <1>5, <1>7, <1>8

\* The values of a recursive function, step by step.
Iterated(f, m, D, base, step) ==
  /\ f \in [0 .. m -> D]
  /\ f[0] = base
  /\ \A j \in 1 .. m : f[j] = step[<<j, f[j - 1]>>]

\* Such a function exists.
LEMMA Iterates ==
  ASSUME NEW m \in Nat, NEW D, NEW base \in D, NEW step \in [(1 .. m) \X D -> D]
  PROVE  \E f : Iterated(f, m, D, base, step)
<1> DEFINE Upto(k, f) == f[0] = base /\ \A j \in 1 .. k : f[j] = step[<<j, f[j - 1]>>]
           S == {k \in 0 .. m : \E f \in [0 .. m -> D] : Upto(k, f)}
<1>1. 0 \in S
  <2>1. PICK f : f = [j \in 0 .. m |-> base]
    OBVIOUS
  <2>2. f \in [0 .. m -> D] /\ Upto(0, f)
    BY <2>1
  <2>3. QED
    BY <2>2
<1>2. ASSUME NEW k \in 1 .. m, k - 1 \in S PROVE k \in S
  <2>1. PICK f \in [0 .. m -> D] : Upto(k - 1, f)
    BY <1>2
  <2>2. step[<<k, f[k - 1]>>] \in D
    BY <2>1
  <2>3. PICK h : h = [f EXCEPT ![k] = step[<<k, f[k - 1]>>]]
    OBVIOUS
  <2>4. h \in [0 .. m -> D] /\ h[k] = step[<<k, f[k - 1]>>]
        /\ \A j \in 0 .. m : j # k => h[j] = f[j]
    BY <2>2, <2>3
  <2>5. Upto(k, h)
    <3>1. h[0] = base
      BY <2>1, <2>4
    <3>2. ASSUME NEW j \in 1 .. k PROVE h[j] = step[<<j, h[j - 1]>>]
      <4>1. h[j - 1] = f[j - 1]
        BY <2>4
      <4>2. CASE j = k
        BY <2>4, <4>1, <4>2
      <4>3. CASE j # k
        BY <2>1, <2>4, <4>1, <4>3
      <4>4. QED
        BY <4>2, <4>3
    <3>3. QED
      BY <3>1, <3>2
  <2>6. QED
    BY <2>4, <2>5
<1> HIDE DEF S
<1>3. m \in S
  BY <1>1, <1>2, Reaches
<1>4. QED
  BY <1>3 DEF S, Iterated

\* The function that Made defines.
LEMMA MadeFacts ==
  ASSUME NEW g \in Graphs, NEW o
  PROVE  \A k \in 0 .. DefaultMax : \A n \in DOMAIN g :
           /\ Made(g, o)[k][n] \in DOMAIN g \union {0}
           /\ Made(g, o)[k][n] = IF g[n].kind # "object" THEN n
                                 ELSE IF ~o.default \/ k = 0 \/ g[n].items = <<>> THEN 0
                                 ELSE Made(g, o)[k - 1][g[n].items[1]]
<1> DEFINE N == DOMAIN g
           D == [N -> N \union {0}]
           body(f) == [k \in 0 .. DefaultMax |->
                         [n \in N |-> IF g[n].kind # "object" THEN n
                                      ELSE IF ~o.default \/ k = 0 \/ g[n].items = <<>> THEN 0
                                      ELSE f[k - 1][g[n].items[1]]]]
<1>1. DefaultMax \in Nat /\ \A n \in N : g[n].items # <<>> => g[n].items[1] \in N
  <2>1. ASSUME NEW n \in N, g[n].items # <<>> PROVE g[n].items[1] \in N
    <3>1. g[n].items \in Seq(N)
      BY EncoderAssumption DEF IsGraph
    <3>2. 1 \in 1 .. Len(g[n].items)
      BY <2>1, <3>1, EmptySeq
    <3>3. QED
      BY <3>1, <3>2, ElementOfSeq
  <2>2. QED
    BY <2>1, EncoderAssumption
<1>2. PICK base : base = [n \in N |-> IF g[n].kind # "object" THEN n ELSE 0]
  OBVIOUS
<1>3. PICK step : step = [p \in (1 .. DefaultMax) \X D |->
                            [n \in N |-> IF g[n].kind # "object" THEN n
                                         ELSE IF ~o.default \/ g[n].items = <<>> THEN 0
                                         ELSE p[2][g[n].items[1]]]]
  OBVIOUS
<1>4. base \in D
  BY <1>2
<1>5. step \in [(1 .. DefaultMax) \X D -> D]
  BY <1>1, <1>3
<1>6a. PICK f : Iterated(f, DefaultMax, D, base, step)
  <2> HIDE DEF D
  <2>1. QED
    BY <1>1, <1>4, <1>5, Iterates, Zenon
<1>6. /\ f \in [0 .. DefaultMax -> D] /\ f[0] = base
      /\ \A k \in 1 .. DefaultMax : f[k] = step[<<k, f[k - 1]>>]
  BY <1>6a, Zenon DEF Iterated
<1>7. f = body(f)
  <2>1. ASSUME NEW k \in 0 .. DefaultMax PROVE f[k] = body(f)[k]
    <3>1. CASE k = 0
      BY <1>2, <1>6, <3>1
    <3>2. CASE k # 0
      <4>1. k \in 1 .. DefaultMax /\ k - 1 \in 0 .. DefaultMax
        BY <1>1, <3>2
      <4>2. f[k - 1] \in D
        BY <1>6, <4>1
      <4>3. step[<<k, f[k - 1]>>] =
              [n \in N |-> IF g[n].kind # "object" THEN n
                           ELSE IF ~o.default \/ g[n].items = <<>> THEN 0
                           ELSE f[k - 1][g[n].items[1]]]
        BY <1>3, <4>1, <4>2
      <4>4. QED
        BY <1>6, <3>2, <4>1, <4>3
    <3>3. QED
      BY <3>1, <3>2
  <2>2. QED
    BY <1>6, <2>1
<1>8. Made(g, o) = CHOOSE h : h = body(h)
  BY Zenon DEF Made
<1>9. Made(g, o) = body(Made(g, o))
  <2> HIDE DEF body
  <2>1. QED
    BY <1>7, <1>8, Zenon
<1>10. PICK made : made = Made(g, o)
  OBVIOUS
<1>11. made = body(made)
  BY <1>9, <1>10, Zenon
<1>12. \A k \in 0 .. DefaultMax : \A n \in N :
         made[k][n] = IF g[n].kind # "object" THEN n
                      ELSE IF ~o.default \/ k = 0 \/ g[n].items = <<>> THEN 0
                      ELSE made[k - 1][g[n].items[1]]
  <2>1. \A k \in 0 .. DefaultMax : made[k] = body(made)[k]
    <3> HIDE DEF body
    <3>1. QED
      BY <1>11, Zenon
  <2>2. ASSUME NEW k \in 0 .. DefaultMax
        PROVE  made[k] = [n \in N |-> IF g[n].kind # "object" THEN n
                                      ELSE IF ~o.default \/ k = 0 \/ g[n].items = <<>> THEN 0
                                      ELSE made[k - 1][g[n].items[1]]]
    BY <2>1, Zenon
  <2>3. ASSUME NEW k \in 0 .. DefaultMax, NEW n \in N
        PROVE  made[k][n] = IF g[n].kind # "object" THEN n
                            ELSE IF ~o.default \/ k = 0 \/ g[n].items = <<>> THEN 0
                            ELSE made[k - 1][g[n].items[1]]
    <3>1. PICK u : u = made[k - 1]
      OBVIOUS
    <3>2. PICK v : v = made[k]
      OBVIOUS
    <3>3. v = [i \in N |-> IF g[i].kind # "object" THEN i
                           ELSE IF ~o.default \/ k = 0 \/ g[i].items = <<>> THEN 0
                           ELSE u[g[i].items[1]]]
      BY <2>2, <3>1, <3>2
    <3>4. v[n] = IF g[n].kind # "object" THEN n
                 ELSE IF ~o.default \/ k = 0 \/ g[n].items = <<>> THEN 0
                 ELSE u[g[n].items[1]]
      BY <3>3
    <3>5. QED
      BY <3>1, <3>2, <3>4
  <2>4. QED
    BY <2>3, Zenon
<1> DEFINE S == {k \in 0 .. DefaultMax : \A n \in N : made[k][n] \in N \union {0}}
<1>13. 0 \in S
  BY <1>1, <1>12
<1>14. ASSUME NEW k \in 1 .. DefaultMax, k - 1 \in S PROVE k \in S
  <2>1. k \in 0 .. DefaultMax
    OBVIOUS
  <2>2. QED
    BY <1>1, <1>12, <1>14, <2>1
<1>15. \A k \in 0 .. DefaultMax : k \in S
  <2> HIDE DEF S
  <2>1. QED
    BY <1>1, <1>13, <1>14, Reaches
<1>16. QED
  BY <1>10, <1>12, <1>15

\* The tokens of a text, and the elements of the containers of a graph.
Alphabet == Tokens \union {"error"}
Elements(g) == (Keys \union {"NULL"}) \X DOMAIN g

\* What the text has of the j-th element from the end.
ElementText(elements, t, j) ==
  (IF j < Len(elements) THEN <<",">> ELSE <<>>)
    \o NameText(elements[Len(elements) + 1 - j][1]) \o t[elements[Len(elements) + 1 - j][2]]

\* A name before a value.
LEMMA NameTextType ==
  ASSUME NEW key \in Keys \union {"NULL"}
  PROVE  NameText(key) \in Seq(Alphabet)
<1>1. key # "NULL" => key \in Alphabet
  BY DEF Alphabet, Tokens
<1>2. ":" \in Alphabet /\ "error" \in Alphabet
  BY DEF Alphabet, Tokens
<1>3. QED
  BY <1>1, <1>2, EmptySeq DEF NameText

\* An element with its name and its separator.
LEMMA ElementTextType ==
  ASSUME NEW g, NEW elements \in Seq(Elements(g)), NEW t \in [DOMAIN g -> Seq(Alphabet)],
         NEW j \in 1 .. Len(elements)
  PROVE  ElementText(elements, t, j) \in Seq(Alphabet)
<1>1. Len(elements) + 1 - j \in 1 .. Len(elements)
  BY LenProperties
<1>2. PICK e : e = elements[Len(elements) + 1 - j]
  OBVIOUS
<1>3. e[1] \in Keys \union {"NULL"} /\ e[2] \in DOMAIN g
  BY <1>1, <1>2, ElementOfSeq DEF Elements
<1>4. PICK comma : comma = IF j < Len(elements) THEN <<",">> ELSE <<>>
  OBVIOUS
<1>5. comma \in Seq(Alphabet)
  <2>1. "," \in Alphabet
    BY DEF Alphabet, Tokens
  <2>2. <<>> \in Seq(Alphabet)
    BY EmptySeq
  <2>3. <<",">> \in Seq(Alphabet)
    BY <2>1, Singleton, Zenon
  <2>4. QED
    BY <1>4, <2>2, <2>3, Zenon
<1>6. NameText(e[1]) \in Seq(Alphabet) /\ t[e[2]] \in Seq(Alphabet)
  BY <1>3, NameTextType
<1>7. (comma \o NameText(e[1])) \o t[e[2]] \in Seq(Alphabet)
  BY <1>5, <1>6, ConcatProperties
<1>8. QED
  BY <1>2, <1>4, <1>7 DEF ElementText

\* The function that Rest defines.
LEMMA RestFacts ==
  ASSUME NEW g, NEW elements \in Seq(Elements(g)), NEW t \in [DOMAIN g -> Seq(Alphabet)],
         NEW bracket \in Alphabet
  PROVE  /\ Rest(elements, t, bracket)[0] = <<bracket>>
         /\ \A j \in 1 .. Len(elements) :
              Rest(elements, t, bracket)[j] =
                ElementText(elements, t, j) \o Rest(elements, t, bracket)[j - 1]
         /\ \A j \in 0 .. Len(elements) : Rest(elements, t, bracket)[j] \in Seq(Alphabet)
<1> DEFINE D == Seq(Alphabet)
           piece(j) == ElementText(elements, t, j)
           body(f) == [j \in 0 .. Len(elements) |->
                         IF j = 0 THEN <<bracket>>
                         ELSE (IF j < Len(elements) THEN <<",">> ELSE <<>>)
                              \o NameText(elements[Len(elements) + 1 - j][1])
                              \o t[elements[Len(elements) + 1 - j][2]] \o f[j - 1]]
<1>1. PICK m : m = Len(elements)
  OBVIOUS
<1>2. m \in Nat /\ \A j \in 1 .. m : piece(j) \in D
  BY <1>1, LenProperties, ElementTextType
<1>3. PICK pieces : pieces = [j \in 1 .. m |-> piece(j)]
  OBVIOUS
<1>4. pieces \in [1 .. m -> D] /\ \A j \in 1 .. m : pieces[j] = piece(j)
  <2> HIDE DEF piece, D
  <2>1. QED
    BY <1>2, <1>3
<1>5. PICK step : step = [p \in (1 .. m) \X D |-> pieces[p[1]] \o p[2]]
  OBVIOUS
<1>6. step \in [(1 .. m) \X D -> D] /\ \A j \in 1 .. m : \A d \in D : step[<<j, d>>] = pieces[j] \o d
  <2>1. \A j \in 1 .. m : \A d \in D : pieces[j] \o d \in D
    BY <1>4, ConcatProperties
  <2>2. QED
    BY <1>5, <2>1
<1>7. <<bracket>> \in D
  OBVIOUS
<1>8a. PICK f : Iterated(f, m, D, <<bracket>>, step)
  <2> HIDE DEF D
  <2>1. QED
    BY <1>2, <1>6, <1>7, Iterates, Zenon
<1>8. /\ f \in [0 .. m -> D] /\ f[0] = <<bracket>>
      /\ \A j \in 1 .. m : f[j] = step[<<j, f[j - 1]>>]
  BY <1>8a, Zenon DEF Iterated
<1>9. f = body(f)
  <2>1. ASSUME NEW j \in 0 .. m PROVE f[j] = body(f)[j]
    <3>1. CASE j = 0
      BY <1>1, <1>2, <1>8, <3>1
    <3>2. CASE j # 0
      <4>1. j \in 1 .. m /\ j - 1 \in 0 .. m
        BY <1>2, <3>2
      <4>2. f[j] = piece(j) \o f[j - 1]
        <5> HIDE DEF D, piece
        <5>1. f[j - 1] \in D
          BY <1>8, <4>1
        <5>2. QED
          BY <1>4, <1>6, <1>8, <4>1, <5>1
      <4>3. piece(j) = (IF j < Len(elements) THEN <<",">> ELSE <<>>)
                       \o NameText(elements[Len(elements) + 1 - j][1])
                       \o t[elements[Len(elements) + 1 - j][2]]
        BY Zenon DEF ElementText
      <4>4. QED
        BY <1>1, <3>2, <4>2, <4>3, Zenon
    <3>3. QED
      BY <3>1, <3>2
  <2>2. QED
    BY <1>1, <1>8, <2>1
<1>10. Rest(elements, t, bracket) = CHOOSE h : h = body(h)
  BY Zenon DEF Rest
<1>11. PICK rest : rest = Rest(elements, t, bracket)
  OBVIOUS
<1>12. rest = body(rest)
  <2> HIDE DEF body
  <2>1. QED
    BY <1>9, <1>10, <1>11, Zenon
<1>13. rest[0] = <<bracket>>
  <2>1. 0 \in 0 .. m
    BY <1>2
  <2>2. QED
    BY <1>1, <1>12, <2>1, Zenon
<1>14. ASSUME NEW j \in 1 .. m PROVE rest[j] = piece(j) \o rest[j - 1]
  <2>1. j \in 0 .. m /\ j # 0
    BY <1>2
  <2>2. rest[j] = body(rest)[j]
    BY <1>12, Zenon
  <2>3. body(rest)[j] = piece(j) \o rest[j - 1]
    BY <1>1, <2>1, Zenon DEF ElementText
  <2>4. QED
    BY <2>2, <2>3, Zenon
<1> DEFINE S == {j \in 0 .. m : rest[j] \in D}
<1>15. 0 \in S
  <2>1. 0 \in 0 .. m
    BY <1>2
  <2>2. QED
    BY <1>7, <1>13, <2>1, Zenon
<1>16. ASSUME NEW j \in 1 .. m, j - 1 \in S PROVE j \in S
  <2>1. piece(j) \in D /\ rest[j - 1] \in D /\ j \in 0 .. m
    BY <1>2, <1>16
  <2>2. piece(j) \o rest[j - 1] \in D
    <3> HIDE DEF piece
    <3>1. QED
      BY <2>1, ConcatProperties
  <2>3. QED
    BY <1>14, <2>1, <2>2, Zenon
<1> HIDE DEF piece
<1>17. \A j \in 0 .. m : j \in S
  <2> HIDE DEF S
  <2>1. QED
    BY <1>2, <1>15, <1>16, Reaches
<1>18. QED
  BY <1>1, <1>11, <1>13, <1>14, <1>17 DEF piece

-----------------------------------------------------------------------------
(* Sorted keys. *)

Distinct(keys) == \A i, j \in DOMAIN keys : keys[i] = keys[j] => i = j

\* The keys that sort.
LEMMA Ranks ==
  /\ DOMAIN Rank = {"a", "b", "c"}
  /\ Rank["a"] = 1 /\ Rank["b"] = 2 /\ Rank["c"] = 3
BY DEF Rank

\* Different keys of a dictionary that sort have different ranks.
LEMMA RanksDiffer ==
  ASSUME NEW x \in {"a", "b", "c"}, NEW y \in {"a", "b", "c"}, Rank[x] < Rank[y]
  PROVE  x # y /\ ~(Rank[y] < Rank[x])
BY Ranks

\* There are at most three of them in a dictionary.
LEMMA FewKeys ==
  ASSUME NEW keys \in Seq(Keys), Distinct(keys), Sortable(keys)
  PROVE  Len(keys) \in 0 .. 3
<1>1. Len(keys) \in Nat /\ DOMAIN keys = 1 .. Len(keys)
  BY LenProperties
<1> SUFFICES ASSUME Len(keys) > 3 PROVE FALSE
  BY <1>1
<1>2. \A i \in 1 .. 4 : i \in DOMAIN keys /\ keys[i] \in {"a", "b", "c"}
  BY <1>1, Ranks DEF Sortable
<1>3. \A i, j \in 1 .. 4 : keys[i] = keys[j] => i = j
  BY <1>2, Zenon DEF Distinct
<1>4. /\ keys[1] \in {"a", "b", "c"} /\ keys[2] \in {"a", "b", "c"}
      /\ keys[3] \in {"a", "b", "c"} /\ keys[4] \in {"a", "b", "c"}
  BY <1>2
<1>5. /\ keys[1] # keys[2] /\ keys[1] # keys[3] /\ keys[1] # keys[4]
      /\ keys[2] # keys[3] /\ keys[2] # keys[4] /\ keys[3] # keys[4]
  BY <1>3
<1>6. QED
  BY <1>4, <1>5

\* What an order of the keys is.
LEMMA OrderFacts ==
  ASSUME NEW keys \in Seq(Keys), NEW s
  PROVE  s \in Orders(keys) <=>
           /\ s \in [1 .. Len(keys) -> {keys[i] : i \in 1 .. Len(keys)}]
           /\ \A i, j \in 1 .. Len(keys) : i < j => Rank[s[i]] < Rank[s[j]]
BY LenProperties DEF Orders

\* Keys that sort have an order.
LEMMA OrderExists ==
  ASSUME NEW keys \in Seq(Keys), Distinct(keys), Sortable(keys)
  PROVE  \E s : s \in Orders(keys)
<1>1. Len(keys) \in 0 .. 3 /\ DOMAIN keys = 1 .. Len(keys) /\ keys \in [1 .. Len(keys) -> Keys]
  BY FewKeys, LenProperties
<1> DEFINE m == Len(keys)
           R == {keys[i] : i \in 1 .. m}
<1>a. \A i, j \in 1 .. m :
        i < j => \/ i = 1 /\ j = 2 /\ m >= 2
                 \/ i = 1 /\ j = 3 /\ m >= 3
                 \/ i = 2 /\ j = 3 /\ m >= 3
  <2> HIDE DEF m
  <2>1. m \in 0 .. 3
    BY <1>1 DEF m
  <2>2. QED
    BY <2>1
<1>b. ASSUME NEW i \in 1 .. m
      PROVE  (i = 1 /\ m >= 1) \/ (i = 2 /\ m >= 2) \/ (i = 3 /\ m >= 3)
  <2> HIDE DEF m
  <2>1. m \in Int /\ i \in Int /\ m <= 3 /\ 1 <= i /\ i <= m
    BY <1>1 DEF m
  <2>2. QED
    BY <2>1
<1>2. ASSUME NEW x, NEW y, NEW z, m >= 1 => x \in R, m >= 2 => y \in R, m >= 3 => z \in R,
             m >= 2 => Rank[x] < Rank[y], m >= 3 => Rank[y] < Rank[z] /\ Rank[x] < Rank[z]
      PROVE  \E s : s \in Orders(keys)
  <2>1. PICK s : s = [i \in 1 .. m |-> IF i = 1 THEN x ELSE IF i = 2 THEN y ELSE z]
    OBVIOUS
  <2>2. s \in [1 .. m -> R] /\ \A i \in 1 .. m : s[i] = IF i = 1 THEN x ELSE IF i = 2 THEN y ELSE z
    <3>1. \A i \in 1 .. m : s[i] = IF i = 1 THEN x ELSE IF i = 2 THEN y ELSE z
      BY <2>1
    <3>2. \A i \in 1 .. m : s[i] \in R
      BY <1>b, <1>2, <3>1
    <3>3. QED
      BY <2>1, <3>1, <3>2
  <2>3. ASSUME NEW i \in 1 .. m, NEW j \in 1 .. m, i < j PROVE Rank[s[i]] < Rank[s[j]]
    <3>1. \/ i = 1 /\ j = 2 /\ m >= 2
          \/ i = 1 /\ j = 3 /\ m >= 3
          \/ i = 2 /\ j = 3 /\ m >= 3
      BY <1>a, <2>3
    <3>2. s[i] = (IF i = 1 THEN x ELSE IF i = 2 THEN y ELSE z)
          /\ s[j] = (IF j = 1 THEN x ELSE IF j = 2 THEN y ELSE z)
      BY <2>2
    <3>3. QED
      BY <1>2, <3>1, <3>2
  <2>4. QED
    BY <2>2, <2>3, OrderFacts
<1>3. CASE m <= 1
  <2>1. \A i \in 1 .. m : i = 1 /\ keys[1] \in R
    BY <1>1, <1>3
  <2>2. QED
    BY <1>1, <1>2, <1>3, <2>1
<1>4. CASE m >= 2
  <2>1. \A i \in 1 .. m : keys[i] \in {"a", "b", "c"} /\ keys[i] \in R
    BY <1>1, <1>4, Ranks DEF Sortable
  <2>2. \A i, j \in 1 .. m : keys[i] = keys[j] => i = j
    BY <1>1 DEF Distinct
  <2>3. CASE m = 2
    <3>1. /\ keys[1] \in {"a", "b", "c"} /\ keys[2] \in {"a", "b", "c"} /\ keys[1] # keys[2]
          /\ keys[1] \in R /\ keys[2] \in R
      BY <2>1, <2>2, <2>3
    <3> HIDE DEF R
    <3>2. CASE Rank[keys[1]] < Rank[keys[2]]
      BY <1>2, <2>3, <3>1, <3>2
    <3>3. CASE Rank[keys[2]] < Rank[keys[1]]
      BY <1>2, <2>3, <3>1, <3>3
    <3>4. QED
      BY <3>1, <3>2, <3>3, Ranks
  <2>4. CASE m = 3
    <3>1. /\ keys[1] \in {"a", "b", "c"} /\ keys[2] \in {"a", "b", "c"} /\ keys[3] \in {"a", "b", "c"}
          /\ keys[1] # keys[2] /\ keys[1] # keys[3] /\ keys[2] # keys[3]
          /\ keys[1] \in R /\ keys[2] \in R /\ keys[3] \in R
      BY <2>1, <2>2, <2>4
    <3> HIDE DEF R
    <3>2. "a" \in R /\ "b" \in R /\ "c" \in R
      BY <3>1
    <3>3. QED
      BY <1>2, <2>4, <3>2, Ranks
  <2>5. QED
    BY <1>1, <1>4, <2>3, <2>4
<1>5. QED
  BY <1>1, <1>3, <1>4

\* And only one.
LEMMA OrderUnique ==
  ASSUME NEW keys \in Seq(Keys), Distinct(keys), Sortable(keys),
         NEW s \in Orders(keys), NEW u \in Orders(keys)
  PROVE  s = u
<1>1. Len(keys) \in 0 .. 3 /\ DOMAIN keys = 1 .. Len(keys)
  BY FewKeys, LenProperties
<1> DEFINE m == Len(keys)
           R == {keys[i] : i \in 1 .. m}
<1>2. /\ s \in [1 .. m -> R] /\ u \in [1 .. m -> R]
      /\ \A i, j \in 1 .. m : i < j => Rank[s[i]] < Rank[s[j]] /\ Rank[u[i]] < Rank[u[j]]
  BY OrderFacts
<1>3. \A i \in 1 .. m : s[i] \in R /\ u[i] \in R
  BY <1>2
<1>c. (\A i \in 1 .. m : s[i] = u[i]) => s = u
  <2> HIDE DEF R, m
  <2>1. s = [i \in 1 .. m |-> s[i]] /\ u = [i \in 1 .. m |-> u[i]]
    BY <1>2
  <2>2. QED
    BY <2>1
<1>4. CASE m = 0
  <2>1. 1 .. m = {}
    BY <1>4
  <2>2. QED
    BY <1>2, <2>1
<1>5. CASE m = 1
  <2>1. R = {keys[1]} /\ 1 .. m = {1}
    BY <1>5
  <2>2. QED
    BY <1>2, <2>1
<1>6. CASE m > 1
  <2>1. R \subseteq {"a", "b", "c"}
    BY <1>1, <1>6, Ranks DEF Sortable
  <2>2. CASE m = 2
    <3>1. 1 .. m = {1, 2} /\ R = {keys[1], keys[2]}
      BY <2>2
    <3>2. Rank[s[1]] < Rank[s[2]] /\ Rank[u[1]] < Rank[u[2]]
      BY <1>2, <2>2
    <3>3. /\ s[1] \in R /\ s[2] \in R /\ u[1] \in R /\ u[2] \in R
          /\ keys[1] \in {"a", "b", "c"} /\ keys[2] \in {"a", "b", "c"}
      BY <1>3, <2>1, <3>1
    <3>4. s[1] # s[2] /\ u[1] # u[2]
      BY <2>1, <3>2, <3>3, RanksDiffer
    <3>5. s[1] = u[1] /\ s[2] = u[2]
      <4>1. CASE s[1] = keys[1]
        <5>1. s[2] = keys[2] /\ u[1] \in {keys[1], keys[2]} /\ u[2] \in {keys[1], keys[2]}
          BY <3>1, <3>3, <3>4, <4>1
        <5>2. ~(Rank[keys[2]] < Rank[keys[1]])
          BY <3>2, <3>3, <4>1, <5>1, RanksDiffer
        <5>3. QED
          BY <3>2, <3>4, <4>1, <5>1, <5>2
      <4>2. CASE s[1] = keys[2]
        <5>1. s[2] = keys[1] /\ u[1] \in {keys[1], keys[2]} /\ u[2] \in {keys[1], keys[2]}
          BY <3>1, <3>3, <3>4, <4>2
        <5>2. ~(Rank[keys[1]] < Rank[keys[2]])
          BY <3>2, <3>3, <4>2, <5>1, RanksDiffer
        <5>3. QED
          BY <3>2, <3>4, <4>2, <5>1, <5>2
      <4>3. QED
        BY <3>1, <3>3, <4>1, <4>2
    <3>6. \A i \in 1 .. m : s[i] = u[i]
      BY <3>1, <3>5
    <3>7. QED
      BY <1>c, <3>6
  <2>3. CASE m = 3
    <3>1. 1 .. m = {1, 2, 3}
      BY <2>3
    <3>2. /\ Rank[s[1]] < Rank[s[2]] /\ Rank[s[2]] < Rank[s[3]]
          /\ Rank[u[1]] < Rank[u[2]] /\ Rank[u[2]] < Rank[u[3]]
      BY <1>2, <2>3
    <3>3. /\ s[1] \in {"a", "b", "c"} /\ s[2] \in {"a", "b", "c"} /\ s[3] \in {"a", "b", "c"}
          /\ u[1] \in {"a", "b", "c"} /\ u[2] \in {"a", "b", "c"} /\ u[3] \in {"a", "b", "c"}
      BY <1>3, <2>1, <3>1
    <3>4. s[1] = u[1] /\ s[2] = u[2] /\ s[3] = u[3]
      BY <3>2, <3>3, Ranks
    <3>5. \A i \in 1 .. m : s[i] = u[i]
      BY <3>1, <3>4
    <3>6. QED
      BY <1>c, <3>5
  <2>4. QED
    BY <1>1, <1>6, <2>2, <2>3
<1>7. QED
  BY <1>1, <1>4, <1>5, <1>6

-----------------------------------------------------------------------------
(* The texts of objects. *)

\* The elements of a list.
LEMMA ListElementsFacts ==
  ASSUME NEW g \in Graphs, NEW n \in DOMAIN g
  PROVE  /\ g[n].items \in Seq(DOMAIN g) /\ Len(g[n].items) \in Nat
         /\ ListElements(g, n) \in Seq(Elements(g))
         /\ Len(ListElements(g, n)) = Len(g[n].items)
         /\ \A i \in 1 .. Len(g[n].items) : ListElements(g, n)[i] = <<"NULL", g[n].items[i]>>
<1>1. g[n].items \in Seq(DOMAIN g)
  BY EncoderAssumption DEF IsGraph
<1>2. PICK items : items = g[n].items
  OBVIOUS
<1>3. /\ Len(items) \in Nat /\ DOMAIN items = 1 .. Len(items)
      /\ \A i \in 1 .. Len(items) : items[i] \in DOMAIN g
  BY <1>1, <1>2, LenProperties, ElementOfSeq
<1>4. ListElements(g, n) = [i \in 1 .. Len(items) |-> <<"NULL", items[i]>>]
  BY <1>2, <1>3 DEF ListElements
<1>5. \A i \in 1 .. Len(items) : <<"NULL", items[i]>> \in Elements(g)
  BY <1>3 DEF Elements
<1>6. ListElements(g, n) \in [1 .. Len(items) -> Elements(g)]
  BY <1>4, <1>5
<1>7. ListElements(g, n) \in Seq(Elements(g)) /\ Len(ListElements(g, n)) = Len(items)
  BY <1>3, <1>4, <1>6
<1>8. QED
  BY <1>1, <1>2, <1>3, <1>4, <1>7

\* The value of a key in a dictionary.
ValueOf(g, d, key) == g[d].items[CHOOSE i \in DOMAIN g[d].keys : g[d].keys[i] = key]

\* The order in which a dictionary is written.
InOrder(g, o, d, order) ==
  IF o.sortKeys THEN Sortable(g[d].keys) /\ order \in Orders(g[d].keys) ELSE order = g[d].keys

\* The elements of a dictionary.
LEMMA DictElementsFacts ==
  ASSUME NEW g \in Graphs, NEW o, NEW d \in DOMAIN g, g[d].kind = "dict",
         NEW order, InOrder(g, o, d, order)
  PROVE  /\ g[d].keys \in Seq(Keys) /\ Len(g[d].keys) \in Nat
         /\ order \in Seq(Keys) /\ Len(order) = Len(g[d].keys)
         /\ DictElements(g, o, d) \in Seq(Elements(g))
         /\ Len(DictElements(g, o, d)) = Len(g[d].keys)
         /\ \A i \in 1 .. Len(g[d].keys) :
              DictElements(g, o, d)[i] = <<order[i], ValueOf(g, d, order[i])>>
<1>1. /\ g[d].items \in Seq(DOMAIN g) /\ g[d].keys \in Seq(Keys)
      /\ Len(g[d].keys) = Len(g[d].items) /\ Distinct(g[d].keys)
  BY EncoderAssumption DEF IsGraph, Distinct
<1>2. PICK keys : keys = g[d].keys
  OBVIOUS
<1>3. PICK m : m = Len(keys)
  OBVIOUS
<1>4. /\ m \in Nat /\ DOMAIN keys = 1 .. m /\ keys \in Seq(Keys) /\ keys \in [1 .. m -> Keys]
      /\ Len(g[d].items) = m /\ Distinct(keys)
  BY <1>1, <1>2, <1>3, LenProperties
<1>5. order \in [1 .. m -> {keys[i] : i \in 1 .. m}]
  <2>1. CASE o.sortKeys
    BY <1>2, <1>3, <1>4, <2>1, OrderFacts DEF InOrder
  <2>2. CASE ~o.sortKeys
    <3>1. order = keys
      BY <1>2, <2>2 DEF InOrder
    <3>2. keys \in [1 .. m -> {keys[i] : i \in 1 .. m}]
      BY <1>4
    <3>3. QED
      BY <3>1, <3>2
  <2>3. QED
    BY <2>1, <2>2
<1>6. order = IF o.sortKeys THEN CHOOSE s \in Orders(keys) : TRUE ELSE keys
  <2>1. CASE o.sortKeys
    <3>1. Sortable(keys) /\ order \in Orders(keys)
      BY <1>2, <2>1 DEF InOrder
    <3>2. PICK s : s = CHOOSE p \in Orders(keys) : TRUE
      OBVIOUS
    <3>3. s \in Orders(keys)
      BY <3>1, <3>2
    <3>4. s = order
      BY <1>4, <3>1, <3>3, OrderUnique
    <3>5. QED
      BY <2>1, <3>2, <3>4
  <2>2. CASE ~o.sortKeys
    BY <1>2, <2>2 DEF InOrder
  <2>3. QED
    BY <2>1, <2>2
<1>7. ASSUME NEW i \in 1 .. m
      PROVE  order[i] \in Keys /\ ValueOf(g, d, order[i]) \in DOMAIN g
  <2>1. PICK j \in 1 .. m : order[i] = keys[j]
    BY <1>5
  <2>2. PICK k : k = CHOOSE p \in DOMAIN keys : keys[p] = order[i]
    OBVIOUS
  <2>3. k \in 1 .. m
    BY <1>4, <2>1, <2>2
  <2>4. g[d].items[k] \in DOMAIN g
    BY <1>1, <1>4, <2>3, ElementOfSeq
  <2>5. QED
    BY <1>2, <1>4, <2>1, <2>2, <2>4 DEF ValueOf
<1>8. DictElements(g, o, d) = [i \in 1 .. m |-> <<order[i], ValueOf(g, d, order[i])>>]
  <2> DEFINE s == IF o.sortKeys THEN CHOOSE p \in Orders(g[d].keys) : TRUE ELSE g[d].keys
  <2>1. DictElements(g, o, d) = [i \in DOMAIN g[d].keys |-> <<s[i], ValueOf(g, d, s[i])>>]
    BY Zenon DEF DictElements, ValueOf
  <2>2. s = order
    BY <1>2, <1>6
  <2> HIDE DEF s
  <2>3. QED
    BY <1>2, <1>4, <2>1, <2>2
<1>9. \A i \in 1 .. m : <<order[i], ValueOf(g, d, order[i])>> \in Elements(g)
  BY <1>7 DEF Elements
<1>10. DictElements(g, o, d) \in [1 .. m -> Elements(g)]
  BY <1>8, <1>9
<1>11. DictElements(g, o, d) \in Seq(Elements(g)) /\ Len(DictElements(g, o, d)) = m
  BY <1>4, <1>8, <1>10
<1>12. order \in Seq(Keys) /\ Len(order) = m
  <2>1. order \in [1 .. m -> Keys]
    BY <1>5, <1>7
  <2>2. QED
    BY <1>4, <2>1
<1>13. QED
  BY <1>2, <1>3, <1>4, <1>8, <1>11, <1>12

\* A dictionary has an order if its keys sort where they are to.
LEMMA InOrderExists ==
  ASSUME NEW g \in Graphs, NEW o, NEW d \in DOMAIN g, g[d].kind = "dict",
         o.sortKeys => Sortable(g[d].keys)
  PROVE  \E order : InOrder(g, o, d, order)
<1>1. g[d].keys \in Seq(Keys) /\ Distinct(g[d].keys)
  BY EncoderAssumption DEF IsGraph, Distinct
<1>2. QED
  BY <1>1, OrderExists DEF InOrder

\* The texts of lists and dictionaries from their j-th last element on.
ListRest(g, n, t, j) == Rest(ListElements(g, n), t, "]")[j]
DictRest(g, o, d, t, j) ==
  IF o.sortKeys => Sortable(g[d].keys) THEN Rest(DictElements(g, o, d), t, "}")[j] ELSE <<"error">>
ListText(g, n, t) == <<"[">> \o ListRest(g, n, t, Len(g[n].items))
DictText(g, o, d, t) == <<"{">> \o DictRest(g, o, d, t, Len(g[d].keys))

\* They are sequences of tokens.
LEMMA ContainerTextType ==
  ASSUME NEW g \in Graphs, NEW o, NEW t \in [DOMAIN g -> Seq(Alphabet)], NEW n \in DOMAIN g
  PROVE  /\ \A j \in 0 .. Len(g[n].items) : ListRest(g, n, t, j) \in Seq(Alphabet)
         /\ ListText(g, n, t) \in Seq(Alphabet)
         /\ g[n].kind = "dict" =>
              /\ \A j \in 0 .. Len(g[n].keys) : DictRest(g, o, n, t, j) \in Seq(Alphabet)
              /\ DictText(g, o, n, t) \in Seq(Alphabet)
<1>1. /\ "[" \in Alphabet /\ "]" \in Alphabet /\ "{" \in Alphabet /\ "}" \in Alphabet
      /\ "error" \in Alphabet
  BY DEF Alphabet, Tokens
<1>2. <<"[">> \in Seq(Alphabet) /\ <<"{">> \in Seq(Alphabet) /\ <<"error">> \in Seq(Alphabet)
  BY <1>1, Singleton, Zenon
<1>3. ASSUME NEW j \in 0 .. Len(g[n].items) PROVE ListRest(g, n, t, j) \in Seq(Alphabet)
  <2>1. j \in 0 .. Len(ListElements(g, n))
    BY ListElementsFacts
  <2>2. QED
    BY <1>1, <2>1, ListElementsFacts, RestFacts, Zenon DEF ListRest
<1>4. ListText(g, n, t) \in Seq(Alphabet)
  <2>1. Len(g[n].items) \in 0 .. Len(g[n].items)
    BY ListElementsFacts
  <2>2. QED
    BY <1>2, <1>3, <2>1, ConcatProperties DEF ListText
<1>5. ASSUME g[n].kind = "dict", NEW j \in 0 .. Len(g[n].keys)
      PROVE  DictRest(g, o, n, t, j) \in Seq(Alphabet)
  <2>1. CASE o.sortKeys => Sortable(g[n].keys)
    <3>1. PICK order : InOrder(g, o, n, order)
      BY <1>5, <2>1, InOrderExists
    <3>2. j \in 0 .. Len(DictElements(g, o, n)) /\ DictElements(g, o, n) \in Seq(Elements(g))
      BY <1>5, <3>1, DictElementsFacts
    <3>3. Rest(DictElements(g, o, n), t, "}")[j] \in Seq(Alphabet)
      BY <1>1, <3>2, RestFacts, Zenon
    <3>4. QED
      BY <2>1, <3>3 DEF DictRest
  <2>2. CASE ~(o.sortKeys => Sortable(g[n].keys))
    BY <1>2, <2>2 DEF DictRest
  <2>3. QED
    BY <2>1, <2>2
<1>6. ASSUME g[n].kind = "dict" PROVE DictText(g, o, n, t) \in Seq(Alphabet)
  <2>1. g[n].keys \in Seq(Keys)
    BY EncoderAssumption DEF IsGraph
  <2>2. Len(g[n].keys) \in 0 .. Len(g[n].keys)
    BY <2>1, LenProperties
  <2>3. QED
    BY <1>2, <1>5, <1>6, <2>2, ConcatProperties DEF DictText
<1>7. QED
  BY <1>3, <1>4, <1>5, <1>6

\* What __json__ returns.
JSONText(g, n) ==
  IF g[n].items # <<>> /\ g[g[n].items[1]].kind \in {"str", "bytes"} THEN <<"raw">>
  ELSE IF g[n].items # <<>> /\ g[g[n].items[1]].kind = "badBytes" THEN <<"badBytes">>
  ELSE <<"error">>

\* What the text of each kind of object is.
LEMMA ObjectTextCases ==
  ASSUME NEW g \in Graphs, NEW o, NEW t, NEW n \in DOMAIN g
  PROVE  /\ g[n].kind = "list" => ObjectText(g, o, n, t) = ListText(g, n, t)
         /\ g[n].kind = "dict" => ObjectText(g, o, n, t) = DictText(g, o, n, t)
         /\ g[n].kind = "toDict" =>
              ObjectText(g, o, n, t) =
                IF g[n].items # <<>> /\ g[g[n].items[1]].kind = "dict"
                THEN DictText(g, o, g[n].items[1], t) ELSE <<"error">>
         /\ g[n].kind = "json" => ObjectText(g, o, n, t) = JSONText(g, n)
         /\ g[n].kind \in {"const", "int", "minusOne", "uint", "bigint", "float", "str"} =>
              ObjectText(g, o, n, t) = <<g[n].kind>>
         /\ g[n].kind = "nan" => ObjectText(g, o, n, t) = IF o.allowNan THEN <<"nan">> ELSE <<"error">>
         /\ g[n].kind \in {"bytes", "badBytes"} =>
              ObjectText(g, o, n, t) = IF o.rejectBytes THEN <<"error">> ELSE <<g[n].kind>>
         /\ g[n].kind \in {"object", "badFloat"} => ObjectText(g, o, n, t) = <<"error">>
<1>1. n # 0
  BY EncoderAssumption DEF IsGraph, Nodes
<1>2. PICK kind : kind = g[n].kind
  OBVIOUS
<1> USE <1>1, <1>2
<1>3. kind = "list" => ObjectText(g, o, n, t) = ListText(g, n, t)
  BY DEF ObjectText, ListText, ListRest
<1>4. kind = "dict" => ObjectText(g, o, n, t) = DictText(g, o, n, t)
  BY DEF ObjectText, DictText, DictRest
<1>5. kind = "toDict" =>
        ObjectText(g, o, n, t) =
          IF g[n].items # <<>> /\ g[g[n].items[1]].kind = "dict"
          THEN DictText(g, o, g[n].items[1], t) ELSE <<"error">>
  BY DEF ObjectText, DictText, DictRest
<1>6. kind = "json" => ObjectText(g, o, n, t) = JSONText(g, n)
  BY DEF ObjectText, JSONText
<1>7. kind \in {"const", "int", "minusOne", "uint", "bigint", "float", "str"} =>
        ObjectText(g, o, n, t) = <<kind>>
  BY DEF ObjectText
<1>8. kind = "nan" => ObjectText(g, o, n, t) = IF o.allowNan THEN <<"nan">> ELSE <<"error">>
  BY DEF ObjectText
<1>9. kind \in {"bytes", "badBytes"} =>
        ObjectText(g, o, n, t) = IF o.rejectBytes THEN <<"error">> ELSE <<kind>>
  BY DEF ObjectText
<1>10. kind \in {"object", "badFloat"} => ObjectText(g, o, n, t) = <<"error">>
  BY DEF ObjectText
<1>11. QED
  BY <1>3, <1>4, <1>5, <1>6, <1>7, <1>8, <1>9, <1>10

\* Every text is a sequence of tokens.
LEMMA ObjectTextType ==
  ASSUME NEW g \in Graphs, NEW o, NEW t \in [DOMAIN g -> Seq(Alphabet)],
         NEW n \in DOMAIN g \union {0}
  PROVE  ObjectText(g, o, n, t) \in Seq(Alphabet)
<1>1. "error" \in Alphabet /\ "raw" \in Alphabet /\ \A k \in Kinds : k \in Alphabet
  BY DEF Alphabet, Tokens
<1>2. /\ <<"error">> \in Seq(Alphabet) /\ <<"raw">> \in Seq(Alphabet)
      /\ \A k \in Kinds : <<k>> \in Seq(Alphabet)
  BY <1>1, Singleton, Zenon
<1>3. CASE n = 0
  BY <1>2, <1>3 DEF ObjectText
<1>4. CASE n \in DOMAIN g
  <2>1. g[n].kind \in Kinds
    BY <1>4, EncoderAssumption DEF IsGraph
  <2>2. g[n].items # <<>> => g[n].items[1] \in DOMAIN g
    <3>1. g[n].items \in Seq(DOMAIN g)
      BY <1>4, EncoderAssumption DEF IsGraph
    <3>2. g[n].items # <<>> => 1 \in 1 .. Len(g[n].items)
      BY <3>1, EmptySeq
    <3>3. QED
      BY <3>1, <3>2, ElementOfSeq
  <2>3. CASE g[n].kind = "list"
    <3>1. ListText(g, n, t) \in Seq(Alphabet)
      BY <1>4, ContainerTextType
    <3>2. QED
      BY <1>4, <2>3, <3>1, ObjectTextCases
  <2>4. CASE g[n].kind = "dict"
    <3>1. DictText(g, o, n, t) \in Seq(Alphabet)
      BY <1>4, <2>4, ContainerTextType
    <3>2. QED
      BY <1>4, <2>4, <3>1, ObjectTextCases
  <2>5. CASE g[n].kind = "toDict"
    <3>1. ASSUME g[n].items # <<>>, g[g[n].items[1]].kind = "dict"
          PROVE  DictText(g, o, g[n].items[1], t) \in Seq(Alphabet)
      BY <2>2, <3>1, ContainerTextType
    <3>2. QED
      BY <1>2, <1>4, <2>5, <3>1, ObjectTextCases
  <2>6. CASE g[n].kind = "json"
    <3>1. "badBytes" \in Kinds
      BY DEF Kinds
    <3>2. JSONText(g, n) \in {<<"raw">>, <<"badBytes">>, <<"error">>}
      BY Zenon DEF JSONText
    <3>3. JSONText(g, n) \in Seq(Alphabet)
      BY <1>2, <3>1, <3>2, Zenon
    <3>4. ObjectText(g, o, n, t) = JSONText(g, n)
      BY <1>4, <2>6, ObjectTextCases, ZenonT(60)
    <3>5. QED
      BY <3>3, <3>4, Zenon
  <2>7. CASE g[n].kind \notin {"list", "dict", "toDict", "json"}
    <3>1. ObjectText(g, o, n, t) \in {<<"error">>, <<g[n].kind>>}
      BY <1>4, <2>1, <2>7, ObjectTextCases DEF Kinds
    <3>2. QED
      BY <1>2, <2>1, <3>1
  <2>8. QED
    BY <2>3, <2>4, <2>5, <2>6, <2>7
<1>5. QED
  BY <1>3, <1>4

\* The function that Texts defines.
LEMMA TextsFacts ==
  ASSUME NEW g \in Graphs, NEW o
  PROVE  /\ \A r \in 0 .. RecursionMax + 1 : Texts(g, o)[r] \in [DOMAIN g -> Seq(Alphabet)]
         /\ \A n \in DOMAIN g : Texts(g, o)[0][n] = <<"error">>
         /\ \A r \in 1 .. RecursionMax + 1 : \A n \in DOMAIN g :
              Texts(g, o)[r][n] =
                ObjectText(g, o, Made(g, o)[DefaultMax][n], Texts(g, o)[r - 1])
<1> DEFINE N == DOMAIN g
           D == [N -> Seq(Alphabet)]
           shown(n, t) == ObjectText(g, o, Made(g, o)[DefaultMax][n], t)
           body(f) == [r \in 0 .. RecursionMax + 1 |->
                         [n \in N |-> IF r = 0 THEN <<"error">> ELSE shown(n, f[r - 1])]]
<1>1. PICK m : m = RecursionMax + 1
  OBVIOUS
<1>2. m \in Nat /\ \A n \in N : \A t \in D : shown(n, t) \in Seq(Alphabet)
  <2>1. DefaultMax \in 0 .. DefaultMax
    BY EncoderAssumption
  <2>2. \A n \in N : Made(g, o)[DefaultMax][n] \in N \union {0}
    BY <2>1, MadeFacts, Zenon
  <2>3. \A n \in N : \A t \in D : shown(n, t) \in Seq(Alphabet)
    BY <2>2, ObjectTextType, Zenon
  <2>4. QED
    BY <1>1, <2>3, EncoderAssumption
<1> HIDE DEF shown
<1>3. PICK base : base = [n \in N |-> <<"error">>]
  OBVIOUS
<1>4. PICK step : step = [p \in (1 .. m) \X D |-> [n \in N |-> shown(n, p[2])]]
  OBVIOUS
<1>5. base \in D
  <2>1. "error" \in Alphabet
    BY DEF Alphabet
  <2>2. <<"error">> \in Seq(Alphabet)
    BY <2>1, Singleton, Zenon
  <2>3. QED
    BY <1>3, <2>2
<1>6. /\ step \in [(1 .. m) \X D -> D]
      /\ \A r \in 1 .. m : \A d \in D : step[<<r, d>>] = [n \in N |-> shown(n, d)]
  <2>1. \A d \in D : [n \in N |-> shown(n, d)] \in D
    BY <1>2
  <2> HIDE DEF D
  <2>2. QED
    BY <1>4, <2>1
<1>7. PICK f : Iterated(f, m, D, base, step)
  <2> HIDE DEF D
  <2>1. QED
    BY <1>2, <1>5, <1>6, Iterates, Zenon
<1>8. f \in [0 .. m -> D] /\ f[0] = base /\ \A r \in 1 .. m : f[r] = step[<<r, f[r - 1]>>]
  BY <1>7, Zenon DEF Iterated
<1>9. f = body(f)
  <2>1. ASSUME NEW r \in 0 .. m PROVE f[r] = body(f)[r]
    <3>1. CASE r = 0
      BY <1>1, <1>3, <1>8, <3>1
    <3>2. CASE r # 0
      <4>1. r \in 1 .. m /\ r - 1 \in 0 .. m
        BY <1>2, <3>2
      <4>2. f[r - 1] \in D
        BY <1>8, <4>1
      <4>3. f[r] = [n \in N |-> shown(n, f[r - 1])]
        <5> HIDE DEF D
        <5>1. QED
          BY <1>6, <1>8, <4>1, <4>2
      <4>4. QED
        BY <1>1, <3>2, <4>3
    <3>3. QED
      BY <3>1, <3>2
  <2>2. QED
    BY <1>1, <1>8, <2>1
<1>10. Texts(g, o) = CHOOSE h : h = body(h)
  BY Zenon DEF Texts, shown
<1>11. PICK text : text = Texts(g, o)
  OBVIOUS
<1>12. text = body(text)
  <2> HIDE DEF body
  <2>1. QED
    BY <1>9, <1>10, <1>11, Zenon
<1>13. \A r \in 0 .. m : text[r] = body(text)[r]
  <2> HIDE DEF body
  <2>1. QED
    BY <1>12, Zenon
<1>14. \A r \in 0 .. m : text[r] = [n \in N |-> IF r = 0 THEN <<"error">> ELSE shown(n, text[r - 1])]
  BY <1>1, <1>13
<1>15. 0 \in 0 .. m /\ text[0] = base
  BY <1>2, <1>3, <1>14
<1>16. ASSUME NEW r \in 1 .. m PROVE text[r] = [n \in N |-> shown(n, text[r - 1])]
  <2>1. r \in 0 .. m /\ r # 0
    BY <1>2
  <2>2. text[r] = [n \in N |-> IF r = 0 THEN <<"error">> ELSE shown(n, text[r - 1])]
    BY <1>14, <2>1
  <2>3. QED
    BY <2>1, <2>2
<1> DEFINE S == {r \in 0 .. m : text[r] \in D}
<1>17. 0 \in S
  BY <1>5, <1>15, Zenon
<1>18. ASSUME NEW r \in 1 .. m, r - 1 \in S PROVE r \in S
  <2>1. r \in 0 .. m /\ text[r - 1] \in D
    BY <1>2, <1>18
  <2>2. PICK u : u = text[r - 1]
    OBVIOUS
  <2>3. [n \in N |-> shown(n, u)] \in D
    BY <1>2, <2>1, <2>2
  <2>4. QED
    BY <1>16, <2>1, <2>2, <2>3, Zenon
<1>19. \A r \in 0 .. m : r \in S
  <2> HIDE DEF S
  <2>1. QED
    BY <1>2, <1>17, <1>18, Reaches
<1>20. \A r \in 0 .. m : text[r] \in D
  BY <1>19
<1>21. \A n \in N : text[0][n] = <<"error">>
  BY <1>3, <1>15
<1>22. ASSUME NEW r \in 1 .. m, NEW n \in N PROVE text[r][n] = shown(n, text[r - 1])
  <2>1. PICK u : u = text[r - 1]
    OBVIOUS
  <2>2. PICK v : v = text[r]
    OBVIOUS
  <2>3. v = [i \in N |-> shown(i, u)]
    BY <1>16, <2>1, <2>2
  <2>4. v[n] = shown(n, u)
    BY <2>3
  <2>5. QED
    BY <2>1, <2>2, <2>4
<1>23. QED
  BY <1>1, <1>11, <1>20, <1>21, <1>22, Zenon DEF shown

-----------------------------------------------------------------------------
(* What is still to be written. *)

\* The texts of the values of a container at the depth k.
TextsIn(g, o, k) == Texts(g, o)[RecursionMax + 1 - k]

\* What is still to be written of a container behind the element that is being
\* written, and of the first n containers of a stack.
FrameRest(g, o, f, t) ==
  IF f.type = "array" THEN ListRest(g, Encoded(f), t, Len(g[Encoded(f)].items) - f.index)
  ELSE DictRest(g, o, f.dict, t, Len(g[f.dict].keys) - f.index)
Due(g, o, s, n, rest) ==
  \E c \in [Nat -> Seq(Alphabet)] :
    /\ c[0] = <<>> /\ c[n] = rest
    /\ \A k \in 1 .. n : c[k] = FrameRest(g, o, s[k], TextsIn(g, o, k)) \o c[k - 1]

\* What was written, what is being written and what is due make the text.
Tracked(g, o, s, n, written, now) ==
  \E rest \in Seq(Alphabet) :
    Due(g, o, s, n, rest) /\ Texts(g, o)[RecursionMax + 1][1] = written \o (now \o rest)

\* The iterator of a frame is at the place that its counters say, and default=
\* has still the rest to make of its object; keys are sorted before the first
\* one is written.
Placed(g, o, f) ==
  /\ f.type = "unknown" =>
       /\ f.index = 0 /\ f.chain <= DefaultMax /\ f.newObj # KeyList
       /\ f.newObj # 0 => g[f.obj].kind = "object"
       /\ Made(g, o)[DefaultMax - f.chain][Encoded(f)] = Made(g, o)[DefaultMax][f.obj]
  /\ f.type = "array" => f.index <= f.size
  /\ f.type = "object" =>
       /\ f.index <= Len(f.order)
       /\ f.newObj # KeyList \/ ~o.sortKeys => f.order = g[f.dict].keys
       /\ o.sortKeys => IF f.newObj = KeyList
                        THEN InOrder(g, o, f.dict, f.order) /\ f.size = Len(f.order)
                        ELSE f.newObj = 0 /\ f.index = 0

\* All elements but the one being written are counted.
Counted ==
  \A i \in 1 .. Len(stack) :
    stack[i].index = stack[i].count + (IF i = Len(stack) /\ pc \in {"begin", "next"} THEN 0 ELSE 1)

\* The object that is being written has a text that is still to be written.
Depth == IF pc = "begin" THEN Len(stack) - 1 ELSE Len(stack)
Now ==
  CASE pc = "encode" -> NameText(name) \o TextsIn(graph, opt, Len(stack))[cur]
    [] pc = "begin" -> ObjectText(graph, opt, Made(graph, opt)[DefaultMax - Top.chain][Object],
                                  TextsIn(graph, opt, Len(stack)))
    [] OTHER -> <<>>

\* The output and what is still to be written make the expected text.
OnTrack ==
  /\ \A i \in 1 .. Len(stack) : Placed(graph, opt, stack[i])
  /\ Counted
  /\ pc = "encode" => name # "raising"
  /\ Tracked(graph, opt, stack, Depth, out, Now)

\* As long as no callback fails nothing is pending, and an error is recorded
\* only if there is no text.
Follows ==
  raised = {} /\ ~DefaultMadeDict =>
    /\ pc # "done" => pyErr = "none"
    /\ pc = "call" => out = <<>> /\ cur = 1
    /\ errorMsg # "none" => ~HasText
    /\ pc \notin {"call", "done"} /\ errorMsg = "none" => OnTrack
    /\ pc = "done" => IF HasText THEN result = "str" /\ out = Expected ELSE result = "NULL"

\* Nothing is due of an empty stack, and only that.
LEMMA DueNothing ==
  ASSUME NEW g, NEW o, NEW s
  PROVE  Due(g, o, s, 0, <<>>) /\ \A rest : Due(g, o, s, 0, rest) => rest = <<>>
<1>1. PICK c : c = [k \in Nat |-> <<>>]
  OBVIOUS
<1>2. c \in [Nat -> Seq(Alphabet)] /\ c[0] = <<>>
  BY <1>1, EmptySeq
<1>3. 1 .. 0 = {}
  OBVIOUS
<1>4. QED
  BY <1>2, <1>3, Zenon DEF Due

\* Frames that stay the same have the same text due.
SameFrames(s, u, n) == \A k \in 1 .. n : s[k] = u[k]
LEMMA DueStays ==
  ASSUME NEW g, NEW o, NEW s, NEW u, NEW n, NEW rest, SameFrames(s, u, n), Due(g, o, s, n, rest)
  PROVE  Due(g, o, u, n, rest)
BY Zenon DEF SameFrames, Due

\* A container more.
LEMMA DuePush ==
  ASSUME NEW g, NEW o, NEW s, NEW n \in Nat, NEW rest \in Seq(Alphabet), Due(g, o, s, n, rest),
         NEW more \in Seq(Alphabet),
         FrameRest(g, o, s[n + 1], TextsIn(g, o, n + 1)) = more
  PROVE  Due(g, o, s, n + 1, more \o rest)
<1>1. PICK c \in [Nat -> Seq(Alphabet)] :
        /\ c[0] = <<>> /\ c[n] = rest
        /\ \A k \in 1 .. n : c[k] = FrameRest(g, o, s[k], TextsIn(g, o, k)) \o c[k - 1]
  BY Zenon DEF Due
<1>2. more \o rest \in Seq(Alphabet)
  BY ConcatProperties
<1>3. PICK d : d = [c EXCEPT ![n + 1] = more \o rest]
  OBVIOUS
<1>4. d \in [Nat -> Seq(Alphabet)] /\ d[n + 1] = more \o rest /\ \A k \in Nat : k # n + 1 => d[k] = c[k]
  BY <1>2, <1>3
<1>5. d[0] = <<>>
  BY <1>1, <1>4
<1>6. ASSUME NEW k \in 1 .. n + 1
      PROVE  d[k] = FrameRest(g, o, s[k], TextsIn(g, o, k)) \o d[k - 1]
  <2>1. k \in Nat /\ k - 1 \in Nat /\ k - 1 # n + 1
    OBVIOUS
  <2>2. d[k - 1] = c[k - 1]
    BY <1>4, <2>1
  <2>3. CASE k = n + 1
    <3>1. k - 1 = n
      BY <2>3
    <3>2. QED
      BY <1>1, <1>4, <2>2, <2>3, <3>1, Zenon
  <2>4. CASE k # n + 1
    <3>1. k \in 1 .. n
      BY <2>4
    <3>2. d[k] = c[k]
      BY <1>4, <2>1, <2>4
    <3>3. QED
      BY <1>1, <2>2, <3>1, <3>2, Zenon
  <2>5. QED
    BY <2>3, <2>4
<1>7. QED
  BY <1>4, <1>5, <1>6, Zenon DEF Due

\* The innermost of the containers.
OuterDue(g, o, s, n, rest, outer) ==
  Due(g, o, s, n - 1, outer) /\ rest = FrameRest(g, o, s[n], TextsIn(g, o, n)) \o outer
LEMMA DuePop ==
  ASSUME NEW g, NEW o, NEW s, NEW n \in Nat \ {0}, NEW rest, Due(g, o, s, n, rest)
  PROVE  \E outer \in Seq(Alphabet) : OuterDue(g, o, s, n, rest, outer)
<1>1. PICK c \in [Nat -> Seq(Alphabet)] :
        /\ c[0] = <<>> /\ c[n] = rest
        /\ \A k \in 1 .. n : c[k] = FrameRest(g, o, s[k], TextsIn(g, o, k)) \o c[k - 1]
  BY Zenon DEF Due
<1>2. n - 1 \in Nat /\ n \in 1 .. n /\ \A k \in 1 .. n - 1 : k \in 1 .. n
  OBVIOUS
<1>3. c[n - 1] \in Seq(Alphabet)
  BY <1>2
<1>4. Due(g, o, s, n - 1, c[n - 1])
  BY <1>1, <1>2, Zenon DEF Due
<1>5. rest = FrameRest(g, o, s[n], TextsIn(g, o, n)) \o c[n - 1]
  BY <1>1, <1>2, Zenon
<1>6. QED
  BY <1>3, <1>4, <1>5, Zenon DEF OuterDue

\* What is written is no longer due.
Together(a, b, c) == (a \o b) \o c = a \o (b \o c)
LEMMA Associates ==
  ASSUME NEW a \in Seq(Alphabet), NEW b \in Seq(Alphabet), NEW c \in Seq(Alphabet)
  PROVE  Together(a, b, c)
BY ConcatAssociative DEF Together

Moves(a, b, c, d) == a \o ((b \o c) \o d) = (a \o b) \o (c \o d)
LEMMA MoveOn ==
  ASSUME NEW a \in Seq(Alphabet), NEW b \in Seq(Alphabet), NEW c \in Seq(Alphabet),
         NEW d \in Seq(Alphabet)
  PROVE  Moves(a, b, c, d)
<1>1. Together(b, c, d)
  BY Associates, Zenon
<1>2. c \o d \in Seq(Alphabet)
  BY ConcatProperties
<1>3. Together(a, b, c \o d)
  BY <1>2, Associates, Zenon
<1>4. QED
  BY <1>1, <1>3, Zenon DEF Together, Moves

\* A text that has a token in it that is not JSON is none.
Bad == {"error", "badKey", "badBytes"}
LEMMA BadWithin ==
  ASSUME NEW a \in Seq(Alphabet), NEW b \in Seq(Alphabet), NEW c \in Seq(Alphabet),
         NEW i \in 1 .. Len(b), b[i] \in Bad, Expected = a \o (b \o c)
  PROVE  ~HasText
<1>1. b \o c \in Seq(Alphabet) /\ Len(b \o c) = Len(b) + Len(c)
      /\ \A k \in 1 .. Len(b) + Len(c) : (b \o c)[k] = IF k <= Len(b) THEN b[k] ELSE c[k - Len(b)]
  BY ConcatProperties
<1>2. /\ a \o (b \o c) \in Seq(Alphabet) /\ Len(a \o (b \o c)) = Len(a) + Len(b \o c)
      /\ \A k \in 1 .. Len(a) + Len(b \o c) :
           (a \o (b \o c))[k] = IF k <= Len(a) THEN a[k] ELSE (b \o c)[k - Len(a)]
  BY <1>1, ConcatProperties
<1>3. Len(a) \in Nat /\ Len(b) \in Nat /\ Len(c) \in Nat
  BY LenProperties
<1>4. i \in 1 .. Len(b) + Len(c) /\ (b \o c)[i] = b[i]
  BY <1>1, <1>3
<1>5. PICK k : k = Len(a) + i
  OBVIOUS
<1>6. k \in 1 .. Len(a) + Len(b \o c) /\ ~(k <= Len(a)) /\ k - Len(a) = i
  BY <1>1, <1>3, <1>5
<1>7. Expected[k] = b[i]
  BY <1>2, <1>4, <1>6
<1>8. k \in DOMAIN Expected
  BY <1>2, <1>6, LenProperties
<1>9. QED
  BY <1>7, <1>8 DEF HasText, Bad

\* So is one that has it in what is written next.
LEMMA BadNow ==
  ASSUME NEW s, NEW n, NEW w \in Seq(Alphabet), NEW now \in Seq(Alphabet),
         Tracked(graph, opt, s, n, w, now), NEW i \in 1 .. Len(now), now[i] \in Bad
  PROVE  ~HasText
<1>1. PICK rest \in Seq(Alphabet) : Expected = w \o (now \o rest)
  BY Zenon DEF Tracked, Expected
<1>2. QED
  BY <1>1, BadWithin, Zenon

\* A part of the text is written.
LEMMA TrackWrite ==
  ASSUME NEW g, NEW o, NEW s, NEW n, NEW w \in Seq(Alphabet), NEW a \in Seq(Alphabet),
         NEW b \in Seq(Alphabet), Tracked(g, o, s, n, w, a \o b)
  PROVE  Tracked(g, o, s, n, w \o a, b)
<1>1. PICK rest \in Seq(Alphabet) :
        Due(g, o, s, n, rest) /\ Texts(g, o)[RecursionMax + 1][1] = w \o ((a \o b) \o rest)
  BY Zenon DEF Tracked
<1>2. Moves(w, a, b, rest)
  BY MoveOn, Zenon
<1>3. QED
  BY <1>1, <1>2, Zenon DEF Tracked, Moves

\* Changes in the containers inside do not matter.
LEMMA TrackStays ==
  ASSUME NEW g, NEW o, NEW s, NEW u, NEW n, NEW w, NEW now, SameFrames(s, u, n),
         Tracked(g, o, s, n, w, now)
  PROVE  Tracked(g, o, u, n, w, now)
BY DueStays, Zenon DEF Tracked

\* The text of a container begins.
LEMMA TrackOpen ==
  ASSUME NEW g, NEW o, NEW s, NEW n \in Nat, NEW w \in Seq(Alphabet), NEW a \in Seq(Alphabet),
         Tracked(g, o, s, n, w, a), FrameRest(g, o, s[n + 1], TextsIn(g, o, n + 1)) = a
  PROVE  Tracked(g, o, s, n + 1, w, <<>>)
<1>1. PICK rest \in Seq(Alphabet) :
        Due(g, o, s, n, rest) /\ Texts(g, o)[RecursionMax + 1][1] = w \o (a \o rest)
  BY Zenon DEF Tracked
<1>2. Due(g, o, s, n + 1, a \o rest)
  BY <1>1, DuePush, Zenon
<1>3. a \o rest \in Seq(Alphabet)
  BY ConcatProperties
<1>4. <<>> \o (a \o rest) = a \o rest
  BY <1>3, ConcatEmptySeq
<1>5. QED
  BY <1>1, <1>2, <1>3, <1>4, Zenon DEF Tracked

\* It goes on with an element.
LEMMA TrackElement ==
  ASSUME NEW g, NEW o, NEW s, NEW u, NEW n \in Nat \ {0}, NEW w \in Seq(Alphabet),
         NEW a \in Seq(Alphabet), NEW r \in Seq(Alphabet), Tracked(g, o, s, n, w, <<>>),
         SameFrames(s, u, n - 1), FrameRest(g, o, s[n], TextsIn(g, o, n)) = a \o r,
         FrameRest(g, o, u[n], TextsIn(g, o, n)) = r
  PROVE  Tracked(g, o, u, n, w, a)
<1>1. PICK rest \in Seq(Alphabet) :
        Due(g, o, s, n, rest) /\ Texts(g, o)[RecursionMax + 1][1] = w \o (<<>> \o rest)
  BY Zenon DEF Tracked
<1>2. PICK outer \in Seq(Alphabet) : Due(g, o, s, n - 1, outer) /\ rest = (a \o r) \o outer
  <2>1. \E outer \in Seq(Alphabet) : OuterDue(g, o, s, n, rest, outer)
    BY <1>1, DuePop, Zenon
  <2>2. QED
    BY <2>1, Zenon DEF OuterDue
<1>3. Due(g, o, u, n - 1, outer)
  BY <1>2, DueStays, Zenon
<1>4. PICK m : m = n - 1
  OBVIOUS
<1>5. m \in Nat /\ m + 1 = n
  BY <1>4
<1>6. Due(g, o, u, n, r \o outer)
  BY <1>3, <1>4, <1>5, DuePush, Zenon
<1>7. r \o outer \in Seq(Alphabet)
  BY ConcatProperties
<1>8. <<>> \o rest = a \o (r \o outer)
  <2>1. <<>> \o rest = rest
    BY ConcatEmptySeq
  <2>2. (a \o r) \o outer = a \o (r \o outer)
    BY Associates, Zenon DEF Together
  <2>3. QED
    BY <1>2, <2>1, <2>2, Zenon
<1>9. QED
  BY <1>1, <1>6, <1>7, <1>8, Zenon DEF Tracked

\* It ends.
LEMMA TrackClose ==
  ASSUME NEW g, NEW o, NEW s, NEW n \in Nat \ {0}, NEW w \in Seq(Alphabet),
         NEW a \in Seq(Alphabet), Tracked(g, o, s, n, w, <<>>),
         FrameRest(g, o, s[n], TextsIn(g, o, n)) = a
  PROVE  Tracked(g, o, s, n - 1, w \o a, <<>>)
<1>1. PICK rest \in Seq(Alphabet) :
        Due(g, o, s, n, rest) /\ Texts(g, o)[RecursionMax + 1][1] = w \o (<<>> \o rest)
  BY Zenon DEF Tracked
<1>2. PICK outer \in Seq(Alphabet) : Due(g, o, s, n - 1, outer) /\ rest = a \o outer
  <2>1. \E outer \in Seq(Alphabet) : OuterDue(g, o, s, n, rest, outer)
    BY <1>1, DuePop, Zenon
  <2>2. QED
    BY <2>1, Zenon DEF OuterDue
<1>3. <<>> \o rest = rest /\ <<>> \o outer = outer
  BY ConcatEmptySeq
<1>4. w \o (a \o outer) = (w \o a) \o outer
  BY ConcatAssociative
<1>5. QED
  BY <1>1, <1>2, <1>3, <1>4, Zenon DEF Tracked

-----------------------------------------------------------------------------
(* The steps of dumps. *)

\* The texts of the values of a container.
LEMMA TextsInType ==
  ASSUME NEW g \in Graphs, NEW o, NEW k \in 0 .. RecursionMax + 1
  PROVE  TextsIn(g, o, k) \in [DOMAIN g -> Seq(Alphabet)]
<1>1. RecursionMax + 1 - k \in 0 .. RecursionMax + 1
  BY EncoderAssumption
<1>2. QED
  BY <1>1, TextsFacts, Zenon DEF TextsIn

\* encode() goes on.
Kept == graph' = graph /\ opt' = opt
Encoding == pc \in {"encode", "begin", "next", "return"}
Going ==
  /\ Inv /\ Follows /\ Kept
  /\ raised = {} /\ ~DefaultMadeDict
  /\ Encoding /\ errorMsg = "none"

\* What that says.
LEMMA GoingFacts ==
  ASSUME Going
  PROVE  /\ pyErr = "none" /\ OnTrack
         /\ graph \in Graphs /\ stack \in Seq(Contexts(graph))
         /\ Len(stack) \in 0 .. RecursionMax + 1
         /\ TextsIn(graph, opt, Len(stack)) \in [DOMAIN graph -> Seq(Alphabet)]
         /\ out \in Seq(Alphabet)
<1>1. pyErr = "none" /\ OnTrack
  BY DEF Going, Follows, Encoding
<1>2. /\ graph \in Graphs /\ stack \in Seq(Contexts(graph)) /\ out \in Seq(Tokens)
      /\ Len(stack) <= RecursionMax + 1
  BY DEF Going, Inv, Typed, ControlTypes, LevelBalanced
<1>3. Len(stack) \in 0 .. RecursionMax + 1
  BY <1>2, LenProperties, EncoderAssumption
<1>4. TextsIn(graph, opt, Len(stack)) \in [DOMAIN graph -> Seq(Alphabet)]
  BY <1>2, <1>3, TextsInType, Zenon
<1>5. out \in Seq(Alphabet)
  BY <1>2 DEF Alphabet
<1>6. QED
  BY <1>1, <1>2, <1>3, <1>4, <1>5, Zenon

\* The text is followed to here.
LEMMA Continues ==
  ASSUME Kept, Encoding', pyErr' = "none", errorMsg' = "none", OnTrack'
  PROVE  Follows'
BY DEF Kept, Encoding, Follows

\* An error was found for which there is no text.
LEMMA Stops ==
  ASSUME Kept, Encoding', pyErr' = "none", errorMsg' # "none", ~HasText
  PROVE  Follows'
<1>1. ~HasText'
  BY DEF Kept, HasText, Expected
<1>2. QED
  BY <1>1 DEF Encoding, Follows

\* A callback has raised.
LEMMA Raises ==
  ASSUME raised' # {}
  PROVE  Follows'
BY DEF Follows

\* What is written next is known.
LEMMA TrackOn ==
  ASSUME Kept, Encoding', pyErr' = "none", errorMsg' = "none",
         \A i \in 1 .. Len(stack') : Placed(graph, opt, stack'[i]),
         Counted', (pc = "encode" => name # "raising")',
         Tracked(graph, opt, stack', Depth', out', Now')
  PROVE  Follows'
<1>1. OnTrack'
  BY DEF Kept, OnTrack
<1>2. QED
  BY <1>1, Continues

\* The element that encode() enters.
LEMMA EncodeNow ==
  ASSUME Going, pc = "encode"
  PROVE  /\ NameText(name) \in Seq(Alphabet) /\ name # "raising" /\ cur \in DOMAIN graph
         /\ TextsIn(graph, opt, Len(stack))[cur] \in Seq(Alphabet)
         /\ Tracked(graph, opt, stack, Len(stack), out,
                    NameText(name) \o TextsIn(graph, opt, Len(stack))[cur])
         /\ NameText(name) \o TextsIn(graph, opt, Len(stack))[cur] \in Seq(Alphabet)
<1>1. name \in Keys \union {"NULL"} /\ cur \in DOMAIN graph
  BY DEF Going, Inv, Typed, ControlTypes
<1>2. NameText(name) \in Seq(Alphabet)
  BY <1>1, NameTextType, Zenon
<1>3. TextsIn(graph, opt, Len(stack))[cur] \in Seq(Alphabet)
  BY <1>1, GoingFacts
<1>4. NameText(name) \o TextsIn(graph, opt, Len(stack))[cur] \in Seq(Alphabet)
  BY <1>2, <1>3, ConcatProperties
<1>5. name # "raising" /\ Tracked(graph, opt, stack, Depth, out, Now)
  BY GoingFacts DEF OnTrack
<1>6. Depth = Len(stack) /\ Now = NameText(name) \o TextsIn(graph, opt, Len(stack))[cur]
  BY DEF Depth, Now
<1>7. QED
  BY <1>1, <1>2, <1>3, <1>4, <1>5, <1>6, Zenon

\* There is no text below the recursion limit.
LEMMA TooDeepFollows ==
  ASSUME Going, TooDeep
  PROVE  Follows'
<1>1. pc = "encode" /\ level > RecursionMax
  BY DEF TooDeep
<1>2. Len(stack) = RecursionMax + 1
  <2>1. level = Len(stack)
    BY <1>1 DEF Going, Inv, LevelBalanced
  <2>2. QED
    BY <1>1, <2>1, GoingFacts, EncoderAssumption
<1>3. TextsIn(graph, opt, Len(stack))[cur] = <<"error">>
  <2>1. RecursionMax + 1 - Len(stack) = 0
    BY <1>2, EncoderAssumption
  <2>2. Texts(graph, opt)[0][cur] = <<"error">>
    BY <1>1, EncodeNow, GoingFacts, TextsFacts
  <2>3. QED
    BY <2>1, <2>2 DEF TextsIn
<1>4. PICK a \in Seq(Alphabet) : a = NameText(name) /\ a \o <<"error">> \in Seq(Alphabet)
                                 /\ Tracked(graph, opt, stack, Len(stack), out, a \o <<"error">>)
  BY <1>1, <1>3, EncodeNow, Zenon
<1>5. PICK i : i = Len(a) + 1
  OBVIOUS
<1>6. i \in 1 .. Len(a \o <<"error">>) /\ (a \o <<"error">>)[i] \in Bad
  <2>1. <<"error">> \in Seq(Alphabet) /\ Len(<<"error">>) = 1
    <3>1. "error" \in Alphabet
      BY DEF Alphabet
    <3>2. QED
      BY <3>1, Singleton
  <2>2. /\ Len(a \o <<"error">>) = Len(a) + 1
        /\ \A k \in 1 .. Len(a) + 1 :
             (a \o <<"error">>)[k] = IF k <= Len(a) THEN a[k] ELSE <<"error">>[k - Len(a)]
    BY <2>1, ConcatProperties
  <2>3. Len(a) \in Nat
    BY LenProperties
  <2>4. (a \o <<"error">>)[i] = <<"error">>[1]
    BY <1>5, <2>2, <2>3
  <2>5. QED
    BY <1>5, <2>2, <2>3, <2>4 DEF Bad
<1>7. ~HasText
  BY <1>4, <1>6, GoingFacts, BadNow, Zenon
<1>8. pc' = "return" /\ errorMsg' # "none" /\ pyErr' = "none"
  BY GoingFacts DEF TooDeep, SetError
<1>9. QED
  BY <1>7, <1>8, Stops DEF Going, Encoding

\* Nor if a name is not UTF-8.
LEMMA BadNameFollows ==
  ASSUME Going, BadName
  PROVE  Follows'
<1>1. pc = "encode" /\ name = "badKey"
  BY DEF BadName
<1>2. PICK a \in Seq(Alphabet), t \in Seq(Alphabet) :
        /\ a = <<"badKey", ":">> /\ a \o t \in Seq(Alphabet)
        /\ Tracked(graph, opt, stack, Len(stack), out, a \o t)
  <2>1. NameText(name) = <<"badKey", ":">>
    BY <1>1 DEF NameText
  <2>2. QED
    BY <1>1, <2>1, EncodeNow, Zenon
<1>3. 1 \in 1 .. Len(a \o t) /\ (a \o t)[1] \in Bad
  <2>1. /\ Len(a \o t) = Len(a) + Len(t)
        /\ \A k \in 1 .. Len(a) + Len(t) :
             (a \o t)[k] = IF k <= Len(a) THEN a[k] ELSE t[k - Len(a)]
    BY ConcatProperties
  <2>2. Len(a) = 2 /\ a[1] = "badKey" /\ Len(t) \in Nat
    BY <1>2, LenProperties
  <2>3. (a \o t)[1] = a[1]
    BY <2>1, <2>2
  <2>4. QED
    BY <2>1, <2>2, <2>3 DEF Bad
<1>4. ~HasText
  BY <1>2, <1>3, GoingFacts, BadNow, Zenon
<1>5. pc' = "return" /\ errorMsg' # "none" /\ pyErr' = "none"
  BY GoingFacts DEF BadName, SetError
<1>6. QED
  BY <1>4, <1>5, Stops DEF Going, Encoding

\* The elements around the one that is entered or left.
LEMMA CountedBelow ==
  ASSUME Going, NEW i \in 1 .. Len(stack), i # Len(stack) \/ pc \notin {"begin", "next"}
  PROVE  stack[i].index = stack[i].count + 1
BY GoingFacts DEF OnTrack, Counted

\* A name is written, and the object becomes the one beginTypeContext looks at.
LEMMA BeginTypeContextFollows ==
  ASSUME Going, Inv', BeginTypeContext
  PROVE  Follows'
<1>1. CASE raised' # {}
  BY <1>1, Raises
<1>2. CASE raised' = {}
  <2>1. /\ pc = "encode" /\ pc' = "begin" /\ stack' = Append(stack, Frame(cur))
        /\ level <= RecursionMax /\ errorMsg' = errorMsg /\ pyErr' = pyErr
        /\ out' = IF name = "NULL" THEN out ELSE out \o <<name, ":">>
    BY <1>2 DEF BeginTypeContext, Raise
  <2>2. /\ stack \in Seq(Contexts(graph)) /\ Len(stack) \in Nat /\ Len(stack) <= RecursionMax
        /\ pyErr' = "none" /\ errorMsg' = "none" /\ Encoding'
    <3>1. level = Len(stack)
      BY <2>1 DEF Going, Inv, LevelBalanced
    <3>2. QED
      BY <2>1, <3>1, GoingFacts DEF Going, Encoding
  <2>3. PICK n : n = Len(stack)
    OBVIOUS
  <2>4. PICK f : f = Frame(cur)
    OBVIOUS
  <2>5. /\ Len(stack') = n + 1 /\ stack'[n + 1] = f
        /\ \A i \in 1 .. n : stack'[i] = stack[i]
    <3>1. stack \in Seq(Contexts(graph) \union {f})
      BY <2>2
    <3>2. QED
      BY <2>1, <2>3, <2>4, <3>1, AppendProperties
  <2>6. /\ f.obj = cur /\ f.newObj = 0 /\ f.chain = 0 /\ f.type = "unknown"
        /\ f.index = 0 /\ f.count = 0
    BY <2>4 DEF Frame
  <2>7. \A i \in 1 .. Len(stack') : Placed(graph, opt, stack'[i])
    <3>1. \A i \in 1 .. n : Placed(graph, opt, stack[i])
      BY <2>3, GoingFacts DEF OnTrack
    <3>2. Placed(graph, opt, f)
      <4>1. DefaultMax - 0 = DefaultMax /\ 0 <= DefaultMax /\ 0 # KeyList
        BY EncoderAssumption DEF KeyList
      <4>2. Encoded(f) = f.obj
        BY <2>6 DEF Encoded
      <4>3. QED
        BY <2>6, <4>1, <4>2 DEF Placed
    <3>3. \A i \in 1 .. n + 1 : i \in 1 .. n \/ i = n + 1
      BY <2>2, <2>3
    <3>4. QED
      BY <2>5, <3>1, <3>2, <3>3
  <2>8. Counted'
    <3>1. ASSUME NEW i \in 1 .. Len(stack')
          PROVE  stack'[i].index = stack'[i].count
                   + (IF i = Len(stack') /\ pc' \in {"begin", "next"} THEN 0 ELSE 1)
      <4>1. CASE i = n + 1
        BY <2>1, <2>5, <2>6, <4>1
      <4>2. CASE i # n + 1
        <5>1. i \in 1 .. n
          BY <2>2, <2>3, <2>5, <4>2
        <5>2. stack[i].index = stack[i].count + 1
          BY <2>1, <2>3, <5>1, CountedBelow
        <5>3. QED
          BY <2>5, <4>2, <5>1, <5>2
      <4>3. QED
        BY <4>1, <4>2
    <3>2. QED
      BY <3>1 DEF Counted
  <2>9. Tracked(graph, opt, stack', Depth', out', Now')
    <3>1. PICK a \in Seq(Alphabet), b \in Seq(Alphabet) :
            /\ a = NameText(name) /\ b = TextsIn(graph, opt, n)[cur]
            /\ Tracked(graph, opt, stack, n, out, a \o b)
      BY <2>1, <2>3, EncodeNow, Zenon
    <3>2. out \in Seq(Alphabet)
      BY GoingFacts
    <3>3. Tracked(graph, opt, stack, n, out \o a, b)
      BY <3>1, <3>2, TrackWrite, Zenon
    <3>4. out \o a = out'
      <4>1. name # "raising"
        BY <2>1, EncodeNow
      <4>2. a = IF name = "NULL" THEN <<>> ELSE <<name, ":">>
        BY <3>1, <4>1 DEF NameText
      <4>3. out \o <<>> = out
        BY <3>2, ConcatEmptySeq
      <4>4. QED
        BY <2>1, <4>2, <4>3
    <3>5. SameFrames(stack, stack', n)
      BY <2>5 DEF SameFrames
    <3>6. Tracked(graph, opt, stack', n, out', b)
      BY <3>3, <3>4, <3>5, TrackStays, Zenon
    <3>7. Depth' = n
      BY <2>1, <2>2, <2>3, <2>5 DEF Depth
    <3>8. Now' = b
      <4>1. Now' = ObjectText(graph, opt, Made(graph, opt)[DefaultMax - 0][cur],
                              TextsIn(graph, opt, n + 1))
        <5>1. Top' = f /\ Object' = cur
          BY <2>5, <2>6 DEF Top, Object
        <5>2. QED
          BY <2>1, <2>5, <2>6, <5>1 DEF Now, Going, Kept
      <4>2. PICK r : r = RecursionMax + 1 - n
        OBVIOUS
      <4>3. r \in 1 .. RecursionMax + 1 /\ r - 1 = RecursionMax + 1 - (n + 1)
        BY <2>2, <2>3, <4>2, EncoderAssumption
      <4>4. cur \in DOMAIN graph /\ graph \in Graphs
        BY <2>1, EncodeNow, GoingFacts
      <4>5. Texts(graph, opt)[r][cur] =
              ObjectText(graph, opt, Made(graph, opt)[DefaultMax][cur], Texts(graph, opt)[r - 1])
        BY <4>3, <4>4, TextsFacts
      <4>6. DefaultMax - 0 = DefaultMax
        BY EncoderAssumption
      <4>7. QED
        BY <3>1, <4>1, <4>2, <4>3, <4>5, <4>6 DEF TextsIn
    <3>9. QED
      BY <3>6, <3>7, <3>8
  <2>10. QED
    BY <2>1, <2>2, <2>7, <2>8, <2>9, TrackOn DEF Going
<1>3. QED
  BY <1>1, <1>2

\* The object that beginTypeContext looks at; default= has not yet been called
\* too often.
ObjectNow == ObjectText(graph, opt, Object, TextsIn(graph, opt, Len(stack)))
LEMMA BeginNow ==
  ASSUME Going, pc = "begin"
  PROVE  /\ stack # <<>> /\ Len(stack) \in Nat \ {0} /\ Depth = Len(stack) - 1
         /\ Top.type = "unknown" /\ Top.index = 0 /\ Top.count = 0
         /\ Top.chain \in 0 .. DefaultMax /\ Top.newObj # KeyList
         /\ (opt.sortKeys /\ Kind \in {"dict", "toDict"} => Top.newObj = 0)
         /\ Top.newObj # 0 => graph[Top.obj].kind = "object"
         /\ Made(graph, opt)[DefaultMax - Top.chain][Object] = Made(graph, opt)[DefaultMax][Top.obj]
         /\ Object \in DOMAIN graph /\ Object = Encoded(Top)
         /\ Now = ObjectText(graph, opt, Made(graph, opt)[DefaultMax - Top.chain][Object],
                             TextsIn(graph, opt, Len(stack)))
         /\ Kind # "object" => Now = ObjectNow
         /\ Now \in Seq(Alphabet)
         /\ Tracked(graph, opt, stack, Len(stack) - 1, out, Now)
<1>1. stack # <<>> /\ Len(stack) \in Nat \ {0}
  <2>1. stack # <<>> /\ stack \in Seq(Contexts(graph))
    BY GoingFacts DEF Going, Inv, Named
  <2>2. QED
    BY <2>1, EmptySeq
<1>2. Depth = Len(stack) - 1
  BY DEF Depth
<1>3. Top \in Frames /\ Object \in DOMAIN graph /\ Object = Encoded(Top)
  BY <1>1, ObjectFacts DEF Going
<1>4. Len(stack) \in 1 .. Len(stack) /\ Top = stack[Len(stack)]
  BY <1>1 DEF Top
<1>5. Top.type = "unknown"
  BY <1>4 DEF Going, Inv, Classified
<1>6. Placed(graph, opt, Top) /\ Top.index = Top.count + 0
  BY <1>4, GoingFacts DEF OnTrack, Counted
<1>7. /\ Top.index = 0 /\ Top.chain <= DefaultMax /\ Top.newObj # KeyList
      /\ Top.newObj # 0 => graph[Top.obj].kind = "object"
      /\ Made(graph, opt)[DefaultMax - Top.chain][Object] = Made(graph, opt)[DefaultMax][Top.obj]
  BY <1>3, <1>5, <1>6 DEF Placed
<1>8. Top.count = 0 /\ Top.chain \in 0 .. DefaultMax
  BY <1>3, <1>6, <1>7, EncoderAssumption DEF Frames
<1>9. Now = ObjectText(graph, opt, Made(graph, opt)[DefaultMax - Top.chain][Object],
                       TextsIn(graph, opt, Len(stack)))
  BY DEF Now
<1>10. PICK k : k = DefaultMax - Top.chain
  OBVIOUS
<1>11. k \in 0 .. DefaultMax
  BY <1>8, <1>10, EncoderAssumption
<1>12. Made(graph, opt)[k][Object] \in DOMAIN graph \union {0}
  BY <1>3, <1>11, GoingFacts, MadeFacts
<1>13. Kind # "object" => Made(graph, opt)[k][Object] = Object
  BY <1>3, <1>11, GoingFacts, MadeFacts DEF Kind
<1>14. Kind # "object" => Now = ObjectNow
  BY <1>9, <1>10, <1>13 DEF ObjectNow
<1>18. opt.sortKeys /\ Kind \in {"dict", "toDict"} => Top.newObj = 0
  <2> SUFFICES ASSUME opt.sortKeys, Kind \in {"dict", "toDict"}, Top.newObj # 0 PROVE FALSE
    OBVIOUS
  <2>1. PICK n : n = Top.obj
    OBVIOUS
  <2>2. n \in DOMAIN graph /\ graph[n].kind = "object"
    BY <1>1, <1>7, <2>1, ObjectFacts DEF Going, IsContext
  <2>3. PICK m : m = Made(graph, opt)[DefaultMax][n]
    OBVIOUS
  <2>4. m = Object
    BY <1>7, <1>10, <1>13, <2>1, <2>3
  <2>5. m # 0 /\ graph[m].kind \in {"dict", "toDict"}
    BY <1>3, <2>4, GoingFacts, GraphFacts DEF Kind, Nodes
  <2>6. DefaultMadeDict
    BY <2>2, <2>3, <2>5, Zenon DEF DefaultMadeDict
  <2>7. QED
    BY <2>6 DEF Going
<1>15. Now \in Seq(Alphabet)
  BY <1>9, <1>10, <1>12, GoingFacts, ObjectTextType, Zenon
<1>16. Tracked(graph, opt, stack, Len(stack) - 1, out, Now)
  BY <1>2, GoingFacts DEF OnTrack
<1>17. QED
  BY <1>1, <1>2, <1>3, <1>5, <1>7, <1>8, <1>9, <1>14, <1>15, <1>16, <1>18

\* The innermost frame is left or changed, and the others are as they were.
LEMMA OuterFrames ==
  ASSUME Going, stack # <<>>, stack' = Pop
  PROVE  /\ Len(stack') = Len(stack) - 1 /\ Len(stack) \in Nat \ {0}
         /\ SameFrames(stack, stack', Len(stack) - 1)
         /\ \A i \in 1 .. Len(stack') : Placed(graph, opt, stack'[i])
<1>1. /\ Len(stack') = Len(stack) - 1 /\ Len(stack) \in Nat \ {0}
      /\ \A i \in 1 .. Len(stack) - 1 : stack'[i] = stack[i]
  BY GoingFacts, Stacks
<1>2. SameFrames(stack, stack', Len(stack) - 1)
  BY <1>1 DEF SameFrames
<1>3. \A i \in 1 .. Len(stack') : i \in 1 .. Len(stack) /\ stack'[i] = stack[i]
  BY <1>1
<1>4. \A i \in 1 .. Len(stack') : Placed(graph, opt, stack'[i])
  BY <1>3, GoingFacts DEF OnTrack
<1>5. QED
  BY <1>1, <1>2, <1>4

\* A scalar is written.
LEMMA EmitFollows ==
  ASSUME Going, pc = "begin", NEW token \in Alphabet, Emit(token), pyErr' = "none",
         Now = <<token>>
  PROVE  Follows'
<1>1. /\ stack' = Pop /\ pc' = "return" /\ errorMsg' = "none" /\ out' = Append(out, token)
  BY DEF Emit, Return, Going
<1>2. /\ stack # <<>> /\ Len(stack) \in Nat \ {0}
      /\ Tracked(graph, opt, stack, Len(stack) - 1, out, <<token>>)
  BY BeginNow
<1>3. /\ Len(stack') = Len(stack) - 1 /\ SameFrames(stack, stack', Len(stack) - 1)
      /\ \A i \in 1 .. Len(stack') : Placed(graph, opt, stack'[i])
  BY <1>1, <1>2, OuterFrames
<1>4. Counted'
  <2>1. ASSUME NEW i \in 1 .. Len(stack')
        PROVE  stack'[i].index = stack'[i].count + 1
    <3>1. i \in 1 .. Len(stack) /\ i # Len(stack) /\ stack'[i] = stack[i]
      BY <1>2, <1>3 DEF SameFrames
    <3>2. QED
      BY <3>1, CountedBelow
  <2>2. QED
    BY <1>1, <2>1 DEF Counted
<1>5. Tracked(graph, opt, stack', Depth', out', Now')
  <2>1. <<token>> \in Seq(Alphabet) /\ <<>> \in Seq(Alphabet) /\ out \in Seq(Alphabet)
    BY Singleton, EmptySeq, GoingFacts
  <2>2. <<token>> \o <<>> = <<token>>
    BY <2>1, ConcatEmptySeq
  <2>3. Tracked(graph, opt, stack, Len(stack) - 1, out \o <<token>>, <<>>)
    BY <1>2, <2>1, <2>2, TrackWrite, Zenon
  <2>4. out \o <<token>> = out'
    BY <1>1, <2>1, AppendIsConcat
  <2>5. Depth' = Len(stack) - 1 /\ Now' = <<>>
    BY <1>1, <1>3 DEF Depth, Now
  <2>6. QED
    BY <1>3, <2>3, <2>4, <2>5, TrackStays, Zenon
<1>6. QED
  BY <1>1, <1>3, <1>4, <1>5, TrackOn DEF Going, Encoding

\* An object that has no text.
LEMMA NoText ==
  ASSUME Going, pc = "begin", NEW token \in Bad, Now = <<token>>
  PROVE  ~HasText
<1>1. /\ Now \in Seq(Alphabet) /\ out \in Seq(Alphabet)
      /\ Tracked(graph, opt, stack, Len(stack) - 1, out, Now)
  BY BeginNow, GoingFacts
<1>2. 1 \in 1 .. Len(Now) /\ Now[1] \in Bad
  OBVIOUS
<1>3. QED
  BY <1>1, <1>2, BadNow, Zenon

\* It ends encode() with an error.
LEMMA FailFollows ==
  ASSUME Going, pc = "begin", pc' = "return", pyErr' = "none", errorMsg' # "none",
         NEW token \in Bad, Now = <<token>>
  PROVE  Follows'
BY NoText, Stops DEF Going, Encoding

\* The text of each kind of object.
LEMMA ScalarNow ==
  ASSUME Going, pc = "begin"
  PROVE  /\ Kind \in {"const", "int", "minusOne", "uint", "bigint", "float", "str"} => Now = <<Kind>>
         /\ Kind = "nan" => Now = IF opt.allowNan THEN <<"nan">> ELSE <<"error">>
         /\ Kind \in {"bytes", "badBytes"} => Now = IF opt.rejectBytes THEN <<"error">> ELSE <<Kind>>
         /\ Kind = "json" => Now = JSONText(graph, Object)
<1>1. Object \in DOMAIN graph /\ (Kind # "object" => Now = ObjectNow) /\ graph \in Graphs
  BY BeginNow, GoingFacts
<1>2. PICK t : t = TextsIn(graph, opt, Len(stack))
  OBVIOUS
<1>3. ObjectNow = ObjectText(graph, opt, Object, t) /\ Kind = graph[Object].kind
      /\ Items = graph[Object].items
  BY <1>2 DEF ObjectNow, Kind, Items
<1>4. Kind \in {"const", "int", "minusOne", "uint", "bigint", "float", "str"} => Now = <<Kind>>
  BY <1>1, <1>3, ObjectTextCases
<1>5. Kind = "nan" => Now = IF opt.allowNan THEN <<"nan">> ELSE <<"error">>
  BY <1>1, <1>3, ObjectTextCases
<1>6. Kind \in {"bytes", "badBytes"} => Now = IF opt.rejectBytes THEN <<"error">> ELSE <<Kind>>
  BY <1>1, <1>3, ObjectTextCases
<1>7. Kind = "json" => Now = JSONText(graph, Object)
  BY <1>1, <1>3, ObjectTextCases, ZenonT(60)
<1>8. QED
  BY <1>4, <1>5, <1>6, <1>7

\* And of what cannot be converted.
LEMMA FailingNow ==
  ASSUME Going, pc = "begin"
  PROVE  /\ Kind = "badFloat" => Now = <<"error">>
         /\ Kind = "toDict" /\ ~(Items # <<>> /\ graph[Items[1]].kind = "dict") =>
              Now = <<"error">>
<1>1. Object \in DOMAIN graph /\ (Kind # "object" => Now = ObjectNow) /\ graph \in Graphs
  BY BeginNow, GoingFacts
<1>2. PICK t : t = TextsIn(graph, opt, Len(stack))
  OBVIOUS
<1>3. ObjectNow = ObjectText(graph, opt, Object, t) /\ Kind = graph[Object].kind
      /\ Items = graph[Object].items
  BY <1>2 DEF ObjectNow, Kind, Items
<1>4. Kind = "badFloat" => Now = <<"error">>
  BY <1>1, <1>3, ObjectTextCases
<1>5. ASSUME Kind = "toDict", ~(Items # <<>> /\ graph[Items[1]].kind = "dict")
      PROVE  Now = <<"error">>
  <2>1. Now = ObjectText(graph, opt, Object, t)
    BY <1>1, <1>3, <1>5, Zenon
  <2>2. ObjectText(graph, opt, Object, t) =
          IF Items # <<>> /\ graph[Items[1]].kind = "dict"
          THEN DictText(graph, opt, Items[1], t) ELSE <<"error">>
    BY <1>1, <1>3, <1>5, ObjectTextCases
  <2>3. QED
    BY <1>5, <2>1, <2>2, Zenon
<1>6. QED
  BY <1>4, <1>5, Zenon

\* Objects that are no containers.
LEMMA ScalarsFollow ==
  ASSUME Going,
         \/ EncodeScalar \/ EncodeMinusOne \/ EncodeBigInteger \/ EncodeNan \/ EncodeBadFloat
         \/ EncodeString \/ BeginRawJSON \/ RejectObject
  PROVE  Follows'
<1> SUFFICES ASSUME raised' = {} PROVE Follows'
  BY Raises
<1>1. pc = "begin"
  BY DEF EncodeScalar, EncodeMinusOne, EncodeBigInteger, EncodeNan, EncodeBadFloat,
         EncodeString, BeginRawJSON, RejectObject, Begin
<1>2. pyErr = "none" /\ Kind \in Alphabet /\ "raw" \in Alphabet
  <2>1. Kind \in Kinds
    BY <1>1, BeginNow, ObjectFacts DEF Going
  <2>2. QED
    BY <2>1, GoingFacts DEF Alphabet, Tokens
<1>3. CASE EncodeScalar
  <2>1. Kind \in {"const", "int", "float"} /\ Emit(Kind) /\ pyErr' = "none"
    BY <1>2, <1>3 DEF EncodeScalar, Begin
  <2>2. Now = <<Kind>>
    BY <1>1, <2>1, ScalarNow
  <2>3. QED
    BY <1>1, <1>2, <2>1, <2>2, EmitFollows, Zenon
<1>4. CASE EncodeMinusOne
  <2>1. Kind = "minusOne" /\ Emit(Kind) /\ pyErr' = "none"
    BY <1>2, <1>4 DEF EncodeMinusOne, Begin
  <2>2. Now = <<Kind>>
    BY <1>1, <2>1, ScalarNow
  <2>3. QED
    BY <1>1, <1>2, <2>1, <2>2, EmitFollows, Zenon
<1>5. CASE EncodeBigInteger
  <2>1. Kind \in {"uint", "bigint"} /\ Emit(Kind) /\ pyErr' = "none"
    BY <1>2, <1>5 DEF EncodeBigInteger, Begin, Raise
  <2>2. Now = <<Kind>>
    BY <1>1, <2>1, ScalarNow
  <2>3. QED
    BY <1>1, <1>2, <2>1, <2>2, EmitFollows, Zenon
<1>6. CASE EncodeNan
  <2>1. Kind = "nan" /\ pyErr' = "none"
    BY <1>2, <1>6 DEF EncodeNan, Begin
  <2>2. CASE opt.allowNan
    <3>1. Emit(Kind) /\ Now = <<Kind>>
      BY <1>1, <1>6, <2>1, <2>2, ScalarNow DEF EncodeNan
    <3>2. QED
      BY <1>1, <1>2, <2>1, <3>1, EmitFollows, Zenon
  <2>3. CASE ~opt.allowNan
    <3>1. pc' = "return" /\ errorMsg' # "none" /\ Now = <<"error">>
      BY <1>1, <1>6, <2>1, <2>3, ScalarNow DEF EncodeNan, Return, SetError
    <3>2. "error" \in Bad
      BY DEF Bad
    <3>3. QED
      BY <1>1, <2>1, <3>1, <3>2, FailFollows, Zenon
  <2>4. QED
    BY <2>2, <2>3
<1>7. CASE EncodeBadFloat
  BY <1>7 DEF EncodeBadFloat, RaiseSilently
<1>8. CASE EncodeString
  <2>1. /\ Kind \in {"str", "bytes", "badBytes"}
        /\ \/ /\ Kind = "badBytes" /\ ~opt.rejectBytes /\ pc' = "return"
              /\ errorMsg' = "Invalid UTF-8" /\ pyErr' = pyErr
           \/ (Kind # "str" => ~opt.rejectBytes) /\ Emit(Kind) /\ pyErr' = pyErr
    BY <1>8 DEF EncodeString, Begin, Raise, Return, SetError
  <2>2. pyErr' = "none" /\ (Kind # "str" => ~opt.rejectBytes)
    BY <1>2, <2>1
  <2>3. Now = <<Kind>>
    BY <1>1, <2>1, <2>2, ScalarNow
  <2>4. CASE Emit(Kind)
    BY <1>1, <1>2, <2>2, <2>3, <2>4, EmitFollows, Zenon
  <2>5. CASE ~Emit(Kind)
    <3>1. Kind \in Bad /\ pc' = "return" /\ errorMsg' # "none"
      BY <2>1, <2>5 DEF Bad
    <3>2. QED
      BY <1>1, <2>2, <2>3, <3>1, FailFollows, Zenon
  <2>6. QED
    BY <2>4, <2>5
<1>9. CASE BeginRawJSON
  <2>1. PICK token \in Alphabet : token = IF graph[Items[1]].kind = "badBytes" THEN "badBytes" ELSE "raw"
    BY DEF Alphabet, Tokens, Kinds
  <2>2. /\ Kind = "json" /\ Items # <<>> /\ graph[Items[1]].kind \in {"str", "bytes", "badBytes"}
        /\ Emit(token) /\ pyErr' = "none"
    BY <1>9, <2>1 DEF BeginRawJSON, Begin, Raise
  <2>3. Now = <<token>>
    BY <1>1, <2>1, <2>2, ScalarNow DEF JSONText, Items
  <2>4. QED
    BY <1>1, <2>2, <2>3, EmitFollows, Zenon
<1>10. CASE RejectObject
  BY <1>10 DEF RejectObject, Raise
<1>11. QED
  BY <1>3, <1>4, <1>5, <1>6, <1>7, <1>8, <1>9, <1>10

\* The innermost frame is another one.
LEMMA TopFrame ==
  ASSUME Going, stack # <<>>, NEW f, stack' = SetTop(f), Placed(graph, opt, f)
  PROVE  /\ Len(stack') = Len(stack) /\ Len(stack) \in Nat \ {0} /\ stack'[Len(stack)] = f
         /\ Top' = f
         /\ SameFrames(stack, stack', Len(stack) - 1)
         /\ \A i \in 1 .. Len(stack') : Placed(graph, opt, stack'[i])
<1>1. PICK S : stack \in Seq(S) /\ f \in S
  <2>1. stack \in Seq(Contexts(graph) \union {f})
    BY GoingFacts
  <2>2. QED
    BY <2>1
<1>2. /\ Len(stack') = Len(stack) /\ Len(stack) \in Nat \ {0}
      /\ \A i \in 1 .. Len(stack) : stack'[i] = IF i = Len(stack) THEN f ELSE stack[i]
      /\ stack'[Len(stack)] = f
  <2>1. Len(stack) \in Nat \ {0}
    BY <1>1, Stacks
  <2>2. /\ Len(SetTop(f)) = Len(stack) /\ SetTop(f)[Len(stack)] = f
        /\ \A i \in 1 .. Len(stack) : SetTop(f)[i] = IF i = Len(stack) THEN f ELSE stack[i]
    BY <1>1, Replaced
  <2>3. QED
    BY <2>1, <2>2
<1>3. SameFrames(stack, stack', Len(stack) - 1)
  BY <1>2 DEF SameFrames
<1>4. \A i \in 1 .. Len(stack) : Placed(graph, opt, stack[i])
  BY GoingFacts DEF OnTrack
<1>5. \A i \in 1 .. Len(stack') : Placed(graph, opt, stack'[i])
  <2>1. ASSUME NEW i \in 1 .. Len(stack')
        PROVE  Placed(graph, opt, stack'[i])
    <3>1. CASE i = Len(stack)
      BY <1>2, <3>1
    <3>2. CASE i # Len(stack)
      BY <1>2, <1>4, <3>2
    <3>3. QED
      BY <3>1, <3>2
  <2>2. QED
    BY <2>1
<1>6. Top' = f
  BY <1>2 DEF Top
<1>7. QED
  BY <1>2, <1>3, <1>5, <1>6

\* Its counters, too, count what is written.
LEMMA TopCounted ==
  ASSUME Going, stack # <<>>, NEW f, stack' = SetTop(f), Placed(graph, opt, f),
         f.index = f.count + IF pc' \in {"begin", "next"} THEN 0 ELSE 1
  PROVE  Counted'
<1>1. ASSUME NEW i \in 1 .. Len(stack')
      PROVE  stack'[i].index = stack'[i].count
               + (IF i = Len(stack') /\ pc' \in {"begin", "next"} THEN 0 ELSE 1)
  <2>1. CASE i = Len(stack)
    BY <2>1, TopFrame
  <2>2. CASE i # Len(stack)
    <3>1. i \in 1 .. Len(stack) /\ stack'[i] = stack[i]
      BY <2>2, TopFrame DEF SameFrames
    <3>2. QED
      BY <2>2, <3>1, CountedBelow, TopFrame
  <2>3. QED
    BY <2>1, <2>2
<1>2. QED
  BY <1>1 DEF Counted

\* default= makes another object, which has the same text.
LEMMA CallDefaultFollows ==
  ASSUME Going, CallDefault
  PROVE  Follows'
<1>1. /\ pc = "begin" /\ Kind = "object" /\ opt.default /\ Top.chain < DefaultMax /\ Items # <<>>
      /\ pc' = "begin" /\ pyErr' = "none" /\ errorMsg' = "none" /\ out' = out
  BY DEF CallDefault, Begin, Going
<1>2. PICK f : f = [Top EXCEPT !.newObj = Items[1], !.chain = @ + 1, !.slots = @ \union {"newObj"}]
  OBVIOUS
<1>3. /\ Top \in Frames /\ stack # <<>> /\ Object \in DOMAIN graph /\ Items \in Seq(DOMAIN graph)
      /\ graph \in Graphs /\ DOMAIN graph \subseteq Nodes
  BY <1>1, BeginNow, ObjectFacts, GoingFacts, GraphFacts DEF Going
<1>4. /\ f.newObj = Items[1] /\ f.chain = Top.chain + 1 /\ f.type = "unknown"
      /\ f.index = 0 /\ f.count = 0
  BY <1>1, <1>2, <1>3, BeginNow DEF Frames
<1>5. Items[1] \in DOMAIN graph
  BY <1>1, <1>3, EmptySeq, ElementOfSeq
<1>6. stack' = SetTop(f)
  BY <1>2 DEF CallDefault
<1>7. Placed(graph, opt, f)
  <2>1. PICK k : k = DefaultMax - Top.chain
    OBVIOUS
  <2>2. /\ k \in 0 .. DefaultMax /\ k # 0 /\ DefaultMax - f.chain = k - 1
        /\ f.chain <= DefaultMax
    BY <1>1, <1>3, <1>4, <2>1, EncoderAssumption DEF Frames
  <2>3. Made(graph, opt)[k][Object] = Made(graph, opt)[k - 1][Items[1]]
    BY <1>1, <1>3, <2>2, MadeFacts DEF Kind, Items
  <2>4. f.newObj > 0 /\ f.newObj # KeyList /\ Encoded(f) = Items[1] /\ f.obj = Top.obj
    BY <1>2, <1>3, <1>4, <1>5 DEF Nodes, KeyList, Encoded, Frames
  <2>5. graph[f.obj].kind = "object"
    <3>1. CASE Top.newObj = 0
      BY <1>1, <2>4, <3>1 DEF Object, Kind
    <3>2. CASE Top.newObj # 0
      BY <1>1, <2>4, <3>2, BeginNow
    <3>3. QED
      BY <3>1, <3>2
  <2>6. Made(graph, opt)[k][Object] = Made(graph, opt)[DefaultMax][Top.obj]
    BY <1>1, <2>1, BeginNow
  <2>7. Made(graph, opt)[DefaultMax - f.chain][Encoded(f)] = Made(graph, opt)[DefaultMax][f.obj]
    BY <2>2, <2>3, <2>4, <2>6
  <2>8. QED
    BY <1>4, <2>2, <2>4, <2>5, <2>7 DEF Placed
<1>8. /\ Len(stack') = Len(stack) /\ Len(stack) \in Nat \ {0} /\ Top' = f
      /\ SameFrames(stack, stack', Len(stack) - 1)
      /\ \A i \in 1 .. Len(stack') : Placed(graph, opt, stack'[i])
  BY <1>3, <1>6, <1>7, TopFrame
<1>9. Counted'
  BY <1>1, <1>3, <1>4, <1>6, <1>7, TopCounted
<1>10. Now' = Now
  <2>1. PICK k : k = DefaultMax - Top.chain
    OBVIOUS
  <2>2. k \in 0 .. DefaultMax /\ k # 0 /\ DefaultMax - (Top.chain + 1) = k - 1
    BY <1>1, <1>3, <2>1, EncoderAssumption DEF Frames
  <2>3. Made(graph, opt)[k][Object] = Made(graph, opt)[k - 1][Items[1]]
    <3>1. /\ graph[Object].kind = "object" /\ graph[Object].items = Items
      BY <1>1 DEF Kind, Items
    <3>2. QED
      BY <1>1, <1>3, <2>2, <3>1, MadeFacts
  <2>4. Object' = Items[1]
    <3>1. Items[1] > 0
      BY <1>3, <1>5 DEF Nodes
    <3>2. QED
      BY <1>4, <1>8, <3>1 DEF Object
  <2>5. Now' = ObjectText(graph, opt, Made(graph, opt)[k - 1][Items[1]],
                          TextsIn(graph, opt, Len(stack)))
    BY <1>1, <1>4, <1>8, <2>2, <2>4 DEF Now, Going, Kept
  <2>6. QED
    BY <1>1, <2>1, <2>3, <2>5, BeginNow
<1>11. Tracked(graph, opt, stack', Depth', out', Now')
  <2>1. Depth' = Len(stack) - 1
    BY <1>1, <1>8 DEF Depth
  <2>2. Tracked(graph, opt, stack, Len(stack) - 1, out, Now)
    BY <1>1, BeginNow
  <2>3. Tracked(graph, opt, stack', Len(stack) - 1, out, Now)
    BY <1>8, <2>2, TrackStays, Zenon
  <2>4. QED
    BY <1>1, <1>10, <2>1, <2>3
<1>12. QED
  BY <1>1, <1>8, <1>9, <1>11, TrackOn DEF Going, Encoding

\* A container begins with its bracket.
LEMMA OpenFollows ==
  ASSUME Going, pc = "begin", pc' = "next", pyErr' = "none", errorMsg' = "none",
         NEW bracket \in Alphabet, NEW a \in Seq(Alphabet), Now = <<bracket>> \o a,
         out' = Append(out, bracket),
         NEW f, stack' = SetTop(f), Placed(graph, opt, f), f.index = 0, f.count = 0,
         FrameRest(graph, opt, f, TextsIn(graph, opt, Len(stack))) = a
  PROVE  Follows'
<1>1. stack # <<>> /\ Tracked(graph, opt, stack, Len(stack) - 1, out, <<bracket>> \o a)
  BY BeginNow
<1>2. /\ Len(stack') = Len(stack) /\ Len(stack) \in Nat \ {0} /\ stack'[Len(stack)] = f
      /\ SameFrames(stack, stack', Len(stack) - 1)
      /\ \A i \in 1 .. Len(stack') : Placed(graph, opt, stack'[i])
  BY <1>1, TopFrame
<1>3. Counted'
  BY <1>1, TopCounted
<1>4. PICK n : n = Len(stack) - 1
  OBVIOUS
<1>5. n \in Nat /\ n + 1 = Len(stack)
  BY <1>2, <1>4
<1>6. /\ <<bracket>> \in Seq(Alphabet) /\ out \in Seq(Alphabet)
      /\ out \o <<bracket>> = out'
  BY Singleton, GoingFacts, AppendIsConcat
<1>7. out' \in Seq(Alphabet)
  BY <1>6, ConcatProperties
<1>8. Tracked(graph, opt, stack, n, out', a)
  BY <1>1, <1>4, <1>6, TrackWrite, Zenon
<1>9. Tracked(graph, opt, stack', n, out', a)
  BY <1>2, <1>4, <1>8, TrackStays, Zenon
<1>10. FrameRest(graph, opt, stack'[n + 1], TextsIn(graph, opt, n + 1)) = a
  BY <1>2, <1>5
<1>11. Tracked(graph, opt, stack', n + 1, out', <<>>)
  BY <1>5, <1>7, <1>9, <1>10, TrackOpen, Zenon
<1>12. Depth' = n + 1 /\ Now' = <<>>
  BY <1>2, <1>5 DEF Depth, Now
<1>13. QED
  BY <1>2, <1>3, <1>11, <1>12, TrackOn DEF Going, Encoding

\* A list.
LEMMA BeginListFollows ==
  ASSUME Going, BeginList
  PROVE  Follows'
<1>1. /\ pc = "begin" /\ Kind = "list" /\ pc' = "next" /\ pyErr' = "none" /\ errorMsg' = "none"
      /\ out' = Append(out, "[")
  BY GoingFacts DEF BeginList, Begin, AfterLookup, Going
<1>2. PICK f : f = [Top EXCEPT !.type = "array", !.size = Len(Items)]
  OBVIOUS
<1>3. PICK t : t = TextsIn(graph, opt, Len(stack))
  OBVIOUS
<1>4. PICK a : a = ListRest(graph, Object, t, Len(Items))
  OBVIOUS
<1>5. /\ Top \in Frames /\ Object \in DOMAIN graph /\ Object = Encoded(Top)
      /\ Items \in Seq(DOMAIN graph) /\ graph \in Graphs /\ t \in [DOMAIN graph -> Seq(Alphabet)]
  BY <1>1, <1>3, BeginNow, ObjectFacts, GoingFacts DEF Going
<1>6. /\ stack' = SetTop(f) /\ f.type = "array" /\ f.index = 0 /\ f.count = 0
      /\ f.size = Len(Items) /\ Encoded(f) = Object
  BY <1>1, <1>2, <1>5, BeginNow DEF BeginList, Frames, Encoded
<1>7. Len(Items) \in Nat /\ Items = graph[Object].items
  BY <1>5, LenProperties DEF Items
<1>8. Placed(graph, opt, f)
  BY <1>6, <1>7 DEF Placed
<1>9. Now = <<"[">> \o a
  <2>1. ObjectText(graph, opt, Object, t) = ListText(graph, Object, t)
    BY <1>1, <1>5, ObjectTextCases DEF Kind
  <2>2. Now = ObjectText(graph, opt, Object, t)
    BY <1>1, <1>3, BeginNow DEF ObjectNow
  <2>3. QED
    BY <1>4, <1>7, <2>1, <2>2 DEF ListText
<1>10. a \in Seq(Alphabet)
  <2>1. Len(Items) \in 0 .. Len(graph[Object].items)
    BY <1>7
  <2>2. \A j \in 0 .. Len(graph[Object].items) : ListRest(graph, Object, t, j) \in Seq(Alphabet)
    BY <1>5, ContainerTextType, Zenon
  <2>3. QED
    BY <1>4, <2>1, <2>2, Zenon
<1>11. FrameRest(graph, opt, f, t) = a
  <2>1. Len(Items) - 0 = Len(Items)
    BY <1>7
  <2>2. QED
    BY <1>4, <1>6, <1>7, <2>1 DEF FrameRest
<1>12. "[" \in Alphabet
  BY DEF Alphabet, Tokens
<1>13. QED
  BY <1>1, <1>3, <1>6, <1>8, <1>9, <1>10, <1>11, <1>12, OpenFollows, Zenon

\* A dictionary, obj itself or what its toDict returns.
LEMMA SetupDictIterFollows ==
  ASSUME Going, pc = "begin", pyErr' = "none", NEW d \in DOMAIN graph, graph[d].kind = "dict",
         Kind \in {"dict", "toDict"}, SetupDictIter(d), Now = DictText(graph, opt, d, TextsIn(graph, opt, Len(stack)))
  PROVE  Follows'
<1>1. pc' = "next" /\ errorMsg' = "none" /\ out' = Append(out, "{")
  BY DEF SetupDictIter, Going
<1>2. PICK f : f = [Top EXCEPT !.type = "object", !.dict = d, !.order = graph[d].keys,
                               !.slots = @ \union {"dict"}]
  OBVIOUS
<1>3. PICK t : t = TextsIn(graph, opt, Len(stack))
  OBVIOUS
<1>4. PICK a : a = DictRest(graph, opt, d, t, Len(graph[d].keys))
  OBVIOUS
<1>5. /\ Top \in Frames /\ graph \in Graphs /\ t \in [DOMAIN graph -> Seq(Alphabet)]
      /\ graph[d].keys \in Seq(Keys)
  BY <1>3, BeginNow, ObjectFacts, GoingFacts, GraphFacts DEF Going
<1>6. /\ stack' = SetTop(f) /\ f.type = "object" /\ f.index = 0 /\ f.count = 0
      /\ f.dict = d /\ f.order = graph[d].keys /\ f.newObj = Top.newObj
  BY <1>2, <1>5, BeginNow DEF SetupDictIter, Frames
<1>7. Len(graph[d].keys) \in Nat
  BY <1>5, LenProperties
<1>8. Placed(graph, opt, f)
  BY <1>6, <1>7, BeginNow DEF Placed, KeyList
<1>9. Now = <<"{">> \o a
  BY <1>3, <1>4 DEF DictText
<1>10. a \in Seq(Alphabet)
  <2>1. Len(graph[d].keys) \in 0 .. Len(graph[d].keys)
    BY <1>7
  <2>2. \A j \in 0 .. Len(graph[d].keys) : DictRest(graph, opt, d, t, j) \in Seq(Alphabet)
    BY <1>5, ContainerTextType, Zenon
  <2>3. QED
    BY <1>4, <2>1, <2>2, Zenon
<1>11. FrameRest(graph, opt, f, t) = a
  <2>1. Len(graph[d].keys) - 0 = Len(graph[d].keys)
    BY <1>7
  <2>2. QED
    BY <1>4, <1>6, <2>1 DEF FrameRest
<1>12. "{" \in Alphabet
  BY DEF Alphabet, Tokens
<1>13. QED
  BY <1>1, <1>3, <1>6, <1>8, <1>9, <1>10, <1>11, <1>12, OpenFollows, Zenon

\* Such dictionaries.
LEMMA DictsFollow ==
  ASSUME Going, BeginDict \/ BeginToDict
  PROVE  Follows'
<1> SUFFICES ASSUME raised' = {} PROVE Follows'
  BY Raises
<1>1. pc = "begin" /\ pyErr = "none" /\ Kind \in {"dict", "toDict"}
  BY GoingFacts DEF BeginDict, BeginToDict, Begin
<1>2. /\ Object \in DOMAIN graph /\ Items \in Seq(DOMAIN graph) /\ graph \in Graphs
      /\ Now = ObjectNow
  BY <1>1, BeginNow, ObjectFacts, GoingFacts DEF Going
<1>3. PICK t : t = TextsIn(graph, opt, Len(stack))
  OBVIOUS
<1>4. Now = ObjectText(graph, opt, Object, t)
  BY <1>2, <1>3 DEF ObjectNow
<1>5. CASE BeginDict
  <2>1. Kind = "dict" /\ SetupDictIter(Object) /\ pyErr' = "none"
    BY <1>1, <1>5 DEF BeginDict, Begin, AfterLookup
  <2>2. Now = DictText(graph, opt, Object, t)
    BY <1>2, <1>4, <2>1, ObjectTextCases DEF Kind
  <2>3. QED
    BY <1>1, <1>2, <1>3, <2>1, <2>2, SetupDictIterFollows DEF Kind
<1>6. CASE BeginToDict
  <2>1. /\ Kind = "toDict" /\ Items # <<>> /\ graph[Items[1]].kind = "dict"
        /\ SetupDictIter(Items[1]) /\ pyErr' = "none"
    BY <1>1, <1>6 DEF BeginToDict, Begin, AfterLookup, Raise
  <2>2. Items[1] \in DOMAIN graph
    BY <1>2, <2>1, EmptySeq, ElementOfSeq
  <2>3. Now = DictText(graph, opt, Items[1], t)
    BY <1>2, <1>4, <2>1, ObjectTextCases DEF Kind, Items
  <2>4. QED
    BY <1>1, <1>3, <2>1, <2>2, <2>3, SetupDictIterFollows
<1>7. QED
  BY <1>5, <1>6

\* An element at the place i of a container, with its separator, and the rest.
Parts(w, comma, e, rest) == w = (comma \o e) \o rest
Comma(i) == IF i > 0 THEN <<",">> ELSE <<>>
LEMMA NextText ==
  ASSUME NEW g \in Graphs, NEW elements \in Seq(Elements(g)),
         NEW t \in [DOMAIN g -> Seq(Alphabet)], NEW bracket \in Alphabet,
         NEW i \in Nat, i < Len(elements),
         NEW e, e = NameText(elements[i + 1][1]) \o t[elements[i + 1][2]]
  PROVE  /\ Comma(i) \in Seq(Alphabet) /\ e \in Seq(Alphabet)
         /\ Rest(elements, t, bracket)[Len(elements) - (i + 1)] \in Seq(Alphabet)
         /\ Parts(Rest(elements, t, bracket)[Len(elements) - i], Comma(i), e,
                  Rest(elements, t, bracket)[Len(elements) - (i + 1)])
<1>1. Len(elements) \in Nat
  BY LenProperties
<1>2. PICK j : j = Len(elements) - i
  OBVIOUS
<1>3. /\ j \in 1 .. Len(elements) /\ j - 1 = Len(elements) - (i + 1)
      /\ Len(elements) + 1 - j = i + 1 /\ (j < Len(elements) <=> i > 0) /\ i + 1 \in 1 .. Len(elements)
      /\ j - 1 \in 0 .. Len(elements)
  BY <1>1, <1>2
<1>4. Comma(i) \in Seq(Alphabet)
  <2>1. "," \in Alphabet
    BY DEF Alphabet, Tokens
  <2>2. <<",">> \in Seq(Alphabet) /\ <<>> \in Seq(Alphabet)
    BY <2>1, Singleton, EmptySeq, Zenon
  <2>3. QED
    BY <2>2, Zenon DEF Comma
<1>5. elements[i + 1] \in Elements(g)
  BY <1>3, ElementOfSeq
<1>6. PICK n \in Seq(Alphabet), v \in Seq(Alphabet) :
        n = NameText(elements[i + 1][1]) /\ v = t[elements[i + 1][2]]
  <2>1. elements[i + 1][1] \in Keys \union {"NULL"} /\ elements[i + 1][2] \in DOMAIN g
    BY <1>5 DEF Elements
  <2>2. NameText(elements[i + 1][1]) \in Seq(Alphabet)
    BY <2>1, NameTextType, Zenon
  <2>3. QED
    BY <2>1, <2>2
<1>7. e = n \o v /\ e \in Seq(Alphabet)
  <2>1. e = n \o v
    BY <1>6
  <2>2. QED
    BY <2>1, ConcatProperties
<1>8. ElementText(elements, t, j) = Comma(i) \o e
  <2>1. ElementText(elements, t, j) = (Comma(i) \o n) \o v
    BY <1>3, <1>6 DEF ElementText, Comma
  <2>2. Together(Comma(i), n, v)
    BY <1>4, Associates, Zenon
  <2>3. QED
    BY <1>7, <2>1, <2>2, Zenon DEF Together
<1>9. PICK rest : rest = Rest(elements, t, bracket)
  OBVIOUS
<1>10. rest[j] = ElementText(elements, t, j) \o rest[j - 1] /\ rest[j - 1] \in Seq(Alphabet)
  <2>1. /\ \A k \in 1 .. Len(elements) : rest[k] = ElementText(elements, t, k) \o rest[k - 1]
        /\ \A k \in 0 .. Len(elements) : rest[k] \in Seq(Alphabet)
    BY <1>9, RestFacts, Zenon
  <2>2. QED
    BY <1>3, <2>1
<1>11. QED
  BY <1>2, <1>3, <1>4, <1>7, <1>8, <1>9, <1>10, Zenon DEF Parts

\* Between two elements nothing is being written.
LEMMA NextNow ==
  ASSUME Going, pc = "next"
  PROVE  /\ stack # <<>> /\ Len(stack) \in Nat \ {0} /\ Top = stack[Len(stack)]
         /\ Top \in Frames /\ IsContext(Top, graph) /\ Placed(graph, opt, Top)
         /\ Top.index = Top.count /\ Top.index \in Nat
         /\ Top.type \in {"array", "object"}
         /\ Tracked(graph, opt, stack, Len(stack), out, <<>>)
<1>1. stack # <<>> /\ Len(stack) \in Nat \ {0}
  <2>1. stack # <<>> /\ stack \in Seq(Contexts(graph))
    BY GoingFacts DEF Going, Inv, Named
  <2>2. QED
    BY <2>1, EmptySeq
<1>2. Top \in Frames /\ IsContext(Top, graph)
  BY <1>1, ObjectFacts DEF Going
<1>3. Len(stack) \in 1 .. Len(stack) /\ Top = stack[Len(stack)]
  BY <1>1 DEF Top
<1>4. Top.type # "unknown"
  BY <1>3 DEF Going, Inv, Classified
<1>5. Placed(graph, opt, Top) /\ Top.index = Top.count + 0
  BY <1>3, GoingFacts DEF OnTrack, Counted
<1>6. Top.index = Top.count /\ Top.index \in Nat /\ Top.type \in {"array", "object"}
  BY <1>2, <1>4, <1>5 DEF Frames
<1>7. Tracked(graph, opt, stack, Len(stack), out, <<>>)
  BY GoingFacts DEF OnTrack, Depth, Now
<1>8. QED
  BY <1>1, <1>2, <1>3, <1>5, <1>6, <1>7

\* encode() is called for an element.
LEMMA ElementFollows ==
  ASSUME Going, pc = "next", pc' = "encode", pyErr' = "none", errorMsg' = "none",
         name' # "raising",
         NEW f, stack' = SetTop(f), Placed(graph, opt, f), f.index = f.count + 1,
         NEW comma \in Seq(Alphabet), NEW e \in Seq(Alphabet), NEW rest \in Seq(Alphabet),
         Parts(FrameRest(graph, opt, Top, TextsIn(graph, opt, Len(stack))), comma, e, rest),
         FrameRest(graph, opt, f, TextsIn(graph, opt, Len(stack))) = rest,
         out' = out \o comma, e = NameText(name') \o TextsIn(graph, opt, Len(stack))[cur']
  PROVE  Follows'
<1>1. stack # <<>> /\ Top = stack[Len(stack)]
      /\ Tracked(graph, opt, stack, Len(stack), out, <<>>)
  BY NextNow
<1>2. /\ Len(stack') = Len(stack) /\ Len(stack) \in Nat \ {0} /\ stack'[Len(stack)] = f
      /\ SameFrames(stack, stack', Len(stack) - 1)
      /\ \A i \in 1 .. Len(stack') : Placed(graph, opt, stack'[i])
  BY <1>1, TopFrame
<1>3. Counted'
  BY <1>1, TopCounted
<1>4. PICK n \in Nat \ {0} : n = Len(stack)
  BY <1>2
<1>5. out \in Seq(Alphabet) /\ comma \o e \in Seq(Alphabet)
  BY GoingFacts, ConcatProperties
<1>6. Tracked(graph, opt, stack', n, out, comma \o e)
  <2>1. FrameRest(graph, opt, stack[n], TextsIn(graph, opt, n)) = (comma \o e) \o rest
    BY <1>1, <1>4 DEF Parts
  <2>2. FrameRest(graph, opt, stack'[n], TextsIn(graph, opt, n)) = rest
    BY <1>2, <1>4
  <2>3. SameFrames(stack, stack', n - 1) /\ Tracked(graph, opt, stack, n, out, <<>>)
    BY <1>1, <1>2, <1>4
  <2>4. QED
    BY <1>5, <2>1, <2>2, <2>3, TrackElement, Zenon
<1>7. Tracked(graph, opt, stack', n, out', e)
  <2>1. Tracked(graph, opt, stack', n, out \o comma, e)
    BY <1>5, <1>6, TrackWrite, Zenon
  <2>2. QED
    BY <2>1
<1>8. Depth' = n /\ Now' = e
  BY <1>2, <1>4 DEF Depth, Now, Going, Kept
<1>9. QED
  BY <1>2, <1>3, <1>7, <1>8, TrackOn DEF Going, Encoding

\* The separator.
LEMMA CommaWritten ==
  ASSUME NEW w \in Seq(Alphabet), NEW i
  PROVE  w \o Comma(i) = IF i > 0 THEN Append(w, ",") ELSE w
<1>1. "," \in Alphabet
  BY DEF Alphabet, Tokens
<1>2. Append(w, ",") = w \o <<",">> /\ w \o <<>> = w
  BY <1>1, AppendIsConcat, ConcatEmptySeq
<1>3. QED
  BY <1>2, Zenon DEF Comma

\* The next item of a list.
LEMMA NextItemFollows ==
  ASSUME Going, NextItem
  PROVE  Follows'
<1>1. pc = "next" /\ Top.type = "array" /\ Top.index < Top.size
  BY DEF NextItem
<1>2. PICK f : f = [Top EXCEPT !.index = @ + 1]
  OBVIOUS
<1>3. PICK t : t = TextsIn(graph, opt, Len(stack))
  OBVIOUS
<1>4. PICK i \in Nat : i = Top.index /\ i = Top.count
  BY <1>1, NextNow
<1>5. /\ Top \in Frames /\ IsContext(Top, graph) /\ Placed(graph, opt, Top)
      /\ Object \in DOMAIN graph /\ Object = Encoded(Top) /\ Items = graph[Object].items
      /\ graph \in Graphs /\ t \in [DOMAIN graph -> Seq(Alphabet)] /\ out \in Seq(Alphabet)
  BY <1>1, <1>3, NextNow, ObjectFacts, GoingFacts DEF Going, Items
<1>6. /\ stack' = SetTop(f) /\ pc' = "encode" /\ cur' = Items[i + 1] /\ name' = "NULL"
      /\ pyErr' = "none" /\ errorMsg' = "none"
      /\ f.type = "array" /\ f.index = i + 1 /\ f.count = i /\ Encoded(f) = Object
      /\ f.size = Top.size
      /\ out' = IF i > 0 THEN Append(out, ",") ELSE out
  <2>1. /\ f.type = "array" /\ f.index = i + 1 /\ f.count = i /\ Encoded(f) = Object
        /\ f.size = Top.size
    BY <1>1, <1>2, <1>4, <1>5 DEF Frames, Encoded
  <2>2. EncodeElement(f, Items[i + 1], "NULL")
    BY <1>2, <1>4 DEF NextItem
  <2>3. QED
    BY <2>1, <2>2, GoingFacts DEF EncodeElement, Going
<1>7. PICK elements \in Seq(Elements(graph)) :
        /\ elements = ListElements(graph, Object) /\ Len(elements) = Len(Items)
        /\ \A k \in 1 .. Len(Items) : elements[k] = <<"NULL", Items[k]>>
        /\ Len(Items) \in Nat
  BY <1>5, ListElementsFacts
<1>8. Top.size = Len(Items) /\ i < Len(elements)
  BY <1>1, <1>4, <1>5, <1>7 DEF IsContext
<1>9. PICK e : e = NameText("NULL") \o t[Items[i + 1]]
  OBVIOUS
<1>10. e = NameText(elements[i + 1][1]) \o t[elements[i + 1][2]]
  <2>1. elements[i + 1] = <<"NULL", Items[i + 1]>>
    BY <1>7, <1>8
  <2>2. QED
    BY <1>9, <2>1
<1>11. PICK rest : rest = Rest(elements, t, "]")[Len(elements) - (i + 1)]
  OBVIOUS
<1>12. "]" \in Alphabet
  BY DEF Alphabet, Tokens
<1>13. /\ Comma(i) \in Seq(Alphabet) /\ e \in Seq(Alphabet) /\ rest \in Seq(Alphabet)
       /\ Parts(Rest(elements, t, "]")[Len(elements) - i], Comma(i), e, rest)
  BY <1>5, <1>8, <1>10, <1>11, <1>12, NextText, Zenon
<1>14. /\ FrameRest(graph, opt, Top, t) = Rest(elements, t, "]")[Len(elements) - i]
       /\ FrameRest(graph, opt, f, t) = rest
  BY <1>1, <1>4, <1>5, <1>6, <1>7, <1>11, Zenon DEF FrameRest, ListRest
<1>15. Placed(graph, opt, f) /\ f.index = f.count + 1
  <2>1. i + 1 <= Top.size
    BY <1>4, <1>7, <1>8
  <2>2. QED
    BY <1>1, <1>6, <2>1 DEF Placed
<1>16. out' = out \o Comma(i)
  BY <1>5, <1>6, CommaWritten, Zenon
<1>17. e = NameText(name') \o t[cur'] /\ name' # "raising"
  BY <1>6, <1>9
<1>18. Parts(FrameRest(graph, opt, Top, t), Comma(i), e, rest)
  BY <1>13, <1>14, Zenon
<1>19. QED
  BY <1>1, <1>3, <1>6, <1>13, <1>14, <1>15, <1>16, <1>17, <1>18, ElementFollows, Zenon

\* The iterator of a dictionary, sorted now or before.
LEMMA IteratorPlaced ==
  ASSUME Going, InDictionary, CanIterate, NEW f \in Iterators
  PROVE  /\ f \in Frames /\ f.type = "object" /\ f.dict = Top.dict /\ f.index = Top.index
         /\ f.count = Top.count
         /\ Top.dict \in DOMAIN graph /\ graph[Top.dict].kind = "dict"
         /\ InOrder(graph, opt, Top.dict, f.order)
         /\ Len(f.order) = Len(graph[Top.dict].keys) /\ Len(f.order) \in Nat
         /\ f.index <= Len(f.order)
         /\ (opt.sortKeys => f.newObj = KeyList /\ f.size = Len(f.order))
         /\ (HasKey(f) <=> f.index < Len(f.order))
<1>1. pc = "next" /\ Top.type = "object"
  BY DEF InDictionary
<1>2. /\ Top \in Frames /\ IsContext(Top, graph) /\ Placed(graph, opt, Top) /\ Top.index \in Nat
      /\ Top.dict \in DOMAIN graph /\ graph[Top.dict].kind = "dict" /\ graph \in Graphs
  BY <1>1, NextNow, GoingFacts DEF IsContext
<1>3. /\ f.type = "object" /\ f.dict = Top.dict /\ f.index = Top.index /\ f.count = Top.count
      /\ InOrder(graph, opt, Top.dict, f.order)
      /\ (opt.sortKeys => f.newObj = KeyList /\ f.size = Len(f.order))
      /\ (SortNow => Top.index = 0) /\ (~SortNow => f = Top)
  <2>1. CASE SortNow
    <3>1. PICK order \in Orders(Top.order) : f = Sorted(Top, order)
      BY <2>1 DEF Iterators
    <3>2. /\ f.type = "object" /\ f.dict = Top.dict /\ f.index = Top.index /\ f.count = Top.count
          /\ f.newObj = KeyList /\ f.size = Len(order) /\ f.order = order
      BY <1>1, <1>2, <3>1 DEF Sorted, Frames
    <3>3. Top.order = graph[Top.dict].keys /\ Top.index = 0
      BY <1>1, <1>2, <2>1 DEF Placed, SortNow, KeyList
    <3>4. InOrder(graph, opt, Top.dict, f.order)
      BY <2>1, <3>1, <3>2, <3>3 DEF InOrder, SortNow, CanIterate
    <3>5. QED
      BY <2>1, <3>2, <3>3, <3>4
  <2>2. CASE ~SortNow
    <3>1. f = Top
      BY <2>2 DEF Iterators
    <3>2. opt.sortKeys => f.newObj = KeyList /\ f.size = Len(f.order)
                          /\ InOrder(graph, opt, Top.dict, f.order)
      BY <1>1, <1>2, <2>2, <3>1 DEF Placed, SortNow
    <3>3. ~opt.sortKeys => InOrder(graph, opt, Top.dict, f.order)
      BY <1>1, <1>2, <3>1 DEF Placed, InOrder
    <3>4. QED
      BY <1>1, <2>2, <3>1, <3>2, <3>3
  <2>3. QED
    BY <2>1, <2>2
<1>4. f \in Frames
  BY IteratorFacts DEF Going, Contexts
<1>5. Len(f.order) = Len(graph[Top.dict].keys) /\ Len(f.order) \in Nat
  <2>1. Len(graph[Top.dict].keys) \in Nat /\ Len(f.order) = Len(graph[Top.dict].keys)
    BY <1>2, <1>3, DictElementsFacts
  <2>2. QED
    BY <2>1
<1>6. f.index <= Len(f.order)
  BY <1>1, <1>2, <1>3, <1>5 DEF Placed
<1>7. HasKey(f) <=> f.index < Len(f.order)
  BY <1>3 DEF HasKey
<1>8. QED
  BY <1>2, <1>3, <1>4, <1>5, <1>6, <1>7

\* The element of the next key of a dictionary, and what is due behind it.
KeyParts(d, i, key, t) ==
  LET e == NameText(key) \o t[Lookup(d, key)]
      rest == DictRest(graph, opt, d, t, Len(graph[d].keys) - (i + 1))
  IN /\ Lookup(d, key) \in DOMAIN graph /\ Comma(i) \in Seq(Alphabet)
     /\ e \in Seq(Alphabet) /\ rest \in Seq(Alphabet)
     /\ Parts(FrameRest(graph, opt, Top, t), Comma(i), e, rest)
LEMMA KeyDue ==
  ASSUME Going, InDictionary, CanIterate, NEW u \in Iterators, HasKey(u),
         NEW t, t = TextsIn(graph, opt, Len(stack))
  PROVE  KeyParts(Top.dict, Top.index, u.order[Top.index + 1], t)
<1>1. pc = "next" /\ Top.type = "object"
  BY DEF InDictionary
<1>2. PICK i \in Nat : i = Top.index
  BY <1>1, NextNow
<1>3. PICK d \in DOMAIN graph : d = Top.dict /\ graph[d].kind = "dict"
  BY IteratorPlaced
<1>4. /\ InOrder(graph, opt, d, u.order) /\ Len(u.order) = Len(graph[d].keys)
      /\ Len(u.order) \in Nat /\ i < Len(u.order)
  BY <1>2, <1>3, IteratorPlaced
<1>5. PICK key : key = u.order[i + 1]
  OBVIOUS
<1>6. graph \in Graphs /\ t \in [DOMAIN graph -> Seq(Alphabet)]
  BY GoingFacts
<1>7. PICK elements \in Seq(Elements(graph)) :
        /\ elements = DictElements(graph, opt, d) /\ Len(elements) = Len(graph[d].keys)
        /\ \A k \in 1 .. Len(graph[d].keys) :
             elements[k] = <<u.order[k], ValueOf(graph, d, u.order[k])>>
  <2>1. PICK order : order = u.order
    OBVIOUS
  <2>2. InOrder(graph, opt, d, order)
    BY <1>4, <2>1
  <2>3. /\ DictElements(graph, opt, d) \in Seq(Elements(graph))
        /\ Len(DictElements(graph, opt, d)) = Len(graph[d].keys)
        /\ \A k \in 1 .. Len(graph[d].keys) :
             DictElements(graph, opt, d)[k] = <<order[k], ValueOf(graph, d, order[k])>>
    BY <1>3, <1>6, <2>2, DictElementsFacts
  <2>4. QED
    BY <2>1, <2>3
<1>8. PICK e : e = NameText(key) \o t[Lookup(d, key)]
  OBVIOUS
<1>9. /\ i < Len(elements) /\ e = NameText(elements[i + 1][1]) \o t[elements[i + 1][2]]
      /\ Lookup(d, key) \in DOMAIN graph
  <2>1. elements[i + 1] = <<key, ValueOf(graph, d, key)>>
    BY <1>4, <1>5, <1>7
  <2>2. Lookup(d, key) = ValueOf(graph, d, key)
    BY DEF Lookup, ValueOf
  <2>3. elements[i + 1][1] = key /\ elements[i + 1][2] = Lookup(d, key)
    BY <2>1, <2>2
  <2>4. i < Len(elements) /\ i + 1 \in 1 .. Len(elements)
    BY <1>4, <1>7
  <2>5. elements[i + 1] \in Elements(graph)
    BY <2>4, ElementOfSeq
  <2>6. elements[i + 1][2] \in DOMAIN graph
    BY <2>5 DEF Elements
  <2>7. QED
    BY <1>8, <2>3, <2>4, <2>6, Zenon
<1>10. PICK rest : rest = Rest(elements, t, "}")[Len(elements) - (i + 1)]
  OBVIOUS
<1>11. "}" \in Alphabet
  BY DEF Alphabet, Tokens
<1>12. /\ Comma(i) \in Seq(Alphabet) /\ e \in Seq(Alphabet) /\ rest \in Seq(Alphabet)
       /\ Parts(Rest(elements, t, "}")[Len(elements) - i], Comma(i), e, rest)
  BY <1>6, <1>9, <1>10, <1>11, NextText, Zenon
<1>13. opt.sortKeys => Sortable(graph[d].keys)
  BY <1>4 DEF InOrder
<1>14. /\ FrameRest(graph, opt, Top, t) = Rest(elements, t, "}")[Len(elements) - i]
       /\ rest = DictRest(graph, opt, d, t, Len(graph[d].keys) - (i + 1))
  <2>1. "object" # "array"
    OBVIOUS
  <2>2. QED
    BY <1>1, <1>2, <1>3, <1>7, <1>10, <1>13, <2>1, Zenon DEF FrameRest, DictRest
<1>15. QED
  BY <1>2, <1>3, <1>5, <1>8, <1>9, <1>12, <1>14, Zenon DEF KeyParts

\* The next key of a dictionary, and its value.
LEMMA NextKeyFollows ==
  ASSUME Going, NextKey
  PROVE  Follows'
<1>1. PICK u \in Iterators :
        /\ HasKey(u) /\ u.order[u.index + 1] # "raising"
        /\ EncodeElement([u EXCEPT !.index = @ + 1, !.slots = @ \union {"name"}],
                         Lookup(u.dict, u.order[u.index + 1]), u.order[u.index + 1])
  BY DEF NextKey
<1>2. PICK f : f = [u EXCEPT !.index = @ + 1, !.slots = @ \union {"name"}]
  OBVIOUS
<1>3. PICK t : t = TextsIn(graph, opt, Len(stack))
  OBVIOUS
<1>4. pc = "next" /\ InDictionary /\ CanIterate /\ Top.type = "object"
  BY DEF NextKey, InDictionary
<1>5. PICK i \in Nat : i = Top.index /\ i = Top.count
  BY <1>4, NextNow
<1>6. PICK d \in DOMAIN graph : d = Top.dict /\ graph[d].kind = "dict"
  BY <1>4, IteratorPlaced
<1>7. /\ u \in Frames /\ u.type = "object" /\ u.dict = d /\ u.index = i /\ u.count = i
      /\ InOrder(graph, opt, d, u.order)
      /\ Len(u.order) = Len(graph[d].keys) /\ Len(u.order) \in Nat /\ i < Len(u.order)
      /\ (opt.sortKeys => u.newObj = KeyList /\ u.size = Len(u.order))
  BY <1>1, <1>4, <1>5, <1>6, IteratorPlaced
<1>8. PICK key : key = u.order[i + 1]
  OBVIOUS
<1>9. /\ stack' = SetTop(f) /\ pc' = "encode" /\ cur' = Lookup(d, key) /\ name' = key
      /\ pyErr' = "none" /\ errorMsg' = "none"
      /\ out' = IF i > 0 THEN Append(out, ",") ELSE out
      /\ key # "raising"
      /\ f.type = "object" /\ f.dict = d /\ f.index = i + 1 /\ f.count = i
      /\ f.order = u.order /\ f.newObj = u.newObj /\ f.size = u.size
  <2>1. /\ f.type = "object" /\ f.dict = d /\ f.index = i + 1 /\ f.count = i
        /\ f.order = u.order /\ f.newObj = u.newObj /\ f.size = u.size
    BY <1>2, <1>7 DEF Frames
  <2>2. EncodeElement(f, Lookup(d, key), key) /\ key # "raising"
    BY <1>1, <1>2, <1>7, <1>8
  <2>3. QED
    BY <2>1, <2>2, GoingFacts DEF EncodeElement, Going
<1>10. graph \in Graphs /\ t \in [DOMAIN graph -> Seq(Alphabet)] /\ out \in Seq(Alphabet)
  BY <1>3, GoingFacts
<1>11. PICK e : e = NameText(key) \o t[Lookup(d, key)]
  OBVIOUS
<1>12. PICK rest : rest = DictRest(graph, opt, d, t, Len(graph[d].keys) - (i + 1))
  OBVIOUS
<1>13. KeyParts(d, i, key, t)
  BY <1>1, <1>3, <1>4, <1>5, <1>6, <1>8, KeyDue
<1>14. /\ Comma(i) \in Seq(Alphabet) /\ e \in Seq(Alphabet) /\ rest \in Seq(Alphabet)
       /\ Parts(FrameRest(graph, opt, Top, t), Comma(i), e, rest)
  BY <1>11, <1>12, <1>13, Zenon DEF KeyParts
<1>15. FrameRest(graph, opt, f, t) = rest
  <2>1. "object" # "array"
    OBVIOUS
  <2>2. QED
    BY <1>9, <1>12, <2>1, Zenon DEF FrameRest
<1>16. Placed(graph, opt, f) /\ f.index = f.count + 1
  <2>1. ~opt.sortKeys => u.order = graph[d].keys
    BY <1>7 DEF InOrder
  <2>2. i + 1 <= Len(u.order)
    BY <1>7
  <2>3. QED
    BY <1>7, <1>9, <2>1, <2>2 DEF Placed
<1>17. out' = out \o Comma(i)
  BY <1>9, <1>10, CommaWritten, Zenon
<1>18. e = NameText(name') \o t[cur'] /\ name' # "raising"
  BY <1>9, <1>11
<1>19. QED
  BY <1>3, <1>4, <1>9, <1>14, <1>15, <1>16, <1>17, <1>18, ElementFollows, Zenon

\* A container ends with its bracket.
LEMMA CloseContainerFollows ==
  ASSUME Going, CloseContainer
  PROVE  Follows'
<1>1. /\ pc = "next" /\ Exhausted /\ stack' = Pop /\ pc' = "return" /\ pyErr' = "none"
      /\ errorMsg' = "none" /\ out' = Append(out, IF Top.type = "array" THEN "]" ELSE "}")
  BY GoingFacts DEF CloseContainer, Return, Going
<1>2. PICK t : t = TextsIn(graph, opt, Len(stack))
  OBVIOUS
<1>3. PICK bracket : bracket = IF Top.type = "array" THEN "]" ELSE "}"
  OBVIOUS
<1>4. /\ graph \in Graphs /\ t \in [DOMAIN graph -> Seq(Alphabet)] /\ out \in Seq(Alphabet)
      /\ bracket \in Alphabet
  BY <1>2, <1>3, GoingFacts DEF Alphabet, Tokens
<1>5. FrameRest(graph, opt, Top, t) = <<bracket>>
  <2>1. CASE Top.type = "array"
    <3>1. /\ IsContext(Top, graph) /\ Object \in DOMAIN graph /\ Object = Encoded(Top)
          /\ Top.index = Top.size
      BY <1>1, <2>1, NextNow, ObjectFacts DEF Going, Exhausted
    <3>2. PICK elements \in Seq(Elements(graph)) : elements = ListElements(graph, Object)
      BY <1>4, <3>1, ListElementsFacts
    <3>3. Rest(elements, t, "]")[0] = <<"]">>
      BY <1>3, <1>4, <2>1, RestFacts, Zenon
    <3>4. Len(graph[Encoded(Top)].items) - Top.index = 0
      <4>1. Top.size = Len(graph[Encoded(Top)].items) /\ Len(graph[Encoded(Top)].items) \in Nat
        BY <1>4, <2>1, <3>1, ListElementsFacts DEF IsContext
      <4>2. QED
        BY <3>1, <4>1
    <3>5. QED
      BY <1>3, <2>1, <3>1, <3>2, <3>3, <3>4 DEF FrameRest, ListRest
  <2>2. CASE Top.type # "array"
    <3>1. CanIterate /\ InDictionary /\ \E f \in Iterators : ~HasKey(f)
      BY <1>1, <2>2, NextNow DEF Exhausted, InDictionary
    <3>2. PICK f \in Iterators : ~HasKey(f)
      BY <3>1
    <3>3. PICK d \in DOMAIN graph : d = Top.dict /\ graph[d].kind = "dict"
      BY <3>1, IteratorPlaced
    <3>4. /\ InOrder(graph, opt, d, f.order) /\ Len(f.order) = Len(graph[d].keys)
          /\ Len(f.order) \in Nat /\ f.index = Top.index /\ f.index <= Len(f.order)
          /\ ~(f.index < Len(f.order))
      BY <3>1, <3>2, <3>3, IteratorPlaced
    <3>5. PICK elements \in Seq(Elements(graph)) : elements = DictElements(graph, opt, d)
      BY <1>4, <3>3, <3>4, DictElementsFacts
    <3>6. Rest(elements, t, "}")[0] = <<"}">>
      BY <1>3, <1>4, <2>2, RestFacts, Zenon
    <3>7. Len(graph[d].keys) - Top.index = 0
      <4>1. f.index \in Nat
        BY <1>1, <3>4, NextNow
      <4>2. QED
        BY <3>4, <4>1
    <3>8. opt.sortKeys => Sortable(graph[d].keys)
      BY <3>4 DEF InOrder
    <3>9. QED
      BY <1>3, <2>2, <3>3, <3>5, <3>6, <3>7, <3>8 DEF FrameRest, DictRest
  <2>3. QED
    BY <2>1, <2>2
<1>6. /\ stack # <<>> /\ Top = stack[Len(stack)]
      /\ Tracked(graph, opt, stack, Len(stack), out, <<>>)
  BY <1>1, NextNow
<1>7. /\ Len(stack') = Len(stack) - 1 /\ Len(stack) \in Nat \ {0}
      /\ SameFrames(stack, stack', Len(stack) - 1)
      /\ \A i \in 1 .. Len(stack') : Placed(graph, opt, stack'[i])
  BY <1>1, <1>6, OuterFrames
<1>8. PICK n \in Nat \ {0} : n = Len(stack)
  BY <1>7
<1>9. Counted'
  <2>1. ASSUME NEW i \in 1 .. Len(stack')
        PROVE  stack'[i].index = stack'[i].count + 1
    <3>1. i \in 1 .. Len(stack) /\ i # Len(stack) /\ stack'[i] = stack[i]
      BY <1>7 DEF SameFrames
    <3>2. QED
      BY <3>1, CountedBelow
  <2>2. QED
    BY <1>1, <2>1 DEF Counted
<1>10. <<bracket>> \in Seq(Alphabet) /\ out \o <<bracket>> = out'
  BY <1>1, <1>3, <1>4, Singleton, AppendIsConcat
<1>11. Tracked(graph, opt, stack, n - 1, out', <<>>)
  <2>1. FrameRest(graph, opt, stack[n], TextsIn(graph, opt, n)) = <<bracket>>
    BY <1>2, <1>5, <1>6, <1>8
  <2>2. Tracked(graph, opt, stack, n, out, <<>>)
    BY <1>6, <1>8
  <2>3. Tracked(graph, opt, stack, n - 1, out \o <<bracket>>, <<>>)
    BY <1>4, <1>10, <2>1, <2>2, TrackClose, Zenon
  <2>4. QED
    BY <1>10, <2>3
<1>12. Tracked(graph, opt, stack', n - 1, out', <<>>)
  BY <1>7, <1>8, <1>11, TrackStays, Zenon
<1>13. Depth' = n - 1 /\ Now' = <<>>
  BY <1>1, <1>7, <1>8 DEF Depth, Now
<1>14. QED
  BY <1>1, <1>7, <1>9, <1>12, <1>13, TrackOn DEF Going, Encoding

\* An order has all the keys.
LEMMA OrderLength ==
  ASSUME NEW g \in Graphs, NEW o, NEW d \in DOMAIN g, g[d].kind = "dict",
         NEW order, InOrder(g, o, d, order)
  PROVE  Len(order) = Len(g[d].keys)
BY DictElementsFacts, ZenonT(60)

\* What is due of a container is a sequence of tokens.
LEMMA FrameRestType ==
  ASSUME NEW g \in Graphs, NEW o, NEW t \in [DOMAIN g -> Seq(Alphabet)], NEW f \in Frames,
         IsContext(f, g), f.type # "unknown", Placed(g, o, f)
  PROVE  FrameRest(g, o, f, t) \in Seq(Alphabet)
<1>1. CASE f.type = "array"
  <2>1. PICK n \in DOMAIN g : n = Encoded(f)
    BY DEF IsContext, Encoded, KeyList
  <2>2. f.size = Len(g[n].items) /\ f.index <= f.size /\ f.index \in Nat /\ Len(g[n].items) \in Nat
    BY <1>1, <2>1, ListElementsFacts DEF IsContext, Placed, Frames
  <2>3. PICK j : j = Len(g[n].items) - f.index
    OBVIOUS
  <2>4. j \in 0 .. Len(g[n].items)
    BY <2>2, <2>3
  <2>5. ListRest(g, n, t, j) \in Seq(Alphabet)
    BY <2>4, ContainerTextType, Zenon
  <2>6. QED
    BY <1>1, <2>1, <2>3, <2>5 DEF FrameRest
<1>2. CASE f.type = "object"
  <2>1. PICK d \in DOMAIN g : d = f.dict /\ g[d].kind = "dict"
    BY <1>2 DEF IsContext
  <2>2. Len(g[d].keys) \in Nat /\ Len(f.order) = Len(g[d].keys)
    <3>1. Len(g[d].keys) \in Nat
      BY LenProperties, EncoderAssumption DEF IsGraph
    <3>2. CASE f.order = g[d].keys
      BY <3>1, <3>2
    <3>3. CASE InOrder(g, o, d, f.order)
      <4>1. PICK order : order = f.order
        OBVIOUS
      <4>2. InOrder(g, o, d, order)
        BY <3>3, <4>1
      <4>3. Len(order) = Len(g[d].keys)
        BY <2>1, <4>2, OrderLength, Zenon
      <4>4. QED
        BY <3>1, <4>1, <4>3
    <3>4. QED
      BY <1>2, <2>1, <3>2, <3>3 DEF Placed
  <2>3. f.index <= Len(f.order) /\ f.index \in Nat
    BY <1>2 DEF Placed, Frames
  <2>4. PICK j : j = Len(g[d].keys) - f.index
    OBVIOUS
  <2>5. j \in 0 .. Len(g[d].keys)
    BY <2>2, <2>3, <2>4
  <2>6. DictRest(g, o, d, t, j) \in Seq(Alphabet)
    BY <2>1, <2>5, ContainerTextType, Zenon
  <2>7. QED
    BY <1>2, <2>1, <2>4, <2>6 DEF FrameRest
<1>3. QED
  BY <1>1, <1>2 DEF Frames

\* The loop counts the element that was written.
LEMMA ElementDoneFollows ==
  ASSUME Going, ElementDone
  PROVE  Follows'
<1>1. /\ pc = "return" /\ stack # <<>> /\ pc' = "next" /\ pyErr' = "none" /\ errorMsg' = "none"
      /\ out' = out
  BY GoingFacts DEF ElementDone, Going
<1>2. PICK f : f = [Top EXCEPT !.count = @ + 1]
  OBVIOUS
<1>3. PICK n \in Nat \ {0} : n = Len(stack)
  BY <1>1, GoingFacts, EmptySeq
<1>4. /\ n \in 1 .. Len(stack) /\ Top = stack[n] /\ Top \in Frames /\ Placed(graph, opt, Top)
      /\ Top.index = Top.count + 1
  BY <1>1, <1>3, ObjectFacts, CountedBelow, GoingFacts DEF OnTrack, Top, Going
<1>5. /\ f.type = Top.type /\ f.index = Top.index /\ f.count = Top.count + 1 /\ f.dict = Top.dict
      /\ f.obj = Top.obj /\ f.newObj = Top.newObj /\ f.size = Top.size /\ f.order = Top.order
      /\ f.chain = Top.chain
  BY <1>2, <1>4 DEF Frames
<1>6. Placed(graph, opt, f)
  <2>1. Encoded(f) = Encoded(Top)
    BY <1>5, Zenon DEF Encoded
  <2>2. QED
    BY <1>4, <1>5, <2>1, Zenon DEF Placed
<1>7. stack' = SetTop(f)
  BY <1>2 DEF ElementDone
<1>8. /\ Len(stack') = Len(stack) /\ stack'[Len(stack)] = f
      /\ SameFrames(stack, stack', Len(stack) - 1)
      /\ \A i \in 1 .. Len(stack') : Placed(graph, opt, stack'[i])
  BY <1>1, <1>6, <1>7, TopFrame
<1>9. Counted'
  <2>1. f.index = f.count + 0
    BY <1>4, <1>5 DEF Frames
  <2>2. QED
    BY <1>1, <1>6, <1>7, <2>1, TopCounted
<1>10. Tracked(graph, opt, stack, n, out, <<>>)
  BY <1>1, <1>3, GoingFacts DEF OnTrack, Depth, Now
<1>11. PICK rest : rest = FrameRest(graph, opt, f, TextsIn(graph, opt, n))
  OBVIOUS
<1>12. FrameRest(graph, opt, stack[n], TextsIn(graph, opt, n)) = rest
  BY <1>4, <1>5, <1>11, Zenon DEF FrameRest, Encoded
<1>13. rest \in Seq(Alphabet)
  <2>1. Top.type # "unknown"
    BY <1>1, <1>4 DEF Going, Inv, Classified
  <2>2. IsContext(Top, graph) /\ graph \in Graphs
    BY <1>1, ObjectFacts, GoingFacts DEF Going
  <2>3. TextsIn(graph, opt, n) \in [DOMAIN graph -> Seq(Alphabet)]
    BY <1>3, GoingFacts
  <2>4. QED
    BY <1>4, <1>12, <2>1, <2>2, <2>3, FrameRestType
<1>14. <<>> \in Seq(Alphabet) /\ <<>> \o rest = rest /\ out \in Seq(Alphabet)
  BY <1>13, EmptySeq, ConcatEmptySeq, GoingFacts
<1>15. Tracked(graph, opt, stack', n, out', <<>>)
  <2>1. FrameRest(graph, opt, stack[n], TextsIn(graph, opt, n)) = <<>> \o rest
    BY <1>12, <1>14
  <2>2. FrameRest(graph, opt, stack'[n], TextsIn(graph, opt, n)) = rest
    BY <1>3, <1>8, <1>11
  <2>3. SameFrames(stack, stack', n - 1)
    BY <1>3, <1>8
  <2>4. Tracked(graph, opt, stack', n, out, <<>>)
    BY <1>10, <1>13, <1>14, <2>1, <2>2, <2>3, TrackElement, Zenon
  <2>5. QED
    BY <1>1, <2>4
<1>16. Depth' = n /\ Now' = <<>>
  BY <1>1, <1>3, <1>8 DEF Depth, Now
<1>17. QED
  BY <1>1, <1>8, <1>9, <1>15, <1>16, TrackOn DEF Going, Encoding

\* The containers around an error are left without a text.
LEMMA ElementFailedFollows ==
  ASSUME Inv, Follows, Kept, ElementFailed, raised = {}, ~DefaultMadeDict
  PROVE  Follows'
<1>1. pyErr = "none" /\ ~HasText
  BY DEF ElementFailed, Follows
<1>2. pc' = "return" /\ errorMsg' # "none" /\ pyErr' = "none"
  BY <1>1 DEF ElementFailed, Return
<1>3. QED
  BY <1>1, <1>2, Stops DEF Encoding

\* Before encode() is called all of the text is due.
LEMMA StartEncodingFollows ==
  ASSUME Inv, Follows, Kept, StartEncoding, raised = {}, ~DefaultMadeDict
  PROVE  Follows'
<1>1. /\ pc' = "encode" /\ stack' = <<>> /\ out' = <<>> /\ cur' = 1 /\ name' = "NULL"
      /\ pyErr' = "none" /\ errorMsg' = "none" /\ graph \in Graphs
  BY DEF StartEncoding, encVars, Follows, Inv, Named, GoesOn, Typed, ControlTypes
<1>2. PICK a : a = Texts(graph, opt)[RecursionMax + 1][1]
  OBVIOUS
<1>3. a \in Seq(Alphabet)
  <2>1. RecursionMax + 1 \in 0 .. RecursionMax + 1 /\ 1 \in DOMAIN graph
    BY <1>1, EncoderAssumption DEF IsGraph
  <2>2. Texts(graph, opt)[RecursionMax + 1] \in [DOMAIN graph -> Seq(Alphabet)]
    BY <1>1, <2>1, TextsFacts
  <2>3. QED
    BY <1>2, <2>1, <2>2
<1>4. Len(<<>>) = 0 /\ 1 .. 0 = {}
  OBVIOUS
<1>5. Depth' = 0 /\ Now' = a
  <2>1. RecursionMax + 1 - 0 = RecursionMax + 1
    BY EncoderAssumption
  <2>2. <<>> \o a = a
    BY <1>3, ConcatEmptySeq
  <2>3. Now' = <<>> \o a
    BY <1>1, <1>2, <1>4, <2>1 DEF Now, NameText, TextsIn, Kept
  <2>4. Depth' = 0
    BY <1>1, <1>4 DEF Depth
  <2>5. QED
    BY <2>2, <2>3, <2>4
<1>6. Tracked(graph, opt, stack', Depth', out', Now')
  <2>1. Due(graph, opt, stack', 0, <<>>)
    BY DueNothing, Zenon
  <2>2. <<>> \in Seq(Alphabet) /\ a = <<>> \o (a \o <<>>)
    BY <1>3, EmptySeq, ConcatEmptySeq
  <2>3. QED
    BY <1>1, <1>2, <1>5, <2>1, <2>2, Zenon DEF Tracked
<1>7. Counted' /\ \A i \in 1 .. Len(stack') : Placed(graph, opt, stack'[i])
  BY <1>1, <1>4 DEF Counted
<1>8. QED
  BY <1>1, <1>6, <1>7, TrackOn DEF Encoding

\* When encode() has returned nothing is due.
LEMMA ReturnToPythonFollows ==
  ASSUME Inv, Follows, Kept, ReturnToPython, raised = {}, ~DefaultMadeDict
  PROVE  Follows'
<1>1. /\ pc = "return" /\ stack = <<>> /\ pc' = "done" /\ out' = out /\ errorMsg' = errorMsg
      /\ pyErr = "none" /\ raised' = raised
  BY DEF ReturnToPython, encVars, Follows
<1>2. HasText' = HasText /\ Expected' = Expected
  BY DEF Kept, HasText, Expected
<1>3. CASE errorMsg # "none"
  <2>1. ~HasText /\ result' = "NULL"
    BY <1>1, <1>3 DEF Follows, ReturnToPython
  <2>2. QED
    BY <1>1, <1>2, <2>1 DEF Follows
<1>4. CASE errorMsg = "none"
  <2>1. Going
    BY <1>1, <1>4 DEF Going, Encoding
  <2>2. out \in Seq(Alphabet) /\ out \in Seq(Tokens)
    BY <2>1, GoingFacts DEF Inv, Typed, ControlTypes
  <2>3. Expected = out
    <3>1. Tracked(graph, opt, stack, 0, out, <<>>)
      <4>1. Depth = 0 /\ Now = <<>>
        BY <1>1 DEF Depth, Now
      <4>2. QED
        BY <2>1, <4>1, GoingFacts DEF OnTrack
    <3>2. PICK rest \in Seq(Alphabet) :
            Due(graph, opt, stack, 0, rest) /\ Expected = out \o (<<>> \o rest)
      BY <3>1, Zenon DEF Tracked, Expected
    <3>3. rest = <<>>
      BY <3>2, DueNothing, Zenon
    <3>4. out \o (<<>> \o <<>>) = out
      BY <2>2, ConcatEmptySeq, EmptySeq
    <3>5. QED
      BY <3>2, <3>3, <3>4
  <2>4. \A i \in DOMAIN out : out[i] # "error"
    <3>1. "error" \notin Tokens
      BY DEF Tokens, Kinds, Keys, Rank
    <3>2. \A i \in DOMAIN out : out[i] \in Tokens
      BY <2>2, LenProperties, ElementOfSeq
    <3>3. QED
      BY <3>1, <3>2
  <2>5. HasText <=> ~\E i \in DOMAIN out : out[i] \in {"badKey", "badBytes"}
    BY <2>3, <2>4 DEF HasText
  <2>6. IF HasText THEN result' = "str" ELSE result' = "NULL"
    BY <1>1, <1>4, <2>5 DEF ReturnToPython
  <2>7. QED
    BY <1>1, <1>2, <1>4, <2>3, <2>6 DEF Follows
<1>5. QED
  BY <1>3, <1>4

\* The text is followed from the first step to the last.
LEMMA FollowsInit == Init => Follows
BY DEF Init, Follows

\* dumps changes neither the objects nor its arguments.
LEMMA KeepsArguments == Next => Kept
BY DEF Next, Enter, Classify, Iterate, RejectArguments, StartEncoding, TooDeep, BadName,
   BeginTypeContext, Begin, EncodeScalar, EncodeMinusOne, EncodeBigInteger, EncodeNan,
   EncodeBadFloat, EncodeString, BeginList, BeginDict, BeginToDict, BeginRawJSON, CallDefault,
   RejectObject, NextItem, NextKey, EncodeElement, SortFails, KeyFails, IteratorFails,
   CloseContainer, ElementDone, ElementFailed, ReturnToPython, Kept

\* Every step keeps to the text.
LEMMA FollowsStep == Inv /\ Inv' /\ Follows /\ [Next]_vars => Follows'
<1> SUFFICES ASSUME Inv, Inv', Follows, [Next]_vars PROVE Follows'
  OBVIOUS
<1> SUFFICES ASSUME raised' = {}, ~DefaultMadeDict' PROVE Follows'
  BY DEF Follows
<1>1. CASE UNCHANGED vars
  BY <1>1 DEF vars, encVars, Follows, OnTrack, Counted, Depth, Now, Top, Object, HasText, Expected,
     DefaultMadeDict
<1>2. CASE Next
  <2>1. Kept
    BY <1>2, KeepsArguments
  <2>2. raised = {}
    BY <1>2, Remembers
  <2>3. ~DefaultMadeDict
    BY <2>1 DEF Kept, DefaultMadeDict
  <2>4. Encoding /\ errorMsg = "none" => Going
    BY <2>1, <2>2, <2>3 DEF Going
  <2>5. CASE Enter
    <3>1. Going
      BY <2>4, <2>5 DEF Enter, TooDeep, BadName, BeginTypeContext, Encoding, Inv, GoesOn
    <3>2. QED
      BY <2>5, <3>1, TooDeepFollows, BadNameFollows, BeginTypeContextFollows DEF Enter
  <2>6. CASE Classify
    <3>1. pc = "begin"
      BY <2>6 DEF Classify, Begin, EncodeScalar, EncodeMinusOne, EncodeBigInteger, EncodeNan,
         EncodeBadFloat, EncodeString, BeginList, BeginDict, BeginToDict, BeginRawJSON,
         CallDefault, RejectObject
    <3>2. Going
      BY <2>4, <3>1 DEF Encoding, Inv, GoesOn
    <3>3. QED
      BY <2>6, <3>2, ScalarsFollow, BeginListFollows, DictsFollow, CallDefaultFollows DEF Classify
  <2>7. CASE Iterate
    <3>1. CASE NextItem \/ NextKey \/ CloseContainer \/ ElementDone
      <4>1. Going
        BY <2>4, <3>1 DEF NextItem, NextKey, InDictionary, CloseContainer, ElementDone, Encoding,
           Inv, GoesOn
      <4>2. QED
        BY <3>1, <4>1, NextItemFollows, NextKeyFollows, CloseContainerFollows, ElementDoneFollows
    <3>2. CASE SortFails \/ KeyFails
      BY <3>2 DEF SortFails, KeyFails, RaiseSilently
    <3>3. CASE ElementFailed
      BY <2>1, <2>2, <2>3, <3>3, ElementFailedFollows
    <3>4. QED
      BY <2>7, <3>1, <3>2, <3>3 DEF Iterate
  <2>8. CASE RejectArguments
    BY <2>8 DEF RejectArguments, Raise
  <2>9. CASE StartEncoding
    BY <2>1, <2>2, <2>3, <2>9, StartEncodingFollows
  <2>10. CASE ReturnToPython
    BY <2>1, <2>2, <2>3, <2>10, ReturnToPythonFollows
  <2>11. QED
    BY <1>2, <2>5, <2>6, <2>7, <2>8, <2>9, <2>10 DEF Next
<1>3. QED
  BY <1>1, <1>2

-----------------------------------------------------------------------------
(* What raises has no text. *)

\* Of an exception that no allocation raised, in a call with arguments that are
\* accepted, the text says so.
Refuses ==
  raised # {} /\ "MemoryError" \notin raised /\ opt.valid /\ ~DefaultMadeDict => ~HasText

\* An object that default= or beginTypeContext makes nothing of has no text.
LEMMA ClassifyRefuses ==
  ASSUME Going, Classify, raised' # {}, "MemoryError" \notin raised'
  PROVE  ~HasText
<1>1. pc = "begin"
  BY DEF Classify, Begin, EncodeScalar, EncodeMinusOne, EncodeBigInteger, EncodeNan,
     EncodeBadFloat, EncodeString, BeginList, BeginDict, BeginToDict, BeginRawJSON,
     CallDefault, RejectObject
<1>2. "error" \in Bad
  BY DEF Bad
<1>3. SUFFICES Now = <<"error">>
  BY <1>1, <1>2, NoText, Zenon
<1>4. raised = {}
  BY DEF Going
<1>5. CASE EncodeScalar \/ EncodeMinusOne \/ EncodeNan \/ BeginList \/ BeginDict \/ CallDefault
  BY <1>4, <1>5
  DEF EncodeScalar, EncodeMinusOne, EncodeNan, BeginList, BeginDict, CallDefault
<1>6. CASE EncodeBigInteger
  BY <1>4, <1>6 DEF EncodeBigInteger, Raise
<1>7. CASE EncodeBadFloat
  <2>1. Kind = "badFloat"
    BY <1>7 DEF EncodeBadFloat, Begin
  <2>2. QED
    BY <1>1, <2>1, FailingNow
<1>8. CASE EncodeString
  <2>1. Kind \in {"bytes", "badBytes"} /\ opt.rejectBytes
    BY <1>4, <1>8 DEF EncodeString, Begin, Raise
  <2>2. QED
    BY <1>1, <2>1, ScalarNow
<1>9. CASE BeginToDict
  <2>1. Kind = "toDict" /\ ~(Items # <<>> /\ graph[Items[1]].kind = "dict")
    BY <1>4, <1>9 DEF BeginToDict, Begin
  <2>2. QED
    BY <1>1, <2>1, FailingNow
<1>10. CASE BeginRawJSON
  <2>1. Kind = "json" /\ ~(Items # <<>> /\ graph[Items[1]].kind \in {"str", "bytes", "badBytes"})
    BY <1>4, <1>10 DEF BeginRawJSON, Begin, Raise
  <2>2. JSONText(graph, Object) = <<"error">>
    BY <2>1 DEF JSONText, Items
  <2>3. QED
    BY <1>1, <2>1, <2>2, ScalarNow
<1>11. CASE RejectObject
  <2>1. Kind = "object" /\ (~opt.default \/ ~(Top.chain < DefaultMax) \/ Items = <<>>)
    BY <1>11 DEF RejectObject, Begin
  <2>2. PICK k : k = DefaultMax - Top.chain
    OBVIOUS
  <2>3. k \in 0 .. DefaultMax /\ (~(Top.chain < DefaultMax) => k = 0)
    BY <1>1, <2>2, BeginNow, EncoderAssumption
  <2>4. Made(graph, opt)[k][Object] = 0
    <3>1. /\ graph[Object].kind = "object" /\ graph[Object].items = Items
          /\ Object \in DOMAIN graph /\ graph \in Graphs
      BY <1>1, <2>1, BeginNow, GoingFacts DEF Kind, Items
    <3>2. ~opt.default \/ k = 0 \/ Items = <<>>
      BY <2>1, <2>3
    <3>3. QED
      BY <2>3, <3>1, <3>2, MadeFacts
  <2>5. Now = ObjectText(graph, opt, 0, TextsIn(graph, opt, Len(stack)))
    BY <1>1, <2>2, <2>4, BeginNow
  <2>6. QED
    BY <2>5 DEF ObjectText
<1>12. QED
  BY <1>5, <1>6, <1>7, <1>8, <1>9, <1>10, <1>11 DEF Classify

\* A container with an element that has no text has none.
LEMMA BadElement ==
  ASSUME NEW s, NEW n \in Nat \ {0}, NEW w \in Seq(Alphabet),
         Tracked(graph, opt, s, n, w, <<>>),
         NEW comma \in Seq(Alphabet), NEW e \in Seq(Alphabet), NEW rest \in Seq(Alphabet),
         Parts(FrameRest(graph, opt, s[n], TextsIn(graph, opt, n)), comma, e, rest),
         NEW i \in 1 .. Len(e), e[i] \in Bad
  PROVE  ~HasText
<1>1. PICK due \in Seq(Alphabet) :
        Due(graph, opt, s, n, due) /\ Expected = w \o (<<>> \o due)
  BY Zenon DEF Tracked, Expected
<1>2. PICK outer \in Seq(Alphabet) : due = ((comma \o e) \o rest) \o outer
  <2>1. \E outer \in Seq(Alphabet) : OuterDue(graph, opt, s, n, due, outer)
    BY <1>1, DuePop, Zenon
  <2>2. QED
    BY <2>1, Zenon DEF OuterDue, Parts
<1>3. comma \o e \in Seq(Alphabet) /\ rest \o outer \in Seq(Alphabet)
      /\ w \o comma \in Seq(Alphabet)
  BY ConcatProperties
<1>4. <<>> \o due = due
  BY <1>1, ConcatEmptySeq
<1>5. Together(comma \o e, rest, outer) /\ Moves(w, comma, e, rest \o outer)
  BY <1>3, Associates, MoveOn, Zenon
<1>6. Expected = (w \o comma) \o (e \o (rest \o outer))
  BY <1>1, <1>2, <1>4, <1>5, Zenon DEF Together, Moves
<1>7. QED
  BY <1>3, <1>6, BadWithin, Zenon

\* So has a dictionary with keys that do not sort, or cannot be made strings.
LEMMA IterateRefuses ==
  ASSUME Going, SortFails \/ KeyFails, "MemoryError" \notin raised'
  PROVE  ~HasText
<1>1. pc = "next" /\ InDictionary /\ Top.type = "object"
  BY DEF SortFails, KeyFails, IteratorFails, InDictionary
<1>2. PICK n \in Nat \ {0} : n = Len(stack)
  BY <1>1, NextNow
<1>3. PICK t : t = TextsIn(graph, opt, n)
  OBVIOUS
<1>4. /\ Top = stack[n] /\ Tracked(graph, opt, stack, n, out, <<>>)
      /\ out \in Seq(Alphabet) /\ graph \in Graphs /\ t \in [DOMAIN graph -> Seq(Alphabet)]
      /\ Placed(graph, opt, Top)
  BY <1>1, <1>2, <1>3, NextNow, GoingFacts
<1>5. <<"error">> \in Seq(Alphabet) /\ <<"error">>[1] \in Bad /\ 1 \in 1 .. Len(<<"error">>)
  <2>1. "error" \in Alphabet
    BY DEF Alphabet
  <2>2. QED
    BY <2>1, Singleton DEF Bad
<1>6. CASE SortFails
  <2>1. opt.sortKeys /\ Top.newObj = 0 /\ ~Sortable(Top.order)
    BY <1>6 DEF SortFails, CanIterate, SortNow
  <2>2. Top.order = graph[Top.dict].keys
    BY <1>1, <1>4, <2>1 DEF Placed, KeyList
  <2>3. FrameRest(graph, opt, Top, t) = <<"error">>
    BY <1>1, <2>1, <2>2 DEF FrameRest, DictRest
  <2>4. <<>> \in Seq(Alphabet) /\ Parts(<<"error">>, <<>>, <<"error">>, <<>>)
    <3>1. <<>> \in Seq(Alphabet) /\ <<>> \o <<"error">> = <<"error">>
          /\ <<"error">> \o <<>> = <<"error">>
      BY <1>5, EmptySeq, ConcatEmptySeq
    <3>2. QED
      BY <3>1, Zenon DEF Parts
  <2>5. QED
    BY <1>3, <1>4, <1>5, <2>3, <2>4, BadElement, Zenon
<1>7. CASE KeyFails
  <2>1. PICK u \in Iterators : CanIterate /\ HasKey(u) /\ u.order[u.index + 1] = "raising"
    BY <1>7 DEF KeyFails, RaiseSilently
  <2>2. PICK i, d : i = Top.index /\ d = Top.dict
    OBVIOUS
  <2>3. KeyParts(d, i, "raising", t)
    <3>1. u.index = i
      BY <1>1, <2>1, <2>2, IteratorPlaced
    <3>2. QED
      BY <1>1, <1>2, <1>3, <2>1, <2>2, <3>1, KeyDue
  <2>4. PICK v \in Seq(Alphabet) : v = t[Lookup(d, "raising")]
    BY <1>4, <2>3 DEF KeyParts
  <2>5. PICK rest \in Seq(Alphabet), e \in Seq(Alphabet) :
          /\ e = NameText("raising") \o v /\ Comma(i) \in Seq(Alphabet)
          /\ Parts(FrameRest(graph, opt, Top, t), Comma(i), e, rest)
    BY <2>3, <2>4, Zenon DEF KeyParts
  <2>6. 1 \in 1 .. Len(e) /\ e[1] \in Bad
    <3>1. e = <<"error">> \o v
      BY <2>5 DEF NameText
    <3>2. /\ Len(<<"error">> \o v) = Len(<<"error">>) + Len(v)
          /\ \A k \in 1 .. Len(<<"error">>) + Len(v) :
               (<<"error">> \o v)[k] = IF k <= Len(<<"error">>) THEN <<"error">>[k]
                                       ELSE v[k - Len(<<"error">>)]
      BY <1>5, ConcatProperties
    <3>3. Len(<<"error">>) = 1 /\ Len(v) \in Nat
      BY LenProperties
    <3>4. QED
      BY <1>5, <3>1, <3>2, <3>3
  <2>7. QED
    BY <1>3, <1>4, <2>5, <2>6, BadElement, Zenon
<1>8. QED
  BY <1>6, <1>7

\* Every step that raises does so on an object that has no text.
LEMMA RefusesStep == Inv /\ Inv' /\ Follows /\ Refuses /\ [Next]_vars => Refuses'
<1> SUFFICES ASSUME Inv, Follows, Refuses, [Next]_vars,
                    raised' # {}, "MemoryError" \notin raised', opt'.valid, ~DefaultMadeDict'
             PROVE  ~HasText'
  BY DEF Refuses
<1>1. CASE UNCHANGED vars
  BY <1>1 DEF vars, encVars, Refuses, HasText, Expected, DefaultMadeDict
<1>2. CASE Next
  <2>1. Kept
    BY <1>2, KeepsArguments
  <2>2. /\ opt.valid /\ ~DefaultMadeDict /\ "MemoryError" \notin raised
        /\ HasText' = HasText
    BY <1>2, <2>1, Remembers DEF Kept, DefaultMadeDict, HasText, Expected
  <2>3. CASE raised # {}
    BY <2>2, <2>3 DEF Refuses
  <2>4. CASE raised = {}
    <3>1. Encoding /\ errorMsg = "none" => Going
      BY <2>1, <2>2, <2>4 DEF Going
    <3>2. CASE Enter
      BY <2>4, <3>2 DEF Enter, TooDeep, BadName, BeginTypeContext, Raise
    <3>3. CASE Classify
      <4>1. pc = "begin"
        BY <3>3 DEF Classify, Begin, EncodeScalar, EncodeMinusOne, EncodeBigInteger, EncodeNan,
           EncodeBadFloat, EncodeString, BeginList, BeginDict, BeginToDict, BeginRawJSON,
           CallDefault, RejectObject
      <4>2. Going
        BY <3>1, <4>1 DEF Encoding, Inv, GoesOn
      <4>3. QED
        BY <2>2, <3>3, <4>2, ClassifyRefuses
    <3>4. CASE Iterate
      <4>1. SortFails \/ KeyFails
        BY <2>4, <3>4 DEF Iterate, NextItem, NextKey, EncodeElement, CloseContainer, ElementDone,
           ElementFailed
      <4>2. Going
        BY <3>1, <4>1 DEF SortFails, KeyFails, IteratorFails, InDictionary, Encoding, Inv, GoesOn
      <4>3. QED
        BY <2>2, <4>1, <4>2, IterateRefuses
    <3>5. CASE RejectArguments \/ StartEncoding \/ ReturnToPython
      BY <2>2, <2>4, <3>5 DEF RejectArguments, StartEncoding, ReturnToPython
    <3>6. QED
      BY <1>2, <3>2, <3>3, <3>4, <3>5 DEF Next
  <2>5. QED
    BY <2>3, <2>4
<1>3. QED
  BY <1>1, <1>2

\* dumps returns the text of the object graph, however the objects are nested, and
\* raises when there is none: the reference is met at the end because it is met,
\* with what is due of the open containers, at every step.
THEOREM EncodesReferenceCorrect == Spec => []EncodesReference
<1>1. Inv /\ Follows /\ Refuses => EncodesReference
  <2> SUFFICES ASSUME Inv, Follows, Refuses, pc = "done", opt.valid, "MemoryError" \notin raised,
                      ~DefaultMadeDict
               PROVE  IF HasText THEN result = "str" /\ out = Expected
                      ELSE result = "NULL" \/ "silent" \in raised
    BY Zenon DEF EncodesReference
  <2>1. CASE raised = {}
    BY <2>1 DEF Follows
  <2>2. CASE raised # {}
    BY <2>2 DEF Refuses, Inv, Accounted, Outcome
  <2>3. QED
    BY <2>1, <2>2
<1>2. Init => Refuses
  BY DEF Init, Refuses
<1>3. QED
  BY <1>1, <1>2, Invariant, FollowsInit, FollowsStep, RefusesStep, PTL DEF Spec
=============================================================================
