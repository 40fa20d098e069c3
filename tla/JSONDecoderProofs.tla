-------------------------- MODULE JSONDecoderProofs --------------------------
(***************************************************************************)
(* Proofs about JSONDecoder, for every set of documents, every depth limit *)
(* and every choice of failing callbacks, in three parts: the control, the *)
(* references, and the memory with the objects that are built.             *)
(***************************************************************************)
EXTENDS JSONDecoder, SequenceTheorems, TLAPS

(***************************************************************************)
(* Lemmas on the operators the actions are built from.                     *)
(***************************************************************************)

\* The innermost activation is a frame of the stack.
LEMMA TopIsFrame ==
  ASSUME stack \in Seq(Frames), stack # <<>>
  PROVE  /\ Len(stack) \in DOMAIN stack
         /\ DOMAIN stack = 1 .. Len(stack)
         /\ Top \in Frames
BY EmptySeq, LenProperties, ElementOfSeq DEF Top

\* Every activation of the stack is a frame.
LEMMA FramesOfStack ==
  ASSUME stack \in Seq(Frames)
  PROVE  \A i \in DOMAIN stack :
           stack[i] \in Frames /\ stack[i].obj \in Nat \ {0} /\ stack[i].name \in Nat
<1>1. \A i \in DOMAIN stack : stack[i] \in Frames
  BY LenProperties, ElementOfSeq
<1>2. QED
  BY <1>1 DEF Frames

\* Returning from an activation leaves the others as they are.
LEMMA PopStack ==
  ASSUME stack \in Seq(Frames), stack # <<>>
  PROVE  /\ Pop \in Seq(Frames)
         /\ Len(Pop) = Len(stack) - 1
         /\ DOMAIN Pop = 1 .. Len(stack) - 1
         /\ \A i \in 1 .. Len(stack) - 1 : Pop[i] = stack[i]
<1>1. Len(stack) \in Nat \ {0}
  BY EmptySeq
<1>2. \A i \in 1 .. Len(stack) - 1 : stack[i] \in Frames
  BY <1>1, ElementOfSeq
<1>3. ASSUME NEW m \in Nat, m = Len(stack) - 1
      PROVE  /\ SubSeq(stack, 1, m) \in Seq(Frames)
             /\ Len(SubSeq(stack, 1, m)) = m
             /\ \A i \in 1 .. m : SubSeq(stack, 1, m)[i] = stack[i]
  <2>1. /\ SubSeq(stack, 1, m) \in Seq(Frames)
        /\ Len(SubSeq(stack, 1, m)) = IF 1 <= m THEN m - 1 + 1 ELSE 0
        /\ \A i \in 1 .. m - 1 + 1 : SubSeq(stack, 1, m)[i] = stack[1 + i - 1]
    BY <1>2, <1>3, SubSeqProperties
  <2>2. QED
    BY <1>1, <1>3, <2>1
<1>4. /\ Pop \in Seq(Frames)
      /\ Len(Pop) = Len(stack) - 1
      /\ \A i \in 1 .. Len(stack) - 1 : Pop[i] = stack[i]
  BY <1>1, <1>3 DEF Pop
<1>5. QED
  BY <1>1, <1>4, LenProperties

\* Replacing the innermost activation leaves the others as they are.
LEMMA SetTopStack ==
  ASSUME stack \in Seq(Frames), stack # <<>>, NEW f \in Frames
  PROVE  /\ SetTop(f) \in Seq(Frames)
         /\ Len(SetTop(f)) = Len(stack)
         /\ DOMAIN SetTop(f) = 1 .. Len(stack)
         /\ SetTop(f)[Len(stack)] = f
         /\ \A i \in 1 .. Len(stack) - 1 : SetTop(f)[i] = stack[i]
<1>1. Len(stack) \in 1 .. Len(stack)
  BY EmptySeq
<1>2. /\ SetTop(f) \in Seq(Frames)
      /\ Len(SetTop(f)) = Len(stack)
      /\ \A j \in 1 .. Len(stack) : SetTop(f)[j] = IF j = Len(stack) THEN f ELSE stack[j]
  BY <1>1, ExceptSeq DEF SetTop
<1>3. QED
  BY <1>1, <1>2, LenProperties

\* A new object has a new identifier and one reference, and changes no other.
LEMMA NewObjectHeap ==
  ASSUME heap \in Seq(Objects), NEW kind \in Kinds
  PROVE  /\ NewObject(kind) \in Seq(Objects)
         /\ Len(NewObject(kind)) = NewId
         /\ NewId = Len(heap) + 1
         /\ NewId \in Nat \ {0}
         /\ NewObject(kind)[NewId].refs = 1
         /\ \A o \in 1 .. Len(heap) : NewObject(kind)[o] = heap[o]
<1> DEFINE obj == [kind |-> kind, refs |-> 1, kids |-> <<>>]
<1>1. obj \in Objects
  BY EmptySeq DEF Objects
<1>2. QED
  BY <1>1, AppendProperties, LenProperties DEF NewObject, NewId

\* Releasing an object takes one reference from it and none from others.
LEMMA DecrefHeap ==
  ASSUME NEW h \in Seq(Objects), NEW o \in 1 .. Len(h)
  PROVE  /\ Decref(h, o) \in Seq(Objects)
         /\ Len(Decref(h, o)) = Len(h)
         /\ \A p \in 1 .. Len(h) :
              Decref(h, o)[p].refs = IF p = o THEN h[p].refs - 1 ELSE h[p].refs
<1>1. h[o] \in Objects
  BY ElementOfSeq
<1> DEFINE obj == [h[o] EXCEPT !.refs = @ - 1]
<1>2. obj \in Objects /\ obj.refs = h[o].refs - 1
  <2>1. h[o].refs - 1 \in Int
    BY <1>1 DEF Objects
  <2>2. QED
    BY <1>1, <2>1 DEF Objects
<1>3. Decref(h, o) = [h EXCEPT ![o] = obj]
  BY <1>1 DEF Decref, Objects
<1>4. QED
  BY <1>2, <1>3, ExceptSeq

\* Putting objects into a container changes no count of references of the C code.
LEMMA AdoptHeap ==
  ASSUME NEW h \in Seq(Objects), NEW c \in 1 .. Len(h), NEW kids \in Seq(Nat)
  PROVE  /\ Adopt(h, c, kids) \in Seq(Objects)
         /\ Len(Adopt(h, c, kids)) = Len(h)
         /\ \A p \in 1 .. Len(h) : Adopt(h, c, kids)[p].refs = h[p].refs
<1>1. h[c] \in Objects
  BY ElementOfSeq
<1> DEFINE obj == [h[c] EXCEPT !.kids = @ \o kids]
<1>2. h[c].kids \o kids \in Seq(Nat)
  BY <1>1, ConcatProperties DEF Objects
<1>3. obj \in Objects /\ obj.refs = h[c].refs
  BY <1>1, <1>2 DEF Objects
<1>4. Adopt(h, c, kids) = [h EXCEPT ![c] = obj]
  BY <1>1 DEF Adopt, Objects
<1>5. QED
  BY <1>3, <1>4, ExceptSeq

\* A callback returns a new object, or NULL with an exception.
LEMMA MadeObject ==
  ASSUME heap \in Seq(Objects), ret \in Nat, NEW kind \in Kinds, NEW cb, Made(kind, cb)
  PROVE  /\ heap' \in Seq(Objects)
         /\ Len(heap) <= Len(heap')
         /\ ret' \in Nat /\ ret' <= Len(heap')
         /\ pc' = "return"
         /\ pyErr' \in {pyErr, "callback"}
         /\ ret' = 0 => pyErr' = "callback"
         /\ ret' # 0 => pyErr' = pyErr
<1>1. PICK failed \in MayFail(cb) :
        /\ heap' = IF failed THEN heap ELSE NewObject(kind)
        /\ ret' = IF failed THEN 0 ELSE NewId
        /\ pyErr' = IF failed THEN "callback" ELSE pyErr
        /\ pc' = "return"
  BY DEF Made
<1>2. Len(heap) \in Nat
  BY LenProperties
<1>3. QED
  BY <1>1, <1>2, NewObjectHeap

(***************************************************************************)
(* What holds between the control points of the C functions.               *)
(***************************************************************************)

\* The loops run in an activation; JSON_DecodeObject and JSONToObj in none.
Activations ==
  /\ pc \in {"loop", "colon", "sep"} => stack # <<>>
  /\ pc \in {"call", "skip", "tail", "binding", "done"} => stack = <<>>

\* While decoding goes on nothing has been returned and nothing went wrong.
GoingOn == pc \in {"call", "any", "loop", "colon", "sep"} => ret = 0 /\ errorStr = "none"

\* An error message comes with NULL, and before the check of trailing data.
ErrorIsNull == errorStr # "none" => ret = 0 /\ pc \in {"return", "binding", "done"}

\* NULL comes with an error message or with a Python exception.
NullIsError ==
  pc \in {"return", "skip", "tail", "binding"} /\ ret = 0 =>
    errorStr # "none" \/ pyErr # "none"

\* Only decode_object has a key, and only between the key and its value.
Keys ==
  /\ pc \in {"loop", "sep"} => Top.name = 0
  /\ pc = "colon" => Top.name # 0
  /\ \A i \in DOMAIN stack : stack[i].kind = "array" => stack[i].name = 0

\* The C variables point to objects that exist.
Pointers ==
  /\ ret <= Len(heap)
  /\ \A i \in DOMAIN stack : stack[i].obj <= Len(heap) /\ stack[i].name <= Len(heap)

\* The depth counter is right wherever decoding goes on.
Depth ==
  pc \in {"call", "any", "loop", "colon", "sep"} \/ (pc = "return" /\ ret # 0) =>
    objDepth = Len(stack) /\ objDepth <= MaxDepth

\* The inductive invariant.
Control ==
  /\ TypeOK
  /\ Depth
  /\ Activations
  /\ GoingOn
  /\ ErrorIsNull
  /\ NullIsError
  /\ Outcome
  /\ Keys
  /\ Pointers

\* Control holds when loads is called.
LEMMA ControlInit == Init => Control
<1> SUFFICES ASSUME Init PROVE Control
  OBVIOUS
<1>1. Len(memory) \in Nat
  BY DecoderAssumption, LenProperties DEF Init
<1>2. TypeOK
  BY <1>1, DecoderAssumption, EmptySeq DEF Init, TypeOK
<1>3. DOMAIN stack = {} /\ Len(stack) = 0 /\ 0 <= MaxDepth
  BY DecoderAssumption, EmptySeq DEF Init
<1>4. QED
  BY <1>2, <1>3 DEF Init, Depth, Control, Activations, GoingOn, ErrorIsNull, NullIsError,
     Outcome, Keys, Pointers, Depth

(***************************************************************************)
(* The parts actions share preserve it.                                    *)
(***************************************************************************)

\* Entering decode_array or decode_object keeps Control.
LEMMA EnterControl ==
  ASSUME Control, NEW kind \in {"array", "object"}, NEW container \in Kinds,
         pc = "any", Enter(kind, container)
  PROVE  Control'
<1> USE DEF Control, TypeOK, Activations, GoingOn, ErrorIsNull, NullIsError,
            Outcome, Keys, Pointers, Depth
<1>1. CASE Fail("depth") /\ UNCHANGED <<start, stack, lastType, heap>>
  BY <1>1 DEF Enter, Fail
<1>2. CASE objDepth + 1 <= MaxDepth
  <2> DEFINE f == Frame(kind, NewId)
  <2>1. /\ heap' = NewObject(container) /\ stack' = Append(stack, f)
        /\ start' = start + 1 /\ pc' = "loop" /\ ret' = ret /\ errorStr' = errorStr
        /\ lastType' \in {"INVALID", lastType} /\ objDepth' = objDepth + 1
        /\ UNCHANGED <<argKind, memory, end, escLen, held, pyErr>>
    BY <1>2, DecoderAssumption DEF Enter
  <2>2. f \in Frames /\ f.name = 0 /\ f.obj = NewId
    BY NewObjectHeap DEF Frame, Frames
  <2>3. /\ stack' \in Seq(Frames)
        /\ Len(stack') = Len(stack) + 1 /\ Len(stack) \in Nat
        /\ stack'[Len(stack')] = f /\ stack' # <<>>
        /\ DOMAIN stack' = 1 .. Len(stack) + 1
        /\ \A i \in 1 .. Len(stack) : stack'[i] = stack[i]
    BY <2>1, <2>2, AppendProperties, LenProperties
  <2>4. heap' \in Seq(Objects) /\ Len(heap') = Len(heap) + 1 /\ NewId = Len(heap')
        /\ Len(heap) \in Nat
    BY <2>1, NewObjectHeap, LenProperties
  <2>5. TypeOK'
    BY <2>1, <2>3, <2>4
  <2>6. Keys'
    BY <2>1, <2>2, <2>3, LenProperties DEF Top
  <2>7. Pointers'
    <3>1. \A i \in 1 .. Len(stack) : stack[i].obj <= Len(heap) /\ stack[i].name <= Len(heap)
            /\ stack[i].obj \in Nat /\ stack[i].name \in Nat
      BY FramesOfStack, LenProperties
    <3>2. \A i \in DOMAIN stack' : stack'[i].obj <= Len(heap') /\ stack'[i].name <= Len(heap')
      BY <2>2, <2>3, <2>4, <3>1
    <3>3. QED
      BY <2>1, <2>4, <3>2
  <2>8. Depth'
    BY <1>2, <2>1, <2>3
  <2>9. QED
    BY <2>1, <2>3, <2>5, <2>6, <2>7, <2>8
<1>3. QED
  BY <1>1, <1>2 DEF Enter

\* What a container that is returned leaves of the stack.
LEMMA ReturnFacts ==
  ASSUME Control, stack # <<>>, ReturnContainer
  PROVE  /\ stack' \in Seq(Frames) /\ Len(stack') = Len(stack) - 1
         /\ Len(stack) \in Nat \ {0}
         /\ DOMAIN stack' = 1 .. Len(stack) - 1
         /\ \A i \in DOMAIN stack' :
              /\ i \in DOMAIN stack /\ stack'[i] = stack[i]
              /\ stack'[i].obj <= Len(heap') /\ stack'[i].name <= Len(heap')
              /\ stack'[i].kind = "array" => stack'[i].name = 0
         /\ ret' \in Nat \ {0} /\ ret' <= Len(heap') /\ ret' = Top.obj
         /\ objDepth' = objDepth - 1
         /\ start' = start + 1 /\ pc' = "return" /\ UNCHANGED <<errorStr, heap>>
<1> USE DEF Control, TypeOK, Keys, Pointers
<1>1. Len(stack) \in DOMAIN stack /\ DOMAIN stack = 1 .. Len(stack)
  BY TopIsFrame
<1>2. Top.obj \in Nat \ {0} /\ Top.obj <= Len(heap)
  BY <1>1, FramesOfStack DEF Top
<1>3. /\ stack' \in Seq(Frames) /\ Len(stack') = Len(stack) - 1
      /\ DOMAIN stack' = 1 .. Len(stack) - 1
      /\ \A i \in DOMAIN stack' : stack'[i] = stack[i]
      /\ Len(stack) \in Nat \ {0}
  BY PopStack, EmptySeq DEF ReturnContainer
<1>4. /\ ret' \in Nat \ {0} /\ ret' <= Len(heap') /\ ret' = Top.obj
      /\ objDepth' = objDepth - 1
      /\ start' = start + 1 /\ pc' = "return" /\ UNCHANGED <<errorStr, heap>>
  BY <1>2 DEF ReturnContainer
<1>5. \A i \in DOMAIN stack' :
        /\ i \in DOMAIN stack /\ stack'[i] = stack[i]
        /\ stack'[i].obj <= Len(heap') /\ stack'[i].name <= Len(heap')
        /\ stack'[i].kind = "array" => stack'[i].name = 0
  BY <1>1, <1>3, <1>4
<1>6. QED
  BY <1>3, <1>4, <1>5

\* Returning a container keeps Control.
LEMMA ReturnControl ==
  ASSUME Control, stack # <<>>, ReturnContainer, pc \in {"loop", "sep"},
         UNCHANGED <<argKind, memory, end, lastType, escLen, held, pyErr>>
  PROVE  Control'
<1> USE DEF Control
<1>1. /\ objDepth' \in Nat /\ objDepth' = Len(stack') /\ objDepth' <= MaxDepth
  BY ReturnFacts, DecoderAssumption DEF Depth, TypeOK
<1>2. TypeOK'
  BY <1>1, ReturnFacts DEF TypeOK
<1>3. errorStr' = "none" /\ ret' # 0 /\ pc' = "return"
  BY ReturnFacts DEF GoingOn
<1>4. Keys' /\ Pointers'
  BY <1>3, ReturnFacts DEF Keys, Pointers
<1>5. QED
  BY <1>1, <1>2, <1>3, <1>4
     DEF Activations, GoingOn, ErrorIsNull, NullIsError, Outcome, Depth

\* What an activation that returns NULL leaves of the stack and the heap.
LEMMA AbandonFacts ==
  ASSUME Control, stack # <<>>, Abandon
  PROVE  /\ stack' \in Seq(Frames) /\ Len(stack') = Len(stack) - 1
         /\ Len(stack) \in Nat \ {0}
         /\ DOMAIN stack' = 1 .. Len(stack) - 1
         /\ \A i \in DOMAIN stack' :
              /\ i \in DOMAIN stack /\ stack'[i] = stack[i]
              /\ stack'[i].obj <= Len(heap') /\ stack'[i].name <= Len(heap')
              /\ stack'[i].kind = "array" => stack'[i].name = 0
         /\ heap' \in Seq(Objects) /\ Len(heap') = Len(heap)
<1> USE DEF Control, TypeOK, Keys, Pointers
<1>1. Len(stack) \in DOMAIN stack /\ DOMAIN stack = 1 .. Len(stack)
  BY TopIsFrame
<1>2. /\ Top.obj \in 1 .. Len(heap)
      /\ Top.name \in 0 .. Len(heap)
      /\ Len(heap) \in Nat
  BY <1>1, FramesOfStack, LenProperties DEF Top
<1>3. Decref(heap, Top.obj) \in Seq(Objects) /\ Len(Decref(heap, Top.obj)) = Len(heap)
  BY <1>2, DecrefHeap
<1>4. heap' \in Seq(Objects) /\ Len(heap') = Len(heap)
  <2>1. CASE Top.name = 0
    BY <1>3, <2>1 DEF Abandon
  <2>2. CASE Top.name # 0
    <3> DEFINE h == Decref(heap, Top.obj)
    <3>1. h \in Seq(Objects) /\ Len(h) = Len(heap) /\ Top.name \in 1 .. Len(h)
      BY <1>2, <1>3, <2>2
    <3>2. heap' = Decref(h, Top.name)
      BY <2>2 DEF Abandon
    <3> HIDE DEF h
    <3>3. QED
      BY <3>1, <3>2, DecrefHeap
  <2>3. QED
    BY <2>1, <2>2
<1>5. /\ stack' \in Seq(Frames) /\ Len(stack') = Len(stack) - 1
      /\ DOMAIN stack' = 1 .. Len(stack) - 1
      /\ \A i \in DOMAIN stack' : stack'[i] = stack[i]
      /\ Len(stack) \in Nat \ {0}
  BY PopStack, EmptySeq DEF Abandon
<1>6. \A i \in DOMAIN stack' :
        /\ i \in DOMAIN stack /\ stack'[i] = stack[i]
        /\ stack'[i].obj <= Len(heap') /\ stack'[i].name <= Len(heap')
        /\ stack'[i].kind = "array" => stack'[i].name = 0
  BY <1>1, <1>4, <1>5
<1>7. QED
  BY <1>4, <1>5, <1>6

\* The innermost activation points to objects that exist.
LEMMA TopPointers ==
  ASSUME Control, stack # <<>>
  PROVE  /\ Top \in Frames
         /\ Top.obj \in 1 .. Len(heap)
         /\ Top.name \in 0 .. Len(heap)
         /\ Len(heap) \in Nat
         /\ Top.kind = "array" => Top.name = 0
<1> USE DEF Control, TypeOK, Keys, Pointers
<1>1. Len(stack) \in DOMAIN stack /\ Top \in Frames
  BY TopIsFrame
<1>2. QED
  BY <1>1, FramesOfStack, LenProperties DEF Top

\* Counting an element or changing the key of a frame makes a frame.
LEMMA FrameUpdates ==
  ASSUME NEW f \in Frames, NEW n \in Nat
  PROVE  /\ [f EXCEPT !.name = n] \in Frames
         /\ [f EXCEPT !.name = n].name = n
         /\ [f EXCEPT !.name = n].obj = f.obj
         /\ [f EXCEPT !.name = n].kind = f.kind
         /\ [f EXCEPT !.len = @ + 1] \in Frames
         /\ [f EXCEPT !.len = @ + 1].name = f.name
         /\ [f EXCEPT !.len = @ + 1].obj = f.obj
BY DEF Frames

\* The innermost activation may count an element or change its key.
LEMMA Updated ==
  ASSUME Top \in Frames
  PROVE  /\ [Top EXCEPT !.name = 0] \in Frames
         /\ [Top EXCEPT !.name = 0].name = 0
         /\ [Top EXCEPT !.name = 0].obj = Top.obj
         /\ [Top EXCEPT !.len = @ + 1] \in Frames
         /\ [Top EXCEPT !.len = @ + 1].name = Top.name
         /\ [Top EXCEPT !.len = @ + 1].obj = Top.obj
<1>1. 0 \in Nat
  OBVIOUS
<1>2. QED
  BY <1>1, FrameUpdates

\* Adding an item to a list releases the item and keeps all objects.
LEMMA AddItemHeap ==
  ASSUME Control, AddItem
  PROVE  heap' \in Seq(Objects) /\ Len(heap') = Len(heap)
<1>1. /\ heap \in Seq(Objects) /\ ret \in 1 .. Len(heap) /\ Top.obj \in 1 .. Len(heap)
      /\ <<ret>> \in Seq(Nat)
  <2>1. stack # <<>> /\ ret # 0
    BY DEF AddItem, Returned
  <2>2. Top.obj \in Nat \ {0} /\ Top.obj <= Len(heap)
    BY <2>1, TopIsFrame, FramesOfStack DEF Control, TypeOK, Pointers, Top
  <2>3. QED
    BY <2>1, <2>2, LenProperties DEF Control, TypeOK, Pointers
<1> DEFINE h == Adopt(heap, Top.obj, <<ret>>)
<1>2. h \in Seq(Objects) /\ Len(h) = Len(heap)
  BY <1>1, AdoptHeap
<1> HIDE DEF h
<1>3. Decref(heap, ret) \in Seq(Objects) /\ Len(Decref(heap, ret)) = Len(heap)
  BY <1>1, DecrefHeap
<1>4. Decref(h, ret) \in Seq(Objects) /\ Len(Decref(h, ret)) = Len(heap)
  BY <1>1, <1>2, DecrefHeap
<1>5. heap' \in {Decref(heap, ret), Decref(h, ret)}
  BY DEF AddItem, h
<1>6. QED
  BY <1>3, <1>4, <1>5

\* Adding a key to a dict releases key and value and keeps all objects.
LEMMA AddKeyHeap ==
  ASSUME Control, AddKey
  PROVE  heap' \in Seq(Objects) /\ Len(heap') = Len(heap)
<1>1. /\ heap \in Seq(Objects) /\ ret \in 1 .. Len(heap)
      /\ Top.obj \in 1 .. Len(heap) /\ Top.name \in 1 .. Len(heap)
      /\ <<Top.name, ret>> \in Seq(Nat)
  <2>1. stack # <<>> /\ ret # 0 /\ Top.name # 0
    BY DEF AddKey, Returned
  <2>2. /\ Top.obj \in Nat \ {0} /\ Top.obj <= Len(heap)
        /\ Top.name \in Nat /\ Top.name <= Len(heap)
    BY <2>1, TopIsFrame, FramesOfStack DEF Control, TypeOK, Pointers, Top
  <2>3. QED
    BY <2>1, <2>2, LenProperties DEF Control, TypeOK, Pointers
<1> DEFINE h == Adopt(heap, Top.obj, <<Top.name, ret>>)
<1>2. h \in Seq(Objects) /\ Len(h) = Len(heap)
  BY <1>1, AdoptHeap
<1> HIDE DEF h
<1>3. ASSUME NEW g \in Seq(Objects), Len(g) = Len(heap)
      PROVE  /\ Decref(Decref(g, Top.name), ret) \in Seq(Objects)
             /\ Len(Decref(Decref(g, Top.name), ret)) = Len(heap)
  <2> DEFINE d == Decref(g, Top.name)
  <2>1. d \in Seq(Objects) /\ Len(d) = Len(heap)
    BY <1>1, <1>3, DecrefHeap
  <2> HIDE DEF d
  <2>2. Decref(d, ret) \in Seq(Objects) /\ Len(Decref(d, ret)) = Len(heap)
    BY <1>1, <2>1, DecrefHeap
  <2>3. QED
    BY <2>2 DEF d
<1>4. \E g \in {heap, h} : heap' = Decref(Decref(g, Top.name), ret)
  BY DEF AddKey, h
<1>5. QED
  BY <1>1, <1>2, <1>3, <1>4

\* What an update of the innermost activation keeps of Control.
LEMMA SetTopFacts ==
  ASSUME Control, stack # <<>>, NEW f \in Frames, stack' = SetTop(f),
         f.obj = Top.obj, f.name <= Len(heap), f.kind = "array" => f.name = 0,
         Len(heap') = Len(heap)
  PROVE  /\ stack' \in Seq(Frames) /\ stack' # <<>> /\ Len(stack') = Len(stack)
         /\ Top' = f
         /\ \A i \in DOMAIN stack' :
              /\ stack'[i].obj <= Len(heap') /\ stack'[i].name <= Len(heap')
              /\ stack'[i].kind = "array" => stack'[i].name = 0
<1>0. stack \in Seq(Frames) /\ Len(stack) \in Nat
  BY LenProperties DEF Control, TypeOK
<1>1. Len(stack) \in DOMAIN stack /\ DOMAIN stack = 1 .. Len(stack)
  BY <1>0, TopIsFrame
<1>2. /\ stack' \in Seq(Frames) /\ Len(stack') = Len(stack)
      /\ DOMAIN stack' = 1 .. Len(stack)
      /\ stack'[Len(stack)] = f
      /\ \A i \in 1 .. Len(stack) - 1 : stack'[i] = stack[i]
  BY <1>0, SetTopStack
<1>3. stack' # <<>> /\ Top' = f
  BY <1>1, <1>2, EmptySeq DEF Top
<1>4. ASSUME NEW i \in 1 .. Len(stack)
      PROVE  /\ stack'[i].obj <= Len(heap') /\ stack'[i].name <= Len(heap')
             /\ stack'[i].kind = "array" => stack'[i].name = 0
  <2>1. CASE i = Len(stack)
    BY <1>1, <1>2, <2>1, TopPointers DEF Top
  <2>2. CASE i # Len(stack)
    <3>1. i \in DOMAIN stack
      BY <1>1
    <3>2. i \in 1 .. Len(stack) - 1
      BY <1>0, <2>2
    <3>3. stack'[i] = stack[i]
      BY <1>2, <3>2
    <3>4. QED
      BY <3>1, <3>3 DEF Control, Keys, Pointers
  <2>3. QED
    BY <2>1, <2>2
<1>5. QED
  BY <1>2, <1>3, <1>4

\* Control is inductive: every step of the decoder keeps it.
LEMMA ControlStep == Control /\ [Next]_vars => Control'
<1> SUFFICES ASSUME Control, [Next]_vars PROVE Control'
  OBVIOUS
<1> USE DEF Control, TypeOK, Activations, GoingOn, ErrorIsNull, NullIsError,
            Outcome, Keys, Pointers, Depth, dsVars
<1>1. CASE RejectArgument
  BY <1>1 DEF RejectArgument
<1>2. CASE StartDecoding
  BY <1>2 DEF StartDecoding
<1>3. CASE SkipWhitespace
  BY <1>3 DEF SkipWhitespace, Top
<1>4. CASE DecodeString
  <2>1. /\ pc = "any" /\ start' = start + 1
        /\ UNCHANGED <<argKind, memory, end, stack, objDepth>>
    BY <1>4 DEF DecodeString, Decode
  <2>2. CASE NoMemory(end - start) /\ lastType' = "INVALID"
    BY <2>1, <2>2 DEF NoMemory, Fail
  <2>3. CASE ReserveEscapes(end - start) /\ lastType' = "INVALID" /\ Fail("string")
             /\ UNCHANGED <<heap, pyErr>>
    BY <2>1, <2>3 DEF ReserveEscapes, Fail
  <2>4. CASE ReserveEscapes(end - start) /\ lastType' = "UTF8" /\ Made("str", "newScalar")
             /\ UNCHANGED errorStr
    <3>1. escLen' \in Nat /\ held' \subseteq {"arg", "s2d", "esc"}
      BY <2>4 DEF ReserveEscapes
    <3>2. /\ heap' \in Seq(Objects)
          /\ Len(heap) \in Nat /\ Len(heap') \in Nat /\ Len(heap) <= Len(heap')
          /\ ret' \in Nat /\ ret' <= Len(heap')
          /\ pc' = "return"
          /\ pyErr' \in {pyErr, "callback"}
          /\ ret' = 0 => pyErr' = "callback"
      BY <2>4, MadeObject, LenProperties DEF Kinds
    <3>3. stack' = stack /\ errorStr' = "none" /\ TypeOK'
      BY <2>1, <2>4, <3>1, <3>2
    <3>4. Pointers'
      BY <3>2, <3>3, FramesOfStack, SMTT(30)
    <3>5. QED
      BY <2>1, <3>2, <3>3, <3>4
  <2>5. QED
    BY <1>4, <2>2, <2>3, <2>4 DEF DecodeString
<1>5. CASE DecodeScalar
  <2>1. Made("other", "newScalar") /\ pc = "any"
    BY <1>5 DEF DecodeScalar, Decode
  <2>2. start' \in Nat \ {0}
    BY <1>5 DEF DecodeScalar
  <2>3. /\ heap' \in Seq(Objects)
        /\ Len(heap) \in Nat /\ Len(heap') \in Nat /\ Len(heap) <= Len(heap')
        /\ ret' \in Nat /\ ret' <= Len(heap')
        /\ pc' = "return"
        /\ pyErr' \in {pyErr, "callback"}
        /\ ret' = 0 => pyErr' = "callback"
    BY <2>1, MadeObject, LenProperties DEF Kinds
  <2>4. stack' = stack /\ errorStr' = "none" /\ TypeOK'
    BY <1>5, <2>1, <2>2, <2>3 DEF DecodeScalar
  <2>5. Pointers'
    BY <2>3, <2>4, FramesOfStack
  <2>6. objDepth' = objDepth
    BY <1>5 DEF DecodeScalar
  <2>7. QED
    BY <2>1, <2>3, <2>4, <2>5, <2>6
<1>6. CASE RejectValue
  BY <1>6 DEF RejectValue, Decode, Fail
<1>7. CASE DecodeArray
  BY <1>7, EnterControl DEF DecodeArray, Decode, Kinds
<1>8. CASE DecodeObject
  BY <1>8, EnterControl DEF DecodeObject, Decode, Kinds
<1>9. CASE CloseAtHead
  <2>1. stack # <<>> /\ Top.name = 0 /\ ret = 0 /\ errorStr = "none"
    BY <1>9 DEF CloseAtHead
  <2>2. CASE ReturnContainer
    <3>1. UNCHANGED <<argKind, memory, end, lastType, escLen, held, pyErr>> /\ pc = "loop"
      BY <1>9 DEF CloseAtHead
    <3>2. QED
      BY <2>1, <2>2, <3>1, ReturnControl
  <2>3. CASE Abandon /\ Fail("close") /\ objDepth' = objDepth - 1 /\ UNCHANGED start
    BY <1>9, <2>1, <2>3, AbandonFacts DEF CloseAtHead, Fail
  <2>4. QED
    BY <1>9, <2>2, <2>3 DEF CloseAtHead
<1>10. CASE NextElement
  BY <1>10 DEF NextElement, Top
<1>11. CASE Unwind
  BY <1>11, AbandonFacts DEF Unwind
<1>12. CASE AddItem
  <2>1. stack # <<>> /\ ret # 0 /\ pc = "return" /\ Top.kind = "array" /\ errorStr = "none"
    BY <1>12 DEF AddItem, Returned
  <2>2. heap' \in Seq(Objects) /\ Len(heap') = Len(heap)
    BY <1>12, <2>1, AddItemHeap
  <2>3. Top.name = 0
    BY <2>1, TopIsFrame DEF Top
  <2>4. TypeOK'
    BY <1>12, <2>1, <2>2 DEF AddItem
  <2>5. Pointers'
    BY <1>12, <2>1, <2>2 DEF AddItem
  <2>6. QED
    BY <1>12, <2>1, <2>2, <2>3, <2>4, <2>5 DEF AddItem, Top
<1>13. CASE TakeKey
  <2>1. stack # <<>> /\ ret \in 1 .. Len(heap) /\ pc = "return" /\ Top.kind = "object"
        /\ errorStr = "none" /\ Top.name = 0
    BY <1>13, LenProperties DEF TakeKey, Returned
  <2>2. CASE pc' = "colon"
    <3> DEFINE f == [Top EXCEPT !.name = ret]
    <3>1. /\ f \in Frames /\ f.name = ret /\ f.obj = Top.obj /\ f.kind = Top.kind
          /\ stack' = SetTop(f) /\ ret' = 0 /\ UNCHANGED <<heap, errorStr>>
          /\ UNCHANGED <<argKind, memory, end, start, lastType, objDepth, escLen, held, pyErr>>
      BY <1>13, <2>1, <2>2, TopPointers, FrameUpdates DEF TakeKey, Fail
    <3> HIDE DEF f
    <3>2. /\ stack' \in Seq(Frames) /\ stack' # <<>> /\ Len(stack') = Len(stack)
          /\ Top' = f
          /\ \A i \in DOMAIN stack' :
               /\ stack'[i].obj <= Len(heap') /\ stack'[i].name <= Len(heap')
               /\ stack'[i].kind = "array" => stack'[i].name = 0
      BY <2>1, <3>1, SetTopFacts
    <3>3. QED
      BY <2>1, <2>2, <3>1, <3>2
  <2>3. CASE stack' = Pop /\ heap' = Decref(Decref(heap, Top.obj), ret) /\ Fail("key")
    <3>1. Top.obj \in 1 .. Len(heap)
      BY <2>1, TopPointers
    <3>2. Decref(heap, Top.obj) \in Seq(Objects) /\ Len(Decref(heap, Top.obj)) = Len(heap)
      BY <3>1, DecrefHeap
    <3>3. heap' \in Seq(Objects) /\ Len(heap') = Len(heap)
      BY <2>1, <2>3, <3>2, DecrefHeap
    <3>4. /\ stack' \in Seq(Frames)
          /\ DOMAIN stack' = 1 .. Len(stack) - 1 /\ DOMAIN stack = 1 .. Len(stack)
          /\ \A i \in DOMAIN stack' : i \in DOMAIN stack /\ stack'[i] = stack[i]
      BY <2>1, <2>3, PopStack, TopIsFrame
    <3>5. TypeOK'
      BY <1>13, <2>3, <3>3, <3>4 DEF TakeKey, Fail
    <3>6. ret' = 0 /\ pc' = "return" /\ errorStr' # "none" /\ UNCHANGED pyErr
      BY <1>13, <2>3 DEF TakeKey, Fail
    <3>7. Keys'
      BY <3>4, <3>6
    <3>8. Pointers'
      <4>1. Len(heap) \in Nat
        BY <2>1, TopPointers
      <4>2. ASSUME NEW i \in DOMAIN stack'
            PROVE  stack'[i].obj <= Len(heap') /\ stack'[i].name <= Len(heap')
        <5>1. i \in DOMAIN stack /\ stack'[i] = stack[i]
          BY <3>4
        <5>2. stack[i].obj <= Len(heap) /\ stack[i].name <= Len(heap)
          BY <5>1
        <5>3. QED
          BY <3>3, <5>1, <5>2
      <4>3. QED
        BY <3>3, <3>6, <4>1, <4>2
    <3>9. QED
      BY <3>5, <3>6, <3>7, <3>8
  <2>4. QED
    BY <1>13, <2>2, <2>3 DEF TakeKey
<1>14. CASE ExpectColon
  <2>1. stack # <<>> /\ ret = 0 /\ errorStr = "none" /\ pc = "colon"
    BY <1>14 DEF ExpectColon
  <2>2. CASE Abandon /\ Fail("colon")
    BY <1>14, <2>1, <2>2, AbandonFacts DEF ExpectColon, Fail
  <2>3. CASE pc' = "any" /\ UNCHANGED <<stack, ret, errorStr, heap>>
    BY <1>14, <2>1, <2>3 DEF ExpectColon
  <2>4. QED
    BY <1>14, <2>2, <2>3 DEF ExpectColon
<1>15. CASE AddKey
  <2>1. stack # <<>> /\ ret # 0 /\ pc = "return" /\ errorStr = "none"
    BY <1>15 DEF AddKey, Returned
  <2>2. heap' \in Seq(Objects) /\ Len(heap') = Len(heap)
    BY <1>15, AddKeyHeap
  <2> DEFINE f == [Top EXCEPT !.name = 0]
  <2>3. /\ f \in Frames /\ f.name = 0 /\ f.obj = Top.obj /\ stack' = SetTop(f)
        /\ f.name <= Len(heap)
    <3>1. f \in Frames /\ f.name = 0 /\ f.obj = Top.obj
      BY <2>1, TopPointers, Updated
    <3>2. stack' = SetTop(f)
      BY <1>15 DEF AddKey
    <3>3. QED
      BY <3>1, <3>2, LenProperties
  <2> HIDE DEF f
  <2>4. /\ stack' \in Seq(Frames) /\ stack' # <<>> /\ Len(stack') = Len(stack)
        /\ Top' = f
        /\ \A i \in DOMAIN stack' :
             /\ stack'[i].obj <= Len(heap') /\ stack'[i].name <= Len(heap')
             /\ stack'[i].kind = "array" => stack'[i].name = 0
    BY <2>1, <2>2, <2>3, SetTopFacts
  <2>5. /\ ret' = 0 /\ pc' = "sep" /\ pyErr' \in {pyErr, "JSONDecodeError"}
        /\ UNCHANGED <<argKind, memory, end, start, lastType, objDepth, errorStr, escLen, held>>
    BY <1>15 DEF AddKey
  <2>6. QED
    BY <2>1, <2>2, <2>3, <2>4, <2>5, LenProperties
<1>16. CASE Separator
  <2>1. /\ stack # <<>> /\ ret = 0 /\ errorStr = "none" /\ pc = "sep"
        /\ UNCHANGED <<argKind, memory, end, lastType, escLen, held, pyErr>>
    BY <1>16 DEF Separator
  <2>2. CASE ReturnContainer
    BY <2>1, <2>2, ReturnControl
  <2>3. CASE pc' = "loop"
    <3> DEFINE f == [Top EXCEPT !.len = @ + 1]
    <3>1. /\ f \in Frames /\ f.name = 0 /\ f.obj = Top.obj
          /\ stack' = SetTop(f) /\ start' = start + 1
          /\ UNCHANGED <<ret, objDepth, errorStr, heap>>
      <4>1. f \in Frames /\ f.name = 0 /\ f.obj = Top.obj
        BY <2>1, TopPointers, Updated
      <4>2. QED
        BY <1>16, <2>1, <2>3, <4>1 DEF Separator, ReturnContainer, Fail
    <3> HIDE DEF f
    <3>2. /\ stack' \in Seq(Frames) /\ stack' # <<>> /\ Len(stack') = Len(stack)
          /\ Top' = f
          /\ \A i \in DOMAIN stack' :
               /\ stack'[i].obj <= Len(heap') /\ stack'[i].name <= Len(heap')
               /\ stack'[i].kind = "array" => stack'[i].name = 0
      BY <2>1, <3>1, SetTopFacts, LenProperties
    <3>3. QED
      BY <2>1, <2>3, <3>1, <3>2
  <2>4. CASE start' = start + 1 /\ Abandon /\ Fail("separator") /\ UNCHANGED objDepth
    BY <2>1, <2>4, AbandonFacts DEF Fail
  <2>5. QED
    BY <1>16, <2>2, <2>3, <2>4 DEF Separator
<1>17. CASE FreeEscapes
  BY <1>17 DEF FreeEscapes
<1>18. CASE CheckTrailing
  <2>1. pc \in {"tail", "skip"} /\ stack = <<>> /\ stack' = stack /\ pc' = "binding"
    BY <1>18 DEF CheckTrailing
  <2>2. CASE ret # 0 /\ heap' = Decref(heap, ret) /\ ret' = 0 /\ errorStr' = "trailing"
    <3>1. heap' \in Seq(Objects) /\ Len(heap') = Len(heap)
      BY <2>2, DecrefHeap, LenProperties
    <3>2. QED
      BY <1>18, <2>1, <2>2, <3>1 DEF CheckTrailing
  <2>3. CASE UNCHANGED <<heap, ret, errorStr>>
    BY <1>18, <2>1, <2>3 DEF CheckTrailing
  <2>4. QED
    BY <1>18, <2>2, <2>3 DEF CheckTrailing
<1>19. CASE ReturnToPython
  <2>1. pc = "binding" /\ stack = <<>> /\ stack' = stack /\ pc' = "done"
    BY <1>19 DEF ReturnToPython
  <2>2. CASE ret # 0 /\ pyErr' # "none" /\ heap' = Decref(heap, ret) /\ ret' = 0
    <3>1. heap' \in Seq(Objects) /\ Len(heap') = Len(heap)
      BY <2>2, DecrefHeap, LenProperties
    <3>2. QED
      BY <1>19, <2>1, <2>2, <3>1 DEF ReturnToPython
  <2>3. CASE (ret = 0 \/ pyErr' = "none") /\ UNCHANGED <<heap, ret>>
    BY <1>19, <2>1, <2>3 DEF ReturnToPython
  <2>4. QED
    BY <1>19, <2>2, <2>3 DEF ReturnToPython
<1>20. CASE UNCHANGED vars
  BY <1>20 DEF vars, Top
<1>21. QED
  BY <1>1, <1>2, <1>3, <1>4, <1>5, <1>6, <1>7, <1>8, <1>9, <1>10, <1>11, <1>12, <1>13,
     <1>14, <1>15, <1>16, <1>17, <1>18, <1>19, <1>20
     DEF Next, Element, Loop, Finish

(***************************************************************************)
(* Theorems.                                                               *)
(***************************************************************************)

\* Control holds in every state of a call of loads.
THEOREM ControlInvariant == Spec => []Control
BY ControlInit, ControlStep, PTL DEF Spec

\* The variables hold values of their types, whatever the document, the limit
\* and the callbacks that fail.
THEOREM TypeCorrect == Spec => []TypeOK
<1>1. Control => TypeOK
  BY DEF Control
<1>2. QED
  BY <1>1, ControlInvariant, PTL

\* JSONToObj returns an object or NULL with an exception set, never both and
\* never neither.
THEOREM OutcomeCorrect == Spec => []Outcome
<1>1. Control => Outcome
  BY DEF Control
<1>2. QED
  BY <1>1, ControlInvariant, PTL

\* The depth counter of decode_array and decode_object never leaks: wherever
\* decoding goes on it is the number of active calls and within the limit.
THEOREM DepthCorrect == Spec => []DepthBalanced
<1>1. Control => DepthBalanced
  BY DEF Control, Depth, DepthBalanced
<1>2. QED
  BY <1>1, ControlInvariant, PTL

\* No step replaces an error message.
LEMMA FirstErrorStep == Control /\ Next => (errorStr # "none" => errorStr' = errorStr)
<1> SUFFICES ASSUME Control, Next, errorStr # "none" PROVE errorStr' = errorStr
  OBVIOUS
<1>1. pc \in {"return", "binding", "done"} /\ ret = 0
  BY DEF Control, ErrorIsNull
<1>2. QED
  BY <1>1 DEF Next, Element, Loop, Finish, RejectArgument, StartDecoding, SkipWhitespace,
     DecodeString, DecodeScalar, RejectValue, DecodeArray, DecodeObject, Decode,
     CloseAtHead, NextElement, Unwind, AddItem, TakeKey, ExpectColon, AddKey, Separator,
     Returned, FreeEscapes, CheckTrailing, ReturnToPython, dsVars

\* No SetError overwrites the message of an earlier one.
THEOREM FirstErrorCorrect == Spec => FirstErrorWins
<1>1. Control /\ [Next]_vars => [errorStr # "none" => errorStr' = errorStr]_vars
  BY FirstErrorStep DEF vars
<1>2. QED
  BY <1>1, ControlInvariant, PTL DEF Spec, FirstErrorWins

-----------------------------------------------------------------------------
(* The references: no object is leaked or released twice. *)

\* A frame of the stack s owns the object o.
On(s, o) == \E i \in DOMAIN s : o = s[i].obj \/ o = s[i].name

\* No two variables of the frames of s own the same object.
Distinct(s) ==
  /\ \A i, j \in DOMAIN s : s[i].obj = s[j].obj => i = j
  /\ \A i, j \in DOMAIN s : s[i].obj # s[j].name
  /\ \A i, j \in DOMAIN s : s[i].name = s[j].name /\ s[i].name # 0 => i = j

\* The inductive invariant: RefsBalanced, and no object is owned twice.
Refs ==
  /\ Distinct(stack)
  /\ ret # 0 => ~On(stack, ret)
  /\ \A o \in 1 .. Len(heap) : heap[o].refs = IF o = ret \/ On(stack, o) THEN 1 ELSE 0

(***************************************************************************)
(* What changes of the stack do to what it owns.                           *)
(***************************************************************************)

\* Popping a frame gives up what that frame owns.
LEMMA PopOn ==
  ASSUME NEW s, NEW t, NEW n \in Nat \ {0}, Distinct(s),
         DOMAIN s = 1 .. n, DOMAIN t = 1 .. n - 1, \A i \in 1 .. n - 1 : t[i] = s[i]
  PROVE  /\ Distinct(t)
         /\ \A o : On(s, o) <=> On(t, o) \/ o = s[n].obj \/ o = s[n].name
         /\ ~On(t, s[n].obj)
         /\ s[n].name # 0 => ~On(t, s[n].name)
         /\ s[n].obj # s[n].name
<1>1. n \in DOMAIN s /\ \A i \in DOMAIN t : i \in DOMAIN s /\ i # n /\ t[i] = s[i]
  OBVIOUS
<1>2. \A i \in DOMAIN s : i = n \/ i \in DOMAIN t
  OBVIOUS
<1>3. Distinct(t)
  BY <1>1 DEF Distinct
<1>4. ASSUME NEW o
      PROVE  On(s, o) <=> On(t, o) \/ o = s[n].obj \/ o = s[n].name
  BY <1>1, <1>2 DEF On
<1>5. ~On(t, s[n].obj) /\ (s[n].name # 0 => ~On(t, s[n].name)) /\ s[n].obj # s[n].name
  BY <1>1 DEF Distinct, On
<1>6. QED
  BY <1>3, <1>4, <1>5

\* Pushing a frame adds its object.
LEMMA PushOn ==
  ASSUME NEW s, NEW t, NEW n \in Nat, NEW f, Distinct(s),
         DOMAIN s = 1 .. n, DOMAIN t = 1 .. n + 1, \A i \in 1 .. n : t[i] = s[i],
         t[n + 1] = f, f.name = 0, f.obj # 0, ~On(s, f.obj),
         \A i \in 1 .. n : s[i].obj # 0
  PROVE  /\ Distinct(t)
         /\ \A o : o # 0 => (On(t, o) <=> On(s, o) \/ o = f.obj)
<1>1. /\ n + 1 \in DOMAIN t
      /\ \A i \in DOMAIN s : i \in DOMAIN t /\ i # n + 1 /\ t[i] = s[i] /\ s[i].obj # 0
      /\ \A i \in DOMAIN t : i = n + 1 \/ i \in DOMAIN s
  OBVIOUS
<1>2. \A i \in DOMAIN s : s[i].obj # f.obj /\ s[i].name # f.obj
  BY DEF On
<1>3. ASSUME NEW i \in DOMAIN t, NEW j \in DOMAIN t
      PROVE  /\ t[i].obj = t[j].obj => i = j
             /\ t[i].obj # t[j].name
             /\ t[i].name = t[j].name /\ t[i].name # 0 => i = j
  <2>1. CASE i \in DOMAIN s /\ j \in DOMAIN s
    BY <1>1, <2>1 DEF Distinct
  <2>2. CASE i = n + 1 /\ j \in DOMAIN s
    BY <1>1, <1>2, <2>2
  <2>3. CASE i \in DOMAIN s /\ j = n + 1
    BY <1>1, <1>2, <2>3
  <2>4. CASE i = n + 1 /\ j = n + 1
    BY <2>4
  <2>5. QED
    BY <1>1, <2>1, <2>2, <2>3, <2>4
<1>4. Distinct(t)
  BY <1>3 DEF Distinct
<1>5. ASSUME NEW o, o # 0
      PROVE  On(t, o) <=> On(s, o) \/ o = f.obj
  BY <1>1, <1>5 DEF On
<1>6. QED
  BY <1>4, <1>5

\* Changing the key of the innermost frame gives up the old key and adds the
\* new one, which no other variable of the frames may own.
LEMMA SetOn ==
  ASSUME NEW s, NEW t, NEW n \in Nat \ {0}, NEW f, Distinct(s),
         DOMAIN s = 1 .. n, DOMAIN t = 1 .. n, \A i \in 1 .. n - 1 : t[i] = s[i],
         t[n] = f, f.obj = s[n].obj, \A i \in 1 .. n : s[i].obj # 0,
         f.name \notin {0, s[n].name} => ~On(s, f.name)
  PROVE  /\ Distinct(t)
         /\ \A o : o # 0 =>
              (On(t, o) <=> o = f.name \/ (On(s, o) /\ o # s[n].name))
<1>1. /\ n \in DOMAIN t /\ n \in DOMAIN s
      /\ \A i \in DOMAIN s : s[i].obj # 0
      /\ \A i \in DOMAIN s : i = n \/ t[i] = s[i]
      /\ DOMAIN t = DOMAIN s
  OBVIOUS
<1>2. \A i \in DOMAIN s : t[i].obj = s[i].obj
  BY <1>1
<1>3. ASSUME NEW i \in DOMAIN s, f.name # 0
      PROVE  s[i].obj # f.name /\ (i # n => s[i].name # f.name)
  <2>1. CASE f.name = s[n].name
    BY <1>1, <1>3, <2>1 DEF Distinct
  <2>2. CASE f.name # s[n].name
    BY <1>3, <2>2 DEF On
  <2>3. QED
    BY <2>1, <2>2
<1>4. ASSUME NEW i \in DOMAIN s, NEW j \in DOMAIN s
      PROVE  /\ t[i].obj = t[j].obj => i = j
             /\ t[i].obj # t[j].name
             /\ t[i].name = t[j].name /\ t[i].name # 0 => i = j
  <2>1. t[i].obj = t[j].obj => i = j
    BY <1>2 DEF Distinct
  <2>2. t[i].obj # t[j].name
    BY <1>1, <1>2, <1>3 DEF Distinct
  <2>3. t[i].name = t[j].name /\ t[i].name # 0 => i = j
    BY <1>1, <1>3 DEF Distinct
  <2>4. QED
    BY <2>1, <2>2, <2>3
<1>5. Distinct(t)
  BY <1>1, <1>4 DEF Distinct
<1>6. ASSUME NEW o, o # 0
      PROVE  On(t, o) <=> o = f.name \/ (On(s, o) /\ o # s[n].name)
  <2>1. ASSUME On(t, o) PROVE o = f.name \/ (On(s, o) /\ o # s[n].name)
    <3>1. PICK i \in DOMAIN s : o = t[i].obj \/ o = t[i].name
      BY <1>1, <2>1 DEF On
    <3>2. CASE i = n /\ o = t[i].name
      BY <3>2
    <3>3. CASE o = t[i].obj
      <4>1. o = s[i].obj /\ o # s[n].name
        BY <1>1, <1>2, <3>3 DEF Distinct
      <4>2. QED
        BY <4>1 DEF On
    <3>4. CASE i # n /\ o = t[i].name
      <4>1. o = s[i].name /\ o # s[n].name
        BY <1>1, <1>6, <3>4 DEF Distinct
      <4>2. QED
        BY <4>1 DEF On
    <3>5. QED
      BY <3>1, <3>2, <3>3, <3>4
  <2>2. ASSUME o = f.name \/ (On(s, o) /\ o # s[n].name) PROVE On(t, o)
    <3>1. CASE o = f.name
      BY <1>1, <3>1 DEF On
    <3>2. CASE On(s, o) /\ o # s[n].name
      BY <1>1, <1>2, <3>2 DEF On
    <3>3. QED
      BY <2>2, <3>1, <3>2
  <2>3. QED
    BY <2>1, <2>2
<1>7. QED
  BY <1>5, <1>6

(***************************************************************************)
(* The steps, by what they do to the stack, the heap and ret.              *)
(***************************************************************************)

\* What Control says of the objects and of what points to them.
LEMMA Bounds ==
  ASSUME Control
  PROVE  /\ heap \in Seq(Objects) /\ Len(heap) \in Nat /\ DOMAIN heap = 1 .. Len(heap)
         /\ \A o \in 1 .. Len(heap) : heap[o].refs \in Int
         /\ stack \in Seq(Frames) /\ Len(stack) \in Nat /\ DOMAIN stack = 1 .. Len(stack)
         /\ stack # <<>> => Len(stack) \in Nat \ {0}
         /\ \A i \in 1 .. Len(stack) : stack[i].obj # 0
         /\ ret \in 0 .. Len(heap)
         /\ \A o : On(stack, o) => o \in 0 .. Len(heap)
<1>1. /\ heap \in Seq(Objects) /\ stack \in Seq(Frames) /\ ret \in Nat /\ Pointers
  BY DEF Control, TypeOK
<1>2. /\ Len(heap) \in Nat /\ DOMAIN heap = 1 .. Len(heap)
      /\ Len(stack) \in Nat /\ DOMAIN stack = 1 .. Len(stack)
      /\ stack # <<>> => Len(stack) # 0
  BY <1>1, LenProperties, EmptySeq
<1>3. \A o \in 1 .. Len(heap) : heap[o] \in Objects
  BY <1>1, ElementOfSeq
<1>4. \A o \in 1 .. Len(heap) : heap[o].refs \in Int
  BY <1>3 DEF Objects
<1>5. \A i \in DOMAIN stack : stack[i].obj \in Nat \ {0} /\ stack[i].name \in Nat
  BY <1>1, FramesOfStack
<1>6. \A i \in DOMAIN stack :
        stack[i].obj \in 0 .. Len(heap) /\ stack[i].name \in 0 .. Len(heap)
  BY <1>1, <1>2, <1>5 DEF Pointers
<1>7. \A o : On(stack, o) => o \in 0 .. Len(heap)
  BY <1>6 DEF On
<1>8. ret \in 0 .. Len(heap)
  BY <1>1, <1>2 DEF Pointers
<1>9. QED
  BY <1>1, <1>2, <1>4, <1>5, <1>7, <1>8

\* A step that changes neither the stack, nor ret, nor the heap.
LEMMA QuietRefs ==
  ASSUME Refs, stack' = stack, ret' = ret, heap' = heap
  PROVE  Refs'
BY DEF Refs, Distinct, On

\* A callback made the value that is returned, or failed.
LEMMA MadeRefs ==
  ASSUME Control, Refs, ret = 0, stack' = stack, NEW kind \in Kinds, NEW cb, Made(kind, cb)
  PROVE  Refs'
<1>1. PICK failed \in MayFail(cb) :
        /\ heap' = IF failed THEN heap ELSE NewObject(kind)
        /\ ret' = IF failed THEN 0 ELSE NewId
  BY DEF Made
<1>2. CASE failed
  BY <1>1, <1>2, QuietRefs
<1>3. CASE ~failed
  <2>1. heap' = NewObject(kind) /\ ret' = NewId
    BY <1>1, <1>3
  <2>2. /\ Len(heap') = NewId /\ NewId = Len(heap) + 1 /\ NewId # 0
        /\ heap'[NewId].refs = 1
        /\ \A o \in 1 .. Len(heap) : heap'[o] = heap[o]
    BY <2>1, Bounds, NewObjectHeap
  <2>3. ~On(stack, NewId)
    BY <2>2, Bounds
  <2>4. ASSUME NEW o \in 1 .. Len(heap')
        PROVE  heap'[o].refs = IF o = ret' \/ On(stack, o) THEN 1 ELSE 0
    <3>1. CASE o = NewId
      BY <2>1, <2>2, <3>1
    <3>2. CASE o # NewId
      <4>1. o \in 1 .. Len(heap) /\ o # ret /\ o # ret'
        BY <2>1, <2>2, <3>2, Bounds
      <4>2. QED
        BY <4>1, <2>2 DEF Refs
    <3>3. QED
      BY <3>1, <3>2
  <2>5. Distinct(stack') /\ (ret' # 0 => ~On(stack', ret'))
    BY <2>1, <2>3 DEF Refs
  <2>6. \A o \in 1 .. Len(heap') : heap'[o].refs = IF o = ret' \/ On(stack', o) THEN 1 ELSE 0
    BY <2>4
  <2>7. QED
    BY <2>5, <2>6 DEF Refs
<1>4. QED
  BY <1>2, <1>3

\* The innermost activation returns: what the stack owns afterwards.
LEMMA PopStackOn ==
  ASSUME Control, Refs, stack # <<>>, stack' = Pop
  PROVE  /\ Distinct(stack')
         /\ \A o : On(stack, o) <=> On(stack', o) \/ o = Top.obj \/ o = Top.name
         /\ ~On(stack', Top.obj)
         /\ Top.name # 0 => ~On(stack', Top.name)
         /\ Top.obj # Top.name
<1>1. /\ Distinct(stack) /\ Len(stack) \in Nat \ {0} /\ DOMAIN stack = 1 .. Len(stack)
      /\ stack \in Seq(Frames)
  BY Bounds DEF Refs
<1>2. DOMAIN stack' = 1 .. Len(stack) - 1 /\ \A i \in 1 .. Len(stack) - 1 : stack'[i] = stack[i]
  BY <1>1, PopStack
<1>3. QED
  BY <1>1, <1>2, PopOn DEF Top

\* The innermost activation changes its key: what the stack owns afterwards.
LEMMA SetTopOn ==
  ASSUME Control, Refs, stack # <<>>, NEW f \in Frames, stack' = SetTop(f),
         f.obj = Top.obj, f.name \notin {0, Top.name} => ~On(stack, f.name)
  PROVE  /\ Distinct(stack')
         /\ \A o : o # 0 =>
              (On(stack', o) <=> o = f.name \/ (On(stack, o) /\ o # Top.name))
<1>1. /\ Distinct(stack) /\ Len(stack) \in Nat \ {0} /\ DOMAIN stack = 1 .. Len(stack)
      /\ stack \in Seq(Frames) /\ \A i \in 1 .. Len(stack) : stack[i].obj # 0
  BY Bounds DEF Refs
<1>2. /\ DOMAIN stack' = 1 .. Len(stack) /\ stack'[Len(stack)] = f
      /\ \A i \in 1 .. Len(stack) - 1 : stack'[i] = stack[i]
  BY <1>1, SetTopStack
<1>3. QED
  BY <1>1, <1>2, SetOn DEF Top

\* Entering decode_array or decode_object.
LEMMA EnterRefs ==
  ASSUME Control, Refs, ret = 0, NEW kind \in {"array", "object"}, NEW container \in Kinds,
         Enter(kind, container)
  PROVE  Refs'
<1>1. CASE Fail("depth") /\ UNCHANGED <<start, stack, lastType, heap>>
  BY <1>1, QuietRefs DEF Fail
<1>2. CASE heap' = NewObject(container) /\ stack' = Append(stack, Frame(kind, NewId)) /\ ret' = ret
  <2> DEFINE f == Frame(kind, NewId)
  <2>1. /\ Len(heap') = NewId /\ NewId = Len(heap) + 1 /\ NewId \in Nat \ {0}
        /\ heap'[NewId].refs = 1
        /\ \A o \in 1 .. Len(heap) : heap'[o] = heap[o]
    BY <1>2, Bounds, NewObjectHeap
  <2>2. f \in Frames /\ f.name = 0 /\ f.obj = NewId
    BY <2>1 DEF Frame, Frames
  <2>3. ~On(stack, NewId)
    BY <2>1, Bounds
  <2>4. /\ DOMAIN stack' = 1 .. Len(stack) + 1 /\ stack'[Len(stack) + 1] = f
        /\ \A i \in 1 .. Len(stack) : stack'[i] = stack[i]
    BY <1>2, <2>2, Bounds, AppendProperties
  <2> HIDE DEF f
  <2>5. /\ Distinct(stack')
        /\ \A o : o # 0 => (On(stack', o) <=> On(stack, o) \/ o = f.obj)
    <3>1. /\ Distinct(stack) /\ Len(stack) \in Nat /\ DOMAIN stack = 1 .. Len(stack)
          /\ \A i \in 1 .. Len(stack) : stack[i].obj # 0
      BY Bounds DEF Refs
    <3>2. f.name = 0 /\ f.obj # 0 /\ ~On(stack, f.obj)
      BY <2>1, <2>2, <2>3
    <3>3. QED
      BY <2>4, <3>1, <3>2, PushOn
  <2>6. ASSUME NEW o \in 1 .. Len(heap')
        PROVE  heap'[o].refs = IF o = ret' \/ On(stack', o) THEN 1 ELSE 0
    <3>1. CASE o = NewId
      BY <2>1, <2>2, <2>5, <3>1
    <3>2. CASE o # NewId
      <4>1. o \in 1 .. Len(heap) /\ o # 0 /\ (On(stack', o) <=> On(stack, o))
        BY <2>1, <2>2, <2>5, <3>2, Bounds
      <4>2. QED
        BY <1>2, <2>1, <4>1 DEF Refs
    <3>3. QED
      BY <3>1, <3>2
  <2>7. QED
    BY <1>2, <2>5, <2>6 DEF Refs
<1>3. QED
  BY <1>1, <1>2 DEF Enter

\* Returning a container: its reference moves from the frame to ret.
LEMMA ReturnRefs ==
  ASSUME Control, Refs, stack # <<>>, Top.name = 0, ret = 0, ReturnContainer
  PROVE  Refs'
<1>1. stack' = Pop /\ ret' = Top.obj /\ heap' = heap
  BY DEF ReturnContainer
<1>2. /\ Distinct(stack') /\ ~On(stack', Top.obj)
      /\ \A o : On(stack, o) <=> On(stack', o) \/ o = Top.obj \/ o = Top.name
  BY <1>1, PopStackOn
<1>3. ASSUME NEW o \in 1 .. Len(heap)
      PROVE  heap[o].refs = IF o = ret' \/ On(stack', o) THEN 1 ELSE 0
  BY <1>1, <1>2, Bounds DEF Refs
<1>4. QED
  BY <1>1, <1>2, <1>3 DEF Refs

\* Returning NULL: the frame gives up its container and its key.
LEMMA AbandonRefs ==
  ASSUME Control, Refs, stack # <<>>, ret = 0, ret' = 0, Abandon
  PROVE  Refs'
<1>1. stack' = Pop
  BY DEF Abandon
<1>2. /\ Distinct(stack') /\ ~On(stack', Top.obj) /\ Top.obj # Top.name
      /\ Top.name # 0 => ~On(stack', Top.name)
      /\ \A o : On(stack, o) <=> On(stack', o) \/ o = Top.obj \/ o = Top.name
  BY <1>1, PopStackOn
<1>3. /\ Top.obj \in 1 .. Len(heap) /\ Top.name \in 0 .. Len(heap)
      /\ heap \in Seq(Objects) /\ Len(heap) \in Nat
  BY Bounds, TopPointers
<1> DEFINE h == Decref(heap, Top.obj)
<1>4. /\ h \in Seq(Objects) /\ Len(h) = Len(heap)
      /\ \A o \in 1 .. Len(heap) :
           h[o].refs = IF o = Top.obj THEN heap[o].refs - 1 ELSE heap[o].refs
  BY <1>3, DecrefHeap
<1>5. heap' = IF Top.name = 0 THEN h ELSE Decref(h, Top.name)
  BY DEF Abandon
<1> HIDE DEF h
<1>6. /\ Len(heap') = Len(heap)
      /\ \A o \in 1 .. Len(heap) :
           heap'[o].refs = IF o = Top.name THEN h[o].refs - 1 ELSE h[o].refs
  BY <1>3, <1>4, <1>5, DecrefHeap
<1>7. ASSUME NEW o \in 1 .. Len(heap)
      PROVE  heap'[o].refs = IF On(stack', o) THEN 1 ELSE 0
  <2>1. heap[o].refs = IF On(stack, o) THEN 1 ELSE 0
    BY <1>3 DEF Refs
  <2>2. h[o].refs = IF o = Top.obj THEN heap[o].refs - 1 ELSE heap[o].refs
    BY <1>4
  <2>3. heap'[o].refs = IF o = Top.name THEN h[o].refs - 1 ELSE h[o].refs
    BY <1>6
  <2>4. o # 0
    BY <1>3
  <2>5. QED
    BY <1>2, <2>1, <2>2, <2>3, <2>4
<1>8. ASSUME NEW o \in 1 .. Len(heap')
      PROVE  heap'[o].refs = IF o = ret' \/ On(stack', o) THEN 1 ELSE 0
  BY <1>3, <1>6, <1>7
<1>9. QED
  BY <1>2, <1>8 DEF Refs

\* Adding an item to a list releases the item.
LEMMA AddItemRefs ==
  ASSUME Control, Refs, AddItem
  PROVE  Refs'
<1>1. stack # <<>> /\ ret # 0 /\ stack' = stack /\ ret' = 0
  BY DEF AddItem, Returned
<1>2. /\ heap \in Seq(Objects) /\ Len(heap) \in Nat /\ ret \in 1 .. Len(heap)
      /\ Top.obj \in 1 .. Len(heap) /\ <<ret>> \in Seq(Nat)
  BY <1>1, Bounds, TopPointers
<1> DEFINE h == Adopt(heap, Top.obj, <<ret>>)
<1>3. h \in Seq(Objects) /\ Len(h) = Len(heap) /\ \A o \in 1 .. Len(heap) : h[o].refs = heap[o].refs
  BY <1>2, AdoptHeap
<1>4. \E g \in {heap, h} : heap' = Decref(g, ret)
  BY DEF AddItem
<1> HIDE DEF h
<1>5. /\ Len(heap') = Len(heap)
      /\ \A o \in 1 .. Len(heap) :
           heap'[o].refs = IF o = ret THEN heap[o].refs - 1 ELSE heap[o].refs
  BY <1>2, <1>3, <1>4, DecrefHeap
<1>6. ASSUME NEW o \in 1 .. Len(heap')
      PROVE  heap'[o].refs = IF o = ret' \/ On(stack', o) THEN 1 ELSE 0
  BY <1>1, <1>2, <1>5 DEF Refs
<1>7. QED
  BY <1>1, <1>6 DEF Refs

\* A key moves from ret to the frame; what is no key is released.
LEMMA TakeKeyRefs ==
  ASSUME Control, Refs, TakeKey
  PROVE  Refs'
<1>1. stack # <<>> /\ ret # 0 /\ Top.name = 0
  BY DEF TakeKey, Returned
<1>2. /\ heap \in Seq(Objects) /\ Len(heap) \in Nat /\ ret \in 1 .. Len(heap)
      /\ Top.obj \in 1 .. Len(heap) /\ Top \in Frames /\ ~On(stack, ret)
  BY <1>1, Bounds, TopPointers DEF Refs
<1>3. CASE stack' = SetTop([Top EXCEPT !.name = ret]) /\ ret' = 0 /\ heap' = heap
  <2> DEFINE f == [Top EXCEPT !.name = ret]
  <2>1. f \in Frames /\ f.name = ret /\ f.obj = Top.obj
    <3>1. ret \in Nat
      BY <1>2
    <3>2. QED
      BY <1>2, <3>1, FrameUpdates
  <2>2. stack' = SetTop(f)
    BY <1>3
  <2> HIDE DEF f
  <2>3. /\ Distinct(stack')
        /\ \A o : o # 0 => (On(stack', o) <=> o = f.name \/ (On(stack, o) /\ o # Top.name))
    BY <1>1, <1>2, <2>1, <2>2, SetTopOn
  <2>4. ASSUME NEW o \in 1 .. Len(heap)
        PROVE  heap[o].refs = IF o = ret' \/ On(stack', o) THEN 1 ELSE 0
    <3>1. o # 0 /\ (On(stack', o) <=> o = ret \/ On(stack, o))
      BY <1>1, <1>2, <2>1, <2>3
    <3>2. QED
      BY <1>3, <3>1 DEF Refs
  <2>5. QED
    BY <1>3, <2>3, <2>4 DEF Refs
<1>4. CASE stack' = Pop /\ heap' = Decref(Decref(heap, Top.obj), ret) /\ ret' = 0
  <2>1. /\ Distinct(stack') /\ ~On(stack', Top.obj)
        /\ \A o : On(stack, o) <=> On(stack', o) \/ o = Top.obj \/ o = Top.name
    BY <1>1, <1>4, PopStackOn
  <2> DEFINE h == Decref(heap, Top.obj)
  <2>2. /\ h \in Seq(Objects) /\ Len(h) = Len(heap)
        /\ \A o \in 1 .. Len(heap) :
             h[o].refs = IF o = Top.obj THEN heap[o].refs - 1 ELSE heap[o].refs
    BY <1>2, DecrefHeap
  <2>3. heap' = Decref(h, ret)
    BY <1>4
  <2> HIDE DEF h
  <2>4. /\ Len(heap') = Len(heap)
        /\ \A o \in 1 .. Len(heap) :
             heap'[o].refs = IF o = ret THEN h[o].refs - 1 ELSE h[o].refs
    BY <1>2, <2>2, <2>3, DecrefHeap
  <2>5. ASSUME NEW o \in 1 .. Len(heap)
        PROVE  heap'[o].refs = IF On(stack', o) THEN 1 ELSE 0
    <3>1. heap[o].refs = IF o = ret \/ On(stack, o) THEN 1 ELSE 0
      BY DEF Refs
    <3>2. h[o].refs = IF o = Top.obj THEN heap[o].refs - 1 ELSE heap[o].refs
      BY <2>2
    <3>3. heap'[o].refs = IF o = ret THEN h[o].refs - 1 ELSE h[o].refs
      BY <2>4
    <3>4. o # 0 /\ ret # Top.obj /\ ~On(stack', ret)
      BY <1>2, <2>1
    <3>5. QED
      BY <1>1, <2>1, <3>1, <3>2, <3>3, <3>4
  <2>6. ASSUME NEW o \in 1 .. Len(heap')
        PROVE  heap'[o].refs = IF o = ret' \/ On(stack', o) THEN 1 ELSE 0
    BY <1>2, <1>4, <2>4, <2>5
  <2>7. QED
    BY <1>4, <2>1, <2>6 DEF Refs
<1>5. QED
  BY <1>3, <1>4 DEF TakeKey, Fail

\* Adding a key to a dict releases key and value.
LEMMA AddKeyRefs ==
  ASSUME Control, Refs, AddKey
  PROVE  Refs'
<1>1. stack # <<>> /\ ret # 0 /\ Top.name # 0 /\ ret' = 0
  BY DEF AddKey, Returned
<1>2. /\ heap \in Seq(Objects) /\ Len(heap) \in Nat /\ ret \in 1 .. Len(heap)
      /\ Top.obj \in 1 .. Len(heap) /\ Top.name \in 1 .. Len(heap) /\ Top \in Frames
      /\ ~On(stack, ret) /\ <<Top.name, ret>> \in Seq(Nat)
  BY <1>1, Bounds, TopPointers DEF Refs
<1>3. /\ Distinct(stack')
      /\ \A o : o # 0 => (On(stack', o) <=> On(stack, o) /\ o # Top.name)
  <2> DEFINE f == [Top EXCEPT !.name = 0]
  <2>1. f \in Frames /\ f.name = 0 /\ f.obj = Top.obj /\ stack' = SetTop(f)
    BY <1>2, Updated DEF AddKey
  <2> HIDE DEF f
  <2>2. /\ Distinct(stack')
        /\ \A o : o # 0 => (On(stack', o) <=> o = f.name \/ (On(stack, o) /\ o # Top.name))
    BY <1>1, <2>1, SetTopOn
  <2>3. QED
    BY <2>1, <2>2
<1>4. On(stack, Top.name)
  BY <1>1, TopIsFrame DEF On, Top, Control, TypeOK
<1> DEFINE h == Adopt(heap, Top.obj, <<Top.name, ret>>)
<1>5. h \in Seq(Objects) /\ Len(h) = Len(heap) /\ \A o \in 1 .. Len(heap) : h[o].refs = heap[o].refs
  BY <1>2, AdoptHeap
<1>6. PICK g \in {heap, h} : heap' = Decref(Decref(g, Top.name), ret)
  BY DEF AddKey
<1>7. g \in Seq(Objects) /\ Len(g) = Len(heap) /\ \A o \in 1 .. Len(heap) : g[o].refs = heap[o].refs
  BY <1>2, <1>5
<1> HIDE DEF h
<1> DEFINE d == Decref(g, Top.name)
<1>8. /\ d \in Seq(Objects) /\ Len(d) = Len(heap)
      /\ \A o \in 1 .. Len(heap) :
           d[o].refs = IF o = Top.name THEN heap[o].refs - 1 ELSE heap[o].refs
  BY <1>2, <1>7, DecrefHeap
<1>9. heap' = Decref(d, ret)
  BY <1>6
<1> HIDE DEF d
<1>10. /\ Len(heap') = Len(heap)
       /\ \A o \in 1 .. Len(heap) :
            heap'[o].refs = IF o = ret THEN d[o].refs - 1 ELSE d[o].refs
  BY <1>2, <1>8, <1>9, DecrefHeap
<1>11. ASSUME NEW o \in 1 .. Len(heap)
       PROVE  heap'[o].refs = IF On(stack', o) THEN 1 ELSE 0
  <2>1. heap[o].refs = IF o = ret \/ On(stack, o) THEN 1 ELSE 0
    BY DEF Refs
  <2>2. d[o].refs = IF o = Top.name THEN heap[o].refs - 1 ELSE heap[o].refs
    BY <1>8
  <2>3. heap'[o].refs = IF o = ret THEN d[o].refs - 1 ELSE d[o].refs
    BY <1>10
  <2>4. o # 0 /\ ret # Top.name /\ (On(stack', o) <=> On(stack, o) /\ o # Top.name)
    BY <1>2, <1>3, <1>4
  <2>5. QED
    BY <1>2, <1>4, <2>1, <2>2, <2>3, <2>4
<1>12. ASSUME NEW o \in 1 .. Len(heap')
       PROVE  heap'[o].refs = IF o = ret' \/ On(stack', o) THEN 1 ELSE 0
  BY <1>1, <1>2, <1>10, <1>11
<1>13. QED
  BY <1>1, <1>3, <1>12 DEF Refs

\* A comma counts an element and changes nothing that is owned.
LEMMA CommaRefs ==
  ASSUME Control, Refs, stack # <<>>, Top.name = 0, ret = 0,
         stack' = SetTop([Top EXCEPT !.len = @ + 1]), ret' = ret, heap' = heap
  PROVE  Refs'
<1> DEFINE f == [Top EXCEPT !.len = @ + 1]
<1>1. f \in Frames /\ f.name = 0 /\ f.obj = Top.obj /\ stack' = SetTop(f)
  BY TopPointers, Updated
<1> HIDE DEF f
<1>2. /\ Distinct(stack')
      /\ \A o : o # 0 => (On(stack', o) <=> o = f.name \/ (On(stack, o) /\ o # Top.name))
  BY <1>1, SetTopOn
<1>3. ASSUME NEW o \in 1 .. Len(heap)
      PROVE  heap[o].refs = IF o = ret' \/ On(stack', o) THEN 1 ELSE 0
  <2>1. o # 0
    BY Bounds
  <2>2. On(stack', o) <=> On(stack, o)
    BY <1>1, <1>2, <2>1
  <2>3. QED
    BY <2>2 DEF Refs
<1>4. QED
  BY <1>2, <1>3 DEF Refs

\* A result that is not handed out is released.
LEMMA DropRefs ==
  ASSUME Control, Refs, stack' = stack, ret # 0, heap' = Decref(heap, ret), ret' = 0
  PROVE  Refs'
<1>1. heap \in Seq(Objects) /\ Len(heap) \in Nat /\ ret \in 1 .. Len(heap)
  BY Bounds
<1>2. /\ Len(heap') = Len(heap)
      /\ \A o \in 1 .. Len(heap) :
           heap'[o].refs = IF o = ret THEN heap[o].refs - 1 ELSE heap[o].refs
  BY <1>1, DecrefHeap
<1>3. ASSUME NEW o \in 1 .. Len(heap')
      PROVE  heap'[o].refs = IF o = ret' \/ On(stack', o) THEN 1 ELSE 0
  BY <1>1, <1>2 DEF Refs
<1>4. QED
  BY <1>3 DEF Refs

(***************************************************************************)
(* Refs is inductive, and implies RefsBalanced.                            *)
(***************************************************************************)

\* Nothing is owned when loads is called.
LEMMA RefsInit == Init => Refs
<1> SUFFICES ASSUME Init PROVE Refs
  OBVIOUS
<1>1. ret = 0 /\ DOMAIN stack = {} /\ Len(heap) = 0
  BY EmptySeq DEF Init
<1>2. QED
  BY <1>1 DEF Refs, Distinct, On

\* Every step of the decoder keeps Refs.
LEMMA RefsStep == Control /\ Refs /\ [Next]_vars => Refs'
<1> SUFFICES ASSUME Control, Refs, [Next]_vars PROVE Refs'
  OBVIOUS
<1>0. /\ pc \in {"call", "any", "loop", "colon", "sep"} => ret = 0
      /\ pc \in {"loop", "colon", "sep"} => stack # <<>>
      /\ pc \in {"loop", "sep"} => Top.name = 0
  BY DEF Control, GoingOn, Activations, Keys
<1>1. CASE \/ RejectArgument \/ StartDecoding \/ SkipWhitespace \/ NextElement
           \/ FreeEscapes \/ UNCHANGED vars
  BY <1>1, QuietRefs
     DEF RejectArgument, StartDecoding, SkipWhitespace, NextElement, FreeEscapes, dsVars, vars
<1>2. CASE DecodeString
  <2>1. ret = 0 /\ stack' = stack
    BY <1>0, <1>2 DEF DecodeString, Decode
  <2>2. CASE ret' = 0 /\ heap' = heap
    BY <2>1, <2>2, QuietRefs
  <2>3. CASE Made("str", "newScalar")
    BY <2>1, <2>3, MadeRefs DEF Kinds
  <2>4. QED
    BY <1>2, <2>2, <2>3 DEF DecodeString, NoMemory, Fail
<1>3. CASE DecodeScalar
  BY <1>0, <1>3, MadeRefs DEF DecodeScalar, Decode, Kinds
<1>4. CASE RejectValue
  BY <1>0, <1>4, QuietRefs DEF RejectValue, Decode, Fail
<1>5. CASE DecodeArray \/ DecodeObject
  BY <1>0, <1>5, EnterRefs DEF DecodeArray, DecodeObject, Decode, Kinds
<1>6. CASE CloseAtHead
  <2>1. ret = 0 /\ stack # <<>> /\ Top.name = 0
    BY <1>0, <1>6 DEF CloseAtHead
  <2>2. CASE ReturnContainer
    BY <2>1, <2>2, ReturnRefs
  <2>3. CASE Abandon /\ Fail("close")
    BY <2>1, <2>3, AbandonRefs DEF Fail
  <2>4. QED
    BY <1>6, <2>2, <2>3 DEF CloseAtHead
<1>7. CASE Unwind
  BY <1>7, AbandonRefs DEF Unwind
<1>8. CASE AddItem
  BY <1>8, AddItemRefs
<1>9. CASE TakeKey
  BY <1>9, TakeKeyRefs
<1>10. CASE ExpectColon
  <2>1. ret = 0 /\ stack # <<>>
    BY <1>0, <1>10 DEF ExpectColon
  <2>2. CASE UNCHANGED <<stack, ret, errorStr, heap>>
    BY <2>2, QuietRefs
  <2>3. CASE Abandon /\ Fail("colon")
    BY <2>1, <2>3, AbandonRefs DEF Fail
  <2>4. QED
    BY <1>10, <2>2, <2>3 DEF ExpectColon
<1>11. CASE AddKey
  BY <1>11, AddKeyRefs
<1>12. CASE Separator
  <2>1. ret = 0 /\ stack # <<>> /\ Top.name = 0
    BY <1>0, <1>12 DEF Separator
  <2>2. CASE ReturnContainer
    BY <2>1, <2>2, ReturnRefs
  <2>3. CASE /\ stack' = SetTop([Top EXCEPT !.len = @ + 1])
             /\ UNCHANGED <<ret, objDepth, errorStr, heap>>
    BY <2>1, <2>3, CommaRefs
  <2>4. CASE Abandon /\ Fail("separator")
    BY <2>1, <2>4, AbandonRefs DEF Fail
  <2>5. QED
    BY <1>12, <2>2, <2>3, <2>4 DEF Separator
<1>13. CASE CheckTrailing
  BY <1>13, QuietRefs, DropRefs DEF CheckTrailing
<1>14. CASE ReturnToPython
  BY <1>14, QuietRefs, DropRefs DEF ReturnToPython
<1>15. QED
  BY <1>1, <1>2, <1>3, <1>4, <1>5, <1>6, <1>7, <1>8, <1>9, <1>10, <1>11, <1>12,
     <1>13, <1>14 DEF Next, Element, Loop, Finish

\* What the variables own is what the frames and ret own.
LEMMA RefsImplyBalance == Control /\ Refs => RefsBalanced
<1> SUFFICES ASSUME Control, Refs, NEW o \in DOMAIN heap
             PROVE  heap[o].refs = IF o \in Owned THEN 1 ELSE 0
  BY DEF RefsBalanced
<1>1. o \in 1 .. Len(heap) /\ o # 0
  BY Bounds
<1>2. o \in Owned <=> o = ret \/ On(stack, o)
  BY <1>1 DEF Owned, On
<1>3. QED
  BY <1>1, <1>2 DEF Refs

\* No object is leaked and none is released twice, on any path through
\* decode_array, decode_object, JSON_DecodeObject and JSONToObj, whichever
\* callbacks fail.
THEOREM RefsCorrect == Spec => []RefsBalanced
BY RefsInit, RefsStep, RefsImplyBalance, ControlInvariant, PTL DEF Spec

-----------------------------------------------------------------------------
(* The memory: where the decoder reads, what it holds, what it builds. *)

(***************************************************************************)
(* What the steps do to the kinds and the contents of objects.             *)
(***************************************************************************)

\* The objects of h are those of g, but for their counts.
SameObjects(h, g) ==
  /\ Len(h) = Len(g)
  /\ \A o \in 1 .. Len(g) : h[o].kind = g[o].kind /\ h[o].kids = g[o].kids

\* Releasing an object changes neither its kind nor its contents.
LEMMA DecrefSame ==
  ASSUME NEW h \in Seq(Objects), NEW o \in 1 .. Len(h)
  PROVE  Decref(h, o) \in Seq(Objects) /\ SameObjects(Decref(h, o), h)
<1>1. \A p \in 1 .. Len(h) : h[p] \in Objects
  BY ElementOfSeq
<1> DEFINE obj == [h[o] EXCEPT !.refs = @ - 1]
<1>2. obj \in Objects /\ obj.kind = h[o].kind /\ obj.kids = h[o].kids
  <2>1. h[o].refs - 1 \in Int
    BY <1>1 DEF Objects
  <2>2. QED
    BY <1>1, <2>1 DEF Objects
<1>3. Decref(h, o) = [h EXCEPT ![o] = obj]
  BY <1>1 DEF Decref, Objects
<1> HIDE DEF obj
<1>4. /\ Len(Decref(h, o)) = Len(h)
      /\ \A p \in 1 .. Len(h) : Decref(h, o)[p] = IF p = o THEN obj ELSE h[p]
  BY <1>2, <1>3, ExceptSeq
<1>5. QED
  BY <1>2, <1>4, DecrefHeap DEF SameObjects

\* Adopting adds to the contents of one container.
LEMMA AdoptKids ==
  ASSUME NEW h \in Seq(Objects), NEW c \in 1 .. Len(h), NEW kids \in Seq(Nat)
  PROVE  /\ Adopt(h, c, kids) \in Seq(Objects)
         /\ Len(Adopt(h, c, kids)) = Len(h)
         /\ \A p \in 1 .. Len(h) :
              /\ Adopt(h, c, kids)[p].kind = h[p].kind
              /\ Adopt(h, c, kids)[p].kids = IF p = c THEN h[c].kids \o kids ELSE h[p].kids
<1>1. h[c] \in Objects
  BY ElementOfSeq
<1> DEFINE obj == [h[c] EXCEPT !.kids = @ \o kids]
<1>2. h[c].kids \o kids \in Seq(Nat)
  BY <1>1, ConcatProperties DEF Objects
<1>3. obj \in Objects /\ obj.kind = h[c].kind /\ obj.kids = h[c].kids \o kids
  BY <1>1, <1>2 DEF Objects
<1>4. Adopt(h, c, kids) = [h EXCEPT ![c] = obj]
  BY <1>1 DEF Adopt, Objects
<1> HIDE DEF obj
<1>5. /\ Len(Adopt(h, c, kids)) = Len(h)
      /\ \A p \in 1 .. Len(h) : Adopt(h, c, kids)[p] = IF p = c THEN obj ELSE h[p]
  BY <1>3, <1>4, ExceptSeq
<1>6. QED
  BY <1>3, <1>5, AdoptHeap

\* A new object is empty and changes no other.
LEMMA NewKind ==
  ASSUME heap \in Seq(Objects), NEW kind \in Kinds
  PROVE  /\ Len(NewObject(kind)) = Len(heap) + 1
         /\ NewObject(kind)[Len(heap) + 1].kind = kind
         /\ NewObject(kind)[Len(heap) + 1].kids = <<>>
         /\ \A o \in 1 .. Len(heap) : NewObject(kind)[o] = heap[o]
<1> DEFINE obj == [kind |-> kind, refs |-> 1, kids |-> <<>>]
<1>1. obj \in Objects /\ obj.kind = kind /\ obj.kids = <<>>
  BY EmptySeq DEF Objects
<1>2. NewObject(kind) = Append(heap, obj)
  BY DEF NewObject
<1> HIDE DEF obj
<1>3. QED
  BY <1>1, <1>2, AppendProperties, LenProperties

\* The step makes an object of a kind.
Makes(kind) ==
  /\ pc = "any"
  /\ Len(heap') = Len(heap) + 1
  /\ heap'[Len(heap) + 1].kind = kind
  /\ heap'[Len(heap) + 1].kids = <<>>
  /\ \A o \in 1 .. Len(heap) : heap'[o] = heap[o]

\* The step puts objects into the container on top.
Puts(kids) ==
  /\ Len(heap') = Len(heap)
  /\ \A o \in 1 .. Len(heap) :
       /\ heap'[o].kind = heap[o].kind
       /\ heap'[o].kids = IF o = Top.obj THEN heap[o].kids \o kids ELSE heap[o].kids

\* A callback makes an object that is returned, or fails.
LEMMA MadeSteps ==
  ASSUME Control, pc = "any", NEW kind \in Kinds, NEW cb, Made(kind, cb)
  PROVE  \/ /\ SameObjects(heap', heap) /\ ret' = 0 /\ pyErr' = "callback"
            /\ TRUE \in MayFail(cb)
         \/ Makes(kind) /\ ret' = Len(heap) + 1 /\ pyErr' = pyErr
<1>1. heap \in Seq(Objects) /\ Len(heap) \in Nat
  BY LenProperties DEF Control, TypeOK
<1>2. PICK failed \in MayFail(cb) :
        /\ heap' = IF failed THEN heap ELSE NewObject(kind)
        /\ ret' = IF failed THEN 0 ELSE NewId
        /\ pyErr' = IF failed THEN "callback" ELSE pyErr
  BY DEF Made
<1>3. CASE failed = TRUE
  BY <1>2, <1>3 DEF SameObjects
<1>4. CASE failed = FALSE
  BY <1>1, <1>2, <1>4, NewKind DEF Makes, NewId
<1>5. QED
  BY <1>2, <1>3, <1>4, Zenon DEF MayFail

\* Abandoning an activation changes no object.
LEMMA AbandonSame ==
  ASSUME Control, stack # <<>>, Abandon
  PROVE  SameObjects(heap', heap)
<1>1. heap \in Seq(Objects) /\ Top.obj \in 1 .. Len(heap) /\ Top.name \in 0 .. Len(heap)
  BY TopPointers DEF Control, TypeOK
<1> DEFINE h == Decref(heap, Top.obj)
<1>2. h \in Seq(Objects) /\ SameObjects(h, heap)
  BY <1>1, DecrefSame
<1>3. CASE Top.name = 0
  BY <1>2, <1>3 DEF Abandon
<1>4. CASE Top.name # 0
  <2>1. heap' = Decref(h, Top.name)
    BY <1>4 DEF Abandon
  <2> HIDE DEF h
  <2>2. Top.name \in 1 .. Len(h)
    BY <1>1, <1>2, <1>4 DEF SameObjects
  <2>3. SameObjects(heap', h)
    BY <1>2, <2>1, <2>2, DecrefSame
  <2>4. QED
    BY <1>2, <2>3 DEF SameObjects
<1>5. QED
  BY <1>3, <1>4

\* The callback that appends to a list succeeds, or fails with an exception.
LEMMA AddItemSteps ==
  ASSUME Control, AddItem
  PROVE  \/ SameObjects(heap', heap) /\ pyErr' = "callback" /\ TRUE \in MayFail("addItem")
         \/ Puts(<<ret>>) /\ pyErr' = pyErr
<1>1. /\ heap \in Seq(Objects) /\ ret \in 1 .. Len(heap) /\ Top.obj \in 1 .. Len(heap)
      /\ <<ret>> \in Seq(Nat)
  <2>1. stack # <<>> /\ ret # 0
    BY DEF AddItem, Returned
  <2>2. QED
    BY <2>1, TopPointers, LenProperties DEF Control, TypeOK, Pointers
<1> DEFINE h == Adopt(heap, Top.obj, <<ret>>)
<1>2. PICK failed \in MayFail("addItem") :
        /\ heap' = Decref(IF failed THEN heap ELSE h, ret)
        /\ pyErr' = IF failed THEN "callback" ELSE pyErr
  BY DEF AddItem
<1>3. h \in Seq(Objects) /\ Len(h) = Len(heap)
      /\ \A p \in 1 .. Len(heap) :
           /\ h[p].kind = heap[p].kind
           /\ h[p].kids = IF p = Top.obj THEN heap[Top.obj].kids \o <<ret>> ELSE heap[p].kids
  BY <1>1, AdoptKids
<1> HIDE DEF h
<1>4. CASE failed = TRUE
  BY <1>1, <1>2, <1>4, DecrefSame
<1>5. CASE failed = FALSE
  <2>1. heap' = Decref(h, ret) /\ SameObjects(heap', h)
    BY <1>1, <1>2, <1>3, <1>5, DecrefSame
  <2>2. QED
    BY <1>2, <1>3, <1>5, <2>1 DEF SameObjects, Puts
<1>6. QED
  BY <1>2, <1>4, <1>5, Zenon DEF MayFail

\* The callback that sets an item of a dictionary succeeds with a hashable key,
\* or fails with an exception.
LEMMA AddKeySteps ==
  ASSUME Control, AddKey
  PROVE  \/ /\ SameObjects(heap', heap) /\ pyErr' = "JSONDecodeError"
            /\ TRUE \in MayFail("addItem") \/ heap[Top.name].kind \in {"list", "dict"}
         \/ /\ Puts(<<Top.name, ret>>) /\ pyErr' = pyErr
            /\ heap[Top.name].kind \notin {"list", "dict"}
<1>1. /\ heap \in Seq(Objects) /\ ret \in 1 .. Len(heap) /\ Top.obj \in 1 .. Len(heap)
      /\ Top.name \in 1 .. Len(heap) /\ <<Top.name, ret>> \in Seq(Nat)
  <2>1. stack # <<>> /\ ret # 0 /\ Top.name # 0
    BY DEF AddKey, Returned
  <2>2. QED
    BY <2>1, TopPointers, LenProperties DEF Control, TypeOK, Pointers
<1> DEFINE h == Adopt(heap, Top.obj, <<Top.name, ret>>)
           unhashable == heap[Top.name].kind \in {"list", "dict"}
<1>2. PICK failed \in MayFail("addItem") \union {unhashable} :
        /\ unhashable => failed
        /\ heap' = Decref(Decref(IF failed THEN heap ELSE h, Top.name), ret)
        /\ pyErr' = IF failed THEN "JSONDecodeError" ELSE pyErr
  BY DEF AddKey
<1>3. h \in Seq(Objects) /\ Len(h) = Len(heap)
      /\ \A p \in 1 .. Len(heap) :
           /\ h[p].kind = heap[p].kind
           /\ h[p].kids = IF p = Top.obj THEN heap[Top.obj].kids \o <<Top.name, ret>>
                          ELSE heap[p].kids
  BY <1>1, AdoptKids
<1> HIDE DEF h
<1>4. ASSUME NEW g \in Seq(Objects), Len(g) = Len(heap)
      PROVE  SameObjects(Decref(Decref(g, Top.name), ret), g)
  <2> DEFINE d == Decref(g, Top.name)
  <2>1. d \in Seq(Objects) /\ SameObjects(d, g)
    BY <1>1, <1>4, DecrefSame
  <2> HIDE DEF d
  <2>2. SameObjects(Decref(d, ret), d)
    BY <1>1, <1>4, <2>1, DecrefSame DEF SameObjects
  <2>3. QED
    BY <2>1, <2>2 DEF SameObjects, d
<1>5. CASE failed = TRUE
  <2>1. SameObjects(heap', heap) /\ pyErr' = "JSONDecodeError"
    BY <1>1, <1>2, <1>4, <1>5
  <2>2. TRUE \in MayFail("addItem") \/ unhashable
    BY <1>2, <1>5, Zenon
  <2>3. QED
    BY <2>1, <2>2
<1>6. CASE failed = FALSE
  <2>1. SameObjects(heap', h)
    BY <1>2, <1>3, <1>4, <1>6
  <2>2. Puts(<<Top.name, ret>>)
    BY <1>3, <2>1 DEF SameObjects, Puts
  <2>3. QED
    BY <1>2, <1>6, <2>2
<1>7. QED
  <2>1. CASE failed \in MayFail("addItem")
    BY <1>5, <1>6, <2>1, Zenon DEF MayFail
  <2>2. CASE failed = unhashable
    <3>1. unhashable \in BOOLEAN
      OBVIOUS
    <3> HIDE DEF unhashable
    <3>2. QED
      BY <1>5, <1>6, <2>2, <3>1, Zenon
  <2>3. QED
    BY <1>2, <2>1, <2>2, Zenon

(***************************************************************************)
(* Where the decoder reads, and what it holds.                             *)
(***************************************************************************)

\* Without an error the decoder is not behind the NUL.
Position == errorStr = "none" => start <= Len(memory) + 1

\* decode_any is called for an element or a key at its first character.
AtElement ==
  pc = "any" /\ stack # <<>> /\ Top.name = 0 =>
    ~IsSpace /\ CharAt(start) # Closer(Top.kind)

\* Decoding starts only with an argument that has bytes.
HasBytes == argKind = "other" => pc \in {"call", "done"}

\* The check of trailing data comes at once only at the end of the document.
TailAtEnd == pc = "tail" => Remaining <= 0

\* The escape buffer on the heap is as long as what is left to decode.
EscapesFit == "esc" \in held => escLen >= end - start

\* What is held at the ends of a call.
Holding ==
  /\ pc = "call" => held = {}
  /\ pc \in {"skip", "tail", "binding"} => "esc" \notin held
  /\ pc = "done" => held = {}

\* Inductive relative to Control.
Reading == Position /\ AtElement /\ HasBytes /\ TailAtEnd /\ EscapesFit /\ Holding

\* White space and the characters of Chars are not the NUL behind the document.
LEMMA NotBehind ==
  ASSUME Len(memory) \in Nat, start \in Nat
  PROVE  /\ IsSpace => start <= Len(memory)
         /\ CharAt(start) # NUL => start <= Len(memory)
<1>1. CharAt(start) # NUL => start <= Len(memory)
  BY DEF CharAt
<1>2. IsSpace => CharAt(start) # NUL
  BY Zenon DEF IsSpace, NUL
<1>3. QED
  BY <1>1, <1>2

\* Reading holds when loads is called.
LEMMA ReadingInit == Init => Reading
<1> SUFFICES ASSUME Init PROVE Reading
  OBVIOUS
<1>1. Len(memory) \in Nat
  BY DecoderAssumption, LenProperties DEF Init
<1>2. QED
  BY <1>1 DEF Init, Reading, Position, AtElement, HasBytes, TailAtEnd, EscapesFit, Holding

\* Every step of the decoder keeps Reading.
LEMMA ReadingStep == Control /\ Reading /\ [Next]_vars => Reading'
<1> SUFFICES ASSUME Control, Reading, [Next]_vars PROVE Reading'
  OBVIOUS
<1>0. /\ start \in Nat \ {0} /\ end \in Int /\ escLen \in Nat /\ Len(memory) \in Nat
      /\ held \subseteq {"arg", "s2d", "esc"} /\ stack \in Seq(Frames) /\ GoingOn
  BY DecoderAssumption, LenProperties DEF Control, TypeOK
<1>a. /\ IsSpace => start <= Len(memory)
      /\ CharAt(start) # NUL => start <= Len(memory)
  BY <1>0, NotBehind
<1> USE <1>0, <1>a DEF Reading, Position, AtElement, HasBytes, TailAtEnd, EscapesFit, Holding, dsVars,
                 Remaining, GoingOn, Fail
<1>b. ASSUME pc \in {"loop", "sep"}, errorStr' # "none", pc' = "return",
             start' \in {start, start + 1}, UNCHANGED <<argKind, memory, end, escLen, held>>
      PROVE  Reading'
  <2>1. argKind' # "other"
    BY <1>b
  <2>2. "esc" \in held' => escLen' >= end' - start'
    <3>1. \A e, n, s, r \in Int : e >= n - s /\ r \in {s, s + 1} => e >= n - r
      OBVIOUS
    <3>2. "esc" \in held' => escLen >= end - start
      BY <1>b
    <3>3. start' \in Int /\ escLen \in Int
      BY <1>b
    <3>4. escLen' = escLen /\ end' = end /\ held' = held /\ start' \in {start, start + 1}
      BY <1>b, Zenon
    <3> HIDE <1>0, <1>a DEF Reading, Position, AtElement, HasBytes, TailAtEnd, EscapesFit,
             Holding, GoingOn
    <3>5. start \in Int /\ end \in Int
      BY <1>0
    <3>6. QED
      BY <3>1, <3>2, <3>3, <3>4, <3>5
  <2>3. QED
    BY <1>b, <2>1, <2>2, Zenon
<1>1. CASE RejectArgument
  BY <1>1 DEF RejectArgument
<1>2. CASE StartDecoding
  BY <1>2 DEF StartDecoding, Control, Activations
<1>3. CASE SkipWhitespace
  <2>1. AtElement'
    BY <1>3 DEF SkipWhitespace, Top
  <2>2. QED
    BY <1>3, <2>1 DEF SkipWhitespace
<1>4. CASE DecodeString
  <2>1. /\ pc = "any" /\ pc' = "return" /\ start' = start + 1 /\ start <= Len(memory)
        /\ UNCHANGED <<argKind, memory, end>>
    BY <1>4 DEF DecodeString, Decode, NoMemory, Made, NUL
  <2>2. CASE UNCHANGED <<escLen, held>>
    BY <2>1, <2>2
  <2>3. CASE ReserveEscapes(end - start)
    BY <2>1, <2>3 DEF ReserveEscapes
  <2>4. QED
    BY <1>4, <2>2, <2>3 DEF DecodeString, NoMemory
<1>5. CASE DecodeScalar
  BY <1>5 DEF DecodeScalar, Decode, Made, NUL
<1>6. CASE RejectValue
  BY <1>6 DEF RejectValue, Decode
<1>7. CASE DecodeArray
  <2>1. pc = "any" /\ start <= Len(memory) /\ Enter("array", "list")
    <3>1. pc = "any" /\ CharAt(start) # NUL /\ Enter("array", "list")
      BY <1>7, Zenon DEF DecodeArray, Decode, NUL
    <3>2. QED
      BY <3>1
  <2>2. QED
    BY <2>1 DEF Enter
<1>8. CASE DecodeObject
  <2>1. pc = "any" /\ start <= Len(memory) /\ Enter("object", "dict")
    <3>1. pc = "any" /\ CharAt(start) # NUL /\ Enter("object", "dict")
      BY <1>8, Zenon DEF DecodeObject, Decode, NUL
    <3>2. QED
      BY <3>1
  <2>2. QED
    BY <2>1 DEF Enter
<1>9. CASE CloseAtHead
  <2>1. CASE ReturnContainer
    <3>1. CharAt(start) # NUL
      BY <1>9, Zenon DEF CloseAtHead, Closer, NUL
    <3>2. QED
      BY <1>9, <2>1, <3>1 DEF CloseAtHead, ReturnContainer
  <2>2. CASE Fail("close") /\ UNCHANGED start
    <3>1. /\ pc = "loop" /\ errorStr' = "close" /\ pc' = "return"
          /\ UNCHANGED <<start, argKind, memory, end, escLen, held>>
      BY <1>9, <2>2, Zenon DEF CloseAtHead, Fail
    <3>2. QED
      BY <1>b, <3>1
  <2>3. QED
    BY <1>9, <2>1, <2>2 DEF CloseAtHead
<1>10. CASE NextElement
  <2>1. IsSpace' <=> IsSpace
    BY <1>10, Zenon DEF NextElement, IsSpace, CharAt
  <2>2. CharAt(start)' = CharAt(start) /\ Top' = Top
    BY <1>10 DEF NextElement, CharAt, Top
  <2>3. QED
    BY <1>10, <2>1, <2>2 DEF NextElement
<1>11. CASE Unwind
  BY <1>11 DEF Unwind
<1>12. CASE AddItem
  BY <1>12 DEF AddItem, Returned
<1>13. CASE TakeKey
  BY <1>13 DEF TakeKey, Returned
<1>14. CASE ExpectColon
  BY <1>14 DEF ExpectColon, Control, Keys, NUL, Top
<1>15. CASE AddKey
  BY <1>15 DEF AddKey, Returned
<1>16. CASE Separator
  <2>1. pc = "sep" /\ UNCHANGED <<argKind, memory, end, escLen, held>>
    BY <1>16, Zenon DEF Separator
  <2>2. CASE Fail("separator") /\ start' = start + 1
    BY <1>b, <2>1, <2>2
  <2>3. CASE CharAt(start) # NUL /\ pc' = "return" /\ start' = start + 1 /\ UNCHANGED errorStr
    BY <2>1, <2>3
  <2>4. CASE CharAt(start) # NUL /\ pc' = "loop" /\ start' = start + 1 /\ UNCHANGED errorStr
    BY <2>1, <2>4
  <2>5. QED
    BY <1>16, <2>2, <2>3, <2>4, Zenon DEF Separator, ReturnContainer, Closer, NUL
<1>17. CASE FreeEscapes
  BY <1>17 DEF FreeEscapes
<1>18. CASE CheckTrailing
  BY <1>18 DEF CheckTrailing
<1>19. CASE ReturnToPython
  BY <1>19 DEF ReturnToPython
<1>20. CASE UNCHANGED vars
  <2>1. AtElement'
    <3>1. IsSpace' <=> IsSpace
      BY <1>20, Zenon DEF vars, dsVars, IsSpace, CharAt
    <3>2. CharAt(start)' = CharAt(start) /\ Top' = Top
      BY <1>20 DEF vars, CharAt, Top
    <3>3. QED
      BY <1>20, <3>1, <3>2 DEF vars
  <2>2. QED
    BY <1>20, <2>1 DEF vars
<1>21. QED
  BY <1>1, <1>2, <1>3, <1>4, <1>5, <1>6, <1>7, <1>8, <1>9, <1>10, <1>11, <1>12, <1>13,
     <1>14, <1>15, <1>16, <1>17, <1>18, <1>19, <1>20
     DEF Next, Element, Loop, Finish

(***************************************************************************)
(* Theorems on one call.                                                   *)
(***************************************************************************)

\* Reading holds in every state of a call of loads.
THEOREM ReadingInvariant == Spec => []Reading
BY ReadingInit, ReadingStep, ControlInvariant, PTL DEF Spec

\* decode_any, SkipWhitespace and the loops of decode_array and decode_object
\* never read behind the NUL that ends the bytes, whatever the document and
\* wherever its view ends.
THEOREM NulCorrect == Spec => []NoReadPastNul
<1>1. Control /\ Reading => NoReadPastNul
  BY Zenon DEF Control, ErrorIsNull, Reading, Position, NoReadPastNul
<1>2. QED
  BY <1>1, ControlInvariant, ReadingInvariant, PTL

\* When JSONToObj returns, the escape buffer, the converter and the bytes are
\* free, no activation is left, and the result is all that is handed out.
THEOREM HeldCorrect == Spec => []NothingHeld
<1>1. Control /\ Reading => NothingHeld
  <2> SUFFICES ASSUME Control, Reading, pc = "done" PROVE NothingHeld
    BY DEF NothingHeld
  <2>1. held = {} /\ stack = <<>>
    BY DEF Control, Activations, Reading, Holding
  <2>2. Owned = {ret} \ {0}
    BY <2>1 DEF Owned
  <2>3. QED
    BY <2>1, <2>2 DEF NothingHeld
<1>2. QED
  BY <1>1, ControlInvariant, ReadingInvariant, PTL

\* The escape buffer of decode_string is moved to the heap at most once.
THEOREM GrowsOnceCorrect == Spec => GrowsOnce
<1>1. Control /\ Reading /\ [Next]_vars => [held \intersect {"esc"} # {} => escLen' = escLen]_vars
  <2> SUFFICES ASSUME Control, Reading, Next, held \intersect {"esc"} # {}
               PROVE  escLen' = escLen
    BY DEF vars
  <2>1. CASE DecodeString
    <3>1. escLen \in Nat /\ end - start \in Int /\ escLen >= end - start
      BY DecoderAssumption, LenProperties DEF Control, TypeOK, Reading, EscapesFit
    <3>2. CASE ReserveEscapes(end - start)
      BY <3>1, <3>2 DEF ReserveEscapes
    <3>3. CASE UNCHANGED escLen
      BY <3>3
    <3>4. QED
      BY <2>1, <3>2, <3>3, Zenon DEF DecodeString, NoMemory
  <2>2. CASE ~DecodeString
    BY <2>2 DEF Next, Element, Loop, Finish, RejectArgument, StartDecoding, SkipWhitespace,
       DecodeScalar, RejectValue, DecodeArray, DecodeObject, Enter, CloseAtHead, NextElement,
       Unwind, AddItem, TakeKey, ExpectColon, AddKey, Separator, FreeEscapes, CheckTrailing,
       ReturnToPython, dsVars
  <2>3. QED
    BY <2>1, <2>2
<1>2. QED
  BY <1>1, ControlInvariant, ReadingInvariant, PTL DEF Spec, GrowsOnce

\* No step clears the pending exception.
LEMMA ExceptionStep == Next => (pyErr # "none" => pyErr' # "none")
<1> SUFFICES ASSUME Next, pyErr # "none" PROVE pyErr' # "none"
  OBVIOUS
<1>1. ASSUME NEW kind, NEW cb, Made(kind, cb) PROVE pyErr' # "none"
  BY <1>1 DEF Made
<1>2. CASE DecodeString
  BY <1>1, <1>2, Zenon DEF DecodeString, NoMemory
<1>3. CASE DecodeScalar
  BY <1>1, <1>3, Zenon DEF DecodeScalar
<1>4. CASE AddItem
  BY <1>4 DEF AddItem
<1>5. CASE AddKey
  BY <1>5 DEF AddKey
<1>6. CASE RejectArgument \/ ReturnToPython
  BY <1>6 DEF RejectArgument, ReturnToPython
<1>7. CASE UNCHANGED pyErr
  BY <1>7
<1>8. QED
  BY <1>2, <1>3, <1>4, <1>5, <1>6, <1>7, Zenon
     DEF Next, Element, Loop, Finish, StartDecoding, SkipWhitespace,
         RejectValue, DecodeArray, DecodeObject, Enter, CloseAtHead, NextElement,
         Unwind, TakeKey, ExpectColon, Separator, FreeEscapes, CheckTrailing

\* No exception of a callback is cleared by what is decoded after it.
THEOREM ExceptionCorrect == Spec => ExceptionKept
<1>1. [Next]_vars => [pyErr # "none" => pyErr' # "none"]_vars
  BY ExceptionStep DEF vars
<1>2. QED
  BY <1>1, PTL DEF Spec, ExceptionKept

(***************************************************************************)
(* The objects the decoder builds.                                         *)
(***************************************************************************)

\* An activation builds the container of its kind.
Containers ==
  \A i \in DOMAIN stack :
    heap[stack[i].obj].kind = IF stack[i].kind = "array" THEN "list" ELSE "dict"

\* What passed the check of lastType for a key is no scalar but a string.
KeyKinds ==
  \A i \in DOMAIN stack : stack[i].name # 0 => heap[stack[i].name].kind # "other"

\* lastType is that of the scalar decode_any returns.
ReturnedType ==
  pc = "return" /\ ret # 0 =>
    /\ heap[ret].kind = "str" => lastType = "UTF8"
    /\ heap[ret].kind = "other" => lastType = "SCALAR"

\* A dict holds pairs of a string and an object.
Paired(h, kids) ==
  /\ Len(kids) % 2 = 0
  /\ \A i \in 1 .. Len(kids) :
       /\ kids[i] \in 1 .. Len(h)
       /\ i % 2 = 1 => h[kids[i]].kind = "str"
Pairs == \A o \in 1 .. Len(heap) : heap[o].kind = "dict" => Paired(heap, heap[o].kids)

\* Inductive relative to Control.
Shape == Containers /\ KeyKinds /\ ReturnedType /\ Pairs

\* The pointers of the activations and the contents of objects have their types.
LEMMA InRange ==
  ASSUME Control
  PROVE  /\ heap \in Seq(Objects) /\ Len(heap) \in Nat
         /\ stack \in Seq(Frames) /\ Len(stack) \in Nat /\ DOMAIN stack = 1 .. Len(stack)
         /\ \A i \in DOMAIN stack :
              /\ stack[i].obj \in 1 .. Len(heap) /\ stack[i].name \in 0 .. Len(heap)
              /\ stack[i].kind \in {"array", "object"}
         /\ ret \in 0 .. Len(heap)
         /\ \A o \in 1 .. Len(heap) :
              heap[o].kids \in Seq(Nat) /\ Len(heap[o].kids) \in Nat /\ heap[o].kind \in Kinds
<1>1. /\ heap \in Seq(Objects) /\ Len(heap) \in Nat
      /\ stack \in Seq(Frames) /\ Len(stack) \in Nat /\ DOMAIN stack = 1 .. Len(stack)
      /\ ret \in 0 .. Len(heap)
  BY LenProperties DEF Control, TypeOK, Pointers
<1>2. \A i \in DOMAIN stack : stack[i] \in Frames
  BY <1>1, FramesOfStack
<1>3. \A i \in DOMAIN stack :
        /\ stack[i].obj \in 1 .. Len(heap) /\ stack[i].name \in 0 .. Len(heap)
        /\ stack[i].kind \in {"array", "object"}
  BY <1>1, <1>2 DEF Frames, Control, Pointers
<1>4. \A o \in 1 .. Len(heap) : heap[o] \in Objects
  BY <1>1, ElementOfSeq
<1>5. \A o \in 1 .. Len(heap) :
        heap[o].kids \in Seq(Nat) /\ Len(heap[o].kids) \in Nat /\ heap[o].kind \in Kinds
  BY <1>4, LenProperties DEF Objects
<1>6. QED
  BY <1>1, <1>3, <1>5

\* Objects keep their kinds, so that pairs stay pairs.
LEMMA PairedKept ==
  ASSUME NEW h, NEW g, Len(h) \in Nat, Len(g) \in Nat, Len(h) <= Len(g),
         \A o \in 1 .. Len(h) : g[o].kind = h[o].kind,
         NEW kids, Paired(h, kids)
  PROVE  Paired(g, kids)
<1>1. \A o \in 1 .. Len(h) : o \in 1 .. Len(g)
  OBVIOUS
<1>2. QED
  BY <1>1, Zenon DEF Paired

\* Steps that change no object keep Shape.
LEMMA ShapeSame ==
  ASSUME Control, Shape, SameObjects(heap', heap), ReturnedType',
         \A i \in DOMAIN stack' :
           /\ i \in DOMAIN stack
           /\ stack'[i].obj = stack[i].obj /\ stack'[i].kind = stack[i].kind
           /\ stack'[i].name \in {0, stack[i].name}
  PROVE  Shape'
<1>1. Containers'
  BY InRange DEF Shape, Containers, SameObjects
<1>2. KeyKinds'
  <2> SUFFICES ASSUME NEW i \in DOMAIN stack', stack'[i].name # 0
               PROVE  heap'[stack'[i].name].kind # "other"
    BY Zenon DEF KeyKinds
  <2>1. i \in DOMAIN stack /\ stack'[i].name = stack[i].name
    OBVIOUS
  <2>2. stack[i].name \in 1 .. Len(heap)
    BY <2>1, InRange
  <2>3. heap[stack[i].name].kind # "other"
    BY <2>1, Zenon DEF Shape, KeyKinds
  <2>4. QED
    BY <2>1, <2>2, <2>3, Zenon DEF SameObjects
<1>3. Pairs'
  <2> SUFFICES ASSUME NEW o \in 1 .. Len(heap'), heap'[o].kind = "dict"
               PROVE  Paired(heap', heap'[o].kids)
    BY Zenon DEF Pairs
  <2>1. o \in 1 .. Len(heap) /\ heap[o].kind = "dict" /\ heap'[o].kids = heap[o].kids
    BY Zenon DEF SameObjects
  <2>2. Paired(heap, heap[o].kids)
    BY <2>1, Zenon DEF Shape, Pairs
  <2>3. QED
    BY <2>1, <2>2, PairedKept, InRange DEF SameObjects
<1>4. QED
  BY <1>1, <1>2, <1>3 DEF Shape

\* A new object is empty, and dicts keep their pairs.
LEMMA PairsMade ==
  ASSUME Control, Shape, NEW kind \in Kinds, Makes(kind)
  PROVE  Pairs'
<1> SUFFICES ASSUME NEW o \in 1 .. Len(heap'), heap'[o].kind = "dict"
             PROVE  Paired(heap', heap'[o].kids)
  BY Zenon DEF Pairs
<1>1. CASE o \in 1 .. Len(heap)
  <2>1. heap'[o] = heap[o] /\ heap[o].kind = "dict"
    BY <1>1, Zenon DEF Makes
  <2>2. Paired(heap, heap[o].kids)
    BY <1>1, <2>1, Zenon DEF Shape, Pairs
  <2>3. QED
    BY <2>1, <2>2, PairedKept, InRange DEF Makes
<1>2. CASE o = Len(heap) + 1
  <2>1. heap'[o].kids = <<>> /\ Len(heap'[o].kids) = 0
    BY <1>2, EmptySeq DEF Makes
  <2>2. QED
    BY <2>1 DEF Paired
<1>3. o \in 1 .. Len(heap) \/ o = Len(heap) + 1
  BY InRange DEF Makes
<1>4. QED
  BY <1>1, <1>2, <1>3, Zenon

\* A new object keeps Shape.
LEMMA ShapeMade ==
  ASSUME Control, Shape, NEW kind \in Kinds, Makes(kind), ReturnedType', UNCHANGED stack
  PROVE  Shape'
<1>1. Containers'
  BY InRange DEF Shape, Containers, Makes
<1>2. KeyKinds'
  <2> SUFFICES ASSUME NEW i \in DOMAIN stack, stack[i].name # 0
               PROVE  heap'[stack[i].name].kind # "other"
    BY Zenon DEF KeyKinds
  <2>1. stack[i].name \in 1 .. Len(heap)
    BY InRange
  <2>2. QED
    BY <2>1, Zenon DEF Shape, KeyKinds, Makes
<1>3. Pairs'
  BY PairsMade
<1>4. QED
  BY <1>1, <1>2, <1>3 DEF Shape

\* Parities of positions in a sequence behind an even number of elements.
LEMMA Parity ==
  /\ \A m, n \in Nat : m % 2 = 0 /\ n % 2 = 0 => (m + n) % 2 = 0
  /\ \A i, m \in Nat : i > m /\ m % 2 = 0 /\ i % 2 = 1 => (i - m) % 2 = 1
OBVIOUS

\* Putting an item into a list, or a string and an object into a dict, keeps Shape.
LEMMA ShapePut ==
  ASSUME Control, Shape, stack # <<>>, NEW kids \in Seq(Nat), Puts(kids), ReturnedType',
         Top.kind = "object" => Paired(heap, kids),
         \A i \in DOMAIN stack' :
           /\ i \in DOMAIN stack
           /\ stack'[i].obj = stack[i].obj /\ stack'[i].kind = stack[i].kind
           /\ stack'[i].name \in {0, stack[i].name}
  PROVE  Shape'
<1>0. Len(heap') = Len(heap) /\ \A o \in 1 .. Len(heap) : heap'[o].kind = heap[o].kind
  BY Zenon DEF Puts
<1>1. Containers'
  BY <1>0, InRange DEF Shape, Containers
<1>2. KeyKinds'
  <2> SUFFICES ASSUME NEW i \in DOMAIN stack', stack'[i].name # 0
               PROVE  heap'[stack'[i].name].kind # "other"
    BY Zenon DEF KeyKinds
  <2>1. i \in DOMAIN stack /\ stack'[i].name = stack[i].name
    OBVIOUS
  <2>2. stack[i].name \in 1 .. Len(heap)
    BY <2>1, InRange
  <2>3. heap[stack[i].name].kind # "other"
    BY <2>1, Zenon DEF Shape, KeyKinds
  <2>4. QED
    BY <1>0, <2>1, <2>2, <2>3, Zenon
<1>3. Pairs'
  <2> SUFFICES ASSUME NEW o \in 1 .. Len(heap'), heap'[o].kind = "dict"
               PROVE  Paired(heap', heap'[o].kids)
    BY Zenon DEF Pairs
  <2>1. o \in 1 .. Len(heap) /\ heap[o].kind = "dict" /\ Paired(heap, heap[o].kids)
    BY <1>0, Zenon DEF Shape, Pairs
  <2>2. Paired(heap, heap'[o].kids)
    <3>1. CASE o # Top.obj
      BY <2>1, <3>1, Zenon DEF Puts
    <3>2. CASE o = Top.obj
      <4>1. Top.kind = "object"
        BY <2>1, <3>2, TopIsFrame, InRange DEF Top, Shape, Containers
      <4> DEFINE old == heap[o].kids
      <4>2. /\ old \in Seq(Nat) /\ Len(old) \in Nat /\ Len(kids) \in Nat
            /\ heap'[o].kids = old \o kids
        BY <2>1, <3>2, InRange, LenProperties DEF Puts
      <4>3. Paired(heap, old) /\ Paired(heap, kids)
        BY <2>1, <4>1
      <4> HIDE DEF old
      <4>4. /\ Len(old \o kids) = Len(old) + Len(kids)
            /\ \A i \in 1 .. Len(old) + Len(kids) :
                 (old \o kids)[i] = IF i <= Len(old) THEN old[i] ELSE kids[i - Len(old)]
        BY <4>2, ConcatProperties
      <4>5. Len(old \o kids) % 2 = 0
        <5>1. Len(old) % 2 = 0 /\ Len(kids) % 2 = 0
          BY <4>3, Zenon DEF Paired
        <5>2. QED
          BY <4>2, <4>4, <5>1, Parity, Zenon
      <4>6. ASSUME NEW i \in 1 .. Len(old \o kids)
            PROVE  /\ (old \o kids)[i] \in 1 .. Len(heap)
                   /\ i % 2 = 1 => heap[(old \o kids)[i]].kind = "str"
        <5>1. CASE i <= Len(old)
          <6>1. i \in 1 .. Len(old) /\ (old \o kids)[i] = old[i]
            BY <4>2, <4>4, <5>1
          <6>2. QED
            BY <4>3, <6>1, Zenon DEF Paired
        <5>2. CASE i > Len(old)
          <6> DEFINE k == i - Len(old)
          <6>1. k \in 1 .. Len(kids) /\ (old \o kids)[i] = kids[k]
            BY <4>2, <4>4, <5>2
          <6>2. i % 2 = 1 => k % 2 = 1
            <7>1. Len(old) % 2 = 0 /\ i \in Nat
              BY <4>3 DEF Paired
            <7>2. QED
              BY <4>2, <5>2, <7>1, Parity, Zenon
          <6> HIDE DEF k
          <6>3. QED
            BY <4>3, <6>1, <6>2, Zenon DEF Paired
        <5>3. QED
          BY <4>2, <4>4, <5>1, <5>2
      <4>7. QED
        BY <4>2, <4>5, <4>6, Zenon DEF Paired
    <3>3. QED
      BY <3>1, <3>2
  <2>3. QED
    BY <1>0, <2>2, PairedKept, InRange, SMTT(30)
<1>4. QED
  BY <1>1, <1>2, <1>3 DEF Shape

\* Entering decode_array or decode_object keeps Shape.
LEMMA ShapeEnter ==
  ASSUME Control, Shape, NEW kind \in {"array", "object"}, pc = "any",
         Enter(kind, IF kind = "array" THEN "list" ELSE "dict")
  PROVE  Shape'
<1> DEFINE container == IF kind = "array" THEN "list" ELSE "dict"
<1>0. container \in Kinds
  BY DEF Kinds
<1>1. CASE Fail("depth") /\ UNCHANGED <<start, stack, lastType, heap>>
  <2>1. SameObjects(heap', heap) /\ ReturnedType' /\ UNCHANGED stack
    BY <1>1 DEF Fail, SameObjects, ReturnedType
  <2>2. QED
    BY <2>1, ShapeSame
<1>2. CASE objDepth + 1 <= MaxDepth
  <2> DEFINE f == Frame(kind, NewId)
  <2>1. /\ heap' = NewObject(container) /\ stack' = Append(stack, f) /\ ret' = ret
        /\ pc' = "loop"
    BY <1>2, DecoderAssumption DEF Enter, Control, TypeOK
  <2>2. Makes(container)
    BY <1>0, <2>1, NewKind, InRange DEF Makes
  <2>3. f \in Frames /\ f.name = 0 /\ f.obj = Len(heap) + 1 /\ f.kind = kind
    BY InRange DEF Frame, Frames, NewId
  <2> HIDE DEF f, container
  <2>4. /\ DOMAIN stack' = 1 .. Len(stack) + 1
        /\ stack'[Len(stack) + 1] = f
        /\ \A i \in 1 .. Len(stack) : stack'[i] = stack[i]
    BY <2>1, <2>3, AppendProperties, LenProperties, InRange
  <2>5. ASSUME NEW i \in DOMAIN stack'
        PROVE  /\ heap'[stack'[i].obj].kind = IF stack'[i].kind = "array" THEN "list" ELSE "dict"
               /\ stack'[i].name # 0 => heap'[stack'[i].name].kind # "other"
    <3>1. CASE i = Len(stack) + 1
      BY <2>2, <2>3, <2>4, <3>1 DEF Makes, container
    <3>2. CASE i # Len(stack) + 1
      <4>1. i \in DOMAIN stack /\ stack'[i] = stack[i]
        BY <2>4, <3>2, InRange
      <4>2. /\ heap'[stack[i].obj] = heap[stack[i].obj]
            /\ stack[i].name # 0 => heap'[stack[i].name] = heap[stack[i].name]
        BY <2>2, <4>1, InRange DEF Makes
      <4>3. QED
        BY <4>1, <4>2, Zenon DEF Shape, Containers, KeyKinds
    <3>3. QED
      BY <3>1, <3>2
  <2>6. Containers' /\ KeyKinds'
    BY <2>5, Zenon DEF Containers, KeyKinds
  <2>7. ReturnedType'
    BY <2>1 DEF ReturnedType
  <2>8. Pairs'
    BY <1>0, <2>2, PairsMade
  <2>9. QED
    BY <2>6, <2>7, <2>8 DEF Shape
<1>3. QED
  BY <1>1, <1>2 DEF Enter

\* Shape holds when loads is called.
LEMMA ShapeInit == Init => Shape
<1> SUFFICES ASSUME Init PROVE Shape
  OBVIOUS
<1>1. DOMAIN stack = {} /\ Len(heap) = 0
  BY EmptySeq DEF Init
<1>2. QED
  BY <1>1 DEF Init, Shape, Containers, KeyKinds, ReturnedType, Pairs

\* Every step of the decoder keeps Shape.
LEMMA ShapeStep == Control /\ Control' /\ Shape /\ [Next]_vars => Shape'
<1> SUFFICES ASSUME Control, Control', Shape, [Next]_vars PROVE Shape'
  OBVIOUS
<1>a. ASSUME UNCHANGED <<stack, heap>>, pc' # "return" PROVE Shape'
  <2>1. SameObjects(heap', heap) /\ ReturnedType'
    BY <1>a DEF SameObjects, ReturnedType
  <2>2. QED
    BY <1>a, <2>1, ShapeSame
<1>b. ASSUME stack # <<>>, Abandon, ret' = 0 PROVE Shape'
  <2>1. SameObjects(heap', heap)
    BY <1>b, AbandonSame
  <2>2. \A i \in DOMAIN stack' : i \in DOMAIN stack /\ stack'[i] = stack[i]
    BY <1>b, AbandonFacts
  <2>3. ReturnedType'
    BY <1>b DEF ReturnedType
  <2>4. QED
    BY <2>1, <2>2, <2>3, ShapeSame
<1>c. ASSUME stack # <<>>, ReturnContainer PROVE Shape'
  <2>1. ret' = Top.obj /\ heap' = heap
    BY <1>c DEF ReturnContainer
  <2>2. \A i \in DOMAIN stack' : i \in DOMAIN stack /\ stack'[i] = stack[i]
    BY <1>c, ReturnFacts
  <2>3. heap[Top.obj].kind \in {"list", "dict"}
    BY <1>c, TopIsFrame, InRange DEF Top, Shape, Containers
  <2>4. ReturnedType'
    BY <2>1, <2>3 DEF ReturnedType
  <2>5. SameObjects(heap', heap)
    BY <2>1 DEF SameObjects
  <2>6. QED
    BY <2>2, <2>4, <2>5, ShapeSame
<1>d. ASSUME NEW kind \in {"str", "other"}, NEW cb, pc = "any", Made(kind, cb),
             lastType' = (IF kind = "str" THEN "UTF8" ELSE "SCALAR"), UNCHANGED stack
      PROVE  Shape'
  <2>0. kind \in Kinds
    BY DEF Kinds
  <2>1. CASE SameObjects(heap', heap) /\ ret' = 0
    <3>1. ReturnedType'
      BY <2>1 DEF ReturnedType
    <3>2. QED
      BY <1>d, <2>1, <3>1, ShapeSame
  <2>2. CASE Makes(kind) /\ ret' = Len(heap) + 1
    <3>1. ReturnedType'
      BY <1>d, <2>2 DEF Makes, ReturnedType
    <3>2. QED
      BY <1>d, <2>0, <2>2, <3>1, ShapeMade
  <2>3. QED
    BY <1>d, <2>0, <2>1, <2>2, MadeSteps
<1>1. CASE RejectArgument \/ StartDecoding
  BY <1>1, <1>a DEF RejectArgument, StartDecoding, dsVars
<1>3. CASE SkipWhitespace
  BY <1>3, <1>a, Zenon DEF SkipWhitespace
<1>4. CASE DecodeString
  <2>1. pc = "any" /\ UNCHANGED stack
    BY <1>4, Zenon DEF DecodeString, Decode
  <2>2. CASE ret' = 0 /\ UNCHANGED heap
    <3>1. SameObjects(heap', heap) /\ ReturnedType'
      BY <2>2 DEF SameObjects, ReturnedType
    <3>2. QED
      BY <2>1, <3>1, ShapeSame
  <2>3. CASE lastType' = "UTF8" /\ Made("str", "newScalar")
    BY <1>d, <2>1, <2>3
  <2>4. QED
    BY <1>4, <2>2, <2>3, Zenon DEF DecodeString, NoMemory, Fail
<1>5. CASE DecodeScalar
  <2>1. pc = "any" /\ UNCHANGED stack /\ lastType' = "SCALAR" /\ Made("other", "newScalar")
    BY <1>5, Zenon DEF DecodeScalar, Decode
  <2>2. QED
    BY <1>d, <2>1
<1>6. CASE RejectValue
  <2>1. ret' = 0 /\ UNCHANGED <<stack, heap>>
    BY <1>6, Zenon DEF RejectValue, Fail
  <2>2. SameObjects(heap', heap) /\ ReturnedType'
    BY <2>1 DEF SameObjects, ReturnedType
  <2>3. QED
    BY <2>1, <2>2, ShapeSame
<1>7. CASE DecodeArray
  <2>1. pc = "any" /\ Enter("array", "list")
    BY <1>7, Zenon DEF DecodeArray, Decode
  <2>2. QED
    BY <2>1, ShapeEnter
<1>8. CASE DecodeObject
  <2>1. pc = "any" /\ Enter("object", "dict")
    BY <1>8, Zenon DEF DecodeObject, Decode
  <2>2. QED
    BY <2>1, ShapeEnter
<1>9. CASE CloseAtHead
  <2>1. stack # <<>>
    BY <1>9, Zenon DEF CloseAtHead, Control, Activations
  <2>2. QED
    BY <1>9, <1>b, <1>c, <2>1, Zenon DEF CloseAtHead, Fail
<1>10. CASE NextElement
  BY <1>10, <1>a, Zenon DEF NextElement
<1>11. CASE Unwind
  BY <1>11, <1>b, Zenon DEF Unwind
<1>12. CASE AddItem
  <2>1. stack # <<>> /\ Top.kind = "array" /\ UNCHANGED stack /\ pc' = "sep" /\ ret # 0
    BY <1>12, Zenon DEF AddItem, Returned
  <2>2. ReturnedType'
    BY <2>1 DEF ReturnedType
  <2>3. CASE SameObjects(heap', heap)
    BY <2>1, <2>2, <2>3, ShapeSame
  <2>4. CASE Puts(<<ret>>)
    <3>1. <<ret>> \in Seq(Nat)
      BY InRange
    <3>2. QED
      BY <2>1, <2>2, <2>4, <3>1, ShapePut
  <2>5. QED
    BY <1>12, <2>3, <2>4, AddItemSteps
<1>13. CASE TakeKey
  <2>1. stack # <<>> /\ Top.name = 0 /\ pc = "return" /\ ret # 0
    BY <1>13, Zenon DEF TakeKey, Returned
  <2>2. CASE lastType = "UTF8" /\ stack' = SetTop([Top EXCEPT !.name = ret]) /\ pc' = "colon"
             /\ UNCHANGED heap
    <3>1. /\ DOMAIN stack' = 1 .. Len(stack)
          /\ stack'[Len(stack)] = [Top EXCEPT !.name = ret]
          /\ \A i \in 1 .. Len(stack) - 1 : stack'[i] = stack[i]
          /\ Top \in Frames /\ Len(stack) \in DOMAIN stack
      <4>0. Top \in Frames /\ Len(stack) \in DOMAIN stack /\ ret \in Nat
        BY <2>1, TopIsFrame, InRange
      <4>1. [Top EXCEPT !.name = ret] \in Frames
        BY <4>0, FrameUpdates
      <4>2. QED
        BY <2>1, <2>2, <4>0, <4>1, SetTopStack, InRange
    <3>2. heap[ret].kind # "other"
      BY <2>1, <2>2 DEF Shape, ReturnedType
    <3>3. ASSUME NEW i \in DOMAIN stack'
          PROVE  /\ heap'[stack'[i].obj].kind = IF stack'[i].kind = "array" THEN "list" ELSE "dict"
                 /\ stack'[i].name # 0 => heap'[stack'[i].name].kind # "other"
      <4>1. CASE i = Len(stack)
        <5>1. stack'[i].obj = Top.obj /\ stack'[i].kind = Top.kind /\ stack'[i].name = ret
          BY <3>1, <4>1 DEF Frames
        <5>2. QED
          BY <2>2, <3>1, <3>2, <5>1, Zenon DEF Top, Shape, Containers
      <4>2. CASE i # Len(stack)
        <5>1. i \in DOMAIN stack /\ stack'[i] = stack[i]
          BY <3>1, <4>2, InRange
        <5>2. QED
          BY <2>2, <5>1, Zenon DEF Shape, Containers, KeyKinds
      <4>3. QED
        BY <4>1, <4>2
    <3>4. Containers' /\ KeyKinds'
      BY <3>3, Zenon DEF Containers, KeyKinds
    <3>5. ReturnedType' /\ Pairs'
      BY <2>2 DEF ReturnedType, Shape, Pairs
    <3>6. QED
      BY <3>4, <3>5 DEF Shape
  <2>3. CASE stack' = Pop /\ heap' = Decref(Decref(heap, Top.obj), ret) /\ Fail("key")
    <3>1. SameObjects(heap', heap)
      <4> DEFINE h == Decref(heap, Top.obj)
      <4>1. h \in Seq(Objects) /\ SameObjects(h, heap)
        BY <2>1, TopPointers, InRange, DecrefSame
      <4>2. heap' = Decref(h, ret) /\ ret \in 1 .. Len(h)
        BY <2>1, <2>3, <4>1, InRange DEF SameObjects
      <4> HIDE DEF h
      <4>3. SameObjects(heap', h)
        BY <4>1, <4>2, DecrefSame
      <4>4. QED
        BY <4>1, <4>3 DEF SameObjects
    <3>2. \A i \in DOMAIN stack' : i \in DOMAIN stack /\ stack'[i] = stack[i]
      BY <2>1, <2>3, PopStack, InRange
    <3>3. ReturnedType'
      BY <2>3 DEF ReturnedType, Fail
    <3>4. QED
      BY <3>1, <3>2, <3>3, ShapeSame
  <2>4. QED
    BY <1>13, <2>2, <2>3, Zenon DEF TakeKey
<1>14. CASE ExpectColon
  <2>1. stack # <<>>
    BY <1>14, Zenon DEF ExpectColon, Control, Activations
  <2>2. QED
    BY <1>14, <1>a, <1>b, <2>1, Zenon DEF ExpectColon, Fail
<1>15. CASE AddKey
  <2>1. /\ stack # <<>> /\ Top.name # 0 /\ pc' = "sep" /\ ret # 0
        /\ stack' = SetTop([Top EXCEPT !.name = 0])
    BY <1>15, Zenon DEF AddKey, Returned
  <2>2. ReturnedType'
    BY <2>1 DEF ReturnedType
  <2>3. \A i \in DOMAIN stack' :
          /\ i \in DOMAIN stack
          /\ stack'[i].obj = stack[i].obj /\ stack'[i].kind = stack[i].kind
          /\ stack'[i].name \in {0, stack[i].name}
    <3>1. Top \in Frames /\ [Top EXCEPT !.name = 0] \in Frames /\ Len(stack) \in DOMAIN stack
      BY <2>1, TopIsFrame, FrameUpdates, InRange
    <3>2. /\ DOMAIN stack' = 1 .. Len(stack)
          /\ stack'[Len(stack)] = [Top EXCEPT !.name = 0]
          /\ \A i \in 1 .. Len(stack) - 1 : stack'[i] = stack[i]
      BY <2>1, <3>1, SetTopStack, InRange
    <3>3. /\ [Top EXCEPT !.name = 0].obj = Top.obj /\ [Top EXCEPT !.name = 0].kind = Top.kind
          /\ [Top EXCEPT !.name = 0].name = 0
      BY <3>1 DEF Frames
    <3>4. \A i \in DOMAIN stack' : i = Len(stack) \/ i \in 1 .. Len(stack) - 1
      BY <3>2, InRange
    <3>5. QED
      BY <3>1, <3>2, <3>3, <3>4, InRange DEF Top
  <2>4. CASE SameObjects(heap', heap)
    BY <2>2, <2>3, <2>4, ShapeSame
  <2>5. CASE Puts(<<Top.name, ret>>) /\ heap[Top.name].kind \notin {"list", "dict"}
    <3>1. /\ Top.name \in 1 .. Len(heap) /\ ret \in 1 .. Len(heap)
          /\ heap[Top.name].kind # "other"
      BY <2>1, TopIsFrame, TopPointers, InRange DEF Top, Shape, KeyKinds
    <3>2. heap[Top.name].kind = "str"
      BY <2>5, <3>1, InRange DEF Kinds
    <3>3. Paired(heap, <<Top.name, ret>>) /\ <<Top.name, ret>> \in Seq(Nat)
      BY <3>1, <3>2 DEF Paired
    <3>4. QED
      BY <2>1, <2>2, <2>3, <2>5, <3>3, ShapePut
  <2>6. QED
    BY <1>15, <2>4, <2>5, AddKeySteps
<1>16. CASE Separator
  <2>1. stack # <<>>
    BY <1>16, Zenon DEF Separator, Control, Activations
  <2>2. CASE stack' = SetTop([Top EXCEPT !.len = @ + 1]) /\ pc' = "loop" /\ UNCHANGED heap
    <3>1. /\ Top \in Frames /\ [Top EXCEPT !.len = @ + 1] \in Frames
          /\ Len(stack) \in DOMAIN stack
      BY <2>1, TopIsFrame, Updated, InRange
    <3>2. /\ DOMAIN stack' = 1 .. Len(stack)
          /\ stack'[Len(stack)] = [Top EXCEPT !.len = @ + 1]
          /\ \A i \in 1 .. Len(stack) - 1 : stack'[i] = stack[i]
      BY <2>1, <2>2, <3>1, SetTopStack, InRange
    <3>3. /\ [Top EXCEPT !.len = @ + 1].obj = Top.obj
          /\ [Top EXCEPT !.len = @ + 1].kind = Top.kind
          /\ [Top EXCEPT !.len = @ + 1].name = Top.name
      BY <3>1 DEF Frames
    <3>4. \A i \in DOMAIN stack' : i = Len(stack) \/ i \in 1 .. Len(stack) - 1
      BY <3>2, InRange
    <3>5. \A i \in DOMAIN stack' :
            /\ i \in DOMAIN stack
            /\ stack'[i].obj = stack[i].obj /\ stack'[i].kind = stack[i].kind
            /\ stack'[i].name \in {0, stack[i].name}
      BY <3>1, <3>2, <3>3, <3>4, InRange DEF Top
    <3>6. ReturnedType' /\ SameObjects(heap', heap)
      BY <2>2 DEF ReturnedType, SameObjects
    <3>7. QED
      BY <3>5, <3>6, ShapeSame
  <2>3. QED
    BY <1>16, <1>b, <1>c, <2>1, <2>2, Zenon DEF Separator, Fail
<1>17. CASE FreeEscapes
  BY <1>17, <1>a DEF FreeEscapes, dsVars
<1>18. CASE CheckTrailing \/ ReturnToPython
  <2>1. /\ UNCHANGED stack /\ pc' \in {"binding", "done"}
        /\ heap' = heap \/ (heap' = Decref(heap, ret) /\ ret # 0)
    BY <1>18 DEF CheckTrailing, ReturnToPython
  <2>2. SameObjects(heap', heap)
    <3>1. CASE heap' = heap
      BY <3>1 DEF SameObjects
    <3>2. CASE heap' = Decref(heap, ret) /\ ret # 0
      BY <3>2, InRange, DecrefSame
    <3>3. QED
      BY <2>1, <3>1, <3>2
  <2>3. ReturnedType'
    BY <2>1 DEF ReturnedType
  <2>4. QED
    BY <2>1, <2>2, <2>3, ShapeSame
<1>20. CASE UNCHANGED vars
  BY <1>20 DEF vars, dsVars, Shape, Containers, KeyKinds, ReturnedType, Pairs
<1>21. QED
  BY <1>1, <1>3, <1>4, <1>5, <1>6, <1>7, <1>8, <1>9, <1>10, <1>11, <1>12, <1>13,
     <1>14, <1>15, <1>16, <1>17, <1>18, <1>20
     DEF Next, Element, Loop, Finish

\* Shape holds in every state of a call of loads.
THEOREM ShapeInvariant == Spec => []Shape
BY ShapeInit, ShapeStep, ControlInvariant, PTL DEF Spec

\* No dict the decoder builds has a key that is not a str: what slips through
\* the check of lastType is a container, and a container is no key of a dict.
THEOREM StringKeysCorrect == Spec => []StringKeys
<1>1. Control /\ Shape => StringKeys
  <2> SUFFICES ASSUME Control, Shape, NEW o \in DOMAIN heap, heap[o].kind = "dict",
                      NEW i \in DOMAIN heap[o].kids, i % 2 = 1
               PROVE  heap[heap[o].kids[i]].kind = "str"
    BY Zenon DEF StringKeys
  <2>1. o \in 1 .. Len(heap) /\ i \in 1 .. Len(heap[o].kids)
    <3>1. o \in 1 .. Len(heap)
      BY InRange, LenProperties
    <3>2. QED
      BY <3>1, InRange, LenProperties
  <2>2. QED
    BY <2>1, Zenon DEF Shape, Pairs, Paired
<1>2. QED
  BY <1>1, ControlInvariant, ShapeInvariant, PTL
=============================================================================
