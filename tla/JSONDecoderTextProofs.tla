------------------------ MODULE JSONDecoderTextProofs ------------------------
(***************************************************************************)
(* Proofs that the decoder implements the reader of JSONText, and that it  *)
(* decodes the grammar of JSONGrammar, for every set of documents, every   *)
(* depth limit and every choice of failing callbacks.                      *)
(*                                                                         *)
(* Once it has rejected, the reader takes no step: so must the decoder     *)
(* stay rejected, whatever is decoded before it notices (RejectedStays).   *)
(* Until then every step of the decoder is one of the reader or none, and  *)
(* the reader goes on exactly as long as its text can be completed to one  *)
(* of the grammar (Leads, Judged); meanwhile every object that was built   *)
(* has its place in that text (Built).                                     *)
(***************************************************************************)
EXTENDS JSONDecoderText, JSONDecoderProofs, JSONGrammar, WellFoundedInduction

(***************************************************************************)
(* The decoder and the reader in the same state.                           *)
(***************************************************************************)

\* The document is all of the memory, as it is unless a view was cut short.
Whole == end = Len(memory)

\* What is known of the decoder in every state of a call.
Known == Control /\ Reading /\ Shape /\ Whole

\* The kinds of the activations of a stack.
KindsOf(s) == [i \in DOMAIN s |-> s[i].kind]

\* The key of each activation that has one is a string, and an activation that
\* has none is on top and has been returned a string if anything.
Sound(i) ==
  stack[i].kind = "object" =>
    IF stack[i].name # 0 THEN heap[stack[i].name].kind = "str"
    ELSE i = Len(stack) /\ (ret # 0 => heap[ret].kind = "str")

\* Nothing is doomed exactly when every activation is sound.
LEMMA DoomedOrSound ==
  ASSUME Control
  PROVE  ~Doomed <=> \A i \in DOMAIN stack : Sound(i)
<1>1. \A i \in DOMAIN stack : i <= Len(stack) /\ i \in Nat /\ Len(stack) \in Nat
  BY InRange
<1>2. \A i \in DOMAIN stack : Sound(i) <=> ~BadKeyAt(i)
  BY <1>1 DEF Sound, BadKeyAt
<1>3. QED
  BY <1>2, Zenon DEF Doomed

\* The kinds of the activations are a sequence, the last that of the top.
LEMMA KindsType ==
  ASSUME NEW s \in Seq(Frames)
  PROVE  /\ KindsOf(s) \in Seq({"array", "object"})
         /\ Len(KindsOf(s)) = Len(s) /\ DOMAIN KindsOf(s) = DOMAIN s
         /\ KindsOf(s) = <<>> <=> s = <<>>
         /\ s # <<>> => KindsOf(s)[Len(KindsOf(s))] = s[Len(s)].kind
<1>1. Len(s) \in Nat /\ DOMAIN s = 1 .. Len(s) /\ \A i \in 1 .. Len(s) : s[i] \in Frames
  BY LenProperties, ElementOfSeq
<1>2. \A i \in 1 .. Len(s) : s[i].kind \in {"array", "object"}
  BY <1>1 DEF Frames
<1>3. KindsOf(s) \in Seq({"array", "object"}) /\ Len(KindsOf(s)) = Len(s)
  BY <1>1, <1>2 DEF KindsOf
<1>4. KindsOf(s) = <<>> <=> s = <<>>
  BY <1>3, EmptySeq
<1>5. s # <<>> => Len(s) \in DOMAIN s
  BY <1>1, EmptySeq
<1>6. QED
  BY <1>1, <1>3, <1>4, <1>5 DEF KindsOf

\* Stacks of the same length and kinds look the same to the reader.
LEMMA KindsSame ==
  ASSUME NEW s \in Seq(Frames), NEW t \in Seq(Frames), Len(s) = Len(t),
         \A i \in 1 .. Len(s) : s[i].kind = t[i].kind
  PROVE  KindsOf(s) = KindsOf(t)
<1>1. DOMAIN s = 1 .. Len(s) /\ DOMAIN t = 1 .. Len(s)
  BY LenProperties
<1>2. QED
  BY <1>1 DEF KindsOf

\* A new activation is one more kind.
LEMMA KindsAppend ==
  ASSUME NEW s \in Seq(Frames), NEW f \in Frames
  PROVE  KindsOf(Append(s, f)) = Append(KindsOf(s), f.kind)
<1> DEFINE t == Append(s, f)
           u == Append(KindsOf(s), f.kind)
<1>1. /\ t \in Seq(Frames) /\ Len(t) = Len(s) + 1 /\ t[Len(s) + 1] = f /\ Len(s) \in Nat
      /\ \A i \in 1 .. Len(s) : t[i] = s[i]
  BY AppendProperties, LenProperties
<1>2. f.kind \in {"array", "object"}
  BY DEF Frames
<1>3. /\ u \in Seq({"array", "object"}) /\ Len(u) = Len(s) + 1 /\ u[Len(s) + 1] = f.kind
      /\ \A i \in 1 .. Len(s) : u[i] = KindsOf(s)[i]
  BY <1>2, KindsType, AppendProperties
<1> HIDE DEF t, u
<1>4. KindsOf(t) \in Seq({"array", "object"}) /\ Len(KindsOf(t)) = Len(s) + 1
  BY <1>1, KindsType
<1>5. \A i \in 1 .. Len(s) + 1 : KindsOf(t)[i] = u[i]
  <2> TAKE i \in 1 .. Len(s) + 1
  <2>1. KindsOf(t)[i] = t[i].kind
    BY <1>1, LenProperties DEF KindsOf
  <2>2. CASE i = Len(s) + 1
    BY <1>1, <1>3, <2>1, <2>2
  <2>3. CASE i \in 1 .. Len(s)
    <3>1. KindsOf(s)[i] = s[i].kind
      BY <2>3, LenProperties DEF KindsOf
    <3>2. QED
      BY <1>1, <1>3, <2>1, <2>3, <3>1
  <2>4. QED
    BY <1>1, <2>2, <2>3
<1>6. KindsOf(t) = u
  BY <1>3, <1>4, <1>5, SeqEqual
<1>7. QED
  BY <1>6 DEF t, u

\* Returning from an activation is one kind less.
LEMMA KindsPop ==
  ASSUME stack \in Seq(Frames), stack # <<>>
  PROVE  KindsOf(Pop) = SubSeq(KindsOf(stack), 1, Len(KindsOf(stack)) - 1)
<1> DEFINE k == KindsOf(stack)
           m == Len(stack) - 1
           u == SubSeq(k, 1, m)
<1>1. /\ Pop \in Seq(Frames) /\ Len(Pop) = m
      /\ \A i \in 1 .. m : Pop[i] = stack[i]
  BY PopStack
<1>2. m \in Nat /\ Len(stack) \in Nat /\ DOMAIN stack = 1 .. Len(stack)
  BY EmptySeq, LenProperties
<1>3. k \in Seq({"array", "object"}) /\ Len(k) = Len(stack)
  BY KindsType
<1>3a. \A i \in 1 .. m : k[i] = stack[i].kind
  BY <1>2 DEF KindsOf
<1>4. u \in Seq({"array", "object"}) /\ Len(u) = m /\ \A i \in 1 .. m : u[i] = k[i]
  <2>1. \A i \in 1 .. m : k[i] \in {"array", "object"}
    BY <1>2, <1>3, ElementOfSeq
  <2> HIDE DEF k, m
  <2>2. /\ u \in Seq({"array", "object"})
        /\ Len(u) = IF 1 <= m THEN m - 1 + 1 ELSE 0
        /\ \A i \in 1 .. m - 1 + 1 : u[i] = k[1 + i - 1]
    BY <1>2, <2>1, SubSeqProperties
  <2>3. QED
    BY <1>2, <2>2
<1>5. KindsOf(Pop) \in Seq({"array", "object"}) /\ Len(KindsOf(Pop)) = m
  BY <1>1, KindsType
<1>6. \A i \in 1 .. m : KindsOf(Pop)[i] = Pop[i].kind
  BY <1>1, LenProperties DEF KindsOf
<1> HIDE DEF u, k, m
<1>7. KindsOf(Pop) = u
  BY <1>1, <1>3a, <1>4, <1>5, <1>6, SeqEqual
<1>8. QED
  BY <1>3, <1>7 DEF u, k, m

(***************************************************************************)
(* What was rejected stays rejected.                                       *)
(***************************************************************************)

\* Steps that change no activation but the one on top, and no kind.
LEMMA DoomStays ==
  ASSUME Control, NEW i \in DOMAIN stack, i # Len(stack), BadKeyAt(i),
         Len(heap) <= Len(heap'), Len(heap') \in Nat,
         \A o \in 1 .. Len(heap) : heap'[o].kind = heap[o].kind,
         i \in DOMAIN stack', stack'[i] = stack[i],
         i < Len(stack') \/ (ret' # 0 /\ heap'[ret'].kind # "str")
  PROVE  Doomed'
<1>1. stack[i].name # 0 => heap'[stack[i].name].kind = heap[stack[i].name].kind
  BY InRange
<1>2. BadKeyAt(i)'
  BY <1>1 DEF BadKeyAt
<1>3. QED
  BY <1>2, Zenon DEF Doomed

\* A key that is not a string ends in an error, whatever is decoded before.
LEMMA DoomedStays ==
  ASSUME Known, Control', Next, Doomed, errorStr = "none", pyErr = "none"
  PROVE  Rejected'
<1>0. Control /\ Shape /\ stack \in Seq(Frames)
  BY InRange DEF Known
<1>1. PICK i \in DOMAIN stack : BadKeyAt(i)
  BY Zenon DEF Doomed
<1>2. /\ stack # <<>> /\ Len(stack) \in Nat \ {0} /\ DOMAIN stack = 1 .. Len(stack)
      /\ Len(heap) \in Nat /\ i \in 1 .. Len(stack)
  BY <1>0, <1>1, InRange, EmptySeq
<1>a. ASSUME stack' = stack, Len(heap) <= Len(heap'), pc # "return",
             \A o \in 1 .. Len(heap) : heap'[o].kind = heap[o].kind
      PROVE  Doomed'
  <2>1. Len(heap') \in Nat
    BY InRange
  <2>2. CASE i # Len(stack)
    BY <1>0, <1>1, <1>2, <1>a, <2>1, <2>2, DoomStays
  <2>3. CASE i = Len(stack)
    <3>1. ret = 0
      BY <1>0, <1>a, <1>2, Zenon DEF Control, GoingOn, TypeOK, Activations
    <3>2. stack[i].name # 0 /\ heap[stack[i].name].kind # "str" /\ stack[i].kind = "object"
      BY <1>1, <1>2, <2>3, <3>1 DEF BadKeyAt
    <3>3. heap'[stack[i].name].kind # "str"
      BY <1>0, <1>1, <1>a, <3>2, InRange
    <3>4. BadKeyAt(i)'
      BY <1>a, <3>2, <3>3 DEF BadKeyAt
    <3>5. QED
      BY <1>1, <1>a, <3>4, Zenon DEF Doomed
  <2>4. QED
    BY <2>2, <2>3
<1>b. ASSUME pc = "loop" \/ pc = "sep" PROVE ret = 0 /\ Top.name = 0 /\ i # Len(stack)
  <2>1. ret = 0 /\ Top.name = 0
    BY <1>0, <1>b DEF Control, GoingOn, Keys
  <2>2. QED
    BY <1>1, <1>2, <2>1 DEF BadKeyAt, Top
<1>c. ASSUME pc = "loop" \/ pc = "sep", ReturnContainer PROVE Doomed'
  <2>1. /\ Len(stack') = Len(stack) - 1 /\ DOMAIN stack' = 1 .. Len(stack) - 1
        /\ \A k \in DOMAIN stack' : stack'[k] = stack[k]
        /\ ret' = Top.obj /\ ret' # 0 /\ heap' = heap
    BY <1>0, <1>2, <1>c, ReturnFacts
  <2>2. heap[Top.obj].kind \in {"list", "dict"}
    BY <1>0, <1>2, TopIsFrame, InRange DEF Top, Shape, Containers
  <2>3. i # Len(stack)
    BY <1>b, <1>c
  <2>4. QED
    BY <1>0, <1>1, <1>2, <2>1, <2>2, <2>3, DoomStays
<1>d. ASSUME NEW f, stack' = SetTop(f), f \in Frames, i # Len(stack), Len(heap') = Len(heap),
             \A o \in 1 .. Len(heap) : heap'[o].kind = heap[o].kind
      PROVE  Doomed'
  <2>1. /\ Len(stack') = Len(stack) /\ DOMAIN stack' = 1 .. Len(stack)
        /\ \A k \in 1 .. Len(stack) - 1 : stack'[k] = stack[k]
    BY <1>0, <1>2, <1>d, SetTopStack
  <2>2. QED
    BY <1>0, <1>1, <1>2, <1>d, <2>1, DoomStays
<1>e. ASSUME errorStr' # "none" \/ pyErr' # "none" PROVE Rejected'
  BY <1>e, Zenon DEF Rejected
<1>f. Doomed' => Rejected'
  BY Zenon DEF Rejected
<1>g. ASSUME NEW kind \in Kinds, NEW cb, Made(kind, cb), stack' = stack, pc = "any"
      PROVE  Rejected'
  <2>1. CASE pyErr' = "callback"
    BY <1>e, <2>1
  <2>2. CASE Makes(kind)
    BY <1>a, <1>f, <1>g, <1>2, <2>2 DEF Makes
  <2>3. QED
    BY <1>0, <1>g, <2>1, <2>2, MadeSteps
<1>h. ASSUME UNCHANGED <<stack, heap>>, pc # "return" PROVE Rejected'
  BY <1>a, <1>f, <1>h, <1>2
<1>3. CASE RejectArgument \/ StartDecoding
  BY <1>0, <1>2, <1>3 DEF RejectArgument, StartDecoding, Control, Activations
<1>4. CASE SkipWhitespace
  BY <1>4, <1>h DEF SkipWhitespace
<1>5. CASE DecodeString
  <2>1. pc = "any" /\ UNCHANGED stack
    BY <1>5, Zenon DEF DecodeString, Decode
  <2>2. "str" \in Kinds
    BY DEF Kinds
  <2>3. QED
    BY <1>5, <1>e, <1>g, <2>1, <2>2, Zenon DEF DecodeString, NoMemory, Fail
<1>6. CASE DecodeScalar
  <2>1. pc = "any" /\ UNCHANGED stack /\ Made("other", "newScalar") /\ "other" \in Kinds
    BY <1>6, Zenon DEF DecodeScalar, Decode, Kinds
  <2>2. QED
    BY <1>g, <2>1
<1>7. CASE RejectValue
  BY <1>7, <1>e, Zenon DEF RejectValue, Fail
<1>8. ASSUME NEW kind \in {"array", "object"}, NEW container \in Kinds, pc = "any",
             Enter(kind, container)
      PROVE  Rejected'
  <2>1. CASE errorStr' # "none"
    BY <1>e, <2>1
  <2>2. CASE /\ heap' = NewObject(container)
             /\ stack' = Append(stack, Frame(kind, NewId))
    <3> DEFINE f == Frame(kind, NewId)
    <3>1. f \in Frames
      BY <1>0, InRange DEF Frame, Frames, NewId
    <3> HIDE DEF f
    <3>2. /\ Len(stack') = Len(stack) + 1 /\ DOMAIN stack' = 1 .. Len(stack) + 1
          /\ \A k \in 1 .. Len(stack) : stack'[k] = stack[k]
      BY <1>0, <2>2, <3>1, AppendProperties, LenProperties DEF f
    <3>3. Len(heap') = Len(heap) + 1 /\ \A o \in 1 .. Len(heap) : heap'[o] = heap[o]
      BY <1>0, <2>2, NewKind, InRange
    <3>4. /\ stack[i].kind = "object"
          /\ stack[i].name # 0 => heap[stack[i].name].kind # "str"
      BY <1>1 DEF BadKeyAt
    <3>5. BadKeyAt(i)'
      <4>1. i \in DOMAIN stack' /\ i < Len(stack') /\ stack'[i] = stack[i]
        BY <1>2, <3>2
      <4>2. stack[i].name # 0 => heap'[stack[i].name] = heap[stack[i].name]
        BY <1>0, <1>1, <3>3, InRange
      <4>3. QED
        BY <3>4, <4>1, <4>2 DEF BadKeyAt
    <3>6. QED
      BY <1>2, <1>f, <3>2, <3>5 DEF Doomed
  <2>3. QED
    BY <1>8, <2>1, <2>2, Zenon DEF Enter, Fail
<1>9. CASE DecodeArray \/ DecodeObject
  <2>1. {"list", "dict"} \subseteq Kinds
    BY DEF Kinds
  <2>2. \/ pc = "any" /\ Enter("array", "list")
        \/ pc = "any" /\ Enter("object", "dict")
    BY <1>9, Zenon DEF DecodeArray, DecodeObject, Decode
  <2>3. QED
    BY <1>8, <2>1, <2>2
<1>10. CASE CloseAtHead
  BY <1>10, <1>c, <1>e, <1>f, Zenon DEF CloseAtHead, Fail
<1>11. CASE NextElement
  BY <1>11, <1>h DEF NextElement
<1>12. CASE Unwind
  BY <1>0, <1>12 DEF Unwind, Control, NullIsError
<1>13. CASE AddItem
  <2>1. UNCHANGED stack /\ Top.kind = "array"
    BY <1>13, Zenon DEF AddItem, Returned
  <2>2. i # Len(stack)
    BY <1>1, <2>1 DEF BadKeyAt, Top
  <2>3. CASE pyErr' = "callback"
    BY <1>e, <2>3
  <2>4. CASE Puts(<<ret>>)
    BY <1>0, <1>1, <1>2, <1>f, <2>1, <2>2, <2>4, DoomStays DEF Puts
  <2>5. QED
    BY <1>0, <1>13, <2>3, <2>4, AddItemSteps
<1>14. CASE TakeKey
  <2>0. Top.name = 0 /\ ret # 0 /\ Top.kind = "object"
    BY <1>14, Zenon DEF TakeKey, Returned
  <2>1. CASE errorStr' # "none"
    BY <1>e, <2>1
  <2>2. CASE stack' = SetTop([Top EXCEPT !.name = ret]) /\ UNCHANGED heap
    <3> DEFINE f == [Top EXCEPT !.name = ret]
    <3>1. f \in Frames /\ f.name = ret /\ f.kind = Top.kind
      <4>1. Top \in Frames /\ ret \in Nat
        BY <1>0, <1>2, TopIsFrame, InRange
      <4>2. QED
        BY <4>1, FrameUpdates
    <3> HIDE DEF f
    <3>2. CASE i # Len(stack)
      BY <1>d, <1>f, <2>2, <3>1, <3>2 DEF f
    <3>3. CASE i = Len(stack)
      <4>1. heap[ret].kind # "str"
        BY <1>1, <2>0, <3>3 DEF BadKeyAt, Top
      <4>2. stack'[i] = f /\ i \in DOMAIN stack'
        BY <1>0, <1>2, <2>2, <3>1, <3>3, SetTopStack DEF f
      <4>3. BadKeyAt(i)'
        BY <2>0, <2>2, <3>1, <4>1, <4>2 DEF BadKeyAt
      <4>4. QED
        BY <1>f, <4>2, <4>3, Zenon DEF Doomed
    <3>4. QED
      BY <3>2, <3>3
  <2>3. QED
    BY <1>14, <2>1, <2>2, Zenon DEF TakeKey, Fail
<1>15. CASE ExpectColon
  <2>1. pc # "return"
    BY <1>15, Zenon DEF ExpectColon
  <2>2. QED
    BY <1>15, <1>e, <1>h, <2>1, Zenon DEF ExpectColon, Fail
<1>16. CASE AddKey
  <2>1. Top.name # 0 /\ Top.kind = "object" /\ stack' = SetTop([Top EXCEPT !.name = 0])
    BY <1>16, Zenon DEF AddKey, Returned
  <2>2. CASE pyErr' = "JSONDecodeError"
    BY <1>e, <2>2
  <2>3. CASE Puts(<<Top.name, ret>>) /\ heap[Top.name].kind \notin {"list", "dict"}
    <3>1. Top \in Frames /\ Top.name \in 1 .. Len(heap) /\ Len(stack) \in DOMAIN stack
      BY <1>0, <1>2, <2>1, TopIsFrame, TopPointers
    <3>2. heap[Top.name].kind = "str"
      <4>1. heap[Top.name].kind # "other"
        BY <1>0, <2>1, <3>1 DEF Top, Shape, KeyKinds
      <4>2. QED
        BY <1>0, <2>3, <3>1, <4>1, InRange DEF Kinds
    <3>3. i # Len(stack)
      BY <1>1, <2>1, <3>2 DEF BadKeyAt, Top
    <3>4. [Top EXCEPT !.name = 0] \in Frames
      BY <3>1, Updated
    <3>5. QED
      BY <1>d, <1>f, <2>1, <2>3, <3>3, <3>4 DEF Puts
  <2>4. QED
    BY <1>0, <1>16, <2>2, <2>3, AddKeySteps
<1>17. CASE Separator
  <2>1. CASE stack' = SetTop([Top EXCEPT !.len = @ + 1]) /\ UNCHANGED heap /\ pc = "sep"
    <3>1. [Top EXCEPT !.len = @ + 1] \in Frames
      BY <1>0, <1>2, TopIsFrame, Updated
    <3>2. QED
      BY <1>b, <1>d, <1>f, <2>1, <3>1
  <2>2. QED
    BY <1>17, <1>c, <1>e, <1>f, <2>1, Zenon DEF Separator, Fail
<1>18. CASE FreeEscapes \/ CheckTrailing \/ ReturnToPython
  BY <1>0, <1>2, <1>18 DEF FreeEscapes, CheckTrailing, ReturnToPython, Control, Activations
<1>19. QED
  BY <1>3, <1>4, <1>5, <1>6, <1>7, <1>9, <1>10, <1>11, <1>12, <1>13, <1>14, <1>15, <1>16,
     <1>17, <1>18, Zenon DEF Next, Element, Loop, Finish

\* The reader never reads again after it has rejected.
LEMMA RejectedStays == Known /\ Control' /\ Rejected /\ Next => Rejected'
<1> SUFFICES ASSUME Known, Control', Rejected, Next PROVE Rejected'
  OBVIOUS
<1>1. CASE errorStr # "none"
  BY <1>1, FirstErrorStep, Zenon DEF Known, Rejected
<1>2. CASE pyErr # "none"
  BY <1>2, ExceptionStep, Zenon DEF Rejected
<1>3. CASE errorStr = "none" /\ pyErr = "none" /\ Doomed
  BY <1>3, DoomedStays
<1>4. QED
  BY <1>1, <1>2, <1>3, Zenon DEF Rejected

(***************************************************************************)
(* What the decoder reads while it has not rejected.  A callback that      *)
(* failed does not stop it: where it fails to put an object into a         *)
(* container the decoder reads on, and goes back only when it makes none.  *)
(***************************************************************************)

\* NULL is on its way to the caller.
Null == ret = 0 /\ pc \in {"return", "skip", "tail", "binding", "done"}

\* Nothing but a callback that puts an object into a container has failed.
Clean == errorStr = "none" /\ ~Null /\ ~Doomed

\* NULL is returned for no reason that is in the text.
Failed == Null /\ errorStr \in {"none", "memory"}

\* The reader in the place of the decoder, whether or not it has rejected.
Raw == INSTANCE JSONText WITH
  Texts <- Seq(Chars), argument <- Argument, text <- memory,
  pos <- start, open <- KindsOf(stack), expect <- Expected

\* The steps of the reader but its rejections.
Reads ==
  \/ Raw!Skip \/ Raw!Scalar \/ Raw!OpenArray \/ Raw!OpenObject \/ Raw!Key \/ Raw!Colon
  \/ Raw!Comma \/ Raw!Close \/ Raw!Accept \/ UNCHANGED Raw!textVars

\* The reader is at a character that may not follow.
Refuses == Raw!Reading /\ ~Raw!AtEnd /\ Raw!Symbol \notin Raw!Legal

\* A callback may fail here.
Failing == Failures # {} /\ argKind # "other" /\ pc \notin {"binding", "done"}

\* What a step of a clean decoder does.
GoesOn == Clean' /\ Reads /\ (pyErr' = pyErr \/ Failing)
GivesUp == Failed' /\ (Failing \/ pyErr # "none" \/ (argKind = "other" /\ pc = "call"))
Rejects == Rejected' /\ Refuses
StepsClean == UNCHANGED <<argKind, memory>> /\ (GoesOn \/ GivesUp \/ Rejects)

\* A value may follow, or a key.
ValueAt == Expected = "value" \/ (Expected = "first" /\ Top.kind = "array")
KeyAt == Expected = "key" \/ (Expected = "first" /\ Top.kind = "object")

\* What may follow, by where the decoder is.
LEMMA ExpectedIs ==
  /\ pc = "call" => Expected = "value"
  /\ pc \in {"any", "loop"} =>
       /\ stack = <<>> \/ Top.name # 0 => Expected = "value"
       /\ stack # <<>> /\ Top.name = 0 =>
            Expected = IF Top.len = 0 THEN "first"
                       ELSE IF Top.kind = "array" THEN "value" ELSE "key"
  /\ pc = "colon" => Expected = "colon"
  /\ pc = "sep" => Expected = "separator"
  /\ pc = "return" =>
       Expected = IF stack = <<>> THEN "end"
                  ELSE IF Top.kind = "object" /\ Top.name = 0 THEN "colon" ELSE "separator"
  /\ pc \in {"skip", "tail"} => Expected = "end"
  /\ pc \in {"binding", "done"} => Expected = "accepted"
BY DEF Expected

\* What a clean decoder looks like to the reader.
LEMMA ReaderSees ==
  ASSUME Known, Clean
  PROVE  /\ Raw!Symbol = CharAt(start)
         /\ errorStr = "none" /\ \A i \in DOMAIN stack : Sound(i)
         /\ stack # <<>> => Raw!Inner = Top.kind
         /\ pc = "return" => ret # 0
<1>1. errorStr = "none" /\ ~Doomed /\ ~Null
  BY DEF Clean
<1>2. \A i \in DOMAIN stack : Sound(i)
  BY <1>1, DoomedOrSound DEF Known
<1>3. Raw!Symbol = CharAt(start)
  <2>1. start \in Nat \ {0} /\ Len(memory) \in Nat /\ DOMAIN memory = 1 .. Len(memory)
    BY DecoderAssumption, LenProperties DEF Known, Control, TypeOK
  <2>2. start \in DOMAIN memory <=> start <= Len(memory)
    BY <2>1
  <2>3. QED
    BY <2>2, Zenon DEF Raw!Symbol, CharAt, NUL
<1>4. stack # <<>> => Raw!Inner = Top.kind
  BY KindsType, InRange DEF Raw!Inner, Top, Known
<1>5. QED
  BY <1>1, <1>2, <1>3, <1>4 DEF Null

\* The step is one of the reader.
LEMMA ReadsOn ==
  ASSUME Clean', UNCHANGED <<argKind, memory>>, pyErr' = pyErr \/ Failing, Reads
  PROVE  StepsClean
BY Zenon DEF StepsClean, GoesOn

\* The characters the reader takes next, in terms of the decoder.
LEMMA LegalIs ==
  ASSUME Known, Clean, CharAt(start) \in Raw!Legal
  PROVE  \/ IsSpace
         \/ ValueAt /\ CharAt(start) \in {"s", "n", "z"}
         \/ ValueAt /\ Len(stack) < MaxDepth /\ CharAt(start) \in {"[", "{"}
         \/ KeyAt /\ CharAt(start) = "s"
         \/ Expected = "colon" /\ CharAt(start) = ":"
         \/ Expected = "separator" /\ CharAt(start) = ","
         \/ Expected \in {"first", "separator"} /\ CharAt(start) = Closer(Top.kind)
<1>1. Len(KindsOf(stack)) = Len(stack) /\ (stack # <<>> => Raw!Inner = Top.kind)
  BY ReaderSees, KindsType, InRange DEF Known
<1>2. Expected \in {"first", "separator"} => stack # <<>>
  BY ExpectedIs DEF Known, Control, Activations, TypeOK
<1>3. (Raw!ValueExpected => ValueAt) /\ (Raw!KeyExpected => KeyAt)
  BY <1>1, <1>2, Zenon DEF Raw!ValueExpected, Raw!KeyExpected, ValueAt, KeyAt
<1>4. Expected \in {"first", "separator"} => Raw!CloserOf = Closer(Top.kind)
  BY <1>1, <1>2, Zenon DEF Raw!CloserOf, Closer
<1>5. CharAt(start) \in Raw!Openers => Len(stack) < MaxDepth /\ CharAt(start) \in {"[", "{"}
  <2>1. CASE Len(stack) < MaxDepth
    BY <1>1, <2>1, Zenon DEF Raw!Openers
  <2>2. CASE ~(Len(stack) < MaxDepth)
    BY <1>1, <2>2, Zenon DEF Raw!Openers
  <2>3. QED
    BY <2>1, <2>2
<1>6. QED
  BY <1>3, <1>4, <1>5, Zenon DEF Raw!Legal, Raw!Blank, Raw!ScalarStarts, IsSpace

\* The step is none of the reader.
LEMMA StutterStep ==
  ASSUME Clean', UNCHANGED <<argKind, memory, start>>, pyErr' = pyErr \/ Failing,
         KindsOf(stack') = KindsOf(stack), Expected' = Expected
  PROVE  StepsClean
<1>1. Argument' = Argument
  BY DEF Argument
<1>2. KindsOf(stack)' = KindsOf(stack)
  <2>1. KindsOf(stack)' = KindsOf(stack')
    BY DEF KindsOf
  <2>2. QED
    BY <2>1
<1>3. UNCHANGED Raw!textVars
  BY <1>1, <1>2 DEF Raw!textVars
<1>4. QED
  BY <1>3, Zenon DEF StepsClean, GoesOn, Reads

\* Where the decoder decodes, the reader reads.
LEMMA ReaderReads ==
  ASSUME Known, Clean, pc \notin {"call", "binding", "done"}
  PROVE  Raw!Reading
<1>1. Argument = "bytes"
  BY DEF Known, Reading, HasBytes, Argument
<1>2. Expected \notin {"accepted", "rejected"}
  BY ExpectedIs DEF Known, Control, TypeOK
<1>3. QED
  BY <1>1, <1>2, Zenon DEF Raw!Reading

\* The step reads one of some characters.
LEMMA ReadStep ==
  ASSUME Known, Clean, pc \notin {"call", "binding", "done"}, UNCHANGED <<argKind, memory>>,
         NEW characters, CharAt(start) \in characters,
         start' = IF CharAt(start) = "z" THEN start ELSE start + 1
  PROVE  Raw!Read(characters, KindsOf(stack'), Expected')
<1>1. Raw!Symbol = CharAt(start) /\ Raw!Reading
  BY ReaderSees, ReaderReads
<1>2. KindsOf(stack)' = KindsOf(stack')
  BY DEF KindsOf
<1>3. Argument' = Argument
  BY DEF Argument
<1>4. QED
  BY <1>1, <1>2, <1>3, Zenon DEF Raw!Read

\* The step gives up because a callback failed.
LEMMA RejectFailure ==
  ASSUME Failed', Failing, UNCHANGED <<argKind, memory>>
  PROVE  StepsClean
BY Zenon DEF StepsClean, GivesUp

\* The step rejects a character that may not follow.
LEMMA RejectCharacter ==
  ASSUME Known, Clean, Rejected', UNCHANGED <<argKind, memory>>,
         pc \notin {"call", "binding", "done"}, CharAt(start) \notin Raw!Legal,
         Expected # "end" \/ start # Len(memory) + 1
  PROVE  StepsClean
<1>1. Raw!Reading /\ Raw!Symbol = CharAt(start)
  BY ReaderSees, ReaderReads
<1>2. QED
  BY <1>1, Zenon DEF StepsClean, Rejects, Refuses, Raw!AtEnd

(***************************************************************************)
(* Every step of a clean decoder is one of the reader, or none.            *)
(***************************************************************************)

\* decode_any is called for a key.
KeyPosition == stack # <<>> /\ Top.kind = "object" /\ Top.name = 0

\* What decode_any may be called for.
LEMMA AnyExpects ==
  ASSUME Known, pc = "any"
  PROVE  /\ ~KeyPosition => ValueAt /\ ~KeyAt
         /\ KeyPosition => KeyAt /\ ~ValueAt
         /\ Expected \notin {"colon", "separator", "end"}
         /\ Expected = "first" => CharAt(start) # Closer(Top.kind)
         /\ ~IsSpace \/ stack = <<>> \/ Top.name # 0
<1>1. stack # <<>> => Top.kind \in {"array", "object"}
  BY TopIsFrame, InRange DEF Known, Frames
<1>2. stack # <<>> /\ Top.kind = "array" => Top.name = 0
  BY TopPointers DEF Known
<1>3. Expected = "first" => CharAt(start) # Closer(Top.kind)
  BY ExpectedIs DEF Known, Reading, AtElement
<1>4. ~IsSpace \/ stack = <<>> \/ Top.name # 0
  BY DEF Known, Reading, AtElement
<1>5. Expected \notin {"colon", "separator", "end"}
  BY ExpectedIs
<1>6. KeyPosition => Expected = "key" \/ (Expected = "first" /\ Top.kind = "object")
  BY ExpectedIs DEF KeyPosition
<1>7. ~KeyPosition => Expected = "value" \/ (Expected = "first" /\ Top.kind = "array")
  BY <1>1, ExpectedIs DEF KeyPosition
<1>8. QED
  BY <1>3, <1>4, <1>5, <1>6, <1>7 DEF ValueAt, KeyAt

\* Nothing went wrong and every activation is sound.
LEMMA StaysClean ==
  ASSUME Control', errorStr' = "none", ~Null', \A i \in DOMAIN stack' : Sound(i)'
  PROVE  Clean'
<1>1. /\ DOMAIN stack' = 1 .. Len(stack') /\ Len(stack') \in Nat
  BY LenProperties DEF Control, TypeOK
<1>2. \A i \in DOMAIN stack' : ~BadKeyAt(i)'
  BY <1>1 DEF Sound, BadKeyAt
<1>3. QED
  BY <1>2, Zenon DEF Clean, Doomed

\* An activation that stays sound when objects keep their kinds and it is not
\* on top, or has a key, or nothing is returned to it.
LEMMA SoundStays ==
  ASSUME Control, NEW i \in DOMAIN stack, Sound(i), i \in DOMAIN stack',
         stack'[i].kind = stack[i].kind, stack'[i].name = stack[i].name,
         \A o \in 1 .. Len(heap) : heap'[o].kind = heap[o].kind,
         \/ stack[i].name # 0
         \/ Len(stack') = Len(stack) /\ (ret' = 0 \/ ret' = ret)
  PROVE  Sound(i)'
<1>1. stack[i].name # 0 => heap'[stack[i].name].kind = heap[stack[i].name].kind
  BY InRange
<1>2. ret # 0 => heap'[ret].kind = heap[ret].kind
  BY InRange
<1>3. QED
  BY <1>1, <1>2 DEF Sound

\* Steps that change neither activations nor what is returned keep it clean.
LEMMA SameClean ==
  ASSUME Known, Known', Clean, ~Null', UNCHANGED <<stack, errorStr>>,
         ret' = 0 \/ ret' = ret, \A o \in 1 .. Len(heap) : heap'[o].kind = heap[o].kind
  PROVE  Clean'
<1>1. \A i \in DOMAIN stack' : Sound(i)'
  <2> TAKE i \in DOMAIN stack'
  <2>1. i \in DOMAIN stack /\ Sound(i)
    BY ReaderSees
  <2>2. QED
    BY <2>1, SoundStays DEF Known
<1>2. QED
  BY <1>1, ReaderSees, StaysClean DEF Known

\* A value that was made is one the reader takes, or one it rejects as a key.
LEMMA MadeClean ==
  ASSUME Known, Known', Clean, pc = "any", NEW kind \in Kinds, Makes(kind),
         ret' = Len(heap) + 1, UNCHANGED <<stack, errorStr>>
  PROVE  IF KeyPosition /\ kind # "str" THEN Rejected' ELSE Clean'
<1>0. /\ Len(heap) \in Nat /\ Len(stack) \in Nat /\ DOMAIN stack = 1 .. Len(stack)
      /\ stack # <<>> => Len(stack) \in DOMAIN stack
  BY InRange, TopIsFrame DEF Known
<1>1. ret' # 0 /\ heap'[ret'].kind = kind
  BY <1>0 DEF Makes
<1>2. CASE KeyPosition /\ kind # "str"
  <2>1. BadKeyAt(Len(stack))'
    BY <1>1, <1>2 DEF KeyPosition, BadKeyAt, Top
  <2>2. Doomed'
    BY <1>0, <1>2, <2>1 DEF Doomed, KeyPosition
  <2>3. QED
    BY <1>2, <2>2, Zenon DEF Rejected
<1>3. CASE ~(KeyPosition /\ kind # "str")
  <2>1. \A i \in DOMAIN stack' : Sound(i)'
    <3> TAKE i \in DOMAIN stack'
    <3>1. i \in DOMAIN stack /\ Sound(i)
      BY ReaderSees
    <3>2. CASE stack[i].name # 0
      BY <3>1, <3>2, SoundStays DEF Known, Makes
    <3>3. CASE stack[i].name = 0
      <4>1. stack[i].kind = "object" => i = Len(stack)
        BY <3>1, <3>3 DEF Sound
      <4>2. stack[i].kind = "object" => kind = "str"
        BY <1>0, <1>3, <3>3, <4>1, EmptySeq DEF KeyPosition, Top
      <4>3. QED
        BY <1>1, <3>3, <4>1, <4>2 DEF Sound
    <3>4. QED
      BY <3>2, <3>3
  <2>2. QED
    BY <1>1, <1>3, <2>1, ReaderSees, StaysClean DEF Known, Null
<1>4. QED
  BY <1>2, <1>3, Zenon

\* A callback that makes a value fails only where callbacks may.
LEMMA MayFailFails == ASSUME NEW cb, TRUE \in MayFail(cb) PROVE Failures # {}
BY Zenon DEF MayFail

\* A value is decoded: the reader takes a scalar or a key, or rejects.
LEMMA ElementStep ==
  ASSUME Known, Known', Clean, DecodeString \/ DecodeScalar \/ RejectValue
  PROVE  StepsClean
<1>0. pc = "any" /\ UNCHANGED <<argKind, memory, stack>> /\ argKind # "other"
  <2>1. pc = "any" /\ UNCHANGED <<argKind, memory, stack>>
    BY Zenon DEF DecodeString, DecodeScalar, RejectValue, Decode
  <2>2. QED
    BY <2>1 DEF Known, Reading, HasBytes
<1>1. errorStr = "none" /\ Control
  BY ReaderSees DEF Known
<1>2. errorStr' # "none" => Rejected'
  BY Zenon DEF Rejected
<1>3. ret' = 0 /\ pc' = "return" /\ errorStr' \in {"none", "memory"} => Failed'
  BY Zenon DEF Failed, Null
<1>a. ASSUME Rejected', CharAt(start) \notin Raw!Legal PROVE StepsClean
  BY <1>0, <1>a, AnyExpects, RejectCharacter, Zenon
<1>b. ASSUME Failed', Failures # {} PROVE StepsClean
  BY <1>0, <1>b, RejectFailure, Zenon DEF Failing
<1>c. ASSUME NEW kind \in {"str", "other"}, Made(kind, "newScalar"), UNCHANGED errorStr,
             CharAt(start) \in {"s", "n", "z"}, kind = "str" <=> CharAt(start) = "s",
             start' = IF CharAt(start) = "z" THEN start ELSE start + 1
      PROVE  StepsClean
  <2>0. kind \in Kinds
    BY DEF Kinds
  <2>1. CASE ret' = 0 /\ TRUE \in MayFail("newScalar")
    <3>1. pc' = "return"
      BY <1>c DEF Made
    <3>2. QED
      BY <1>1, <1>3, <1>b, <1>c, <2>1, <3>1, MayFailFails
  <2>2. CASE Makes(kind) /\ ret' = Len(heap) + 1 /\ pyErr' = pyErr
    <3>0. IF KeyPosition /\ kind # "str" THEN Rejected' ELSE Clean'
      BY <1>0, <1>c, <2>0, <2>2, MadeClean
    <3>1. CASE KeyPosition /\ kind # "str"
      <4>1. CharAt(start) \notin Raw!Legal
        <5>1. KeyAt /\ ~ValueAt /\ CharAt(start) # "s" /\ ~IsSpace
          BY <1>0, <1>c, <3>1, AnyExpects, Zenon DEF IsSpace
        <5>2. CharAt(start) \notin {":", ",", Closer(Top.kind)}
          BY <1>c, Zenon DEF Closer
        <5>3. QED
          BY <5>1, <5>2, LegalIs, Zenon
      <4>2. QED
        BY <1>a, <3>0, <3>1, <4>1
    <3>2. CASE KeyPosition /\ kind = "str"
      <4>1. CharAt(start) \in {"s"} /\ KeyAt
        BY <1>0, <1>c, <3>2, AnyExpects, Zenon
      <4>2. Expected' = "colon"
        <5>1. pc' = "return" /\ stack' # <<>> /\ Top'.kind = "object" /\ Top'.name = 0
          BY <1>0, <1>c, <3>2 DEF Made, KeyPosition, Top
        <5>2. QED
          BY <5>1 DEF Expected
      <4>3. Raw!Read({"s"}, KindsOf(stack), "colon")
        <5>1. pc \notin {"call", "binding", "done"}
          BY <1>0
        <5>2. KindsOf(stack') = KindsOf(stack)
          BY <1>0, ReaderSees
        <5>3. QED
          BY <1>0, <1>c, <3>2, <4>1, <4>2, <5>1, <5>2, ReadStep, Zenon
      <4>4. Raw!KeyExpected
        BY <3>2, <4>1, ReaderSees, Zenon DEF Raw!KeyExpected, KeyAt, KeyPosition
      <4>5. QED
        BY <1>0, <2>2, <3>0, <3>2, <4>3, <4>4, ReadsOn, Zenon DEF Raw!Key, Reads
    <3>3. CASE ~KeyPosition
      <4>1. ValueAt
        BY <1>0, <3>3, AnyExpects
      <4>2. Expected' = IF KindsOf(stack) = <<>> THEN "end" ELSE "separator"
        <5>1. /\ pc' = "return" /\ stack' = stack /\ Top' = Top
          BY <1>0, <1>c DEF Made, Top
        <5>2. Expected' = IF stack = <<>> THEN "end" ELSE "separator"
          BY <3>3, <5>1 DEF Expected, KeyPosition
        <5>3. KindsOf(stack) = <<>> <=> stack = <<>>
          BY <1>1, ReaderSees, KindsType, InRange
        <5>4. QED
          BY <5>2, <5>3
      <4>3. Raw!Read({"s", "n", "z"}, KindsOf(stack),
               IF KindsOf(stack) = <<>> THEN "end" ELSE "separator")
        <5>1. pc \notin {"call", "binding", "done"}
          BY <1>0
        <5>2. KindsOf(stack') = KindsOf(stack)
          BY <1>0, ReaderSees
        <5>3. QED
          BY <1>0, <1>c, <3>3, <4>2, <5>1, <5>2, ReadStep, Zenon
      <4>4. Raw!ValueExpected
        <5>1. Expected = "first" => stack # <<>>
          BY <1>0, ExpectedIs
        <5>2. QED
          BY <4>1, <5>1, ReaderSees, Zenon DEF Raw!ValueExpected, ValueAt
      <4>5. QED
        BY <1>0, <2>2, <3>0, <3>3, <4>3, <4>4, ReadsOn, Zenon
        DEF Raw!Scalar, Raw!ScalarStarts, Raw!AfterValue, Reads
    <3>4. QED
      BY <3>1, <3>2, <3>3
  <2>3. QED
    BY <1>0, <1>1, <1>c, <2>0, <2>1, <2>2, MadeSteps
<1>4. CASE DecodeString
  <2> DEFINE need == end - start
  <2>1. CASE NoMemory(need)
    <3>1. need >= 0
      <4>1. CharAt(start) # NUL
        BY <1>4, Zenon DEF DecodeString, Decode, NUL
      <4>2. start \in Nat /\ Len(memory) \in Nat
        BY <1>1, DecoderAssumption, LenProperties DEF Control, TypeOK
      <4>3. start <= Len(memory)
        BY <4>1, <4>2, NotBehind
      <4>4. QED
        BY <4>2, <4>3 DEF Known, Whole
    <3>2. need \in Int
      BY <1>1, DecoderAssumption, LenProperties DEF Control, TypeOK
    <3>3. ~(need < 0)
      BY <3>1, <3>2
    <3>4. TRUE \in MayFail("malloc") /\ errorStr' = "memory" /\ ret' = 0 /\ pc' = "return"
      BY <2>1, <3>3, Zenon DEF NoMemory, Fail
    <3>5. QED
      BY <1>3, <1>b, <3>4, MayFailFails, Zenon
  <2>2. CASE CharAt(start) = "q" /\ Fail("string")
    <3>1. CharAt(start) \notin Raw!Legal
      BY <2>2, LegalIs, Zenon DEF IsSpace, Closer
    <3>2. errorStr' = "string"
      BY <2>2, Zenon DEF Fail
    <3>3. QED
      BY <1>2, <1>a, <3>1, <3>2, Zenon
  <2>3. CASE CharAt(start) = "s" /\ Made("str", "newScalar") /\ UNCHANGED errorStr
    <3>1. start' = IF CharAt(start) = "z" THEN start ELSE start + 1
      BY <1>4, <2>3, Zenon DEF DecodeString
    <3>2. QED
      BY <1>c, <2>3, <3>1, Zenon
  <2>4. QED
    BY <1>4, <2>1, <2>2, <2>3, Zenon DEF DecodeString
<1>5. CASE DecodeScalar
  BY <1>5, <1>c, Zenon DEF DecodeScalar, Decode
<1>6. CASE RejectValue
  <2>1. CharAt(start) \in {"x", "j", "]", "}", ",", ":", NUL} /\ errorStr' = "value"
    BY <1>6, Zenon DEF RejectValue, Decode, Fail
  <2>2. CharAt(start) \notin Raw!Legal
    <3>1. Expected \notin {"colon", "separator"}
      BY <1>0, AnyExpects
    <3>2. ~(Expected \in {"first", "separator"} /\ CharAt(start) = Closer(Top.kind))
      BY <1>0, <3>1, AnyExpects
    <3>3. CharAt(start) \notin {"s", "n", "z", "[", "{"} /\ ~IsSpace
      BY <2>1, Zenon DEF IsSpace, NUL
    <3>4. QED
      BY <3>1, <3>2, <3>3, LegalIs, Zenon
  <2>3. QED
    BY <1>2, <1>a, <2>1, <2>2, Zenon
<1>7. QED
  BY <1>4, <1>5, <1>6

\* The character that opens a container.
Opens(kind, c) == c = IF kind = "array" THEN "[" ELSE "{"

\* A container is entered: the reader opens one, or rejects it for a key, or
\* because too many are open.
LEMMA EnterStep ==
  ASSUME Known, Known', Clean, NEW kind \in {"array", "object"},
         pc = "any", Opens(kind, CharAt(start)), NEW container \in Kinds, Enter(kind, container)
  PROVE  StepsClean
<1>0. /\ Control /\ errorStr = "none" /\ ret = 0 /\ UNCHANGED <<argKind, memory, pyErr>>
      /\ objDepth = Len(stack) /\ Len(stack) \in Nat /\ stack \in Seq(Frames)
      /\ DOMAIN stack = 1 .. Len(stack)
  BY ReaderSees, InRange DEF Known, Control, GoingOn, Depth, Enter
<1>a. ASSUME Rejected', CharAt(start) \notin Raw!Legal PROVE StepsClean
  BY <1>0, <1>a, AnyExpects, RejectCharacter, Zenon
<1>b. CharAt(start) \notin {"s", "n", "z", ":", ",", "]", "}"} /\ ~IsSpace
  BY Zenon DEF IsSpace, Opens
<1>1. CASE Fail("depth")
  <2>1. ~(Len(stack) < MaxDepth)
    BY <1>0, <1>1, DecoderAssumption DEF Enter, Fail
  <2>2. CharAt(start) \notin Raw!Legal
    BY <1>b, <2>1, LegalIs, Zenon DEF Closer
  <2>3. Rejected'
    BY <1>1, Zenon DEF Fail, Rejected
  <2>4. QED
    BY <1>a, <2>2, <2>3
<1>2. CASE /\ objDepth + 1 <= MaxDepth
           /\ heap' = NewObject(container)
           /\ stack' = Append(stack, Frame(kind, NewId))
           /\ start' = start + 1
           /\ pc' = "loop"
           /\ UNCHANGED <<ret, errorStr>>
  <2> DEFINE f == Frame(kind, NewId)
  <2>1. f \in Frames /\ f.kind = kind /\ f.name = 0 /\ f.len = 0
    BY <1>0, InRange DEF Frame, Frames, NewId
  <2> HIDE DEF f
  <2>2. /\ Len(stack') = Len(stack) + 1 /\ DOMAIN stack' = 1 .. Len(stack) + 1
        /\ stack'[Len(stack) + 1] = f /\ stack' # <<>>
        /\ \A i \in 1 .. Len(stack) : stack'[i] = stack[i]
        /\ KindsOf(stack') = Append(KindsOf(stack), kind)
    BY <1>0, <1>2, <2>1, AppendProperties, LenProperties, KindsAppend DEF f
  <2>3. \A o \in 1 .. Len(heap) : heap'[o].kind = heap[o].kind
    BY <1>0, <1>2, NewKind, InRange
  <2>4. Top' = f
    BY <2>2 DEF Top
  <2>5. ~Null'
    BY <1>2 DEF Null
  <2>6. CASE KeyPosition
    <3>1. Len(stack) \in DOMAIN stack
      BY <1>0, <2>6, TopIsFrame DEF KeyPosition
    <3>2. ASSUME NEW i \in DOMAIN stack, i = Len(stack)
          PROVE  i \in DOMAIN stack' /\ BadKeyAt(i)'
      BY <1>0, <2>2, <2>6, <3>2 DEF KeyPosition, BadKeyAt, Top
    <3>3. Rejected'
      <4>1. Doomed'
        BY <3>1, <3>2 DEF Doomed
      <4>2. QED
        BY <4>1, Zenon DEF Rejected
    <3>4. CharAt(start) \notin Raw!Legal
      <4>1. ~ValueAt
        BY <2>6, AnyExpects
      <4>2. QED
        BY <1>b, <4>1, LegalIs, Zenon DEF Closer
    <3>5. QED
      BY <1>a, <3>3, <3>4
  <2>7. CASE ~KeyPosition
    <3>1. \A i \in DOMAIN stack' : Sound(i)'
      <4> TAKE i \in DOMAIN stack'
      <4>1. CASE i = Len(stack) + 1
        BY <1>0, <1>2, <2>1, <2>2, <4>1 DEF Sound
      <4>2. CASE i \in 1 .. Len(stack)
        <5>1. i \in DOMAIN stack /\ Sound(i) /\ stack'[i] = stack[i]
          BY <1>0, <2>2, <4>2, ReaderSees
        <5>2. CASE stack[i].name # 0
          BY <1>0, <2>3, <5>1, <5>2, SoundStays
        <5>3. CASE stack[i].name = 0
          <6>1. stack[i].kind # "object"
            BY <1>0, <2>7, <5>1, <5>3, EmptySeq DEF Sound, KeyPosition, Top
          <6>2. QED
            BY <5>1, <6>1 DEF Sound
        <5>4. QED
          BY <5>2, <5>3
      <4>3. QED
        BY <1>0, <2>2, <4>1, <4>2
    <3>2. Clean'
      BY <1>0, <1>2, <2>5, <3>1, StaysClean DEF Known
    <3>3. Expected' = "first"
      BY <1>2, <2>1, <2>2, <2>4 DEF Expected
    <3>4. Raw!ValueExpected
      <4>1. ValueAt
        BY <2>7, AnyExpects
      <4>2. Expected = "first" => stack # <<>>
        BY ExpectedIs
      <4>3. QED
        BY <4>1, <4>2, ReaderSees, Zenon DEF Raw!ValueExpected, ValueAt
    <3>5. Len(KindsOf(stack)) < MaxDepth
      <4>1. Len(KindsOf(stack)) = Len(stack)
        BY <1>0, ReaderSees, KindsType
      <4>2. QED
        BY <1>0, <1>2, <4>1, DecoderAssumption
    <3>6. CharAt(start) \in Raw!Openers
      BY <3>5, Zenon DEF Raw!Openers, Opens
    <3>7. start' = IF CharAt(start) = "z" THEN start ELSE start + 1
      BY <1>2, <1>b, Zenon
    <3>8. pc \notin {"call", "binding", "done"}
      OBVIOUS
    <3>9. Raw!Read({CharAt(start)} \intersect Raw!Openers, Append(KindsOf(stack), kind), "first")
      BY <1>0, <2>2, <3>2, <3>3, <3>6, <3>7, <3>8, ReadStep, ReaderSees, Zenon
    <3>10. CASE kind = "array"
      <4>1. CharAt(start) = "["
        BY <3>10, Zenon DEF Opens
      <4>2. QED
        BY <1>0, <3>2, <3>4, <3>9, <3>10, <4>1, ReadsOn, Zenon DEF Raw!OpenArray, Reads
    <3>11. CASE kind = "object"
      <4>1. CharAt(start) = "{"
        BY <3>11, Zenon DEF Opens
      <4>2. QED
        BY <1>0, <3>2, <3>4, <3>9, <3>11, <4>1, ReadsOn, Zenon DEF Raw!OpenObject, Reads
    <3>12. QED
      BY <3>10, <3>11
  <2>8. QED
    BY <2>6, <2>7
<1>3. QED
  BY <1>1, <1>2, Zenon DEF Enter

\* A container is closed.
LEMMA CloseStep ==
  ASSUME Known, Known', Clean, pc \in {"loop", "sep"},
         Expected \in {"first", "separator"}, CharAt(start) = Closer(Top.kind),
         ReturnContainer, UNCHANGED <<argKind, memory, pyErr>>
  PROVE  StepsClean
<1>0. /\ Control /\ errorStr = "none" /\ stack # <<>> /\ stack \in Seq(Frames)
      /\ Len(stack) \in Nat \ {0} /\ DOMAIN stack = 1 .. Len(stack)
  BY ReaderSees, InRange, EmptySeq DEF Known, Control, Activations
<1>1. /\ Len(stack') = Len(stack) - 1 /\ DOMAIN stack' = 1 .. Len(stack) - 1
      /\ \A i \in DOMAIN stack' : stack'[i] = stack[i]
      /\ stack' \in Seq(Frames) /\ stack' = Pop
      /\ start' = start + 1 /\ pc' = "return" /\ UNCHANGED <<errorStr, heap>>
  BY <1>0, ReturnFacts DEF ReturnContainer
<1>2. \A i \in DOMAIN stack' :
        /\ Sound(i)'
        /\ stack[i].kind = "object" => stack[i].name # 0
  <2> TAKE i \in DOMAIN stack'
  <2>1. i \in DOMAIN stack /\ Sound(i) /\ i # Len(stack) /\ stack'[i] = stack[i]
    BY <1>0, <1>1, ReaderSees
  <2>2. stack[i].kind = "object" => stack[i].name # 0
    BY <2>1 DEF Sound
  <2>3. CASE stack[i].name # 0
    BY <1>0, <1>1, <2>1, <2>3, SoundStays
  <2>4. CASE stack[i].name = 0
    BY <2>1, <2>2, <2>4 DEF Sound
  <2>5. QED
    BY <2>2, <2>3, <2>4
<1>3. Clean'
  BY <1>0, <1>1, <1>2, StaysClean, ReturnFacts DEF Known, Null
<1>4. KindsOf(stack') = Raw!Outer
  BY <1>0, <1>1, ReaderSees, KindsPop DEF Raw!Outer
<1>5. Expected' = Raw!AfterValue(Raw!Outer)
  <2>1. stack' = <<>> => Expected' = "end"
    BY <1>1 DEF Expected
  <2>2. stack' # <<>> => Expected' = "separator"
    <3>1. stack' # <<>> => Len(stack') \in DOMAIN stack' /\ Top' = stack'[Len(stack')]
      BY <1>0, <1>1, EmptySeq DEF Top
    <3>2. stack' # <<>> => ~(Top'.kind = "object" /\ Top'.name = 0)
      BY <1>1, <1>2, <3>1
    <3>3. QED
      BY <1>1, <3>2 DEF Expected
  <2>3. Raw!Outer = <<>> <=> stack' = <<>>
    BY <1>1, <1>4, KindsType
  <2>4. QED
    BY <2>1, <2>2, <2>3 DEF Raw!AfterValue
<1>6. Raw!CloserOf = CharAt(start) /\ CharAt(start) # "z"
  BY <1>0, ReaderSees, Zenon DEF Raw!CloserOf, Closer
<1>7. start' = IF CharAt(start) = "z" THEN start ELSE start + 1
  BY <1>1, <1>6
<1>8. Raw!Read({Raw!CloserOf}, Raw!Outer, Raw!AfterValue(Raw!Outer))
  <2>1. pc \notin {"call", "binding", "done"}
    OBVIOUS
  <2>2. CharAt(start) \in {Raw!CloserOf}
    BY <1>6
  <2>3. QED
    BY <1>3, <1>4, <1>5, <1>7, <2>1, <2>2, ReadStep, Zenon
<1>9. QED
  BY <1>3, <1>8, ReaderSees, ReadsOn, Zenon DEF Raw!Close, Reads

\* decode_any has returned an object: the reader is ahead, or has a reason to reject.
LEMMA ReturnedStep ==
  ASSUME Known, Known', Clean, AddItem \/ TakeKey \/ AddKey
  PROVE  StepsClean
<1>0. /\ Control /\ errorStr = "none" /\ stack # <<>> /\ stack \in Seq(Frames)
      /\ Len(stack) \in DOMAIN stack /\ DOMAIN stack = 1 .. Len(stack) /\ Len(stack) \in Nat
      /\ pc = "return" /\ ret # 0 /\ UNCHANGED <<argKind, memory, start>> /\ argKind # "other"
      /\ Top \in Frames /\ \A i \in DOMAIN stack : Sound(i)
  <2>1. pc = "return" /\ ret # 0 /\ stack # <<>> /\ UNCHANGED <<argKind, memory, start>>
    BY Zenon DEF AddItem, TakeKey, AddKey, Returned
  <2>2. QED
    BY <2>1, ReaderSees, TopIsFrame, InRange DEF Known, Reading, HasBytes
<1>a. Failures # {} => Failing
  BY <1>0, Zenon DEF Failing
<1>1. CASE AddItem
  <2>1. /\ UNCHANGED <<stack, errorStr>> /\ ret' = 0 /\ pc' = "sep" /\ Top.kind = "array"
    BY <1>1, Zenon DEF AddItem, Returned
  <2>2. \A o \in 1 .. Len(heap) : heap'[o].kind = heap[o].kind
    BY <1>0, <1>1, AddItemSteps DEF Puts, SameObjects
  <2>3. pyErr' = pyErr \/ Failing
    BY <1>0, <1>1, <1>a, AddItemSteps, MayFailFails, Zenon
  <2>4. Clean'
    BY <2>1, <2>2, SameClean DEF Null
  <2>5. Expected = "separator" /\ Expected' = "separator"
    BY <1>0, <2>1 DEF Expected, Top
  <2>6. QED
    BY <1>0, <2>1, <2>3, <2>4, <2>5, StutterStep
<1>2. CASE TakeKey
  <2>1. Top.kind = "object" /\ Top.name = 0
    BY <1>2, Zenon DEF TakeKey, Returned
  <2>2. heap[ret].kind = "str" /\ lastType = "UTF8"
    <3>1. heap[ret].kind = "str"
      BY <1>0, <2>1 DEF Sound, Top
    <3>2. QED
      BY <1>0, <3>1 DEF Known, Shape, ReturnedType
  <2>3. /\ stack' = SetTop([Top EXCEPT !.name = ret]) /\ ret' = 0 /\ pc' = "colon"
        /\ UNCHANGED <<heap, errorStr, pyErr>>
    BY <1>2, <2>2, Zenon DEF TakeKey
  <2> DEFINE f == [Top EXCEPT !.name = ret]
  <2>4. f \in Frames /\ f.name = ret /\ f.kind = Top.kind
    <3>1. ret \in Nat
      BY <1>0, InRange
    <3>2. QED
      BY <1>0, <3>1, FrameUpdates
  <2> HIDE DEF f
  <2>5. /\ stack' \in Seq(Frames) /\ Len(stack') = Len(stack) /\ DOMAIN stack' = 1 .. Len(stack)
        /\ stack'[Len(stack)] = f /\ \A i \in 1 .. Len(stack) - 1 : stack'[i] = stack[i]
    BY <1>0, <2>3, <2>4, SetTopStack DEF f
  <2>6. \A i \in 1 .. Len(stack) : Sound(i)' /\ stack'[i].kind = stack[i].kind
    <3> TAKE i \in 1 .. Len(stack)
    <3>1. CASE i = Len(stack)
      <4>1. stack'[i].kind = "object" /\ stack[i].kind = "object" /\ stack'[i].name = ret
        BY <2>1, <2>4, <2>5, <3>1 DEF Top
      <4>2. ret # 0 /\ heap' = heap
        BY <1>0, <2>3
      <4>3. Sound(i)'
        BY <2>2, <4>1, <4>2, Zenon DEF Sound
      <4>4. QED
        BY <4>1, <4>3
    <3>2. CASE i # Len(stack)
      <4>0. Len(stack) \in Nat
        BY <1>0
      <4>1. i \in 1 .. Len(stack) - 1
        BY <3>2, <4>0
      <4>2. stack'[i] = stack[i] /\ i \in DOMAIN stack /\ Sound(i)
        BY <1>0, <2>5, <4>1, Zenon
      <4>3. QED
        BY <1>0, <2>3, <2>5, <4>2, SoundStays
    <3>3. QED
      BY <3>1, <3>2
  <2>7. Clean'
    BY <1>0, <2>3, <2>5, <2>6, StaysClean DEF Known, Null
  <2>8. KindsOf(stack') = KindsOf(stack)
    BY <1>0, <2>5, <2>6, KindsSame
  <2>9. Expected = "colon" /\ Expected' = "colon"
    BY <1>0, <2>1, <2>3 DEF Expected
  <2>10. QED
    BY <1>0, <2>3, <2>7, <2>8, <2>9, StutterStep
<1>3. CASE AddKey
  <2>1. /\ Top.kind = "object" /\ Top.name # 0 /\ stack' = SetTop([Top EXCEPT !.name = 0])
        /\ ret' = 0 /\ pc' = "sep" /\ UNCHANGED errorStr
    BY <1>3, Zenon DEF AddKey, Returned
  <2>2. heap[Top.name].kind = "str"
    BY <1>0, <2>1 DEF Sound, Top
  <2>3. \A o \in 1 .. Len(heap) : heap'[o].kind = heap[o].kind
    BY <1>0, <1>3, AddKeySteps DEF Puts, SameObjects
  <2>4. pyErr' = pyErr \/ Failing
    BY <1>0, <1>3, <1>a, <2>2, AddKeySteps, MayFailFails
  <2> DEFINE f == [Top EXCEPT !.name = 0]
  <2>5. f \in Frames /\ f.name = 0 /\ f.kind = Top.kind
    BY <1>0 DEF Frames
  <2> HIDE DEF f
  <2>6. /\ stack' \in Seq(Frames) /\ Len(stack') = Len(stack)
        /\ DOMAIN stack' = 1 .. Len(stack)
        /\ stack'[Len(stack)] = f /\ \A i \in 1 .. Len(stack) - 1 : stack'[i] = stack[i]
    BY <1>0, <2>1, <2>5, SetTopStack DEF f
  <2>7. \A i \in 1 .. Len(stack) : Sound(i)' /\ stack'[i].kind = stack[i].kind
    <3> TAKE i \in 1 .. Len(stack)
    <3>1. CASE i = Len(stack)
      <4>1. /\ stack'[i].kind = stack[i].kind /\ stack'[i].name = 0
            /\ i = Len(stack') /\ ret' = 0
        BY <2>1, <2>5, <2>6, <3>1 DEF Top
      <4>2. QED
        BY <4>1, Zenon DEF Sound
    <3>2. CASE i # Len(stack)
      <4>0. Len(stack) \in Nat
        BY <1>0
      <4>1. i \in 1 .. Len(stack) - 1
        BY <3>2, <4>0
      <4>2. stack'[i] = stack[i] /\ i \in DOMAIN stack /\ Sound(i)
        BY <1>0, <2>6, <4>1, Zenon
      <4>3. QED
        BY <1>0, <2>1, <2>3, <2>6, <4>2, SoundStays
    <3>3. QED
      BY <3>1, <3>2
  <2>8. Clean'
    BY <1>0, <2>1, <2>6, <2>7, StaysClean DEF Known, Null
  <2>9. KindsOf(stack') = KindsOf(stack)
    BY <1>0, <2>6, <2>7, KindsSame
  <2>10. Expected = "separator" /\ Expected' = "separator"
    BY <1>0, <2>1 DEF Expected
  <2>11. QED
    BY <1>0, <2>4, <2>8, <2>9, <2>10, StutterStep
<1>4. QED
  BY <1>1, <1>2, <1>3

\* The loops read what stands between the elements.
LEMMA LoopStep ==
  ASSUME Known, Known', Clean, CloseAtHead \/ NextElement \/ ExpectColon \/ Separator
  PROVE  StepsClean
<1>0. /\ Control /\ errorStr = "none" /\ stack # <<>> /\ stack \in Seq(Frames)
      /\ Len(stack) \in DOMAIN stack /\ DOMAIN stack = 1 .. Len(stack) /\ Len(stack) \in Nat
      /\ pc \in {"loop", "colon", "sep"} /\ ret = 0 /\ UNCHANGED <<argKind, memory, pyErr>>
      /\ Top \in Frames /\ Top.kind \in {"array", "object"}
      /\ pc \in {"loop", "sep"} => Top.name = 0
      /\ pc = "colon" => Top.name # 0
  <2>1. pc \in {"loop", "colon", "sep"} /\ UNCHANGED <<argKind, memory, pyErr>>
    BY Zenon DEF CloseAtHead, NextElement, ExpectColon, Separator
  <2>2. stack # <<>> /\ ret = 0
    BY <2>1 DEF Known, Control, Activations, GoingOn
  <2>3. QED
    BY <2>1, <2>2, ReaderSees, TopIsFrame, InRange DEF Known, Control, Keys, Frames
<1>a. ASSUME errorStr' # "none", CharAt(start) \notin Raw!Legal, Expected # "end"
      PROVE  StepsClean
  BY <1>0, <1>a, RejectCharacter, Zenon DEF Rejected
<1>1. CASE CloseAtHead
  <2>1. pc = "loop" /\ CharAt(start) = Closer(Top.kind)
    BY <1>1, Zenon DEF CloseAtHead
  <2>2. CASE Top.len = 0 /\ ReturnContainer
    <3>1. Expected = "first"
      BY <1>0, <2>1, <2>2 DEF Expected
    <3>2. QED
      BY <1>0, <2>1, <2>2, <3>1, CloseStep
  <2>3. CASE Top.len > 0 /\ Fail("close")
    <3>1. Expected = IF Top.kind = "array" THEN "value" ELSE "key"
      BY <1>0, <2>1, <2>3 DEF Expected, Frames
    <3>2. CharAt(start) \notin {"s", "n", "z", "[", "{"} /\ ~IsSpace
      BY <2>1, Zenon DEF IsSpace, Closer
    <3>3. Expected \notin {"colon", "separator", "first", "end"}
      BY <3>1
    <3>4. CharAt(start) \notin Raw!Legal
      BY <3>2, <3>3, LegalIs, Zenon
    <3>5. errorStr' # "none"
      BY <2>3 DEF Fail
    <3>6. QED
      BY <1>a, <3>3, <3>4, <3>5
  <2>4. QED
    BY <1>1, <2>2, <2>3, Zenon DEF CloseAtHead
<1>2. CASE NextElement
  <2>1. /\ pc = "loop" /\ pc' = "any" /\ UNCHANGED <<start, stack, ret, errorStr, heap>>
    BY <1>2, Zenon DEF NextElement
  <2>2. Clean'
    BY <1>0, <2>1, SameClean DEF Null
  <2>3. Expected' = Expected
    BY <2>1 DEF Expected, Top
  <2>4. QED
    BY <1>0, <2>1, <2>2, <2>3, StutterStep
<1>3. CASE ExpectColon
  <2>1. /\ pc = "colon" /\ ~IsSpace /\ start' = start + 1 /\ Expected = "colon"
    BY <1>3 DEF ExpectColon, Expected
  <2>2. CASE CharAt(start) = ":" /\ pc' = "any" /\ UNCHANGED <<stack, ret, errorStr, heap>>
    <3>1. Clean'
      BY <1>0, <2>2, SameClean DEF Null
    <3>2. Expected' = "value"
      BY <1>0, <2>1, <2>2 DEF Expected, Top
    <3>3. pc \notin {"call", "binding", "done"} /\ KindsOf(stack') = KindsOf(stack)
      BY <2>1, <2>2, ReaderSees
    <3>4. start' = IF CharAt(start) = "z" THEN start ELSE start + 1
      BY <2>1, <2>2, Zenon
    <3>5. CharAt(start) \in {":"}
      BY <2>2, Zenon
    <3>6. Raw!Read({":"}, KindsOf(stack), "value")
      BY <1>0, <3>1, <3>2, <3>3, <3>4, <3>5, ReadStep, Zenon
    <3>7. QED
      BY <1>0, <2>1, <3>1, <3>6, ReadsOn, Zenon DEF Raw!Colon, Reads
  <2>3. CASE CharAt(start) # ":" /\ Fail("colon")
    <3>1. ~ValueAt /\ ~KeyAt /\ Expected \notin {"first", "separator", "end"}
      BY <2>1 DEF ValueAt, KeyAt
    <3>2. CharAt(start) \notin Raw!Legal
      BY <2>1, <2>3, <3>1, LegalIs, Zenon
    <3>3. errorStr' # "none"
      BY <2>3 DEF Fail
    <3>4. QED
      BY <1>a, <3>1, <3>2, <3>3
  <2>4. QED
    BY <1>3, <2>2, <2>3, Zenon DEF ExpectColon
<1>4. CASE Separator
  <2>1. pc = "sep" /\ ~IsSpace /\ Expected = "separator"
    BY <1>4 DEF Separator, Expected
  <2>2. CASE CharAt(start) = Closer(Top.kind) /\ ReturnContainer
    BY <1>0, <2>1, <2>2, CloseStep
  <2>3. CASE /\ CharAt(start) = "," /\ stack' = SetTop([Top EXCEPT !.len = @ + 1])
             /\ start' = start + 1 /\ pc' = "loop" /\ UNCHANGED <<ret, errorStr, heap>>
    <3> DEFINE f == [Top EXCEPT !.len = @ + 1]
    <3>1. f \in Frames /\ f.name = 0 /\ f.kind = Top.kind /\ f.len # 0
      <4>1. Top \in Frames /\ Top.name = 0
        BY <1>0, <2>1
      <4>2. Top.len \in Nat /\ f.len = Top.len + 1 /\ f.kind = Top.kind /\ f.name = Top.name
        BY <4>1 DEF Frames
      <4>3. f \in Frames
        BY <4>1, Updated
      <4> HIDE DEF f
      <4>4. QED
        BY <4>1, <4>2, <4>3
    <3> HIDE DEF f
    <3>2. /\ stack' \in Seq(Frames) /\ Len(stack') = Len(stack)
          /\ DOMAIN stack' = 1 .. Len(stack) /\ stack' # <<>>
          /\ stack'[Len(stack)] = f /\ \A i \in 1 .. Len(stack) - 1 : stack'[i] = stack[i]
      <4>1. stack' = SetTop(f)
        BY <2>3, Zenon DEF f
      <4>2. QED
        BY <1>0, <3>1, <4>1, SetTopStack, EmptySeq
    <3>3. Top' = f
      BY <3>2 DEF Top
    <3>4. ret' = ret /\ errorStr' = errorStr /\ heap' = heap /\ pc' = "loop"
      BY <2>3, Zenon
    <3>5. \A i \in 1 .. Len(stack) :
            Sound(i)' /\ stack'[i].kind = stack[i].kind /\ stack'[i].name = stack[i].name
      <4> TAKE i \in 1 .. Len(stack)
      <4>1. stack'[i].kind = stack[i].kind /\ stack'[i].name = stack[i].name
        <5>1. CASE i = Len(stack)
          <6>1. Top.name = 0 /\ stack[i] = Top /\ stack'[i] = f
            BY <1>0, <2>1, <3>2, <5>1 DEF Top
          <6>2. QED
            BY <3>1, <6>1
        <5>2. CASE i # Len(stack)
          <6>1. Len(stack) \in Nat
            BY <1>0
          <6>2. i \in 1 .. Len(stack) - 1
            BY <5>2, <6>1
          <6>3. QED
            BY <3>2, <6>2, Zenon
        <5>3. QED
          BY <5>1, <5>2
      <4>2. i \in DOMAIN stack /\ Sound(i) /\ i \in DOMAIN stack'
        BY <1>0, <3>2, ReaderSees
      <4>3. QED
        BY <1>0, <3>2, <3>4, <4>1, <4>2, SoundStays
    <3>6. Clean'
      BY <1>0, <3>2, <3>4, <3>5, StaysClean DEF Known, Null
    <3>7. KindsOf(stack') = KindsOf(stack)
      BY <1>0, <3>2, <3>5, KindsSame, ReaderSees
    <3>8. Expected' = IF Raw!Inner = "array" THEN "value" ELSE "key"
      <4>1. Raw!Inner = Top.kind
        BY <1>0, ReaderSees
      <4>2. QED
        BY <1>0, <3>1, <3>2, <3>3, <3>4, <4>1 DEF Expected
    <3>9. start' = IF CharAt(start) = "z" THEN start ELSE start + 1
      BY <2>3, Zenon
    <3>10. CharAt(start) \in {","}
      BY <2>3, Zenon
    <3>11. pc \notin {"call", "binding", "done"}
      BY <2>1
    <3>12. Raw!Read({","}, KindsOf(stack), IF Raw!Inner = "array" THEN "value" ELSE "key")
      BY <1>0, <3>6, <3>7, <3>8, <3>9, <3>10, <3>11, ReadStep, Zenon
    <3>13. QED
      BY <1>0, <2>1, <3>6, <3>12, ReadsOn, Zenon DEF Raw!Comma, Reads
  <2>4. CASE CharAt(start) \notin {Closer(Top.kind), ","} /\ Fail("separator")
    <3>1. ~ValueAt /\ ~KeyAt /\ Expected \notin {"colon", "end"}
      BY <2>1 DEF ValueAt, KeyAt
    <3>2. CharAt(start) \notin Raw!Legal
      BY <2>1, <2>4, <3>1, LegalIs, Zenon
    <3>3. errorStr' # "none"
      BY <2>4, Zenon DEF Fail
    <3>4. QED
      BY <1>a, <3>1, <3>2, <3>3
  <2>5. QED
    BY <1>4, <2>2, <2>3, <2>4, Zenon DEF Separator
<1>5. QED
  BY <1>1, <1>2, <1>3, <1>4

\* White space, the start and the end of a call.
LEMMA OuterStep ==
  ASSUME Known, Known', Clean,
         RejectArgument \/ StartDecoding \/ SkipWhitespace \/ Unwind \/ Finish
  PROVE  StepsClean
<1>0. Control /\ errorStr = "none" /\ ~Null
  BY DEF Known, Clean
<1>1. CASE RejectArgument
  <2>1. /\ pc = "call" /\ ret = 0 /\ pc' = "done" /\ UNCHANGED <<argKind, memory, ret, errorStr>>
    BY <1>0, <1>1 DEF RejectArgument, dsVars, Control, GoingOn
  <2>2. Failed'
    BY <1>0, <2>1 DEF Failed, Null
  <2>3. argKind # "other" => Failing
    BY <1>1, <2>1, MayFailFails DEF RejectArgument, Failing
  <2>4. QED
    BY <2>1, <2>2, <2>3, Zenon DEF StepsClean, GivesUp
<1>2. CASE StartDecoding
  <2>1. /\ pc = "call" /\ pc' = "any" /\ UNCHANGED <<argKind, memory, dsVars, heap, pyErr>>
    BY <1>2 DEF StartDecoding
  <2>2. stack = <<>>
    BY <2>1 DEF Known, Control, Activations
  <2>3. Clean'
    BY <2>1, SameClean DEF dsVars, Null
  <2>4. Expected = "value" /\ Expected' = "value"
    BY <2>1, <2>2 DEF Expected, dsVars
  <2>5. QED
    BY <2>1, <2>3, <2>4, StutterStep DEF dsVars
<1>3. CASE SkipWhitespace
  <2>1. /\ pc \in {"any", "loop", "colon", "sep", "skip"} /\ IsSpace /\ start' = start + 1
        /\ UNCHANGED <<argKind, memory, pc, stack, ret, errorStr, heap, pyErr>>
    BY <1>3, Zenon DEF SkipWhitespace
  <2>2. Clean'
    BY <1>0, <2>1, SameClean DEF Null
  <2>3. Expected' = Expected /\ KindsOf(stack') = KindsOf(stack)
    <3>1. Expected' = Expected
      BY <2>1 DEF Expected, Top
    <3>2. QED
      BY <2>1, <3>1, ReaderSees
  <2>4. pc \notin {"call", "binding", "done"} /\ UNCHANGED <<argKind, memory>>
    BY <2>1
  <2>5. CharAt(start) \in {Raw!Blank} /\ start' = IF CharAt(start) = "z" THEN start ELSE start + 1
    BY <2>1, Zenon DEF IsSpace, Raw!Blank
  <2>6. Raw!Read({Raw!Blank}, KindsOf(stack), Expected)
    BY <2>2, <2>3, <2>4, <2>5, ReadStep, Zenon
  <2>7. QED
    BY <2>1, <2>2, <2>6, ReadsOn, Zenon DEF Raw!Skip, Reads
<1>4. CASE Unwind
  BY <1>0, <1>4 DEF Unwind, Null
<1>5. CASE FreeEscapes
  <2>1. /\ pc = "return" /\ stack = <<>> /\ pc' \in {"skip", "tail"}
        /\ UNCHANGED <<argKind, memory, dsVars, heap, pyErr>>
    BY <1>0, <1>5 DEF FreeEscapes
  <2>2. Clean'
    BY <1>0, <2>1, SameClean DEF dsVars, Null
  <2>3. Expected = "end" /\ Expected' = "end"
    BY <2>1 DEF Expected
  <2>4. QED
    BY <2>1, <2>2, <2>3, StutterStep DEF dsVars
<1>6. CASE CheckTrailing
  <2>1. /\ pc \in {"skip", "tail"}
        /\ pc = "tail" \/ ~IsSpace
        /\ pc' = "binding"
        /\ UNCHANGED <<argKind, memory, start, stack, pyErr>>
    BY <1>6, Zenon DEF CheckTrailing
  <2>2. /\ stack = <<>> /\ ret # 0 /\ argKind # "other" /\ Expected = "end"
        /\ start \in Nat \ {0} /\ Len(memory) \in Nat /\ end = Len(memory)
        /\ start <= Len(memory) + 1
        /\ pc = "tail" => Remaining <= 0
    <3>1. stack = <<>> /\ ret # 0
      BY <1>0, <2>1 DEF Control, Activations, Null
    <3>2. pc = "tail" => Remaining <= 0
      BY DEF Known, Reading, TailAtEnd
    <3>3. Expected = "end"
      BY <2>1, ExpectedIs
    <3>4. start \in Nat \ {0} /\ Len(memory) \in Nat /\ end = Len(memory)
      BY DecoderAssumption, LenProperties DEF Known, Control, TypeOK, Whole
    <3>5. argKind # "other" /\ start <= Len(memory) + 1
      BY <1>0, <2>1 DEF Known, Reading, HasBytes, Position
    <3>6. QED
      BY <3>1, <3>2, <3>3, <3>4, <3>5
  <2>3. CASE Remaining # 0 /\ errorStr' = "trailing"
    <3>1. Rejected'
      BY <2>3, Zenon DEF Rejected
    <3>2. start # Len(memory) + 1
      BY <2>2, <2>3 DEF Remaining
    <3>3. ~IsSpace
      BY <2>1, <2>2, <2>3, <3>2 DEF Remaining
    <3>4. ~ValueAt /\ ~KeyAt /\ Expected \notin {"colon", "separator", "first"}
      BY <2>2 DEF ValueAt, KeyAt
    <3>5. CharAt(start) \notin Raw!Legal
      BY <3>3, <3>4, LegalIs, Zenon
    <3>6. pc \notin {"call", "binding", "done"} /\ UNCHANGED <<argKind, memory>>
      BY <2>1
    <3>7. QED
      BY <3>1, <3>2, <3>5, <3>6, RejectCharacter, Zenon
  <2>4. CASE Remaining = 0 /\ UNCHANGED <<heap, ret, errorStr>> /\ pc' = "binding"
    <3>1. Clean'
      BY <2>1, <2>2, <2>4, SameClean DEF Null
    <3>2. start = Len(memory) + 1
      BY <2>2, <2>4 DEF Remaining
    <3>3. Raw!Reading
      BY <2>1, ReaderReads
    <3>4. UNCHANGED <<Argument, memory, start, KindsOf(stack)>>
      BY <2>1 DEF Argument, KindsOf
    <3>5. Expected' = "accepted"
      BY <2>4 DEF Expected
    <3>6. Raw!Accept
      BY <2>2, <3>2, <3>3, <3>4, <3>5 DEF Raw!Accept, Raw!AtEnd
    <3>7. QED
      BY <2>1, <3>1, <3>6, ReadsOn, Zenon DEF Reads
  <2>5. QED
    BY <1>6, <2>2, <2>3, <2>4, Zenon DEF CheckTrailing
<1>7. CASE ReturnToPython
  <2>1. /\ pc = "binding" /\ pc' = "done" /\ ret # 0
        /\ UNCHANGED <<argKind, memory, start, stack, errorStr>>
    BY <1>0, <1>7 DEF ReturnToPython, Null
  <2>2. CASE pyErr # "none"
    <3>1. ret' = 0
      BY <1>7, <2>1, <2>2 DEF ReturnToPython
    <3>2. QED
      BY <1>0, <2>1, <2>2, <3>1, Zenon DEF StepsClean, GivesUp, Failed, Null
  <2>3. CASE pyErr = "none"
    <3>1. pyErr' = pyErr /\ UNCHANGED <<heap, ret>>
      BY <1>0, <1>7, <2>3 DEF ReturnToPython
    <3>2. Clean'
      BY <2>1, <3>1, SameClean DEF Null
    <3>3. Expected = "accepted" /\ Expected' = "accepted"
      BY <2>1 DEF Expected
    <3>4. QED
      BY <2>1, <3>1, <3>2, <3>3, StutterStep
  <2>4. QED
    BY <2>2, <2>3
<1>8. QED
  BY <1>1, <1>2, <1>3, <1>4, <1>5, <1>6, <1>7 DEF Finish

\* Every step of a clean decoder is one of the reader, or gives up, or rejects.
LEMMA CleanStep ==
  ASSUME Known, Known', Clean, Next
  PROVE  StepsClean
<1>1. CASE DecodeArray
  <2>1. pc = "any" /\ Opens("array", CharAt(start)) /\ Enter("array", "list") /\ "list" \in Kinds
    BY <1>1, Zenon DEF DecodeArray, Decode, Opens, Kinds
  <2>2. QED
    BY <2>1, EnterStep
<1>2. CASE DecodeObject
  <2>1. pc = "any" /\ Opens("object", CharAt(start)) /\ Enter("object", "dict") /\ "dict" \in Kinds
    BY <1>2, Zenon DEF DecodeObject, Decode, Opens, Kinds
  <2>2. QED
    BY <2>1, EnterStep
<1>3. QED
  BY <1>1, <1>2, ElementStep, ReturnedStep, LoopStep, OuterStep, Zenon DEF Next, Element, Loop

(***************************************************************************)
(* The same of a decoder that has not rejected, as ReadsText sees it.      *)
(***************************************************************************)

\* A decoder that has not rejected is clean, and has made something.
LEMMA NotRejected ==
  ASSUME Known
  PROVE  /\ ~Rejected <=> Clean /\ pyErr = "none"
         /\ Failed => Rejected
<1>1. Null => errorStr # "none" \/ pyErr # "none"
  BY DEF Known, Control, NullIsError, Outcome, Null
<1>2. QED
  BY <1>1, Zenon DEF Rejected, Clean, Failed

\* The same in the next state.
LEMMA NotRejectedNext ==
  ASSUME Known'
  PROVE  /\ (Clean /\ pyErr = "none")' => ~Rejected'
         /\ Failed' => Rejected'
<1>1. Null' => errorStr' # "none" \/ pyErr' # "none"
  BY DEF Known, Control, NullIsError, Outcome, Null
<1>2. QED
  BY <1>1, Zenon DEF Rejected, Clean, Failed

\* Nothing is masked while the decoder has not rejected.
LEMMA SameReader ==
  ASSUME ~Rejected
  PROVE  /\ Pos = start /\ Open = KindsOf(stack) /\ Expect = Expected
         /\ Reader!Symbol = Raw!Symbol /\ Reader!Inner = Raw!Inner /\ Reader!Outer = Raw!Outer
         /\ Reader!Openers = Raw!Openers /\ Reader!CloserOf = Raw!CloserOf
         /\ Reader!Blank = Raw!Blank /\ Reader!ScalarStarts = Raw!ScalarStarts
         /\ Reader!Reading <=> Raw!Reading
         /\ Reader!AtEnd <=> Raw!AtEnd
         /\ Reader!ValueExpected <=> Raw!ValueExpected
         /\ Reader!KeyExpected <=> Raw!KeyExpected
         /\ \A k : Reader!AfterValue(k) = Raw!AfterValue(k)
<1>1. Pos = start /\ Open = KindsOf(stack) /\ Expect = Expected
  BY DEF Pos, Open, Expect, KindsOf
<1>2. /\ Reader!Symbol = Raw!Symbol /\ Reader!Inner = Raw!Inner /\ Reader!Outer = Raw!Outer
      /\ Reader!Openers = Raw!Openers
  BY <1>1 DEF Reader!Symbol, Raw!Symbol, Reader!Inner, Raw!Inner, Reader!Outer, Raw!Outer,
     Reader!Openers, Raw!Openers
<1>3. QED
  BY <1>1, <1>2, Zenon DEF Reader!CloserOf, Raw!CloserOf, Reader!Reading, Raw!Reading,
     Reader!AtEnd, Raw!AtEnd, Reader!ValueExpected, Raw!ValueExpected,
     Reader!KeyExpected, Raw!KeyExpected, Reader!Blank, Raw!Blank,
     Reader!ScalarStarts, Raw!ScalarStarts, Reader!AfterValue, Raw!AfterValue

\* What a decoder that rejects neither before nor after a step reads.
LEMMA Unmasked ==
  ASSUME ~Rejected, ~Rejected', Reads
  PROVE  Reader!Next \/ UNCHANGED Reader!textVars
<1>1. Pos' = start' /\ Open' = KindsOf(stack)' /\ Expect' = Expected'
  BY DEF Pos, Open, Expect, KindsOf
<1>2. \A characters, containers, next :
        Raw!Read(characters, containers, next) => Reader!Read(characters, containers, next)
  BY <1>1, SameReader, Zenon DEF Raw!Read, Reader!Read
<1>3. Raw!Accept => Reader!Accept
  BY <1>1, SameReader, Zenon DEF Raw!Accept, Reader!Accept
<1>4. UNCHANGED Raw!textVars => UNCHANGED Reader!textVars
  BY <1>1, SameReader DEF Raw!textVars, Reader!textVars
<1>5. /\ Raw!Skip => Reader!Skip
      /\ Raw!Scalar => Reader!Scalar
      /\ Raw!OpenArray => Reader!OpenArray
      /\ Raw!OpenObject => Reader!OpenObject
      /\ Raw!Key => Reader!Key
      /\ Raw!Colon => Reader!Colon
      /\ Raw!Comma => Reader!Comma
      /\ Raw!Close => Reader!Close
  BY <1>2, SameReader, Zenon DEF Raw!Skip, Reader!Skip, Raw!Scalar, Reader!Scalar,
     Raw!OpenArray, Reader!OpenArray, Raw!OpenObject, Reader!OpenObject, Raw!Key, Reader!Key,
     Raw!Colon, Reader!Colon, Raw!Comma, Reader!Comma, Raw!Close, Reader!Close
<1>6. QED
  BY <1>3, <1>4, <1>5, Zenon DEF Reads, Reader!Next

\* A decoder that rejects where it had not is one step of the reader.
LEMMA RejectsOnce ==
  ASSUME Known, ~Rejected, Rejected', UNCHANGED <<argKind, memory>>,
         Refuses \/ Failing \/ (argKind = "other" /\ pc = "call")
  PROVE  Reader!Reject
<1>1. Pos' = 0 /\ Open' = <<>> /\ Expect' = "rejected"
  BY DEF Pos, Open, Expect
<1>2. Argument' = Argument /\ memory' = memory
  BY DEF Argument
<1>3. CASE Refuses
  <2>1. Reader!Legal = Raw!Legal
    BY SameReader, Zenon DEF Reader!Legal, Raw!Legal
  <2>2. QED
    BY <1>1, <1>2, <1>3, <2>1, SameReader, Zenon DEF Refuses, Reader!Reject
<1>4. CASE Failing
  <2>1. Argument = "bytes" /\ Expected \notin {"accepted", "rejected"} /\ Failures # {}
    BY <1>4 DEF Failing, Argument, Expected, Known, Control, TypeOK
  <2>2. Reader!Reading
    BY <2>1, SameReader, Zenon DEF Reader!Reading
  <2>3. QED
    BY <1>1, <1>2, <2>1, <2>2, Zenon DEF Reader!Reject
<1>5. CASE argKind = "other" /\ pc = "call"
  <2>1. Argument = "other" /\ Expect = "value"
    BY <1>5, ExpectedIs, SameReader DEF Argument
  <2>2. QED
    BY <1>1, <1>2, <2>1, Zenon DEF Reader!Reject
<1>6. QED
  BY <1>3, <1>4, <1>5

\* Every step of a decoder that has not rejected is one of the reader, or none.
LEMMA ReaderStep ==
  ASSUME Known, Known', ~Rejected, Next
  PROVE  Reader!Next \/ UNCHANGED Reader!textVars
<1>1. Clean /\ pyErr = "none" /\ StepsClean
  BY NotRejected, CleanStep
<1>2. CASE Rejected'
  <2>1. Refuses \/ Failing \/ (argKind = "other" /\ pc = "call")
    <3>1. GoesOn => pyErr' = pyErr \/ Failing
      BY Zenon DEF GoesOn
    <3>2. GoesOn => Clean'
      BY Zenon DEF GoesOn
    <3>3. (Clean /\ pyErr = "none")' => ~Rejected'
      BY NotRejectedNext
    <3>4. GoesOn => Failing
      BY <1>1, <1>2, <3>1, <3>2, <3>3
    <3>5. QED
      BY <1>1, <3>4, Zenon DEF StepsClean, GivesUp, Rejects
  <2>2. Reader!Reject
    BY <1>1, <1>2, <2>1, RejectsOnce, Zenon DEF StepsClean
  <2>3. QED
    BY <2>2, Zenon DEF Reader!Next
<1>3. CASE ~Rejected'
  <2>1. Failed' => Rejected'
    BY NotRejectedNext
  <2>2. Reads
    BY <1>1, <1>3, <2>1, Zenon DEF StepsClean, GoesOn, GivesUp, Rejects
  <2>3. QED
    BY <1>3, <2>2, Unmasked
<1>4. QED
  BY <1>2, <1>3

\* The first state of a call is one of the reader.
LEMMA ReaderInit == Init => Reader!Init
<1> SUFFICES ASSUME Init PROVE Reader!Init
  OBVIOUS
<1>1. /\ memory \in Seq(Chars) /\ start = 1 /\ stack = <<>> /\ pc = "call" /\ errorStr = "none"
      /\ pyErr = "none"
  BY DecoderAssumption DEF Init
<1>2. ~Rejected
  <2>1. DOMAIN stack = {}
    BY <1>1
  <2>2. QED
    BY <1>1, <2>1, Zenon DEF Rejected, Doomed
<1>3. Pos = 1 /\ Expect = "value" /\ Argument \in {"bytes", "other"}
  BY <1>1, <1>2 DEF Pos, Expect, Expected, Argument
<1>4. Open = <<>>
  <2>1. Open = KindsOf(stack)
    BY <1>2 DEF Open, KindsOf
  <2>2. QED
    BY <1>1, <2>1, KindsType, EmptySeq
<1>5. QED
  BY <1>1, <1>3, <1>4, Zenon DEF Reader!Init

\* Without views the document is all of the memory.
LEMMA WholeStays ==
  /\ Views = FALSE /\ Init => Whole
  /\ Whole /\ [Next]_vars => Whole'
<1>1. Views = FALSE /\ Init => Whole
  BY DEF Init, Whole
<1>2. Next => UNCHANGED <<memory, end>>
  BY Zenon DEF Next, Element, Loop, Finish, RejectArgument, StartDecoding, SkipWhitespace,
     DecodeString, DecodeScalar, RejectValue, DecodeArray, DecodeObject, Enter,
     CloseAtHead, NextElement, Unwind, AddItem, TakeKey, ExpectColon, AddKey, Separator,
     FreeEscapes, CheckTrailing, ReturnToPython
<1>3. Whole /\ [Next]_vars => Whole'
  BY <1>2 DEF Whole, vars
<1>4. QED
  BY <1>1, <1>3

\* ujson.loads implements the reader of JSONText: with whatever callbacks fail,
\* it accepts no text the reader rejects, rejects none the reader accepts unless
\* something may fail, and stops at the same character.
THEOREM ReadsTextCorrect == ASSUME Views = FALSE PROVE Spec => ReadsText
<1>1. Init => Whole
  BY WholeStays
<1>2. Known /\ Known' /\ [Next]_vars => [Reader!Next]_(Reader!textVars)
  <2> SUFFICES ASSUME Known, Known', [Next]_vars
               PROVE  Reader!Next \/ UNCHANGED Reader!textVars
    OBVIOUS
  <2>1. CASE UNCHANGED vars
    <3>1. UNCHANGED <<argKind, memory, pc, start, stack, ret, errorStr, heap, pyErr>>
      BY <2>1 DEF vars, dsVars
    <3>2. /\ Rejected' <=> Rejected
          /\ Expected' = Expected /\ Argument' = Argument
      BY <3>1 DEF Rejected, Doomed, BadKeyAt, Expected, Argument, Top
    <3>3. Pos' = Pos /\ Open' = Open /\ Expect' = Expect
      BY <3>1, <3>2 DEF Pos, Open, Expect
    <3>4. QED
      BY <3>1, <3>2, <3>3 DEF Reader!textVars
  <2>2. CASE Next /\ Rejected
    <3>1. Rejected'
      BY <2>2, RejectedStays DEF Known
    <3>2. Pos = 0 /\ Open = <<>> /\ Expect = "rejected"
      BY <2>2 DEF Pos, Open, Expect
    <3>3. Pos' = 0 /\ Open' = <<>> /\ Expect' = "rejected"
      BY <3>1 DEF Pos, Open, Expect
    <3>4. argKind' = argKind /\ memory' = memory
      BY <2>2, Zenon DEF Next, Element, Loop, Finish, RejectArgument, StartDecoding,
         SkipWhitespace, DecodeString, DecodeScalar, RejectValue, DecodeArray, DecodeObject,
         Enter, CloseAtHead, NextElement, Unwind, AddItem, TakeKey, ExpectColon, AddKey,
         Separator, FreeEscapes, CheckTrailing, ReturnToPython
    <3>5. QED
      BY <3>2, <3>3, <3>4 DEF Reader!textVars, Argument
  <2>3. CASE Next /\ ~Rejected
    BY <2>3, ReaderStep
  <2>4. QED
    BY <2>1, <2>2, <2>3
<1>3. Whole /\ [Next]_vars => Whole'
  BY WholeStays
<1>4. Spec => []Known
  <2>1. Spec => []Whole
    BY <1>1, <1>3, PTL DEF Spec
  <2>2. Control /\ Reading /\ Shape /\ Whole => Known
    BY DEF Known
  <2>3. QED
    BY <2>1, <2>2, ControlInvariant, ReadingInvariant, ShapeInvariant, PTL
<1>5. QED
  BY <1>2, <1>4, ReaderInit, PTL DEF Spec, ReadsText, Reader!Spec

\* One element makes a sequence.
LEMMA Singleton ==
  ASSUME NEW S, NEW e \in S
  PROVE  <<e>> \in Seq(S)
OBVIOUS

\* Every number up to m is in a set that goes on from each number to the next.
LEMMA Reaches ==
  ASSUME NEW m \in Nat, NEW S, 0 \in S, \A j \in 1 .. m : j - 1 \in S => j \in S
  PROVE  \A j \in 0 .. m : j \in S
<1> DEFINE T == (0 .. m) \ S
<1> SUFFICES ASSUME T # {} PROVE FALSE
  OBVIOUS
<1>1. IsWellFoundedOn(OpToRel(<, Nat), Nat)
  BY NatLessThanWellFounded
<1>2. PICK less : less = {ss \in Nat \X Nat : ss[1] < ss[2]}
  OBVIOUS
<1>3. IsWellFoundedOn(less, Nat)
  BY <1>1, <1>2, Zenon DEF OpToRel
<1>4. T \subseteq Nat
  OBVIOUS
<1>5. PICK j \in T : \A i \in T : <<i, j>> \notin less
  BY <1>3, <1>4, WFMin
<1>6. j \in 1 .. m
  OBVIOUS
<1>7. j - 1 \in T
  BY <1>6
<1>8. <<j - 1, j>> \in less
  BY <1>2, <1>6
<1>9. QED
  BY <1>5, <1>7, <1>8

\* The values of a recursive function, step by step.
Iterated(f, m, D, base, step) ==
  /\ f \in [0 .. m -> D]
  /\ f[0] = base
  /\ \A j \in 1 .. m : f[j] = step[<<j, f[j - 1]>>]

\* Such a function exists.
LEMMA Iterates ==
  ASSUME NEW m \in Nat, NEW D, NEW base \in D, NEW step \in [(1 .. m) \X D -> D]
  PROVE  \E f : Iterated(f, m, D, base, step)
<1> DEFINE Upto(k, f) == f[0] = base /\ \A j \in 1 .. k : f[j] = step[<<j, f[j - 1]>>]
           S == {k \in 0 .. m : \E f \in [0 .. m -> D] : Upto(k, f)}
<1>1. 0 \in S
  <2>1. PICK f : f = [j \in 0 .. m |-> base]
    OBVIOUS
  <2>2. f \in [0 .. m -> D] /\ Upto(0, f)
    BY <2>1
  <2>3. QED
    BY <2>2
<1>2. ASSUME NEW k \in 1 .. m, k - 1 \in S PROVE k \in S
  <2>1. PICK f \in [0 .. m -> D] : Upto(k - 1, f)
    BY <1>2
  <2>2. step[<<k, f[k - 1]>>] \in D
    BY <2>1
  <2>3. PICK h : h = [f EXCEPT ![k] = step[<<k, f[k - 1]>>]]
    OBVIOUS
  <2>4. h \in [0 .. m -> D] /\ h[k] = step[<<k, f[k - 1]>>]
        /\ \A j \in 0 .. m : j # k => h[j] = f[j]
    BY <2>2, <2>3
  <2>5. Upto(k, h)
    <3>1. h[0] = base
      BY <2>1, <2>4
    <3>2. ASSUME NEW j \in 1 .. k PROVE h[j] = step[<<j, h[j - 1]>>]
      <4>1. h[j - 1] = f[j - 1]
        BY <2>4
      <4>2. CASE j = k
        BY <2>4, <4>1, <4>2
      <4>3. CASE j # k
        BY <2>1, <2>4, <4>1, <4>3
      <4>4. QED
        BY <4>2, <4>3
    <3>3. QED
      BY <3>1, <3>2
  <2>6. QED
    BY <2>4, <2>5
<1> HIDE DEF S
<1>3. m \in S
  BY <1>1, <1>2, Reaches
<1>4. QED
  BY <1>3 DEF S, Iterated

(***************************************************************************)
(* The grammar read from the front: from which places a phrase leads on.   *)
(***************************************************************************)

\* The places from which a phrase A leads to one of K.
Before(A, K) == {a[1] : a \in {b \in A : b[2] \in K}}

\* The phrases of a text are not empty.
Phrases(t) == SUBSET {a \in (1 .. Len(t) + 1) \X (1 .. Len(t) + 1) : a[1] < a[2]}

\* What a place before a phrase is.
LEMMA BeforeIs ==
  ASSUME NEW A, NEW K, NEW p
  PROVE  p \in Before(A, K) <=> \E a \in A : a[1] = p /\ a[2] \in K
BY DEF Before

\* A token is one character.
LEMMA BeforeToken ==
  ASSUME NEW t, Len(t) \in Nat, DOMAIN t = 1 .. Len(t), NEW c, NEW K, NEW p
  PROVE  p \in Before(Token(t, c), K) <=> p \in DOMAIN t /\ t[p] = c /\ p + 1 \in K
<1>1. \A a : a \in Token(t, c) <=> \E i \in DOMAIN t : t[i] = c /\ a = <<i, i + 1>>
  BY DEF Token
<1>2. ASSUME NEW a \in Token(t, c), a[1] = p, a[2] \in K
      PROVE  p \in DOMAIN t /\ t[p] = c /\ p + 1 \in K
  BY <1>1, <1>2
<1>3. ASSUME p \in DOMAIN t, t[p] = c, p + 1 \in K
      PROVE  \E a \in Token(t, c) : a[1] = p /\ a[2] \in K
  <2>1. <<p, p + 1>> \in Token(t, c)
    BY <1>1, <1>3
  <2>2. <<p, p + 1>>[1] = p /\ <<p, p + 1>>[2] = p + 1
    OBVIOUS
  <2>3. QED
    BY <1>3, <2>1, <2>2
<1>4. QED
  BY <1>2, <1>3, BeforeIs

\* One phrase behind the other.
LEMMA BeforeThen ==
  ASSUME NEW A, NEW B, NEW K
  PROVE  Before(Then(A, B), K) = Before(A, Before(B, K))
<1>1. \A a : a \in Then(A, B) <=> \E m \in A \X B : m[1][2] = m[2][1] /\ a = <<m[1][1], m[2][2]>>
  BY DEF Then
<1>2. ASSUME NEW p \in Before(Then(A, B), K) PROVE p \in Before(A, Before(B, K))
  <2>1. PICK a \in Then(A, B) : a[1] = p /\ a[2] \in K
    BY <1>2, BeforeIs
  <2>2. PICK m \in A \X B : m[1][2] = m[2][1] /\ a = <<m[1][1], m[2][2]>>
    BY <1>1, <2>1
  <2>3. m[1] \in A /\ m[2] \in B /\ m[1][1] = p /\ m[2][2] \in K
    BY <2>1, <2>2
  <2>4. m[2][1] \in Before(B, K)
    BY <2>3, BeforeIs
  <2>5. QED
    BY <2>2, <2>3, <2>4, BeforeIs
<1>3. ASSUME NEW p \in Before(A, Before(B, K)) PROVE p \in Before(Then(A, B), K)
  <2>1. PICK a \in A : a[1] = p /\ a[2] \in Before(B, K)
    BY <1>3, BeforeIs
  <2>2. PICK b \in B : b[1] = a[2] /\ b[2] \in K
    BY <2>1, BeforeIs
  <2>3. PICK m : m = <<a, b>>
    OBVIOUS
  <2>4. m \in A \X B /\ m[1] = a /\ m[2] = b
    BY <2>3
  <2>5. <<a[1], b[2]>> \in Then(A, B)
    BY <1>1, <2>2, <2>4
  <2>6. QED
    BY <2>1, <2>2, <2>5, BeforeIs
<1>4. QED
  BY <1>2, <1>3

\* One phrase or the other.
LEMMA BeforeUnion ==
  ASSUME NEW A, NEW B, NEW K
  PROVE  Before(A \union B, K) = Before(A, K) \union Before(B, K)
BY DEF Before

\* Phrases are built of phrases.
LEMMA PhrasesAre ==
  ASSUME NEW t, Len(t) \in Nat, DOMAIN t = 1 .. Len(t)
  PROVE  /\ \A c : Token(t, c) \in Phrases(t)
         /\ \A A, B \in Phrases(t) : Then(A, B) \in Phrases(t) /\ A \union B \in Phrases(t)
         /\ {} \in Phrases(t)
<1>1. ASSUME NEW c PROVE Token(t, c) \in Phrases(t)
  BY DEF Token, Phrases
<1>2. ASSUME NEW A \in Phrases(t), NEW B \in Phrases(t) PROVE Then(A, B) \in Phrases(t)
  <2>1. ASSUME NEW m \in A \X B, m[1][2] = m[2][1]
        PROVE  /\ <<m[1][1], m[2][2]>> \in (1 .. Len(t) + 1) \X (1 .. Len(t) + 1)
               /\ m[1][1] < m[2][2]
    BY <2>1 DEF Phrases
  <2>2. QED
    BY <2>1 DEF Then, Phrases
<1>3. \A A, B \in Phrases(t) : A \union B \in Phrases(t)
  BY DEF Phrases
<1>4. {} \in Phrases(t)
  BY DEF Phrases
<1>5. QED
  BY <1>1, <1>2, <1>3, <1>4

\* The equations of the function that Lists defines.
ListsAre(t, A, l) ==
  /\ l \in [0 .. Len(t) -> Phrases(t)]
  /\ l[0] = {}
  /\ \A n \in 1 .. Len(t) : l[n] = A \union Then(A, Then(Token(t, ","), l[n - 1]))

\* It satisfies them.
LEMMA ListsFacts ==
  ASSUME NEW t, Len(t) \in Nat, DOMAIN t = 1 .. Len(t), NEW A \in Phrases(t)
  PROVE  ListsAre(t, A, Lists(t, A))
<1> DEFINE m == Len(t)
           D == Phrases(t)
           more(B) == A \union Then(A, Then(Token(t, ","), B))
           body(f) == [n \in 0 .. m |-> IF n = 0 THEN {} ELSE more(f[n - 1])]
<1>0. Lists(t, A) = CHOOSE g : g = body(g)
  BY Zenon DEF Lists
<1>1. PICK step : step = [p \in (1 .. m) \X D |-> more(p[2])]
  OBVIOUS
<1>2. {} \in D
  BY PhrasesAre
<1>3. step \in [(1 .. m) \X D -> D]
  <2>1. \A B \in D : more(B) \in D
    BY PhrasesAre
  <2> HIDE DEF D, more
  <2>2. QED
    BY <1>1, <2>1
<1> HIDE DEF more
<1>4. PICK f : Iterated(f, m, D, {}, step)
  <2> HIDE DEF D, m
  <2>1. m \in Nat
    BY DEF m
  <2>2. QED
    BY <1>2, <1>3, <2>1, Iterates, Zenon
<1>5. /\ f \in [0 .. m -> D] /\ f[0] = {}
      /\ \A n \in 1 .. m : f[n] = more(f[n - 1])
  <2>1. f \in [0 .. m -> D] /\ f[0] = {} /\ \A n \in 1 .. m : f[n] = step[<<n, f[n - 1]>>]
    BY <1>4, Zenon DEF Iterated
  <2>2. \A n \in 1 .. m : f[n - 1] \in D
    <3> HIDE DEF D
    <3>1. QED
      BY <2>1
  <2>3. QED
    BY <1>1, <2>1, <2>2
<1>6. f = body(f)
  <2> HIDE DEF D
  <2>1. \A n \in 0 .. m : f[n] = body(f)[n]
    BY <1>5
  <2>2. QED
    BY <1>5, <2>1
<1>8. PICK g : g = Lists(t, A)
  OBVIOUS
<1>9. g = body(g)
  BY <1>0, <1>6, <1>8
<1>10. g[0] = {} /\ \A n \in 1 .. m : g[n] = more(g[n - 1])
  <2>1. \A n \in 0 .. m : g[n] = IF n = 0 THEN {} ELSE more(g[n - 1])
    BY <1>9
  <2>2. QED
    BY <2>1
<1>11. \A n \in 0 .. m : n \in {k \in 0 .. m : g[k] = f[k]}
  <2> DEFINE S == {k \in 0 .. m : g[k] = f[k]}
  <2>1. 0 \in S
    <3>1. 0 \in 0 .. m /\ g[0] = f[0]
      <4> HIDE DEF D
      <4>1. QED
        BY <1>5, <1>10
    <3>2. QED
      BY <3>1
  <2>2. ASSUME NEW n \in 1 .. m, n - 1 \in S PROVE n \in S
    BY <1>5, <1>10, <2>2
  <2> HIDE DEF S
  <2>3. QED
    BY <2>1, <2>2, Reaches DEF S
<1>12. g \in [0 .. m -> D]
  <2> HIDE DEF D
  <2>1. \A n \in 0 .. m : g[n] \in D
    BY <1>5, <1>11
  <2>2. g = [n \in 0 .. m |-> g[n]]
    BY <1>9
  <2>3. QED
    BY <2>1, <2>2
<1>13. QED
  BY <1>8, <1>10, <1>12 DEF more, ListsAre

\* A list is a phrase, or one with a list behind it and a comma in between: the
\* length of the text bounds how many phrases there are.
LEMMA ListUnfolds ==
  ASSUME NEW t, Len(t) \in Nat, DOMAIN t = 1 .. Len(t), NEW A \in Phrases(t), NEW L,
         L = Lists(t, A)[Len(t)]
  PROVE  /\ L \in Phrases(t)
         /\ L = A \union Then(A, Then(Token(t, ","), L))
<1> DEFINE m == Len(t)
           C == Token(t, ",")
<1>1. PICK l : l = Lists(t, A)
  OBVIOUS
<1>2. /\ l \in [0 .. m -> Phrases(t)] /\ l[0] = {} /\ L = l[m]
      /\ \A n \in 1 .. m : l[n] = A \union Then(A, Then(C, l[n - 1]))
  <2>1. ListsAre(t, A, Lists(t, A))
    BY ListsFacts, Zenon
  <2>2. ListsAre(t, A, l)
    BY <1>1, <2>1
  <2>3. QED
    BY <1>1, <2>2 DEF ListsAre
<1>3. C \in Phrases(t)
  BY PhrasesAre
<1> HIDE DEF C, m
<1>4. m \in Nat
  BY DEF m
<1>5. \A D \in Phrases(t) : \A a \in D :
        a[1] \in 1 .. m + 1 /\ a[2] \in 1 .. m + 1 /\ a[1] < a[2] /\ a = <<a[1], a[2]>>
  BY DEF Phrases, m
<1>6. \A B : \A a \in Then(A, Then(C, B)) :
        \E x \in A, y \in C, z \in B :
          x[2] = y[1] /\ y[2] = z[1] /\ a = <<x[1], z[2]>>
  <2> TAKE B
  <2> TAKE a \in Then(A, Then(C, B))
  <2>1. PICK x \in A, w \in Then(C, B) : x[2] = w[1] /\ a = <<x[1], w[2]>>
    BY DEF Then
  <2>2. PICK y \in C, z \in B : y[2] = z[1] /\ w = <<y[1], z[2]>>
    BY DEF Then
  <2>3. QED
    BY <2>1, <2>2
<1>7. \A B : \A x \in A, y \in C, z \in B :
        x[2] = y[1] /\ y[2] = z[1] => <<x[1], z[2]>> \in Then(A, Then(C, B))
  <2> TAKE B
  <2> TAKE x \in A, y \in C, z \in B
  <2> HAVE x[2] = y[1] /\ y[2] = z[1]
  <2>1. PICK w : w = <<y[1], z[2]>>
    OBVIOUS
  <2>2. PICK v : v = <<y, z>>
    OBVIOUS
  <2>3. v \in C \X B /\ v[1] = y /\ v[2] = z
    BY <2>2
  <2>4. w \in Then(C, B)
    BY <2>1, <2>3 DEF Then
  <2>5. PICK u : u = <<x, w>>
    OBVIOUS
  <2>6. u \in A \X Then(C, B) /\ u[1] = x /\ u[2] = w /\ w[1] = y[1] /\ w[2] = z[2]
    BY <2>1, <2>4, <2>5
  <2>7. QED
    BY <2>6 DEF Then
\* What is left of the text bounds the number of phrases that are left.
<1> DEFINE Enough(k) == \A j \in 0 .. m : \A a \in l[j] : a[1] >= m + 1 - k => a \in l[k]
           S == {k \in 0 .. m : Enough(k)}
<1>8. 0 \in S
  <2>1. ASSUME NEW j \in 0 .. m, NEW a \in l[j] PROVE ~(a[1] >= m + 1)
    <3>1. l[j] \in Phrases(t)
      BY <1>2
    <3>2. a[1] \in 1 .. m + 1 /\ a[2] \in 1 .. m + 1 /\ a[1] < a[2]
      BY <1>5, <3>1
    <3>3. QED
      BY <1>4, <3>2
  <2>2. QED
    BY <1>4, <2>1
<1>9. ASSUME NEW k \in 1 .. m, k - 1 \in S PROVE k \in S
  <2>1. Enough(k - 1)
    BY <1>9
  <2>2. ASSUME NEW j \in 0 .. m, NEW a \in l[j], a[1] >= m + 1 - k PROVE a \in l[k]
    <3>1. l[k] = A \union Then(A, Then(C, l[k - 1]))
      BY <1>2
    <3>2. j # 0 /\ l[j] = A \union Then(A, Then(C, l[j - 1])) /\ j - 1 \in 0 .. m
      BY <1>2, <1>4
    <3>3. CASE a \in A
      BY <3>1, <3>3
    <3>4. CASE a \in Then(A, Then(C, l[j - 1]))
      <4>1. PICK x \in A, y \in C, z \in l[j - 1] :
              x[2] = y[1] /\ y[2] = z[1] /\ a = <<x[1], z[2]>>
        BY <1>6, <3>4
      <4>2. l[j - 1] \in Phrases(t)
        BY <1>2, <3>2
      <4>3. /\ x[1] < x[2] /\ y[1] < y[2] /\ a[1] = x[1]
            /\ x[1] \in Nat /\ x[2] \in Nat /\ y[2] \in Nat /\ z[1] \in Nat
        BY <1>3, <1>4, <1>5, <4>1, <4>2
      <4>4. z[1] >= m + 1 - (k - 1)
        BY <1>4, <2>2, <4>1, <4>3
      <4>5. z \in l[k - 1]
        BY <2>1, <3>2, <4>4
      <4>6. QED
        BY <1>7, <3>1, <4>1, <4>5
    <3>5. QED
      BY <3>2, <3>3, <3>4
  <2>3. QED
    BY <2>2
<1> HIDE DEF S
<1>10. \A k \in 0 .. m : k \in S
  BY <1>4, <1>8, <1>9, Reaches
<1> USE DEF S
<1>11. ASSUME NEW a \in L PROVE a \in A \union Then(A, Then(C, L))
  <2>1. m # 0
    BY <1>2, <1>11
  <2>2. m \in 1 .. m /\ m - 1 \in 0 .. m /\ m \in 0 .. m
    BY <1>4, <2>1
  <2>3. CASE a \in A
    BY <2>3
  <2>4. CASE a \in Then(A, Then(C, l[m - 1]))
    <3>1. PICK x \in A, y \in C, z \in l[m - 1] :
            x[2] = y[1] /\ y[2] = z[1] /\ a = <<x[1], z[2]>>
      BY <1>6, <2>4
    <3>2. l[m - 1] \in Phrases(t)
      BY <1>2, <2>2
    <3>3. z[1] >= m + 1 - m
      BY <1>4, <1>5, <3>1, <3>2
    <3>4. z \in L
      BY <1>2, <1>10, <2>2, <3>3
    <3>5. QED
      BY <1>7, <3>1, <3>4
  <2>5. QED
    BY <1>2, <1>11, <2>2, <2>3, <2>4
<1>12. ASSUME NEW a \in A \union Then(A, Then(C, L)) PROVE a \in L
  <2>0. \E x \in A : TRUE
    BY <1>6, <1>12
  <2>1. m # 0
    BY <1>4, <1>5, <2>0
  <2>2. m \in 1 .. m /\ m - 1 \in 0 .. m /\ m \in 0 .. m
    BY <1>4, <2>1
  <2>3. L = A \union Then(A, Then(C, l[m - 1]))
    BY <1>2, <2>2
  <2>4. CASE a \in A
    BY <2>3, <2>4
  <2>5. CASE a \in Then(A, Then(C, L))
    <3>1. PICK x \in A, y \in C, z \in L :
            x[2] = y[1] /\ y[2] = z[1] /\ a = <<x[1], z[2]>>
      BY <1>6, <2>5
    <3>2. L \in Phrases(t)
      BY <1>2, <2>2
    <3>3. /\ x[1] < x[2] /\ y[1] < y[2] /\ x[1] \in 1 .. m + 1
          /\ x[2] \in Nat /\ y[2] \in Nat /\ z[1] \in Nat
      BY <1>3, <1>4, <1>5, <3>1, <3>2
    <3>4. z[1] >= m + 1 - (m - 1)
      BY <1>4, <3>1, <3>3
    <3>5. z \in l[m - 1]
      BY <1>2, <1>10, <2>2, <3>4
    <3>6. QED
      BY <1>7, <2>3, <3>1, <3>5
  <2>6. QED
    BY <1>12, <2>4, <2>5
<1>13. L \in Phrases(t)
  BY <1>2, <1>4
<1>14. QED
  BY <1>11, <1>12, <1>13 DEF C

\* The phrases between brackets, and the pairs of a dictionary.
LEMMA EnclosedAre ==
  ASSUME NEW t, Len(t) \in Nat, DOMAIN t = 1 .. Len(t), NEW A \in Phrases(t)
  PROVE  /\ \A open, close : Enclosed(t, open, A, close) \in Phrases(t)
         /\ Member(t, A) \in Phrases(t)
<1>1. PICK L : L = Lists(t, A)[Len(t)]
  OBVIOUS
<1>2. L \in Phrases(t)
  BY <1>1, ListUnfolds
<1>3. ASSUME NEW open, NEW close PROVE Enclosed(t, open, A, close) \in Phrases(t)
  <2>1. Then(L, Token(t, close)) \in Phrases(t)
    BY <1>2, PhrasesAre, Zenon
  <2>2. Token(t, close) \union Then(L, Token(t, close)) \in Phrases(t)
    BY <2>1, PhrasesAre, Zenon
  <2>3. Then(Token(t, open), Token(t, close) \union Then(L, Token(t, close))) \in Phrases(t)
    BY <2>2, PhrasesAre, Zenon
  <2>4. QED
    BY <1>1, <2>3 DEF Enclosed
<1>4. Member(t, A) \in Phrases(t)
  <2>1. Then(Token(t, ":"), A) \in Phrases(t)
    BY PhrasesAre, Zenon
  <2>2. QED
    BY <2>1, PhrasesAre, Zenon DEF Member
<1>5. QED
  BY <1>3, <1>4

\* The scalars, and the containers of values V.
Scalars(t) == Token(t, "s") \union Token(t, "n")
Containing(t, V) == Enclosed(t, "[", V, "]") \union Enclosed(t, "{", Member(t, V), "}")

\* The equations of the function that Values defines.
ValuesAre(t, v) ==
  /\ v \in [0 .. MaxDepth -> Phrases(t)]
  /\ v[0] = Scalars(t)
  /\ \A d \in 1 .. MaxDepth : v[d] = Scalars(t) \union Containing(t, v[d - 1])

\* It satisfies them.
LEMMA ValuesFacts ==
  ASSUME NEW t, Len(t) \in Nat, DOMAIN t = 1 .. Len(t)
  PROVE  ValuesAre(t, Values(t))
<1> DEFINE m == MaxDepth
           D == Phrases(t)
           more(V) == Scalars(t) \union Containing(t, V)
           raw(f) == [d \in 0 .. m |->
                        Token(t, "s") \union Token(t, "n")
                        \union (IF d = 0 THEN {}
                                ELSE LET inner == f[d - 1] IN
                                       Enclosed(t, "[", inner, "]")
                                       \union Enclosed(t, "{", Member(t, inner), "}"))]
           body(f) == [d \in 0 .. m |-> IF d = 0 THEN Scalars(t) ELSE more(f[d - 1])]
<1>1. Values(t) = CHOOSE g : g = raw(g)
  BY Zenon DEF Values
<1>2. ASSUME NEW f PROVE raw(f) = body(f)
  <2>1. ASSUME NEW d \in 0 .. m
        PROVE  Token(t, "s") \union Token(t, "n")
               \union (IF d = 0 THEN {}
                       ELSE Enclosed(t, "[", f[d - 1], "]")
                            \union Enclosed(t, "{", Member(t, f[d - 1]), "}"))
               = IF d = 0 THEN Scalars(t) ELSE more(f[d - 1])
    <3>1. CASE d = 0
      BY <3>1 DEF Scalars
    <3>2. CASE d # 0
      BY <3>2 DEF Scalars, Containing
    <3>3. QED
      BY <3>1, <3>2
  <2>2. QED
    BY <2>1
<1>3. m \in Nat
  BY DecoderAssumption
<1>4. Scalars(t) \in D /\ \A V \in D : more(V) \in D
  <2>1. Scalars(t) \in D
    BY PhrasesAre, Zenon DEF Scalars
  <2>2. ASSUME NEW V \in D PROVE more(V) \in D
    <3>1. Containing(t, V) \in D
      <4>1. Member(t, V) \in D /\ Enclosed(t, "[", V, "]") \in D
        BY EnclosedAre
      <4>2. Enclosed(t, "{", Member(t, V), "}") \in D
        BY <4>1, EnclosedAre
      <4>3. QED
        BY <4>1, <4>2, PhrasesAre, Zenon DEF Containing
    <3>2. QED
      BY <2>1, <3>1, PhrasesAre, Zenon
  <2>3. QED
    BY <2>1, <2>2
<1>5. PICK step : step = [p \in (1 .. m) \X D |-> more(p[2])]
  OBVIOUS
<1> HIDE DEF raw, more, D
<1>6. step \in [(1 .. m) \X D -> D]
  BY <1>4, <1>5
<1>7. PICK f : Iterated(f, m, D, Scalars(t), step)
  <2> HIDE DEF m
  <2>1. QED
    BY <1>3, <1>4, <1>6, Iterates, Zenon
<1>8. /\ f \in [0 .. m -> D] /\ f[0] = Scalars(t)
      /\ \A d \in 1 .. m : f[d] = more(f[d - 1])
  <2>1. f \in [0 .. m -> D] /\ f[0] = Scalars(t) /\ \A d \in 1 .. m : f[d] = step[<<d, f[d - 1]>>]
    BY <1>7, Zenon DEF Iterated
  <2>2. \A d \in 1 .. m : f[d - 1] \in D
    BY <1>3, <2>1
  <2>3. QED
    BY <1>5, <2>1, <2>2
<1>9. f = body(f)
  <2>1. \A d \in 0 .. m : f[d] = body(f)[d]
    BY <1>3, <1>8
  <2>2. QED
    BY <1>8, <2>1
<1>10. PICK g : g = Values(t)
  OBVIOUS
<1>11. g = body(g)
  <2>1. f = raw(f)
    BY <1>2, <1>9
  <2>2. g = raw(g)
    BY <1>1, <1>10, <2>1
  <2>3. QED
    BY <1>2, <2>2
<1>12. g[0] = Scalars(t) /\ \A d \in 1 .. m : g[d] = more(g[d - 1])
  <2>1. \A d \in 0 .. m : g[d] = IF d = 0 THEN Scalars(t) ELSE more(g[d - 1])
    BY <1>11
  <2>2. QED
    BY <1>3, <2>1
<1>13. \A d \in 0 .. m : d \in {k \in 0 .. m : g[k] = f[k]}
  <2> DEFINE S == {k \in 0 .. m : g[k] = f[k]}
  <2>1. 0 \in S
    <3>1. 0 \in 0 .. m /\ g[0] = f[0]
      BY <1>3, <1>8, <1>12
    <3>2. QED
      BY <3>1
  <2>2. ASSUME NEW d \in 1 .. m, d - 1 \in S PROVE d \in S
    BY <1>3, <1>8, <1>12, <2>2
  <2> HIDE DEF S
  <2>3. QED
    BY <1>3, <2>1, <2>2, Reaches DEF S
<1>14. g \in [0 .. m -> D]
  <2>1. \A d \in 0 .. m : g[d] \in D
    BY <1>8, <1>13
  <2>2. g = [d \in 0 .. m |-> g[d]]
    BY <1>11
  <2>3. QED
    BY <2>1, <2>2
<1>15. QED
  BY <1>10, <1>12, <1>14 DEF more, D, ValuesAre

\* What an activation of a kind decodes: an item, or a key with its value.
ElementOf(t, kind, d) == IF kind = "array" THEN Values(t)[d] ELSE Member(t, Values(t)[d])

\* The places from which a container of a kind that is to be followed by one of K
\* goes on: with its bracket, behind an element, and behind the opening bracket.
Closing(t, kind, K) == Before(Token(t, Closer(kind)), K)
After(t, kind, d, K) ==
  Closing(t, kind, K)
  \union Before(Token(t, ","),
                Before(Lists(t, ElementOf(t, kind, d))[Len(t)], Closing(t, kind, K)))
First(t, kind, d, K) ==
  Closing(t, kind, K) \union Before(ElementOf(t, kind, d), After(t, kind, d, K))

\* The elements of a container are phrases.
LEMMA ElementIs ==
  ASSUME NEW t, Len(t) \in Nat, DOMAIN t = 1 .. Len(t), NEW kind, NEW d \in 0 .. MaxDepth
  PROVE  ElementOf(t, kind, d) \in Phrases(t)
<1>1. Values(t)[d] \in Phrases(t)
  <2>1. ValuesAre(t, Values(t))
    BY ValuesFacts, Zenon
  <2>2. QED
    BY <2>1 DEF ValuesAre
<1>2. Member(t, Values(t)[d]) \in Phrases(t)
  BY <1>1, EnclosedAre, Zenon
<1>3. QED
  BY <1>1, <1>2 DEF ElementOf

\* Elements and the bracket: an element, and what follows one.
LEMMA ElementsClosed ==
  ASSUME NEW t, Len(t) \in Nat, DOMAIN t = 1 .. Len(t), NEW kind, NEW d \in 0 .. MaxDepth,
         NEW K
  PROVE  Before(Lists(t, ElementOf(t, kind, d))[Len(t)], Closing(t, kind, K))
         = Before(ElementOf(t, kind, d), After(t, kind, d, K))
<1>1. PICK L : L = Lists(t, ElementOf(t, kind, d))[Len(t)]
  OBVIOUS
<1>2. PICK E : E = ElementOf(t, kind, d)
  OBVIOUS
<1>3. PICK B : B = Closing(t, kind, K)
  OBVIOUS
<1>4. L = E \union Then(E, Then(Token(t, ","), L))
  <2>1. E \in Phrases(t)
    BY <1>2, ElementIs
  <2>2. QED
    <3>1. L = Lists(t, E)[Len(t)]
      BY <1>1, <1>2
    <3>2. QED
      BY <2>1, <3>1, ListUnfolds, Zenon
<1>5. Before(L, B) = Before(E, B) \union Before(Then(E, Then(Token(t, ","), L)), B)
  <2>1. PICK M : M = Then(E, Then(Token(t, ","), L))
    OBVIOUS
  <2>2. Before(E \union M, B) = Before(E, B) \union Before(M, B)
    BY BeforeUnion
  <2>3. QED
    BY <1>4, <2>1, <2>2
<1>6. Before(Then(E, Then(Token(t, ","), L)), B) = Before(E, Before(Token(t, ","), Before(L, B)))
  <2>1. PICK M : M = Then(Token(t, ","), L)
    OBVIOUS
  <2>2. Before(Then(E, M), B) = Before(E, Before(M, B))
    BY BeforeThen
  <2>3. Before(M, B) = Before(Token(t, ","), Before(L, B))
    <3>1. PICK C : C = Token(t, ",")
      OBVIOUS
    <3>2. Before(Then(C, L), B) = Before(C, Before(L, B))
      BY BeforeThen
    <3>3. QED
      BY <2>1, <3>1, <3>2
  <2>4. QED
    BY <2>1, <2>2, <2>3
<1>7. PICK C : C = Before(Token(t, ","), Before(L, B))
  OBVIOUS
<1>8. Before(E, B) \union Before(E, C) = Before(E, B \union C)
  BY DEF Before
<1>9. After(t, kind, d, K) = B \union C
  BY <1>1, <1>2, <1>3, <1>7 DEF After
<1>10. QED
  BY <1>1, <1>2, <1>3, <1>5, <1>6, <1>7, <1>8, <1>9

\* Behind an element: the bracket, or a comma with an element behind it.
LEMMA AfterIs ==
  ASSUME NEW t, Len(t) \in Nat, DOMAIN t = 1 .. Len(t), NEW kind, NEW d \in 0 .. MaxDepth,
         NEW K, NEW p
  PROVE  p \in After(t, kind, d, K) <=>
           /\ p \in DOMAIN t
           /\ \/ t[p] = Closer(kind) /\ p + 1 \in K
              \/ t[p] = "," /\ p + 1 \in Before(ElementOf(t, kind, d), After(t, kind, d, K))
<1>1. PICK R : R = After(t, kind, d, K)
  OBVIOUS
<1>2. PICK N : N = Before(ElementOf(t, kind, d), R)
  OBVIOUS
<1>3. R = Closing(t, kind, K) \union Before(Token(t, ","), N)
  BY <1>1, <1>2, ElementsClosed DEF After
<1>4. p \in Closing(t, kind, K) <=> p \in DOMAIN t /\ t[p] = Closer(kind) /\ p + 1 \in K
  BY BeforeToken DEF Closing
<1>5. p \in Before(Token(t, ","), N) <=> p \in DOMAIN t /\ t[p] = "," /\ p + 1 \in N
  BY BeforeToken
<1>6. QED
  BY <1>1, <1>2, <1>3, <1>4, <1>5, Zenon

\* Behind an opening bracket: the closing one, or an element.
LEMMA FirstIs ==
  ASSUME NEW t, Len(t) \in Nat, DOMAIN t = 1 .. Len(t), NEW kind, NEW d, NEW K, NEW p
  PROVE  p \in First(t, kind, d, K) <=>
           \/ p \in DOMAIN t /\ t[p] = Closer(kind) /\ p + 1 \in K
           \/ p \in Before(ElementOf(t, kind, d), After(t, kind, d, K))
<1>1. p \in Closing(t, kind, K) <=> p \in DOMAIN t /\ t[p] = Closer(kind) /\ p + 1 \in K
  BY BeforeToken DEF Closing
<1>2. QED
  BY <1>1, Zenon DEF First

\* A container begins with its opening bracket.
LEMMA EnclosedIs ==
  ASSUME NEW t, Len(t) \in Nat, DOMAIN t = 1 .. Len(t), NEW kind \in {"array", "object"},
         NEW d \in 0 .. MaxDepth, NEW open, NEW K, NEW p
  PROVE  p \in Before(Enclosed(t, open, ElementOf(t, kind, d), Closer(kind)), K) <=>
           p \in DOMAIN t /\ t[p] = open /\ p + 1 \in First(t, kind, d, K)
<1>1. PICK L : L = Lists(t, ElementOf(t, kind, d))[Len(t)]
  OBVIOUS
<1>2. PICK C : C = Token(t, Closer(kind))
  OBVIOUS
<1>3. PICK F : F = First(t, kind, d, K)
  OBVIOUS
<1>4. Enclosed(t, open, ElementOf(t, kind, d), Closer(kind)) =
      Then(Token(t, open), C \union Then(L, C))
  BY <1>1, <1>2, Zenon DEF Enclosed
<1>5. Before(C \union Then(L, C), K) = Before(C, K) \union Before(L, Before(C, K))
  BY BeforeUnion, BeforeThen
<1>6. Before(C, K) = Closing(t, kind, K)
  BY <1>2 DEF Closing
<1>7. Before(L, Before(C, K)) = Before(ElementOf(t, kind, d), After(t, kind, d, K))
  BY <1>1, <1>6, ElementsClosed
<1>8. Before(C \union Then(L, C), K) = F
  BY <1>3, <1>5, <1>6, <1>7 DEF First
<1>9. Before(Then(Token(t, open), C \union Then(L, C)), K) = Before(Token(t, open), F)
  BY <1>8, BeforeThen
<1>10. p \in Before(Token(t, open), F) <=> p \in DOMAIN t /\ t[p] = open /\ p + 1 \in F
  BY BeforeToken
<1>11. QED
  BY <1>3, <1>4, <1>9, <1>10

\* A pair begins with its key, a colon and a value.
LEMMA MemberIs ==
  ASSUME NEW t, Len(t) \in Nat, DOMAIN t = 1 .. Len(t), NEW V, NEW K, NEW p
  PROVE  p \in Before(Member(t, V), K) <=>
           p \in DOMAIN t /\ t[p] = "s" /\ p + 1 \in Before(Token(t, ":"), Before(V, K))
<1>1. PICK B : B = Before(Token(t, ":"), Before(V, K))
  OBVIOUS
<1>2. Before(Member(t, V), K) = Before(Token(t, "s"), B)
  BY <1>1, BeforeThen DEF Member
<1>3. p \in Before(Token(t, "s"), B) <=> p \in DOMAIN t /\ t[p] = "s" /\ p + 1 \in B
  BY BeforeToken
<1>4. QED
  BY <1>1, <1>2, <1>3

\* A value is a scalar, or begins with a bracket if it may nest.
LEMMA ValueIs ==
  ASSUME NEW t, Len(t) \in Nat, DOMAIN t = 1 .. Len(t), NEW d \in 0 .. MaxDepth, NEW K, NEW p
  PROVE  p \in Before(Values(t)[d], K) <=>
           /\ p \in DOMAIN t
           /\ \/ t[p] \in {"s", "n"} /\ p + 1 \in K
              \/ d # 0 /\ t[p] = "[" /\ p + 1 \in First(t, "array", d - 1, K)
              \/ d # 0 /\ t[p] = "{" /\ p + 1 \in First(t, "object", d - 1, K)
<1>0. ValuesAre(t, Values(t))
  BY ValuesFacts, Zenon
<1>1. p \in Before(Scalars(t), K) <=> p \in DOMAIN t /\ t[p] \in {"s", "n"} /\ p + 1 \in K
  <2>1. Before(Scalars(t), K) = Before(Token(t, "s"), K) \union Before(Token(t, "n"), K)
    BY BeforeUnion DEF Scalars
  <2>2. p \in Before(Token(t, "s"), K) <=> p \in DOMAIN t /\ t[p] = "s" /\ p + 1 \in K
    BY BeforeToken
  <2>3. p \in Before(Token(t, "n"), K) <=> p \in DOMAIN t /\ t[p] = "n" /\ p + 1 \in K
    BY BeforeToken
  <2>4. QED
    BY <2>1, <2>2, <2>3, Zenon
<1>2. CASE d = 0
  <2>1. Values(t)[d] = Scalars(t)
    BY <1>0, <1>2 DEF ValuesAre
  <2>2. QED
    BY <1>1, <1>2, <2>1, Zenon
<1>3. CASE d # 0
  <2>1. d \in 1 .. MaxDepth /\ d - 1 \in 0 .. MaxDepth
    BY <1>3, DecoderAssumption
  <2>2. PICK V : V = Values(t)[d - 1]
    OBVIOUS
  <2>3. Values(t)[d] = Scalars(t) \union Containing(t, V)
    BY <1>0, <2>1, <2>2 DEF ValuesAre
  <2>4. Before(Values(t)[d], K) = Before(Scalars(t), K) \union Before(Containing(t, V), K)
    BY <2>3, BeforeUnion
  <2>5. Before(Containing(t, V), K) = Before(Enclosed(t, "[", V, "]"), K)
                                      \union Before(Enclosed(t, "{", Member(t, V), "}"), K)
    <3>1. PICK A : A = Enclosed(t, "[", V, "]")
      OBVIOUS
    <3>2. PICK B : B = Enclosed(t, "{", Member(t, V), "}")
      OBVIOUS
    <3>3. Before(A \union B, K) = Before(A, K) \union Before(B, K)
      BY BeforeUnion
    <3>4. QED
      BY <3>1, <3>2, <3>3 DEF Containing
  <2>6. p \in Before(Enclosed(t, "[", V, "]"), K) <=>
          p \in DOMAIN t /\ t[p] = "[" /\ p + 1 \in First(t, "array", d - 1, K)
    <3>1. V = ElementOf(t, "array", d - 1) /\ "]" = Closer("array")
      BY <2>2 DEF ElementOf, Closer
    <3>2. QED
      BY <2>1, <3>1, EnclosedIs
  <2>7. p \in Before(Enclosed(t, "{", Member(t, V), "}"), K) <=>
          p \in DOMAIN t /\ t[p] = "{" /\ p + 1 \in First(t, "object", d - 1, K)
    <3>1. Member(t, V) = ElementOf(t, "object", d - 1) /\ "}" = Closer("object")
      BY <2>2 DEF ElementOf, Closer
    <3>2. QED
      BY <2>1, <3>1, EnclosedIs
  <2>8. QED
    BY <1>1, <1>3, <2>4, <2>5, <2>6, <2>7, Zenon
<1>4. QED
  BY <1>2, <1>3

(***************************************************************************)
(* The reader of JSONText reads the texts of the grammar.                  *)
(***************************************************************************)

\* The places c[k] from which a text goes on behind an element of the k-th open
\* container, or behind the whole value.
Rests(t, o, c) ==
  /\ c \in [Nat -> SUBSET Nat]
  /\ c[0] = {Len(t) + 1}
  /\ \A k \in 1 .. Len(o) : c[k] = After(t, o[k], MaxDepth - k, c[k - 1])

\* The place p is one from which the text goes on, when e may follow.
Live(t, c, p, o, e) ==
  LET n == Len(o)
      values == Values(t)[MaxDepth - n]
  IN CASE e = "value" -> p \in Before(values, c[n])
       [] e = "first" -> p \in First(t, o[n], MaxDepth - n, c[n - 1])
       [] e = "key" -> p \in Before(Member(t, values), c[n])
       [] e = "colon" -> p \in Before(Token(t, ":"), Before(values, c[n]))
       [] e \in {"separator", "end"} -> p \in c[n]
       [] OTHER -> e = "accepted"

\* What the reader has still to read completes a text of the grammar.
Leads(t, p, o, e) == \E c : Rests(t, o, c) /\ Live(t, c, p, o, e)

\* The containers that are open, and what may follow in them.
Opened(t, o, e) ==
  /\ Len(t) \in Nat /\ DOMAIN t = 1 .. Len(t)
  /\ o \in Seq({"array", "object"}) /\ Len(o) <= MaxDepth
  /\ e \in {"value", "first", "key", "colon", "separator", "end", "accepted"}
  /\ e \in {"first", "key", "separator"} => o # <<>>
  /\ e = "key" => o[Len(o)] = "object"
  /\ e = "end" => o = <<>>

\* A value may follow, or a key.
TakesValue(o, e) == e = "value" \/ (e = "first" /\ o[Len(o)] = "array")
TakesKey(o, e) == e = "key" \/ (e = "first" /\ o[Len(o)] = "object")

\* The levels of nesting, and the places behind the innermost element.
LEMMA OpenedFacts ==
  ASSUME NEW t, NEW o, NEW e, Opened(t, o, e), NEW c, Rests(t, o, c)
  PROVE  /\ Len(o) \in Nat /\ MaxDepth \in Nat /\ MaxDepth - Len(o) \in 0 .. MaxDepth
         /\ o = <<>> => Len(o) = 0 /\ c[Len(o)] = {Len(t) + 1}
         /\ o # <<>> =>
              /\ Len(o) \in 1 .. Len(o) /\ Len(o) - 1 \in Nat
              /\ o[Len(o)] \in {"array", "object"}
              /\ c[Len(o)] = After(t, o[Len(o)], MaxDepth - Len(o), c[Len(o) - 1])
<1>1. o \in Seq({"array", "object"}) /\ Len(o) <= MaxDepth
  BY DEF Opened
<1>2. Len(o) \in Nat /\ MaxDepth \in Nat
  BY <1>1, LenProperties, DecoderAssumption
<1>3. MaxDepth - Len(o) \in 0 .. MaxDepth
  BY <1>1, <1>2
<1>4. o = <<>> => Len(o) = 0
  BY <1>1, EmptySeq
<1>5. ASSUME o # <<>>
      PROVE  Len(o) \in 1 .. Len(o) /\ Len(o) - 1 \in Nat /\ o[Len(o)] \in {"array", "object"}
  <2>1. Len(o) # 0
    BY <1>1, <1>5, EmptySeq
  <2>2. Len(o) \in 1 .. Len(o) /\ Len(o) - 1 \in Nat
    BY <1>2, <2>1
  <2>3. QED
    BY <1>1, <2>2, ElementOfSeq
<1>6. QED
  BY <1>2, <1>3, <1>4, <1>5, Zenon DEF Rests

\* The characters with which the text may go on.
Leading(t, p, o, e) ==
  \/ e = "end" /\ p = Len(t) + 1
  \/ /\ p \in DOMAIN t
     /\ \/ TakesValue(o, e) /\ t[p] \in {"s", "n"}
        \/ TakesValue(o, e) /\ Len(o) < MaxDepth /\ t[p] \in {"[", "{"}
        \/ TakesKey(o, e) /\ t[p] = "s"
        \/ e = "colon" /\ t[p] = ":"
        \/ e = "separator" /\ t[p] = ","
        \/ e \in {"first", "separator"} /\ t[p] = Closer(o[Len(o)])

\* No other does.
LEMMA LeadingCharacter ==
  ASSUME NEW t, NEW o, NEW e, Opened(t, o, e), NEW p, Leads(t, p, o, e), e # "accepted"
  PROVE  Leading(t, p, o, e)
<1> PICK c : Rests(t, o, c) /\ Live(t, c, p, o, e)
  BY Zenon DEF Leads
<1> DEFINE n == Len(o)
           d == MaxDepth - n
<1>0. /\ Len(t) \in Nat /\ DOMAIN t = 1 .. Len(t)
      /\ e \in {"value", "first", "key", "colon", "separator", "end", "accepted"}
      /\ e \in {"first", "key", "separator"} => o # <<>>
      /\ e = "end" => o = <<>>
  BY DEF Opened
<1>1. n \in Nat /\ MaxDepth \in Nat /\ d \in 0 .. MaxDepth
  BY OpenedFacts
<1>2. d # 0 => n < MaxDepth
  BY <1>1
<1>3. /\ o = <<>> => c[n] = {Len(t) + 1}
      /\ o # <<>> => /\ o[n] \in {"array", "object"}
                     /\ c[n] = After(t, o[n], d, c[n - 1])
  BY OpenedFacts
<1> HIDE DEF d, n
<1>v. ASSUME NEW K, p \in Before(Values(t)[d], K)
      PROVE  p \in DOMAIN t /\ (t[p] \in {"s", "n"} \/ (n < MaxDepth /\ t[p] \in {"[", "{"}))
  BY <1>0, <1>1, <1>2, <1>v, ValueIs, Zenon
<1>k. ASSUME NEW V, NEW K, p \in Before(Member(t, V), K) PROVE p \in DOMAIN t /\ t[p] = "s"
  BY <1>0, <1>k, MemberIs, Zenon
<1>4. CASE e = "value"
  <2>1. p \in Before(Values(t)[d], c[n])
    BY <1>4 DEF Live, d, n
  <2>2. QED
    BY <1>4, <1>v, <2>1, Zenon DEF TakesValue, n, Leading
<1>5. CASE e = "first"
  <2>1. p \in First(t, o[n], d, c[n - 1])
    BY <1>5 DEF Live, d, n
  <2>2. \/ p \in DOMAIN t /\ t[p] = Closer(o[n])
        \/ p \in Before(ElementOf(t, o[n], d), After(t, o[n], d, c[n - 1]))
    BY <1>0, <2>1, FirstIs, Zenon
  <2>3. CASE p \in DOMAIN t /\ t[p] = Closer(o[n])
    BY <1>5, <2>3 DEF n, Leading
  <2>4. CASE p \in Before(ElementOf(t, o[n], d), After(t, o[n], d, c[n - 1]))
    <3>1. CASE o[n] = "array"
      <4>1. p \in DOMAIN t /\ (t[p] \in {"s", "n"} \/ (n < MaxDepth /\ t[p] \in {"[", "{"}))
        BY <1>v, <2>4, <3>1 DEF ElementOf
      <4>2. QED
        BY <1>5, <3>1, <4>1, Zenon DEF TakesValue, n, Leading
    <3>2. CASE o[n] = "object"
      <4>1. p \in DOMAIN t /\ t[p] = "s"
        BY <1>k, <2>4, <3>2 DEF ElementOf
      <4>2. QED
        BY <1>5, <3>2, <4>1, Zenon DEF TakesKey, n, Leading
    <3>3. QED
      BY <1>0, <1>3, <1>5, <3>1, <3>2
  <2>5. QED
    BY <2>2, <2>3, <2>4
<1>6. CASE e = "key"
  <2>1. p \in Before(Member(t, Values(t)[d]), c[n])
    BY <1>6 DEF Live, d, n
  <2>2. QED
    BY <1>6, <1>k, <2>1, Zenon DEF TakesKey, Leading
<1>7. CASE e = "colon"
  <2>1. p \in Before(Token(t, ":"), Before(Values(t)[d], c[n]))
    BY <1>7 DEF Live, d, n
  <2>2. p \in DOMAIN t /\ t[p] = ":"
    <3>1. PICK K : K = Before(Values(t)[d], c[n])
      OBVIOUS
    <3>2. p \in Before(Token(t, ":"), K) <=> p \in DOMAIN t /\ t[p] = ":" /\ p + 1 \in K
      BY <1>0, BeforeToken
    <3>3. QED
      BY <2>1, <3>1, <3>2
  <2>3. QED
    BY <1>7, <2>2 DEF Leading
<1>8. CASE e = "separator"
  <2>1. p \in After(t, o[n], d, c[n - 1])
    BY <1>0, <1>3, <1>8 DEF Live, n
  <2>2. p \in DOMAIN t /\ (t[p] = Closer(o[n]) \/ t[p] = ",")
    <3>1. PICK K : K = c[n - 1]
      OBVIOUS
    <3>2. PICK kind : kind = o[n]
      OBVIOUS
    <3>3. p \in After(t, kind, d, K)
      BY <2>1, <3>1, <3>2
    <3>4. p \in DOMAIN t /\ (t[p] = Closer(kind) \/ t[p] = ",")
      BY <1>0, <1>1, <3>3, AfterIs
    <3>5. QED
      BY <3>2, <3>4
  <2>3. QED
    BY <1>8, <2>2 DEF n, Leading
<1>9. CASE e = "end"
  <2>1. p \in c[n]
    BY <1>9 DEF Live, n
  <2>2. QED
    BY <1>0, <1>3, <1>9, <2>1 DEF Leading
<1>10. QED
  BY <1>0, <1>4, <1>5, <1>6, <1>7, <1>8, <1>9, Zenon DEF Leading

\* The text goes on, or not, as it does behind a character that may follow.
SameLead(t, p, o, e, q, x, f) == Leads(t, p, o, e) <=> Leads(t, q, x, f)

\* Where no container is opened or closed the places behind elements stay.
LEMMA SameContainers ==
  ASSUME NEW t, NEW o, NEW e, NEW f, NEW p, NEW q,
         \A c : Rests(t, o, c) => (Live(t, c, p, o, e) <=> Live(t, c, q, o, f))
  PROVE  SameLead(t, p, o, e, q, o, f)
BY Zenon DEF SameLead, Leads

\* What a value is followed by.
Following(o) == IF o = <<>> THEN "end" ELSE "separator"

\* A scalar where a value may follow.
LEMMA ScalarLeads ==
  ASSUME NEW t, NEW o, NEW e, Opened(t, o, e), TakesValue(o, e),
         NEW p \in DOMAIN t, t[p] \in {"s", "n"}
  PROVE  SameLead(t, p, o, e, p + 1, o, Following(o))
<1> DEFINE n == Len(o)
           d == MaxDepth - n
<1> SUFFICES ASSUME NEW c, Rests(t, o, c)
             PROVE  Live(t, c, p, o, e) <=> Live(t, c, p + 1, o, Following(o))
  BY SameContainers
<1>0. /\ Len(t) \in Nat /\ DOMAIN t = 1 .. Len(t)
      /\ e \in {"first", "key", "separator"} => o # <<>>
  BY DEF Opened
<1>1. n \in Nat /\ MaxDepth \in Nat /\ d \in 0 .. MaxDepth
  BY OpenedFacts
<1>2. o # <<>> => c[n] = After(t, o[n], d, c[n - 1])
  BY OpenedFacts
<1> HIDE DEF d, n
<1>3. Live(t, c, p + 1, o, Following(o)) <=> p + 1 \in c[n]
  BY DEF Live, Following, n
<1>4. \A K : p \in Before(Values(t)[d], K) <=> p + 1 \in K
  <2> TAKE K
  <2>1. p \in Before(Values(t)[d], K) <=>
           /\ p \in DOMAIN t
           /\ \/ t[p] \in {"s", "n"} /\ p + 1 \in K
              \/ d # 0 /\ t[p] = "[" /\ p + 1 \in First(t, "array", d - 1, K)
              \/ d # 0 /\ t[p] = "{" /\ p + 1 \in First(t, "object", d - 1, K)
    BY <1>0, <1>1, ValueIs, Zenon
  <2>2. QED
    BY <2>1
<1>5. CASE e = "value"
  BY <1>3, <1>4, <1>5 DEF Live, d, n
<1>6. CASE e = "first" /\ o[n] = "array"
  <2>1. PICK K : K = c[n - 1]
    OBVIOUS
  <2>2. Live(t, c, p, o, e) <=> p \in First(t, "array", d, K)
    BY <1>6, <2>1 DEF Live, d, n
  <2>3. c[n] = After(t, "array", d, K)
    BY <1>0, <1>2, <1>6, <2>1
  <2>4. t[p] # Closer("array")
    BY DEF Closer
  <2>5. p \in First(t, "array", d, K) <=> p \in Before(Values(t)[d], c[n])
    <3>1. ElementOf(t, "array", d) = Values(t)[d]
      BY DEF ElementOf
    <3>2. p \in First(t, "array", d, K) <=>
           \/ p \in DOMAIN t /\ t[p] = Closer("array") /\ p + 1 \in K
           \/ p \in Before(ElementOf(t, "array", d), After(t, "array", d, K))
      BY <1>0, FirstIs
    <3>3. QED
      BY <2>3, <2>4, <3>1, <3>2
  <2>6. QED
    BY <1>3, <1>4, <2>2, <2>5
<1>7. QED
  BY <1>5, <1>6 DEF TakesValue, n

\* A key where one may follow.
LEMMA KeyLeads ==
  ASSUME NEW t, NEW o, NEW e, Opened(t, o, e), TakesKey(o, e),
         NEW p \in DOMAIN t, t[p] = "s"
  PROVE  SameLead(t, p, o, e, p + 1, o, "colon")
<1> DEFINE n == Len(o)
           d == MaxDepth - n
<1> SUFFICES ASSUME NEW c, Rests(t, o, c)
             PROVE  Live(t, c, p, o, e) <=> Live(t, c, p + 1, o, "colon")
  BY SameContainers
<1>0. /\ Len(t) \in Nat /\ DOMAIN t = 1 .. Len(t)
      /\ e \in {"first", "key", "separator"} => o # <<>>
  BY DEF Opened
<1>1. n \in Nat /\ MaxDepth \in Nat /\ d \in 0 .. MaxDepth
  BY OpenedFacts
<1>2. o # <<>> => c[n] = After(t, o[n], d, c[n - 1])
  BY OpenedFacts
<1> HIDE DEF d, n
<1>3. Live(t, c, p + 1, o, "colon") <=> p + 1 \in Before(Token(t, ":"), Before(Values(t)[d], c[n]))
  BY DEF Live, d, n
<1>4. p \in Before(Member(t, Values(t)[d]), c[n])
      <=> p + 1 \in Before(Token(t, ":"), Before(Values(t)[d], c[n]))
  <2>1. PICK V : V = Values(t)[d]
    OBVIOUS
  <2>2. PICK K : K = c[n]
    OBVIOUS
  <2>3. p \in Before(Member(t, V), K) <=>
           p \in DOMAIN t /\ t[p] = "s" /\ p + 1 \in Before(Token(t, ":"), Before(V, K))
    BY <1>0, MemberIs
  <2>4. QED
    BY <2>1, <2>2, <2>3
<1>5. CASE e = "key"
  BY <1>3, <1>4, <1>5 DEF Live, d, n
<1>6. CASE e = "first" /\ o[n] = "object"
  <2>1. PICK K : K = c[n - 1]
    OBVIOUS
  <2>2. Live(t, c, p, o, e) <=> p \in First(t, "object", d, K)
    BY <1>6, <2>1 DEF Live, d, n
  <2>3. c[n] = After(t, "object", d, K)
    BY <1>0, <1>2, <1>6, <2>1
  <2>4. t[p] # Closer("object")
    BY DEF Closer
  <2>5. p \in First(t, "object", d, K) <=> p \in Before(Member(t, Values(t)[d]), c[n])
    <3>1. ElementOf(t, "object", d) = Member(t, Values(t)[d])
      BY DEF ElementOf
    <3>2. p \in First(t, "object", d, K) <=>
           \/ p \in DOMAIN t /\ t[p] = Closer("object") /\ p + 1 \in K
           \/ p \in Before(ElementOf(t, "object", d), After(t, "object", d, K))
      BY <1>0, FirstIs
    <3>3. QED
      BY <2>3, <2>4, <3>1, <3>2
  <2>6. QED
    BY <1>3, <1>4, <2>2, <2>5
<1>7. QED
  BY <1>5, <1>6 DEF TakesKey, n

\* A colon behind a key.
LEMMA ColonLeads ==
  ASSUME NEW t, NEW o, Opened(t, o, "colon"), NEW p \in DOMAIN t, t[p] = ":"
  PROVE  SameLead(t, p, o, "colon", p + 1, o, "value")
<1> SUFFICES ASSUME NEW c, Rests(t, o, c)
             PROVE  Live(t, c, p, o, "colon") <=> Live(t, c, p + 1, o, "value")
  BY SameContainers
<1>0. Len(t) \in Nat /\ DOMAIN t = 1 .. Len(t)
  BY DEF Opened
<1>1. PICK K : K = Before(Values(t)[MaxDepth - Len(o)], c[Len(o)])
  OBVIOUS
<1>2. p \in Before(Token(t, ":"), K) <=> p \in DOMAIN t /\ t[p] = ":" /\ p + 1 \in K
  BY <1>0, BeforeToken
<1>3. QED
  BY <1>1, <1>2 DEF Live

\* A comma behind an element.
LEMMA CommaLeads ==
  ASSUME NEW t, NEW o, Opened(t, o, "separator"), NEW p \in DOMAIN t, t[p] = ","
  PROVE  SameLead(t, p, o, "separator", p + 1, o, IF o[Len(o)] = "array" THEN "value" ELSE "key")
<1> DEFINE n == Len(o)
           d == MaxDepth - n
           f == IF o[Len(o)] = "array" THEN "value" ELSE "key"
<1> SUFFICES ASSUME NEW c, Rests(t, o, c)
             PROVE  Live(t, c, p, o, "separator") <=> Live(t, c, p + 1, o, f)
  BY SameContainers
<1>0. Len(t) \in Nat /\ DOMAIN t = 1 .. Len(t) /\ o # <<>>
  BY DEF Opened
<1>1. n \in Nat /\ MaxDepth \in Nat /\ d \in 0 .. MaxDepth
  BY OpenedFacts
<1>2. c[n] = After(t, o[n], d, c[n - 1])
  BY <1>0, OpenedFacts
<1> HIDE DEF d, n
<1>3. PICK kind : kind = o[n]
  OBVIOUS
<1>4. PICK K : K = c[n - 1]
  OBVIOUS
<1>5. p \in After(t, kind, d, K) <=> p + 1 \in Before(ElementOf(t, kind, d), After(t, kind, d, K))
  <2>1. p \in After(t, kind, d, K) <=>
           /\ p \in DOMAIN t
           /\ \/ t[p] = Closer(kind) /\ p + 1 \in K
              \/ t[p] = "," /\ p + 1 \in Before(ElementOf(t, kind, d), After(t, kind, d, K))
    BY <1>0, <1>1, AfterIs
  <2>2. t[p] # Closer(kind)
    BY DEF Closer
  <2>3. QED
    BY <2>1, <2>2
<1>6. c[n] = After(t, kind, d, K)
  BY <1>2, <1>3, <1>4
<1>7. Live(t, c, p, o, "separator") <=> p \in c[n]
  BY DEF Live, n
<1>8. Live(t, c, p + 1, o, f) <=> p + 1 \in Before(ElementOf(t, kind, d), c[n])
  BY <1>3 DEF Live, ElementOf, d, n
<1>9. QED
  BY <1>5, <1>6, <1>7, <1>8

\* The places stay where a container is opened, or closed.
Pushed(t, o, x) ==
  /\ \A h : Rests(t, x, h) => Rests(t, o, h)
  /\ \A c : Rests(t, o, c) => \E h : Rests(t, x, h) /\ h[Len(o)] = c[Len(o)]

\* Every choice of rests for the containers there are goes on to the new one.
LEMMA RestsPushed ==
  ASSUME NEW t, NEW o \in Seq({"array", "object"}), NEW kind \in {"array", "object"},
         Len(t) \in Nat, DOMAIN t = 1 .. Len(t), Len(o) + 1 \in 1 .. MaxDepth
  PROVE  Pushed(t, o, Append(o, kind))
<1> DEFINE n == Len(o)
           x == Append(o, kind)
<1>1. /\ n \in Nat /\ Len(x) = n + 1 /\ x[n + 1] = kind /\ \A k \in 1 .. n : x[k] = o[k]
      /\ MaxDepth \in Nat /\ n + 1 \in 1 .. MaxDepth
  BY AppendProperties, LenProperties, DecoderAssumption
<1> HIDE DEF n, x
<1>2. ASSUME NEW c, Rests(t, x, c) PROVE Rests(t, o, c)
  <2>1. ASSUME NEW k \in 1 .. n PROVE c[k] = After(t, o[k], MaxDepth - k, c[k - 1])
    <3>1. k \in 1 .. Len(x) /\ x[k] = o[k]
      BY <1>1
    <3>2. QED
      BY <1>2, <3>1 DEF Rests
  <2>2. QED
    BY <1>2, <2>1 DEF Rests, n
<1>3. ASSUME NEW c, Rests(t, o, c)
      PROVE  \E h : Rests(t, x, h) /\ h[n] = c[n]
  <2>1. c \in [Nat -> SUBSET Nat] /\ c[0] = {Len(t) + 1}
        /\ \A k \in 1 .. n : c[k] = After(t, o[k], MaxDepth - k, c[k - 1])
    BY <1>3 DEF Rests, n
  <2>2. PICK R : R = After(t, kind, MaxDepth - (n + 1), c[n])
    OBVIOUS
  <2>3. R \in SUBSET Nat
    <3>1. MaxDepth - (n + 1) \in 0 .. MaxDepth
      BY <1>1, <1>3
    <3>2. PICK K : K = c[n]
      OBVIOUS
    <3>3. PICK d : d = MaxDepth - (n + 1)
      OBVIOUS
    <3>4. \A p : p \in After(t, kind, d, K) => p \in DOMAIN t
      BY <3>1, <3>3, AfterIs
    <3>5. QED
      BY <2>2, <3>2, <3>3, <3>4
  <2>4. PICK h : h = [c EXCEPT ![n + 1] = R]
    OBVIOUS
  <2>5. h \in [Nat -> SUBSET Nat] /\ h[n + 1] = R /\ \A k \in Nat : k # n + 1 => h[k] = c[k]
    BY <1>1, <2>1, <2>3, <2>4
  <2>6. ASSUME NEW k \in 1 .. Len(x) PROVE h[k] = After(t, x[k], MaxDepth - k, h[k - 1])
    <3>1. CASE k = n + 1
      <4>1. h[k - 1] = c[n] /\ x[k] = kind
        BY <1>1, <2>5, <3>1
      <4>2. QED
        BY <2>2, <2>5, <3>1, <4>1
    <3>2. CASE k \in 1 .. n
      <4>1. h[k] = c[k] /\ h[k - 1] = c[k - 1] /\ x[k] = o[k]
        BY <1>1, <2>5, <3>2
      <4>2. QED
        BY <2>1, <3>2, <4>1
    <3>3. QED
      BY <1>1, <3>1, <3>2
  <2>7. h[0] = {Len(t) + 1} /\ h[n] = c[n]
    BY <1>1, <2>1, <2>5
  <2>8. QED
    BY <2>5, <2>6, <2>7 DEF Rests
<1>4. QED
  BY <1>2, <1>3, Zenon DEF n, x, Pushed

\* A bracket that opens a container where a value may follow.
LEMMA OpenLeads ==
  ASSUME NEW t, NEW o \in Seq({"array", "object"}), NEW e, Opened(t, o, e),
         TakesValue(o, e), Len(o) # MaxDepth,
         NEW kind \in {"array", "object"},
         NEW p \in DOMAIN t, Opens(kind, t[p])
  PROVE  SameLead(t, p, o, e, p + 1, Append(o, kind), "first")
<1> DEFINE n == Len(o)
           d == MaxDepth - n
           x == Append(o, kind)
<1>0. /\ Len(t) \in Nat /\ DOMAIN t = 1 .. Len(t)
      /\ e \in {"first", "key", "separator"} => o # <<>>
      /\ o \in Seq({"array", "object"})
  BY DEF Opened
<1>0a. n \in Nat
  BY <1>0, LenProperties, Zenon
<1>1. n \in Nat /\ MaxDepth \in Nat /\ d \in 0 .. MaxDepth /\ d # 0
  <2>1. MaxDepth \in Nat /\ n <= MaxDepth
    BY DecoderAssumption DEF Opened
  <2>2. QED
    BY <1>0a, <2>1
<1>2. Len(x) = n + 1 /\ x[n + 1] = kind
  BY AppendProperties
<1>2a. Pushed(t, o, x)
  <2>1. n + 1 \in 1 .. MaxDepth
    BY <1>1
  <2>2. QED
    BY <1>0, <2>1, RestsPushed, Zenon
<1>3. \A h : Rests(t, x, h) => Rests(t, o, h)
  BY <1>2a DEF Pushed
<1>4. ASSUME NEW c, Rests(t, o, c) PROVE \E h : Rests(t, x, h) /\ h[n] = c[n]
  BY <1>2a, <1>4, Zenon DEF Pushed
<1>5. ASSUME NEW c, Rests(t, o, c), NEW h, h[n] = c[n]
      PROVE  Live(t, c, p, o, e) <=> Live(t, h, p + 1, x, "first")
  <2>1. Live(t, h, p + 1, x, "first") <=> p + 1 \in First(t, kind, d - 1, h[n])
    <3> HIDE DEF x, n
    <3>1. MaxDepth - Len(x) = d - 1 /\ Len(x) - 1 = n /\ x[Len(x)] = kind
      BY <1>1, <1>2
    <3> HIDE DEF d
    <3>2. QED
      BY <3>1 DEF Live
  <2>2. o # <<>> => c[n] = After(t, o[n], d, c[n - 1])
    BY <1>5, OpenedFacts
  <2> HIDE DEF d, n, x
  <2>3. ASSUME NEW K PROVE p \in Before(Values(t)[d], K) <=> p + 1 \in First(t, kind, d - 1, K)
    <3>1. p \in Before(Values(t)[d], K) <=>
           /\ p \in DOMAIN t
           /\ \/ t[p] \in {"s", "n"} /\ p + 1 \in K
              \/ d # 0 /\ t[p] = "[" /\ p + 1 \in First(t, "array", d - 1, K)
              \/ d # 0 /\ t[p] = "{" /\ p + 1 \in First(t, "object", d - 1, K)
      BY <1>0, <1>1, ValueIs, Zenon
    <3>2. QED
      BY <1>1, <3>1, Zenon DEF Opens
  <2>4. CASE e = "value"
    BY <1>5, <2>1, <2>3, <2>4 DEF Live, d, n
  <2>5. CASE e = "first" /\ o[n] = "array"
    <3>1. PICK K : K = c[n - 1]
      OBVIOUS
    <3>2. Live(t, c, p, o, e) <=> p \in First(t, "array", d, K)
      BY <2>5, <3>1 DEF Live, d, n
    <3>3. c[n] = After(t, "array", d, K)
      BY <1>0, <2>2, <2>5, <3>1
    <3>4. t[p] # Closer("array")
      BY Zenon DEF Closer, Opens
    <3>5. p \in First(t, "array", d, K) <=> p \in Before(Values(t)[d], c[n])
      <4>1. ElementOf(t, "array", d) = Values(t)[d]
        BY DEF ElementOf
      <4>2. p \in First(t, "array", d, K) <=>
             \/ p \in DOMAIN t /\ t[p] = Closer("array") /\ p + 1 \in K
             \/ p \in Before(ElementOf(t, "array", d), After(t, "array", d, K))
        BY <1>0, FirstIs
      <4>3. QED
        BY <3>3, <3>4, <4>1, <4>2
    <3>6. QED
      BY <1>5, <2>1, <2>3, <3>2, <3>5
  <2>6. QED
    BY <2>4, <2>5 DEF TakesValue, n
<1> HIDE DEF n, x
<1>6. ASSUME Leads(t, p, o, e) PROVE Leads(t, p + 1, x, "first")
  <2>1. PICK c : Rests(t, o, c) /\ Live(t, c, p, o, e)
    BY <1>6, Zenon DEF Leads
  <2>2. PICK h : Rests(t, x, h) /\ h[n] = c[n]
    BY <1>4, <2>1
  <2>3. QED
    BY <1>5, <2>1, <2>2, Zenon DEF Leads
<1>7. ASSUME Leads(t, p + 1, x, "first") PROVE Leads(t, p, o, e)
  <2>1. PICK h : Rests(t, x, h) /\ Live(t, h, p + 1, x, "first")
    BY <1>7, Zenon DEF Leads
  <2>2. Rests(t, o, h)
    BY <1>3, <2>1
  <2>3. Live(t, h, p, o, e)
    BY <1>5, <2>1, <2>2
  <2>4. QED
    BY <2>2, <2>3, Zenon DEF Leads
<1>8. QED
  BY <1>6, <1>7 DEF SameLead, x

\* A bracket that closes the innermost container.
LEMMA CloseLeads ==
  ASSUME NEW t, NEW o \in Seq({"array", "object"}), NEW kind \in {"array", "object"}, NEW e,
         Opened(t, Append(o, kind), e), e \in {"first", "separator"},
         NEW p \in DOMAIN t, t[p] = Closer(kind)
  PROVE  SameLead(t, p, Append(o, kind), e, p + 1, o, Following(o))
<1> DEFINE n == Len(o)
           d == MaxDepth - (n + 1)
           x == Append(o, kind)
<1>0. Len(t) \in Nat /\ DOMAIN t = 1 .. Len(t) /\ Len(x) <= MaxDepth
  BY DEF Opened
<1>1. Len(x) = n + 1 /\ x[n + 1] = kind /\ n \in Nat /\ MaxDepth \in Nat
  BY AppendProperties, LenProperties, DecoderAssumption
<1>1a. d \in 0 .. MaxDepth /\ n + 1 \in 1 .. MaxDepth
  BY <1>0, <1>1
<1>1b. Pushed(t, o, x)
  BY <1>0, <1>1a, RestsPushed, Zenon
<1>2. \A h : Rests(t, x, h) => Rests(t, o, h)
  BY <1>1b DEF Pushed
<1>3. ASSUME NEW c, Rests(t, o, c) PROVE \E h : Rests(t, x, h) /\ h[n] = c[n]
  BY <1>1b, <1>3, Zenon DEF Pushed
<1>4. ASSUME NEW h, Rests(t, x, h), NEW c, h[n] = c[n]
      PROVE  Live(t, h, p, x, e) <=> Live(t, c, p + 1, o, Following(o))
  <2>1. h[n + 1] = After(t, kind, d, h[n])
    <3>1. n + 1 \in 1 .. Len(x) /\ n + 1 - 1 = n
      BY <1>1
    <3> HIDE DEF x, n
    <3> DEFINE E(k, j) == h[k] = After(t, x[k], MaxDepth - k, h[j])
    <3>2. \A k \in 1 .. Len(x) : E(k, k - 1)
      BY <1>4, Zenon DEF Rests
    <3> HIDE DEF E
    <3>3. E(n + 1, n)
      BY <1>1, <3>1, <3>2
    <3>4. QED
      BY <1>1, <3>3 DEF E
  <2>2. Live(t, c, p + 1, o, Following(o)) <=> p + 1 \in c[n]
    BY DEF Live, Following
  <2> HIDE DEF d, n, x
  <2>3. PICK K : K = h[n]
    OBVIOUS
  <2>4. ASSUME NEW V
        PROVE  ~(p \in Before(Values(t)[d], V)) /\ ~(p \in Before(Member(t, Values(t)[d]), V))
    <3>1. t[p] \notin {"s", "n", "[", "{"}
      BY DEF Closer
    <3>2. p \in Before(Values(t)[d], V) <=>
           /\ p \in DOMAIN t
           /\ \/ t[p] \in {"s", "n"} /\ p + 1 \in V
              \/ d # 0 /\ t[p] = "[" /\ p + 1 \in First(t, "array", d - 1, V)
              \/ d # 0 /\ t[p] = "{" /\ p + 1 \in First(t, "object", d - 1, V)
      BY <1>0, <1>1a, ValueIs, Zenon
    <3>3. p \in Before(Member(t, Values(t)[d]), V) => t[p] = "s"
      BY <1>0, MemberIs, Zenon
    <3>4. QED
      BY <3>1, <3>2, <3>3
  <2>5. \A V : ~(p \in Before(ElementOf(t, kind, d), V))
    BY <2>4 DEF ElementOf
  <2>6. p \in First(t, kind, d, K) <=> p + 1 \in K
    <3>1. p \in First(t, kind, d, K) <=>
           \/ p \in DOMAIN t /\ t[p] = Closer(kind) /\ p + 1 \in K
           \/ p \in Before(ElementOf(t, kind, d), After(t, kind, d, K))
      BY <1>0, FirstIs
    <3>2. QED
      BY <2>5, <3>1
  <2>7. p \in After(t, kind, d, K) <=> p + 1 \in K
    <3>1. p \in After(t, kind, d, K) <=>
           /\ p \in DOMAIN t
           /\ \/ t[p] = Closer(kind) /\ p + 1 \in K
              \/ t[p] = "," /\ p + 1 \in Before(ElementOf(t, kind, d), After(t, kind, d, K))
      BY <1>0, <1>1a, AfterIs
    <3>2. t[p] # ","
      BY DEF Closer
    <3>3. QED
      BY <3>1, <3>2
  <2>8. CASE e = "first"
    <3>1. Len(x) - 1 = n /\ x[Len(x)] = kind /\ MaxDepth - Len(x) = d
      BY <1>1 DEF d
    <3>2. Live(t, h, p, x, e) <=> p \in First(t, x[Len(x)], MaxDepth - Len(x), h[Len(x) - 1])
      BY <2>8 DEF Live
    <3>3. QED
      BY <1>4, <2>2, <2>3, <2>6, <3>1, <3>2
  <2>9. CASE e = "separator"
    <3>1. Live(t, h, p, x, e) <=> p \in h[Len(x)]
      BY <2>9 DEF Live
    <3>2. QED
      BY <1>1, <1>4, <2>1, <2>2, <2>3, <2>7, <3>1
  <2>10. QED
    BY <2>8, <2>9
<1> HIDE DEF n, x
<1>5. ASSUME Leads(t, p, x, e) PROVE Leads(t, p + 1, o, Following(o))
  <2>1. PICK h : Rests(t, x, h) /\ Live(t, h, p, x, e)
    BY <1>5, Zenon DEF Leads
  <2>2. Rests(t, o, h)
    BY <1>2, <2>1
  <2>3. Live(t, h, p + 1, o, Following(o))
    BY <1>4, <2>1
  <2>4. QED
    BY <2>2, <2>3, Zenon DEF Leads
<1>6. ASSUME Leads(t, p + 1, o, Following(o)) PROVE Leads(t, p, x, e)
  <2>1. PICK c : Rests(t, o, c) /\ Live(t, c, p + 1, o, Following(o))
    BY <1>6, Zenon DEF Leads
  <2>2. PICK h : Rests(t, x, h) /\ h[n] = c[n]
    BY <1>3, <2>1
  <2>3. QED
    BY <1>4, <2>1, <2>2, Zenon DEF Leads
<1>7. QED
  BY <1>5, <1>6 DEF SameLead, x

\* The reader begins with a value and ends behind it.
LEMMA TextLeads ==
  ASSUME NEW t, Strip(t) \in Seq(Chars)
  PROVE  /\ IsText(t) <=> Leads(Strip(t), 1, <<>>, "value")
         /\ Leads(Strip(t), Len(Strip(t)) + 1, <<>>, "end")
         /\ \A p : Leads(Strip(t), p, <<>>, "accepted")
<1> DEFINE u == Strip(t)
<1>1. PICK c : c = [k \in Nat |-> {Len(u) + 1}]
  OBVIOUS
<1>2. Len(u) \in Nat /\ Len(<<>>) = 0 /\ MaxDepth \in Nat
  BY LenProperties, EmptySeq, DecoderAssumption
<1> HIDE DEF u
<1>3. Rests(u, <<>>, c)
  <2>1. 1 .. Len(<<>>) = {} /\ c \in [Nat -> SUBSET Nat] /\ c[0] = {Len(u) + 1}
    BY <1>1, <1>2
  <2>2. QED
    BY <2>1, Zenon DEF Rests
<1>4. ASSUME NEW h, Rests(u, <<>>, h)
      PROVE  Live(u, h, 1, <<>>, "value") <=> <<1, Len(u) + 1>> \in Values(u)[MaxDepth]
  <2>1. h[0] = {Len(u) + 1} /\ MaxDepth - 0 = MaxDepth
    BY <1>2, <1>4 DEF Rests
  <2>2. Live(u, h, 1, <<>>, "value") <=> 1 \in Before(Values(u)[MaxDepth], {Len(u) + 1})
    BY <1>2, <2>1 DEF Live
  <2>3. Values(u)[MaxDepth] \in Phrases(u)
    <3>1. DOMAIN u = 1 .. Len(u)
      BY LenProperties DEF u
    <3>2. ValuesAre(u, Values(u))
      BY <1>2, <3>1, ValuesFacts, Zenon
    <3>3. QED
      BY <1>2, <3>2 DEF ValuesAre
  <2>4. PICK V : V = Values(u)[MaxDepth]
    OBVIOUS
  <2>5. \A a \in V : a = <<a[1], a[2]>>
    BY <2>3, <2>4 DEF Phrases
  <2>6. 1 \in Before(V, {Len(u) + 1}) <=> <<1, Len(u) + 1>> \in V
    <3>1. 1 \in Before(V, {Len(u) + 1}) <=> \E a \in V : a[1] = 1 /\ a[2] \in {Len(u) + 1}
      BY BeforeIs
    <3>2. QED
      BY <2>5, <3>1
  <2>7. QED
    BY <2>2, <2>4, <2>6
<1>5. IsText(t) <=> Leads(u, 1, <<>>, "value")
  <2>1. IsText(t) <=> <<1, Len(u) + 1>> \in Values(u)[MaxDepth]
    BY DEF IsText, u
  <2>2. QED
    BY <1>3, <1>4, <2>1, Zenon DEF Leads
<1>6. Leads(u, Len(u) + 1, <<>>, "end")
  <2>1. Live(u, c, Len(u) + 1, <<>>, "end")
    BY <1>1, <1>2 DEF Live
  <2>2. QED
    BY <1>3, <2>1, Zenon DEF Leads
<1>7. ASSUME NEW p PROVE Leads(u, p, <<>>, "accepted")
  <2>1. Live(u, c, p, <<>>, "accepted")
    BY DEF Live
  <2>2. QED
    BY <1>3, <2>1, Zenon DEF Leads
<1>8. QED
  BY <1>5, <1>6, <1>7 DEF u

(***************************************************************************)
(* The text without its white space.                                       *)
(***************************************************************************)

\* The equations of the function that Kept defines.
KeptAre(t, k) ==
  /\ k \in [0 .. Len(t) -> Seq(Chars)]
  /\ k[0] = <<>>
  /\ \A i \in 1 .. Len(t) : k[i] = IF t[i] = " " THEN k[i - 1] ELSE Append(k[i - 1], t[i])

\* It satisfies them.
LEMMA KeptFacts ==
  ASSUME NEW t \in Seq(Chars)
  PROVE  KeptAre(t, Kept(t))
<1> DEFINE m == Len(t)
           D == Seq(Chars)
           more(i, w) == IF t[i] = " " THEN w ELSE Append(w, t[i])
           body(f) == [i \in 0 .. m |-> IF i = 0 THEN <<>> ELSE more(i, f[i - 1])]
           raw(f) == [i \in 0 .. m |-> IF i = 0 THEN <<>> ELSE IF t[i] = " " THEN f[i - 1]
                                       ELSE Append(f[i - 1], t[i])]
<1>1. Kept(t) = CHOOSE g : g = raw(g)
  BY Zenon DEF Kept
<1>2. \A f : raw(f) = body(f)
  OBVIOUS
<1>3. m \in Nat /\ \A i \in 1 .. m : t[i] \in Chars
  BY LenProperties, ElementOfSeq
<1>4. \A i \in 1 .. m : \A w \in D : more(i, w) \in D
  BY <1>3, AppendProperties
<1>5. PICK step : step = [p \in (1 .. m) \X D |-> more(p[1], p[2])]
  OBVIOUS
<1>6. <<>> \in D
  OBVIOUS
<1> HIDE DEF raw, more, D, m
<1>7. step \in [(1 .. m) \X D -> D]
  BY <1>4, <1>5
<1>8. PICK f : Iterated(f, m, D, <<>>, step)
  BY <1>3, <1>6, <1>7, Iterates, Zenon
<1>9. f \in [0 .. m -> D] /\ f[0] = <<>> /\ \A i \in 1 .. m : f[i] = more(i, f[i - 1])
  <2>1. f \in [0 .. m -> D] /\ f[0] = <<>> /\ \A i \in 1 .. m : f[i] = step[<<i, f[i - 1]>>]
    BY <1>8, Zenon DEF Iterated
  <2>2. \A i \in 1 .. m : f[i - 1] \in D
    BY <1>3, <2>1
  <2>3. QED
    BY <1>5, <2>1, <2>2
<1>10. f = body(f)
  <2>1. \A i \in 0 .. m : f[i] = body(f)[i]
    BY <1>3, <1>9
  <2>2. QED
    BY <1>9, <2>1
<1>11. PICK g : g = Kept(t)
  OBVIOUS
<1>12. g = body(g)
  <2>1. f = raw(f)
    BY <1>2, <1>10
  <2>2. g = raw(g)
    BY <1>1, <1>11, <2>1
  <2>3. QED
    BY <1>2, <2>2
<1>13. g[0] = <<>> /\ \A i \in 1 .. m : g[i] = more(i, g[i - 1])
  <2>1. \A i \in 0 .. m : g[i] = IF i = 0 THEN <<>> ELSE more(i, g[i - 1])
    BY <1>12
  <2>2. QED
    BY <1>3, <2>1
<1>14. \A i \in 0 .. m : i \in {j \in 0 .. m : g[j] \in D}
  <2> DEFINE S == {j \in 0 .. m : g[j] \in D}
  <2>1. 0 \in S
    BY <1>3, <1>6, <1>13
  <2>2. ASSUME NEW i \in 1 .. m, i - 1 \in S PROVE i \in S
    BY <1>3, <1>4, <1>13, <2>2
  <2> HIDE DEF S
  <2>3. QED
    BY <1>3, <2>1, <2>2, Reaches DEF S
<1>15. g \in [0 .. m -> D]
  <2>1. \A i \in 0 .. m : g[i] \in D
    BY <1>14
  <2>2. g = [i \in 0 .. m |-> g[i]]
    BY <1>12
  <2>3. QED
    BY <2>1, <2>2
<1>16. QED
  BY <1>11, <1>13, <1>15 DEF more, D, m, KeptAre

\* Behind a prefix of the text the characters kept of it stay.
LEMMA KeptPrefix ==
  ASSUME NEW t \in Seq(Chars), NEW i \in 0 .. Len(t)
  PROVE  /\ Kept(t)[i] \in Seq(Chars) /\ Strip(t) \in Seq(Chars)
         /\ Len(Kept(t)[i]) <= Len(Strip(t))
         /\ \A j \in 1 .. Len(Kept(t)[i]) : Strip(t)[j] = Kept(t)[i][j]
<1> DEFINE m == Len(t)
           Behind(w, x) == /\ Len(w) <= Len(x)
                           /\ \A j \in 1 .. Len(w) : x[j] = w[j]
<1>0. PICK k : k = Kept(t)
  OBVIOUS
<1>1. KeptAre(t, k)
  BY <1>0, KeptFacts
<1>2. m \in Nat /\ \A j \in 1 .. m : t[j] \in Chars
  BY LenProperties, ElementOfSeq
<1>3. /\ \A j \in 0 .. m : k[j] \in Seq(Chars)
      /\ \A j \in 1 .. m : k[j] = IF t[j] = " " THEN k[j - 1] ELSE Append(k[j - 1], t[j])
  BY <1>1, Zenon DEF KeptAre
<1>4. PICK w : w = k[i]
  OBVIOUS
<1>5. w \in Seq(Chars) /\ Len(w) \in Nat
  BY <1>3, <1>4, LenProperties
<1>5a. i \in 0 .. m /\ m - i \in Nat
  BY <1>2
<1>6. PICK g : g = [n \in 0 .. m - i |-> k[i + n]]
  OBVIOUS
<1> DEFINE S == {n \in 0 .. m - i : Behind(w, g[n])}
<1>7. 0 \in S
  <2>1. g[0] = w
    BY <1>4, <1>5a, <1>6
  <2>2. Behind(w, w)
    BY <1>5
  <2> HIDE DEF Behind, m
  <2>3. QED
    BY <1>5a, <2>1, <2>2
<1> HIDE DEF m, Behind
<1>8. ASSUME NEW n \in 1 .. m - i, n - 1 \in S PROVE n \in S
  <2>1. PICK j \in 1 .. m : j = i + n /\ j - 1 = i + (n - 1)
    BY <1>2, <1>5a
  <2>2. g[n] = k[j] /\ g[n - 1] = k[j - 1] /\ j - 1 \in 0 .. m
    BY <1>2, <1>5a, <1>6, <2>1
  <2>3. PICK x \in Seq(Chars) : x = k[j - 1]
    BY <1>3, <2>2
  <2>4. t[j] \in Chars /\ Behind(w, x)
    BY <1>2, <1>8, <2>2, <2>3
  <2>4a. k[j] = x \/ k[j] = Append(x, t[j])
    BY <1>3, <2>3
  <2>5. Behind(w, Append(x, t[j]))
    <3>1. /\ Len(Append(x, t[j])) = Len(x) + 1 /\ Len(x) \in Nat
          /\ \A q \in 1 .. Len(x) : Append(x, t[j])[q] = x[q]
      BY <2>4, AppendProperties, LenProperties
    <3>2. QED
      BY <1>5, <2>4, <3>1 DEF Behind
  <2>6. Behind(w, k[j])
    BY <2>4, <2>4a, <2>5, Zenon
  <2>7. QED
    BY <2>2, <2>6
<1> HIDE DEF S
<1>9. Behind(w, k[m]) /\ m \in 0 .. m
  <2>1. m - i \in S
    <3>1. PICK q \in Nat : q = m - i
      BY <1>5a
    <3>2. \A n \in 1 .. q : n - 1 \in S => n \in S
      BY <1>8, <3>1
    <3>3. \A n \in 0 .. q : n \in S
      BY <1>7, <3>2, Reaches
    <3>4. QED
      BY <3>1, <3>3
  <2>2. i + (m - i) = m /\ m \in 0 .. m
    BY <1>2, <1>5a
  <2>3. QED
    BY <1>5a, <1>6, <2>1, <2>2 DEF S
<1>10. QED
  BY <1>0, <1>3, <1>4, <1>5, <1>9 DEF Strip, m, Behind

\* The place in the text without white space of a place in the text.
Place(t, i) == Len(Kept(t)[i - 1]) + 1

\* The first place stays the first, and the place behind the text stays behind it.
LEMMA Places ==
  ASSUME NEW t \in Seq(Chars)
  PROVE  Strip(t) \in Seq(Chars) /\ Place(t, 1) = 1 /\ Place(t, Len(t) + 1) = Len(Strip(t)) + 1
<1>1. Len(t) \in Nat /\ Len(<<>>) = 0 /\ 0 \in 0 .. Len(t)
  BY LenProperties
<1>2. Kept(t)[0] = <<>>
  BY KeptFacts DEF KeptAre
<1>3. Place(t, 1) = 1
  <2>1. Kept(t)[1 - 1] = <<>>
    BY <1>2
  <2>2. QED
    BY <1>1, <2>1 DEF Place
<1>4. Strip(t) \in Seq(Chars)
  BY <1>1, KeptPrefix
<1>5. Place(t, Len(t) + 1) = Len(Strip(t)) + 1
  <2>1. Kept(t)[Len(t) + 1 - 1] = Kept(t)[Len(t)]
    BY <1>1
  <2>2. QED
    BY <2>1 DEF Place, Strip
<1>6. QED
  BY <1>3, <1>4, <1>5

\* The next place, behind white space or another character.
LEMMA NextPlace ==
  ASSUME NEW t \in Seq(Chars), NEW i \in 1 .. Len(t)
  PROVE  /\ Place(t, i) \in Nat
         /\ t[i] = " " => Place(t, i + 1) = Place(t, i)
         /\ t[i] # " " => /\ Place(t, i + 1) = Place(t, i) + 1
                          /\ Place(t, i) \in DOMAIN Strip(t)
                          /\ Strip(t)[Place(t, i)] = t[i]
                          /\ Kept(t)[i] = Append(Kept(t)[i - 1], t[i])
<1>1. Len(t) \in Nat /\ t[i] \in Chars
  BY LenProperties, ElementOfSeq
<1>2. PICK k : k = Kept(t)
  OBVIOUS
<1>3. /\ k[i - 1] \in Seq(Chars) /\ k[i] \in Seq(Chars)
      /\ k[i] = IF t[i] = " " THEN k[i - 1] ELSE Append(k[i - 1], t[i])
  <2>1. KeptAre(t, k)
    BY <1>2, KeptFacts
  <2>2. i - 1 \in 0 .. Len(t) /\ i \in 0 .. Len(t)
    BY <1>1
  <2>3. QED
    BY <2>1, <2>2 DEF KeptAre
<1>4. PICK w \in Seq(Chars) : w = k[i - 1]
  BY <1>3
<1>5. Place(t, i) = Len(w) + 1 /\ Len(w) \in Nat
  BY <1>2, <1>4, LenProperties DEF Place
<1>6. Place(t, i + 1) = Len(k[i]) + 1
  <2>1. i + 1 - 1 = i
    BY <1>1
  <2>2. QED
    BY <1>2, <2>1 DEF Place
<1>6a. Place(t, i) \in Nat
  BY <1>5
<1>7. CASE t[i] = " "
  <2>1. k[i] = w
    BY <1>3, <1>4, <1>7
  <2>2. Place(t, i + 1) = Place(t, i)
    BY <1>5, <1>6, <2>1
  <2>3. QED
    BY <1>6a, <1>7, <2>2, Zenon
<1>8. CASE t[i] # " "
  <2>1. k[i] = Append(w, t[i])
    BY <1>3, <1>4, <1>8
  <2>2. Len(Append(w, t[i])) = Len(w) + 1 /\ Append(w, t[i])[Len(w) + 1] = t[i]
    BY <1>1, AppendProperties
  <2>3. Place(t, i + 1) = Place(t, i) + 1
    BY <1>5, <1>6, <2>1, <2>2
  <2>4. /\ Strip(t) \in Seq(Chars) /\ Len(k[i]) <= Len(Strip(t))
        /\ \A j \in 1 .. Len(k[i]) : Strip(t)[j] = k[i][j]
    <3>1. i \in 0 .. Len(t)
      BY <1>1
    <3>2. QED
      BY <1>2, <3>1, KeptPrefix
  <2>5. Len(w) + 1 \in 1 .. Len(k[i]) /\ k[i][Len(w) + 1] = t[i]
    BY <1>5, <2>1, <2>2
  <2>6. Len(Strip(t)) \in Nat /\ DOMAIN Strip(t) = 1 .. Len(Strip(t)) /\ Len(k[i]) \in Nat
    BY <1>3, <2>4, LenProperties
  <2>7. Len(w) + 1 \in 1 .. Len(Strip(t)) /\ Strip(t)[Len(w) + 1] = t[i]
    BY <1>5, <2>4, <2>5, <2>6
  <2>8. Kept(t)[i] = Append(Kept(t)[i - 1], t[i])
    BY <1>2, <1>4, <2>1, Zenon
  <2>9. Place(t, i) \in DOMAIN Strip(t) /\ Strip(t)[Place(t, i)] = t[i]
    BY <1>5, <2>6, <2>7
  <2>10. QED
    BY <1>6a, <1>8, <2>3, <2>8, <2>9, Zenon
<1>9. QED
  BY <1>7, <1>8

(***************************************************************************)
(* The decoder follows the reader through the text.                        *)
(***************************************************************************)

\* The text can be completed from where the decoder is.
Going(p, o, e) == Leads(Strip(memory), p, o, e)
Completes == Going(Place(memory, start), KindsOf(stack), Expected)

\* The reader is where it may be.
LEMMA OpenedHere ==
  ASSUME Known, Clean
  PROVE  Opened(Strip(memory), KindsOf(stack), Expected)
<1>1. memory \in Seq(Chars) /\ stack \in Seq(Frames)
  BY DEF Known, Control, TypeOK
<1>2. Len(Strip(memory)) \in Nat /\ DOMAIN Strip(memory) = 1 .. Len(Strip(memory))
  BY <1>1, Places, LenProperties
<1>3. /\ KindsOf(stack) \in Seq({"array", "object"}) /\ Len(KindsOf(stack)) = Len(stack)
      /\ KindsOf(stack) = <<>> <=> stack = <<>>
      /\ stack # <<>> => KindsOf(stack)[Len(KindsOf(stack))] = Top.kind
  BY <1>1, KindsType DEF Top
<1>4. Len(stack) <= MaxDepth
  <2>1. pc = "return" => ret # 0
    BY ReaderSees
  <2>2. CASE stack = <<>>
    BY <1>1, <2>2, EmptySeq, DecoderAssumption
  <2>3. CASE stack # <<>>
    BY <2>1, <2>3 DEF Known, Control, Depth, Activations, TypeOK
  <2>4. QED
    BY <2>2, <2>3
<1>5. /\ Expected \in {"value", "first", "key", "colon", "separator", "end", "accepted"}
      /\ Expected \in {"first", "key", "separator"} => stack # <<>>
      /\ Expected = "key" => Top.kind = "object"
      /\ Expected = "end" => stack = <<>>
  <2>1. pc \in {"call", "any", "loop", "colon", "sep", "return", "skip", "tail", "binding", "done"}
    BY DEF Known, Control, TypeOK
  <2>2. /\ pc \in {"loop", "colon", "sep"} => stack # <<>>
        /\ pc \in {"call", "skip", "tail", "binding", "done"} => stack = <<>>
    BY DEF Known, Control, Activations
  <2>3. stack # <<>> => Top.kind \in {"array", "object"}
    BY <1>1, TopIsFrame DEF Frames
  <2>4. QED
    BY <2>1, <2>2, <2>3, ExpectedIs
<1>6. QED
  BY <1>2, <1>3, <1>4, <1>5, Zenon DEF Opened

\* What the next character is, and where reading it leads.
LEMMA NextCharacter ==
  ASSUME Known, Clean
  PROVE  /\ start \in Nat \ {0} /\ start <= Len(memory) + 1 /\ Len(memory) \in Nat
         /\ memory \in Seq(Chars)
         /\ Raw!Symbol # "NUL" => start \in 1 .. Len(memory) /\ Raw!Symbol = memory[start]
         /\ Raw!Symbol = "NUL" => start = Len(memory) + 1
<1>1. memory \in Seq(Chars) /\ start \in Nat \ {0} /\ errorStr = "none"
  BY DEF Known, Control, TypeOK, Clean
<1>2. Len(memory) \in Nat /\ DOMAIN memory = 1 .. Len(memory)
  BY <1>1, LenProperties
<1>3. start <= Len(memory) + 1
  BY <1>1 DEF Known, Reading, Position
<1>4. \A i \in 1 .. Len(memory) : memory[i] # "NUL"
  <2>1. "NUL" \notin Chars
    BY Zenon DEF Chars
  <2>2. \A i \in 1 .. Len(memory) : memory[i] \in Chars
    BY <1>1, ElementOfSeq
  <2>3. QED
    BY <2>1, <2>2
<1>5. QED
  BY <1>1, <1>2, <1>3, <1>4 DEF Raw!Symbol

\* A step that reads a character goes to the place behind it in the text.
LEMMA NextReads ==
  ASSUME Known, Clean, NEW characters, NEW containers, NEW next,
         Raw!Read(characters, containers, next), "NUL" \notin characters
  PROVE  /\ memory' = memory /\ KindsOf(stack)' = containers /\ Expected' = next
         /\ Raw!Symbol \in characters
         /\ Raw!Symbol = " " => Place(memory, start)' = Place(memory, start)
         /\ Raw!Symbol # " " =>
              /\ Place(memory, start) \in DOMAIN Strip(memory)
              /\ Strip(memory)[Place(memory, start)] = Raw!Symbol
              /\ Place(memory, start)' =
                 Place(memory, IF Raw!Symbol = "z" THEN start ELSE start + 1)
              /\ Place(memory, start + 1) = Place(memory, start) + 1
<1>1. /\ Raw!Symbol \in characters /\ Raw!Symbol # "NUL"
      /\ start' = IF Raw!Symbol = "z" THEN start ELSE start + 1
      /\ KindsOf(stack)' = containers /\ Expected' = next /\ memory' = memory
  BY Zenon DEF Raw!Read
<1>2. start \in 1 .. Len(memory) /\ Raw!Symbol = memory[start] /\ memory \in Seq(Chars)
  BY <1>1, NextCharacter
<1>3. Place(memory, start)' = Place(memory, start')
  BY <1>1 DEF Place, Kept
<1>4. QED
  BY <1>1, <1>2, <1>3, NextPlace

\* A sequence is its last element behind the others.
LEMMA LastOf ==
  ASSUME NEW S, NEW o \in Seq(S), o # <<>>
  PROVE  /\ SubSeq(o, 1, Len(o) - 1) \in Seq(S)
         /\ o[Len(o)] \in S
         /\ o = Append(SubSeq(o, 1, Len(o) - 1), o[Len(o)])
<1> DEFINE m == Len(o) - 1
           u == SubSeq(o, 1, m)
           k == o[Len(o)]
<1>1. Len(o) \in Nat /\ Len(o) # 0 /\ k \in S
  <2>1. Len(o) \in Nat /\ Len(o) # 0
    BY LenProperties, EmptySeq
  <2>2. QED
    BY <2>1, ElementOfSeq
<1>2. m \in Nat /\ Len(o) = m + 1 /\ \A i \in 1 .. m : o[i] \in S
  BY <1>1, ElementOfSeq
<1> HIDE DEF m
<1>3. u \in Seq(S) /\ Len(u) = m /\ \A i \in 1 .. m : u[i] = o[i]
  <2>1. /\ u \in Seq(S)
        /\ Len(u) = IF 1 <= m THEN m - 1 + 1 ELSE 0
        /\ \A i \in 1 .. m - 1 + 1 : u[i] = o[1 + i - 1]
    BY <1>2, SubSeqProperties
  <2>2. QED
    BY <1>2, <2>1
<1> HIDE DEF u, k
<1>4. /\ Append(u, k) \in Seq(S) /\ Len(Append(u, k)) = m + 1 /\ Append(u, k)[m + 1] = k
      /\ \A i \in 1 .. m : Append(u, k)[i] = u[i]
  BY <1>1, <1>3, AppendProperties
<1>5. \A i \in 1 .. m + 1 : Append(u, k)[i] = o[i]
  BY <1>2, <1>3, <1>4 DEF k
<1>6. o = Append(u, k)
  BY <1>2, <1>4, <1>5, SeqEqual
<1>7. QED
  BY <1>1, <1>3, <1>6 DEF u, k, m

\* No text goes on with a character that may not follow.
LEMMA NoSuchLead ==
  ASSUME NEW t, NEW o, NEW e, Opened(t, o, e), NEW p \in DOMAIN t, t[p] \in {"q", "x", "z", "j"},
         e # "accepted"
  PROVE  ~Leads(t, p, o, e)
<1>1. p # Len(t) + 1
  BY DEF Opened
<1>2. t[p] # Closer(o[Len(o)])
  BY Zenon DEF Closer
<1>3. t[p] \notin {"s", "n", "[", "{", ":", ","}
  BY Zenon
<1>4. ~Leading(t, p, o, e)
  BY <1>1, <1>2, <1>3, Zenon DEF Leading
<1>5. QED
  BY <1>4, LeadingCharacter, Zenon

\* Reading a character that may follow the text can be completed as before.
LEMMA ReadCompletes ==
  ASSUME Known, Clean, Reads
  PROVE  Completes' <=> Completes
<1> DEFINE t == Strip(memory)
           p == Place(memory, start)
           o == KindsOf(stack)
           e == Expected
<1>1. /\ Opened(t, o, e)
      /\ Completes <=> Leads(t, p, o, e)
  BY OpenedHere DEF Completes, Going
<1>2. ASSUME NEW q, NEW x, NEW f, memory' = memory, Place(memory, start)' = q,
             KindsOf(stack)' = x, Expected' = f
      PROVE  Completes' <=> Leads(t, q, x, f)
  BY <1>2 DEF Completes, Going, Strip, Kept
<1>3. ASSUME NEW characters, NEW x, NEW f, Raw!Read(characters, x, f),
             characters \intersect {"NUL", " ", "z"} = {}
      PROVE  /\ p \in DOMAIN t /\ t[p] \in characters
             /\ Completes' <=> Leads(t, p + 1, x, f)
  <2>1. "NUL" \notin characters /\ " " \notin characters /\ "z" \notin characters
    BY <1>3, Zenon
  <2>2. /\ memory' = memory /\ KindsOf(stack)' = x /\ Expected' = f
        /\ p \in DOMAIN t /\ t[p] \in characters /\ Place(memory, start)' = p + 1
    BY <1>3, <2>1, NextReads
  <2>3. QED
    BY <1>2, <2>2, Zenon
<1>4. /\ Raw!ValueExpected <=> TakesValue(o, e)
      /\ Raw!KeyExpected <=> TakesKey(o, e)
      /\ Raw!Inner = o[Len(o)] /\ Raw!Outer = SubSeq(o, 1, Len(o) - 1)
      /\ \A k : Raw!AfterValue(k) = Following(k)
  BY Zenon DEF Raw!ValueExpected, Raw!KeyExpected, Raw!Inner, Raw!Outer, Raw!AfterValue,
     TakesValue, TakesKey, Following
<1> HIDE DEF t, p, o, e
<1>5. /\ e \in {"first", "key", "separator"} => o # <<>>
      /\ o \in Seq({"array", "object"}) /\ DOMAIN t = 1 .. Len(t) /\ Len(t) \in Nat
  BY <1>1 DEF Opened
<1>6. CASE Raw!Skip
  <2>1. memory' = memory /\ KindsOf(stack)' = o /\ Expected' = e /\ Place(memory, start)' = p
    <3>1. "NUL" \notin {Raw!Blank} /\ Raw!Blank = " "
      BY Zenon DEF Raw!Blank
    <3>2. Raw!Read({Raw!Blank}, o, e)
      BY <1>6, Zenon DEF Raw!Skip, o, e
    <3>3. Raw!Symbol \in {Raw!Blank}
      BY <3>1, <3>2, NextReads
    <3>4. QED
      BY <3>1, <3>2, <3>3, NextReads DEF p
  <2>2. QED
    BY <1>1, <1>2, <2>1, Zenon
<1>7. CASE Raw!Scalar
  <2>1. TakesValue(o, e) /\ Raw!Read(Raw!ScalarStarts, o, Following(o))
    BY <1>4, <1>7, Zenon DEF Raw!Scalar, o
  <2>2. Raw!ScalarStarts = {"s", "n", "z"}
    BY DEF Raw!ScalarStarts
  <2>3. "NUL" \notin Raw!ScalarStarts
    BY <2>2, Zenon
  <2>4. /\ memory' = memory /\ KindsOf(stack)' = o /\ Expected' = Following(o)
        /\ p \in DOMAIN t /\ t[p] \in {"s", "n", "z"}
        /\ t[p] = "z" => Place(memory, start)' = p
        /\ t[p] # "z" => Place(memory, start)' = p + 1
    <3>1. Raw!Symbol \in Raw!ScalarStarts
      BY <2>1, <2>3, NextReads, Zenon
    <3>2. QED
      BY <2>1, <2>2, <2>3, <3>1, NextReads DEF p, t
  <2>5. CASE t[p] \in {"s", "n"}
    <3>1. SameLead(t, p, o, e, p + 1, o, Following(o))
      BY <1>1, <2>1, <2>4, <2>5, ScalarLeads
    <3>2. Place(memory, start)' = p + 1
      BY <2>4, <2>5
    <3>3. QED
      BY <1>1, <1>2, <2>4, <3>1, <3>2, Zenon DEF SameLead
  <2>6. CASE t[p] = "z"
    <3>1. ~Leads(t, p, o, e)
      <4>1. e # "accepted"
        BY <2>1 DEF TakesValue
      <4>2. QED
        BY <1>1, <2>4, <2>6, <4>1, NoSuchLead
    <3>2. ~Leads(t, p, o, Following(o))
      <4>1. Opened(t, o, Following(o)) /\ Following(o) # "accepted"
        BY <1>1 DEF Opened, Following
      <4>2. QED
        BY <2>4, <2>6, <4>1, NoSuchLead
    <3>3. QED
      BY <1>1, <1>2, <2>4, <2>6, <3>1, <3>2
  <2>7. QED
    BY <2>4, <2>5, <2>6
<1>a. ASSUME NEW kind \in {"array", "object"}, NEW c, Opens(kind, c), c \in {"[", "{"},
             TakesValue(o, e), Raw!Read({c} \intersect Raw!Openers, Append(o, kind), "first")
      PROVE  Completes' <=> Completes
  <2> DEFINE cs == {c} \intersect Raw!Openers
  <2>1. cs \intersect {"NUL", " ", "z"} = {}
    BY <1>a, Zenon
  <2>2. c \in Raw!Openers => Len(o) # MaxDepth
    <3>1. Len(o) \in Nat /\ MaxDepth \in Nat
      BY <1>5, LenProperties, DecoderAssumption
    <3>2. c \in Raw!Openers => Len(o) < MaxDepth
      BY Zenon DEF Raw!Openers, o
    <3>3. QED
      BY <3>1, <3>2
  <2> HIDE DEF cs
  <2>3. /\ p \in DOMAIN t /\ t[p] \in cs
        /\ Completes' <=> Leads(t, p + 1, Append(o, kind), "first")
    BY <1>3, <1>a, <2>1, Zenon DEF cs
  <2>4. t[p] = c /\ c \in Raw!Openers
    BY <2>3, Zenon DEF cs
  <2>5. SameLead(t, p, o, e, p + 1, Append(o, kind), "first")
    BY <1>1, <1>5, <1>a, <2>2, <2>3, <2>4, OpenLeads, Zenon
  <2>6. QED
    BY <1>1, <2>3, <2>5, Zenon DEF SameLead
<1>8. CASE Raw!OpenArray
  <2>1. Opens("array", "[")
    BY DEF Opens
  <2>2. TakesValue(o, e) /\ Raw!Read({"["} \intersect Raw!Openers, Append(o, "array"), "first")
    BY <1>4, <1>8, Zenon DEF Raw!OpenArray, o
  <2>3. QED
    BY <1>a, <2>1, <2>2, Zenon
<1>9. CASE Raw!OpenObject
  <2>1. Opens("object", "{")
    BY DEF Opens
  <2>2. TakesValue(o, e) /\ Raw!Read({"{"} \intersect Raw!Openers, Append(o, "object"), "first")
    BY <1>4, <1>9, Zenon DEF Raw!OpenObject, o
  <2>3. QED
    BY <1>a, <2>1, <2>2, Zenon
<1>10. CASE Raw!Key
  <2>1. TakesKey(o, e) /\ Raw!Read({"s"}, o, "colon")
    BY <1>4, <1>10, Zenon DEF Raw!Key, o
  <2>2. {"s"} \intersect {"NUL", " ", "z"} = {}
    BY Zenon
  <2>3. /\ p \in DOMAIN t /\ t[p] = "s"
        /\ Completes' <=> Leads(t, p + 1, o, "colon")
    BY <1>3, <2>1, <2>2
  <2>4. SameLead(t, p, o, e, p + 1, o, "colon")
    BY <1>1, <2>1, <2>3, KeyLeads
  <2>5. QED
    BY <1>1, <2>3, <2>4, Zenon DEF SameLead
<1>11. CASE Raw!Colon
  <2>1. e = "colon" /\ Raw!Read({":"}, o, "value")
    BY <1>11, Zenon DEF Raw!Colon, o, e
  <2>2. {":"} \intersect {"NUL", " ", "z"} = {}
    BY Zenon
  <2>3. /\ p \in DOMAIN t /\ t[p] = ":"
        /\ Completes' <=> Leads(t, p + 1, o, "value")
    BY <1>3, <2>1, <2>2
  <2>4. SameLead(t, p, o, e, p + 1, o, "value")
    BY <1>1, <2>1, <2>3, ColonLeads
  <2>5. QED
    BY <1>1, <2>3, <2>4, Zenon DEF SameLead
<1>12. CASE Raw!Comma
  <2> DEFINE f == IF o[Len(o)] = "array" THEN "value" ELSE "key"
  <2>1. e = "separator" /\ Raw!Read({","}, o, f)
    BY <1>4, <1>12, Zenon DEF Raw!Comma, o, e
  <2>2. {","} \intersect {"NUL", " ", "z"} = {}
    BY Zenon
  <2> HIDE DEF f
  <2>3. /\ p \in DOMAIN t /\ t[p] = ","
        /\ Completes' <=> Leads(t, p + 1, o, f)
    BY <1>3, <2>1, <2>2
  <2>4. SameLead(t, p, o, e, p + 1, o, f)
    BY <1>1, <2>1, <2>3, CommaLeads, Zenon DEF f
  <2>5. QED
    BY <1>1, <2>3, <2>4, Zenon DEF SameLead
<1>13. CASE Raw!Close
  <2> DEFINE u == SubSeq(o, 1, Len(o) - 1)
             kind == o[Len(o)]
  <2>1. /\ e \in {"first", "separator"}
        /\ Raw!Read({Raw!CloserOf}, u, Following(u))
    BY <1>4, <1>13, Zenon DEF Raw!Close, o, e
  <2>2. u \in Seq({"array", "object"}) /\ kind \in {"array", "object"} /\ o = Append(u, kind)
    BY <1>5, <2>1, LastOf
  <2>3. Raw!CloserOf = Closer(kind)
    BY <1>4, Zenon DEF Raw!CloserOf, Closer
  <2>4. {Closer(kind)} \intersect {"NUL", " ", "z"} = {}
    BY Zenon DEF Closer
  <2> HIDE DEF u, kind
  <2>5. /\ p \in DOMAIN t /\ t[p] = Closer(kind)
        /\ Completes' <=> Leads(t, p + 1, u, Following(u))
    BY <1>3, <2>1, <2>3, <2>4
  <2>6. SameLead(t, p, Append(u, kind), e, p + 1, u, Following(u))
    BY <1>1, <2>1, <2>2, <2>5, CloseLeads, Zenon
  <2>7. QED
    BY <1>1, <2>2, <2>5, <2>6, Zenon DEF SameLead
<1>14. CASE Raw!Accept
  <2>1. /\ e = "end" /\ start = Len(memory) + 1
        /\ memory' = memory /\ start' = start /\ KindsOf(stack)' = o /\ Expected' = "accepted"
    BY <1>14 DEF Raw!Accept, Raw!AtEnd, o, e
  <2>2. o = <<>> /\ Place(memory, start)' = p
    BY <1>1, <2>1 DEF Opened, p, Place, Kept
  <2>3. memory \in Seq(Chars)
    BY NextCharacter
  <2>4. p = Len(t) + 1 /\ t \in Seq(Chars)
    BY <2>1, <2>3, Places DEF p, t
  <2>5. Leads(t, p, o, e) /\ Leads(t, p, o, "accepted")
    BY <2>1, <2>2, <2>4, TextLeads DEF t
  <2>6. QED
    BY <1>1, <1>2, <2>1, <2>2, <2>5, Zenon
<1>15. CASE UNCHANGED Raw!textVars
  <2>1. memory' = memory /\ start' = start /\ KindsOf(stack)' = o /\ Expected' = e
    BY <1>15 DEF Raw!textVars, o, e
  <2>2. Place(memory, start)' = p
    BY <2>1 DEF p, Place, Kept
  <2>3. QED
    BY <1>1, <1>2, <2>1, <2>2, Zenon
<1>16. QED
  BY <1>6, <1>7, <1>8, <1>9, <1>10, <1>11, <1>12, <1>13, <1>14, <1>15, Zenon DEF Reads

\* At a character that may not follow the text cannot be completed.
LEMMA RefusesAll ==
  ASSUME Known, Clean, Refuses
  PROVE  ~Completes
<1> DEFINE t == Strip(memory)
           p == Place(memory, start)
           o == KindsOf(stack)
           e == Expected
<1>1. /\ Opened(t, o, e) /\ e # "accepted" /\ ~Raw!AtEnd /\ Raw!Symbol \notin Raw!Legal
      /\ Completes <=> Leads(t, p, o, e)
  BY OpenedHere, Zenon DEF Completes, Going, Refuses, Raw!Reading
<1>2. Raw!Symbol # " "
  BY <1>1, Zenon DEF Raw!Legal, Raw!Blank
<1>3. /\ start = Len(memory) + 1 \/ start \in 1 .. Len(memory)
      /\ memory \in Seq(Chars)
  BY NextCharacter
<1>4. Len(t) \in Nat /\ DOMAIN t = 1 .. Len(t)
  BY <1>1 DEF Opened
<1>5. start = Len(memory) + 1 => e # "end" /\ p \notin DOMAIN t
  <2>1. start = Len(memory) + 1 => p = Len(t) + 1
    BY <1>3, Places
  <2>2. QED
    BY <1>1, <1>4, <2>1 DEF Raw!AtEnd
<1>6. ASSUME start \in 1 .. Len(memory) PROVE p \in DOMAIN t /\ t[p] = Raw!Symbol
  <2>1. Len(memory) \in Nat
    BY NextCharacter
  <2>2. start # Len(memory) + 1
    BY <1>6, <2>1
  <2>3. Raw!Symbol = memory[start]
    BY <2>2, NextCharacter
  <2>4. QED
    BY <1>2, <1>3, <1>6, <2>3, NextPlace
<1>7. /\ Raw!ValueExpected <=> TakesValue(o, e)
      /\ Raw!KeyExpected <=> TakesKey(o, e)
      /\ Raw!CloserOf = Closer(o[Len(o)])
      /\ Len(o) < MaxDepth => Raw!Openers = {"[", "{"}
  BY Zenon DEF Raw!ValueExpected, Raw!KeyExpected, Raw!Inner, TakesValue, TakesKey, Raw!CloserOf,
     Closer, Raw!Openers
<1>8. /\ TakesValue(o, e) => Raw!Symbol \notin {"s", "n"}
      /\ TakesValue(o, e) /\ Len(o) < MaxDepth => Raw!Symbol \notin {"[", "{"}
      /\ TakesKey(o, e) => Raw!Symbol # "s"
      /\ e = "colon" => Raw!Symbol # ":"
      /\ e = "separator" => Raw!Symbol # ","
      /\ e \in {"first", "separator"} => Raw!Symbol # Closer(o[Len(o)])
  BY <1>1, <1>7, Zenon DEF Raw!Legal, Raw!ScalarStarts
<1>9. p \in DOMAIN t => p # Len(t) + 1
  BY <1>4
<1> HIDE DEF t, p, o, e
<1>10. ~Leading(t, p, o, e)
  BY <1>3, <1>5, <1>6, <1>8, <1>9, Zenon DEF Leading
<1>11. QED
  BY <1>1, <1>10, LeadingCharacter, Zenon

\* A clean decoder has a text to complete exactly when its argument is one; what
\* it rejected is none.
Judged ==
  \/ Clean /\ (IsText(memory) <=> Completes)
  \/ Rejected /\ ~IsText(memory)
  \/ Failed

\* Nothing has been judged when loads is called.
LEMMA JudgedInit == Init => Judged
<1> SUFFICES ASSUME Init PROVE Judged
  OBVIOUS
<1>1. /\ memory \in Seq(Chars) /\ start = 1 /\ stack = <<>> /\ pc = "call" /\ errorStr = "none"
  BY DecoderAssumption DEF Init
<1>2. Clean
  <2>1. DOMAIN stack = {}
    BY <1>1
  <2>2. QED
    BY <1>1, <2>1, Zenon DEF Clean, Null, Doomed
<1>3. Completes <=> Leads(Strip(memory), 1, <<>>, "value")
  <2>1. KindsOf(stack) = <<>>
    BY <1>1, KindsType, EmptySeq
  <2>2. Place(memory, start) = 1 /\ Expected = "value"
    BY <1>1, Places, ExpectedIs
  <2>3. QED
    BY <2>1, <2>2, Zenon DEF Completes, Going
<1>4. QED
  BY <1>1, <1>2, <1>3, Places, TextLeads DEF Judged

\* What was given up stays given up.
LEMMA FailedStays == Failed /\ Next => Failed'
<1> SUFFICES ASSUME Failed, Next PROVE Failed'
  OBVIOUS
<1>1. ret = 0 /\ pc \in {"return", "skip", "tail", "binding", "done"} /\ errorStr \in {"none", "memory"}
  BY DEF Failed, Null
<1>2. SkipWhitespace \/ Unwind \/ FreeEscapes \/ CheckTrailing \/ ReturnToPython
  BY <1>1, Zenon DEF Next, Element, Loop, Finish, RejectArgument, StartDecoding,
     DecodeString, DecodeScalar, RejectValue, DecodeArray, DecodeObject, Decode,
     CloseAtHead, NextElement, AddItem, TakeKey, ExpectColon, AddKey, Separator, Returned
<1>3. ret' = 0 /\ errorStr' = errorStr /\ pc' \in {"return", "skip", "tail", "binding", "done"}
  <2>1. CASE SkipWhitespace
    BY <1>1, <2>1 DEF SkipWhitespace
  <2>2. CASE Unwind
    BY <1>1, <2>2 DEF Unwind
  <2>3. CASE FreeEscapes
    BY <1>1, <2>3 DEF FreeEscapes, dsVars
  <2>4. CASE CheckTrailing
    BY <1>1, <2>4 DEF CheckTrailing
  <2>5. CASE ReturnToPython
    BY <1>1, <2>5 DEF ReturnToPython
  <2>6. QED
    BY <1>2, <2>1, <2>2, <2>3, <2>4, <2>5
<1>4. QED
  BY <1>1, <1>3 DEF Failed, Null

\* The memory of a call is never written.
LEMMA SameMemory == [Next]_vars => memory' = memory
BY Zenon DEF Next, Element, Loop, Finish, RejectArgument, StartDecoding, SkipWhitespace,
   DecodeString, DecodeScalar, RejectValue, DecodeArray, DecodeObject, Enter,
   CloseAtHead, NextElement, Unwind, AddItem, TakeKey, ExpectColon, AddKey, Separator,
   FreeEscapes, CheckTrailing, ReturnToPython, vars

\* It stays a text, or none.
LEMMA SameText == [Next]_vars => (IsText(memory)' <=> IsText(memory))
<1> SUFFICES ASSUME [Next]_vars PROVE IsText(memory)' <=> IsText(memory)
  OBVIOUS
<1>1. memory' = memory
  BY SameMemory
<1>2. QED
  BY <1>1 DEF IsText, Strip, Kept, Values, Enclosed, Member, Lists, Then, Token

\* The decoder judges as the grammar does.
LEMMA JudgedStep == Known /\ Known' /\ Judged /\ [Next]_vars => Judged'
<1> SUFFICES ASSUME Known, Known', Judged, [Next]_vars PROVE Judged'
  OBVIOUS
<1>0. IsText(memory)' <=> IsText(memory)
  BY SameText
<1>1. CASE UNCHANGED vars
  <2>1. UNCHANGED <<argKind, memory, pc, start, stack, ret, errorStr, heap, pyErr>>
    BY <1>1 DEF vars, dsVars
  <2>2. /\ Rejected' <=> Rejected
        /\ Clean' <=> Clean
        /\ Failed' <=> Failed
    BY <2>1 DEF Rejected, Doomed, BadKeyAt, Clean, Failed, Null
  <2>3. Completes' <=> Completes
    BY <2>1 DEF Completes, Going, Place, Strip, Kept, KindsOf, Expected, Top
  <2>4. QED
    BY <1>0, <2>2, <2>3, Zenon DEF Judged
<1>2. CASE Next /\ Clean /\ (IsText(memory) <=> Completes)
  <2>1. StepsClean
    BY <1>2, CleanStep
  <2>2. CASE GoesOn
    <3>1. Completes' <=> Completes
      BY <1>2, <2>2, ReadCompletes, Zenon DEF GoesOn
    <3>2. QED
      BY <1>0, <1>2, <2>2, <3>1, Zenon DEF Judged, GoesOn
  <2>3. CASE GivesUp
    BY <2>3, Zenon DEF Judged, GivesUp
  <2>4. CASE Rejects
    <3>1. ~Completes
      BY <1>2, <2>4, RefusesAll, Zenon DEF Rejects
    <3>2. QED
      BY <1>0, <1>2, <2>4, <3>1, Zenon DEF Judged, Rejects
  <2>5. QED
    BY <2>1, <2>2, <2>3, <2>4, Zenon DEF StepsClean
<1>3. CASE Next /\ Rejected /\ ~IsText(memory)
  <2>1. Rejected'
    BY <1>3, RejectedStays DEF Known
  <2>2. QED
    BY <1>0, <1>3, <2>1, Zenon DEF Judged
<1>4. CASE Next /\ Failed
  BY <1>4, FailedStays, Zenon DEF Judged
<1>5. QED
  BY <1>1, <1>2, <1>3, <1>4, Zenon DEF Judged

\* A call that judged its argument returns an object exactly for a text.
LEMMA JudgedRight ==
  ASSUME Known, Judged, pc = "done", pyErr # "none" => errorStr \notin {"none", "memory"}
  PROVE  ret # 0 <=> IsText(memory)
<1>1. /\ ret = 0 <=> pyErr # "none"
      /\ errorStr # "none" => ret = 0
      /\ stack = <<>>
  BY DEF Known, Control, Outcome, ErrorIsNull, Activations
<1>2. CASE ret = 0
  <2>1. ~Clean /\ ~Failed
    BY <1>1, <1>2, Zenon DEF Clean, Failed, Null
  <2>2. QED
    BY <1>2, <2>1, Zenon DEF Judged
<1>3. CASE ret # 0
  <2>1. ~Doomed /\ ~Rejected /\ ~Failed
    <3>1. ~Doomed
      BY <1>1 DEF Doomed
    <3>2. QED
      BY <1>1, <1>3, <3>1, Zenon DEF Rejected, Failed, Null
  <2>2. Clean /\ (IsText(memory) <=> Completes)
    BY <2>1, Zenon DEF Judged
  <2>3. Completes
    <3>1. memory \in Seq(Chars) /\ KindsOf(stack) = <<>> /\ Expected = "accepted"
      BY <1>1, ExpectedIs, KindsType, EmptySeq DEF Known, Control, TypeOK
    <3>2. QED
      BY <3>1, Places, TextLeads, Zenon DEF Completes, Going
  <2>4. QED
    BY <1>3, <2>2, <2>3
<1>4. QED
  BY <1>2, <1>3

(***************************************************************************)
(* The text of an object, from the places where its parts lie.             *)
(***************************************************************************)

\* What stands before an item behind the first.
Between(kind, i) ==
  IF i = 1 THEN <<>> ELSE IF kind = "dict" /\ i % 2 = 0 THEN <<":">> ELSE <<",">>

\* The equations of the function that Items defines.
ItemsAre(h, o, x, g) ==
  /\ g \in [0 .. Len(h[o].kids) -> Seq(Chars)]
  /\ g[0] = <<>>
  /\ \A i \in 1 .. Len(h[o].kids) :
       g[i] = (g[i - 1] \o Between(h[o].kind, i)) \o x[h[o].kids[i]]

\* What stands between items is a text.
LEMMA BetweenType == \A kind, i : Between(kind, i) \in Seq(Chars)
<1>1. ":" \in Chars /\ "," \in Chars
  BY Zenon DEF Chars
<1>2. <<>> \in Seq(Chars) /\ <<":">> \in Seq(Chars) /\ <<",">> \in Seq(Chars)
  BY <1>1, Singleton, EmptySeq
<1>3. QED
  BY <1>2, Zenon DEF Between

\* The function satisfies them where the texts of the items are texts.
LEMMA ItemsFacts ==
  ASSUME NEW h, NEW o, NEW x, Len(h[o].kids) \in Nat,
         \A i \in 1 .. Len(h[o].kids) : x[h[o].kids[i]] \in Seq(Chars)
  PROVE  ItemsAre(h, o, x, Items(h, o, x))
<1> DEFINE m == Len(h[o].kids)
           D == Seq(Chars)
           more(i, w) == (w \o Between(h[o].kind, i)) \o x[h[o].kids[i]]
           body(f) == [i \in 0 .. m |-> IF i = 0 THEN <<>> ELSE more(i, f[i - 1])]
           raw(f) == [i \in 0 .. m |->
                        IF i = 0 THEN <<>>
                        ELSE f[i - 1]
                             \o (IF i = 1 THEN <<>>
                                 ELSE IF h[o].kind = "dict" /\ i % 2 = 0 THEN <<":">> ELSE <<",">>)
                             \o x[h[o].kids[i]]]
<1>1. Items(h, o, x) = CHOOSE g : g = raw(g)
  BY Zenon DEF Items
<1>2. \A f : raw(f) = body(f)
  BY Zenon DEF Between
<1>3. m \in Nat /\ \A i \in 1 .. m : x[h[o].kids[i]] \in D
  OBVIOUS
<1>4. \A i \in 1 .. m : \A w \in D : more(i, w) \in D
  BY <1>3, BetweenType, ConcatProperties
<1>5. PICK step : step = [p \in (1 .. m) \X D |-> more(p[1], p[2])]
  OBVIOUS
<1>6. <<>> \in D
  BY EmptySeq
<1> HIDE DEF raw, more, D, m
<1>7. step \in [(1 .. m) \X D -> D]
  BY <1>4, <1>5
<1>8. PICK f : Iterated(f, m, D, <<>>, step)
  BY <1>3, <1>6, <1>7, Iterates, Zenon
<1>9. f \in [0 .. m -> D] /\ f[0] = <<>> /\ \A i \in 1 .. m : f[i] = more(i, f[i - 1])
  <2>1. f \in [0 .. m -> D] /\ f[0] = <<>> /\ \A i \in 1 .. m : f[i] = step[<<i, f[i - 1]>>]
    BY <1>8, Zenon DEF Iterated
  <2>2. \A i \in 1 .. m : f[i - 1] \in D
    BY <1>3, <2>1
  <2>3. QED
    BY <1>5, <2>1, <2>2
<1>10. f = body(f)
  <2>1. \A i \in 0 .. m : f[i] = body(f)[i]
    BY <1>3, <1>9
  <2>2. QED
    BY <1>9, <2>1
<1>11. PICK g : g = Items(h, o, x)
  OBVIOUS
<1>12. g = body(g)
  <2>1. f = raw(f)
    BY <1>2, <1>10
  <2>2. g = raw(g)
    BY <1>1, <1>11, <2>1
  <2>3. QED
    BY <1>2, <2>2
<1>13. g[0] = <<>> /\ \A i \in 1 .. m : g[i] = more(i, g[i - 1])
  <2>1. \A i \in 0 .. m : g[i] = IF i = 0 THEN <<>> ELSE more(i, g[i - 1])
    BY <1>12
  <2>2. QED
    BY <1>3, <2>1
<1>14. \A i \in 0 .. m : i \in {j \in 0 .. m : g[j] \in D}
  <2> DEFINE S == {j \in 0 .. m : g[j] \in D}
  <2>1. 0 \in S
    BY <1>3, <1>6, <1>13
  <2>2. ASSUME NEW i \in 1 .. m, i - 1 \in S PROVE i \in S
    BY <1>3, <1>4, <1>13, <2>2
  <2> HIDE DEF S
  <2>3. QED
    BY <1>3, <2>1, <2>2, Reaches DEF S
<1>15. g \in [0 .. m -> D]
  <2>1. \A i \in 0 .. m : g[i] \in D
    BY <1>14
  <2>2. g = [i \in 0 .. m |-> g[i]]
    BY <1>12
  <2>3. QED
    BY <2>1, <2>2
<1>16. QED
  BY <1>11, <1>13, <1>15, Zenon DEF more, D, m, ItemsAre

\* The text of an object is a text where those of its items are.
LEMMA ObjectTextType ==
  ASSUME NEW h, NEW o, NEW x, Len(h[o].kids) \in Nat, h[o].kind \in Kinds,
         \A i \in 1 .. Len(h[o].kids) : x[h[o].kids[i]] \in Seq(Chars)
  PROVE  ObjectText(h, o, x) \in Seq(Chars)
<1>1. \A c \in {"s", "n", "[", "]", "{", "}"} : <<c>> \in Seq(Chars)
  <2>1. \A c \in {"s", "n", "[", "]", "{", "}"} : c \in Chars
    BY Zenon DEF Chars
  <2>2. QED
    BY <2>1, Singleton
<1>2. PICK w : w = Items(h, o, x)[Len(h[o].kids)]
  OBVIOUS
<1>3. w \in Seq(Chars)
  <2>1. PICK g : g = Items(h, o, x)
    OBVIOUS
  <2>2. ItemsAre(h, o, x, g)
    BY <2>1, ItemsFacts
  <2>3. QED
    BY <1>2, <2>1, <2>2 DEF ItemsAre
<1>4. /\ (<<"[">> \o w) \o <<"]">> \in Seq(Chars)
      /\ (<<"{">> \o w) \o <<"}">> \in Seq(Chars)
  BY <1>1, <1>3, ConcatProperties
<1>5. CASE h[o].kind = "str"
  BY <1>1, <1>5 DEF ObjectText
<1>6. CASE h[o].kind = "other"
  <2>1. ObjectText(h, o, x) = <<"n">>
    BY <1>6 DEF ObjectText
  <2>2. QED
    BY <1>1, <2>1
<1>7. CASE h[o].kind = "list"
  <2>1. ObjectText(h, o, x) = (<<"[">> \o w) \o <<"]">>
    BY <1>2, <1>7 DEF ObjectText
  <2>2. QED
    BY <1>4, <2>1
<1>8. CASE h[o].kind = "dict"
  <2>1. ObjectText(h, o, x) = (<<"{">> \o w) \o <<"}">>
    BY <1>2, <1>8 DEF ObjectText
  <2>2. QED
    BY <1>4, <2>1
<1>9. QED
  BY <1>5, <1>6, <1>7, <1>8 DEF Kinds

\* The contents of every object are objects.
Contained(h) == \A o \in 1 .. Len(h) : \A i \in 1 .. Len(h[o].kids) : h[o].kids[i] \in 1 .. Len(h)

\* The equations of the function that Rendered defines.
RenderedAre(h, g) ==
  /\ g \in [0 .. Len(h) -> [1 .. Len(h) -> Seq(Chars)]]
  /\ \A n \in 1 .. Len(h) : \A o \in 1 .. Len(h) : g[n][o] = ObjectText(h, o, g[n - 1])

\* It satisfies them.
LEMMA RenderedFacts ==
  ASSUME NEW h \in Seq(Objects), Contained(h)
  PROVE  RenderedAre(h, Rendered(h))
<1> DEFINE m == Len(h)
           D == [1 .. m -> Seq(Chars)]
           more(x) == [o \in 1 .. m |-> ObjectText(h, o, x)]
           none == [o \in 1 .. m |-> <<>>]
           body(f) == [n \in 0 .. m |-> IF n = 0 THEN none ELSE more(f[n - 1])]
           raw(f) == [n \in 0 .. m |->
                        [o \in DOMAIN h |-> IF n = 0 THEN <<>> ELSE ObjectText(h, o, f[n - 1])]]
<1>1. Rendered(h) = CHOOSE g : g = raw(g)
  BY Zenon DEF Rendered
<1>2. \A f : raw(f) = body(f)
  <2>1. DOMAIN h = 1 .. m
    BY LenProperties
  <2> HIDE DEF m
  <2>2. QED
    BY <2>1
<1>3. m \in Nat
  BY LenProperties
<1>4. \A x \in D : more(x) \in D
  <2> SUFFICES ASSUME NEW x \in D, NEW o \in 1 .. m PROVE ObjectText(h, o, x) \in Seq(Chars)
    OBVIOUS
  <2>1. h[o] \in Objects
    BY ElementOfSeq
  <2>2. h[o].kind \in Kinds /\ Len(h[o].kids) \in Nat
    BY <2>1, LenProperties DEF Objects
  <2>3. \A i \in 1 .. Len(h[o].kids) : x[h[o].kids[i]] \in Seq(Chars)
    BY DEF Contained
  <2>4. QED
    BY <2>2, <2>3, ObjectTextType
<1>5. PICK step : step = [p \in (1 .. m) \X D |-> more(p[2])]
  OBVIOUS
<1>6. none \in D
  BY EmptySeq
<1> HIDE DEF raw, more, D, m, none
<1>7. step \in [(1 .. m) \X D -> D]
  BY <1>4, <1>5
<1>8. PICK f : Iterated(f, m, D, none, step)
  BY <1>3, <1>6, <1>7, Iterates, Zenon
<1>9. f \in [0 .. m -> D] /\ f[0] = none /\ \A n \in 1 .. m : f[n] = more(f[n - 1])
  <2>1. f \in [0 .. m -> D] /\ f[0] = none /\ \A n \in 1 .. m : f[n] = step[<<n, f[n - 1]>>]
    BY <1>8, Zenon DEF Iterated
  <2>2. \A n \in 1 .. m : f[n - 1] \in D
    BY <1>3, <2>1
  <2>3. QED
    BY <1>5, <2>1, <2>2
<1>10. f = body(f)
  <2>1. \A n \in 0 .. m : f[n] = body(f)[n]
    BY <1>3, <1>9
  <2>2. QED
    BY <1>9, <2>1
<1>11. PICK g : g = Rendered(h)
  OBVIOUS
<1>12. g = body(g)
  <2>1. f = raw(f)
    BY <1>2, <1>10
  <2>2. g = raw(g)
    BY <1>1, <1>11, <2>1
  <2>3. QED
    BY <1>2, <2>2
<1>13. g[0] = none /\ \A n \in 1 .. m : g[n] = more(g[n - 1])
  <2>1. \A n \in 0 .. m : g[n] = IF n = 0 THEN none ELSE more(g[n - 1])
    BY <1>12
  <2>2. QED
    BY <1>3, <2>1
<1>14. \A n \in 0 .. m : n \in {j \in 0 .. m : g[j] \in D}
  <2> DEFINE S == {j \in 0 .. m : g[j] \in D}
  <2>1. 0 \in S
    BY <1>3, <1>6, <1>13
  <2>2. ASSUME NEW n \in 1 .. m, n - 1 \in S PROVE n \in S
    BY <1>3, <1>4, <1>13, <2>2
  <2> HIDE DEF S
  <2>3. QED
    BY <1>3, <2>1, <2>2, Reaches DEF S
<1>15. g \in [0 .. m -> D]
  <2>1. \A n \in 0 .. m : g[n] \in D
    BY <1>14
  <2>2. g = [n \in 0 .. m |-> g[n]]
    BY <1>12
  <2>3. QED
    BY <2>1, <2>2
<1>16. \A n \in 1 .. m : \A o \in 1 .. m : g[n][o] = ObjectText(h, o, g[n - 1])
  BY <1>13 DEF more
<1>17. QED
  BY <1>11, <1>15, <1>16, Zenon DEF D, m, RenderedAre

\* The character before an item of a container, and the one behind the last.
Mark(kind, i) ==
  IF i = 1 THEN IF kind = "dict" THEN "{" ELSE "["
  ELSE IF kind = "dict" /\ i % 2 = 0 THEN ":" ELSE ","
Shut(kind) == IF kind = "dict" THEN "}" ELSE "]"

\* Where an object begins is a[o], and what is behind it is at b[o].  This is the
\* place behind the first i items of a container, or of its opening bracket.
Ends(h, a, b, o, i) == IF i = 0 THEN a[o] ELSE b[h[o].kids[i]]

\* The items of a container lie in the text t one behind the other.
Item(h, t, a, b, o, i) ==
  /\ h[o].kids[i] \in o + 1 .. Len(h)
  /\ t[Ends(h, a, b, o, i - 1)] = Mark(h[o].kind, i)
  /\ a[h[o].kids[i]] = Ends(h, a, b, o, i - 1) + 1
Laid(h, t, a, b, o) == \A i \in 1 .. Len(h[o].kids) : Item(h, t, a, b, o, i)

\* An object lies in the text t.
Within(t, a, b, o) == a[o] \in 1 .. Len(t) /\ b[o] \in a[o] + 1 .. Len(t) + 1

\* It is the whole text of a scalar, or the brackets of a container with its items.
Spans(h, t, a, b, o) ==
  /\ Within(t, a, b, o)
  /\ h[o].kind = "str" => b[o] = a[o] + 1 /\ t[a[o]] = "s"
  /\ h[o].kind = "other" => b[o] = a[o] + 1 /\ t[a[o]] = "n"
  /\ h[o].kind \in {"list", "dict"} =>
       /\ t[a[o]] = Mark(h[o].kind, 1)
       /\ t[b[o] - 1] = Shut(h[o].kind)
       /\ b[o] = 1 + IF Len(h[o].kids) = 0 THEN a[o] + 1
                     ELSE Ends(h, a, b, o, Len(h[o].kids))

\* The text of an object, by its place.
Lies(t, a, b, o) == SubSeq(t, a[o], b[o] - 1)

\* The mark of an item is what is between it and the one before.
LEMMA MarkBetween == \A kind, i : Between(kind, i) = IF i = 1 THEN <<>> ELSE <<Mark(kind, i)>>
BY Zenon DEF Between, Mark

\* A text behind another text and a character between the two.
LEMMA Joined ==
  ASSUME NEW t \in Seq(Chars), NEW u \in 1 .. Len(t) + 1, NEW e \in u .. Len(t),
         NEW v \in e .. Len(t)
  PROVE  (SubSeq(t, u, e - 1) \o <<t[e]>>) \o SubSeq(t, e + 1, v) = SubSeq(t, u, v)
<1>1. Len(t) \in Nat
  BY LenProperties
<1>2. u \in 1 .. Len(t) /\ e \in u .. Len(t)
  BY <1>1
<1>3. SubSeq(t, u, e) = SubSeq(t, u, e - 1) \o <<t[e]>>
  BY <1>2, SubSeqRecursiveSecond
<1>4. u \in 1 .. Len(t) + 1 /\ e \in u - 1 .. Len(t) /\ v \in e .. Len(t)
  BY <1>1
<1>5. SubSeq(t, u, e) \o SubSeq(t, e + 1, v) = SubSeq(t, u, v)
  BY <1>4, ConcatAdjacentSubSeq
<1>6. QED
  BY <1>3, <1>5

\* The items of a container are the text from its bracket on.
LEMMA ItemsLie ==
  ASSUME NEW h, NEW t \in Seq(Chars), NEW a, NEW b, NEW o, NEW x, Len(h[o].kids) \in Nat,
         Laid(h, t, a, b, o), a[o] \in 1 .. Len(t),
         \A i \in 1 .. Len(h[o].kids) :
           /\ Within(t, a, b, h[o].kids[i])
           /\ x[h[o].kids[i]] = Lies(t, a, b, h[o].kids[i])
  PROVE  LET n == Len(h[o].kids)
             e == IF n = 0 THEN a[o] + 1 ELSE Ends(h, a, b, o, n)
         IN  Items(h, o, x)[n] = SubSeq(t, a[o] + 1, e - 1) /\ e \in a[o] + 1 .. Len(t) + 1
<1>1. PICK m \in Nat : m = Len(h[o].kids)
  OBVIOUS
<1>2. PICK u : u = a[o] + 1 /\ u \in 1 .. Len(t) + 1
  BY LenProperties
<1>3. PICK q : q = [i \in 0 .. m |-> IF i = 0 THEN u ELSE Ends(h, a, b, o, i)]
  OBVIOUS
<1>4. PICK g : g = Items(h, o, x)
  OBVIOUS
<1>5. Len(t) \in Nat /\ \A i, j \in Int : i >= 1 /\ j <= Len(t) => \A l \in i .. j : t[l] \in Chars
  <2>1. Len(t) \in Nat
    BY LenProperties
  <2>2. \A l \in 1 .. Len(t) : t[l] \in Chars
    BY ElementOfSeq
  <2>3. QED
    BY <2>1, <2>2
<1>6. \A k : Within(t, a, b, k) => Lies(t, a, b, k) \in Seq(Chars)
  <2> SUFFICES ASSUME NEW k, Within(t, a, b, k) PROVE Lies(t, a, b, k) \in Seq(Chars)
    OBVIOUS
  <2>1. a[k] \in Int /\ b[k] - 1 \in Int /\ a[k] >= 1 /\ b[k] - 1 <= Len(t)
    BY <1>5 DEF Within
  <2>2. \A l \in a[k] .. b[k] - 1 : t[l] \in Chars
    BY <1>5, <2>1
  <2>3. QED
    BY <2>1, <2>2, SubSeqProperties DEF Lies
<1>7. ItemsAre(h, o, x, g)
  BY <1>4, <1>6, ItemsFacts
<1>8. /\ g[0] = <<>>
      /\ \A i \in 1 .. m :
           g[i] = (g[i - 1] \o Between(h[o].kind, i)) \o Lies(t, a, b, h[o].kids[i])
  BY <1>1, <1>7 DEF ItemsAre
<1> DEFINE S == {i \in 0 .. m : q[i] \in u .. Len(t) + 1 /\ g[i] = SubSeq(t, u, q[i] - 1)}
<1>9. 0 \in S
  <2>1. q[0] = u /\ 0 \in 0 .. m
    BY <1>3
  <2>2. SubSeq(t, u, u - 1) = <<>>
    BY <1>2, SubSeqEmpty
  <2>3. q[0] \in u .. Len(t) + 1
    BY <1>2, <1>5, <2>1
  <2>4. g[0] = SubSeq(t, u, q[0] - 1)
    BY <1>8, <2>1, <2>2
  <2>5. QED
    BY <2>1, <2>3, <2>4
<1>10. ASSUME NEW i \in 1 .. m, i - 1 \in S PROVE i \in S
  <2>1. PICK k : k = h[o].kids[i]
    OBVIOUS
  <2>2. /\ Within(t, a, b, k) /\ t[Ends(h, a, b, o, i - 1)] = Mark(h[o].kind, i)
        /\ a[k] = Ends(h, a, b, o, i - 1) + 1
    BY <1>1, <2>1 DEF Laid, Item
  <2>3. q[i] = b[k] /\ i - 1 \in 0 .. m
    BY <1>3, <2>1 DEF Ends
  <2>4. g[i] = (g[i - 1] \o Between(h[o].kind, i)) \o SubSeq(t, a[k], b[k] - 1)
    BY <1>8, <2>1 DEF Lies
  <2>5. q[i - 1] \in u .. Len(t) + 1 /\ g[i - 1] = SubSeq(t, u, q[i - 1] - 1)
    BY <1>10
  <2>6. CASE i = 1
    <3>1. a[k] = u /\ g[i - 1] = <<>>
      BY <1>2, <1>8, <2>2, <2>6 DEF Ends
    <3>2. Between(h[o].kind, i) = <<>>
      BY <2>6, MarkBetween
    <3>3. SubSeq(t, u, b[k] - 1) \in Seq(Chars)
      BY <1>6, <2>2, <3>1 DEF Lies
    <3>4. g[i] = SubSeq(t, u, b[k] - 1)
      <4>1. <<>> \o <<>> = <<>>
        BY EmptySeq, ConcatEmptySeq
      <4>2. g[i] = (<<>> \o <<>>) \o SubSeq(t, u, b[k] - 1)
        BY <2>4, <3>1, <3>2
      <4>3. QED
        BY <3>3, <4>1, <4>2, ConcatEmptySeq
    <3>5. b[k] \in u .. Len(t) + 1
      BY <1>2, <1>5, <2>2, <3>1 DEF Within
    <3>6. QED
      BY <2>3, <3>4, <3>5
  <2>7. CASE i # 1
    <3>1. PICK e : e = Ends(h, a, b, o, i - 1) /\ e = q[i - 1]
      <4>1. i - 1 # 0
        BY <2>7
      <4>2. QED
        BY <1>3, <2>3, <4>1
    <3>2. e \in u .. Len(t) /\ b[k] - 1 \in e .. Len(t) /\ b[k] \in u .. Len(t) + 1
      <4>1. a[k] \in 1 .. Len(t) /\ b[k] \in a[k] + 1 .. Len(t) + 1 /\ a[k] = e + 1
        BY <2>2, <3>1 DEF Within
      <4>2. e \in u .. Len(t) + 1
        BY <2>5, <3>1
      <4>3. QED
        BY <1>2, <1>5, <4>1, <4>2
    <3>3. Between(h[o].kind, i) = <<t[e]>>
      BY <2>2, <2>7, <3>1, MarkBetween
    <3>4. g[i] = (SubSeq(t, u, e - 1) \o <<t[e]>>) \o SubSeq(t, e + 1, b[k] - 1)
      BY <2>2, <2>4, <2>5, <3>1, <3>3
    <3>5. g[i] = SubSeq(t, u, b[k] - 1)
      BY <1>2, <3>2, <3>4, Joined
    <3>6. QED
      BY <2>3, <3>2, <3>5
  <2>8. QED
    BY <2>6, <2>7
<1> HIDE DEF S
<1>11. m \in S
  <2>1. \A i \in 0 .. m : i \in S
    BY <1>9, <1>10, Reaches
  <2>2. QED
    BY <2>1
<1>12. q[m] \in u .. Len(t) + 1 /\ g[m] = SubSeq(t, u, q[m] - 1)
  BY <1>11 DEF S
<1>13. q[m] = IF m = 0 THEN u ELSE Ends(h, a, b, o, m)
  BY <1>3
<1>14. QED
  BY <1>1, <1>2, <1>4, <1>12, <1>13

\* The text of an object is the text where it lies.
LEMMA ObjectLies ==
  ASSUME NEW h \in Seq(Objects), NEW t \in Seq(Chars), NEW a, NEW b, NEW o \in 1 .. Len(h), NEW x,
         Laid(h, t, a, b, o), Spans(h, t, a, b, o),
         \A i \in 1 .. Len(h[o].kids) :
           /\ Within(t, a, b, h[o].kids[i])
           /\ x[h[o].kids[i]] = Lies(t, a, b, h[o].kids[i])
  PROVE  ObjectText(h, o, x) = Lies(t, a, b, o)
<1>1. /\ Len(t) \in Nat /\ h[o].kind \in Kinds /\ Len(h[o].kids) \in Nat
      /\ a[o] \in 1 .. Len(t) /\ b[o] \in a[o] + 1 .. Len(t) + 1
  <2>1. h[o] \in Objects /\ Len(t) \in Nat
    BY ElementOfSeq, LenProperties
  <2>2. h[o].kind \in Kinds /\ Len(h[o].kids) \in Nat
    BY <2>1, LenProperties DEF Objects
  <2>3. QED
    BY <2>1, <2>2 DEF Spans, Within
<1>2. ASSUME b[o] = a[o] + 1 PROVE Lies(t, a, b, o) = <<t[a[o]]>>
  <2>1. PICK u : u = a[o]
    OBVIOUS
  <2>2. b[o] - 1 = u /\ u \in 1 .. Len(t)
    BY <1>1, <1>2, <2>1
  <2>3. SubSeq(t, u, u) = SubSeq(t, u, u - 1) \o <<t[u]>>
    BY <1>1, <2>2, SubSeqRecursiveSecond
  <2>4. SubSeq(t, u, u - 1) = <<>>
    BY <1>1, <2>2, SubSeqEmpty
  <2>5. <<>> \o <<t[u]>> = <<t[u]>>
    <3>1. <<t[u]>> \in Seq(Chars)
      BY <2>2, ElementOfSeq, Singleton
    <3>2. QED
      BY <3>1, ConcatEmptySeq
  <2>6. QED
    BY <2>1, <2>2, <2>3, <2>4, <2>5 DEF Lies
<1>3. CASE h[o].kind = "str"
  BY <1>2, <1>3 DEF Spans, ObjectText
<1>4. CASE h[o].kind = "other"
  <2>1. ObjectText(h, o, x) = <<"n">>
    BY <1>4 DEF ObjectText
  <2>2. QED
    BY <1>2, <1>4, <2>1 DEF Spans
<1>5. CASE h[o].kind \in {"list", "dict"}
  <2> DEFINE n == Len(h[o].kids)
             e == IF n = 0 THEN a[o] + 1 ELSE Ends(h, a, b, o, n)
  <2>1. Items(h, o, x)[n] = SubSeq(t, a[o] + 1, e - 1) /\ e \in a[o] + 1 .. Len(t) + 1
    BY <1>1, ItemsLie
  <2>2. /\ t[a[o]] = Mark(h[o].kind, 1) /\ t[b[o] - 1] = Shut(h[o].kind) /\ b[o] = 1 + e
    BY <1>5 DEF Spans
  <2>3. PICK w : w = Items(h, o, x)[n]
    OBVIOUS
  <2>4. ObjectText(h, o, x) = (<<Mark(h[o].kind, 1)>> \o w) \o <<Shut(h[o].kind)>>
    <3>1. CASE h[o].kind = "list"
      <4>1. ObjectText(h, o, x) = (<<"[">> \o w) \o <<"]">>
        BY <2>3, <3>1 DEF ObjectText
      <4>2. Mark(h[o].kind, 1) = "[" /\ Shut(h[o].kind) = "]"
        BY <3>1 DEF Mark, Shut
      <4>3. QED
        BY <4>1, <4>2
    <3>2. CASE h[o].kind = "dict"
      <4>1. ObjectText(h, o, x) = (<<"{">> \o w) \o <<"}">>
        BY <2>3, <3>2 DEF ObjectText
      <4>2. Mark(h[o].kind, 1) = "{" /\ Shut(h[o].kind) = "}"
        BY <3>2 DEF Mark, Shut
      <4>3. QED
        BY <4>1, <4>2
    <3>3. QED
      BY <1>5, <3>1, <3>2
  <2> HIDE DEF n, e
  <2>5. PICK u : u = a[o] /\ u \in 1 .. Len(t)
    BY <1>1
  <2>6. e \in u + 1 .. Len(t)
    <3>1. e \in u + 1 .. Len(t) + 1 /\ 1 + e \in u + 1 .. Len(t) + 1
      BY <1>1, <2>1, <2>2, <2>5
    <3>2. QED
      BY <1>1, <2>5, <3>1
  <2>7. w = SubSeq(t, u + 1, e - 1)
    BY <2>1, <2>3, <2>5
  <2>8. SubSeq(t, u, e - 1) = <<t[u]>> \o SubSeq(t, u + 1, e - 1)
    <3>1. u \in 1 .. Len(t) /\ e - 1 \in u .. Len(t)
      BY <1>1, <2>5, <2>6
    <3>2. QED
      BY <3>1, SubSeqRecursiveFirst
  <2>9. SubSeq(t, u, e) = SubSeq(t, u, e - 1) \o <<t[e]>>
    <3>1. e \in u .. Len(t)
      BY <1>1, <2>5, <2>6
    <3>2. QED
      BY <2>5, <3>1, SubSeqRecursiveSecond
  <2>10. b[o] - 1 = e
    BY <1>1, <2>2, <2>5, <2>6
  <2>11. t[u] = Mark(h[o].kind, 1) /\ t[e] = Shut(h[o].kind)
    BY <2>2, <2>5, <2>10
  <2>12. Lies(t, a, b, o) = SubSeq(t, u, e)
    BY <2>5, <2>10 DEF Lies
  <2>13. QED
    BY <2>4, <2>7, <2>8, <2>9, <2>11, <2>12
<1>6. QED
  BY <1>1, <1>3, <1>4, <1>5 DEF Kinds

\* Where every object has its place, every object has the text of its place.
LEMMA RenderedLies ==
  ASSUME NEW h \in Seq(Objects), NEW t \in Seq(Chars), NEW a, NEW b,
         \A o \in 1 .. Len(h) : Laid(h, t, a, b, o) /\ Spans(h, t, a, b, o)
  PROVE  \A o \in 1 .. Len(h) : Rendered(h)[Len(h)][o] = Lies(t, a, b, o)
<1>1. PICK m \in Nat : m = Len(h)
  BY LenProperties
<1>2. PICK g : g = Rendered(h)
  OBVIOUS
<1>3. \A o \in 1 .. m : \A i \in 1 .. Len(h[o].kids) : h[o].kids[i] \in o + 1 .. m
  BY <1>1 DEF Laid, Item
<1>4. Contained(h)
  BY <1>1, <1>3 DEF Contained
<1>5. \A n \in 1 .. m : \A o \in 1 .. m : g[n][o] = ObjectText(h, o, g[n - 1])
  BY <1>1, <1>2, <1>4, RenderedFacts DEF RenderedAre
<1> DEFINE S == {n \in 0 .. m : \A o \in 1 .. m : o > m - n => g[n][o] = Lies(t, a, b, o)}
<1>6. 0 \in S
  <2>1. \A o \in 1 .. m : ~(o > m - 0)
    OBVIOUS
  <2>2. 0 \in 0 .. m
    OBVIOUS
  <2>3. QED
    BY <2>1, <2>2
<1>7. ASSUME NEW n \in 1 .. m, n - 1 \in S PROVE n \in S
  <2> SUFFICES ASSUME NEW o \in 1 .. m, o > m - n PROVE g[n][o] = Lies(t, a, b, o)
    OBVIOUS
  <2>1. PICK x : x = g[n - 1]
    OBVIOUS
  <2>2. \A i \in 1 .. Len(h[o].kids) :
          /\ Within(t, a, b, h[o].kids[i])
          /\ x[h[o].kids[i]] = Lies(t, a, b, h[o].kids[i])
    <3> TAKE i \in 1 .. Len(h[o].kids)
    <3>1. PICK k : k = h[o].kids[i]
      OBVIOUS
    <3>2. k \in 1 .. m /\ k > m - (n - 1)
      <4>1. k \in o + 1 .. m
        BY <1>3, <3>1
      <4>2. QED
        BY <4>1
    <3>3. x[k] = Lies(t, a, b, k)
      BY <1>7, <2>1, <3>2
    <3>4. Within(t, a, b, k)
      BY <1>1, <3>2 DEF Spans
    <3>5. QED
      BY <3>1, <3>3, <3>4
  <2>3. ObjectText(h, o, x) = Lies(t, a, b, o)
    BY <1>1, <2>2, ObjectLies
  <2>4. QED
    BY <1>5, <2>1, <2>3
<1> HIDE DEF S
<1>8. m \in S
  <2>1. \A n \in 0 .. m : n \in S
    BY <1>6, <1>7, Reaches
  <2>2. QED
    BY <2>1
<1>9. \A o \in 1 .. m : g[m][o] = Lies(t, a, b, o)
  <2>1. \A o \in 1 .. m : o > m - m
    OBVIOUS
  <2>2. QED
    BY <1>8, <2>1 DEF S
<1>10. QED
  BY <1>1, <1>2, <1>9

(***************************************************************************)
(* What the decoder has built lies in the text as it was read.             *)
(***************************************************************************)

\* The text that is decoded, and the place in it of the next character.
Text == Strip(memory)
Here == Place(memory, start)

\* An activation builds the object.
Building(o) == \E i \in 1 .. Len(stack) : stack[i].obj = o

\* Every object has its place, those that are not complete where they begin.
Storing(a, b, o) ==
  /\ a[o] \in 1 .. Len(Text)
  /\ Laid(heap, Text, a, b, o)
  /\ Building(o) \/ Spans(heap, Text, a, b, o)
  /\ \A i \in 1 .. Len(heap[o].kids) : ~Building(heap[o].kids[i])
Stored(a, b) == \A o \in 1 .. Len(heap) : Storing(a, b, o)

\* Before what the i-th activation decodes next is this character, at this place;
\* what it decodes next begins behind that.
Count(i) == Len(heap[stack[i].obj].kids)
Last(a, b, i) == Ends(heap, a, b, stack[i].obj, Count(i))
Goes(a, b, i) == IF stack[i].name = 0 THEN Last(a, b, i) ELSE b[stack[i].name]
Due(i) == IF stack[i].name = 0 THEN Mark(heap[stack[i].obj].kind, Count(i) + 1) ELSE ":"
Begins(a, b, i) == IF i = 0 THEN 1 ELSE Goes(a, b, i) + 1

\* An activation is where the one before decodes its next item; its key is the
\* next item behind those of its container.
Placed(a, b, i) ==
  /\ a[stack[i].obj] = Begins(a, b, i - 1)
  /\ \A j \in 1 .. i - 1 : stack[j].obj < stack[i].obj
  /\ stack[i].name # 0 =>
       /\ stack[i].obj < stack[i].name
       /\ a[stack[i].name] = Last(a, b, i) + 1
       /\ Text[Last(a, b, i)] = Mark(heap[stack[i].obj].kind, Count(i) + 1)

\* Its next item is about to be decoded, or being decoded.
Awaits(a, b, i) == Text[Goes(a, b, i)] = Due(i)
Waiting(i) == i < Len(stack) \/ pc \notin {"colon", "sep"}

\* Where the decoder is.
Standing(a, b) ==
  /\ pc \in {"call", "any", "loop"} => Here = Begins(a, b, Len(stack))
  /\ pc \in {"colon", "sep"} => Here = Goes(a, b, Len(stack))
  /\ pc = "sep" => Count(Len(stack)) # 0
  /\ pc = "loop" /\ Top.len = 0 => Count(Len(stack)) = 0
  /\ ret # 0 =>
       /\ a[ret] = Begins(a, b, Len(stack)) /\ b[ret] = Here
       /\ \A i \in 1 .. Len(stack) : stack[i].obj < ret
  /\ pc \in {"binding", "done"} => start = Len(memory) + 1

\* What has been built by now.
Built(a, b) ==
  /\ Stored(a, b)
  /\ \A i \in 1 .. Len(stack) : Placed(a, b, i) /\ (Waiting(i) => Awaits(a, b, i))
  /\ Standing(a, b)

\* A step finds new places only for new objects and ends only of open ones.
Agrees(a, b, a2, b2) ==
  /\ memory' = memory /\ Len(heap) <= Len(heap')
  /\ \A o \in 1 .. Len(heap) :
       /\ a2[o] = a[o]
       /\ Building(o) \/ b2[o] = b[o]
       /\ Building(o)' => Building(o)

\* The items of an object stay, and it may get some more.
Gains(o) ==
  /\ heap'[o].kind = heap[o].kind
  /\ Len(heap[o].kids) <= Len(heap'[o].kids)
  /\ \A i \in 1 .. Len(heap[o].kids) : heap'[o].kids[i] = heap[o].kids[i]

\* Nothing else happens to it.
Keeps(o) == heap'[o].kind = heap[o].kind /\ heap'[o].kids = heap[o].kids

\* The items an object has stay where they are.
ItemsStay(a, b, a2, b2, o) ==
  /\ \A i \in 0 .. Len(heap[o].kids) : Ends(heap', a2, b2, o, i) = Ends(heap, a, b, o, i)
  /\ \A i \in 1 .. Len(heap[o].kids) :
       Item(heap', Text, a2, b2, o, i) /\ ~Building(heap[o].kids[i])'

\* They do when the object only gains items.
LEMMA GainedItems ==
  ASSUME Control, NEW a, NEW b, NEW a2, NEW b2, Stored(a, b), Agrees(a, b, a2, b2),
         NEW o \in 1 .. Len(heap), Gains(o), Len(heap') \in Nat
  PROVE  ItemsStay(a, b, a2, b2, o)
<1>1. /\ Len(heap) \in Nat /\ Len(heap[o].kids) \in Nat /\ Storing(a, b, o)
      /\ Len(heap) <= Len(heap')
  BY InRange DEF Stored, Agrees
<1>2. \A i \in 1 .. Len(heap[o].kids) :
        /\ Item(heap, Text, a, b, o, i) /\ heap'[o].kids[i] = heap[o].kids[i]
        /\ heap[o].kids[i] \in 1 .. Len(heap) /\ ~Building(heap[o].kids[i])
  <2> TAKE i \in 1 .. Len(heap[o].kids)
  <2>1. Item(heap, Text, a, b, o, i) /\ ~Building(heap[o].kids[i])
    BY <1>1 DEF Storing, Laid
  <2>2. heap[o].kids[i] \in 1 .. Len(heap)
    BY <1>1, <2>1 DEF Item
  <2>3. QED
    BY <2>1, <2>2 DEF Gains
<1>3. \A i \in 1 .. Len(heap[o].kids) :
        /\ a2[heap[o].kids[i]] = a[heap[o].kids[i]] /\ b2[heap[o].kids[i]] = b[heap[o].kids[i]]
        /\ ~Building(heap[o].kids[i])'
  <2> TAKE i \in 1 .. Len(heap[o].kids)
  <2>1. PICK k \in 1 .. Len(heap) : k = heap[o].kids[i] /\ ~Building(k)
    BY <1>2
  <2>2. a2[k] = a[k] /\ b2[k] = b[k] /\ ~Building(k)'
    BY <2>1, Zenon DEF Agrees
  <2>3. Building(k)' <=> Building(heap[o].kids[i])'
    <3>1. heap'[o].kids[i] = k
      BY <1>2, <2>1
    <3>2. QED
      BY <3>1 DEF Building
  <2>4. QED
    BY <2>1, <2>2, <2>3
<1>4. a2[o] = a[o]
  BY DEF Agrees
<1>5. \A i \in 0 .. Len(heap[o].kids) : Ends(heap', a2, b2, o, i) = Ends(heap, a, b, o, i)
  BY <1>1, <1>2, <1>3, <1>4 DEF Ends
<1>6. \A i \in 1 .. Len(heap[o].kids) : Item(heap', Text, a2, b2, o, i)
  <2> TAKE i \in 1 .. Len(heap[o].kids)
  <2>1. PICK k : k = heap[o].kids[i]
    OBVIOUS
  <2>2. heap'[o].kids[i] = k /\ a2[k] = a[k] /\ heap'[o].kind = heap[o].kind
    BY <1>2, <1>3, <2>1 DEF Gains
  <2>3. Ends(heap', a2, b2, o, i - 1) = Ends(heap, a, b, o, i - 1)
    BY <1>1, <1>5
  <2>4. /\ k \in o + 1 .. Len(heap)
        /\ Text[Ends(heap, a, b, o, i - 1)] = Mark(heap[o].kind, i)
        /\ a[k] = Ends(heap, a, b, o, i - 1) + 1
    BY <1>2, <2>1 DEF Item
  <2>5. k \in o + 1 .. Len(heap')
    BY <1>1, <2>4
  <2>6. QED
    BY <2>2, <2>3, <2>4, <2>5 DEF Item
<1>7. QED
  BY <1>3, <1>5, <1>6, Zenon DEF ItemsStay

\* An object the step does not touch stays stored.
LEMMA KeptStored ==
  ASSUME Control, NEW a, NEW b, NEW a2, NEW b2, Stored(a, b), Agrees(a, b, a2, b2),
         NEW o \in 1 .. Len(heap), Keeps(o), Len(heap') \in Nat,
         Building(o) => Building(o)'
  PROVE  Storing(a2, b2, o)'
<1>1. /\ Storing(a, b, o) /\ Len(heap[o].kids) \in Nat
      /\ heap'[o].kind = heap[o].kind /\ heap'[o].kids = heap[o].kids
      /\ a2[o] = a[o] /\ (Building(o) \/ b2[o] = b[o]) /\ Text' = Text
  BY InRange DEF Stored, Agrees, Keeps, Text, Strip, Kept
<1>2. Gains(o)
  BY <1>1 DEF Gains
<1>3. ItemsStay(a, b, a2, b2, o)
  BY <1>2, GainedItems
<1>4. a2[o] \in 1 .. Len(Text)'
  BY <1>1 DEF Storing
<1>5. Laid(heap', Text', a2, b2, o) /\ \A i \in 1 .. Len(heap'[o].kids) : ~Building(heap[o].kids[i])'
  BY <1>1, <1>3 DEF Laid, ItemsStay
<1>6. ASSUME ~Building(o) PROVE Spans(heap', Text', a2, b2, o)
  <2>1. Spans(heap, Text, a, b, o) /\ b2[o] = b[o]
    BY <1>1, <1>6 DEF Storing
  <2>2. Ends(heap', a2, b2, o, Len(heap[o].kids)) = Ends(heap, a, b, o, Len(heap[o].kids))
    <3>1. Len(heap[o].kids) \in 0 .. Len(heap[o].kids)
      BY <1>1
    <3>2. QED
      BY <1>3, <3>1 DEF ItemsStay
  <2>3. Within(Text', a2, b2, o)
    BY <1>1, <2>1 DEF Spans, Within
  <2>4. QED
    BY <1>1, <2>1, <2>2, <2>3 DEF Spans
<1>7. QED
  BY <1>4, <1>5, <1>6 DEF Storing

\* The activation is the same but for the number of its items.
SameFrame(i) ==
  /\ i \in 1 .. Len(stack) /\ i \in 1 .. Len(stack')
  /\ stack'[i].obj = stack[i].obj /\ stack'[i].name = stack[i].name

\* What it goes on with is where it was.
FrameStays(a, b, a2, b2, i) ==
  /\ Count(i)' = Count(i)
  /\ Last(a2, b2, i)' = Last(a, b, i)
  /\ Goes(a2, b2, i)' = Goes(a, b, i)
  /\ Due(i)' = Due(i)
  /\ Begins(a2, b2, i)' = Begins(a, b, i)

\* It is, of an activation whose container keeps its items.
LEMMA KeptFrame ==
  ASSUME Control, Refs, NEW a, NEW b, NEW a2, NEW b2, Stored(a, b), Agrees(a, b, a2, b2),
         Len(heap') \in Nat, NEW i, SameFrame(i), Keeps(stack[i].obj)
  PROVE  FrameStays(a, b, a2, b2, i)
<1>1. PICK o \in 1 .. Len(heap) : o = stack[i].obj
  BY InRange DEF SameFrame
<1>2. /\ heap'[o].kind = heap[o].kind /\ heap'[o].kids = heap[o].kids
      /\ Len(heap[o].kids) \in Nat /\ stack'[i].obj = o
  BY <1>1, InRange DEF Keeps, SameFrame
<1>3. Count(i)' = Count(i) /\ Count(i) = Len(heap[o].kids)
  BY <1>1, <1>2 DEF Count
<1>4. Last(a2, b2, i)' = Last(a, b, i)
  <2>1. Gains(o)
    BY <1>2 DEF Gains
  <2>2. ItemsStay(a, b, a2, b2, o)
    BY <2>1, GainedItems
  <2>3. Ends(heap', a2, b2, o, Len(heap[o].kids)) = Ends(heap, a, b, o, Len(heap[o].kids))
    <3>1. Len(heap[o].kids) \in 0 .. Len(heap[o].kids)
      BY <1>2
    <3>2. QED
      BY <2>2, <3>1 DEF ItemsStay
  <2>4. QED
    BY <1>1, <1>2, <1>3, <2>3 DEF Last
<1>5. stack[i].name # 0 => b2[stack[i].name] = b[stack[i].name]
  <2> SUFFICES ASSUME stack[i].name # 0 PROVE b2[stack[i].name] = b[stack[i].name]
    OBVIOUS
  <2>1. stack[i].name \in 1 .. Len(heap)
    BY InRange DEF SameFrame
  <2>2. ~Building(stack[i].name)
    <3>1. DOMAIN stack = 1 .. Len(stack)
      BY InRange
    <3>2. QED
      BY <3>1 DEF Refs, Distinct, SameFrame, Building
  <2>3. PICK k \in 1 .. Len(heap) : k = stack[i].name
    BY <2>1
  <2>4. b2[k] = b[k]
    BY <2>2, <2>3, Zenon DEF Agrees
  <2>5. QED
    BY <2>3, <2>4
<1>6. stack'[i].name = stack[i].name
  BY DEF SameFrame
<1>7. Goes(a2, b2, i)' = Goes(a, b, i)
  BY <1>4, <1>5, <1>6, Zenon DEF Goes
<1>8. Due(i)' = Due(i)
  BY <1>1, <1>2, <1>3, <1>6 DEF Due
<1>9. Begins(a2, b2, i)' = Begins(a, b, i)
  BY <1>7 DEF Begins
<1>10. QED
  BY <1>3, <1>4, <1>7, <1>8, <1>9, Zenon DEF FrameStays

\* An activation that stays as it was, in one that does, is placed as before.
LEMMA KeptPlaced ==
  ASSUME Control, Refs, NEW a, NEW b, NEW a2, NEW b2, Stored(a, b), Agrees(a, b, a2, b2),
         Len(heap') \in Nat, NEW i \in Nat, \A j \in 1 .. i : SameFrame(j),
         \A j \in 1 .. i - 1 : Keeps(stack[j].obj),
         stack[i].name # 0 => Keeps(stack[i].obj), i # 0, Placed(a, b, i)
  PROVE  Placed(a2, b2, i)'
<1>1. i \in 1 .. i /\ SameFrame(i) /\ memory' = memory /\ Text' = Text
  BY DEF Agrees, Text, Strip, Kept
<1>2. Begins(a2, b2, i - 1)' = Begins(a, b, i - 1)
  <2>1. CASE i = 1
    BY <2>1 DEF Begins
  <2>2. CASE i # 1
    <3>1. i - 1 \in 1 .. i - 1 /\ i - 1 \in 1 .. i
      BY <2>2
    <3>2. FrameStays(a, b, a2, b2, i - 1)
      BY <3>1, KeptFrame
    <3>3. QED
      BY <3>2 DEF FrameStays
  <2>3. QED
    BY <2>1, <2>2
<1>3. a2[stack'[i].obj] = a[stack[i].obj]
  <2>1. stack[i].obj \in 1 .. Len(heap)
    BY <1>1, InRange DEF SameFrame
  <2>2. QED
    BY <1>1, <2>1 DEF Agrees, SameFrame
<1>4. \A j \in 1 .. i - 1 : stack'[j].obj < stack'[i].obj
  <2> TAKE j \in 1 .. i - 1
  <2>1. SameFrame(j) /\ stack[j].obj < stack[i].obj
    BY DEF Placed
  <2>2. QED
    BY <1>1, <2>1 DEF SameFrame
<1>5. ASSUME stack'[i].name # 0
      PROVE  /\ stack'[i].obj < stack'[i].name
             /\ a2[stack'[i].name] = Last(a2, b2, i)' + 1
             /\ Text'[Last(a2, b2, i)'] = Mark(heap'[stack'[i].obj].kind, Count(i)' + 1)
  <2>1. stack[i].name # 0 /\ stack'[i].obj = stack[i].obj /\ stack'[i].name = stack[i].name
    BY <1>1, <1>5 DEF SameFrame
  <2>2. FrameStays(a, b, a2, b2, i) /\ Keeps(stack[i].obj)
    BY <1>1, <2>1, KeptFrame
  <2>3. a2[stack[i].name] = a[stack[i].name]
    <3>1. stack[i].name \in 1 .. Len(heap)
      BY <1>1, <2>1, InRange DEF SameFrame
    <3>2. QED
      BY <3>1 DEF Agrees
  <2>4. QED
    BY <1>1, <2>1, <2>2, <2>3 DEF Placed, FrameStays, Keeps
<1>6. QED
  BY <1>2, <1>3, <1>4, <1>5 DEF Placed

\* The first n activations stay where they are.
Stays(a, b, a2, b2, n) ==
  /\ \A i \in 1 .. n : Placed(a2, b2, i)' /\ (Awaits(a, b, i) => Awaits(a2, b2, i)')
  /\ \A i \in 0 .. n : Begins(a2, b2, i)' = Begins(a, b, i)

\* They do, when they and their containers stay.
LEMMA BelowStay ==
  ASSUME Control, Refs, NEW a, NEW b, NEW a2, NEW b2, Stored(a, b), Agrees(a, b, a2, b2),
         Len(heap') \in Nat, NEW n \in Nat,
         \A i \in 1 .. n : SameFrame(i) /\ Keeps(stack[i].obj) /\ Placed(a, b, i)
  PROVE  Stays(a, b, a2, b2, n)
<1>1. \A i \in 1 .. n : FrameStays(a, b, a2, b2, i)
  BY KeptFrame
<1>2. Text' = Text
  BY DEF Agrees, Text, Strip, Kept
<1>3. \A i \in 1 .. n : Awaits(a, b, i) => Awaits(a2, b2, i)'
  BY <1>1, <1>2 DEF FrameStays, Awaits
<1>4. \A i \in 1 .. n : Placed(a2, b2, i)'
  <2> TAKE i \in 1 .. n
  <2>1. i \in Nat /\ i # 0 /\ Placed(a, b, i) /\ Keeps(stack[i].obj)
    OBVIOUS
  <2>2. \A j \in 1 .. i : SameFrame(j)
    OBVIOUS
  <2>3. \A j \in 1 .. i - 1 : Keeps(stack[j].obj)
    OBVIOUS
  <2>4. QED
    BY <2>1, <2>2, <2>3, KeptPlaced
<1>5. \A i \in 0 .. n : Begins(a2, b2, i)' = Begins(a, b, i)
  <2> TAKE i \in 0 .. n
  <2>1. CASE i = 0
    BY <2>1 DEF Begins
  <2>2. CASE i # 0
    BY <1>1, <2>2 DEF FrameStays
  <2>3. QED
    BY <2>1, <2>2
<1>6. QED
  BY <1>3, <1>4, <1>5, Zenon DEF Stays

\* A step that neither reads nor builds anything.
LEMMA QuietBuilt ==
  ASSUME Control, NEW a, NEW b, Built(a, b), UNCHANGED <<memory, heap, stack, ret>>, Here' = Here,
         pc' \in {"call", "any", "loop"} => pc \in {"call", "any", "loop"},
         pc \in {"colon", "sep"} \/ pc' \in {"colon", "sep"} => pc' = pc,
         pc' = "loop" => pc = "loop",
         pc' \in {"binding", "done"} => start' = Len(memory) + 1
  PROVE  Built(a, b)'
<1>1. Text' = Text
  BY DEF Text, Strip, Kept
<1>2. \A o : Building(o)' <=> Building(o)
  BY DEF Building
<1>3. Stored(a, b)'
  BY <1>1, <1>2 DEF Built, Stored, Storing
<1>4. \A i : /\ Begins(a, b, i)' = Begins(a, b, i) /\ Goes(a, b, i)' = Goes(a, b, i)
             /\ Last(a, b, i)' = Last(a, b, i) /\ Count(i)' = Count(i) /\ Due(i)' = Due(i)
  BY DEF Begins, Goes, Last, Count, Due
<1>5. \A i \in 1 .. Len(stack) : Placed(a, b, i)'
  <2> TAKE i \in 1 .. Len(stack)
  <2>1. Placed(a, b, i)
    BY DEF Built
  <2>2. QED
    BY <1>1, <1>4, <2>1 DEF Placed
<1>6. \A i \in 1 .. Len(stack) : Waiting(i)' => Awaits(a, b, i)'
  <2> TAKE i \in 1 .. Len(stack)
  <2>1. Waiting(i)' => Waiting(i)
    BY DEF Waiting
  <2>2. Awaits(a, b, i)' <=> Awaits(a, b, i)
    BY <1>1, <1>4 DEF Awaits
  <2>3. QED
    BY <2>1, <2>2 DEF Built
<1>7. Standing(a, b)'
  <2>1. Standing(a, b) /\ Top' = Top
    BY DEF Built, Top
  <2>2. QED
    BY <1>4, <2>1 DEF Standing
<1>8. QED
  BY <1>3, <1>5, <1>6, <1>7 DEF Built

\* The step goes behind the character ch of the text.
Takes(ch) ==
  /\ memory' = memory /\ Here \in 1 .. Len(Text) /\ Text[Here] = ch /\ Here' = Here + 1
  /\ Len(Text) \in Nat

\* A colon is read.
LEMMA ColonBuilt ==
  ASSUME Control, NEW a, NEW b, Built(a, b), UNCHANGED <<heap, stack, ret>>, Takes(":"),
         pc = "colon", pc' = "any"
  PROVE  Built(a, b)'
<1>0. ret = 0 /\ Len(stack) \in Nat \ {0} /\ stack[Len(stack)].name # 0
  BY Bounds DEF Control, GoingOn, Keys, Top, Activations
<1>1. Text' = Text /\ memory' = memory
  BY DEF Text, Strip, Kept, Takes
<1>2. \A o : Building(o)' <=> Building(o)
  BY DEF Building
<1>3. Stored(a, b)'
  BY <1>1, <1>2 DEF Built, Stored, Storing
<1>4. \A i : /\ Begins(a, b, i)' = Begins(a, b, i) /\ Goes(a, b, i)' = Goes(a, b, i)
             /\ Last(a, b, i)' = Last(a, b, i) /\ Count(i)' = Count(i) /\ Due(i)' = Due(i)
  BY DEF Begins, Goes, Last, Count, Due
<1>5. \A i \in 1 .. Len(stack) : Placed(a, b, i)'
  <2> TAKE i \in 1 .. Len(stack)
  <2>1. Placed(a, b, i)
    BY DEF Built
  <2>2. QED
    BY <1>1, <1>4, <2>1 DEF Placed
<1>6. Here = Goes(a, b, Len(stack))
  BY DEF Built, Standing
<1>7. \A i \in 1 .. Len(stack) : Awaits(a, b, i)'
  <2> TAKE i \in 1 .. Len(stack)
  <2>1. Awaits(a, b, i)' <=> Awaits(a, b, i)
    BY <1>1, <1>4 DEF Awaits
  <2>2. CASE i = Len(stack)
    <3>1. Due(i) = ":"
      BY <1>0, <2>2 DEF Due
    <3>2. QED
      BY <1>6, <2>1, <2>2, <3>1 DEF Awaits, Takes
  <2>3. CASE i # Len(stack)
    <3>1. Waiting(i)
      BY <1>0, <2>3 DEF Waiting
    <3>2. QED
      BY <2>1, <3>1 DEF Built
  <2>4. QED
    BY <2>2, <2>3
<1>8. Standing(a, b)'
  <2>1. Begins(a, b, Len(stack)) = Here + 1
    BY <1>0, <1>6 DEF Begins
  <2>2. QED
    BY <1>0, <1>4, <2>1 DEF Standing, Takes
<1>9. QED
  BY <1>3, <1>5, <1>7, <1>8 DEF Built

\* The places with one for a new object.
With(a, p) == [o \in Nat |-> IF o = Len(heap) + 1 THEN p ELSE a[o]]

\* A new object changes nothing of those there are.
LEMMA OthersStay ==
  ASSUME Control, NEW a, NEW b, NEW p, NEW q, NEW a2, NEW b2, a2 = With(a, p), b2 = With(b, q),
         Stored(a, b), NEW kind, Makes(kind), memory' = memory,
         \A o \in 1 .. Len(heap) : Building(o)' <=> Building(o)
  PROVE  /\ Agrees(a, b, a2, b2)
         /\ a2[Len(heap) + 1] = p /\ b2[Len(heap) + 1] = q
         /\ \A o \in 1 .. Len(heap) : Keeps(o) /\ Storing(a2, b2, o)'
         /\ Len(heap') = Len(heap) + 1 /\ Len(heap) \in Nat
<1>1. /\ Len(heap) \in Nat /\ Len(heap') = Len(heap) + 1
      /\ \A o \in 1 .. Len(heap) : heap'[o] = heap[o]
  BY InRange DEF Makes
<1>2. /\ \A o \in 1 .. Len(heap) : a2[o] = a[o] /\ b2[o] = b[o]
      /\ a2[Len(heap) + 1] = p /\ b2[Len(heap) + 1] = q
  BY <1>1 DEF With
<1>4. Agrees(a, b, a2, b2)
  BY <1>1, <1>2 DEF Agrees
<1>5. \A o \in 1 .. Len(heap) : Keeps(o)
  BY <1>1 DEF Keeps
<1>6. \A o \in 1 .. Len(heap) : Storing(a2, b2, o)'
  BY <1>1, <1>4, <1>5, KeptStored
<1>7. QED
  BY <1>1, <1>2, <1>4, <1>5, <1>6

\* A string or another scalar is made.
LEMMA ScalarBuilt ==
  ASSUME Control, Refs, NEW a, NEW b, Built(a, b), NEW kind \in {"str", "other"}, Makes(kind),
         Takes(IF kind = "str" THEN "s" ELSE "n"), stack' = stack, ret' = Len(heap) + 1,
         pc' = "return"
  PROVE  \E a2, b2 : Built(a2, b2)'
<1>1. PICK a2, b2 : a2 = With(a, Here) /\ b2 = With(b, Here + 1)
  OBVIOUS
<1>a. PICK new : new = Len(heap) + 1
  OBVIOUS
<1>2. /\ pc = "any" /\ heap'[new].kind = kind /\ heap'[new].kids = <<>> /\ memory' = memory
      /\ Text' = Text /\ Len(stack) \in Nat
  BY <1>a, InRange DEF Makes, Takes, Text, Strip, Kept
<1>3. \A o : Building(o)' <=> Building(o)
  BY DEF Building
<1>4. Stored(a, b) /\ Standing(a, b) /\ \A i \in 1 .. Len(stack) : Placed(a, b, i) /\ Awaits(a, b, i)
  BY <1>2 DEF Built, Waiting
<1>5. /\ Agrees(a, b, a2, b2) /\ a2[new] = Here /\ b2[new] = Here + 1
      /\ \A o \in 1 .. Len(heap) : Keeps(o) /\ Storing(a2, b2, o)'
      /\ Len(heap') = new /\ Len(heap) \in Nat
  BY <1>a, <1>1, <1>2, <1>3, <1>4, OthersStay
<1>6. Storing(a2, b2, new)'
  <2>1. a2[new] \in 1 .. Len(Text)' /\ Len(heap'[new].kids) = 0
    BY <1>2, <1>5, EmptySeq DEF Takes
  <2>2. Spans(heap', Text', a2, b2, new)
    BY <1>2, <1>5 DEF Spans, Within, Takes
  <2>3. Laid(heap', Text', a2, b2, new)
    BY <2>1 DEF Laid
  <2>4. \A i \in 1 .. Len(heap'[new].kids) : FALSE
    BY <2>1
  <2>5. QED
    BY <2>1, <2>2, <2>3, <2>4 DEF Storing
<1>7. Stored(a2, b2)'
  <2>1. \A o \in 1 .. Len(heap') : o \in 1 .. Len(heap) \/ o = new
    BY <1>a, <1>5
  <2>2. QED
    BY <1>5, <1>6, <2>1 DEF Stored
<1>8. Stays(a, b, a2, b2, Len(stack))
  <2>1. \A i \in 1 .. Len(stack) : SameFrame(i) /\ Keeps(stack[i].obj) /\ Placed(a, b, i)
    <3> TAKE i \in 1 .. Len(stack)
    <3>1. stack[i].obj \in 1 .. Len(heap) /\ SameFrame(i)
      BY InRange DEF SameFrame
    <3>2. QED
      BY <1>4, <1>5, <3>1
  <2>2. Len(heap') \in Nat
    BY <1>a, <1>5
  <2>3. QED
    BY <1>2, <1>4, <1>5, <2>1, <2>2, BelowStay
<1>9. \A i \in 1 .. Len(stack) : Placed(a2, b2, i)' /\ Awaits(a2, b2, i)'
  BY <1>4, <1>8 DEF Stays
<1>10. Standing(a2, b2)'
  <2>1. Begins(a2, b2, Len(stack))' = Here
    <3>1. Begins(a2, b2, Len(stack))' = Begins(a, b, Len(stack))
      BY <1>2, <1>8 DEF Stays
    <3>2. QED
      BY <1>2, <1>4, <3>1 DEF Standing
  <2>2. \A i \in 1 .. Len(stack) : stack[i].obj < Len(heap) + 1
    BY <1>5, InRange
  <2>3. QED
    BY <1>a, <1>2, <1>5, <2>1, <2>2 DEF Standing, Takes
<1>11. Built(a2, b2)'
  BY <1>7, <1>9, <1>10 DEF Built
<1>12. QED
  BY <1>11

\* A container is opened.
LEMMA ContainerOpened ==
  ASSUME Control, Refs, NEW a, NEW b, Built(a, b), NEW kind \in {"array", "object"},
         NEW container \in {"list", "dict"}, Makes(container), Takes(Mark(container, 1)),
         stack' = Append(stack, Frame(kind, Len(heap) + 1)), ret' = 0, pc' = "loop"
  PROVE  \E a2, b2 : Built(a2, b2)'
<1>1. PICK a2, b2 : a2 = With(a, Here) /\ b2 = With(b, Here + 1)
  OBVIOUS
<1>a. PICK new : new = Len(heap) + 1
  OBVIOUS
<1>b. PICK m : m = Len(stack) + 1
  OBVIOUS
<1>2. /\ pc = "any" /\ heap'[new].kind = container /\ heap'[new].kids = <<>> /\ memory' = memory
      /\ Text' = Text /\ Len(stack) \in Nat
  BY <1>a, InRange DEF Makes, Takes, Text, Strip, Kept
<1>3. /\ Len(stack') = m /\ stack'[m].obj = new /\ stack'[m].name = 0 /\ stack'[m].len = 0
      /\ \A i \in 1 .. Len(stack) : stack'[i] = stack[i]
  <2>1. PICK f : f = Frame(kind, Len(heap) + 1)
    OBVIOUS
  <2>2. f \in Frames /\ f.obj = new /\ f.name = 0 /\ f.len = 0
    BY <1>a, <2>1, InRange DEF Frame, Frames
  <2>3. stack \in Seq(Frames) /\ stack' = Append(stack, f)
    BY <2>1, InRange
  <2>4. QED
    BY <1>b, <2>2, <2>3, AppendProperties
<1>4. Stored(a, b) /\ Standing(a, b) /\ \A i \in 1 .. Len(stack) : Placed(a, b, i) /\ Awaits(a, b, i)
  BY <1>2 DEF Built, Waiting
<1>5. /\ \A o \in 1 .. Len(heap) : Building(o)' <=> Building(o)
      /\ Building(new)'
  <2>1. \A i : i \in 1 .. Len(stack') <=> i \in 1 .. Len(stack) \/ i = m
    BY <1>b, <1>2, <1>3
  <2>2. \A o \in 1 .. Len(heap) : o # new
    BY <1>a, InRange
  <2>3. QED
    BY <1>3, <2>1, <2>2 DEF Building
<1>6. /\ Agrees(a, b, a2, b2) /\ a2[new] = Here
      /\ \A o \in 1 .. Len(heap) : Keeps(o) /\ Storing(a2, b2, o)'
      /\ Len(heap') = new /\ Len(heap) \in Nat
  BY <1>a, <1>1, <1>2, <1>4, <1>5, OthersStay
<1>7. Stored(a2, b2)'
  <2>1. \A o \in 1 .. Len(heap') : o \in 1 .. Len(heap) \/ o = new
    BY <1>a, <1>6
  <2>2. a2[new] \in 1 .. Len(Text)' /\ Len(heap'[new].kids) = 0
    BY <1>2, <1>6, EmptySeq DEF Takes
  <2>3. Laid(heap', Text', a2, b2, new)
    BY <2>2 DEF Laid
  <2>4. \A i \in 1 .. Len(heap'[new].kids) : FALSE
    BY <2>2
  <2>5. Storing(a2, b2, new)'
    BY <1>5, <2>2, <2>3, <2>4 DEF Storing
  <2>6. QED
    BY <1>6, <2>1, <2>5 DEF Stored
<1>8. Stays(a, b, a2, b2, Len(stack))
  <2>1. \A i \in 1 .. Len(stack) : SameFrame(i) /\ Keeps(stack[i].obj) /\ Placed(a, b, i)
    <3> TAKE i \in 1 .. Len(stack)
    <3>1. stack[i].obj \in 1 .. Len(heap) /\ SameFrame(i)
      BY <1>b, <1>2, <1>3, InRange DEF SameFrame
    <3>2. QED
      BY <1>4, <1>6, <3>1
  <2>2. Len(heap') \in Nat
    BY <1>a, <1>6
  <2>3. QED
    BY <1>2, <1>4, <1>6, <2>1, <2>2, BelowStay
<1>9. /\ Count(m)' = 0 /\ Last(a2, b2, m)' = Here /\ Goes(a2, b2, m)' = Here
      /\ Due(m)' = Mark(container, 1) /\ Begins(a2, b2, m)' = Here + 1
  <2>1. Count(m)' = 0
    BY <1>2, <1>3, EmptySeq DEF Count
  <2>2. Last(a2, b2, m)' = Here
    BY <1>3, <1>6, <2>1 DEF Last, Ends
  <2>3. Goes(a2, b2, m)' = Here
    BY <1>3, <2>2 DEF Goes
  <2>4. Due(m)' = Mark(container, 1)
    BY <1>2, <1>3, <2>1 DEF Due
  <2>5. m # 0
    BY <1>b, <1>2
  <2>6. QED
    BY <2>1, <2>2, <2>3, <2>4, <2>5 DEF Begins
<1>10. Placed(a2, b2, m)' /\ Awaits(a2, b2, m)'
  <2>1. Begins(a2, b2, m - 1)' = Here
    <3>1. PICK n \in 0 .. Len(stack) : n = Len(stack) /\ n = m - 1
      BY <1>b, <1>2
    <3>2. Begins(a2, b2, n)' = Begins(a, b, n)
      BY <1>8 DEF Stays
    <3>3. Begins(a, b, n) = Here
      BY <1>2, <1>4, <3>1 DEF Standing
    <3>4. QED
      BY <3>1, <3>2, <3>3
  <2>2. \A j \in 1 .. m - 1 : stack'[j].obj < new
    BY <1>a, <1>b, <1>2, <1>3, InRange
  <2>3. Placed(a2, b2, m)'
    BY <1>3, <1>6, <2>1, <2>2 DEF Placed
  <2>4. Awaits(a2, b2, m)'
    BY <1>2, <1>9 DEF Awaits, Takes
  <2>5. QED
    BY <2>3, <2>4
<1>11. \A i \in 1 .. Len(stack') : Placed(a2, b2, i)' /\ Awaits(a2, b2, i)'
  <2>1. \A i \in 1 .. Len(stack') : i \in 1 .. Len(stack) \/ i = m
    BY <1>b, <1>2, <1>3
  <2>2. QED
    BY <1>4, <1>8, <1>10, <2>1 DEF Stays
<1>12. Standing(a2, b2)'
  BY <1>3, <1>9 DEF Standing, Takes
<1>13. Built(a2, b2)'
  BY <1>7, <1>11, <1>12 DEF Built
<1>14. QED
  BY <1>13

\* Where the items of a container end is behind where it begins.
LEMMA LastBehind ==
  ASSUME Control, NEW a, NEW b, Stored(a, b), NEW o \in 1 .. Len(heap)
  PROVE  LET n == Len(heap[o].kids)
             e == IF n = 0 THEN a[o] + 1 ELSE Ends(heap, a, b, o, n)
         IN  e \in a[o] + 1 .. Len(Text) + 1 /\ a[o] \in 1 .. Len(Text) /\ Len(Text) \in Nat
<1>1. PICK x : x = [k \in 1 .. Len(heap) |-> Lies(Text, a, b, k)]
  OBVIOUS
<1>2. /\ Storing(a, b, o) /\ Len(heap[o].kids) \in Nat /\ Text \in Seq(Chars) /\ Len(heap) \in Nat
      /\ Len(Text) \in Nat
  <2>1. memory \in Seq(Chars)
    BY DEF Control, TypeOK
  <2>2. Text \in Seq(Chars)
    BY <2>1, Places DEF Text
  <2>3. QED
    BY <2>2, InRange, LenProperties DEF Stored
<1>3. \A i \in 1 .. Len(heap[o].kids) :
        /\ Within(Text, a, b, heap[o].kids[i])
        /\ x[heap[o].kids[i]] = Lies(Text, a, b, heap[o].kids[i])
  <2> TAKE i \in 1 .. Len(heap[o].kids)
  <2>1. heap[o].kids[i] \in o + 1 .. Len(heap) /\ ~Building(heap[o].kids[i])
    BY <1>2 DEF Storing, Laid, Item
  <2>2. PICK k \in 1 .. Len(heap) : k = heap[o].kids[i]
    BY <1>2, <2>1
  <2>3. Storing(a, b, k) /\ ~Building(k)
    BY <2>1, <2>2 DEF Stored
  <2>4. QED
    BY <1>1, <2>2, <2>3 DEF Storing, Spans
<1>4. Laid(heap, Text, a, b, o) /\ a[o] \in 1 .. Len(Text)
  BY <1>2 DEF Storing
<1>5. QED
  BY <1>2, <1>3, <1>4, ItemsLie

\* A container is closed.
LEMMA ContainerClosed ==
  ASSUME Control, Refs, NEW a, NEW b, Built(a, b), stack # <<>>, pc \in {"loop", "sep"},
         pc = "loop" => Top.len = 0, heap' = heap, stack' = Pop, ret' = Top.obj, pc' = "return",
         heap[Top.obj].kind \in {"list", "dict"}, Takes(Shut(heap[Top.obj].kind))
  PROVE  \E a2, b2 : Built(a2, b2)'
<1>1. PICK c : c = Top.obj
  OBVIOUS
<1>2. PICK m : m = Len(stack)
  OBVIOUS
<1>3. PICK n : n = m - 1
  OBVIOUS
<1>4. PICK b2 : b2 = [o \in Nat |-> IF o = c THEN Here + 1 ELSE b[o]]
  OBVIOUS
<1>5. /\ m \in Nat \ {0} /\ n \in Nat /\ stack[m].obj = c /\ stack[m].name = 0 /\ stack[m].len = Top.len
      /\ c \in 1 .. Len(heap) /\ Len(heap) \in Nat /\ Len(heap[c].kids) \in Nat
      /\ memory' = memory /\ Text' = Text
  <2>1. m \in Nat \ {0} /\ n \in Nat /\ Len(heap) \in Nat /\ m \in 1 .. Len(stack)
    BY <1>2, <1>3, InRange, EmptySeq
  <2>2. stack[m] = Top /\ Top.name = 0
    BY <1>2 DEF Top, Control, Keys
  <2>3. c \in 1 .. Len(heap) /\ Len(heap[c].kids) \in Nat
    BY <1>1, <2>1, <2>2, InRange
  <2>4. memory' = memory /\ Text' = Text
    BY DEF Takes, Text, Strip, Kept
  <2>5. QED
    BY <1>1, <2>1, <2>2, <2>3, <2>4
<1>6. /\ Len(stack') = n /\ \A i \in 1 .. n : stack'[i] = stack[i]
  BY <1>2, <1>3, InRange, PopStack
<1>7. /\ Stored(a, b) /\ Standing(a, b) /\ \A i \in 1 .. m : Placed(a, b, i)
      /\ \A i \in 1 .. n : Awaits(a, b, i)
      /\ pc = "loop" => Awaits(a, b, m)
  <2>1. \A i \in 1 .. n : i \in 1 .. m /\ i < m
    BY <1>3, <1>5
  <2>2. m \in 1 .. m
    BY <1>5
  <2>3. QED
    BY <1>2, <2>1, <2>2 DEF Built, Waiting
<1>8. /\ Building(c) /\ ~Building(c)'
      /\ \A o : Building(o)' => Building(o)
      /\ \A o : o # c /\ Building(o) => Building(o)'
  <2>1. \A i \in 1 .. n : i \in 1 .. m /\ i # m
    BY <1>3, <1>5
  <2>2. \A i \in 1 .. m : i = m \/ i \in 1 .. n
    BY <1>3, <1>5
  <2>3. \A i \in 1 .. n : stack[i].obj # c
    <3>1. DOMAIN stack = 1 .. m
      BY <1>2, InRange
    <3>2. QED
      BY <1>5, <2>1, <3>1 DEF Refs, Distinct
  <2>4. Building(c)
    BY <1>2, <1>5 DEF Building
  <2>5. \A o : Building(o)' <=> \E i \in 1 .. n : stack[i].obj = o
    BY <1>6 DEF Building
  <2>6. \A o : Building(o) <=> \E i \in 1 .. m : stack[i].obj = o
    BY <1>2 DEF Building
  <2>7. QED
    BY <1>5, <2>1, <2>2, <2>3, <2>4, <2>5, <2>6
<1>9. b2[c] = Here + 1 /\ \A o \in 1 .. Len(heap) : o # c => b2[o] = b[o]
  BY <1>4, <1>5
<1>10. Agrees(a, b, a, b2)
  BY <1>5, <1>8, <1>9 DEF Agrees
<1>11. \A o \in 1 .. Len(heap) : Keeps(o)
  BY DEF Keeps
<1>12. ItemsStay(a, b, a, b2, c)
  <2>1. Gains(c)
    BY <1>5 DEF Gains
  <2>2. QED
    BY <1>5, <1>7, <1>10, <2>1, GainedItems
<1> DEFINE k == Len(heap[c].kids)
           e == IF k = 0 THEN a[c] + 1 ELSE Ends(heap, a, b, c, k)
<1>13. e \in a[c] + 1 .. Len(Text) + 1 /\ a[c] \in 1 .. Len(Text) /\ Len(Text) \in Nat
  BY <1>5, <1>7, LastBehind
<1>14. /\ Count(m) = k /\ Last(a, b, m) = Ends(heap, a, b, c, k)
       /\ Goes(a, b, m) = Ends(heap, a, b, c, k)
       /\ Due(m) = Mark(heap[c].kind, k + 1)
       /\ Begins(a, b, m) = Goes(a, b, m) + 1
  BY <1>5 DEF Count, Last, Goes, Due, Begins
<1>15. Here = e /\ (k = 0 => pc = "loop")
  <2>1. CASE pc = "loop"
    <3>1. k = 0 /\ Here = Ends(heap, a, b, c, k) + 1
      BY <1>2, <1>7, <1>14, <2>1 DEF Standing
    <3>2. QED
      BY <2>1, <3>1 DEF Ends
  <2>2. CASE pc = "sep"
    BY <1>2, <1>7, <1>14, <2>2 DEF Standing
  <2>3. QED
    BY <2>1, <2>2
<1>16. Text[a[c]] = Mark(heap[c].kind, 1)
  <2>1. CASE k = 0
    <3>1. Text[Ends(heap, a, b, c, k)] = Mark(heap[c].kind, k + 1)
      BY <1>7, <1>14, <1>15, <2>1 DEF Awaits
    <3>2. Ends(heap, a, b, c, k) = a[c] /\ k + 1 = 1
      BY <2>1 DEF Ends
    <3>3. QED
      BY <3>1, <3>2
  <2>2. CASE k # 0
    <3>1. 1 \in 1 .. k
      BY <1>5, <2>2
    <3>2. Item(heap, Text, a, b, c, 1)
      BY <1>5, <1>7, <3>1 DEF Stored, Storing, Laid
    <3>3. QED
      BY <3>2 DEF Item, Ends
  <2>3. QED
    BY <2>1, <2>2
<1>17. Storing(a, b2, c)'
  <2>1. Within(Text, a, b2, c)
    BY <1>5, <1>9, <1>13, <1>15 DEF Within, Takes
  <2>2. b2[c] = 1 + IF k = 0 THEN a[c] + 1 ELSE Ends(heap, a, b2, c, k)
    <3>1. Ends(heap, a, b2, c, k) = Ends(heap, a, b, c, k)
      <4>1. k \in 0 .. k
        BY <1>5
      <4>2. QED
        BY <1>12, <4>1 DEF ItemsStay
    <3>2. QED
      BY <1>9, <1>13, <1>15, <3>1
  <2>3. Text[b2[c] - 1] = Shut(heap[c].kind)
    <3>1. b2[c] - 1 = Here
      BY <1>9, <1>13, <1>15
    <3>2. QED
      BY <1>1, <3>1 DEF Takes
  <2>4. heap[c].kind \in {"list", "dict"}
    BY <1>1
  <2>5. Spans(heap, Text, a, b2, c)
    BY <1>16, <2>1, <2>2, <2>3, <2>4 DEF Spans
  <2>6. Laid(heap, Text, a, b2, c) /\ \A i \in 1 .. Len(heap[c].kids) : ~Building(heap[c].kids[i])'
    BY <1>12 DEF Laid, ItemsStay
  <2>7. QED
    BY <1>5, <1>13, <2>5, <2>6 DEF Storing
<1> HIDE DEF k, e
<1>18. Stored(a, b2)'
  <2>1. \A o \in 1 .. Len(heap) : o # c => Storing(a, b2, o)'
    BY <1>5, <1>7, <1>8, <1>10, <1>11, KeptStored
  <2>2. QED
    BY <1>17, <2>1 DEF Stored
<1>19. Stays(a, b, a, b2, n)
  <2>1. \A i \in 1 .. n : SameFrame(i) /\ Keeps(stack[i].obj) /\ Placed(a, b, i)
    <3> TAKE i \in 1 .. n
    <3>1. i \in 1 .. Len(stack) /\ i \in 1 .. m /\ SameFrame(i)
      BY <1>2, <1>3, <1>5, <1>6 DEF SameFrame
    <3>2. stack[i].obj \in 1 .. Len(heap)
      BY <3>1, InRange
    <3>3. QED
      BY <1>7, <1>11, <3>1, <3>2
  <2>2. QED
    BY <1>5, <1>7, <1>10, <2>1, BelowStay
<1>20. Standing(a, b2)'
  <2>1. a[c] = Begins(a, b, n) /\ \A j \in 1 .. n : stack[j].obj < c
    <3>1. Placed(a, b, m)
      BY <1>5, <1>7
    <3>2. QED
      BY <1>3, <1>5, <3>1 DEF Placed
  <2>2. Begins(a, b2, n)' = Begins(a, b, n)
    <3>1. n \in 0 .. n
      BY <1>5
    <3>2. QED
      BY <1>19, <3>1 DEF Stays
  <2>3. QED
    BY <1>1, <1>6, <1>9, <2>1, <2>2 DEF Standing, Takes
<1>21. \A i \in 1 .. n : Placed(a, b2, i)' /\ Awaits(a, b2, i)'
  BY <1>7, <1>19 DEF Stays
<1>22. Built(a, b2)'
  BY <1>6, <1>18, <1>20, <1>21 DEF Built
<1>23. QED
  BY <1>22

\* The innermost activation and its container.
LEMMA TopIs ==
  ASSUME Control, Refs, NEW a, NEW b, Built(a, b), stack # <<>>,
         NEW m, m = Len(stack), NEW c, c = Top.obj
  PROVE  /\ m \in Nat \ {0} /\ m - 1 \in Nat /\ stack[m] = Top /\ Top \in Frames
         /\ c \in 1 .. Len(heap) /\ Len(heap) \in Nat /\ Len(heap[c].kids) \in Nat
         /\ heap[c].kids \in Seq(Nat)
         /\ \A i \in 1 .. m - 1 : stack[i].obj # c /\ stack[i].obj \in 1 .. Len(heap)
         /\ Building(c) /\ Stored(a, b) /\ Standing(a, b)
         /\ \A i \in 1 .. m : Placed(a, b, i)
         /\ \A i \in 1 .. m - 1 : Awaits(a, b, i)
         /\ pc \notin {"colon", "sep"} => Awaits(a, b, m)
         /\ Count(m) = Len(heap[c].kids) /\ Last(a, b, m) = Ends(heap, a, b, c, Len(heap[c].kids))
         /\ Begins(a, b, m) = Goes(a, b, m) + 1
<1>1. /\ m \in Nat \ {0} /\ m - 1 \in Nat /\ Len(heap) \in Nat /\ m \in 1 .. Len(stack)
      /\ DOMAIN stack = 1 .. Len(stack)
  BY InRange, EmptySeq
<1>2. stack[m] = Top /\ Top \in Frames
  BY TopPointers DEF Top
<1>3. c \in 1 .. Len(heap) /\ Len(heap[c].kids) \in Nat /\ heap[c].kids \in Seq(Nat)
  BY <1>1, TopPointers, InRange
<1>4. \A i \in 1 .. m - 1 : i \in 1 .. m /\ i # m /\ i < m /\ i \in 1 .. Len(stack)
  BY <1>1
<1>5. \A i \in 1 .. m - 1 : stack[i].obj # c /\ stack[i].obj \in 1 .. Len(heap)
  <2> TAKE i \in 1 .. m - 1
  <2>1. stack[i].obj # stack[m].obj
    BY <1>1, <1>4 DEF Refs, Distinct
  <2>2. QED
    BY <1>1, <1>2, <1>4, <2>1, InRange
<1>6. Building(c)
  BY <1>1, <1>2 DEF Building
<1>7. /\ Stored(a, b) /\ Standing(a, b)
      /\ \A i \in 1 .. m : Placed(a, b, i)
      /\ \A i \in 1 .. m - 1 : Awaits(a, b, i)
      /\ pc \notin {"colon", "sep"} => Awaits(a, b, m)
  BY <1>1, <1>4 DEF Built, Waiting
<1>8. /\ Count(m) = Len(heap[c].kids) /\ Last(a, b, m) = Ends(heap, a, b, c, Len(heap[c].kids))
      /\ Begins(a, b, m) = Goes(a, b, m) + 1
  BY <1>1, <1>2 DEF Count, Last, Begins
<1>9. QED
  BY <1>1, <1>2, <1>3, <1>5, <1>6, <1>7, <1>8

\* The innermost activation stays where it is, without a key.
LEMMA TopPlaced ==
  ASSUME NEW a, NEW b, NEW m \in Nat \ {0}, Placed(a, b, m), Stays(a, b, a, b, m - 1),
         \A i \in 1 .. m - 1 : stack'[i].obj = stack[i].obj,
         stack'[m].obj = stack[m].obj, stack'[m].name = 0
  PROVE  Placed(a, b, m)'
<1>1. Begins(a, b, m - 1)' = Begins(a, b, m - 1)
  BY DEF Stays
<1>2. a[stack'[m].obj] = Begins(a, b, m - 1)'
  BY <1>1 DEF Placed
<1>3. \A j \in 1 .. m - 1 : stack'[j].obj < stack'[m].obj
  BY DEF Placed
<1>4. QED
  BY <1>2, <1>3 DEF Placed

\* More items behind those of a container.
LEMMA Appended ==
  ASSUME NEW s \in Seq(Nat), NEW w \in Seq(Nat), NEW k, k = Len(s)
  PROVE  /\ Len(s \o w) = k + Len(w)
         /\ \A i \in 1 .. k : (s \o w)[i] = s[i]
         /\ \A j \in 1 .. Len(w) : (s \o w)[k + j] = w[j]
<1>1. k \in Nat /\ Len(w) \in Nat
  BY LenProperties
<1>2. /\ Len(s \o w) = k + Len(w)
      /\ \A i \in 1 .. k + Len(w) : (s \o w)[i] = IF i <= k THEN s[i] ELSE w[i - k]
  BY ConcatProperties
<1>3. \A i \in 1 .. k : (s \o w)[i] = s[i]
  BY <1>1, <1>2
<1>4. ASSUME NEW j \in 1 .. Len(w) PROVE (s \o w)[k + j] = w[j]
  <2>1. k + j \in 1 .. k + Len(w) /\ ~(k + j <= k) /\ k + j - k = j
    BY <1>1
  <2>2. QED
    BY <1>2, <2>1
<1>5. QED
  BY <1>2, <1>3, <1>4

\* What a container gets is behind the items it had.
PutBehind(c, k, w) ==
  /\ Len(heap') = Len(heap)
  /\ \A o \in 1 .. Len(heap) : o # c => Keeps(o)
  /\ Gains(c)
  /\ Len(heap'[c].kids) = k + Len(w)
  /\ \A j \in 1 .. Len(w) : heap'[c].kids[k + j] = w[j]

\* It is when objects are put into the innermost container.
LEMMA PutFacts ==
  ASSUME NEW c \in 1 .. Len(heap), c = Top.obj, heap[c].kids \in Seq(Nat),
         NEW k, k = Len(heap[c].kids), NEW w \in Seq(Nat), Puts(w)
  PROVE  PutBehind(c, k, w)
<1>1. PICK s : s = heap[c].kids
  OBVIOUS
<1>2. PICK t : t = s \o w
  OBVIOUS
<1>3. /\ k \in Nat /\ Len(w) \in Nat /\ Len(t) = k + Len(w)
      /\ \A i \in 1 .. k : t[i] = s[i]
      /\ \A j \in 1 .. Len(w) : t[k + j] = w[j]
  <2>1. s \in Seq(Nat) /\ k = Len(s)
    BY <1>1
  <2>2. /\ Len(s \o w) = k + Len(w)
        /\ \A i \in 1 .. k : (s \o w)[i] = s[i]
        /\ \A j \in 1 .. Len(w) : (s \o w)[k + j] = w[j]
    BY <2>1, Appended
  <2>3. QED
    BY <1>2, <2>1, <2>2, LenProperties
<1>4. /\ Len(heap') = Len(heap)
      /\ heap'[c].kind = heap[c].kind
      /\ heap'[c].kids = t
      /\ \A o \in 1 .. Len(heap) : o # c => Keeps(o)
  BY <1>1, <1>2 DEF Puts, Keeps
<1>5. Gains(c)
  BY <1>1, <1>3, <1>4 DEF Gains
<1>6. QED
  BY <1>3, <1>4, <1>5 DEF PutBehind

\* A container that gets items which lie behind those it has stays stored.
LEMMA GrownStored ==
  ASSUME Control, NEW a, NEW b, Stored(a, b), Agrees(a, b, a, b), Len(heap') \in Nat,
         NEW c \in 1 .. Len(heap), Gains(c), Building(c), \A o : Building(o)' <=> Building(o),
         NEW kids, kids = heap'[c].kids, Len(kids) \in Nat,
         \A i \in Len(heap[c].kids) + 1 .. Len(kids) :
           Item(heap', Text, a, b, c, i) /\ ~Building(kids[i])
  PROVE  Storing(a, b, c)'
<1>1. Text' = Text
  BY DEF Agrees, Text, Strip, Kept
<1>2. Storing(a, b, c) /\ Len(heap[c].kids) \in Nat /\ ItemsStay(a, b, a, b, c)
  BY InRange, GainedItems DEF Stored
<1>3. \A i \in 1 .. Len(kids) : Item(heap', Text, a, b, c, i) /\ ~Building(kids[i])
  <2> TAKE i \in 1 .. Len(kids)
  <2>1. CASE i \in 1 .. Len(heap[c].kids)
    <3>1. Item(heap', Text, a, b, c, i)
      BY <1>2, <2>1 DEF ItemsStay
    <3>2. ~Building(heap[c].kids[i]) /\ kids[i] = heap[c].kids[i]
      BY <1>2, <2>1 DEF Storing, Gains
    <3>3. QED
      BY <3>1, <3>2
  <2>2. CASE i \notin 1 .. Len(heap[c].kids)
    BY <1>2, <2>2
  <2>3. QED
    BY <2>1, <2>2
<1>4. Laid(heap', Text', a, b, c)
  BY <1>1, <1>3 DEF Laid
<1>5. Building(c)' /\ a[c] \in 1 .. Len(Text')
  BY <1>1, <1>2 DEF Storing
<1>6. \A i \in 1 .. Len(kids) : ~Building(kids[i])'
  BY <1>3
<1>7. (Laid(heap, Text, a, b, c) /\ a[c] \in 1 .. Len(Text))'
  BY <1>4, <1>5
<1>8. (\A i \in 1 .. Len(heap[c].kids) : ~Building(heap[c].kids[i]))'
  BY <1>6 DEF Building
<1>9. QED
  BY <1>5, <1>7, <1>8 DEF Storing

\* An item lies behind the one before it.
LEMMA ItemBehind ==
  ASSUME NEW h, NEW t, NEW a, NEW b, NEW c, NEW i, NEW k, k = i - 1,
         NEW x, x = h[c].kids[i], x \in c + 1 .. Len(h),
         NEW e, e = Ends(h, a, b, c, k),
         t[e] = Mark(h[c].kind, i), a[x] = e + 1
  PROVE  Item(h, t, a, b, c, i)
<1>1. Ends(h, a, b, c, i - 1) = e
  OBVIOUS
<1>2. QED
  BY <1>1 DEF Item

\* A value is put into a list.
LEMMA ItemBuilt ==
  ASSUME Control, Refs, NEW a, NEW b, Built(a, b), stack # <<>>, Top.name = 0, ret # 0,
         Puts(<<ret>>), stack' = stack, memory' = memory, Here' = Here, ret' = 0,
         pc = "return", pc' = "sep"
  PROVE  Built(a, b)'
<1>1. PICK c : c = Top.obj
  OBVIOUS
<1>2. PICK m : m = Len(stack)
  OBVIOUS
<1>3. PICK k : k = Len(heap[c].kids)
  OBVIOUS
<1>4. /\ m \in Nat \ {0} /\ m - 1 \in Nat /\ stack[m].obj = c /\ stack[m].name = 0
      /\ c \in 1 .. Len(heap) /\ Len(heap) \in Nat /\ k \in Nat
      /\ heap[c].kids \in Seq(Nat)
      /\ \A i \in 1 .. m - 1 : stack[i].obj # c /\ stack[i].obj \in 1 .. Len(heap)
      /\ Building(c) /\ Stored(a, b) /\ Standing(a, b)
      /\ \A i \in 1 .. m : Placed(a, b, i)
      /\ \A i \in 1 .. m - 1 : Awaits(a, b, i)
      /\ Awaits(a, b, m)
      /\ Count(m) = k /\ Last(a, b, m) = Ends(heap, a, b, c, k)
      /\ Begins(a, b, m) = Goes(a, b, m) + 1
  BY <1>1, <1>2, <1>3, TopIs
<1>5. Text' = Text
  BY DEF Text, Strip, Kept
<1>6. \A o : Building(o)' <=> Building(o)
  BY DEF Building
<1>7. /\ Len(heap') = Len(heap) /\ Gains(c)
      /\ \A o \in 1 .. Len(heap) : o # c => Keeps(o)
      /\ Len(heap'[c].kids) = k + 1 /\ heap'[c].kids[k + 1] = ret
  <2>1. PICK w : w = <<ret>>
    OBVIOUS
  <2>2. w \in Seq(Nat) /\ Len(w) = 1 /\ w[1] = ret /\ 1 \in 1 .. Len(w)
    BY <2>1 DEF Control, TypeOK
  <2>3. PutBehind(c, k, w)
    BY <1>1, <1>3, <1>4, <2>1, <2>2, PutFacts
  <2>4. QED
    BY <2>2, <2>3 DEF PutBehind
<1>8. heap'[c].kind = heap[c].kind
  BY <1>7 DEF Gains
<1>9. Agrees(a, b, a, b)
  BY <1>4, <1>6, <1>7 DEF Agrees
<1>10. ItemsStay(a, b, a, b, c)
  BY <1>4, <1>7, <1>9, GainedItems
<1>11. /\ Goes(a, b, m) = Ends(heap, a, b, c, k)
       /\ Text[Ends(heap, a, b, c, k)] = Mark(heap[c].kind, k + 1)
       /\ a[ret] = Ends(heap, a, b, c, k) + 1 /\ b[ret] = Here
       /\ ret \in c + 1 .. Len(heap) /\ ~Building(ret)
  <2>1. Goes(a, b, m) = Ends(heap, a, b, c, k) /\ Due(m) = Mark(heap[c].kind, k + 1)
    BY <1>4 DEF Goes, Due
  <2>2. a[ret] = Begins(a, b, m) /\ b[ret] = Here /\ c < ret
    BY <1>2, <1>4 DEF Standing
  <2>3. ret \in 1 .. Len(heap)
    BY InRange
  <2>4. ~Building(ret)
    BY InRange DEF Refs, On, Building
  <2>5. QED
    BY <1>4, <2>1, <2>2, <2>3, <2>4 DEF Awaits
<1>12. Ends(heap', a, b, c, k) = Ends(heap, a, b, c, k)
  BY <1>3, <1>4, <1>10 DEF ItemsStay
<1>13. Storing(a, b, c)'
  <2>1. Item(heap', Text, a, b, c, k + 1) /\ ~Building(heap'[c].kids[k + 1])
    <3>1. PICK h : h = heap'
      OBVIOUS
    <3>2. PICK e : e = Ends(h, a, b, c, k)
      OBVIOUS
    <3>3. PICK i : i = k + 1
      OBVIOUS
    <3>4. k = i - 1 /\ ret = h[c].kids[i] /\ ret \in c + 1 .. Len(h)
      BY <1>4, <1>7, <1>11, <3>1, <3>3
    <3>5. h[c].kind = heap[c].kind /\ Text[e] = Mark(heap[c].kind, i) /\ a[ret] = e + 1
      BY <1>8, <1>11, <1>12, <3>1, <3>2, <3>3
    <3>6. Item(h, Text, a, b, c, i)
      BY <3>2, <3>4, <3>5, ItemBehind
    <3>7. QED
      BY <1>7, <1>11, <3>1, <3>3, <3>6
  <2>2. PICK kids : kids = heap'[c].kids
    OBVIOUS
  <2>3. Len(kids) \in Nat /\ \A i \in Len(heap[c].kids) + 1 .. Len(kids) : i = k + 1
    BY <1>3, <1>4, <1>7, <2>2
  <2>4. \A i \in Len(heap[c].kids) + 1 .. Len(kids) :
          Item(heap', Text, a, b, c, i) /\ ~Building(kids[i])
    BY <2>1, <2>2, <2>3
  <2>5. QED
    BY <1>4, <1>6, <1>7, <1>9, <2>2, <2>3, <2>4, GrownStored
<1>14. Stored(a, b)'
  <2>1. \A o \in 1 .. Len(heap) : o # c => Storing(a, b, o)'
    BY <1>4, <1>6, <1>7, <1>9, KeptStored
  <2>2. QED
    BY <1>7, <1>13, <2>1 DEF Stored
<1>15. Stays(a, b, a, b, m - 1)
  <2>1. \A i \in 1 .. m - 1 : SameFrame(i) /\ Keeps(stack[i].obj) /\ Placed(a, b, i)
    BY <1>2, <1>4, <1>7 DEF SameFrame
  <2>2. QED
    BY <1>4, <1>7, <1>9, <2>1, BelowStay
<1>16. \A i \in 1 .. m : Placed(a, b, i)' /\ (Waiting(i)' => Awaits(a, b, i)')
  <2> TAKE i \in 1 .. m
  <2>1. CASE i = m
    <3>1. Placed(a, b, m)'
      BY <1>4, <1>15, TopPlaced
    <3>2. ~Waiting(m)'
      BY <1>2, <1>4 DEF Waiting
    <3>3. QED
      BY <2>1, <3>1, <3>2
  <2>2. CASE i # m
    <3>1. i \in 1 .. m - 1
      BY <1>4, <2>2
    <3>2. QED
      BY <1>4, <1>15, <3>1 DEF Stays
  <2>3. QED
    BY <2>1, <2>2
<1>17. Goes(a, b, m)' = Here /\ Count(m)' = k + 1
  <2>1. Count(m)' = k + 1
    BY <1>4, <1>7 DEF Count
  <2>2. Ends(heap', a, b, c, k + 1) = Here
    BY <1>4, <1>7, <1>11 DEF Ends
  <2>3. QED
    BY <1>4, <2>1, <2>2 DEF Goes, Last
<1>18. Standing(a, b)'
  <2>1. Len(stack') = m
    BY <1>2
  <2>2. (Here = Goes(a, b, Len(stack)) /\ Count(Len(stack)) # 0)'
    <3>1. PICK q : q = Len(stack')
      OBVIOUS
    <3>2. Goes(a, b, q)' = Here' /\ Count(q)' # 0
      BY <1>4, <1>17, <2>1, <3>1
    <3>3. QED
      BY <3>1, <3>2 DEF Goes, Count, Last
  <2>3. QED
    BY <2>2 DEF Standing
<1>19. QED
  BY <1>2, <1>14, <1>16, <1>18 DEF Built

\* What a change of the innermost activation leaves as it is.
LEMMA TopChanges ==
  ASSUME Control, stack # <<>>, NEW f \in Frames, stack' = SetTop(f), f.obj = Top.obj,
         NEW m, m = Len(stack)
  PROVE  /\ m \in Nat \ {0} /\ Len(stack') = m /\ stack'[m] = f /\ Top' = f
         /\ \A i \in 1 .. m - 1 : SameFrame(i)
         /\ \A o : Building(o)' <=> Building(o)
<1>1. stack \in Seq(Frames) /\ m \in Nat \ {0} /\ stack[m] = Top
  BY InRange, EmptySeq DEF Top
<1>2. /\ Len(stack') = m /\ stack'[m] = f
      /\ \A i \in 1 .. m - 1 : stack'[i] = stack[i]
  BY <1>1, SetTopStack
<1>3. \A i \in 1 .. m - 1 : SameFrame(i)
  BY <1>1, <1>2 DEF SameFrame
<1>4. \A i \in 1 .. m : stack'[i].obj = stack[i].obj
  <2> TAKE i \in 1 .. m
  <2>1. CASE i = m
    BY <1>1, <1>2, <2>1
  <2>2. CASE i # m
    BY <1>1, <1>2, <2>2
  <2>3. QED
    BY <2>1, <2>2
<1>5. \A o : Building(o)' <=> Building(o)
  BY <1>2, <1>4 DEF Building
<1>6. QED
  BY <1>1, <1>2, <1>3, <1>5 DEF Top

\* A key is taken.
LEMMA KeyTaken ==
  ASSUME Control, Refs, NEW a, NEW b, Built(a, b), stack # <<>>, Top.name = 0, ret # 0,
         heap' = heap, memory' = memory, Here' = Here, ret' = 0,
         pc = "return", pc' = "colon", stack' = SetTop([Top EXCEPT !.name = ret])
  PROVE  Built(a, b)'
<1>1. PICK c : c = Top.obj
  OBVIOUS
<1>2. PICK m : m = Len(stack)
  OBVIOUS
<1>3. PICK k : k = Len(heap[c].kids)
  OBVIOUS
<1>a. PICK f : f = [Top EXCEPT !.name = ret]
  OBVIOUS
<1>4. /\ m \in Nat \ {0} /\ m - 1 \in Nat /\ stack[m].obj = c /\ stack[m].name = 0
      /\ c \in 1 .. Len(heap) /\ Len(heap) \in Nat /\ k \in Nat /\ Top \in Frames
      /\ Stored(a, b) /\ Standing(a, b)
      /\ \A i \in 1 .. m : Placed(a, b, i)
      /\ \A i \in 1 .. m - 1 : Awaits(a, b, i)
      /\ Awaits(a, b, m)
      /\ Count(m) = k /\ Last(a, b, m) = Ends(heap, a, b, c, k)
      /\ Begins(a, b, m) = Goes(a, b, m) + 1
  BY <1>1, <1>2, <1>3, TopIs
<1>5. Text' = Text
  BY DEF Text, Strip, Kept
<1>6. f \in Frames /\ f.obj = c /\ f.name = ret
  <2>1. ret \in Nat
    BY DEF Control, TypeOK
  <2>2. QED
    BY <1>1, <1>4, <1>a, <2>1, FrameUpdates
<1>7. /\ Len(stack') = m /\ stack'[m] = f
      /\ \A i \in 1 .. m - 1 : SameFrame(i)
      /\ \A o : Building(o)' <=> Building(o)
  BY <1>1, <1>2, <1>6, <1>a, TopChanges
<1>8. Agrees(a, b, a, b) /\ \A o \in 1 .. Len(heap) : Keeps(o)
  BY <1>4, <1>7 DEF Agrees, Keeps
<1>9. Stored(a, b)'
  <2>1. \A o \in 1 .. Len(heap) : Storing(a, b, o)'
    BY <1>4, <1>7, <1>8, KeptStored
  <2>2. QED
    BY <2>1 DEF Stored
<1>10. Stays(a, b, a, b, m - 1)
  <2>1. \A i \in 1 .. m - 1 : SameFrame(i) /\ Keeps(stack[i].obj) /\ Placed(a, b, i)
    BY <1>2, <1>4, <1>7, <1>8, InRange DEF SameFrame
  <2>2. QED
    BY <1>4, <1>8, <2>1, BelowStay
<1>11. /\ Goes(a, b, m) = Last(a, b, m) /\ Text[Last(a, b, m)] = Mark(heap[c].kind, k + 1)
       /\ a[ret] = Last(a, b, m) + 1 /\ b[ret] = Here /\ c < ret
  <2>1. Goes(a, b, m) = Last(a, b, m) /\ Due(m) = Mark(heap[c].kind, k + 1)
    BY <1>4 DEF Goes, Due
  <2>2. a[ret] = Begins(a, b, m) /\ b[ret] = Here /\ c < ret
    BY <1>2, <1>4 DEF Standing
  <2>3. QED
    BY <1>4, <2>1, <2>2 DEF Awaits
<1>12. Last(a, b, m)' = Last(a, b, m) /\ Count(m)' = k
  BY <1>4, <1>6, <1>7 DEF Last, Count
<1>13. Placed(a, b, m)'
  <2>1. a[c] = Begins(a, b, m - 1)' /\ \A j \in 1 .. m - 1 : stack[j].obj < c
    BY <1>4, <1>10 DEF Placed, Stays
  <2>2. \A j \in 1 .. m - 1 : stack'[j].obj < c
    BY <1>7, <2>1 DEF SameFrame
  <2>3. a[ret] = Last(a, b, m)' + 1 /\ Text'[Last(a, b, m)'] = Mark(heap'[c].kind, Count(m)' + 1)
    BY <1>5, <1>11, <1>12
  <2>4. stack'[m].obj = c /\ stack'[m].name = ret
    BY <1>6, <1>7
  <2>5. QED
    BY <1>11, <2>1, <2>2, <2>3, <2>4 DEF Placed
<1>14. \A i \in 1 .. m : Placed(a, b, i)' /\ (Waiting(i)' => Awaits(a, b, i)')
  <2> TAKE i \in 1 .. m
  <2>1. CASE i = m
    <3>1. ~Waiting(m)'
      BY <1>4, <1>7 DEF Waiting
    <3>2. QED
      BY <1>13, <2>1, <3>1
  <2>2. CASE i # m
    <3>1. i \in 1 .. m - 1
      BY <1>4, <2>2
    <3>2. QED
      BY <1>4, <1>10, <3>1 DEF Stays
  <2>3. QED
    BY <2>1, <2>2
<1>15. Standing(a, b)'
  <2>1. PICK q : q = Len(stack')
    OBVIOUS
  <2>2. Goes(a, b, q)' = Here'
    BY <1>6, <1>7, <1>11, <2>1 DEF Goes
  <2>3. Goes(a, b, Len(stack))' = Here'
    BY <2>1, <2>2 DEF Goes, Count, Last
  <2>4. QED
    BY <2>3 DEF Standing
<1>16. QED
  BY <1>7, <1>9, <1>14, <1>15 DEF Built

\* An item is put into the innermost container: the next one is behind a comma.
CommaNext(o, ch) == Len(heap[o].kids) # 0 => Mark(heap[o].kind, Len(heap[o].kids) + 1) = ch

\* So it is, for a dict holds pairs.
LEMMA CommaBefore ==
  ASSUME Control, Shape, NEW o \in 1 .. Len(heap)
  PROVE  CommaNext(o, ",")
<1>1. PICK k : k = Len(heap[o].kids)
  OBVIOUS
<1>2. k \in Nat
  BY <1>1, InRange
<1>3. heap[o].kind = "dict" => k % 2 = 0
  BY <1>1 DEF Shape, Pairs, Paired
<1>4. heap[o].kind = "dict" => (k + 1) % 2 # 0
  BY <1>2, <1>3
<1>5. k # 0 => k + 1 # 1
  BY <1>2
<1>6. k # 0 => Mark(heap[o].kind, k + 1) = ","
  BY <1>4, <1>5 DEF Mark
<1>7. QED
  BY <1>1, <1>6, Zenon DEF CommaNext

\* A comma is read.
LEMMA CommaBuilt ==
  ASSUME Control, Refs, NEW a, NEW b, Built(a, b), NEW ch, Takes(ch),
         CommaNext(Top.obj, ch), heap' = heap, ret' = ret,
         pc = "sep", pc' = "loop",
         NEW f \in Frames, stack' = SetTop(f), f.obj = Top.obj, f.name = 0, f.len # 0
  PROVE  Built(a, b)'
<1>0. stack # <<>> /\ Top.name = 0 /\ ret = 0
  BY DEF Control, Activations, Keys, GoingOn
<1>1. PICK c : c = Top.obj
  OBVIOUS
<1>2. PICK m : m = Len(stack)
  OBVIOUS
<1>3. PICK k : k = Len(heap[c].kids)
  OBVIOUS
<1>4. /\ m \in Nat \ {0} /\ m - 1 \in Nat /\ stack[m].obj = c /\ stack[m].name = 0
      /\ c \in 1 .. Len(heap) /\ Len(heap) \in Nat /\ k \in Nat /\ Top \in Frames
      /\ Stored(a, b) /\ Standing(a, b)
      /\ \A i \in 1 .. m : Placed(a, b, i)
      /\ \A i \in 1 .. m - 1 : Awaits(a, b, i)
      /\ Count(m) = k
  BY <1>0, <1>1, <1>2, <1>3, TopIs
<1>5. Text' = Text /\ memory' = memory
  BY DEF Text, Strip, Kept, Takes
<1>6. f.obj = c
  BY <1>1
<1>7. /\ Len(stack') = m /\ stack'[m] = f /\ Top' = f
      /\ \A i \in 1 .. m - 1 : SameFrame(i)
      /\ \A o : Building(o)' <=> Building(o)
  BY <1>0, <1>1, <1>2, <1>6, TopChanges
<1>8. Agrees(a, b, a, b) /\ \A o \in 1 .. Len(heap) : Keeps(o)
  BY <1>4, <1>5, <1>7 DEF Agrees, Keeps
<1>9. Stored(a, b)'
  <2>1. \A o \in 1 .. Len(heap) : Storing(a, b, o)'
    BY <1>4, <1>7, <1>8, KeptStored
  <2>2. QED
    BY <2>1 DEF Stored
<1>10. Stays(a, b, a, b, m - 1)
  <2>1. \A i \in 1 .. m - 1 : SameFrame(i) /\ Keeps(stack[i].obj) /\ Placed(a, b, i)
    BY <1>2, <1>4, <1>7, <1>8, InRange DEF SameFrame
  <2>2. QED
    BY <1>4, <1>8, <2>1, BelowStay
<1>11. Goes(a, b, m) = Here /\ Due(m) = ch /\ Begins(a, b, m) = Here + 1
  <2>1. Goes(a, b, m) = Here /\ k # 0
    BY <1>2, <1>4 DEF Standing
  <2>2. Due(m) = Mark(heap[c].kind, k + 1)
    BY <1>4 DEF Due
  <2>3. Mark(heap[c].kind, k + 1) = ch
    BY <1>1, <1>3, <2>1 DEF CommaNext
  <2>4. QED
    BY <1>4, <2>1, <2>2, <2>3 DEF Begins
<1>12. Goes(a, b, m)' = Goes(a, b, m) /\ Due(m)' = Due(m) /\ Begins(a, b, m)' = Begins(a, b, m)
  BY <1>4, <1>6, <1>7 DEF Goes, Due, Begins, Last, Count
<1>13. Placed(a, b, m)'
  <2>1. \A i \in 1 .. m - 1 : stack'[i].obj = stack[i].obj
    BY <1>7 DEF SameFrame
  <2>2. stack'[m].obj = stack[m].obj /\ stack'[m].name = 0
    BY <1>4, <1>6, <1>7
  <2>3. QED
    BY <1>4, <1>10, <2>1, <2>2, TopPlaced
<1>14. \A i \in 1 .. m : Placed(a, b, i)' /\ Awaits(a, b, i)'
  <2> TAKE i \in 1 .. m
  <2>1. CASE i = m
    <3>1. Awaits(a, b, m)'
      BY <1>5, <1>11, <1>12 DEF Awaits, Takes
    <3>2. QED
      BY <1>13, <2>1, <3>1
  <2>2. CASE i # m
    <3>1. i \in 1 .. m - 1
      BY <1>4, <2>2
    <3>2. QED
      BY <1>4, <1>10, <3>1 DEF Stays
  <2>3. QED
    BY <2>1, <2>2
<1>15. Standing(a, b)'
  <2>1. PICK q : q = Len(stack')
    OBVIOUS
  <2>2. Begins(a, b, q)' = Here'
    BY <1>7, <1>11, <1>12, <2>1 DEF Takes
  <2>3. Begins(a, b, Len(stack))' = Here'
    BY <2>1, <2>2 DEF Begins, Goes, Count, Last
  <2>4. QED
    BY <1>0, <1>6, <1>7, <2>3 DEF Standing
<1>16. QED
  BY <1>7, <1>9, <1>14, <1>15 DEF Built

\* In a dict the value is behind a colon.
ColonNext(o) ==
  heap[o].kind = "dict" /\ Mark(heap[o].kind, Len(heap[o].kids) + 2) = ":"

\* So it is, for a dict holds pairs.
LEMMA ColonBefore ==
  ASSUME Control, Shape, NEW o \in 1 .. Len(heap), heap[o].kind = "dict"
  PROVE  ColonNext(o)
<1>1. PICK k : k = Len(heap[o].kids)
  OBVIOUS
<1>2. k \in Nat
  BY <1>1, InRange
<1>3. k % 2 = 0
  BY <1>1 DEF Shape, Pairs, Paired
<1>4. (k + 2) % 2 = 0 /\ k + 2 # 1
  BY <1>2, <1>3
<1>5. Mark("dict", k + 2) = ":"
  BY <1>4, Zenon DEF Mark
<1>6. QED
  BY <1>1, <1>5, Zenon DEF ColonNext

\* A key and its value are put into a dict.
LEMMA PairBuilt ==
  ASSUME Control, Refs, NEW a, NEW b, Built(a, b), stack # <<>>, NEW n, n = Top.name, n # 0,
         ret # 0, Puts(<<n, ret>>), memory' = memory, Here' = Here, ret' = 0,
         pc = "return", pc' = "sep", ColonNext(Top.obj),
         NEW f \in Frames, stack' = SetTop(f), f.obj = Top.obj, f.name = 0
  PROVE  Built(a, b)'
<1>1. PICK c : c = Top.obj
  OBVIOUS
<1>2. PICK m : m = Len(stack)
  OBVIOUS
<1>3. PICK k : k = Len(heap[c].kids)
  OBVIOUS
<1>4. /\ m \in Nat \ {0} /\ m - 1 \in Nat /\ stack[m].obj = c /\ stack[m].name = n
      /\ c \in 1 .. Len(heap) /\ Len(heap) \in Nat /\ k \in Nat
      /\ heap[c].kids \in Seq(Nat)
      /\ \A i \in 1 .. m - 1 : stack[i].obj # c /\ stack[i].obj \in 1 .. Len(heap)
      /\ Building(c) /\ Stored(a, b) /\ Standing(a, b)
      /\ \A i \in 1 .. m : Placed(a, b, i)
      /\ \A i \in 1 .. m - 1 : Awaits(a, b, i)
      /\ Awaits(a, b, m)
      /\ Count(m) = k /\ Last(a, b, m) = Ends(heap, a, b, c, k)
      /\ Begins(a, b, m) = Goes(a, b, m) + 1
  BY <1>1, <1>2, <1>3, TopIs
<1>5. Text' = Text
  BY DEF Text, Strip, Kept
<1>6. /\ Len(stack') = m /\ stack'[m] = f
      /\ \A i \in 1 .. m - 1 : SameFrame(i)
      /\ \A o : Building(o)' <=> Building(o)
  BY <1>2, TopChanges
<1>7. /\ Len(heap') = Len(heap) /\ Gains(c)
      /\ \A o \in 1 .. Len(heap) : o # c => Keeps(o)
      /\ Len(heap'[c].kids) = k + 2 /\ heap'[c].kids[k + 1] = n /\ heap'[c].kids[k + 2] = ret
  <2>1. PICK w : w = <<n, ret>>
    OBVIOUS
  <2>2. n \in Nat /\ ret \in Nat
    BY TopPointers DEF Control, TypeOK
  <2>3. w \in Seq(Nat) /\ Len(w) = 2 /\ w[1] = n /\ w[2] = ret /\ 1 \in 1 .. Len(w) /\ 2 \in 1 .. Len(w)
    BY <2>1, <2>2
  <2>4. PutBehind(c, k, w)
    BY <1>1, <1>3, <1>4, <2>1, <2>3, PutFacts
  <2>5. QED
    BY <2>3, <2>4 DEF PutBehind
<1>8. heap'[c].kind = heap[c].kind
  BY <1>7 DEF Gains
<1>9. Agrees(a, b, a, b)
  BY <1>4, <1>6, <1>7 DEF Agrees
<1>10. ItemsStay(a, b, a, b, c)
  BY <1>4, <1>7, <1>9, GainedItems
<1>11. /\ Text[Ends(heap, a, b, c, k)] = Mark(heap[c].kind, k + 1)
       /\ a[n] = Ends(heap, a, b, c, k) + 1
       /\ Text[b[n]] = Mark(heap[c].kind, k + 2)
       /\ a[ret] = b[n] + 1 /\ b[ret] = Here
  <2>1. Goes(a, b, m) = b[n] /\ Due(m) = ":"
    BY <1>4 DEF Goes, Due
  <2>2. a[ret] = Begins(a, b, m) /\ b[ret] = Here
    BY <1>2, <1>4 DEF Standing
  <2>3. Placed(a, b, m)
    BY <1>4
  <2>4. /\ Text[Ends(heap, a, b, c, k)] = Mark(heap[c].kind, k + 1)
        /\ a[n] = Ends(heap, a, b, c, k) + 1
    BY <1>4, <2>3 DEF Placed
  <2>5. Text[b[n]] = ":"
    BY <1>4, <2>1 DEF Awaits
  <2>6. Mark(heap[c].kind, k + 2) = ":"
    BY <1>1, <1>3 DEF ColonNext
  <2>7. QED
    BY <1>4, <2>1, <2>2, <2>4, <2>5, <2>6
<1>12. n \in c + 1 .. Len(heap) /\ ret \in c + 1 .. Len(heap) /\ ~Building(n) /\ ~Building(ret)
  <2>1. Placed(a, b, m) /\ m \in 1 .. m /\ m \in DOMAIN stack
    BY <1>2, <1>4, InRange
  <2>2. c < n
    BY <1>4, <2>1 DEF Placed
  <2>3. c < ret
    BY <1>2, <1>4, <2>1 DEF Standing
  <2>4. n \in 1 .. Len(heap) /\ ret \in 1 .. Len(heap)
    BY TopPointers, InRange
  <2>5. ~Building(n)
    <3>1. \A i \in 1 .. Len(stack) : stack[i].obj # stack[m].name
      BY <2>1, InRange DEF Refs, Distinct
    <3>2. QED
      BY <1>4, <3>1 DEF Building
  <2>6. ~Building(ret)
    BY InRange DEF Refs, On, Building
  <2>7. QED
    BY <1>4, <2>2, <2>3, <2>4, <2>5, <2>6
<1>13. Ends(heap', a, b, c, k) = Ends(heap, a, b, c, k) /\ Ends(heap', a, b, c, k + 1) = b[n]
  <2>1. Ends(heap', a, b, c, k) = Ends(heap, a, b, c, k)
    BY <1>3, <1>4, <1>10 DEF ItemsStay
  <2>2. k + 1 # 0
    BY <1>4
  <2>3. QED
    BY <1>7, <2>1, <2>2 DEF Ends
<1>14. Storing(a, b, c)'
  <2>1. PICK h : h = heap'
    OBVIOUS
  <2>2. Item(h, Text, a, b, c, k + 1)
    <3>1. PICK e : e = Ends(h, a, b, c, k)
      OBVIOUS
    <3>2. PICK i : i = k + 1
      OBVIOUS
    <3>3. k = i - 1 /\ n = h[c].kids[i] /\ n \in c + 1 .. Len(h)
      BY <1>4, <1>7, <1>12, <2>1, <3>2
    <3>4. h[c].kind = heap[c].kind /\ Text[e] = Mark(heap[c].kind, i) /\ a[n] = e + 1
      BY <1>8, <1>11, <1>13, <2>1, <3>1, <3>2
    <3>5. Item(h, Text, a, b, c, i)
      BY <3>1, <3>3, <3>4, ItemBehind
    <3>6. QED
      BY <3>2, <3>5
  <2>3. Item(h, Text, a, b, c, k + 2)
    <3>1. PICK j : j = k + 1
      OBVIOUS
    <3>2. PICK i : i = k + 2
      OBVIOUS
    <3>3. PICK e : e = Ends(h, a, b, c, j)
      OBVIOUS
    <3>4. j = i - 1 /\ ret = h[c].kids[i] /\ ret \in c + 1 .. Len(h)
      BY <1>4, <1>7, <1>12, <2>1, <3>1, <3>2
    <3>5. e = b[n]
      BY <1>13, <2>1, <3>1, <3>3
    <3>6. h[c].kind = heap[c].kind /\ Text[e] = Mark(heap[c].kind, i) /\ a[ret] = e + 1
      BY <1>8, <1>11, <2>1, <3>2, <3>5
    <3>7. Item(h, Text, a, b, c, i)
      BY <3>3, <3>4, <3>6, ItemBehind
    <3>8. QED
      BY <3>2, <3>7
  <2>4. PICK kids : kids = heap'[c].kids
    OBVIOUS
  <2>5. Len(kids) \in Nat /\ \A i \in Len(heap[c].kids) + 1 .. Len(kids) : i = k + 1 \/ i = k + 2
    <3>1. Len(kids) = k + 2 /\ Len(heap[c].kids) = k /\ k \in Nat
      BY <1>3, <1>4, <1>7, <2>4
    <3>2. \A i \in k + 1 .. k + 2 : i = k + 1 \/ i = k + 2
      BY <3>1
    <3>3. QED
      BY <3>1, <3>2
  <2>6. ~Building(kids[k + 1]) /\ ~Building(kids[k + 2])
    BY <1>7, <1>12, <2>4
  <2>7. \A i \in Len(heap[c].kids) + 1 .. Len(kids) :
          Item(heap', Text, a, b, c, i) /\ ~Building(kids[i])
    BY <2>1, <2>2, <2>3, <2>5, <2>6
  <2>8. QED
    BY <1>4, <1>6, <1>7, <1>9, <2>4, <2>5, <2>7, GrownStored
<1>15. Stored(a, b)'
  <2>1. \A o \in 1 .. Len(heap) : o # c => Storing(a, b, o)'
    BY <1>4, <1>6, <1>7, <1>9, KeptStored
  <2>2. QED
    BY <1>7, <1>14, <2>1 DEF Stored
<1>16. Stays(a, b, a, b, m - 1)
  <2>1. \A i \in 1 .. m - 1 : SameFrame(i) /\ Keeps(stack[i].obj) /\ Placed(a, b, i)
    BY <1>4, <1>6, <1>7
  <2>2. QED
    BY <1>4, <1>7, <1>9, <2>1, BelowStay
<1>17. \A i \in 1 .. m : Placed(a, b, i)' /\ (Waiting(i)' => Awaits(a, b, i)')
  <2> TAKE i \in 1 .. m
  <2>1. CASE i = m
    <3>1. Placed(a, b, m)'
      <4>1. \A j \in 1 .. m - 1 : stack'[j].obj = stack[j].obj
        BY <1>6 DEF SameFrame
      <4>2. stack'[m].obj = stack[m].obj /\ stack'[m].name = 0 /\ Placed(a, b, m)
        BY <1>1, <1>4, <1>6
      <4>3. QED
        BY <1>4, <1>16, <4>1, <4>2, TopPlaced
    <3>2. ~Waiting(m)'
      BY <1>4, <1>6 DEF Waiting
    <3>3. QED
      BY <2>1, <3>1, <3>2
  <2>2. CASE i # m
    <3>1. i \in 1 .. m - 1
      BY <1>4, <2>2
    <3>2. QED
      BY <1>4, <1>16, <3>1 DEF Stays
  <2>3. QED
    BY <2>1, <2>2
<1>18. Standing(a, b)'
  <2>1. PICK q : q = Len(stack')
    OBVIOUS
  <2>2. Count(q)' = k + 2 /\ k + 2 # 0
    BY <1>1, <1>4, <1>6, <1>7, <2>1 DEF Count
  <2>3. Ends(heap', a, b, c, k + 2) = Here
    BY <1>4, <1>7, <1>11 DEF Ends
  <2>4. Goes(a, b, q)' = Here'
    BY <1>1, <1>6, <2>1, <2>2, <2>3 DEF Goes, Last
  <2>5. (Goes(a, b, Len(stack)) = Here /\ Count(Len(stack)) # 0)'
    BY <2>1, <2>2, <2>4 DEF Goes, Count, Last
  <2>6. QED
    BY <2>5 DEF Standing
<1>19. QED
  BY <1>6, <1>15, <1>17, <1>18 DEF Built

(***************************************************************************)
(* Every step of a decoder that goes on builds what it has read.           *)
(***************************************************************************)

\* A step that reads a character takes it from the text.
LEMMA TakesNext ==
  ASSUME Known, Clean, CharAt(start) \notin {" ", "NUL"}, memory' = memory, start' = start + 1
  PROVE  Takes(CharAt(start))
<1>1. Raw!Symbol = CharAt(start)
  BY ReaderSees
<1>2. memory \in Seq(Chars) /\ start \in 1 .. Len(memory) /\ CharAt(start) = memory[start]
  BY <1>1, NextCharacter
<1>3. /\ Place(memory, start + 1) = Place(memory, start) + 1
      /\ Place(memory, start) \in DOMAIN Strip(memory)
      /\ Strip(memory)[Place(memory, start)] = CharAt(start)
  BY <1>2, NextPlace
<1>4. Len(Strip(memory)) \in Nat /\ DOMAIN Strip(memory) = 1 .. Len(Strip(memory))
  BY <1>2, Places, LenProperties
<1>5. Place(memory, start)' = Place(memory, start + 1)
  BY DEF Place, Kept
<1>6. QED
  BY <1>3, <1>4, <1>5 DEF Takes, Here, Text

\* A step that reads nothing, or white space, stays where it is in the text.
LEMMA HereStays ==
  ASSUME Known, Clean, memory' = memory, start' = start \/ (IsSpace /\ start' = start + 1)
  PROVE  Here' = Here
<1>1. CASE start' = start
  BY <1>1 DEF Here, Place, Kept
<1>2. CASE IsSpace /\ start' = start + 1
  <2>1. Raw!Symbol = CharAt(start) /\ CharAt(start) = " "
    BY <1>2, ReaderSees DEF IsSpace
  <2>2. memory \in Seq(Chars) /\ start \in 1 .. Len(memory) /\ memory[start] = " "
    BY <2>1, NextCharacter
  <2>3. Place(memory, start + 1) = Place(memory, start)
    BY <2>2, NextPlace
  <2>4. Place(memory, start)' = Place(memory, start + 1)
    BY <1>2 DEF Place, Kept
  <2>5. QED
    BY <2>3, <2>4 DEF Here
<1>3. QED
  BY <1>1, <1>2

\* In a text there is no number that ends nowhere.
LEMMA NoOpenNumber ==
  ASSUME Known, Clean, Completes, pc = "any"
  PROVE  CharAt(start) # "z"
<1> SUFFICES ASSUME CharAt(start) = "z" PROVE FALSE
  OBVIOUS
<1>1. Raw!Symbol = "z" /\ memory \in Seq(Chars)
  BY ReaderSees, NextCharacter
<1>2. start \in 1 .. Len(memory) /\ memory[start] = "z"
  BY <1>1, NextCharacter
<1>3. Place(memory, start) \in DOMAIN Strip(memory) /\ Strip(memory)[Place(memory, start)] = "z"
  BY <1>1, <1>2, NextPlace
<1>4. Expected # "accepted"
  BY AnyExpects DEF ValueAt, KeyAt
<1>5. Opened(Strip(memory), KindsOf(stack), Expected)
  BY OpenedHere
<1>6. ~Leads(Strip(memory), Place(memory, start), KindsOf(stack), Expected)
  BY <1>3, <1>4, <1>5, NoSuchLead
<1>7. QED
  BY <1>6 DEF Completes, Going

\* A value is decoded, or a container entered.
LEMMA ElementBuilt ==
  ASSUME Known, Refs, Clean, Completes, NEW a, NEW b, Built(a, b), errorStr' = "none",
         pyErr' = "none", pyErr = "none", Element
  PROVE  \E a2, b2 : Built(a2, b2)'
<1>1. Control /\ heap \in Seq(Objects) /\ Kinds = {"str", "other", "list", "dict"}
  BY InRange DEF Known, Kinds
<1>2. pc = "any" => ret = 0
  BY <1>1 DEF Control, GoingOn
<1>3. CASE DecodeString
  <2>1. /\ pc = "any" /\ CharAt(start) = "s" /\ Made("str", "newScalar") /\ start' = start + 1
        /\ memory' = memory /\ stack' = stack
    BY <1>3, Zenon DEF DecodeString, Decode, NoMemory, Fail
  <2>2. Makes("str") /\ ret' = Len(heap) + 1
    BY <1>1, <2>1, MadeSteps
  <2>3. pc' = "return"
    BY <2>1, Zenon DEF Made
  <2>4. Takes("s")
    BY <2>1, TakesNext
  <2>5. QED
    BY <1>1, <2>1, <2>2, <2>3, <2>4, ScalarBuilt
<1>4. CASE DecodeScalar
  <2>1. /\ pc = "any" /\ CharAt(start) \in {"n", "z"} /\ Made("other", "newScalar")
        /\ start' = IF CharAt(start) = "z" THEN start ELSE start + 1
        /\ memory' = memory /\ stack' = stack
    BY <1>4, Zenon DEF DecodeScalar, Decode
  <2>2. CharAt(start) = "n" /\ start' = start + 1
    BY <2>1, NoOpenNumber
  <2>3. Makes("other") /\ ret' = Len(heap) + 1
    BY <1>1, <2>1, MadeSteps
  <2>4. pc' = "return"
    BY <2>1, Zenon DEF Made
  <2>5. Takes("n")
    BY <2>1, <2>2, TakesNext
  <2>6. QED
    BY <1>1, <2>1, <2>3, <2>4, <2>5, ScalarBuilt
<1>5. ~RejectValue
  BY Zenon DEF RejectValue, Fail
<1>6. ASSUME NEW kind \in {"array", "object"}, NEW container \in {"list", "dict"},
             NEW c, c \notin {" ", "NUL"}, CharAt(start) = c, Mark(container, 1) = c,
             pc = "any", Enter(kind, container)
      PROVE  \E a2, b2 : Built(a2, b2)'
  <2>1. /\ heap' = NewObject(container) /\ stack' = Append(stack, Frame(kind, NewId))
        /\ start' = start + 1 /\ pc' = "loop" /\ ret' = ret /\ memory' = memory
    BY <1>6, Zenon DEF Enter, Fail
  <2>2. Makes(container)
    BY <1>1, <1>6, <2>1, NewKind DEF Makes
  <2>3. Takes(Mark(container, 1))
    BY <1>6, <2>1, TakesNext
  <2>4. stack' = Append(stack, Frame(kind, Len(heap) + 1)) /\ ret' = 0
    BY <1>2, <1>6, <2>1 DEF NewId
  <2>5. QED
    BY <1>1, <1>6, <2>1, <2>2, <2>3, <2>4, ContainerOpened
<1>7. CASE DecodeArray
  <2>1. pc = "any" /\ CharAt(start) = "[" /\ Enter("array", "list")
    BY <1>7, Zenon DEF DecodeArray, Decode
  <2>2. Mark("list", 1) = "[" /\ "[" \notin {" ", "NUL"}
    BY Zenon DEF Mark
  <2>3. QED
    BY <1>6, <2>1, <2>2, Zenon
<1>8. CASE DecodeObject
  <2>1. pc = "any" /\ CharAt(start) = "{" /\ Enter("object", "dict")
    BY <1>8, Zenon DEF DecodeObject, Decode
  <2>2. Mark("dict", 1) = "{" /\ "{" \notin {" ", "NUL"}
    BY Zenon DEF Mark
  <2>3. QED
    BY <1>6, <2>1, <2>2, Zenon
<1>9. QED
  BY <1>3, <1>4, <1>5, <1>7, <1>8 DEF Element

\* A container is closed.
LEMMA CloseBuilt ==
  ASSUME Known, Refs, Clean, NEW a, NEW b, Built(a, b), pc \in {"loop", "sep"},
         pc = "loop" => Top.len = 0, CharAt(start) = Closer(Top.kind), ReturnContainer,
         memory' = memory
  PROVE  \E a2, b2 : Built(a2, b2)'
<1>1. Control /\ stack # <<>>
  BY DEF Known, Control, Activations
<1>2. PICK kind : kind = heap[Top.obj].kind
  OBVIOUS
<1>3. /\ Top.kind \in {"array", "object"}
      /\ kind = IF Top.kind = "array" THEN "list" ELSE "dict"
  BY <1>1, <1>2, TopIsFrame, InRange DEF Known, Shape, Containers, Top, Frames
<1>4. kind \in {"list", "dict"} /\ Closer(Top.kind) = Shut(kind)
  BY <1>3, Zenon DEF Closer, Shut
<1>5. /\ stack' = Pop /\ ret' = Top.obj /\ start' = start + 1 /\ pc' = "return" /\ heap' = heap
  BY DEF ReturnContainer
<1>6. CharAt(start) \notin {" ", "NUL"}
  BY Zenon DEF Closer
<1>7. Takes(Shut(kind))
  BY <1>4, <1>5, <1>6, TakesNext
<1>8. QED
  BY <1>1, <1>2, <1>4, <1>5, <1>7, ContainerClosed

\* An object is put into the innermost container.
LEMMA ReturnedBuilt ==
  ASSUME Known, Refs, Clean, NEW a, NEW b, Built(a, b), pyErr' = "none",
         AddItem \/ AddKey
  PROVE  \E a2, b2 : Built(a2, b2)'
<1>1. Control /\ Shape
  BY DEF Known
<1>2. /\ pc = "return" /\ ret # 0 /\ stack # <<>> /\ ret' = 0 /\ pc' = "sep"
      /\ memory' = memory /\ start' = start
  BY DEF AddItem, AddKey, Returned
<1>3. Here' = Here
  BY <1>2, HereStays
<1>4. CASE AddItem
  <2>1. stack' = stack /\ Top.kind = "array"
    BY <1>4 DEF AddItem, Returned
  <2>2. Puts(<<ret>>)
    BY <1>1, <1>4, AddItemSteps
  <2>3. Top.name = 0
    BY <1>1, <1>2, <2>1, TopPointers
  <2>4. Built(a, b)'
    BY <1>1, <1>2, <1>3, <2>1, <2>2, <2>3, ItemBuilt
  <2>5. QED
    BY <2>4
<1>5. CASE AddKey
  <2>1. PICK f : f = [Top EXCEPT !.name = 0]
    OBVIOUS
  <2>2. stack' = SetTop(f) /\ Top.kind = "object" /\ Top.name # 0
    BY <1>5, <2>1 DEF AddKey, Returned
  <2>3. f \in Frames /\ f.obj = Top.obj /\ f.name = 0
    BY <1>1, <1>2, <2>1, TopPointers, Updated
  <2>4. PICK n : n = Top.name
    OBVIOUS
  <2>5. Puts(<<n, ret>>)
    BY <1>1, <1>5, <2>4, AddKeySteps
  <2>6. ColonNext(Top.obj)
    <3>1. Top.obj \in 1 .. Len(heap) /\ Len(stack) \in DOMAIN stack
      BY <1>1, <1>2, TopPointers, TopIsFrame, InRange
    <3>2. heap[Top.obj].kind = "dict"
      BY <1>1, <2>2, <3>1 DEF Shape, Containers, Top
    <3>3. QED
      BY <1>1, <3>1, <3>2, ColonBefore
  <2>7. Built(a, b)'
    BY <1>1, <1>2, <1>3, <2>2, <2>3, <2>4, <2>5, <2>6, PairBuilt
  <2>8. QED
    BY <2>7
<1>6. QED
  BY <1>4, <1>5

\* A key is taken, or a character between the items of a container is read.
LEMMA LoopBuilt ==
  ASSUME Known, Refs, Clean, NEW a, NEW b, Built(a, b), errorStr' = "none",
         pyErr' = "none", Loop
  PROVE  \E a2, b2 : Built(a2, b2)'
<1>1. Control /\ Shape
  BY DEF Known
<1>2. CASE CloseAtHead
  <2>1. /\ pc = "loop" /\ Top.len = 0 /\ CharAt(start) = Closer(Top.kind) /\ ReturnContainer
        /\ memory' = memory
    BY <1>2, Zenon DEF CloseAtHead, Fail
  <2>2. QED
    BY <2>1, CloseBuilt
<1>3. CASE NextElement
  <2>1. /\ UNCHANGED <<memory, heap, stack, ret>> /\ start' = start /\ pc = "loop" /\ pc' = "any"
    BY <1>3 DEF NextElement
  <2>2. Here' = Here
    BY <2>1, HereStays
  <2>3. Built(a, b)'
    BY <1>1, <2>1, <2>2, QuietBuilt
  <2>4. QED
    BY <2>3
<1>4. ~Unwind
  BY Zenon DEF Clean, Null, Unwind
<1>5. CASE AddItem \/ AddKey
  BY <1>5, ReturnedBuilt
<1>6. CASE TakeKey
  <2>1. /\ pc = "return" /\ ret # 0 /\ stack # <<>> /\ Top.name = 0 /\ ret' = 0 /\ pc' = "colon"
        /\ heap' = heap /\ memory' = memory /\ start' = start
        /\ stack' = SetTop([Top EXCEPT !.name = ret])
    BY <1>6, Zenon DEF TakeKey, Returned, Fail
  <2>2. Here' = Here
    BY <2>1, HereStays
  <2>3. Built(a, b)'
    BY <1>1, <2>1, <2>2, KeyTaken
  <2>4. QED
    BY <2>3
<1>7. CASE ExpectColon
  <2>1. /\ pc = "colon" /\ CharAt(start) = ":" /\ pc' = "any" /\ UNCHANGED <<heap, stack, ret>>
        /\ memory' = memory /\ start' = start + 1
    BY <1>7, Zenon DEF ExpectColon, Fail
  <2>2. Takes(":")
    BY <2>1, TakesNext
  <2>3. Built(a, b)'
    BY <1>1, <2>1, <2>2, ColonBuilt
  <2>4. QED
    BY <2>3
<1>8. CASE Separator
  <2>1. CASE pc = "sep" /\ CharAt(start) = Closer(Top.kind) /\ ReturnContainer /\ memory' = memory
    BY <2>1, CloseBuilt
  <2>2. CASE /\ pc = "sep" /\ CharAt(start) = "," /\ pc' = "loop" /\ start' = start + 1
             /\ memory' = memory /\ ret' = ret /\ heap' = heap
             /\ stack' = SetTop([Top EXCEPT !.len = @ + 1])
    <3>1. PICK f : f = [Top EXCEPT !.len = @ + 1]
      OBVIOUS
    <3>2. PICK ch : ch = ","
      OBVIOUS
    <3>3. CharAt(start) \notin {" ", "NUL"}
      BY <2>2, Zenon
    <3>4. Takes(ch)
      BY <2>2, <3>2, <3>3, TakesNext, Zenon
    <3>5. stack # <<>> /\ Top.name = 0
      BY <1>1, <2>2 DEF Control, Activations, Keys
    <3>6. Top \in Frames /\ Top.obj \in 1 .. Len(heap)
      BY <1>1, <3>5, TopPointers
    <3>7. f \in Frames /\ f.obj = Top.obj /\ f.name = 0
      BY <3>1, <3>5, <3>6, Updated
    <3>8. f.len # 0
      <4>1. Top.len \in Nat
        BY <3>6 DEF Frames
      <4>2. f.len = Top.len + 1
        BY <3>1, <3>6 DEF Frames
      <4>3. QED
        BY <4>1, <4>2
    <3>9. CommaNext(Top.obj, ch)
      BY <1>1, <3>2, <3>6, CommaBefore, Zenon
    <3>10. /\ pc = "sep" /\ pc' = "loop" /\ ret' = ret /\ heap' = heap /\ stack' = SetTop(f)
      BY <2>2, <3>1
    <3>11. Built(a, b)'
      BY <1>1, <3>4, <3>7, <3>8, <3>9, <3>10, CommaBuilt, Zenon
    <3>12. QED
      BY <3>11
  <2>3. QED
    BY <1>8, <2>1, <2>2, Zenon DEF Separator, Fail
<1>9. QED
  BY <1>2, <1>3, <1>4, <1>5, <1>6, <1>7, <1>8, Zenon DEF Loop

\* The steps outside of the values.
LEMMA OuterBuilt ==
  ASSUME Known, Refs, Clean, NEW a, NEW b, Built(a, b), errorStr' = "none",
         pyErr' = "none", RejectArgument \/ StartDecoding \/ SkipWhitespace \/ Finish
  PROVE  \E a2, b2 : Built(a2, b2)'
<1>1. Control
  BY DEF Known
<1>2. ~RejectArgument
  BY Zenon DEF RejectArgument
<1>3. ASSUME UNCHANGED <<memory, heap, stack, ret>>,
             start' = start \/ (IsSpace /\ start' = start + 1),
             pc' \in {"call", "any", "loop"} => pc \in {"call", "any", "loop"},
             pc \in {"colon", "sep"} \/ pc' \in {"colon", "sep"} => pc' = pc,
             pc' = "loop" => pc = "loop",
             pc' \in {"binding", "done"} => start' = Len(memory) + 1
      PROVE  \E a2, b2 : Built(a2, b2)'
  <2>1. Here' = Here
    BY <1>3, HereStays
  <2>2. Built(a, b)'
    BY <1>1, <1>3, <2>1, QuietBuilt
  <2>3. QED
    BY <2>2
<1>4. CASE StartDecoding
  <2>1. UNCHANGED <<memory, heap, stack, ret>> /\ start' = start /\ pc = "call" /\ pc' = "any"
    BY <1>4 DEF StartDecoding, dsVars
  <2>2. QED
    BY <1>3, <2>1
<1>5. CASE SkipWhitespace
  <2>1. /\ UNCHANGED <<memory, heap, stack, ret>> /\ IsSpace /\ start' = start + 1
        /\ pc' = pc /\ pc \notin {"binding", "done"}
    BY <1>5 DEF SkipWhitespace
  <2>2. QED
    BY <1>3, <2>1
<1>6. CASE FreeEscapes
  <2>1. UNCHANGED <<memory, heap, stack, ret, errorStr>> /\ start' = start /\ pc = "return"
    BY <1>6 DEF FreeEscapes, dsVars
  <2>2. pc' \in {"skip", "tail"}
    BY <1>6, <2>1 DEF FreeEscapes
  <2>3. QED
    BY <1>3, <2>1, <2>2
<1>7. CASE CheckTrailing
  <2>1. /\ Remaining = 0 \/ ret = 0
        /\ UNCHANGED <<memory, heap, stack, ret>> /\ start' = start
        /\ pc \in {"tail", "skip"} /\ pc' = "binding"
    BY <1>7, Zenon DEF CheckTrailing
  <2>2. Remaining = 0
    BY <2>1 DEF Clean, Null
  <2>3. start \in Nat /\ Len(memory) \in Nat /\ end = Len(memory)
    BY NextCharacter DEF Known, Whole
  <2>4. start = Len(memory) + 1
    BY <2>2, <2>3 DEF Remaining
  <2>5. QED
    BY <1>3, <2>1, <2>4
<1>8. CASE ReturnToPython
  <2>1. /\ UNCHANGED <<memory, heap, stack, ret>> /\ start' = start
        /\ pc = "binding" /\ pc' = "done"
    BY <1>8, Zenon DEF ReturnToPython
  <2>2. start = Len(memory) + 1
    BY <2>1 DEF Built, Standing
  <2>3. QED
    BY <1>3, <2>1, <2>2
<1>9. QED
  BY <1>2, <1>4, <1>5, <1>6, <1>7, <1>8 DEF Finish

(***************************************************************************)
(* What is returned for a text denotes that text.                          *)
(***************************************************************************)

\* As long as nothing went wrong with a text its objects have places in it.
Builds == IsText(memory) /\ ~Rejected => \E a, b : Built(a, b)

\* Nothing has been built when loads is called.
LEMMA BuildsInit == Init => Builds
<1> SUFFICES ASSUME Init PROVE \E a, b : Built(a, b)
  BY DEF Builds
<1>1. /\ memory \in Seq(Chars) /\ start = 1 /\ stack = <<>> /\ pc = "call" /\ ret = 0
      /\ heap = <<>>
  BY DecoderAssumption DEF Init
<1>2. Len(heap) = 0 /\ Len(stack) = 0
  BY <1>1, EmptySeq
<1>3. PICK a, b : a = 0 /\ b = 0
  OBVIOUS
<1>4. Stored(a, b) /\ \A i \in 1 .. Len(stack) : FALSE
  BY <1>2 DEF Stored
<1>5. Here = 1 /\ Begins(a, b, Len(stack)) = 1
  BY <1>1, <1>2, Places DEF Here, Begins
<1>6. Standing(a, b)
  BY <1>1, <1>5 DEF Standing
<1>7. Built(a, b)
  BY <1>4, <1>6 DEF Built
<1>8. QED
  BY <1>7

\* A step that goes on with a text.
LEMMA BuiltStep ==
  ASSUME Known, Refs, Clean, Completes, pyErr = "none", ~Rejected', NEW a, NEW b, Built(a, b), Next
  PROVE  \E a2, b2 : Built(a2, b2)'
<1>1. errorStr' = "none" /\ pyErr' = "none"
  BY Zenon DEF Rejected
<1>2. CASE Element
  BY <1>1, <1>2, ElementBuilt
<1>3. CASE Loop
  BY <1>1, <1>3, LoopBuilt
<1>4. CASE RejectArgument \/ StartDecoding \/ SkipWhitespace \/ Finish
  BY <1>1, <1>4, OuterBuilt
<1>5. QED
  BY <1>2, <1>3, <1>4 DEF Next

\* Every step of the decoder keeps the places, or finds more.
LEMMA BuildsStep == Known /\ Known' /\ Refs /\ Judged /\ Builds /\ [Next]_vars => Builds'
<1> SUFFICES ASSUME Known, Known', Refs, Judged, Builds, [Next]_vars,
                    IsText(memory)', ~Rejected'
             PROVE  \E a2, b2 : Built(a2, b2)'
  BY DEF Builds
<1>1. IsText(memory)
  BY SameText
<1>2. CASE UNCHANGED vars
  <2>1. UNCHANGED <<memory, pc, start, stack, ret, errorStr, heap, pyErr>>
    BY <1>2 DEF vars, dsVars
  <2>2. ~Rejected
    BY <2>1 DEF Rejected, Doomed, BadKeyAt
  <2>3. PICK a, b : Built(a, b)
    BY <1>1, <2>2 DEF Builds
  <2>4. pc \in {"binding", "done"} => start = Len(memory) + 1
    BY <2>3 DEF Built, Standing
  <2>5. Here' = Here /\ Control
    BY <2>1 DEF Here, Place, Kept, Known
  <2>6. Built(a, b)'
    BY <2>1, <2>3, <2>4, <2>5, QuietBuilt
  <2>7. QED
    BY <2>6
<1>3. CASE Next
  <2>1. ~Rejected
    BY <1>3, RejectedStays DEF Known
  <2>2. PICK a, b : Built(a, b)
    BY <1>1, <2>1 DEF Builds
  <2>3. Clean /\ pyErr = "none" /\ ~Failed
    BY <2>1, NotRejected
  <2>4. Completes
    BY <1>1, <2>1, <2>3, Zenon DEF Judged
  <2>5. QED
    BY <1>3, <2>2, <2>3, <2>4, BuiltStep
<1>4. QED
  BY <1>2, <1>3

\* What a call returns is what its argument denotes.
LEMMA BuiltRight ==
  ASSUME Known, Judged, Builds, pc = "done", pyErr # "none" => errorStr \notin {"none", "memory"},
         ret # 0
  PROVE  Rendered(heap)[Len(heap)][ret] = Strip(memory)
<1>1. Control /\ pyErr = "none" /\ errorStr = "none" /\ stack = <<>>
  BY DEF Known, Control, Outcome, ErrorIsNull, Activations
<1>2. ~Rejected
  <2>1. ~Doomed
    BY <1>1 DEF Doomed
  <2>2. QED
    BY <1>1, <2>1, Zenon DEF Rejected
<1>3. IsText(memory)
  BY JudgedRight
<1>4. PICK a, b : Built(a, b)
  BY <1>2, <1>3 DEF Builds
<1>5. memory \in Seq(Chars) /\ heap \in Seq(Objects) /\ ret \in 1 .. Len(heap) /\ Len(stack) = 0
  BY <1>1, InRange, EmptySeq DEF Control, TypeOK
<1>6. Text \in Seq(Chars) /\ Text = Strip(memory)
  BY <1>5, Places DEF Text
<1>7. \A o \in 1 .. Len(heap) : Laid(heap, Text, a, b, o) /\ Spans(heap, Text, a, b, o)
  <2>1. \A o : ~Building(o)
    BY <1>5 DEF Building
  <2>2. QED
    BY <1>4, <2>1 DEF Built, Stored, Storing
<1>8. Rendered(heap)[Len(heap)][ret] = Lies(Text, a, b, ret)
  BY <1>5, <1>6, <1>7, RenderedLies
<1>9. a[ret] = 1 /\ b[ret] = Here /\ start = Len(memory) + 1
  <2>1. Standing(a, b) /\ Begins(a, b, Len(stack)) = 1
    BY <1>4, <1>5 DEF Built, Begins
  <2>2. QED
    BY <2>1 DEF Standing
<1>10. Here = Len(Text) + 1
  BY <1>5, <1>6, <1>9, Places DEF Here
<1>11. Lies(Text, a, b, ret) = SubSeq(Text, 1, Len(Text))
  <2>1. Len(Text) \in Nat
    BY <1>6, LenProperties
  <2>2. b[ret] - 1 = Len(Text)
    BY <1>9, <1>10, <2>1
  <2>3. QED
    BY <1>9, <2>2 DEF Lies
<1>12. QED
  BY <1>6, <1>8, <1>11, SubSeqFull

\* loads accepts exactly the JSON texts, as the grammar tells them, that nest at
\* most MaxDepth deep, and the object it returns for one is the one it denotes,
\* for every set of documents, every depth and every choice of failing callbacks.
THEOREM DecodesGrammarCorrect == ASSUME Views = FALSE PROVE Spec => []DecodesGrammar
<1>1. Spec => []Known
  <2>1. Init => Whole
    BY WholeStays
  <2>2. Whole /\ [Next]_vars => Whole'
    BY WholeStays
  <2>3. Spec => []Whole
    BY <2>1, <2>2, PTL DEF Spec
  <2>4. Control /\ Reading /\ Shape /\ Whole => Known
    BY DEF Known
  <2>5. QED
    BY <2>3, <2>4, ControlInvariant, ReadingInvariant, ShapeInvariant, PTL
<1>2. Spec => []Refs
  BY RefsInit, RefsStep, ControlInvariant, PTL DEF Spec
<1>3. Spec => []Judged
  BY <1>1, JudgedInit, JudgedStep, PTL DEF Spec
<1>4. Spec => []Builds
  BY <1>1, <1>2, <1>3, BuildsInit, BuildsStep, PTL DEF Spec
<1>5. Known /\ Judged /\ Builds => DecodesGrammar
  <2> SUFFICES ASSUME Known, Judged, Builds, pc = "done", argKind # "other",
                      pyErr # "none" => errorStr \notin {"none", "memory"}
               PROVE  /\ ret # 0 <=> IsText(memory)
                      /\ ret # 0 => Rendered(heap)[Len(heap)][ret] = Strip(memory)
    BY DEF DecodesGrammar
  <2>1. ret # 0 <=> IsText(memory)
    BY JudgedRight
  <2>2. ret # 0 => Rendered(heap)[Len(heap)][ret] = Strip(memory)
    BY BuiltRight
  <2>3. QED
    BY <2>1, <2>2
<1>6. QED
  BY <1>1, <1>3, <1>4, <1>5, PTL
=============================================================================
