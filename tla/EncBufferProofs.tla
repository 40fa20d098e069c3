--------------------------- MODULE EncBufferProofs ---------------------------
(***************************************************************************)
(* Theorems about EncBuffer, for every indentation, every length of the    *)
(* separators, strings and numbers, and every size of the first buffer.    *)
(***************************************************************************)
EXTENDS EncBuffer, SequenceTheorems, TLAPS

\* TypeOK in parts: the control, the numbers and the stack.
ControlTypes ==
  /\ fmt \in Formats
  /\ pc \in Writing \union {"encode", "begin", "next", "close", "grow", "return", "done"}
  /\ name \in {"NULL", "key"}
  /\ errorMsg \in Errors
  /\ start \in {"given", "block", "NULL"}
  /\ after \in Writing \union {"done"}
NumberTypes ==
  /\ level \in Int /\ cb \in Nat
  /\ size \in Nat /\ size > 0 /\ offset \in Nat
  /\ need \in Nat /\ newSize \in Nat
  /\ blocks \in Nat /\ moved \in Nat
Typed == ControlTypes /\ NumberTypes /\ stack \in Seq(Frames)

\* Where encode() is when the reservation it asked for has been made.
At == IF pc = "grow" THEN after ELSE pc

InSwitch == {"encode", "name", "begin", "switch", "text", "raw"}
InLoop == {"next", "item", "indent", "close", "bracket"}

\* There is room for n bytes, or Buffer_Realloc is making it.
Room(n) == IF pc = "grow" THEN need = n ELSE offset + n <= size

\* The level is the depth of the recursion, except on the way out.
Levels ==
  /\ At \in InSwitch => level = Len(stack)
  /\ At \in InLoop => level = Len(stack) - 1 /\ stack # <<>>
  /\ pc = "return" /\ errorMsg = "none" => level = Len(stack) - 1

\* A frame reserves for its own elements, one level further in.
Reserves == \A i \in 1 .. Len(stack) : stack[i].reserve = Pad(i) + fmt.itemSep + 1

\* With all allocations made, encode() goes on only without an error.
GoesOn == start # "NULL" /\ pc \notin {"return", "done"} => errorMsg = "none"

\* Every write is preceded by a reservation of as much.
Ready ==
  start # "NULL" =>
    /\ offset <= size
    /\ pc = "grow" => size - offset < need
    /\ At = "name" => Room(ReserveString(cb) + fmt.keySep)
    /\ At = "switch" => Room(Fixed)
    /\ At = "text" => Room(ReserveString(cb))
    /\ At = "raw" => Room(cb)
    /\ At = "item" => Room(Top.reserve)
    /\ At = "indent" => Room(Pad(level) + 1)
    /\ At = "bracket" => Room(1)

\* A block that is in use has been allocated, and no other.
Blocks ==
  /\ start = "given" => blocks = 0
  /\ start = "block" /\ pc # "done" => blocks = 1
  /\ start = "block" /\ pc = "done" => blocks = 0
  /\ start = "NULL" /\ blocks # 0 => "realloc" \in Failures

\* The buffer doubles at least when it is moved.
Moves ==
  /\ moved <= size
  /\ pc = "grow" => after \in Writing
  /\ pc = "grow" /\ start # "NULL" => newSize = size \/ newSize >= 2 * size

Inv == Typed /\ Levels /\ Reserves /\ GoesOn /\ Ready /\ Blocks /\ Moves

-----------------------------------------------------------------------------
\* The three parts make up TypeOK.
LEMMA TypeParts == TypeOK <=> Typed
BY DEF TypeOK, Typed, ControlTypes, NumberTypes

\* Indentation takes no negative space.
LEMMA PadNat ==
  ASSUME fmt \in Formats, NEW l \in Nat
  PROVE  Pad(l) \in Nat
<1>1. fmt.indent \in Nat
  BY BufferAssumption
<1>2. QED
  BY <1>1 DEF Pad

\* The innermost frame, and the stack without it.
LEMMA Stacks ==
  ASSUME stack \in Seq(Frames), stack # <<>>
  PROVE  /\ Len(stack) \in Nat \ {0}
         /\ Top = stack[Len(stack)] /\ Top \in Frames
         /\ Top.type \in {"array", "object"} /\ Top.reserve \in Nat /\ Top.count \in Nat
         /\ Pop \in Seq(Frames) /\ Len(Pop) = Len(stack) - 1
         /\ \A i \in 1 .. Len(Pop) : Pop[i] = stack[i]
<1>1. Len(stack) \in Nat \ {0} /\ Top = stack[Len(stack)] /\ Top \in Frames
  BY EmptySeq, LenProperties, ElementOfSeq DEF Top
<1>2. Top.type \in {"array", "object"} /\ Top.reserve \in Nat /\ Top.count \in Nat
  BY <1>1 DEF Frames
<1>3. \A i \in 1 .. Len(stack) - 1 : stack[i] \in Frames
  BY <1>1, ElementOfSeq
<1>4. ASSUME NEW m \in Nat, m = Len(stack) - 1
      PROVE  /\ SubSeq(stack, 1, m) \in Seq(Frames)
             /\ Len(SubSeq(stack, 1, m)) = m
             /\ \A i \in 1 .. m : SubSeq(stack, 1, m)[i] = stack[i]
  <2>1. /\ SubSeq(stack, 1, m) \in Seq(Frames)
        /\ Len(SubSeq(stack, 1, m)) = IF 1 <= m THEN m - 1 + 1 ELSE 0
        /\ \A i \in 1 .. m - 1 + 1 : SubSeq(stack, 1, m)[i] = stack[1 + i - 1]
    BY <1>3, <1>4, SubSeqProperties
  <2>2. QED
    BY <1>1, <1>4, <2>1
<1>5. /\ Pop \in Seq(Frames) /\ Len(Pop) = Len(stack) - 1
      /\ \A i \in 1 .. Len(Pop) : Pop[i] = stack[i]
  <2>1. Pop = SubSeq(stack, 1, Len(stack) - 1) /\ Len(stack) - 1 \in Nat
    BY <1>1 DEF Pop
  <2>2. QED
    BY <1>4, <2>1
<1>6. QED
  BY <1>1, <1>2, <1>5

\* Counting an element leaves the reservations of the frames alone.
LEMMA Counted ==
  ASSUME stack \in Seq(Frames), stack # <<>>,
         stack' = [stack EXCEPT ![Len(stack)].count = @ + 1]
  PROVE  /\ stack' \in Seq(Frames) /\ Len(stack') = Len(stack) /\ stack' # <<>>
         /\ \A i \in 1 .. Len(stack) : stack'[i].reserve = stack[i].reserve
<1> DEFINE f == [Top EXCEPT !.count = @ + 1]
<1>1. Len(stack) \in 1 .. Len(stack) /\ Top = stack[Len(stack)]
  BY Stacks
<1>2. f \in Frames /\ f.reserve = Top.reserve
  <2>1. Top \in Frames /\ Top.count + 1 \in Nat
    BY Stacks
  <2>2. QED
    BY <2>1 DEF Frames
<1>3. stack' = [stack EXCEPT ![Len(stack)] = f]
  BY DEF Top
<1> HIDE DEF f
<1>4. /\ stack' \in Seq(Frames) /\ Len(stack') = Len(stack)
      /\ \A j \in 1 .. Len(stack) : stack'[j] = IF j = Len(stack) THEN f ELSE stack[j]
  BY <1>1, <1>2, <1>3, ExceptSeq
<1>5. stack' # <<>>
  BY <1>1, <1>4, EmptySeq
<1>6. QED
  BY <1>1, <1>2, <1>4, <1>5

\* Entering a container puts its frame on top.
LEMMA Opened ==
  ASSUME stack \in Seq(Frames), NEW f \in Frames, stack' = Append(stack, f)
  PROVE  /\ stack' \in Seq(Frames) /\ Len(stack') = Len(stack) + 1 /\ stack' # <<>>
         /\ stack'[Len(stack) + 1] = f
         /\ \A i \in 1 .. Len(stack) : stack'[i] = stack[i]
BY AppendProperties, LenProperties, EmptySeq

\* What the assumption says of the constants that occur in a step.
LEMMA Constants ==
  ASSUME fmt \in Formats
  PROVE  /\ fmt.indent \in Nat /\ fmt.itemSep \in Nat /\ fmt.keySep \in Nat
         /\ Fixed \in Nat /\ Fixed > 0 /\ InitialSize \in Nat /\ InitialSize > 0
         /\ \A w \in Scalars : w \in Nat /\ w <= Fixed
         /\ \A n \in Texts : n \in Nat
BY BufferAssumption

\* The calls of dumps begin in states of the invariant.
LEMMA InvInit == Init => Inv
<1> SUFFICES ASSUME Init PROVE Inv
  OBVIOUS
<1> USE Constants DEF Init
<1>1. Typed
  BY EmptySeq DEF Typed, ControlTypes, NumberTypes, Writing, Errors
<1>2. Levels /\ Reserves /\ GoesOn
  BY DEF Levels, Reserves, GoesOn, At, InSwitch, InLoop
<1>3. Ready /\ Blocks /\ Moves
  BY DEF Ready, Blocks, Moves, Writing, At, Room
<1>4. QED
  BY <1>1, <1>2, <1>3 DEF Inv

\* The steps of Buffer_Realloc.
LEMMA Growing == Inv /\ (Grow) => Inv'
<1> SUFFICES ASSUME Inv, Grow PROVE Inv'
  OBVIOUS
<1> USE DEF encodeVars, bufferVars, growVars, historyVars
<1>a. Typed /\ Levels /\ Reserves /\ GoesOn /\ Ready /\ Blocks /\ Moves
  BY DEF Inv
<1>b. /\ size \in Nat /\ size > 0 /\ offset \in Nat /\ need \in Nat /\ newSize \in Nat
      /\ moved \in Nat /\ blocks \in Nat /\ cb \in Nat /\ level \in Int /\ stack \in Seq(Frames)
      /\ Len(stack) \in Nat
  BY <1>a, LenProperties DEF Typed, NumberTypes
<1>c. /\ fmt.indent \in Nat /\ fmt.itemSep \in Nat /\ fmt.keySep \in Nat
      /\ Fixed \in Nat /\ Fixed > 0
      /\ \A w \in Scalars : w \in Nat /\ w <= Fixed
      /\ \A n \in Texts : n \in Nat
  BY <1>a, Constants DEF Typed, ControlTypes
<1>d. \A l \in Nat : Pad(l) \in Nat
  BY <1>a, PadNat DEF Typed, ControlTypes
<1>1. CASE Double
  <2>1. Typed'
    <3>1. ControlTypes'
      BY <1>a, <1>1 DEF Typed, ControlTypes, Writing, Errors, Moves, Double
    <3>2. NumberTypes'
      BY <1>a, <1>b, <1>1 DEF NumberTypes, Moves, Double
    <3>3. stack' \in Seq(Frames)
      BY <1>b, <1>1 DEF Double
    <3>4. QED
      BY <3>1, <3>2, <3>3 DEF Typed
  <2>2. Levels' /\ GoesOn'
    BY <1>a, <1>b, <1>1 DEF Levels, GoesOn, At, InSwitch, InLoop, Moves, Writing, Double
  <2>3. Reserves'
    BY <1>a, <1>b, <1>1 DEF Reserves, Pad, Double
  <2>4. Ready'
    BY SMTT(60), <1>a, <1>b, <1>1 DEF Ready, GoesOn, At, Room, Moves, Writing, Pad, Top, Double
  <2>5. Blocks' /\ Moves'
    BY <1>a, <1>b, <1>1 DEF Blocks, Moves, Ready, Writing, Double
  <2>6. QED
    BY <2>1, <2>2, <2>3, <2>4, <2>5 DEF Inv
<1>2. CASE Allocate
  <2>1. Typed'
    <3>1. ControlTypes'
      BY <1>a, <1>2 DEF Typed, ControlTypes, Writing, Errors, Moves, Allocate
    <3>2. NumberTypes'
      BY <1>a, <1>b, <1>2 DEF NumberTypes, Moves, Allocate
    <3>3. stack' \in Seq(Frames)
      BY <1>b, <1>2 DEF Allocate
    <3>4. QED
      BY <3>1, <3>2, <3>3 DEF Typed
  <2>2. Levels' /\ GoesOn'
    BY <1>a, <1>b, <1>2 DEF Levels, GoesOn, At, InSwitch, InLoop, Moves, Writing, Allocate
  <2>3. Reserves'
    BY <1>a, <1>b, <1>2 DEF Reserves, Pad, Allocate
  <2>4. Ready'
    BY SMTT(60), <1>a, <1>b, <1>2 DEF Ready, GoesOn, At, Room, Moves, Writing, Pad, Top, Allocate
  <2>5. Blocks' /\ Moves'
    <3>1. Blocks'
      BY <1>a, <1>b, <1>2 DEF Typed, ControlTypes, Blocks, Moves, Writing, Allocate
    <3>2. offset <= size /\ size < size + need
      BY <1>a, <1>b, <1>2 DEF Ready, Allocate
    <3>3. newSize >= 2 * size
      BY <1>a, <1>b, <1>2, <3>2 DEF Moves, Allocate
    <3>4. Moves'
      BY <1>a, <1>b, <1>2, <3>2, <3>3 DEF Moves, Allocate, Writing
    <3>5. QED
      BY <3>1, <3>4
  <2>6. QED
    BY <2>1, <2>2, <2>3, <2>4, <2>5 DEF Inv
<1>3. CASE FailToAllocate
  <2>1. Typed'
    <3>1. ControlTypes'
      BY <1>a, <1>3 DEF Typed, ControlTypes, Writing, Errors, Moves, FailToAllocate,
         SetError, Allocator
    <3>2. NumberTypes'
      BY <1>a, <1>b, <1>3 DEF NumberTypes, Moves, FailToAllocate, SetError, Allocator
    <3>3. stack' \in Seq(Frames)
      BY <1>b, <1>3 DEF FailToAllocate, SetError, Allocator
    <3>4. QED
      BY <3>1, <3>2, <3>3 DEF Typed
  <2>2. Levels' /\ GoesOn'
    BY <1>a, <1>b, <1>3 DEF Levels, GoesOn, At, InSwitch, InLoop, Moves, Writing,
       FailToAllocate, SetError, Allocator
  <2>3. Reserves'
    BY <1>a, <1>b, <1>3 DEF Reserves, Pad, FailToAllocate, SetError, Allocator
  <2>4. Ready'
    BY <1>a, <1>b, <1>3 DEF Ready, GoesOn, At, Room, Moves, Writing, Pad, Top,
       FailToAllocate, SetError, Allocator
  <2>5. Blocks' /\ Moves'
    BY <1>a, <1>b, <1>3 DEF Blocks, Moves, Ready, Writing, FailToAllocate, SetError,
       Allocator
  <2>6. QED
    BY <2>1, <2>2, <2>3, <2>4, <2>5 DEF Inv
<1>4. QED
  BY <1>1, <1>2, <1>3 DEF Grow

\* The steps at the head of encode().
LEMMA Entering == Inv /\ (Enter) => Inv'
<1> SUFFICES ASSUME Inv, Enter PROVE Inv'
  OBVIOUS
<1> USE DEF encodeVars, bufferVars, growVars, historyVars
<1>a. Typed /\ Levels /\ Reserves /\ GoesOn /\ Ready /\ Blocks /\ Moves
  BY DEF Inv
<1>b. /\ size \in Nat /\ size > 0 /\ offset \in Nat /\ need \in Nat /\ newSize \in Nat
      /\ moved \in Nat /\ blocks \in Nat /\ cb \in Nat /\ level \in Int /\ stack \in Seq(Frames)
      /\ Len(stack) \in Nat
  BY <1>a, LenProperties DEF Typed, NumberTypes
<1>c. /\ fmt.indent \in Nat /\ fmt.itemSep \in Nat /\ fmt.keySep \in Nat
      /\ Fixed \in Nat /\ Fixed > 0
      /\ \A w \in Scalars : w \in Nat /\ w <= Fixed
      /\ \A n \in Texts : n \in Nat
  BY <1>a, Constants DEF Typed, ControlTypes
<1>d. \A l \in Nat : Pad(l) \in Nat
  BY <1>a, PadNat DEF Typed, ControlTypes
<1>1. CASE TooDeep
  <2>1. Typed'
    <3>1. ControlTypes'
      BY <1>a, <1>1 DEF Typed, ControlTypes, Writing, Errors, TooDeep, SetError
    <3>2. NumberTypes'
      BY <1>a, <1>b, <1>1 DEF NumberTypes, TooDeep, SetError
    <3>3. stack' \in Seq(Frames)
      BY <1>b, <1>1 DEF TooDeep, SetError
    <3>4. QED
      BY <3>1, <3>2, <3>3 DEF Typed
  <2>2. Levels' /\ GoesOn'
    BY <1>a, <1>b, <1>1 DEF Levels, GoesOn, At, InSwitch, InLoop, TooDeep, SetError
  <2>3. Reserves'
    BY <1>a, <1>b, <1>1 DEF Reserves, Pad, TooDeep, SetError
  <2>4. Ready'
    BY <1>a, <1>b, <1>1 DEF Ready, GoesOn, At, Room, Pad, Top, TooDeep, SetError
  <2>5. Blocks' /\ Moves'
    BY <1>a, <1>b, <1>1 DEF Blocks, Moves, Ready, Writing, TooDeep, SetError
  <2>6. QED
    BY <2>1, <2>2, <2>3, <2>4, <2>5 DEF Inv
<1>2. CASE AlreadyFailed
  <2>1. Typed'
    <3>1. ControlTypes'
      BY <1>a, <1>2 DEF Typed, ControlTypes, Writing, Errors, AlreadyFailed
    <3>2. NumberTypes'
      BY <1>a, <1>b, <1>2 DEF NumberTypes, AlreadyFailed
    <3>3. stack' \in Seq(Frames)
      BY <1>b, <1>2 DEF AlreadyFailed
    <3>4. QED
      BY <3>1, <3>2, <3>3 DEF Typed
  <2>2. Levels' /\ GoesOn'
    BY <1>a, <1>b, <1>2 DEF Levels, GoesOn, At, InSwitch, InLoop, AlreadyFailed
  <2>3. Reserves'
    BY <1>a, <1>b, <1>2 DEF Reserves, Pad, AlreadyFailed
  <2>4. Ready'
    BY SMTT(60), <1>a, <1>b, <1>2 DEF Ready, GoesOn, At, Room, Pad, Top, AlreadyFailed
  <2>5. Blocks' /\ Moves'
    BY <1>a, <1>b, <1>2 DEF Blocks, Moves, Ready, Writing, AlreadyFailed
  <2>6. QED
    BY <2>1, <2>2, <2>3, <2>4, <2>5 DEF Inv
<1>3. CASE ReserveName
  <2>1. Typed'
    <3>1. ControlTypes'
      BY <1>a, <1>3 DEF Typed, ControlTypes, Writing, Errors, ReserveName, Reserve,
         HasRoom, Entered
    <3>2. NumberTypes'
      BY <1>a, <1>b, <1>c, <1>3 DEF NumberTypes, ReserveString, ReserveName, Reserve,
         HasRoom, Entered
    <3>3. stack' \in Seq(Frames)
      BY <1>b, <1>3 DEF ReserveName, Reserve, HasRoom, Entered
    <3>4. QED
      BY <3>1, <3>2, <3>3 DEF Typed
  <2>2. Levels' /\ GoesOn'
    BY <1>a, <1>b, <1>3 DEF Levels, GoesOn, At, InSwitch, InLoop, ReserveName, Reserve,
       HasRoom, Entered
  <2>3. Reserves'
    BY <1>a, <1>b, <1>3 DEF Reserves, Pad, ReserveName, Reserve, HasRoom, Entered
  <2>4. Ready'
    BY SMTT(60), <1>a, <1>b, <1>c, <1>3 DEF Ready, GoesOn, At, Room, ReserveString, Pad, Top,
       ReserveName, Reserve, HasRoom, Entered
  <2>5. Blocks' /\ Moves'
    BY <1>a, <1>b, <1>3 DEF Blocks, Moves, Ready, Writing, ReserveName, Reserve, HasRoom,
       Entered
  <2>6. QED
    BY <2>1, <2>2, <2>3, <2>4, <2>5 DEF Inv
<1>4. CASE WriteName
  <2>1. Typed'
    <3>1. ControlTypes'
      BY <1>a, <1>4 DEF Typed, ControlTypes, Writing, Errors, WriteName, Write
    <3>2. NumberTypes'
      BY <1>a, <1>b, <1>c, <1>4 DEF NumberTypes, ReserveString, WriteName, Write
    <3>3. stack' \in Seq(Frames)
      BY <1>b, <1>4 DEF WriteName, Write
    <3>4. QED
      BY <3>1, <3>2, <3>3 DEF Typed
  <2>2. Levels' /\ GoesOn'
    BY <1>a, <1>b, <1>4 DEF Levels, GoesOn, At, InSwitch, InLoop, WriteName, Write
  <2>3. Reserves'
    BY <1>a, <1>b, <1>4 DEF Reserves, Pad, WriteName, Write
  <2>4. Ready'
    BY SMTT(60), <1>a, <1>b, <1>c, <1>4 DEF Ready, GoesOn, At, Room, ReserveString, Pad, Top,
       WriteName, Write
  <2>5. Blocks' /\ Moves'
    BY <1>a, <1>b, <1>4 DEF Blocks, Moves, Ready, Writing, WriteName, Write
  <2>6. QED
    BY <2>1, <2>2, <2>3, <2>4, <2>5 DEF Inv
<1>5. CASE BadName
  <2>u. cb > 0
    BY <1>5 DEF BadName
  <2>w. PICK w \in 0 .. 6 * (cb - 1) : Write(1 + w)
    BY <1>5 DEF BadName
  <2>v. /\ offset' \in Nat /\ offset' <= offset + 6 * cb /\ offset >= 0
        /\ UNCHANGED <<start, size>>
    BY <1>b, <2>u, <2>w DEF Write
  <2>x. /\ pc = "name" /\ pc' = "return"
        /\ UNCHANGED <<cb, need, newSize, blocks, moved, stack, fmt>>
    BY <1>5 DEF BadName
  <2>y. level' = level
    BY <1>5 DEF BadName
  <2>1. Typed'
    <3>1. ControlTypes'
      BY <1>a, <1>5 DEF Typed, ControlTypes, Writing, Errors, BadName, Write, SetError
    <3>2. NumberTypes'
      BY <1>b, <2>v, <2>x, <2>y DEF NumberTypes
    <3>3. stack' \in Seq(Frames)
      BY <1>b, <1>5, <2>v DEF BadName, Write, SetError
    <3>4. QED
      BY <3>1, <3>2, <3>3 DEF Typed
  <2>2. Levels' /\ GoesOn'
    BY <1>a, <1>b, <1>5 DEF Levels, GoesOn, At, InSwitch, InLoop, BadName, Write, SetError
  <2>3. Reserves'
    BY <1>a, <1>b, <1>5 DEF Reserves, Pad, BadName, Write, SetError
  <2>4. Ready'
    BY SMTT(60), <1>a, <1>b, <1>c, <2>v, <2>x DEF Ready, At, Room, ReserveString
  <2>5. Blocks' /\ Moves'
    BY <1>a, <1>b, <1>5 DEF Blocks, Moves, Ready, Writing, BadName, Write, SetError
  <2>6. QED
    BY <2>1, <2>2, <2>3, <2>4, <2>5 DEF Inv
<1>6. CASE ReserveFixed
  <2>1. Typed'
    <3>1. ControlTypes'
      BY <1>a, <1>6 DEF Typed, ControlTypes, Writing, Errors, ReserveFixed, Reserve,
         HasRoom, Entered
    <3>2. NumberTypes'
      BY <1>a, <1>b, <1>c, <1>6 DEF NumberTypes, ReserveFixed, Reserve, HasRoom, Entered
    <3>3. stack' \in Seq(Frames)
      BY <1>b, <1>6 DEF ReserveFixed, Reserve, HasRoom, Entered
    <3>4. QED
      BY <3>1, <3>2, <3>3 DEF Typed
  <2>2. Levels' /\ GoesOn'
    BY <1>a, <1>b, <1>6 DEF Levels, GoesOn, At, InSwitch, InLoop, ReserveFixed, Reserve,
       HasRoom, Entered
  <2>3. Reserves'
    BY <1>a, <1>b, <1>6 DEF Reserves, Pad, ReserveFixed, Reserve, HasRoom, Entered
  <2>4. Ready'
    BY SMTT(60), <1>a, <1>b, <1>c, <1>6 DEF Ready, GoesOn, At, Room, Pad, Top, ReserveFixed, Reserve,
       HasRoom, Entered
  <2>5. Blocks' /\ Moves'
    BY <1>a, <1>b, <1>6 DEF Blocks, Moves, Ready, Writing, ReserveFixed, Reserve, HasRoom,
       Entered
  <2>6. QED
    BY <2>1, <2>2, <2>3, <2>4, <2>5 DEF Inv
<1>7. QED
  BY <1>1, <1>2, <1>3, <1>4, <1>5, <1>6 DEF Enter

\* The steps of the switch over the types.
LEMMA Switching == Inv /\ (Switch) => Inv'
<1> SUFFICES ASSUME Inv, Switch PROVE Inv'
  OBVIOUS
<1> USE DEF encodeVars, bufferVars, growVars, historyVars
<1>a. Typed /\ Levels /\ Reserves /\ GoesOn /\ Ready /\ Blocks /\ Moves
  BY DEF Inv
<1>b. /\ size \in Nat /\ size > 0 /\ offset \in Nat /\ need \in Nat /\ newSize \in Nat
      /\ moved \in Nat /\ blocks \in Nat /\ cb \in Nat /\ level \in Int /\ stack \in Seq(Frames)
      /\ Len(stack) \in Nat
  BY <1>a, LenProperties DEF Typed, NumberTypes
<1>c. /\ fmt.indent \in Nat /\ fmt.itemSep \in Nat /\ fmt.keySep \in Nat
      /\ Fixed \in Nat /\ Fixed > 0
      /\ \A w \in Scalars : w \in Nat /\ w <= Fixed
      /\ \A n \in Texts : n \in Nat
  BY <1>a, Constants DEF Typed, ControlTypes
<1>d. \A l \in Nat : Pad(l) \in Nat
  BY <1>a, PadNat DEF Typed, ControlTypes
<1>1. CASE Refuse
  <2>1. Typed'
    <3>1. ControlTypes'
      BY <1>a, <1>1 DEF Typed, ControlTypes, Writing, Errors, Refuse, SetError
    <3>2. NumberTypes'
      BY <1>a, <1>b, <1>1 DEF NumberTypes, Refuse, SetError
    <3>3. stack' \in Seq(Frames)
      BY <1>b, <1>1 DEF Refuse, SetError
    <3>4. QED
      BY <3>1, <3>2, <3>3 DEF Typed
  <2>2. Levels' /\ GoesOn'
    BY <1>a, <1>b, <1>1 DEF Levels, GoesOn, At, InSwitch, InLoop, Refuse, SetError
  <2>3. Reserves'
    BY <1>a, <1>b, <1>1 DEF Reserves, Pad, Refuse, SetError
  <2>4. Ready'
    BY SMTT(60), <1>a, <1>b, <1>1 DEF Ready, GoesOn, At, Room, Pad, Top, Refuse, SetError
  <2>5. Blocks' /\ Moves'
    BY <1>a, <1>b, <1>1 DEF Blocks, Moves, Ready, Writing, Refuse, SetError
  <2>6. QED
    BY <2>1, <2>2, <2>3, <2>4, <2>5 DEF Inv
<1>2. CASE EncodeScalar
  <2>1. Typed'
    <3>1. ControlTypes'
      BY <1>a, <1>2 DEF Typed, ControlTypes, Writing, Errors, EncodeScalar, Write
    <3>2. NumberTypes'
      BY <1>a, <1>b, <1>c, <1>2 DEF NumberTypes, EncodeScalar, Write
    <3>3. stack' \in Seq(Frames)
      BY <1>b, <1>2 DEF EncodeScalar, Write
    <3>4. QED
      BY <3>1, <3>2, <3>3 DEF Typed
  <2>2. Levels' /\ GoesOn'
    BY <1>a, <1>b, <1>2 DEF Levels, GoesOn, At, InSwitch, InLoop, EncodeScalar, Write
  <2>3. Reserves'
    BY <1>a, <1>b, <1>2 DEF Reserves, Pad, EncodeScalar, Write
  <2>4. Ready'
    BY SMTT(60), <1>a, <1>b, <1>c, <1>2 DEF Ready, GoesOn, At, Room, Pad, Top, EncodeScalar, Write
  <2>5. Blocks' /\ Moves'
    BY <1>a, <1>b, <1>2 DEF Blocks, Moves, Ready, Writing, EncodeScalar, Write
  <2>6. QED
    BY <2>1, <2>2, <2>3, <2>4, <2>5 DEF Inv
<1>3. CASE NoStringValue
  <2>1. Typed'
    <3>1. ControlTypes'
      BY <1>a, <1>3 DEF Typed, ControlTypes, Writing, Errors, NoStringValue, SetError
    <3>2. NumberTypes'
      BY <1>a, <1>b, <1>3 DEF NumberTypes, NoStringValue, SetError
    <3>3. stack' \in Seq(Frames)
      BY <1>b, <1>3 DEF NoStringValue, SetError
    <3>4. QED
      BY <3>1, <3>2, <3>3 DEF Typed
  <2>2. Levels' /\ GoesOn'
    BY <1>a, <1>b, <1>3 DEF Levels, GoesOn, At, InSwitch, InLoop, NoStringValue, SetError
  <2>3. Reserves'
    BY <1>a, <1>b, <1>3 DEF Reserves, Pad, NoStringValue, SetError
  <2>4. Ready'
    BY <1>a, <1>b, <1>3 DEF Ready, GoesOn, At, Room, Pad, Top, NoStringValue, SetError
  <2>5. Blocks' /\ Moves'
    BY <1>a, <1>b, <1>3 DEF Blocks, Moves, Ready, Writing, NoStringValue, SetError
  <2>6. QED
    BY <2>1, <2>2, <2>3, <2>4, <2>5 DEF Inv
<1>4. CASE ReserveText
  <2>1. Typed'
    <3>1. ControlTypes'
      BY <1>a, <1>4 DEF Typed, ControlTypes, Writing, Errors, ReserveText, Reserve, HasRoom
    <3>2. NumberTypes'
      BY <1>a, <1>b, <1>c, <1>4 DEF NumberTypes, ReserveString, ReserveText, Reserve,
         HasRoom
    <3>3. stack' \in Seq(Frames)
      BY <1>b, <1>4 DEF ReserveText, Reserve, HasRoom
    <3>4. QED
      BY <3>1, <3>2, <3>3 DEF Typed
  <2>2. Levels' /\ GoesOn'
    BY <1>a, <1>b, <1>4 DEF Levels, GoesOn, At, InSwitch, InLoop, ReserveText, Reserve,
       HasRoom
  <2>3. Reserves'
    BY <1>a, <1>b, <1>4 DEF Reserves, Pad, ReserveText, Reserve, HasRoom
  <2>4. Ready'
    BY SMTT(60), <1>a, <1>b, <1>c, <1>4 DEF Ready, GoesOn, At, Room, ReserveString, Pad, Top,
       ReserveText, Reserve, HasRoom
  <2>5. Blocks' /\ Moves'
    BY <1>a, <1>b, <1>4 DEF Blocks, Moves, Ready, Writing, ReserveText, Reserve, HasRoom
  <2>6. QED
    BY <2>1, <2>2, <2>3, <2>4, <2>5 DEF Inv
<1>5. CASE TextFailed
  <2>1. Typed'
    <3>1. ControlTypes'
      BY <1>a, <1>5 DEF Typed, ControlTypes, Writing, Errors, TextFailed
    <3>2. NumberTypes'
      BY <1>a, <1>b, <1>5 DEF NumberTypes, TextFailed
    <3>3. stack' \in Seq(Frames)
      BY <1>b, <1>5 DEF TextFailed
    <3>4. QED
      BY <3>1, <3>2, <3>3 DEF Typed
  <2>2. Levels' /\ GoesOn'
    BY <1>a, <1>b, <1>5 DEF Levels, GoesOn, At, InSwitch, InLoop, TextFailed
  <2>3. Reserves'
    BY <1>a, <1>b, <1>5 DEF Reserves, Pad, TextFailed
  <2>4. Ready'
    BY SMTT(60), <1>a, <1>b, <1>5 DEF Ready, GoesOn, At, Room, Pad, Top, TextFailed
  <2>5. Blocks' /\ Moves'
    BY <1>a, <1>b, <1>5 DEF Blocks, Moves, Ready, Writing, TextFailed
  <2>6. QED
    BY <2>1, <2>2, <2>3, <2>4, <2>5 DEF Inv
<1>6. CASE WriteText
  <2>1. Typed'
    <3>1. ControlTypes'
      BY <1>a, <1>6 DEF Typed, ControlTypes, Writing, Errors, WriteText, Write
    <3>2. NumberTypes'
      BY <1>a, <1>b, <1>c, <1>6 DEF NumberTypes, ReserveString, WriteText, Write
    <3>3. stack' \in Seq(Frames)
      BY <1>b, <1>6 DEF WriteText, Write
    <3>4. QED
      BY <3>1, <3>2, <3>3 DEF Typed
  <2>2. Levels' /\ GoesOn'
    BY <1>a, <1>b, <1>6 DEF Levels, GoesOn, At, InSwitch, InLoop, WriteText, Write
  <2>3. Reserves'
    BY <1>a, <1>b, <1>6 DEF Reserves, Pad, WriteText, Write
  <2>4. Ready'
    BY SMTT(60), <1>a, <1>b, <1>c, <1>6 DEF Ready, GoesOn, At, Room, ReserveString, Pad, Top,
       WriteText, Write
  <2>5. Blocks' /\ Moves'
    BY <1>a, <1>b, <1>6 DEF Blocks, Moves, Ready, Writing, WriteText, Write
  <2>6. QED
    BY <2>1, <2>2, <2>3, <2>4, <2>5 DEF Inv
<1>7. CASE BadText
  <2>u. cb > 0
    BY <1>7 DEF BadText
  <2>w. PICK w \in 0 .. 6 * (cb - 1) : Write(1 + w)
    BY <1>7 DEF BadText
  <2>v. /\ offset' \in Nat /\ offset' <= offset + 6 * cb /\ offset >= 0
        /\ UNCHANGED <<start, size>>
    BY <1>b, <2>u, <2>w DEF Write
  <2>x. /\ pc = "text" /\ pc' = "return"
        /\ UNCHANGED <<cb, need, newSize, blocks, moved, stack, fmt>>
    BY <1>7 DEF BadText
  <2>y. level' = level - 1
    BY <1>7 DEF BadText
  <2>1. Typed'
    <3>1. ControlTypes'
      BY <1>a, <1>7 DEF Typed, ControlTypes, Writing, Errors, BadText, Write, SetError
    <3>2. NumberTypes'
      BY <1>b, <2>v, <2>x, <2>y DEF NumberTypes
    <3>3. stack' \in Seq(Frames)
      BY <1>b, <1>7, <2>v DEF BadText, Write, SetError
    <3>4. QED
      BY <3>1, <3>2, <3>3 DEF Typed
  <2>2. Levels' /\ GoesOn'
    BY <1>a, <1>b, <1>7 DEF Levels, GoesOn, At, InSwitch, InLoop, BadText, Write, SetError
  <2>3. Reserves'
    BY <1>a, <1>b, <1>7 DEF Reserves, Pad, BadText, Write, SetError
  <2>4. Ready'
    BY SMTT(60), <1>a, <1>b, <1>c, <2>v, <2>x DEF Ready, At, Room, ReserveString
  <2>5. Blocks' /\ Moves'
    BY <1>a, <1>b, <1>7 DEF Blocks, Moves, Ready, Writing, BadText, Write, SetError
  <2>6. QED
    BY <2>1, <2>2, <2>3, <2>4, <2>5 DEF Inv
<1>8. CASE OpenContainer
  <2>v. level = Len(stack) /\ level + 1 \in Nat
    BY <1>a, <1>b, <1>8 DEF OpenContainer, Levels, At, InSwitch
  <2>p. Pad(level + 1) \in Nat
    BY <1>d, <2>v
  <2>l. level = Len(stack) /\ ItemReserve(level) \in Nat
    BY <1>c, <2>v, <2>p DEF ItemReserve
  <2>f. PICK f \in Frames : stack' = Append(stack, f) /\ f.reserve = ItemReserve(level)
    BY <1>8, <2>l DEF OpenContainer, Frame, Frames
  <2>s. /\ stack' \in Seq(Frames) /\ Len(stack') = Len(stack) + 1 /\ stack' # <<>>
        /\ stack'[Len(stack) + 1].reserve = ItemReserve(level)
        /\ \A i \in 1 .. Len(stack) : stack'[i] = stack[i]
    BY <1>b, <2>f, Opened
  <2>1. Typed'
    <3>1. ControlTypes'
      BY <1>a, <1>8 DEF Typed, ControlTypes, Writing, Errors, OpenContainer, Write
    <3>2. NumberTypes'
      BY <1>a, <1>b, <1>c, <1>8, <2>s DEF NumberTypes, OpenContainer, Write
    <3>3. stack' \in Seq(Frames)
      BY <1>b, <1>8, <2>s DEF OpenContainer, Write
    <3>4. QED
      BY <3>1, <3>2, <3>3 DEF Typed
  <2>2. Levels' /\ GoesOn'
    BY <1>a, <1>b, <1>8, <2>s DEF Levels, GoesOn, At, InSwitch, InLoop, OpenContainer,
       Write
  <2>3. Reserves'
    BY <1>a, <1>b, <1>8, <2>s, <2>l DEF Reserves, Pad, OpenContainer, Write, ItemReserve
  <2>4. Ready'
    BY SMTT(60), <1>a, <1>b, <1>c, <1>8, <2>s DEF Ready, GoesOn, At, Room, Pad, Top, OpenContainer,
       Write
  <2>5. Blocks' /\ Moves'
    BY <1>a, <1>b, <1>8 DEF Blocks, Moves, Ready, Writing, OpenContainer, Write
  <2>6. QED
    BY <2>1, <2>2, <2>3, <2>4, <2>5 DEF Inv
<1>9. QED
  BY <1>1, <1>2, <1>3, <1>4, <1>5, <1>6, <1>7, <1>8 DEF Switch

\* The steps of the loops over containers, and the end.
LEMMA Looping == Inv /\ (Loop \/ Finish) => Inv'
<1> SUFFICES ASSUME Inv, Loop \/ Finish PROVE Inv'
  OBVIOUS
<1> USE DEF encodeVars, bufferVars, growVars, historyVars
<1>a. Typed /\ Levels /\ Reserves /\ GoesOn /\ Ready /\ Blocks /\ Moves
  BY DEF Inv
<1>b. /\ size \in Nat /\ size > 0 /\ offset \in Nat /\ need \in Nat /\ newSize \in Nat
      /\ moved \in Nat /\ blocks \in Nat /\ cb \in Nat /\ level \in Int /\ stack \in Seq(Frames)
      /\ Len(stack) \in Nat
  BY <1>a, LenProperties DEF Typed, NumberTypes
<1>c. /\ fmt.indent \in Nat /\ fmt.itemSep \in Nat /\ fmt.keySep \in Nat
      /\ Fixed \in Nat /\ Fixed > 0
      /\ \A w \in Scalars : w \in Nat /\ w <= Fixed
      /\ \A n \in Texts : n \in Nat
  BY <1>a, Constants DEF Typed, ControlTypes
<1>d. \A l \in Nat : Pad(l) \in Nat
  BY <1>a, PadNat DEF Typed, ControlTypes
<1>1. CASE ReserveItem
  <2>s. stack # <<>> /\ level = Len(stack) - 1 /\ Top.reserve \in Nat /\ Len(stack) > 0 /\ Top = stack[Len(stack)]
    BY <1>a, <1>b, <1>1, Stacks DEF ReserveItem, Levels, At, InLoop
  <2>1. Typed'
    <3>1. ControlTypes'
      BY <1>a, <1>1 DEF Typed, ControlTypes, Writing, Errors, ReserveItem, Reserve, HasRoom
    <3>2. NumberTypes'
      BY <1>a, <1>b, <1>c, <1>1, <2>s DEF NumberTypes, ReserveItem, Reserve, HasRoom
    <3>3. stack' \in Seq(Frames)
      BY <1>b, <1>1, <2>s DEF ReserveItem, Reserve, HasRoom
    <3>4. QED
      BY <3>1, <3>2, <3>3 DEF Typed
  <2>2. Levels' /\ GoesOn'
    BY <1>a, <1>b, <1>1, <2>s DEF Levels, GoesOn, At, InSwitch, InLoop, ReserveItem,
       Reserve, HasRoom
  <2>3. Reserves'
    BY <1>a, <1>b, <1>1 DEF Reserves, Pad, ReserveItem, Reserve, HasRoom
  <2>4. Ready'
    BY SMTT(60), <1>a, <1>b, <1>c, <1>1, <2>s DEF Ready, GoesOn, At, Room, Pad, Top, ReserveItem,
       Reserve, HasRoom
  <2>5. Blocks' /\ Moves'
    BY <1>a, <1>b, <1>1 DEF Blocks, Moves, Ready, Writing, ReserveItem, Reserve, HasRoom
  <2>6. QED
    BY <2>1, <2>2, <2>3, <2>4, <2>5 DEF Inv
<1>2. CASE WriteItem
  <2>s. stack # <<>> /\ level = Len(stack) - 1 /\ Top.reserve \in Nat /\ Len(stack) > 0 /\ Top = stack[Len(stack)]
    BY <1>a, <1>b, <1>2, Stacks DEF WriteItem, Levels, At, InLoop
  <2>v. level + 1 = Len(stack) /\ level + 1 \in Nat
    BY <1>b, <2>s
  <2>r. Top.reserve = Pad(Len(stack)) + fmt.itemSep + 1
    BY <1>a, <1>b, <2>s DEF Reserves
  <2>p. Pad(level + 1) \in Nat /\ Top.reserve = Pad(level + 1) + fmt.itemSep + 1
    BY <1>d, <2>s, <2>v, <2>r
  <2>1. Typed'
    <3>1. ControlTypes'
      BY <1>a, <1>2 DEF Typed, ControlTypes, Writing, Errors, WriteItem, Write
    <3>2. NumberTypes'
      BY <1>a, <1>b, <1>c, <1>2, <2>s, <2>p, SMTT(30) DEF NumberTypes, WriteItem, Write
    <3>3. stack' \in Seq(Frames)
      BY <1>b, <1>2, <2>s, <2>p DEF WriteItem, Write
    <3>4. QED
      BY <3>1, <3>2, <3>3 DEF Typed
  <2>2. Levels' /\ GoesOn'
    BY <1>a, <1>b, <1>2, <2>s DEF Levels, GoesOn, At, InSwitch, InLoop, WriteItem, Write
  <2>3. Reserves'
    BY <1>a, <1>b, <1>2 DEF Reserves, Pad, WriteItem, Write
  <2>4. Ready'
    BY SMTT(60), <1>a, <1>b, <1>c, <1>2, <2>s, <2>p DEF Ready, GoesOn, At, Room, Top, WriteItem,
       Write
  <2>5. Blocks' /\ Moves'
    BY <1>a, <1>b, <1>2 DEF Blocks, Moves, Ready, Writing, WriteItem, Write
  <2>6. QED
    BY <2>1, <2>2, <2>3, <2>4, <2>5 DEF Inv
<1>3. CASE IteratorFails
  <2>s. /\ stack # <<>> /\ Pop \in Seq(Frames) /\ Len(Pop) = Len(stack) - 1 /\ Len(stack) > 0
        /\ \A i \in 1 .. Len(Pop) : Pop[i] = stack[i]
    BY <1>a, <1>b, <1>3, Stacks DEF IteratorFails, Levels, At, InLoop
  <2>1. Typed'
    <3>1. ControlTypes'
      BY <1>a, <1>3 DEF Typed, ControlTypes, Writing, Errors, IteratorFails
    <3>2. NumberTypes'
      BY <1>a, <1>b, <1>3, <2>s DEF NumberTypes, IteratorFails
    <3>3. stack' \in Seq(Frames)
      BY <1>b, <1>3, <2>s DEF IteratorFails
    <3>4. QED
      BY <3>1, <3>2, <3>3 DEF Typed
  <2>2. Levels' /\ GoesOn'
    BY <1>a, <1>b, <1>3, <2>s DEF Levels, GoesOn, At, InSwitch, InLoop, IteratorFails
  <2>3. Reserves'
    BY <1>a, <1>b, <1>3, <2>s DEF Reserves, Pad, IteratorFails
  <2>4. Ready'
    BY SMTT(60), <1>a, <1>b, <1>3, <2>s DEF Ready, GoesOn, At, Room, Pad, Top, IteratorFails
  <2>5. Blocks' /\ Moves'
    BY <1>a, <1>b, <1>3 DEF Blocks, Moves, Ready, Writing, IteratorFails
  <2>6. QED
    BY <2>1, <2>2, <2>3, <2>4, <2>5 DEF Inv
<1>4. CASE ElementDone
  <2>s. /\ stack' \in Seq(Frames) /\ Len(stack') = Len(stack) /\ stack' # <<>>
        /\ \A i \in 1 .. Len(stack) : stack'[i].reserve = stack[i].reserve
    BY <1>b, <1>4, Counted DEF ElementDone
  <2>1. Typed'
    <3>1. ControlTypes'
      BY <1>a, <1>4 DEF Typed, ControlTypes, Writing, Errors, ElementDone
    <3>2. NumberTypes'
      BY <1>a, <1>b, <1>4, <2>s DEF NumberTypes, ElementDone
    <3>3. stack' \in Seq(Frames)
      BY <1>b, <1>4, <2>s DEF ElementDone
    <3>4. QED
      BY <3>1, <3>2, <3>3 DEF Typed
  <2>2. Levels' /\ GoesOn'
    BY <1>a, <1>b, <1>4, <2>s DEF Levels, GoesOn, At, InSwitch, InLoop, ElementDone
  <2>3. Reserves'
    BY <1>a, <1>b, <1>4, <2>s DEF Reserves, Pad, ElementDone
  <2>4. Ready'
    BY SMTT(60), <1>a, <1>b, <1>4, <2>s DEF Ready, GoesOn, At, Room, Pad, Top, ElementDone
  <2>5. Blocks' /\ Moves'
    BY <1>a, <1>b, <1>4 DEF Blocks, Moves, Ready, Writing, ElementDone
  <2>6. QED
    BY <2>1, <2>2, <2>3, <2>4, <2>5 DEF Inv
<1>5. CASE ElementFailed
  <2>s. /\ stack # <<>> /\ Pop \in Seq(Frames) /\ Len(Pop) = Len(stack) - 1 /\ Len(stack) > 0
        /\ \A i \in 1 .. Len(Pop) : Pop[i] = stack[i]
    BY <1>a, <1>b, <1>5, Stacks DEF ElementFailed, Levels, At, InLoop
  <2>1. Typed'
    <3>1. ControlTypes'
      BY <1>a, <1>5 DEF Typed, ControlTypes, Writing, Errors, ElementFailed
    <3>2. NumberTypes'
      BY <1>a, <1>b, <1>5, <2>s DEF NumberTypes, ElementFailed
    <3>3. stack' \in Seq(Frames)
      BY <1>b, <1>5, <2>s DEF ElementFailed
    <3>4. QED
      BY <3>1, <3>2, <3>3 DEF Typed
  <2>2. Levels' /\ GoesOn'
    BY <1>a, <1>b, <1>5, <2>s DEF Levels, GoesOn, At, InSwitch, InLoop, ElementFailed
  <2>3. Reserves'
    BY <1>a, <1>b, <1>5, <2>s DEF Reserves, Pad, ElementFailed
  <2>4. Ready'
    BY SMTT(60), <1>a, <1>b, <1>5, <2>s DEF Ready, GoesOn, At, Room, Pad, Top, ElementFailed
  <2>5. Blocks' /\ Moves'
    BY <1>a, <1>b, <1>5 DEF Blocks, Moves, Ready, Writing, ElementFailed
  <2>6. QED
    BY <2>1, <2>2, <2>3, <2>4, <2>5 DEF Inv
<1>6. CASE ReserveIndent
  <2>v. stack # <<>> /\ level = Len(stack) - 1 /\ level \in Nat
    BY <1>a, <1>b, <1>6, Stacks DEF ReserveIndent, Levels, At, InLoop
  <2>s. stack # <<>> /\ level = Len(stack) - 1 /\ Pad(level) \in Nat
    BY <1>d, <2>v
  <2>1. Typed'
    <3>1. ControlTypes'
      BY <1>a, <1>6 DEF Typed, ControlTypes, Writing, Errors, ReserveIndent, Reserve,
         HasRoom
    <3>2. NumberTypes'
      BY <1>a, <1>b, <1>c, <1>6, <2>s DEF NumberTypes, ReserveIndent, Reserve, HasRoom
    <3>3. stack' \in Seq(Frames)
      BY <1>b, <1>6, <2>s DEF ReserveIndent, Reserve, HasRoom
    <3>4. QED
      BY <3>1, <3>2, <3>3 DEF Typed
  <2>2. Levels' /\ GoesOn'
    BY <1>a, <1>b, <1>6, <2>s DEF Levels, GoesOn, At, InSwitch, InLoop, ReserveIndent,
       Reserve, HasRoom
  <2>3. Reserves'
    BY <1>a, <1>b, <1>6 DEF Reserves, Pad, ReserveIndent, Reserve, HasRoom
  <2>4. Ready'
    <3>1. CASE pc' = "close" /\ UNCHANGED growVars
      BY <1>a, <1>b, <1>6, <3>1 DEF Ready, GoesOn, At, Room, ReserveIndent
    <3>2. CASE Reserve(Pad(level) + 1, "indent")
      BY <1>a, <1>b, <1>6, <2>s, <3>2 DEF Ready, GoesOn, At, Room, ReserveIndent, Reserve, HasRoom, Pad
    <3>3. QED
      BY <1>6, <3>1, <3>2 DEF ReserveIndent
  <2>5. Blocks' /\ Moves'
    BY <1>a, <1>b, <1>6 DEF Blocks, Moves, Ready, Writing, ReserveIndent, Reserve, HasRoom
  <2>6. QED
    BY <2>1, <2>2, <2>3, <2>4, <2>5 DEF Inv
<1>7. CASE WriteIndent
  <2>v. stack # <<>> /\ level = Len(stack) - 1 /\ level \in Nat
    BY <1>a, <1>b, <1>7, Stacks DEF WriteIndent, Levels, At, InLoop
  <2>s. stack # <<>> /\ level = Len(stack) - 1 /\ Pad(level) \in Nat
    BY <1>d, <2>v
  <2>1. Typed'
    <3>1. ControlTypes'
      BY <1>a, <1>7 DEF Typed, ControlTypes, Writing, Errors, WriteIndent, Write
    <3>2. NumberTypes'
      BY <1>a, <1>b, <1>c, <1>7, <2>s DEF NumberTypes, WriteIndent, Write
    <3>3. stack' \in Seq(Frames)
      BY <1>b, <1>7, <2>s DEF WriteIndent, Write
    <3>4. QED
      BY <3>1, <3>2, <3>3 DEF Typed
  <2>2. Levels' /\ GoesOn'
    BY <1>a, <1>b, <1>7, <2>s DEF Levels, GoesOn, At, InSwitch, InLoop, WriteIndent, Write
  <2>3. Reserves'
    BY <1>a, <1>b, <1>7 DEF Reserves, Pad, WriteIndent, Write
  <2>4. Ready'
    BY SMTT(60), <1>a, <1>b, <1>c, <1>7, <2>s DEF Ready, GoesOn, At, Room, Top, WriteIndent, Write
  <2>5. Blocks' /\ Moves'
    BY <1>a, <1>b, <1>7 DEF Blocks, Moves, Ready, Writing, WriteIndent, Write
  <2>6. QED
    BY <2>1, <2>2, <2>3, <2>4, <2>5 DEF Inv
<1>8. CASE ReserveBracket
  <2>1. Typed'
    <3>1. ControlTypes'
      BY <1>a, <1>8 DEF Typed, ControlTypes, Writing, Errors, ReserveBracket, Reserve,
         HasRoom
    <3>2. NumberTypes'
      BY <1>a, <1>b, <1>c, <1>8 DEF NumberTypes, ReserveBracket, Reserve, HasRoom
    <3>3. stack' \in Seq(Frames)
      BY <1>b, <1>8 DEF ReserveBracket, Reserve, HasRoom
    <3>4. QED
      BY <3>1, <3>2, <3>3 DEF Typed
  <2>2. Levels' /\ GoesOn'
    BY <1>a, <1>b, <1>8 DEF Levels, GoesOn, At, InSwitch, InLoop, ReserveBracket, Reserve,
       HasRoom
  <2>3. Reserves'
    BY <1>a, <1>b, <1>8 DEF Reserves, Pad, ReserveBracket, Reserve, HasRoom
  <2>4. Ready'
    BY SMTT(60), <1>a, <1>b, <1>c, <1>8 DEF Ready, GoesOn, At, Room, Pad, Top, ReserveBracket,
       Reserve, HasRoom
  <2>5. Blocks' /\ Moves'
    BY <1>a, <1>b, <1>8 DEF Blocks, Moves, Ready, Writing, ReserveBracket, Reserve, HasRoom
  <2>6. QED
    BY <2>1, <2>2, <2>3, <2>4, <2>5 DEF Inv
<1>9. CASE CloseContainer
  <2>s. /\ stack # <<>> /\ Pop \in Seq(Frames) /\ Len(Pop) = Len(stack) - 1 /\ Len(stack) > 0
        /\ \A i \in 1 .. Len(Pop) : Pop[i] = stack[i]
    BY <1>a, <1>b, <1>9, Stacks DEF CloseContainer, Levels, At, InLoop
  <2>1. Typed'
    <3>1. ControlTypes'
      BY <1>a, <1>9 DEF Typed, ControlTypes, Writing, Errors, CloseContainer, Write
    <3>2. NumberTypes'
      BY <1>a, <1>b, <1>c, <1>9, <2>s DEF NumberTypes, CloseContainer, Write
    <3>3. stack' \in Seq(Frames)
      BY <1>b, <1>9, <2>s DEF CloseContainer, Write
    <3>4. QED
      BY <3>1, <3>2, <3>3 DEF Typed
  <2>2. Levels' /\ GoesOn'
    BY <1>a, <1>b, <1>9, <2>s DEF Levels, GoesOn, At, InSwitch, InLoop, CloseContainer,
       Write
  <2>3. Reserves'
    BY <1>a, <1>b, <1>9, <2>s DEF Reserves, Pad, CloseContainer, Write
  <2>4. Ready'
    BY SMTT(60), <1>a, <1>b, <1>c, <1>9, <2>s DEF Ready, GoesOn, At, Room, Pad, Top, CloseContainer,
       Write
  <2>5. Blocks' /\ Moves'
    BY <1>a, <1>b, <1>9 DEF Blocks, Moves, Ready, Writing, CloseContainer, Write
  <2>6. QED
    BY <2>1, <2>2, <2>3, <2>4, <2>5 DEF Inv
<1>10. CASE Finish
  <2>1. Typed'
    <3>1. ControlTypes'
      BY <1>a, <1>10 DEF Typed, ControlTypes, Writing, Errors, Finish
    <3>2. NumberTypes'
      BY <1>a, <1>b, <1>10 DEF NumberTypes, Finish, Blocks
    <3>3. stack' \in Seq(Frames)
      BY <1>b, <1>10 DEF Finish
    <3>4. QED
      BY <3>1, <3>2, <3>3 DEF Typed
  <2>2. Levels' /\ GoesOn'
    BY <1>a, <1>b, <1>10 DEF Levels, GoesOn, At, InSwitch, InLoop, Finish
  <2>3. Reserves'
    BY <1>a, <1>b, <1>10 DEF Reserves, Pad, Finish
  <2>4. Ready'
    BY SMTT(60), <1>a, <1>b, <1>c, <1>10 DEF Ready, GoesOn, At, Room, Pad, Top, Finish
  <2>5. Blocks' /\ Moves'
    BY <1>a, <1>b, <1>10 DEF Blocks, Moves, Ready, Writing, Finish
  <2>6. QED
    BY <2>1, <2>2, <2>3, <2>4, <2>5 DEF Inv
<1>11. QED
  BY <1>1, <1>2, <1>3, <1>4, <1>5, <1>6, <1>7, <1>8, <1>9, <1>10 DEF Loop

\* The invariant is inductive.
LEMMA InvStep == Inv /\ [Next]_vars => Inv'
<1> SUFFICES ASSUME Inv, [Next]_vars PROVE Inv'
  OBVIOUS
<1>1. CASE Next
  BY <1>1, Growing, Entering, Switching, Looping DEF Next
<1>2. CASE UNCHANGED vars
  BY <1>2 DEF vars, encodeVars, bufferVars, growVars, historyVars, Inv, Typed, ControlTypes,
     NumberTypes, Levels, Reserves, GoesOn, Ready, Blocks, Moves, At, Room, Pad, Top
<1>3. QED
  BY <1>1, <1>2

\* The invariant holds in every state of a call of dumps.
THEOREM Invariant == Spec => []Inv
BY InvInit, InvStep, PTL DEF Spec

\* The variables of the buffer keep their types.
THEOREM TypeCorrect == Spec => []TypeOK
<1>1. Inv => TypeOK
  BY TypeParts DEF Inv
<1>2. QED
  BY <1>1, Invariant, PTL

\* Unless an allocation fails, every unchecked write of encode() is inside the
\* buffer, for every indentation, separator, key, string and size of the buffer.
THEOREM CoveredCorrect == Spec => []Covered
<1>1. Inv => Covered
  BY DEF Inv, Ready, Covered
<1>2. QED
  BY <1>1, Invariant, PTL

\* Buffer_Realloc copies no more in all than the size the buffer has.
THEOREM MovesCorrect == Spec => []MovesLinear
<1>1. Inv => MovesLinear
  BY DEF Inv, Moves, MovesLinear
<1>2. QED
  BY <1>1, Invariant, PTL

\* If realloc does not fail, no block is left when dumps returns.
THEOREM ReleasedCorrect ==
  ASSUME "realloc" \notin Failures
  PROVE  Spec => []Released
<1>1. Inv => Released
  BY DEF Inv, Typed, ControlTypes, Blocks, Released
<1>2. QED
  BY <1>1, Invariant, PTL
=============================================================================
