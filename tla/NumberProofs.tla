---------------------------- MODULE NumberProofs ----------------------------
(***************************************************************************)
(* The overflow tests of decode_numeric are exact, and the number returned *)
(* is the one written; dumps writes no more characters for an int than it  *)
(* says, and loads returns the int that dumps was given, or one of them    *)
(* raises for an int beyond the limit on digits: for integer types of any  *)
(* width and any limits.                                                   *)
(***************************************************************************)
EXTENDS NumberCodec, WellFoundedInduction, TLAPS

-----------------------------------------------------------------------------
(* decode_numeric. *)

\* The text is one of the inputs, which end with the NUL.
TextInv == text \in Seq(Bytes) /\ text[Len(text)] = 0

\* The inductive invariant.  Before the digits nothing has been counted, and no
\* constructor has been called while they are read.
ReaderInv ==
  /\ TextInv
  /\ ReaderTypeOK
  /\ OverflowExact
  /\ NumberExact
  /\ phase = "start" => intNeg = 1 /\ pos = 1
  /\ phase \in {"start", "signed"} => intValue = 0 /\ hasError = 0 /\ value = 0
  /\ phase # "done" => result = NoCall

-----------------------------------------------------------------------------
(* Arithmetic. *)

\* The widths.
LEMMA Widths ==
  /\ IntLimit \in Nat /\ IntLimit > 0 /\ Half \in Nat /\ IntLimit <= Half
  /\ Modulus \in Nat /\ Modulus = 2 * Half
  BY NumberAssumption, SMT DEF WidthAssumption

\* A remainder of what is already one.
LEMMA ModSmall ==
  ASSUME NEW n \in Nat, n > 0, NEW r \in Nat, r < n
  PROVE  r % n = r
  BY SMT

\* A remainder with a multiple taken away.
LEMMA ModMultiple ==
  ASSUME NEW n \in Nat, n > 0, NEW k \in Int, NEW r \in Nat, r < n
  PROVE  (k * n + r) % n = r
  BY SMT

\* Remainders are below the divisor.
LEMMA ModRange ==
  ASSUME NEW n \in Nat, n > 0, NEW x \in Int
  PROVE  x % n \in Nat /\ x % n < n
  BY SMT

\* The product with -1 in unsigned arithmetic.
LEMMA ModNegative ==
  ASSUME NEW n \in Nat, n > 0, NEW r \in Nat, r > 0, r < n
  PROVE  (0 - r) % n = n - r
  BY SMT

\* The limits of the two signs.
LEMMA Limits ==
  ASSUME ReaderInv
  PROVE  /\ MaxIntValue \in Nat /\ MaxIntValue < Modulus
         /\ intNeg = 1 => MaxIntValue = Modulus - 1
         /\ intNeg = 0 - 1 => MaxIntValue = Half
  BY Widths DEF ReaderInv, ReaderTypeOK, MaxIntValue

\* A multiplication beyond the limit is exactly one of a number above limit / 10.
LEMMA DivTen ==
  ASSUME NEW m \in Nat, NEW v \in Nat
  PROVE  /\ v > m \div 10 <=> 10 * v > m
         /\ m \div 10 \in Nat
  BY SMT

\* As long as nothing overflowed, the tests are those of the numbers themselves.
LEMMA OverflowsExactly ==
  ASSUME ReaderInv, hasError = 0, NEW digit \in Nat, digit <= 9
  PROVE  Overflows(digit) <=> value * 10 + digit > MaxIntValue
<1>1. intValue = value /\ value \in Nat /\ value <= MaxIntValue
  BY DEF ReaderInv, OverflowExact, ReaderTypeOK
<1>2. MaxIntValue \in Nat /\ MaxIntValue < Modulus /\ Modulus \in Nat
  BY Limits, Widths
<1>3. value > OverflowLimit <=> 10 * value > MaxIntValue
  BY <1>1, <1>2, DivTen DEF OverflowLimit
<1>4. CASE 10 * value > MaxIntValue
  <2>1. Overflows(digit)
    BY <1>1, <1>3, <1>4 DEF Overflows
  <2>2. value * 10 + digit > MaxIntValue
    BY <1>1, <1>2, <1>4
  <2> QED
    BY <2>1, <2>2
<1>5. CASE ~(10 * value > MaxIntValue)
  <2>1. (value * 10) % Modulus = value * 10
    BY <1>1, <1>2, <1>5, ModSmall
  <2>2. (MaxIntValue - value * 10) % Modulus = MaxIntValue - value * 10
    BY <1>1, <1>2, <1>5, ModSmall
  <2>3. Overflows(digit) <=> MaxIntValue - value * 10 < digit
    BY <1>1, <1>3, <1>5, <2>1, <2>2 DEF Overflows
  <2> QED
    BY <1>1, <1>2, <2>3
<1> QED
  BY <1>4, <1>5

-----------------------------------------------------------------------------
(* Steps. *)

\* The character read, and that the NUL ends the text.
LEMMA ChrType ==
  ASSUME ReaderInv
  PROVE  Chr \in Bytes /\ (Chr # 0 => pos + 1 <= Len(text))
  BY DEF ReaderInv, TextInv, ReaderTypeOK, Chr

\* The sign.
LEMMA SignKeeps ==
  ASSUME ReaderInv, TakeSign
  PROVE  ReaderInv'
<1>1. pos + 1 <= Len(text)
  BY ChrType DEF TakeSign, Minus
<1> QED
  BY <1>1, Widths
  DEF ReaderInv, TextInv, TakeSign, ReaderTypeOK, OverflowExact, NumberExact, MaxIntValue, NoCall, Call,
      Constructors

\* A step that ends the reading, other than with an integer.
LEMMA OtherKeeps ==
  ASSUME ReaderInv, NEW by \in Others \ {"ValueError"}, Return(Call(by, 0)), pos' \in 1..Len(text)
  PROVE  ReaderInv'
<1>1. result'.by = by /\ by \notin Constructors /\ by # "ValueError"
  BY DEF Return, Call, Others, Constructors
<1>2. NumberExact'
  BY <1>1 DEF NumberExact
<1>3. OverflowExact'
  BY DEF Return, ReaderInv, OverflowExact, MaxIntValue
<1>4. ReaderTypeOK'
  BY <1>1 DEF Return, ReaderInv, ReaderTypeOK
<1> QED
  BY <1>2, <1>3, <1>4 DEF ReaderInv, TextInv, Return

\* A digit: the flag is raised exactly when the number exceeds the limit, and it
\* stays raised because no digit makes a number smaller.
LEMMA DigitKeeps ==
  ASSUME ReaderInv, ScanDigit
  PROVE  ReaderInv'
<1> DEFINE digit == Chr - 48
<1>1. digit \in Nat /\ digit <= 9 /\ pos + 1 <= Len(text)
  BY ChrType DEF ScanDigit, Digits, Bytes
<1>2. /\ hasError' = IF Overflows(digit) THEN 1 ELSE hasError
      /\ intValue' = (intValue * 10 + digit) % Modulus
      /\ value' = value * 10 + digit
      /\ pos' = pos + 1 /\ phase' = "scan"
      /\ UNCHANGED <<text, intNeg, result>>
  BY DEF ScanDigit
<1> HIDE DEF digit
<1>3. MaxIntValue \in Nat /\ MaxIntValue < Modulus /\ MaxIntValue' = MaxIntValue
  BY <1>2, Limits DEF MaxIntValue
<1>4. value \in Nat /\ intValue \in Nat /\ hasError \in {0, 1} /\ Modulus \in Nat /\ Modulus > 0
  BY Widths DEF ReaderInv, ReaderTypeOK
<1>5. value' \in Nat /\ value' >= value
  BY <1>1, <1>2, <1>4
<1>6. OverflowExact'
  <2>1. CASE hasError = 1
    <3>1. value > MaxIntValue /\ hasError' = 1
      BY <1>2, <2>1 DEF ReaderInv, OverflowExact
    <3> QED
      BY <1>3, <1>4, <1>5, <3>1 DEF OverflowExact
  <2>2. CASE hasError = 0
    <3>1. Overflows(digit) <=> value' > MaxIntValue
      BY <1>1, <1>2, <2>2, OverflowsExactly
    <3>2. CASE Overflows(digit)
      <4>1. hasError' = 1 /\ value' > MaxIntValue'
        BY <1>2, <1>3, <3>1, <3>2
      <4> QED
        BY <4>1 DEF OverflowExact
    <3>3. CASE ~Overflows(digit)
      <4>1. hasError' = 0 /\ value' <= MaxIntValue
        BY <1>2, <1>3, <1>5, <2>2, <3>1, <3>3
      <4>2. intValue' = value' % Modulus
        BY <1>2, <2>2 DEF ReaderInv, OverflowExact
      <4>3. value' < Modulus
        BY <1>3, <1>4, <1>5, <4>1
      <4>4. value' % Modulus = value'
        BY <1>4, <1>5, <4>3, ModSmall
      <4>5. intValue' = value'
        BY <4>2, <4>4, Zenon
      <4> QED
        BY <1>3, <4>1, <4>5 DEF OverflowExact
    <3> QED
      BY <3>2, <3>3
  <2> QED
    BY <1>4, <2>1, <2>2
<1>7. intValue' \in 0..(Modulus - 1)
  BY <1>1, <1>2, <1>4, ModRange
<1>8. hasError' \in {0, 1}
  BY <1>2, <1>4
<1>9. ReaderTypeOK'
  BY <1>1, <1>2, <1>5, <1>7, <1>8 DEF ReaderInv, ReaderTypeOK
<1>10. result' = NoCall
  BY <1>2 DEF ReaderInv, ScanDigit, Scanning
<1> QED
  BY <1>2, <1>6, <1>9, <1>10 DEF ReaderInv, TextInv, NumberExact, NoCall, Call, Constructors

\* What is known of a number that has not overflowed.
LEMMA Fits ==
  ASSUME ReaderInv, hasError = 0
  PROVE  /\ intValue = value /\ value \in Nat /\ value < Modulus
         /\ intNeg = 0 - 1 => value <= Half
         /\ intNeg \in {1, 0 - 1}
  BY Limits, Widths DEF ReaderInv, OverflowExact, ReaderTypeOK

\* The product with the sign in unsigned arithmetic.
LEMMA Product ==
  ASSUME ReaderInv, hasError = 0
  PROVE  (intValue * intNeg) % Modulus =
           IF intNeg = 1 \/ value = 0 THEN value ELSE Modulus - value
<1>1. Modulus \in Nat /\ Modulus > 0 /\ intValue = value /\ value \in Nat /\ value < Modulus
  BY Fits, Widths
<1>2. CASE intNeg = 1
  <2>1. intValue * intNeg = value
    BY <1>1, <1>2
  <2>2. value % Modulus = value
    BY <1>1, ModSmall
  <2> QED
    BY <1>2, <2>1, <2>2
<1>3. CASE intNeg = 0 - 1 /\ value = 0
  <2>1. intValue * intNeg = 0
    BY <1>1, <1>3
  <2>2. 0 % Modulus = 0
    BY <1>1, ModSmall
  <2> QED
    BY <1>3, <2>1, <2>2
<1>4. CASE intNeg = 0 - 1 /\ value # 0
  <2>1. intValue * intNeg = 0 - value
    BY <1>1, <1>4
  <2>2. (0 - value) % Modulus = Modulus - value
    BY <1>1, <1>4, ModNegative
  <2> QED
    BY <1>4, <2>1, <2>2
<1> QED
  BY <1>2, <1>3, <1>4, Fits

\* The cast to JSINT64 puts the sign back, also for the minimum.
LEMMA CastLong ==
  ASSUME ReaderInv, hasError = 0, ~(intNeg = 1 /\ intValue >= Half)
  PROVE  /\ Signed64((intValue * intNeg) % Modulus) = intNeg * value
         /\ intNeg * value \in (0 - Half)..(Half - 1)
  BY Fits, Widths, Product DEF Signed64

\* So does the cast to JSINT32 of a number below 2^31, although it drops the
\* upper bits of 2^64 minus the number.
LEMMA CastInt ==
  ASSUME ReaderInv, hasError = 0, intValue < IntLimit
  PROVE  Signed32((intValue * intNeg) % Modulus) = intNeg * value
<1> DEFINE x == (intValue * intNeg) % Modulus
           n == 2 * IntLimit
<1>1. /\ intValue = value /\ value \in Nat /\ value < IntLimit
      /\ n \in Nat /\ n > 0 /\ n = 2 * IntLimit /\ IntLimit \in Nat
  BY Fits, Widths
<1>2. CASE intNeg = 1 \/ value = 0
  <2>1. x = value
    BY <1>2, Product
  <2>2. value % n = value
    BY <1>1, ModSmall
  <2>3. Signed32(x) = value
    BY <1>1, <2>1, <2>2 DEF Signed32
  <2>4. intNeg * value = value
    BY <1>1, <1>2, Fits
  <2> QED
    BY <2>3, <2>4
<1>3. CASE ~(intNeg = 1 \/ value = 0)
  <2>1. x = Modulus - value
    BY <1>3, Product
  <2>2. PICK k \in 1..Half : Half = k * IntLimit
    BY NumberAssumption DEF WidthAssumption
  <2>3. x = (k - 1) * n + (n - value)
    BY <1>1, <2>1, <2>2, Widths
  <2>4. x % n = n - value
    <3>1. n - value \in Nat /\ n - value < n /\ k - 1 \in Int
      BY <1>1, <1>3, <2>2, Widths
    <3> HIDE DEF n
    <3>2. ((k - 1) * n + (n - value)) % n = n - value
      BY <1>1, <3>1, ModMultiple
    <3> QED
      BY <2>3, <3>2
  <2>5. Signed32(x) = 0 - value
    BY <1>1, <2>4 DEF Signed32
  <2>6. intNeg * value = 0 - value
    BY <1>1, <1>3, Fits
  <2> QED
    BY <2>5, <2>6
<1> QED
  BY <1>2, <1>3

\* Each of the constructors is given the number.
LEMMA ConstructorExact ==
  ASSUME ReaderInv, EndNumber
  PROVE  NumberExact'
<1>1. result' = Constructor /\ intNeg' = intNeg /\ value' = value
  BY DEF EndNumber, Return
<1>2. value \in Nat /\ intNeg \in {1, 0 - 1} /\ hasError \in {0, 1}
  BY DEF ReaderInv, ReaderTypeOK
<1>3. CASE hasError = 1
  <2>1. Constructor \in {Call("newIntegerFromString", intNeg * value), Call("ValueError", 0)}
    BY <1>3 DEF Constructor, IntegerFromString
  <2>2. value > MaxIntValue
    BY <1>3 DEF ReaderInv, OverflowExact
  <2>3. intNeg * value \notin (0 - Half)..(Modulus - 1) /\ ~(value < IntLimit)
    BY <1>2, <2>2, Limits, Widths
  <2>4. intNeg * value \notin Half..(Modulus - 1)
    BY <1>2, <2>3, Widths
  <2>5. MaxIntValue' = MaxIntValue
    BY <1>1 DEF MaxIntValue
  <2>6. CASE Constructor = Call("newIntegerFromString", intNeg * value)
    BY <1>1, <2>3, <2>4, <2>6 DEF NumberExact, Call
  <2>7. CASE Constructor = Call("ValueError", 0)
    BY <1>1, <2>2, <2>5, <2>7 DEF NumberExact, Call, Constructors
  <2> QED
    BY <2>1, <2>6, <2>7
<1>4. CASE hasError = 0 /\ intNeg = 1 /\ intValue >= Half
  <2>1. Constructor = Call("newUnsignedLong", intValue)
    BY <1>4 DEF Constructor
  <2>2. /\ intValue = intNeg * value /\ ~(value < IntLimit)
        /\ intValue \in Half..(Modulus - 1) /\ intValue \in (0 - Half)..(Modulus - 1)
    BY <1>4, Fits, Widths
  <2> QED
    BY <1>1, <2>1, <2>2 DEF NumberExact, Call
<1>5. CASE hasError = 0 /\ ~(intNeg = 1 /\ intValue >= Half)
  <2>1. intNeg * value \in (0 - Half)..(Half - 1)
    BY <1>5, CastLong
  <2>2. intNeg * value \notin Half..(Modulus - 1) /\ intNeg * value \in (0 - Half)..(Modulus - 1)
    BY <1>2, <2>1, Widths
  <2>3. CASE intValue >= IntLimit
    <3>1. Constructor = Call("newLong", intNeg * value)
      BY <1>5, <2>3, CastLong DEF Constructor
    <3>2. ~(value < IntLimit)
      BY <1>5, <2>3, Fits, Widths
    <3> QED
      BY <1>1, <2>1, <2>2, <3>1, <3>2 DEF NumberExact, Call
  <2>4. CASE ~(intValue >= IntLimit)
    <3>1. value < IntLimit /\ intValue < IntLimit
      BY <1>5, <2>4, Fits, Widths
    <3>2. Constructor = Call("newInt", intNeg * value)
      BY <1>5, <2>4, <3>1, CastInt DEF Constructor
    <3> QED
      BY <1>1, <2>2, <3>1, <3>2 DEF NumberExact, Call
  <2> QED
    BY <2>3, <2>4
<1> QED
  BY <1>2, <1>3, <1>4, <1>5

\* The end of the digits.
LEMMA EndKeeps ==
  ASSUME ReaderInv, EndNumber
  PROVE  ReaderInv'
<1>1. NumberExact'
  BY ConstructorExact
<1>2. result'.by \in Constructors \union Others
  BY DEF EndNumber, Return, Constructor, IntegerFromString, Call, Constructors, Others
<1>3. ReaderTypeOK'
  BY <1>2 DEF EndNumber, Return, ReaderInv, ReaderTypeOK
<1>4. OverflowExact'
  BY DEF EndNumber, Return, ReaderInv, OverflowExact, MaxIntValue
<1> QED
  BY <1>1, <1>3, <1>4 DEF EndNumber, Return, ReaderInv, TextInv

\* What follows a word is still within the text.
LEMMA WordKeeps ==
  ASSUME ReaderInv, DecodeInf \/ DecodeNaN
  PROVE  ReaderInv'
<1>1. PICK by \in Others \ {"ValueError"} : Return(Call(by, 0))
  BY DEF DecodeInf, DecodeNaN, Others
<1>2. pos \in 1..Len(text) /\ Len(text) \in Nat
  BY DEF ReaderInv, TextInv, ReaderTypeOK
<1>3. text[Len(text)] = 0
  BY DEF ReaderInv, TextInv
<1>4. pos' \in 1..Len(text)
  <2>1. CASE pos' = pos
    BY <1>2, <2>1
  <2>2. CASE pos' = pos + 8 /\ IsAt(Infinity)
    <3>1. Len(Infinity) = 8 /\ Infinity[8] = 121 /\ 8 \in DOMAIN Infinity
      BY DEF Infinity
    <3>2. pos + Len(Infinity) - 1 <= Len(text) /\ text[pos + 8 - 1] = Infinity[8]
      BY <2>2, <3>1 DEF IsAt
    <3> QED
      BY <1>2, <1>3, <2>2, <3>1, <3>2
  <2>3. CASE pos' = pos + 3 /\ IsAt(NaN)
    <3>1. pos + 2 <= Len(text) /\ text[pos + 2] = 78
      BY <1>2, <2>3 DEF IsAt, NaN
    <3> QED
      BY <1>2, <1>3, <2>3, <3>1
  <2> QED
    BY <2>1, <2>2, <2>3 DEF DecodeInf, DecodeNaN
<1> QED
  BY <1>1, <1>4, OtherKeeps

-----------------------------------------------------------------------------
(* Powers of ten. *)

\* Numbers have a least element: what takes the place of induction here.
LEMMA LeastNumber ==
  ASSUME NEW T \in SUBSET Nat, T # {}
  PROVE  \E x \in T : \A y \in T : x <= y
<1> DEFINE less == {ss \in Nat \X Nat : ss[1] < ss[2]}
<1>1. IsWellFoundedOn(less, Nat)
  BY NatLessThanWellFounded, Zenon DEF OpToRel
<1> HIDE DEF less
<1>2. PICK x \in T : \A y \in T : <<y, x>> \notin less
  BY <1>1, WFMin
<1>3. ASSUME NEW y \in T PROVE x <= y
  <2>1. <<y, x>> \notin less
    BY <1>2
  <2> QED
    BY <2>1 DEF less
<1> QED
  BY <1>3

\* The function Power is to be, up to n.
PowerUpTo(g, n) ==
  /\ g \in [0..n -> Nat]
  /\ \A k \in 0..n : g[k] = IF k = 0 THEN 1 ELSE 10 * g[k - 1]

\* There is one for every n.
LEMMA PowersExist ==
  ASSUME NEW n \in Nat
  PROVE  \E g : PowerUpTo(g, n)
<1> DEFINE T == {k \in Nat : ~\E g : PowerUpTo(g, k)}
<1> SUFFICES ASSUME T # {} PROVE FALSE
  OBVIOUS
<1>1. PICK k \in T : \A y \in T : k <= y
  <2>1. T \in SUBSET Nat
    OBVIOUS
  <2> HIDE DEF T
  <2> QED
    BY <2>1, LeastNumber
<1>2. CASE k = 0
  <2>1. PowerUpTo([i \in 0..0 |-> 1], 0)
    BY DEF PowerUpTo
  <2> QED
    BY <1>2, <2>1
<1>3. CASE k # 0
  <2>1. k - 1 \in Nat /\ k - 1 \notin T
    BY <1>1, <1>3
  <2>2. PICK g : PowerUpTo(g, k - 1)
    BY <2>1
  <2> DEFINE h == [i \in 0..k |-> IF i < k THEN g[i] ELSE 10 * g[k - 1]]
  <2>3. k - 1 \in 0..(k - 1) /\ \A i \in 0..(k - 1) : g[i] \in Nat
    BY <2>1, <2>2 DEF PowerUpTo
  <2>4. h \in [0..k -> Nat]
    BY <2>1, <2>3
  <2>5. ASSUME NEW i \in 0..k PROVE h[i] = IF i = 0 THEN 1 ELSE 10 * h[i - 1]
    <3>1. CASE i < k
      BY <2>1, <2>2, <3>1 DEF PowerUpTo
    <3>2. CASE i = k
      BY <1>3, <2>1, <3>2
    <3> QED
      BY <2>1, <3>1, <3>2
  <2>6. PowerUpTo(h, k)
    BY <2>4, <2>5, Zenon DEF PowerUpTo
  <2> QED
    BY <2>6, Zenon
<1> QED
  BY <1>2, <1>3

\* They agree.
LEMMA PowersAgree ==
  ASSUME NEW m \in Nat, NEW n \in Nat, NEW g, NEW h, PowerUpTo(g, m), PowerUpTo(h, n),
         NEW i \in Nat, i <= m, i <= n
  PROVE  g[i] = h[i]
<1> DEFINE T == {k \in Nat : k <= m /\ k <= n /\ g[k] # h[k]}
<1> SUFFICES ASSUME T # {} PROVE FALSE
  OBVIOUS
<1>1. PICK k \in T : \A y \in T : k <= y
  <2>1. T \in SUBSET Nat
    OBVIOUS
  <2> HIDE DEF T
  <2> QED
    BY <2>1, LeastNumber
<1>2. /\ g[k] = IF k = 0 THEN 1 ELSE 10 * g[k - 1]
      /\ h[k] = IF k = 0 THEN 1 ELSE 10 * h[k - 1]
  <2>1. k \in 0..m /\ k \in 0..n
    OBVIOUS
  <2> HIDE DEF T
  <2> QED
    BY <2>1 DEF PowerUpTo
<1>3. k # 0 => g[k - 1] = h[k - 1]
  BY <1>1
<1> QED
  BY <1>2, <1>3

\* Power is defined by its equation.
LEMMA PowerIs ==
  /\ Power \in [Nat -> Nat]
  /\ Power[0] = 1
  /\ \A k \in Nat : Power[k + 1] = 10 * Power[k]
<1> DEFINE some(n) == CHOOSE g : PowerUpTo(g, n)
           f == [n \in Nat |-> some(n)[n]]
<1>1. \A n \in Nat : PowerUpTo(some(n), n)
  BY PowersExist, Zenon
<1>2. ASSUME NEW n \in Nat PROVE f[n] \in Nat /\ f[n] = IF n = 0 THEN 1 ELSE 10 * f[n - 1]
  <2>1. PowerUpTo(some(n), n) /\ f[n] = some(n)[n]
    BY <1>1
  <2>2. some(n)[n] \in Nat /\ some(n)[n] = IF n = 0 THEN 1 ELSE 10 * some(n)[n - 1]
    <3>1. n \in 0..n
      OBVIOUS
    <3> HIDE DEF some, f
    <3> QED
      BY <2>1, <3>1 DEF PowerUpTo
  <2>3. CASE n # 0
    <3>1. n - 1 \in Nat /\ n - 1 <= n
      BY <2>3
    <3>2. f[n - 1] = some(n - 1)[n - 1] /\ PowerUpTo(some(n - 1), n - 1)
      BY <1>1, <3>1
    <3> HIDE DEF some, f
    <3>3. some(n)[n - 1] = some(n - 1)[n - 1]
      BY <2>1, <3>1, <3>2, PowersAgree
    <3> QED
      BY <2>1, <2>2, <2>3, <3>2, <3>3
  <2>4. CASE n = 0
    <3> HIDE DEF some, f
    <3> QED
      BY <2>1, <2>2, <2>4
  <2> QED
    BY <2>3, <2>4
<1>3. f = [n \in Nat |-> IF n = 0 THEN 1 ELSE 10 * f[n - 1]]
  <2>1. \A n \in Nat : f[n] = IF n = 0 THEN 1 ELSE 10 * f[n - 1]
    BY <1>2
  <2>2. f = [n \in Nat |-> f[n]]
    OBVIOUS
  <2> HIDE DEF f
  <2>3. [n \in Nat |-> f[n]] = [n \in Nat |-> IF n = 0 THEN 1 ELSE 10 * f[n - 1]]
    BY <2>1
  <2> QED
    BY <2>2, <2>3, Zenon
<1>4. \E g : g = [n \in Nat |-> IF n = 0 THEN 1 ELSE 10 * g[n - 1]]
  <2> HIDE DEF f
  <2> QED
    BY <1>3, Zenon
<1>5. Power = [n \in Nat |-> IF n = 0 THEN 1 ELSE 10 * Power[n - 1]]
  BY <1>4, Zenon DEF Power
<1>6. \A n \in Nat : Power[n] = IF n = 0 THEN 1 ELSE 10 * Power[n - 1]
  BY <1>5
<1>7. ASSUME NEW n \in Nat PROVE Power[n] \in Nat
  <2> DEFINE T == {k \in Nat : Power[k] \notin Nat}
  <2> SUFFICES ASSUME T # {} PROVE FALSE
    OBVIOUS
  <2>1. PICK k \in T : \A y \in T : k <= y
    <3>1. T \in SUBSET Nat
      OBVIOUS
    <3> HIDE DEF T
    <3> QED
      BY <3>1, LeastNumber
  <2>2. k # 0 => Power[k - 1] \in Nat
    BY <2>1
  <2> QED
    BY <1>6, <2>2
<1>8. Power \in [Nat -> Nat]
  BY <1>5, <1>7
<1>9. \A k \in Nat : (k + 1) - 1 = k /\ k + 1 # 0 /\ k + 1 \in Nat
  OBVIOUS
<1> QED
  BY <1>6, <1>8, <1>9

-----------------------------------------------------------------------------
(* Buffer_AppendLong and Buffer_AppendUnsignedLong. *)

\* The digits there is room for, of a magnitude within the limits of its type.
Room == IF type = "JT_LONG" THEN LongChars - 1 ELSE ULongChars

WriterTyped ==
  /\ number \in Int
  /\ type \in {"none", "JT_LONG", "JT_ULONG", "JT_RAW", "JT_INVALID"}
  /\ uvalue \in Nat
  /\ wstr \in Seq(Bytes)
  /\ step \in {"begin", "digits", "reverse", "done", "raised", "unused"}

\* The type is the one that holds the number.
Chosen ==
  /\ step \in {"begin", "unused"} => type = "none" /\ wstr = <<>>
  /\ step \in {"digits", "reverse"} => type \in {"JT_LONG", "JT_ULONG"}
  /\ type = "JT_LONG" => IsLong
  /\ type = "JT_ULONG" => IsULong
  /\ type = "JT_RAW" => ~IsLong /\ ~IsULong /\ ~Beyond(number, WriteDigits)
  /\ type = "JT_INVALID" => ~IsLong /\ ~IsULong /\ Beyond(number, WriteDigits)
  /\ step = "done" => type \in {"JT_LONG", "JT_ULONG", "JT_RAW"}
  /\ step = "raised" => type = "JT_INVALID"

\* What is left to write has no more digits than there is room left for.
Within ==
  /\ step = "digits" => Len(wstr) < Room /\ uvalue < Power[Room - Len(wstr)]
  /\ step = "reverse" => Len(wstr) <= Room

\* d is what uvalue has been, before each of the digits and now.
Divided(d) ==
  /\ d \in [0..Len(wstr) -> Nat]
  /\ d[0] = Magnitude /\ d[Len(wstr)] = uvalue
  /\ \A i \in 1..Len(wstr) : d[i] = d[i - 1] \div 10 /\ wstr[i] = 48 + (d[i - 1] % 10)

Dividing ==
  /\ step \in {"digits", "reverse"} => \E d : Divided(d)
  /\ step = "reverse" => uvalue = 0 /\ Len(wstr) > 0

\* d is what the digits of s stand for, up to each of them.
Sign(n) == IF n < 0 THEN 1 ELSE 0
Counts(d, s, n) ==
  LET k == Len(s) - Sign(n)
  IN /\ d \in [0..k -> Nat]
     /\ d[0] = 0 /\ d[k] = Absolute(n)
     /\ \A i \in 1..k : s[Sign(n) + i] \in Digits /\ d[i] = 10 * d[i - 1] + (s[Sign(n) + i] - 48)

\* s is the text of n.
Numeral(s, n) ==
  /\ s \in Seq(Bytes) /\ Len(s) > Sign(n)
  /\ n < 0 => s[1] = Minus
  /\ \E d : Counts(d, s, n)

\* It has no leading zero.
Tight(s, n) ==
  LET k == Len(s) - Sign(n) IN Power[k - 1] <= Absolute(n) /\ Absolute(n) < Power[k]

Finished ==
  step = "done" => Numeral(wstr, number) /\ (type = "JT_RAW" => Tight(wstr, number))

\* The inductive invariant.  CharsBounded holds while digits are written because
\* a digit less of the value makes room for a digit; IntRoundTrip needs what has
\* been divided away to be in the text.
WriterInv == WriterTyped /\ Chosen /\ Within /\ Dividing /\ Finished /\ CharsBounded

\* Each type holds its magnitudes in the room there is.
LEMMA MagnitudeFits ==
  ASSUME number \in Int, IsLong
  PROVE  /\ Magnitude \in Nat /\ Magnitude = Absolute(number)
         /\ 0 < LongChars - 1 /\ LongChars - 1 \in Nat
         /\ Magnitude < Power[LongChars - 1]
<1> DEFINE room == LongChars - 1
<1>1. Maximum \in Nat /\ room \in Nat /\ Maximum + 1 < Power[room]
  BY WriterAssumption
<1> HIDE DEF room
<1>2. Magnitude \in Nat /\ Magnitude = Absolute(number) /\ Magnitude <= Maximum + 1
  BY <1>1 DEF IsLong, Magnitude, Absolute
<1>3. Power[room] \in Nat /\ (room = 0 => Power[room] = 1)
  BY <1>1, PowerIs
<1>4. 0 < room /\ Magnitude < Power[room]
  BY <1>1, <1>2, <1>3
<1> QED
  BY <1>1, <1>2, <1>4 DEF room

LEMMA UnsignedFits ==
  ASSUME number \in Int, IsULong
  PROVE  /\ number \in Nat /\ Magnitude = number /\ Absolute(number) = number /\ ~(number < 0)
         /\ 0 < ULongChars /\ ULongChars \in Nat
         /\ number < Power[ULongChars]
<1>1. Maximum \in Nat /\ ULongChars \in Nat /\ 2 * Maximum + 1 < Power[ULongChars]
  BY WriterAssumption
<1>2. number \in Nat /\ Magnitude = number /\ Absolute(number) = number /\ number <= 2 * Maximum + 1
      /\ ~(number < 0)
  BY <1>1 DEF IsULong, Magnitude, Absolute
<1>3. Power[ULongChars] \in Nat /\ (ULongChars = 0 => Power[ULongChars] = 1)
  BY <1>1, PowerIs
<1> QED
  BY <1>1, <1>2, <1>3

\* The steps that find the type.
LEMMA LongKeeps ==
  ASSUME WriterInv, BeginLong
  PROVE  WriterInv'
<1>1. /\ step = "begin" /\ IsLong /\ type' = "JT_LONG" /\ uvalue' = Magnitude /\ step' = "digits"
      /\ number' = number /\ wstr' = wstr /\ wstr = <<>> /\ number \in Int
  BY DEF BeginLong, WriterInv, Chosen, WriterTyped
<1>2. /\ Magnitude \in Nat /\ 0 < LongChars - 1 /\ LongChars - 1 \in Nat
      /\ Magnitude < Power[LongChars - 1]
  BY <1>1, MagnitudeFits
<1>3. WriterTyped'
  BY <1>1, <1>2 DEF WriterInv, WriterTyped
<1>4. Chosen'
  BY <1>1 DEF Chosen, IsLong
<1>5. Within' /\ CharsBounded'
  <2>1. Room' = LongChars - 1 /\ Len(wstr') = 0 /\ Room' - Len(wstr') = LongChars - 1
    BY <1>1, <1>2 DEF Room
  <2>2. uvalue' < Power[Room' - Len(wstr')] /\ Len(wstr') < Room'
    <3>1. uvalue' < Power[LongChars - 1]
      BY <1>1, <1>2, Zenon
    <3>2. Power[Room' - Len(wstr')] = Power[LongChars - 1]
      BY <2>1, Zenon
    <3> QED
      BY <1>2, <2>1, <3>1, <3>2, Zenon
  <2>3. Within'
    BY <1>1, <2>2 DEF Within
  <2>4. CharsBounded'
    BY <1>1, <2>1, WriterAssumption DEF CharsBounded
  <2> QED
    BY <2>3, <2>4
<1>6. Dividing' /\ Finished'
  <2>1. uvalue' \in Nat /\ Magnitude' = Magnitude
    BY <1>1, <1>2 DEF Magnitude
  <2>2. PICK d : d = [i \in 0..0 |-> uvalue']
    OBVIOUS
  <2>3. Divided(d)'
    BY <1>1, <2>1, <2>2 DEF Divided
  <2> QED
    BY <1>1, <2>3 DEF Dividing, Finished
<1> QED
  BY <1>3, <1>4, <1>5, <1>6 DEF WriterInv

LEMMA UnsignedKeeps ==
  ASSUME WriterInv, BeginULong
  PROVE  WriterInv'
<1>1. /\ step = "begin" /\ IsULong /\ ~IsLong /\ type' = "JT_ULONG" /\ uvalue' = number
      /\ step' = "digits" /\ number' = number /\ wstr' = wstr /\ wstr = <<>> /\ number \in Int
  BY DEF BeginULong, WriterInv, Chosen, WriterTyped
<1>2. /\ number \in Nat /\ Magnitude = number /\ 0 < ULongChars /\ ULongChars \in Nat
      /\ number < Power[ULongChars]
  BY <1>1, UnsignedFits
<1>3. WriterTyped'
  BY <1>1, <1>2 DEF WriterInv, WriterTyped
<1>4. Chosen'
  BY <1>1 DEF Chosen, IsULong
<1>5. Within' /\ CharsBounded'
  <2>1. Room' = ULongChars /\ Len(wstr') = 0 /\ ULongChars - 0 = ULongChars
    BY <1>1, <1>2 DEF Room
  <2> QED
    BY <1>1, <1>2, <2>1 DEF Within, CharsBounded
<1>6. Dividing' /\ Finished'
  <2>1. uvalue' \in Nat /\ Magnitude' = uvalue'
    BY <1>1, <1>2 DEF Magnitude
  <2>2. PICK d : d = [i \in 0..0 |-> uvalue']
    OBVIOUS
  <2>3. Divided(d)'
    BY <1>1, <2>1, <2>2 DEF Divided
  <2> QED
    BY <1>1, <2>3 DEF Dividing, Finished
<1> QED
  BY <1>3, <1>4, <1>5, <1>6 DEF WriterInv

\* A digit less is a power less.
LEMMA DigitFits ==
  ASSUME NEW u \in Nat, NEW r \in Nat, r > 0, u < Power[r]
  PROVE  /\ u \div 10 \in Nat /\ u \div 10 < Power[r - 1]
         /\ r = 1 => u \div 10 = 0
<1>1. r - 1 \in Nat /\ (r - 1) + 1 = r
  OBVIOUS
<1>2. Power[r] = 10 * Power[r - 1] /\ Power[r - 1] \in Nat /\ (r = 1 => Power[r - 1] = 1)
  BY <1>1, PowerIs
<1> QED
  BY <1>2

\* A digit.
LEMMA AppendKeeps ==
  ASSUME WriterInv, AppendDigit
  PROVE  WriterInv'
<1>1. /\ step = "digits" /\ wstr' = Append(wstr, 48 + (uvalue % 10)) /\ uvalue' = uvalue \div 10
      /\ step' = (IF uvalue \div 10 = 0 THEN "reverse" ELSE "digits")
      /\ number' = number /\ type' = type
  BY DEF AppendDigit, LastDigit
<1>2. /\ wstr \in Seq(Bytes) /\ uvalue \in Nat /\ type \in {"JT_LONG", "JT_ULONG"}
      /\ Len(wstr) < Room /\ uvalue < Power[Room - Len(wstr)]
  BY <1>1 DEF WriterInv, WriterTyped, Chosen, Within
<1>3. Room \in Nat /\ Room' = Room
  BY <1>1, WriterAssumption DEF Room
<1>4. Len(wstr) \in Nat /\ Room - Len(wstr) \in Nat /\ Room - Len(wstr) > 0
  BY <1>2, <1>3
<1>5. /\ uvalue \div 10 \in Nat /\ uvalue \div 10 < Power[(Room - Len(wstr)) - 1]
      /\ Room - Len(wstr) = 1 => uvalue \div 10 = 0
  BY <1>2, <1>4, DigitFits
<1>6. 48 + (uvalue % 10) \in Bytes
  BY <1>2, SMT DEF Bytes
<1>7. wstr' \in Seq(Bytes) /\ Len(wstr') = Len(wstr) + 1
  BY <1>1, <1>2, <1>6
<1>8. WriterTyped' /\ Chosen'
  BY <1>1, <1>2, <1>5, <1>7 DEF WriterInv, WriterTyped, Chosen, IsLong, IsULong
<1>9. Within' /\ CharsBounded'
  <2>1. Room - Len(wstr') = (Room - Len(wstr)) - 1
    BY <1>3, <1>4, <1>7
  <2>2. Len(wstr') <= Room
    BY <1>3, <1>4, <1>7
  <2>3. step' = "digits" => Len(wstr') < Room /\ uvalue' < Power[Room - Len(wstr')]
    BY <1>1, <1>3, <1>4, <1>5, <1>7, <2>1
  <2>4. Within'
    BY <1>3, <2>2, <2>3 DEF Within
  <2>5. CharsBounded'
    BY <1>1, <1>2, <1>7, <2>2, WriterAssumption DEF CharsBounded, Room
  <2> QED
    BY <2>4, <2>5
<1>10. Dividing'
  <2>1. PICK d : Divided(d)
    BY <1>1 DEF WriterInv, Dividing
  <2>9. PICK n : n = Len(wstr)
    OBVIOUS
  <2>10. PICK e : e = [i \in 0..(n + 1) |-> IF i <= n THEN d[i] ELSE uvalue \div 10]
    OBVIOUS
  <2>2. /\ n \in Nat /\ d \in [0..n -> Nat] /\ d[0] = Magnitude /\ d[n] = uvalue
        /\ \A i \in 1..n : d[i] = d[i - 1] \div 10 /\ wstr[i] = 48 + (d[i - 1] % 10)
    BY <1>4, <2>1, <2>9 DEF Divided
  <2>3. /\ \A i \in 1..n : wstr'[i] = wstr[i]
        /\ wstr'[n + 1] = 48 + (uvalue % 10)
    BY <1>1, <1>2, <1>6, <2>9
  <2>4. Magnitude' = Magnitude /\ Len(wstr') = n + 1
    BY <1>1, <1>7, <2>9 DEF Magnitude
  <2>5. e \in [0..(n + 1) -> Nat] /\ e[0] = d[0] /\ e[n + 1] = uvalue \div 10
    BY <1>5, <2>2, <2>10
  <2>6. ASSUME NEW i \in 1..(n + 1)
        PROVE  e[i] = e[i - 1] \div 10 /\ wstr'[i] = 48 + (e[i - 1] % 10)
    <3>1. CASE i <= n
      <4>1. i \in 1..n /\ e[i] = d[i] /\ e[i - 1] = d[i - 1]
        BY <2>2, <2>10, <3>1
      <4> QED
        BY <2>2, <2>3, <4>1
    <3>2. CASE i = n + 1
      <4>1. e[i] = uvalue \div 10 /\ e[i - 1] = uvalue
        BY <2>2, <2>10, <3>2
      <4> QED
        BY <2>3, <3>2, <4>1
    <3> QED
      BY <2>2, <3>1, <3>2
  <2>7. Divided(e)'
    BY <1>1, <2>2, <2>4, <2>5, <2>6 DEF Divided
  <2>8. step' = "reverse" => uvalue' = 0 /\ Len(wstr') > 0
    BY <1>1, <2>2, <2>4
  <2> QED
    BY <2>7, <2>8 DEF Dividing
<1>11. Finished'
  BY <1>1 DEF Finished
<1> QED
  BY <1>8, <1>9, <1>10, <1>11 DEF WriterInv

\* The reversed digits count up to what has been divided down.
LEMMA ReverseKeeps ==
  ASSUME WriterInv, ReverseDigits
  PROVE  WriterInv'
<1>1. /\ step = "reverse" /\ wstr' = Turned /\ step' = "done"
      /\ number' = number /\ type' = type /\ uvalue' = uvalue
  BY DEF ReverseDigits
<1>2. /\ wstr \in Seq(Bytes) /\ number \in Int /\ type \in {"JT_LONG", "JT_ULONG"}
      /\ uvalue = 0 /\ Len(wstr) > 0 /\ Len(wstr) <= Room
  BY <1>1 DEF WriterInv, WriterTyped, Chosen, Within, Dividing
<1>3. PICK d : Divided(d)
  BY <1>1 DEF WriterInv, Dividing
<1>4. Magnitude = Absolute(number) /\ (type = "JT_LONG" /\ number < 0 <=> number < 0)
  BY <1>2, MagnitudeFits, UnsignedFits DEF WriterInv, Chosen
<1> DEFINE n == Len(wstr)
           k == Sign(number)
           signed == IF number < 0 THEN Append(wstr, 45) ELSE wstr
<1>5. n \in Nat /\ n > 0 /\ k \in {0, 1} /\ 45 \in Bytes
  BY <1>2 DEF Bytes, Sign
<1>6. signed \in Seq(Bytes) /\ Len(signed) = n + k /\ (number < 0 => signed[n + 1] = 45)
      /\ \A i \in 1..n : signed[i] = wstr[i]
  BY <1>2, <1>5 DEF Sign
<1>7. wstr' = [i \in 1..(n + k) |-> signed[((n + k) - i) + 1]]
  <2>1. wstr' = Reverse(signed)
    BY <1>1, <1>4, Zenon DEF Turned
  <2> HIDE DEF signed, n, k
  <2> QED
    BY <1>6, <2>1 DEF Reverse
<1> HIDE DEF signed
<1>8. wstr' \in Seq(Bytes) /\ Len(wstr') = n + k
  <2>1. \A i \in 1..(n + k) : signed[((n + k) - i) + 1] \in Bytes
    BY <1>5, <1>6
  <2> HIDE DEF n, k
  <2> QED
    BY <1>5, <1>7, <2>1
<1>9. number < 0 => wstr'[1] = Minus
  <2> HIDE DEF n
  <2> QED
    BY <1>5, <1>6, <1>7 DEF Sign, Minus
<1>10. \A i \in 1..n : wstr'[k + i] = wstr[(n - i) + 1]
  <2> HIDE DEF n, k
  <2>1. ASSUME NEW i \in 1..n PROVE wstr'[k + i] = wstr[(n - i) + 1]
    <3>1. k + i \in 1..(n + k) /\ ((n + k) - (k + i)) + 1 = (n - i) + 1 /\ (n - i) + 1 \in 1..n
      BY <1>5
    <3>2. wstr'[k + i] = signed[(n - i) + 1]
      BY <1>7, <3>1
    <3> QED
      BY <1>6, <3>1, <3>2
  <2> QED
    BY <2>1
<1>11. \E e : Counts(e, wstr', number)
  <2> DEFINE e == [i \in 0..n |-> d[n - i]]
  <2>1. /\ d \in [0..n -> Nat] /\ d[0] = Magnitude /\ d[n] = 0
        /\ \A i \in 1..n : d[i] = d[i - 1] \div 10 /\ wstr[i] = 48 + (d[i - 1] % 10)
    BY <1>2, <1>3 DEF Divided
  <2> HIDE DEF n, k
  <2>2. e \in [0..n -> Nat] /\ e[0] = 0 /\ e[n] = Absolute(number)
    BY <1>4, <1>5, <2>1
  <2>3. ASSUME NEW i \in 1..n
        PROVE  wstr'[k + i] \in Digits /\ e[i] = 10 * e[i - 1] + (wstr'[k + i] - 48)
    <3>1. (n - i) + 1 \in 1..n /\ ((n - i) + 1) - 1 = n - i /\ n - i \in 0..n
      BY <1>5
    <3>2. d[(n - i) + 1] = d[n - i] \div 10 /\ wstr[(n - i) + 1] = 48 + (d[n - i] % 10) /\ d[n - i] \in Nat
      BY <2>1, <3>1
    <3>3. e[i] = d[n - i] /\ e[i - 1] = d[(n - i) + 1]
      <4>1. n - (i - 1) = (n - i) + 1
        BY <1>5
      <4>2. e[i - 1] = d[n - (i - 1)]
        BY <1>5
      <4> QED
        BY <4>1, <4>2
    <3>4. wstr'[k + i] = 48 + (d[n - i] % 10)
      BY <1>10, <3>2
    <3>5. ASSUME NEW v \in Nat
          PROVE  48 + (v % 10) \in 48..57 /\ v = 10 * (v \div 10) + ((48 + (v % 10)) - 48)
      BY SMT
    <3> HIDE DEF e
    <3> QED
      BY <3>2, <3>3, <3>4, <3>5 DEF Digits
  <2>4. Len(wstr') - Sign(number) = n /\ k = Sign(number)
    BY <1>5, <1>8 DEF k
  <2> HIDE DEF e
  <2>5. Counts(e, wstr', number)
    BY <2>2, <2>3, <2>4 DEF Counts
  <2> QED
    BY <2>5
<1>12. Finished'
  <2>1. Numeral(wstr', number')
    BY <1>1, <1>5, <1>8, <1>9, <1>11 DEF Numeral
  <2>2. type' # "JT_RAW"
    BY <1>1, <1>2
  <2> QED
    BY <2>1, <2>2, Zenon DEF Finished
<1>13. CharsBounded'
  BY <1>1, <1>2, <1>5, <1>8, UnsignedFits, WriterAssumption
  DEF CharsBounded, Room, Sign, WriterInv, Chosen
<1>14. WriterTyped' /\ Chosen' /\ Within' /\ Dividing'
  BY <1>1, <1>2, <1>8 DEF WriterInv, WriterTyped, Chosen, Within, Dividing, IsLong, IsULong
<1> QED
  BY <1>12, <1>13, <1>14 DEF WriterInv

-----------------------------------------------------------------------------
(* PyNumber_ToBase. *)

\* Powers are positive, and exceed their exponents.
LEMMA PowerExceeds ==
  ASSUME NEW k \in Nat
  PROVE  k < Power[k] /\ Power[k] \in Nat /\ Power[k] > 0
<1> DEFINE T == {i \in Nat : ~(i < Power[i])}
<1>1. T = {}
  <2> SUFFICES ASSUME T # {} PROVE FALSE
    OBVIOUS
  <2>1. PICK i \in T : \A y \in T : i <= y
    <3>1. T \in SUBSET Nat
      OBVIOUS
    <3> HIDE DEF T
    <3> QED
      BY <3>1, LeastNumber
  <2>2. i \in Nat /\ ~(i < Power[i]) /\ i # 0
    BY PowerIs
  <2>3. i - 1 \in Nat /\ (i - 1) + 1 = i /\ i - 1 < Power[i - 1]
    BY <2>1, <2>2
  <2>4. Power[i] = 10 * Power[i - 1] /\ Power[i - 1] \in Nat
    BY <2>3, PowerIs
  <2> QED
    BY <2>2, <2>3, <2>4
<1>2. Power[k] \in Nat
  BY PowerIs
<1> QED
  BY <1>1, <1>2

\* Quotients are determined by the product.
LEMMA DivMultiple ==
  ASSUME NEW n \in Nat, n > 0, NEW a \in Nat, NEW r \in Nat, r < n
  PROVE  (a * n + r) \div n = a
  BY SMT

\* Ten times the divisor is a division by ten more.
LEMMA DivPower ==
  ASSUME NEW m \in Nat, NEW p \in Nat, p > 0
  PROVE  m \div (10 * p) = (m \div p) \div 10 /\ m \div p \in Nat
<1> DEFINE q == m \div p
           r == m % p
           a == q \div 10
           b == q % 10
<1>1. q \in Nat /\ r \in Nat /\ r < p /\ m = q * p + r
  BY SMT
<1> HIDE DEF q, r
<1>2. a \in Nat /\ b \in Nat /\ b <= 9 /\ q = 10 * a + b
  BY <1>1, SMT
<1> HIDE DEF a, b
<1>3. b * p \in Nat /\ b * p <= 9 * p /\ q * p = a * (10 * p) + b * p
  BY <1>1, <1>2, SMT
<1>4. m = a * (10 * p) + (b * p + r) /\ b * p + r \in Nat /\ b * p + r < 10 * p
  <2> DEFINE x == a * (10 * p)
             y == b * p
             z == q * p
  <2>1. x \in Nat /\ y \in Nat /\ y <= 9 * p /\ z = x + y /\ m = z + r
    BY <1>1, <1>2, <1>3
  <2> HIDE DEF x, y, z
  <2>2. m = x + (y + r) /\ y + r \in Nat /\ y + r < 10 * p
    BY <1>1, <2>1
  <2> QED
    BY <2>2 DEF x, y
<1>5. m \div (10 * p) = a
  <2> DEFINE n == 10 * p
             s == b * p + r
  <2>1. n \in Nat /\ n > 0 /\ s \in Nat /\ s < n /\ m = a * n + s
    BY <1>4
  <2> HIDE DEF n, s
  <2>2. m \div n = a
    BY <1>2, <2>1, DivMultiple
  <2> QED
    BY <2>2 DEF n
<1> QED
  BY <1>1, <1>5 DEF a, q

\* A number has a last digit that is not a leading zero.
LEMMA LengthExists ==
  ASSUME NEW m \in Nat
  PROVE  \E k \in 1..(m + 1) : m < Power[k] /\ (k > 1 => Power[k - 1] <= m)
<1> DEFINE T == {k \in Nat : k > 0 /\ m < Power[k]}
<1>1. m + 1 \in T
  <2>1. m + 1 \in Nat /\ m + 1 > 0 /\ m + 1 < Power[m + 1] /\ Power[m + 1] \in Nat
    BY PowerExceeds
  <2> QED
    BY <2>1
<1>2. PICK k \in T : \A y \in T : k <= y
  <2>1. T \in SUBSET Nat
    OBVIOUS
  <2> HIDE DEF T
  <2> QED
    BY <1>1, <2>1, LeastNumber
<1>3. k \in 1..(m + 1) /\ m < Power[k]
  BY <1>1, <1>2
<1>4. k > 1 => Power[k - 1] <= m
  <2> SUFFICES ASSUME k > 1 PROVE Power[k - 1] <= m
    OBVIOUS
  <2>1. k - 1 \in Nat /\ k - 1 > 0 /\ k - 1 \notin T
    BY <1>2
  <2>2. Power[k - 1] \in Nat
    BY <2>1, PowerIs
  <2> QED
    BY <2>1, <2>2
<1> QED
  BY <1>3, <1>4

\* k digits of m, and what k digits stand for up to each of them.
Decimals(m, k) == [i \in 1..k |-> 48 + ((m \div Power[k - i]) % 10)]
Spells(d, digits, k, m) ==
  /\ d \in [0..k -> Nat]
  /\ d[0] = 0 /\ d[k] = m
  /\ \A i \in 1..k : digits[i] \in Digits /\ d[i] = 10 * d[i - 1] + (digits[i] - 48)

\* The quotients by powers, the largest one first, are what the digits stand for.
LEMMA DigitsCount ==
  ASSUME NEW m \in Nat, NEW k \in Nat, k > 0, m < Power[k], NEW digits, digits = Decimals(m, k)
  PROVE  /\ digits \in Seq(Bytes) /\ Len(digits) = k
         /\ \E d : Spells(d, digits, k, m)
<1> DEFINE d == [i \in 0..k |-> m \div Power[k - i]]
<1>1. digits = [i \in 1..k |-> 48 + ((m \div Power[k - i]) % 10)]
  BY DEF Decimals
<1>2. \A j \in Nat : m \div Power[j] \in Nat /\ m \div Power[j + 1] = (m \div Power[j]) \div 10
  <2> SUFFICES ASSUME NEW j \in Nat
               PROVE  m \div Power[j] \in Nat /\ m \div Power[j + 1] = (m \div Power[j]) \div 10
    OBVIOUS
  <2>1. Power[j + 1] = 10 * Power[j] /\ Power[j] \in Nat /\ Power[j] > 0
    BY PowerIs, PowerExceeds
  <2>2. m \div (10 * Power[j]) = (m \div Power[j]) \div 10 /\ m \div Power[j] \in Nat
    BY <2>1, DivPower
  <2> QED
    BY <2>1, <2>2, Zenon
<1>3. ASSUME NEW v \in Nat
      PROVE  48 + (v % 10) \in 48..57 /\ v = 10 * (v \div 10) + ((48 + (v % 10)) - 48)
  BY SMT
<1>4. ASSUME NEW i \in 0..k
      PROVE  k - i \in Nat /\ d[i] = m \div Power[k - i] /\ d[i] \in Nat
  <2>1. k - i \in Nat
    OBVIOUS
  <2>2. d[i] = m \div Power[k - i]
    OBVIOUS
  <2> HIDE DEF d
  <2> QED
    BY <1>2, <2>1, <2>2, Zenon
<1>5. d \in [0..k -> Nat]
  BY <1>4
<1>6. d[0] = 0
  <2>1. m \div Power[k] = 0
    <3>1. Power[k] \in Nat /\ Power[k] > 0
      BY PowerExceeds
    <3>2. (0 * Power[k] + m) \div Power[k] = 0
      BY <3>1, DivMultiple
    <3>3. 0 * Power[k] + m = m
      BY <3>1
    <3> QED
      BY <3>2, <3>3, Zenon
  <2>2. k - 0 = k
    OBVIOUS
  <2> QED
    BY <1>4, <2>1, <2>2
<1>7. d[k] = m
  <2>1. k - k = 0 /\ Power[0] = 1 /\ m \div 1 = m
    BY PowerIs, SMT
  <2> QED
    BY <1>4, <2>1
<1>8. ASSUME NEW i \in 1..k
      PROVE  digits[i] \in Digits /\ d[i] = 10 * d[i - 1] + (digits[i] - 48) /\ digits[i] \in Bytes
  <2>1. k - i \in Nat /\ k - (i - 1) = (k - i) + 1 /\ i - 1 \in 0..k /\ i \in 0..k
    OBVIOUS
  <2>2. d[i] = m \div Power[k - i] /\ d[i] \in Nat /\ d[i - 1] = m \div Power[(k - i) + 1]
    BY <1>4, <2>1
  <2>3. d[i - 1] = d[i] \div 10
    BY <1>2, <2>1, <2>2
  <2> HIDE DEF d
  <2>4. digits[i] = 48 + (d[i] % 10)
    BY <1>1, <2>2
  <2>5. digits[i] \in 48..57 /\ d[i] = 10 * d[i - 1] + (digits[i] - 48)
    BY <1>3, <2>2, <2>3, <2>4
  <2> QED
    BY <2>5 DEF Digits, Bytes
<1> HIDE DEF d
<1>9. digits \in Seq(Bytes) /\ Len(digits) = k
  <2>1. \A i \in 1..k : digits[i] \in Bytes
    BY <1>8
  <2>2. digits = [i \in 1..k |-> digits[i]]
    BY <1>1
  <2>3. digits \in [1..k -> Bytes]
    BY <2>1, <2>2
  <2> QED
    BY <2>3
<1>10. Spells(d, digits, k, m)
  BY <1>5, <1>6, <1>7, <1>8, Zenon DEF Spells
<1> QED
  BY <1>9, <1>10

\* The text is that of the number.
LEMMA ToBaseNumeral ==
  ASSUME NEW n \in Int, n # 0
  PROVE  Numeral(ToBase10(n), n) /\ Tight(ToBase10(n), n)
<1> DEFINE m == Absolute(n)
           k == CHOOSE k \in 1..(m + 1) : m < Power[k] /\ (k > 1 => Power[k - 1] <= m)
           digits == [i \in 1..k |-> 48 + ((m \div Power[k - i]) % 10)]
           j == Sign(n)
<1>1. m \in Nat
  BY DEF Absolute
<1>2. ToBase10(n) = IF n < 0 THEN <<45>> \o digits ELSE digits
  BY Zenon DEF ToBase10, Absolute
<1> HIDE DEF m
<1>3. k \in 1..(m + 1) /\ m < Power[k] /\ (k > 1 => Power[k - 1] <= m)
  BY <1>1, LengthExists, Zenon
<1> HIDE DEF k
<1>4. k \in Nat /\ k > 0
  BY <1>1, <1>3
<1>5. PICK s : s = Decimals(m, k)
  OBVIOUS
<1>6. s = digits
  BY <1>5 DEF Decimals
<1> HIDE DEF digits
<1>7. PICK d : Spells(d, s, k, m)
  BY <1>1, <1>3, <1>4, <1>5, DigitsCount
<1>8. s \in Seq(Bytes) /\ Len(s) = k
  BY <1>1, <1>3, <1>4, <1>5, DigitsCount
<1>9. PICK t : t = ToBase10(n)
  OBVIOUS
<1>10. /\ t \in Seq(Bytes) /\ Len(t) = k + j /\ (n < 0 => t[1] = Minus)
      /\ \A i \in 1..k : t[j + i] = s[i]
  <2>1. CASE n < 0
    <3>1. t = <<45>> \o s /\ j = 1
      BY <1>2, <1>6, <1>9, <2>1 DEF Sign
    <3>2. <<45>> \in Seq(Bytes) /\ Len(<<45>>) = 1 /\ <<45>>[1] = 45
      BY DEF Bytes
    <3> QED
      BY <1>4, <1>8, <3>1, <3>2 DEF Minus
  <2>2. CASE ~(n < 0)
    <3>1. t = s /\ j = 0
      BY <1>2, <1>6, <1>9, <2>2 DEF Sign
    <3> QED
      BY <1>4, <1>8, <2>2, <3>1
  <2> QED
    BY <2>1, <2>2
<1>11. j \in {0, 1} /\ Len(t) - Sign(n) = k /\ Len(t) > Sign(n)
  BY <1>4, <1>10 DEF Sign
<1>12. Counts(d, t, n)
  <2>1. \A i \in 1..k : t[Sign(n) + i] \in Digits /\ d[i] = 10 * d[i - 1] + (t[Sign(n) + i] - 48)
    BY <1>7, <1>10 DEF Spells
  <2>2. d \in [0..k -> Nat] /\ d[0] = 0 /\ d[k] = Absolute(n)
    BY <1>7 DEF m, Spells
  <2> QED
    BY <1>11, <2>1, <2>2, Zenon DEF Counts
<1>13. Tight(t, n)
  <2>1. k = 1 => Power[k - 1] <= m
    <3>1. Power[0] = 1 /\ m > 0
      <4>1. Absolute(n) > 0
        BY DEF Absolute
      <4> QED
        BY <4>1, PowerIs DEF m
    <3>2. k = 1 => k - 1 = 0
      OBVIOUS
    <3>3. k = 1 => Power[k - 1] = 1
      BY <3>1, <3>2, Zenon
    <3> QED
      BY <1>1, <3>1, <3>3
  <2>2. Power[k - 1] <= m /\ m < Power[k]
    BY <1>3, <1>4, <2>1
  <2> QED
    BY <1>11, <2>2, Zenon DEF Tight, m
<1> QED
  BY <1>9, <1>10, <1>11, <1>12, <1>13 DEF Numeral

\* Powers grow.
LEMMA PowerGrows ==
  ASSUME NEW i \in Nat, NEW j \in Nat, i <= j
  PROVE  Power[i] <= Power[j]
<1> DEFINE T == {k \in Nat : i <= k /\ ~(Power[i] <= Power[k])}
<1>1. T = {}
  <2> SUFFICES ASSUME T # {} PROVE FALSE
    OBVIOUS
  <2>1. PICK k \in T : \A y \in T : k <= y
    <3>1. T \in SUBSET Nat
      OBVIOUS
    <3> HIDE DEF T
    <3> QED
      BY <3>1, LeastNumber
  <2>2. k \in Nat /\ i <= k /\ ~(Power[i] <= Power[k]) /\ Power[i] \in Nat
    BY PowerIs
  <2>3. k # i
    BY <2>2
  <2>4. k - 1 \in Nat /\ (k - 1) + 1 = k /\ i <= k - 1
    BY <2>2, <2>3
  <2>5. Power[i] <= Power[k - 1]
    BY <2>1, <2>4
  <2>6. Power[k] = 10 * Power[k - 1] /\ Power[k - 1] \in Nat
    BY <2>4, PowerIs
  <2> QED
    BY <2>2, <2>5, <2>6
<1> QED
  BY <1>1

\* A text without leading zeros has more digits than the limit exactly if the
\* number is beyond it.
LEMMA BeyondDigits ==
  ASSUME NEW s, NEW n \in Int, Tight(s, n), Len(s) - Sign(n) \in Nat \ {0},
         NEW limit \in Nat
  PROVE  Beyond(n, limit) <=> limit # 0 /\ Len(s) - Sign(n) > limit
<1>1. PICK k \in Nat \ {0} : k = Len(s) - Sign(n)
  OBVIOUS
<1>2. PICK m \in Nat : m = Absolute(n)
  BY DEF Absolute
<1>3. Power[k - 1] <= m /\ m < Power[k]
  <2>1. /\ Power[(Len(s) - Sign(n)) - 1] <= Absolute(n)
        /\ Absolute(n) < Power[Len(s) - Sign(n)]
    BY Zenon DEF Tight
  <2> QED
    BY <1>1, <1>2, <2>1, Zenon
<1>4. Power[limit] \in Nat /\ Power[k] \in Nat /\ Power[k - 1] \in Nat /\ k - 1 \in Nat
  <2>1. k - 1 \in Nat /\ k \in Nat
    OBVIOUS
  <2> QED
    BY <2>1, PowerIs
<1>5. CASE k > limit
  <2>1. Power[limit] <= Power[k - 1]
    BY <1>4, <1>5, PowerGrows
  <2>2. Power[limit] <= m
    BY <1>2, <1>3, <1>4, <2>1
  <2> QED
    BY <1>1, <1>2, <1>5, <2>2 DEF Beyond
<1>6. CASE ~(k > limit)
  <2>1. Power[k] <= Power[limit]
    BY <1>6, PowerGrows
  <2>2. ~(Power[limit] <= m)
    BY <1>2, <1>3, <1>4, <2>1
  <2> QED
    BY <1>1, <1>2, <1>6, <2>2 DEF Beyond
<1> QED
  BY <1>5, <1>6

\* PyNumber_ToBase gives the text at once, of any length within the limit.
LEMMA RawKeeps ==
  ASSUME WriterInv, BeginRaw
  PROVE  WriterInv'
<1>1. /\ step = "begin" /\ ~IsLong /\ ~IsULong /\ type' = "JT_RAW" /\ wstr' = ToBase10(number)
      /\ step' = "done" /\ number' = number /\ uvalue' = uvalue /\ number \in Int
  BY DEF BeginRaw, WriterInv, WriterTyped
<1>2. Numeral(wstr', number') /\ Tight(wstr', number')
  <2>1. number # 0
    BY <1>1, WriterAssumption DEF IsLong
  <2> QED
    BY <1>1, <2>1, ToBaseNumeral
<1>3. wstr' \in Seq(Bytes)
  BY <1>2 DEF Numeral
<1>4. WriterTyped'
  BY <1>1, <1>3 DEF WriterInv, WriterTyped
<1>5. Chosen'
  <2>1. ~Beyond(number, WriteDigits)
    BY DEF BeginRaw
  <2> QED
    BY <1>1, <2>1 DEF Chosen, IsLong, IsULong, Beyond, Absolute
<1>6. Within' /\ Dividing' /\ CharsBounded'
  BY <1>1 DEF Within, Dividing, CharsBounded
<1>7. Finished'
  BY <1>2 DEF Finished
<1> QED
  BY <1>4, <1>5, <1>6, <1>7 DEF WriterInv

\* Or none at all.
LEMMA RejectKeeps ==
  ASSUME WriterInv, RejectRaw
  PROVE  WriterInv'
<1>1. /\ step = "begin" /\ ~IsLong /\ ~IsULong /\ type' = "JT_INVALID" /\ wstr' = wstr
      /\ step' = "raised" /\ number' = number /\ uvalue' = uvalue /\ Beyond(number, WriteDigits)
  BY DEF RejectRaw
<1>2. WriterTyped'
  BY <1>1 DEF WriterInv, WriterTyped
<1>3. Chosen'
  BY <1>1 DEF Chosen, IsLong, IsULong, Beyond, Absolute
<1>4. Within' /\ Dividing' /\ CharsBounded' /\ Finished'
  BY <1>1 DEF Within, Dividing, CharsBounded, Finished
<1> QED
  BY <1>2, <1>3, <1>4 DEF WriterInv

\* Each step of the writer keeps the invariant.
LEMMA WriterStep ==
  ASSUME WriterInv, [WriterNext]_writerVars
  PROVE  WriterInv'
<1>1. CASE UNCHANGED writerVars
  <2>1. UNCHANGED <<number, type, uvalue, wstr, step>>
    BY <1>1 DEF writerVars
  <2>2. WriterTyped' /\ Chosen' /\ Within' /\ Finished' /\ CharsBounded'
    BY <2>1
    DEF WriterInv, WriterTyped, Chosen, Within, Finished, CharsBounded, Room, IsLong, IsULong,
        Beyond, Absolute
  <2>3. Dividing'
    <3>1. \A d : Divided(d) => Divided(d)'
      BY <2>1, Zenon DEF Divided, Magnitude
    <3> QED
      BY <2>1, <3>1 DEF WriterInv, Dividing
  <2> QED
    BY <2>2, <2>3 DEF WriterInv
<1> QED
  BY <1>1, LongKeeps, UnsignedKeeps, RawKeeps, RejectKeeps, AppendKeeps, ReverseKeeps DEF WriterNext

\* The writer starts with nothing written.
LEMMA WriterStart ==
  ASSUME number \in Int, type = "none", uvalue = 0, wstr = <<>>, step \in {"begin", "unused"}
  PROVE  WriterInv
  BY DEF WriterInv, WriterTyped, Chosen, Within, Dividing, Finished, CharsBounded

-----------------------------------------------------------------------------
(* Both, one after the other. *)

\* Each step of decode_numeric keeps the invariant.
LEMMA ReaderStep ==
  ASSUME ReaderInv, [ReaderNext]_readerVars
  PROVE  ReaderInv'
<1>1. CASE TakeSign
  BY <1>1, SignKeeps
<1>2. CASE DecodeInf \/ DecodeNaN
  BY <1>2, WordKeeps
<1>3. CASE ScanDigit
  BY <1>3, DigitKeeps
<1>4. CASE DecodeDouble
  BY <1>4, OtherKeeps DEF DecodeDouble, Others
<1>5. CASE EndNumber
  BY <1>5, EndKeeps
<1>6. CASE UNCHANGED readerVars
  BY <1>6 DEF readerVars, ReaderInv, TextInv, ReaderTypeOK, OverflowExact, NumberExact, MaxIntValue
<1> QED
  BY <1>1, <1>2, <1>3, <1>4, <1>5, <1>6 DEF ReaderNext

\* Nothing has been read of a text that ends with the NUL.
Unread ==
  /\ pos = 1 /\ intNeg = 1 /\ intValue = 0 /\ hasError = 0 /\ value = 0
  /\ result = NoCall

LEMMA ReaderStart ==
  ASSUME Unread, phase = "start", text \in Seq(Bytes), Len(text) > 0, text[Len(text)] = 0
  PROVE  ReaderInv
<1>1. Len(text) \in Nat
  OBVIOUS
<1>2. ReaderTypeOK /\ OverflowExact /\ NumberExact
  BY <1>1, Widths
  DEF Unread, ReaderTypeOK, OverflowExact, NumberExact, MaxIntValue, NoCall, Call, Constructors
<1> QED
  BY <1>2 DEF Unread, ReaderInv, TextInv

\* decode_numeric keeps the types of its variables and does not pass the NUL.
THEOREM NumberTypeCorrect == ReaderSpec => []ReaderTypeOK
<1>1. ReaderInit => ReaderInv
  BY ReaderStart, NumberAssumption DEF ReaderInit, Unread
<1>2. ReaderInv /\ [ReaderNext]_readerVars => ReaderInv'
  BY ReaderStep
<1>3. ReaderInv => ReaderTypeOK
  BY DEF ReaderInv
<1> QED
  BY <1>1, <1>2, <1>3, PTL DEF ReaderSpec

\* What loads makes of the text of the number, which it has read to its end.
Answered ==
  IF Big(number) /\ ReadDigits # 0 /\ Len(wstr) - Sign(number) > ReadDigits
  THEN result.by = "ValueError"
  ELSE result.by \in Constructors /\ result.arg = number

\* What has been read of the text that the writer made: d counts its digits.
Reading(d) ==
  \/ phase = "start" /\ number < 0
  \/ /\ phase \in {"start", "signed", "scan"}
     /\ phase = "start" => ~(number < 0)
     /\ pos - 1 - Sign(number) \in 0..(Len(wstr) - Sign(number))
     /\ value = d[pos - 1 - Sign(number)]
     /\ intNeg = IF number < 0 THEN 0 - 1 ELSE 1
  \/ phase = "done" /\ Answered

Passed ==
  /\ text = Append(wstr, 0)
  /\ Numeral(wstr, number)
  /\ \E d : Counts(d, wstr, number) /\ Reading(d)

\* The reader waits for the text, or reads it, or reads another.
CodecInv ==
  /\ WriterInv
  /\ phase = "idle" \/ ReaderInv
  /\ phase = "idle" => Unread
  /\ step = "unused" \/ phase = "idle" \/ (step = "done" /\ Passed)

\* The next digit of the text, and what it makes of the number.
LEMMA PassedDigit ==
  ASSUME Passed, NEW d, Counts(d, wstr, number), NEW j \in Nat,
         pos = Sign(number) + 1 + j, j < Len(wstr) - Sign(number)
  PROVE  /\ Chr \in Digits /\ d[j + 1] = 10 * d[j] + (Chr - 48)
         /\ d[j] \in Nat
<1>1. wstr \in Seq(Bytes) /\ text = Append(wstr, 0) /\ Sign(number) \in {0, 1} /\ Len(wstr) \in Nat
  BY DEF Passed, Numeral, Sign
<1> DEFINE k == Len(wstr) - Sign(number)
<1>2. /\ d \in [0..k -> Nat]
      /\ \A i \in 1..k :
           wstr[Sign(number) + i] \in Digits /\ d[i] = 10 * d[i - 1] + (wstr[Sign(number) + i] - 48)
  BY Zenon DEF Counts
<1>3. j + 1 \in 1..k /\ (j + 1) - 1 = j /\ j \in 0..k
  BY <1>1
<1>4. Chr = wstr[Sign(number) + (j + 1)]
  <2>1. Sign(number) + 1 + j \in 1..Len(wstr) /\ Sign(number) + 1 + j = Sign(number) + (j + 1)
    BY <1>1
  <2>2. 0 \in Bytes
    BY DEF Bytes
  <2>3. \A i \in 1..Len(wstr) : Append(wstr, 0)[i] = wstr[i]
    BY <1>1, <2>2
  <2> QED
    BY <1>1, <2>1, <2>3, Zenon DEF Chr
<1> HIDE DEF k
<1>5. d[j] \in Nat
  BY <1>2, <1>3
<1>6. wstr[Sign(number) + (j + 1)] \in Digits
      /\ d[j + 1] = 10 * d[(j + 1) - 1] + (wstr[Sign(number) + (j + 1)] - 48)
  BY <1>2, <1>3, Zenon
<1> QED
  BY <1>3, <1>4, <1>5, <1>6, Zenon

\* The NUL behind the digits, which have counted the number.
LEMMA PassedEnd ==
  ASSUME Passed, NEW d, Counts(d, wstr, number), NEW j \in Nat,
         pos = Sign(number) + 1 + j, j = Len(wstr) - Sign(number)
  PROVE  Chr = 0 /\ d[j] = Absolute(number)
<1>1. wstr \in Seq(Bytes) /\ text = Append(wstr, 0) /\ Sign(number) \in {0, 1} /\ Len(wstr) \in Nat
  BY DEF Passed, Numeral, Sign
<1>2. d[j] = Absolute(number)
  BY Zenon DEF Counts
<1>3. Chr = 0
  <2>1. pos = Len(wstr) + 1
    BY <1>1
  <2>2. Append(wstr, 0)[Len(wstr) + 1] = 0
    BY <1>1 DEF Bytes
  <2> QED
    BY <1>1, <2>1, <2>2, Zenon DEF Chr
<1> QED
  BY <1>2, <1>3

\* The flag tells whether the number is one that no integer type holds.
LEMMA SignExceeds ==
  ASSUME ReaderInv, number \in Int, value = Absolute(number),
         intNeg = IF number < 0 THEN 0 - 1 ELSE 1
  PROVE  hasError = 1 <=> Big(number)
<1>1. hasError \in {0, 1} /\ (hasError = 1 <=> value > MaxIntValue)
  <2>1. hasError \in {0, 1} /\ value \in Nat
    BY DEF ReaderInv, ReaderTypeOK
  <2>2. MaxIntValue \in Nat
    BY Limits
  <2> QED
    BY <2>1, <2>2 DEF ReaderInv, OverflowExact
<1> QED
  BY <1>1, Widths DEF MaxIntValue, Absolute, Big

\* Each step of decode_numeric goes on counting.
LEMMA PassedStep ==
  ASSUME Passed, ReaderInv, ReaderNext, UNCHANGED writerVars, number \in Int
  PROVE  Passed'
<1>1. PICK d : Counts(d, wstr, number) /\ Reading(d)
  BY DEF Passed
<1>2. wstr' = wstr /\ number' = number
  BY DEF writerVars
<1>3. text' = text /\ phase # "done"
  BY DEF ReaderNext, TakeSign, DecodeInf, DecodeNaN, ScanDigit, DecodeDouble, EndNumber, Scanning, Return
<1>4. text = Append(wstr, 0) /\ Numeral(wstr, number)
  BY DEF Passed
<1>5. /\ wstr \in Seq(Bytes) /\ Len(wstr) \in Nat /\ Len(wstr) > Sign(number)
      /\ Sign(number) \in {0, 1} /\ (number < 0 <=> Sign(number) = 1)
      /\ number < 0 => wstr[1] = Minus
  BY <1>4 DEF Numeral, Sign
<1>6. d[0] = 0
  BY <1>1, Zenon DEF Counts
<1>7. ReaderInv'
  BY ReaderStep
<1>8. SUFFICES Reading(d)'
  <2>1. Counts(d, wstr', number')
    BY <1>1, <1>2, Zenon
  <2> QED
    BY <1>2, <1>3, <1>4, <2>1 DEF Passed
<1>9. CASE phase = "start" /\ number < 0
  <2>1. pos = 1 /\ value = 0
    BY <1>9 DEF ReaderInv
  <2>2. Chr = Minus
    <3>1. Append(wstr, 0)[1] = wstr[1]
      BY <1>5 DEF Bytes
    <3> QED
      BY <1>4, <1>5, <1>9, <2>1, <3>1, Zenon DEF Chr
  <2>3. TakeSign
    BY <1>9, <2>2
    DEF ReaderNext, DecodeInf, DecodeNaN, ScanDigit, DecodeDouble, EndNumber, Scanning,
        Minus, Infinity, NaN
  <2>4. phase' = "signed" /\ pos' = 2 /\ value' = 0 /\ intNeg' = 0 - 1
    BY <2>1, <2>3 DEF TakeSign
  <2> QED
    BY <1>2, <1>5, <1>6, <1>9, <2>4 DEF Reading
<1>10. CASE ~(phase = "start" /\ number < 0)
  <2>1. /\ phase \in {"start", "signed", "scan"}
        /\ pos - 1 - Sign(number) \in 0..(Len(wstr) - Sign(number))
        /\ value = d[pos - 1 - Sign(number)]
        /\ intNeg = IF number < 0 THEN 0 - 1 ELSE 1
    BY <1>1, <1>3, <1>10 DEF Reading
  <2>2. PICK j \in Nat : j = pos - 1 - Sign(number) /\ pos = Sign(number) + 1 + j
    <3>1. pos \in Int
      BY DEF ReaderInv, ReaderTypeOK, TextInv
    <3> QED
      BY <1>5, <2>1, <3>1
  <2>3. value = d[j] /\ j <= Len(wstr) - Sign(number)
    BY <1>5, <2>1, <2>2
  <2>4. CASE j < Len(wstr) - Sign(number)
    <3>1. Chr \in Digits /\ d[j + 1] = 10 * d[j] + (Chr - 48) /\ d[j] \in Nat
      BY <1>1, <2>2, <2>4, PassedDigit
    <3>2. ScanDigit
      <4>1. Infinity[1] = 73 /\ NaN[1] = 78
        BY DEF Infinity, NaN
      <4>2. Chr \notin DoubleMarks \union {Minus, Infinity[1], NaN[1]}
        BY <3>1, <4>1 DEF DoubleMarks, Minus, Digits
      <4>3. ~TakeSign /\ ~DecodeInf /\ ~DecodeNaN /\ ~DecodeDouble /\ ~EndNumber
        BY <3>1, <4>2, Zenon DEF TakeSign, DecodeInf, DecodeNaN, DecodeDouble, EndNumber
      <4> QED
        BY <4>3, Zenon DEF ReaderNext
    <3>3. value' = value * 10 + (Chr - 48) /\ pos' = pos + 1 /\ phase' = "scan" /\ intNeg' = intNeg
      BY <3>2 DEF ScanDigit
    <3>4. pos' - 1 - Sign(number) = j + 1 /\ j + 1 \in 0..(Len(wstr) - Sign(number))
      BY <1>5, <2>2, <2>4, <3>3, SMTT(30)
    <3>5. value' = d[j + 1]
      <4>1. Chr - 48 \in Int
        BY <3>1 DEF Digits
      <4> QED
        BY <2>3, <3>1, <3>3, <4>1
    <3>6. value' = d[pos' - 1 - Sign(number)]
      BY <3>4, <3>5, Zenon
    <3> QED
      BY <1>2, <2>1, <3>3, <3>4, <3>6 DEF Reading
  <2>5. CASE j = Len(wstr) - Sign(number)
    <3>1. Chr = 0 /\ d[j] = Absolute(number)
      BY <1>1, <2>2, <2>5, PassedEnd
    <3>2. EndNumber
      BY <3>1
      DEF ReaderNext, TakeSign, DecodeInf, DecodeNaN, ScanDigit, DecodeDouble, DoubleMarks,
          Minus, Infinity, NaN, Digits
    <3>3. phase' = "done" /\ result' = Constructor /\ value' = value /\ intNeg' = intNeg
      BY <3>2 DEF EndNumber, Return
    <3>4. result'.by \in Constructors => result'.arg = intNeg' * value'
      BY <1>7 DEF ReaderInv, NumberExact
    <3>5. intNeg * Absolute(number) = number
      BY <2>1 DEF Absolute
    <3>6. result'.by \in Constructors => result'.arg = number
      BY <2>3, <3>1, <3>3, <3>4, <3>5, Zenon
    <3>7. value = Absolute(number)
      BY <2>3, <3>1
    <3>8. DigitsScanned = Len(wstr) - Sign(number)
      BY <1>5, <2>1, <2>2, <2>5 DEF DigitsScanned, Sign
    <3>9. hasError = 1 <=> Big(number)
      BY <2>1, <3>7, SignExceeds
    <3>10. /\ result'.by = "ValueError" <=>
                Big(number) /\ ReadDigits # 0 /\ Len(wstr) - Sign(number) > ReadDigits
           /\ result'.by \in Constructors \/ result'.by = "ValueError"
      BY <3>3, <3>8, <3>9 DEF Constructor, IntegerFromString, Call, Constructors
    <3>11. Answered'
      BY <1>2, <3>6, <3>10 DEF Answered, Big
    <3> QED
      BY <3>3, <3>11 DEF Reading
  <2> QED
    BY <1>5, <2>3, <2>4, <2>5
<1> QED
  BY <1>9, <1>10

\* The text that is passed on is that of the number, and nothing is read of it.
LEMMA PassStep ==
  ASSUME CodecInv, Pass
  PROVE  CodecInv'
<1>1. /\ step = "done" /\ text' = Append(wstr, 0) /\ phase' = "start" /\ phase = "idle"
      /\ UNCHANGED writerVars /\ UNCHANGED <<pos, intNeg, intValue, hasError, result, value>>
  BY DEF Pass
<1>2. UNCHANGED <<number, type, uvalue, wstr, step>>
  BY <1>1 DEF writerVars
<1>3. WriterInv'
  BY <1>1, WriterStep DEF CodecInv
<1>4. Unread' /\ Numeral(wstr, number)
  BY <1>1 DEF CodecInv, Unread, NoCall, Call, WriterInv, Finished
<1>5. text' \in Seq(Bytes) /\ Len(text') > 0 /\ text'[Len(text')] = 0
  BY <1>1, <1>4 DEF Numeral, Bytes
<1>6. ReaderInv'
  <2>1. pos' = 1 /\ intNeg' = 1 /\ intValue' = 0 /\ hasError' = 0 /\ value' = 0 /\ result' = NoCall
    BY <1>4 DEF Unread, NoCall, Call
  <2>2. Len(text') \in Nat
    BY <1>5
  <2>3. ReaderTypeOK' /\ OverflowExact' /\ NumberExact'
    BY <1>1, <1>5, <2>1, <2>2, Widths
    DEF ReaderTypeOK, OverflowExact, NumberExact, MaxIntValue, NoCall, Call, Constructors
  <2>4. TextInv'
    BY <1>5 DEF TextInv
  <2> QED
    BY <1>1, <2>1, <2>3, <2>4 DEF ReaderInv
<1>7. PICK d : Counts(d, wstr, number)
  BY <1>4 DEF Numeral
<1>8. Reading(d)'
  <2>1. pos' = 1 /\ value' = 0 /\ intNeg' = 1
    BY <1>4 DEF Unread
  <2>2. d[0] = 0
    BY <1>7, Zenon DEF Counts
  <2>3. CASE number < 0
    BY <1>1, <1>2, <2>3 DEF Reading
  <2>4. CASE ~(number < 0)
    <3>1. Sign(number) = 0 /\ Len(wstr) \in Nat /\ 1 - 1 - 0 = 0
      BY <1>4, <2>4 DEF Sign, Numeral
    <3> QED
      BY <1>1, <1>2, <2>1, <2>2, <2>4, <3>1 DEF Reading
  <2> QED
    BY <2>3, <2>4
<1>9. Passed'
  <2>1. Counts(d, wstr', number') /\ Numeral(wstr', number')
    BY <1>2, <1>4, <1>7, Zenon
  <2> QED
    BY <1>1, <1>2, <1>8, <2>1 DEF Passed
<1> QED
  BY <1>1, <1>2, <1>3, <1>6, <1>9 DEF CodecInv

\* The invariant of the codec.
THEOREM CodecInvariant == CodecSpec => []CodecInv
<1>1. CodecInit => CodecInv
  <2> SUFFICES ASSUME CodecInit PROVE CodecInv
    OBVIOUS
  <2>1. CASE WriterInit /\ Idle
    <3>1. WriterInv
      BY <2>1, WriterStart, WriterAssumption DEF WriterInit
    <3> QED
      BY <2>1, <3>1 DEF Idle, Unread, CodecInv
  <2>2. CASE ReaderInit /\ number = 0 /\ type = "none" /\ uvalue = 0 /\ wstr = <<>> /\ step = "unused"
    <3>1. WriterInv
      BY <2>2, WriterStart
    <3>2. text \in Seq(Bytes) /\ Len(text) > 0 /\ text[Len(text)] = 0
      BY <2>2, NumberAssumption DEF ReaderInit
    <3>3. ReaderInv
      BY <2>2, <3>2, ReaderStart DEF ReaderInit, Unread
    <3> QED
      BY <2>2, <3>1, <3>3 DEF CodecInv, ReaderInit
  <2> QED
    BY <2>1, <2>2 DEF CodecInit
<1>2. CodecInv /\ [CodecNext]_codecVars => CodecInv'
  <2> SUFFICES ASSUME CodecInv, [CodecNext]_codecVars PROVE CodecInv'
    OBVIOUS
  <2>1. CASE Write
    <3>1. WriterInv'
      BY <2>1, WriterStep DEF Write, CodecInv
    <3>2. phase = "idle" /\ step' # "unused"
      BY <2>1 DEF Write, CodecInv, WriterNext, BeginLong, BeginULong, BeginRaw, RejectRaw,
         AppendDigit, ReverseDigits
    <3> QED
      BY <2>1, <3>1, <3>2 DEF Write, readerVars, CodecInv, Unread, NoCall, Call
  <2>2. CASE Pass
    BY <2>2, PassStep
  <2>3. CASE Read
    <3>1. phase # "idle" /\ ReaderNext /\ UNCHANGED writerVars
      BY <2>3 DEF Read
    <3>2. WriterInv' /\ step' = step
      BY <3>1, WriterStep DEF CodecInv, writerVars
    <3>3. ReaderInv' /\ phase' # "idle"
      BY <3>1, ReaderStep DEF CodecInv, ReaderInv, ReaderTypeOK
    <3>4. step = "unused" \/ (step = "done" /\ Passed')
      BY <3>1, PassedStep DEF CodecInv, WriterInv, WriterTyped
    <3> QED
      BY <3>2, <3>3, <3>4 DEF CodecInv
  <2>4. CASE UNCHANGED codecVars
    <3>1. UNCHANGED writerVars /\ UNCHANGED readerVars
      BY <2>4 DEF codecVars
    <3>2. WriterInv' /\ (phase = "idle" \/ ReaderInv')
      BY <3>1, WriterStep, ReaderStep DEF CodecInv
    <3>3. UNCHANGED <<number, type, uvalue, wstr, step, text, pos, phase, intNeg, intValue, hasError, result, value>>
      BY <3>1 DEF writerVars, readerVars
    <3>4. Unread => Unread'
      BY <3>3 DEF Unread, NoCall, Call
    <3>5. Passed => Passed'
      <4>1. \A d : Reading(d) => Reading(d)'
        BY <3>3, Zenon DEF Reading, Answered, Big
      <4> QED
        BY <3>3, <4>1, Zenon DEF Passed
    <3> QED
      BY <3>2, <3>3, <3>4, <3>5 DEF CodecInv
  <2> QED
    BY <2>1, <2>2, <2>3, <2>4 DEF CodecNext
<1> QED
  BY <1>1, <1>2, PTL DEF CodecSpec

\* The two tests of decode_numeric find every overflow and no other, for both
\* signs, for numbers of any length and integers of any width.
THEOREM OverflowCorrect == CodecSpec => []OverflowExact
<1>1. CodecInv => OverflowExact
  BY Widths DEF CodecInv, ReaderInv, Unread, OverflowExact, MaxIntValue
<1> QED
  BY <1>1, CodecInvariant, PTL

\* An integer is returned as it was written, at and beyond the limits of the
\* types that decode_numeric casts to.
THEOREM NumberCorrect == CodecSpec => []NumberExact
<1>1. CodecInv => NumberExact
  BY DEF CodecInv, ReaderInv, Unread, NumberExact, NoCall, Call, Constructors
<1> QED
  BY <1>1, CodecInvariant, PTL

\* No more characters are written than Buffer_AppendLongUnchecked and its
\* unsigned counterpart say, which is what encode() reserves, at any moment.
THEOREM CharsBoundedCorrect == CodecSpec => []CharsBounded
<1>1. CodecInv => CharsBounded
  BY DEF CodecInv, WriterInv
<1> QED
  BY <1>1, CodecInvariant, PTL

\* loads returns the int that dumps was given, of any size and by the constructor
\* that goes with the type it was written as, unless no integer type holds it and
\* it has more digits than the interpreter converts: then, and only then, dumps
\* or loads raises.
THEOREM IntRoundTripCorrect == CodecSpec => []IntRoundTrip
<1>1. CodecInv => IntRoundTrip
  <2> SUFFICES ASSUME CodecInv PROVE IntRoundTrip
    OBVIOUS
  <2>1. /\ number \in Int
        /\ step = "done" => type \in {"JT_LONG", "JT_ULONG", "JT_RAW"}
        /\ step = "raised" => type = "JT_INVALID"
        /\ type = "JT_LONG" => IsLong
        /\ type = "JT_ULONG" => IsULong
        /\ type = "JT_RAW" => ~IsLong /\ ~IsULong /\ ~Beyond(number, WriteDigits)
        /\ type = "JT_INVALID" => ~IsLong /\ ~IsULong /\ Beyond(number, WriteDigits)
    BY DEF CodecInv, WriterInv, WriterTyped, Chosen
  <2>2. /\ IsLong <=> number \in (0 - Half)..(Half - 1)
        /\ IsULong <=> number \in Half..(Modulus - 1)
        /\ Big(number) <=> ~IsLong /\ ~IsULong
    BY <2>1, Widths, CodecAssumption DEF IsLong, IsULong, Big
  <2>3. step \in {"done", "raised"} =>
          (step = "raised" <=> Big(number) /\ Beyond(number, WriteDigits))
    BY <2>1, <2>2, Zenon
  <2>4. ASSUME phase = "done", step = "done"
        PROVE  IF Big(number) /\ Beyond(number, ReadDigits)
               THEN result.by = "ValueError"
               ELSE /\ result.arg = number
                    /\ type = "JT_LONG" <=> result.by \in {"newInt", "newLong"}
                    /\ type = "JT_ULONG" <=> result.by = "newUnsignedLong"
                    /\ type = "JT_RAW" <=> result.by = "newIntegerFromString"
    <3>1. Answered /\ ReaderInv
      BY <2>4 DEF CodecInv, Passed, Reading
    <3>2. Big(number) => (Beyond(number, ReadDigits) <=>
                            ReadDigits # 0 /\ Len(wstr) - Sign(number) > ReadDigits)
      <4> SUFFICES ASSUME Big(number)
                   PROVE  Beyond(number, ReadDigits) <=>
                            ReadDigits # 0 /\ Len(wstr) - Sign(number) > ReadDigits
        OBVIOUS
      <4>1. type = "JT_RAW"
        BY <2>1, <2>2, <2>4
      <4>2. Numeral(wstr, number) /\ Tight(wstr, number)
        BY <2>4, <4>1 DEF CodecInv, WriterInv, Finished
      <4>3. Len(wstr) - Sign(number) \in Nat \ {0} /\ ReadDigits \in Nat
        <5>1. wstr \in Seq(Bytes) /\ Len(wstr) > Sign(number)
          BY <4>2, Zenon DEF Numeral
        <5>2. Len(wstr) \in Nat /\ Sign(number) \in {0, 1} /\ ReadDigits \in Nat
          BY <5>1, NumberAssumption DEF Sign
        <5> QED
          BY <5>1, <5>2
      <4> QED
        BY <2>1, <4>2, <4>3, BeyondDigits
    <3>3. CASE Big(number) /\ Beyond(number, ReadDigits)
      BY <3>1, <3>2, <3>3 DEF Answered
    <3>4. CASE ~(Big(number) /\ Beyond(number, ReadDigits))
      <4>1. result.by \in Constructors /\ result.arg = number
        BY <3>1, <3>2, <3>4 DEF Answered
      <4>2. /\ result.by = "newUnsignedLong" <=> number \in Half..(Modulus - 1)
            /\ result.by = "newIntegerFromString" <=> Big(number)
        BY <3>1, <4>1 DEF ReaderInv, NumberExact, Big
      <4>3. /\ type = "JT_LONG" <=> IsLong
            /\ type = "JT_ULONG" <=> IsULong
            /\ type = "JT_RAW" <=> Big(number)
        <5>1. ~(IsLong /\ IsULong)
          BY <2>1, <2>2, Widths
        <5> QED
          BY <2>1, <2>2, <2>4, <5>1
      <4>4. result.by \in {"newInt", "newLong"} <=> IsLong
        <5>1. result.by \in {"newInt", "newLong"}
                <=> result.by # "newUnsignedLong" /\ result.by # "newIntegerFromString"
          BY <4>1 DEF Constructors
        <5>2. IsLong <=> ~IsULong /\ ~Big(number)
          BY <2>1, <2>2, Widths
        <5> QED
          BY <2>2, <4>2, <5>1, <5>2, Zenon
      <4> QED
        BY <2>2, <3>4, <4>1, <4>2, <4>3, <4>4, Zenon
    <3> QED
      BY <3>3, <3>4
  <2> QED
    BY <2>3, <2>4, Zenon DEF IntRoundTrip
<1> QED
  BY <1>1, CodecInvariant, PTL
=============================================================================
