--------------------------- MODULE ProgramProofs ----------------------------
(***************************************************************************)
(* Module Program is correct for every hash function, size of an alphabet, *)
(* a byte or a word, key and target.  Bytes and texts are read as numbers  *)
(* in their bases: Base58Encode and Base58Decode undo each other, words    *)
(* have the value they were made for, and addresses, headers and joined    *)
(* numbers can be taken apart again.  On the wallet file, an invariant     *)
(* says which cell can hold what after writes that were cut short.  The    *)
(* search for a nonce has an invariant of its own.  CreateMerkleRoot is    *)
(* compared with the perfect binary tree row by row.                       *)
(***************************************************************************)
EXTENDS Program, Induction, SequenceTheorems

-----------------------------------------------------------------------------
(* The value of a sequence of digits *)

shift(base, sum, digit) == sum * base + digit

Valuing == INSTANCE FoldTheorems WITH op <- shift

Value(base, digits) == Valuing!Fold(base, 0, digits)

\* The sums of the code are values.
LEMMA ValueFolds ==
  \A base, digits : FoldLeft(LAMBDA sum, digit : shift(base, sum, digit), 0, digits)
                      = Value(base, digits)
  BY DEF Value, Valuing!Fold, Valuing!FoldLeft, Valuing!MapThenFoldSet, Valuing!Max,
         FoldLeft, MapThenFoldSet, Max

\* big.Int.SetBytes computes the value of bytes.
LEMMA SetBytesValue == \A bytes : SetBytes(bytes) = Value(Radix, bytes)
  BY ValueFolds DEF SetBytes, shift

\* One more digit.
LEMMA ValueAppend ==
  ASSUME NEW base, NEW A, NEW s \in Seq(A), NEW x \in A
  PROVE  Value(base, Append(s, x)) = Value(base, s) * base + x
  BY Valuing!FoldAppends DEF Value, shift

\* No digits have the value 0.
LEMMA ValueEmpty == \A base : Value(base, <<>>) = 0
  BY Valuing!FoldOfNothing DEF Value

\* A base of a number system, and the sequences of its digits.
Base == Nat \ {0, 1}
Digit(base) == 0..base-1

\* The first digit is not a zero.
NoZeroFirst(s) == s = <<>> \/ s[1] # 0

\* Values of digits are natural numbers.
LEMMA ValueNat ==
  ASSUME NEW base \in Base
  PROVE  \A s \in Seq(Digit(base)) : Value(base, s) \in Nat
<1> DEFINE S == {s \in Seq(Digit(base)) : Value(base, s) \in Nat}
<1>1. <<>> \in S
  BY ValueEmpty
<1>2. ASSUME NEW s \in Seq(Digit(base)), NEW x \in Digit(base), s \in S
      PROVE  Append(s, x) \in S
  <2>1. Value(base, Append(s, x)) = Value(base, s) * base + x
    BY ValueAppend
  <2> QED
    BY <1>2, <2>1 DEF Base, Digit
<1> HIDE DEF S
<1>3. \A s \in Seq(Digit(base)) : s \in S
  BY <1>1, <1>2, SeqInduct
<1> QED
  BY <1>3 DEF S

\* A numeral that does not start with a zero has a value above zero, unless it
\* is empty.
LEMMA ValuePositive ==
  ASSUME NEW base \in Base
  PROVE  \A s \in Seq(Digit(base)) : s # <<>> /\ s[1] # 0 => Value(base, s) > 0
<1> DEFINE S == {s \in Seq(Digit(base)) : s # <<>> /\ s[1] # 0 => Value(base, s) > 0}
<1>1. <<>> \in S
  OBVIOUS
<1>2. ASSUME NEW s \in Seq(Digit(base)), NEW x \in Digit(base), s \in S
      PROVE  Append(s, x) \in S
  <2> SUFFICES ASSUME Append(s, x)[1] # 0 PROVE Value(base, Append(s, x)) > 0
    <3>1. Append(s, x) \in Seq(Digit(base))
      OBVIOUS
    <3> QED
      BY <3>1
  <2>1. Value(base, Append(s, x)) = Value(base, s) * base + x /\ Value(base, s) \in Nat
    BY ValueAppend, ValueNat
  <2>2. CASE s = <<>>
    <3>1. x # 0
      BY <2>2
    <3>2. Value(base, s) = 0
      BY <2>2, ValueEmpty
    <3> QED
      BY <2>1, <3>1, <3>2 DEF Base, Digit
  <2>3. CASE s # <<>>
    <3>1. s[1] = Append(s, x)[1]
      BY <2>3
    <3>2. Value(base, s) > 0
      BY <1>2, <2>3, <3>1
    <3>3. Value(base, s) * base > 0
      BY <2>1, <3>2 DEF Base
    <3> QED
      BY <2>1, <3>3 DEF Base, Digit
  <2> QED
    BY <2>2, <2>3
<1> HIDE DEF S
<1>3. \A s \in Seq(Digit(base)) : s \in S
  BY <1>1, <1>2, SeqInduct
<1> QED
  BY <1>3 DEF S

\* Quotient and remainder are determined.
LEMMA QuotientUnique ==
  ASSUME NEW b \in Nat, NEW p \in Nat, NEW q \in Nat, NEW x \in 0..b-1, NEW y \in 0..b-1,
         p * b + x = q * b + y
  PROVE  p = q /\ x = y
<1>1. (p * b + x) \div b = p /\ (q * b + y) \div b = q
  OBVIOUS
<1> QED
  BY <1>1

\* The value determines the numeral: no two of them that do not start with a
\* zero have the same.
LEMMA ValueInjective ==
  ASSUME NEW base \in Base
  PROVE  \A s, t \in Seq(Digit(base)) :
           NoZeroFirst(s) /\ NoZeroFirst(t) /\ Value(base, s) = Value(base, t) => s = t
<1> DEFINE D == Digit(base)
           S == {s \in Seq(D) : \A t \in Seq(D) :
                   NoZeroFirst(s) /\ NoZeroFirst(t) /\ Value(base, s) = Value(base, t) => s = t}
<1>1. <<>> \in S
  <2> SUFFICES ASSUME NEW t \in Seq(D), NoZeroFirst(t), Value(base, <<>>) = Value(base, t)
               PROVE  <<>> = t
    OBVIOUS
  <2>1. Value(base, t) = 0
    BY ValueEmpty
  <2> QED
    BY <2>1, ValuePositive DEF NoZeroFirst
<1>2. ASSUME NEW s \in Seq(D), NEW x \in D, s \in S
      PROVE  Append(s, x) \in S
  <2> SUFFICES ASSUME NEW t \in Seq(D), NoZeroFirst(Append(s, x)), NoZeroFirst(t),
                      Value(base, Append(s, x)) = Value(base, t)
               PROVE  Append(s, x) = t
    OBVIOUS
  <2>1. t # <<>>
    <3>1. Value(base, Append(s, x)) > 0
      <4>1. Append(s, x) \in Seq(D) /\ Append(s, x) # <<>>
        OBVIOUS
      <4> QED
        BY <4>1, ValuePositive DEF NoZeroFirst
    <3>2. Value(base, <<>>) = 0
      BY ValueEmpty
    <3> QED
      BY <3>1, <3>2
  <2> DEFINE front == SubSeq(t, 1, Len(t) - 1)
             y == t[Len(t)]
  <2>2. front \in Seq(D) /\ y \in D /\ t = Append(front, y)
    BY <2>1
  <2> HIDE DEF front, y
  <2>3. Value(base, s) * base + x = Value(base, front) * base + y
    <3>1. Value(base, Append(s, x)) = Value(base, s) * base + x
      BY ValueAppend
    <3>2. Value(base, Append(front, y)) = Value(base, front) * base + y
      BY <2>2, ValueAppend
    <3> QED
      BY <2>2, <3>1, <3>2
  <2>4. Value(base, s) \in Nat /\ Value(base, front) \in Nat
    BY <2>2, ValueNat
  <2>5. Value(base, s) = Value(base, front) /\ x = y
    <3>1. x \in 0..base-1 /\ y \in 0..base-1 /\ base \in Nat
      BY <2>2 DEF Base, Digit
    <3> DEFINE p == Value(base, s)
               q == Value(base, front)
    <3>2. p \in Nat /\ q \in Nat /\ p * base + x = q * base + y
      BY <2>3, <2>4
    <3> HIDE DEF p, q
    <3>3. p = q /\ x = y
      BY <3>1, <3>2, QuotientUnique
    <3> QED
      BY <3>3 DEF p, q
  <2>6. NoZeroFirst(s)
    <3>1. s # <<>> => s[1] = Append(s, x)[1]
      OBVIOUS
    <3>2. Append(s, x) # <<>>
      OBVIOUS
    <3> QED
      BY <3>1, <3>2 DEF NoZeroFirst
  <2>7. NoZeroFirst(front)
    <3>1. front # <<>> => front[1] = t[1]
      BY <2>2
    <3> QED
      BY <2>1, <3>1 DEF NoZeroFirst
  <2>8. s = front
    BY <1>2, <2>2, <2>5, <2>6, <2>7
  <2> QED
    BY <2>2, <2>5, <2>8
<1> HIDE DEF S
<1>3. \A s \in Seq(D) : s \in S
  BY <1>1, <1>2, SeqInduct
<1> QED
  BY <1>3 DEF S

-----------------------------------------------------------------------------
(* From a number to its digits and back *)

\* Turning a sequence round moves its first element to the end.
LEMMA ReverseCons ==
  ASSUME NEW A, NEW t \in Seq(A), NEW d \in A
  PROVE  /\ Reverse(t) \in Seq(A)
         /\ Reverse(<<d>> \o t) = Append(Reverse(t), d)
<1>1. Reverse(t) \in Seq(A) /\ Len(Reverse(t)) = Len(t) /\ Len(t) \in Nat
  BY DEF Reverse
<1> DEFINE l == <<d>> \o t
<1>2. /\ l \in Seq(A) /\ Len(l) = Len(t) + 1 /\ l[1] = d
      /\ \A i \in 1..Len(t) : l[i + 1] = t[i]
  OBVIOUS
<1> HIDE DEF l
<1>3. Len(Reverse(l)) = Len(t) + 1 /\ Reverse(l) \in Seq(A)
  BY <1>2 DEF Reverse
<1>4. ASSUME NEW i \in 1..Len(t)+1 PROVE Reverse(l)[i] = Append(Reverse(t), d)[i]
  <2>1. Reverse(l)[i] = l[(Len(l) - i) + 1]
    BY <1>2 DEF Reverse
  <2>2. CASE i = Len(t) + 1
    <3>1. Append(Reverse(t), d)[i] = d
      BY <1>1, <2>2
    <3> QED
      BY <1>2, <2>1, <2>2, <3>1
  <2>3. CASE i \in 1..Len(t)
    <3>1. Append(Reverse(t), d)[i] = Reverse(t)[i]
      BY <1>1, <2>3
    <3>2. Reverse(t)[i] = t[(Len(t) - i) + 1]
      BY <2>3 DEF Reverse
    <3>3. l[((Len(t) - i) + 1) + 1] = t[(Len(t) - i) + 1]
      BY <1>2, <2>3
    <3>4. (Len(l) - i) + 1 = ((Len(t) - i) + 1) + 1
      BY <1>2, <2>3
    <3> QED
      BY <2>1, <3>1, <3>2, <3>3, <3>4
  <2> QED
    BY <1>1, <2>2, <2>3
<1>5. Append(Reverse(t), d) \in Seq(A) /\ Len(Append(Reverse(t), d)) = Len(t) + 1
  BY <1>1
<1>6. Reverse(l) = Append(Reverse(t), d)
  BY <1>3, <1>4, <1>5
<1> QED
  BY <1>1, <1>6 DEF l

\* The numeral of a number, the most significant digit first.
Numeral(n, base) == Reverse(Digits(n, base))

\* The recursion of Digits is defined.
LEMMA DigitsRun ==
  ASSUME NEW base \in Base
  PROVE  \A n \in Nat : \E from :
           /\ \A m \in 0..n :
                from[m] = IF m = 0 THEN <<>> ELSE <<m % base>> \o from[m \div base]
           /\ Digits(n, base) = from[n]
<1> DEFINE Is(f, n) ==
             f = [m \in 0..n |-> IF m = 0 THEN <<>> ELSE <<m % base>> \o f[m \div base]]
           E == {n \in Nat : \E f : Is(f, n)}
<1>1. 0 \in E
  <2>1. Is([m \in 0..0 |-> <<>>], 0)
    OBVIOUS
  <2> QED
    BY <2>1
<1>2. ASSUME NEW n \in Nat, n \in E PROVE n + 1 \in E
  <2>1. PICK f : Is(f, n)
    BY <1>2
  <2>2. \A m \in 0..n : f[m] = IF m = 0 THEN <<>> ELSE <<m % base>> \o f[m \div base]
    BY <2>1
  <2>3. \A m \in Nat : m # 0 => m \div base \in 0..m-1
    BY DEF Base
  <2> DEFINE g == [m \in 0..n+1 |-> IF m <= n THEN f[m]
                                    ELSE <<m % base>> \o f[m \div base]]
  <2>4. ASSUME NEW m \in 0..n+1
        PROVE  g[m] = IF m = 0 THEN <<>> ELSE <<m % base>> \o g[m \div base]
    <3>1. CASE m = 0
      <4>1. 0 \in 0..n
        OBVIOUS
      <4>2. f[0] = <<>>
        BY <2>2, <4>1
      <4> QED
        BY <3>1, <4>1, <4>2
    <3>2. CASE m # 0
      <4>1. m \div base \in 0..n
        BY <2>3, <3>2
      <4>2. g[m \div base] = f[m \div base]
        BY <4>1
      <4>3. CASE m <= n
        <5>1. g[m] = f[m] /\ m \in 0..n
          BY <4>3
        <5> HIDE DEF g
        <5> QED
          BY <2>2, <3>2, <4>2, <5>1
      <4>4. CASE ~(m <= n)
        <5>1. g[m] = <<m % base>> \o f[m \div base]
          BY <4>4
        <5> HIDE DEF g
        <5> QED
          BY <3>2, <4>2, <5>1
      <4> QED
        BY <4>3, <4>4
    <3> QED
      BY <3>1, <3>2
  <2>5. g = [m \in 0..n+1 |-> g[m]]
    OBVIOUS
  <2> HIDE DEF g
  <2>6. Is(g, n + 1)
    BY <2>4, <2>5
  <2> HIDE DEF Is
  <2> QED
    BY <2>6
<1> HIDE DEF E
<1>3. \A n \in Nat : n \in E
  BY <1>1, <1>2, NatInduct
<1> SUFFICES ASSUME NEW n \in Nat
             PROVE  \E from :
                      /\ \A m \in 0..n :
                           from[m] = IF m = 0 THEN <<>> ELSE <<m % base>> \o from[m \div base]
                      /\ Digits(n, base) = from[n]
  OBVIOUS
<1> DEFINE from == CHOOSE f : Is(f, n)
<1>4. Is(from, n)
  <2>1. \E f : Is(f, n)
    BY <1>3 DEF E
  <2> HIDE DEF Is
  <2> QED
    BY <2>1
<1>5. Digits(n, base) = from[n]
  BY DEF Digits
<1> HIDE DEF from
<1>6. \A m \in 0..n : from[m] = IF m = 0 THEN <<>> ELSE <<m % base>> \o from[m \div base]
  BY <1>4
<1> QED
  BY <1>5, <1>6

\* The numeral of a number has its value and does not start with a zero.
LEMMA NumeralHasValue ==
  ASSUME NEW base \in Base, NEW n \in Nat
  PROVE  /\ Numeral(n, base) \in Seq(Digit(base))
         /\ Value(base, Numeral(n, base)) = n
         /\ NoZeroFirst(Numeral(n, base))
<1>1. PICK from :
        /\ \A m \in 0..n :
             from[m] = IF m = 0 THEN <<>> ELSE <<m % base>> \o from[m \div base]
        /\ Digits(n, base) = from[n]
  BY DigitsRun
<1> DEFINE Good(m) == /\ from[m] \in Seq(Digit(base))
                      /\ Reverse(from[m]) \in Seq(Digit(base))
                      /\ Value(base, Reverse(from[m])) = m
                      /\ NoZeroFirst(Reverse(from[m]))
           T == {k \in 0..n : \A m \in 0..k : Good(m)}
<1>2. 0 \in T
  <2>1. 0 \in 0..n
    OBVIOUS
  <2>2. from[0] = <<>>
    BY <1>1, <2>1
  <2>3. Reverse(<<>>) = <<>> /\ <<>> \in Seq(Digit(base))
    BY DEF Reverse
  <2>4. Reverse(from[0]) = <<>>
    BY <2>2, <2>3
  <2>5. Good(0)
    BY <2>2, <2>3, <2>4, ValueEmpty, Zenon DEF NoZeroFirst
  <2> HIDE DEF Good
  <2> QED
    BY <2>5
<1>3. ASSUME NEW k \in 0..n-1, k \in T PROVE k + 1 \in T
  <2> DEFINE m == k + 1
             d == m % base
             q == m \div base
  <2>1. m \in 0..n /\ m # 0 /\ d \in Digit(base) /\ q \in 0..k /\ m = q * base + d
    BY DEF Base, Digit
  <2>2. q = 0 => d # 0
    BY <2>1, 0 * base = 0 DEF Base
  <2>3. from[m] = <<d>> \o from[q]
    BY <1>1, <2>1
  <2>4. Good(q)
    BY <1>3, <2>1
  <2> HIDE DEF m, d, q
  <2>5. Reverse(from[m]) = Append(Reverse(from[q]), d)
    BY <2>1, <2>3, <2>4, ReverseCons
  <2>6. Value(base, Reverse(from[m])) = m
    <3>1. Value(base, Append(Reverse(from[q]), d)) = Value(base, Reverse(from[q])) * base + d
      BY <2>1, <2>4, ValueAppend
    <3> QED
      BY <2>1, <2>4, <2>5, <3>1
  <2>7. from[m] \in Seq(Digit(base)) /\ Reverse(from[m]) \in Seq(Digit(base))
    <3>1. <<d>> \in Seq(Digit(base))
      BY <2>1
    <3>2. <<d>> \o from[q] \in Seq(Digit(base))
      BY <2>4, <3>1
    <3>3. Append(Reverse(from[q]), d) \in Seq(Digit(base))
      BY <2>1, <2>4
    <3> QED
      BY <2>3, <2>5, <3>2, <3>3
  <2>8. NoZeroFirst(Reverse(from[m]))
    <3>1. CASE q = 0
      <4>1. Reverse(from[q]) = <<>>
        <5>1. 0 \in 0..n
          OBVIOUS
        <5>2. from[0] = <<>>
          BY <1>1, <5>1
        <5>3. Reverse(<<>>) = <<>>
          BY DEF Reverse
        <5> QED
          BY <3>1, <5>2, <5>3
      <4> QED
        BY <2>2, <2>5, <3>1, <4>1 DEF NoZeroFirst
    <3>2. CASE q # 0
      <4>1. Reverse(from[q]) # <<>>
        BY <2>4, <3>2, ValueEmpty
      <4> QED
        BY <2>4, <2>5, <4>1 DEF NoZeroFirst
    <3> QED
      BY <3>1, <3>2
  <2>9. Good(m)
    BY <2>6, <2>7, <2>8
  <2> HIDE DEF Good
  <2>10. \A j \in 0..m : Good(j)
    BY <1>3, <2>9 DEF m
  <2> QED
    BY <2>1, <2>10 DEF m
<1> HIDE DEF T
<1>4. n \in T
  BY <1>2, <1>3, UpToInduct
<1>5. Good(n)
  BY <1>4 DEF T
<1> QED
  BY <1>1, <1>5 DEF Numeral

\* A sequence of digits that does not start with a zero is the numeral of its
\* value.
LEMMA NumeralOfValue ==
  ASSUME NEW base \in Base, NEW s \in Seq(Digit(base)), NoZeroFirst(s)
  PROVE  Numeral(Value(base, s), base) = s
<1>1. Value(base, s) \in Nat
  BY ValueNat
<1>2. PICK n \in Nat : n = Value(base, s)
  BY <1>1
<1>3. /\ Numeral(n, base) \in Seq(Digit(base))
      /\ Value(base, Numeral(n, base)) = n
      /\ NoZeroFirst(Numeral(n, base))
  BY NumeralHasValue
<1> QED
  BY <1>2, <1>3, ValueInjective

-----------------------------------------------------------------------------
(* Leading zeros *)

\* One more zero.
LEMMA ZerosAppend ==
  ASSUME NEW k \in Nat
  PROVE  /\ Zeros(k) \in Seq({0}) /\ Len(Zeros(k)) = k
         /\ Zeros(k + 1) = Append(Zeros(k), 0)
<1>1. Zeros(k) \in Seq({0}) /\ Len(Zeros(k)) = k
  BY DEF Zeros
<1>2. /\ Zeros(k + 1) \in Seq({0}) /\ Len(Zeros(k + 1)) = k + 1
      /\ \A i \in 1..k+1 : Zeros(k + 1)[i] = 0
  BY DEF Zeros
<1>3. /\ Append(Zeros(k), 0) \in Seq({0}) /\ Len(Append(Zeros(k), 0)) = k + 1
      /\ \A i \in 1..k+1 : Append(Zeros(k), 0)[i] = 0
  BY <1>1
<1> QED
  BY <1>1, <1>2, <1>3

\* A sequence is its leading zeros and a rest that starts with something else.
LEMMA LeadingZerosSplit ==
  ASSUME NEW s \in Seq(Int)
  PROVE  /\ LeadingZeros(s) \in 0..Len(s)
         /\ s = Zeros(LeadingZeros(s)) \o SubSeq(s, LeadingZeros(s) + 1, Len(s))
         /\ NoZeroFirst(SubSeq(s, LeadingZeros(s) + 1, Len(s)))
<1> DEFINE prefixes == {n \in 0..Len(s) : \A i \in 1..n : s[i] = 0}
           k == LeadingZeros(s)
           left == {Len(s) - n : n \in prefixes}
<1>1. Len(s) \in Nat
  OBVIOUS
<1>2. left \subseteq Nat /\ left # {}
  <2>1. 0 \in prefixes
    BY <1>1
  <2> QED
    BY <1>1, <2>1
<1>3. PICK m \in left : \A n \in left : m <= n
  <2> HIDE DEF left
  <2> QED
    BY <1>2, LeastElement
<1>4. PICK z \in prefixes : m = Len(s) - z
  BY <1>3
<1>5. \A n \in prefixes : n <= z
  <2> TAKE n \in prefixes
  <2>1. Len(s) - n \in left
    OBVIOUS
  <2>2. m <= Len(s) - n
    BY <1>3, <2>1
  <2> QED
    BY <1>1, <1>4, <2>2
<1>6. k \in prefixes /\ \A n \in prefixes : n <= k
  <2> HIDE DEF prefixes
  <2> QED
    BY <1>4, <1>5 DEF LeadingZeros, prefixes
<1> HIDE DEF k
<1>7. k \in 0..Len(s) /\ \A i \in 1..k : s[i] = 0
  BY <1>6
<1>8. k < Len(s) => s[k + 1] # 0
  <2> SUFFICES ASSUME k < Len(s), s[k + 1] = 0 PROVE FALSE
    OBVIOUS
  <2>1. \A i \in 1..k+1 : s[i] = 0
    BY <1>7
  <2>2. k + 1 \in prefixes
    BY <1>1, <1>7, <2>1
  <2>3. k + 1 <= k
    BY <1>6, <2>2
  <2> QED
    BY <1>7, <2>3
<1> DEFINE rest == SubSeq(s, k + 1, Len(s))
<1>9. /\ rest \in Seq(Int) /\ Len(rest) = Len(s) - k
      /\ \A i \in 1..Len(s)-k : rest[i] = s[k + i]
  BY <1>1, <1>7
<1>10. NoZeroFirst(rest)
  <2>1. CASE k = Len(s)
    BY <1>9, <2>1 DEF NoZeroFirst
  <2>2. CASE k < Len(s)
    <3>1. rest[1] = s[k + 1]
      BY <1>1, <1>7, <1>9, <2>2
    <3> QED
      BY <1>8, <2>2, <3>1 DEF NoZeroFirst
  <2> QED
    BY <1>7, <2>1, <2>2
<1> HIDE DEF rest
<1>11. s = Zeros(k) \o rest
  <2>1. Zeros(k) \in Seq(Int) /\ Len(Zeros(k)) = k /\ \A i \in 1..k : Zeros(k)[i] = 0
    BY <1>7 DEF Zeros
  <2>2. /\ Zeros(k) \o rest \in Seq(Int) /\ Len(Zeros(k) \o rest) = k + Len(rest)
        /\ \A i \in 1..k+Len(rest) :
             (Zeros(k) \o rest)[i] = IF i <= k THEN Zeros(k)[i] ELSE rest[i - k]
    <3>1. PICK zs \in Seq(Int) : zs = Zeros(k)
      BY <2>1
    <3>2. /\ zs \o rest \in Seq(Int) /\ Len(zs \o rest) = Len(zs) + Len(rest)
          /\ \A i \in 1..Len(zs)+Len(rest) :
               (zs \o rest)[i] = IF i <= Len(zs) THEN zs[i] ELSE rest[i - Len(zs)]
      BY <1>9, ConcatProperties
    <3> QED
      BY <2>1, <3>1, <3>2
  <2>3. Len(Zeros(k) \o rest) = Len(s)
    BY <1>1, <1>7, <1>9, <2>2
  <2>4. ASSUME NEW i \in 1..Len(s) PROVE s[i] = (Zeros(k) \o rest)[i]
    <3>1. i \in 1..k+Len(rest)
      BY <1>1, <1>7, <1>9
    <3>2. CASE i <= k
      BY <1>7, <2>1, <2>2, <3>1, <3>2
    <3>3. CASE i > k
      <4>1. i - k \in 1..Len(s)-k /\ k + (i - k) = i
        BY <1>1, <1>7, <3>3
      <4>2. (Zeros(k) \o rest)[i] = rest[i - k]
        BY <1>7, <2>2, <3>1, <3>3
      <4> QED
        BY <1>9, <4>1, <4>2
    <3>4. i <= k \/ i > k
      BY <1>1, <1>7
    <3> QED
      BY <3>2, <3>3, <3>4
  <2> QED
    BY <2>2, <2>3, <2>4, SeqEqual
<1> QED
  BY <1>7, <1>10, <1>11 DEF k, rest

\* k zeros before such a rest are the k leading zeros.
LEMMA LeadingZerosOf ==
  ASSUME NEW k \in Nat, NEW t \in Seq(Int), NoZeroFirst(t)
  PROVE  LeadingZeros(Zeros(k) \o t) = k
<1> DEFINE s == Zeros(k) \o t
           z == LeadingZeros(s)
<1>1. Zeros(k) \in Seq(Int) /\ Len(Zeros(k)) = k /\ \A i \in 1..k : Zeros(k)[i] = 0
  BY DEF Zeros
<1>2. /\ s \in Seq(Int) /\ Len(s) = k + Len(t) /\ Len(t) \in Nat
      /\ \A i \in 1..k : s[i] = 0
      /\ t # <<>> => s[k + 1] = t[1]
  BY <1>1
<1> HIDE DEF s
<1> DEFINE rest == SubSeq(s, z + 1, Len(s))
<1>3. z \in 0..Len(s) /\ s = Zeros(z) \o rest /\ NoZeroFirst(rest)
  BY <1>2, LeadingZerosSplit
<1> HIDE DEF z
<1>4. Zeros(z) \in Seq(Int) /\ Len(Zeros(z)) = z /\ \A i \in 1..z : Zeros(z)[i] = 0
  BY <1>3 DEF Zeros
<1>5. \A i \in 1..z : s[i] = 0
  <2>1. SubSeq(s, z + 1, Len(s)) \in Seq(Int)
    BY <1>2, <1>3
  <2>2. \A i \in 1..z : (Zeros(z) \o rest)[i] = Zeros(z)[i]
    BY <1>3, <1>4, <2>1, ConcatProperties
  <2> QED
    BY <1>3, <1>4, <2>2
<1>6. z < Len(s) => s[z + 1] # 0
  <2> SUFFICES ASSUME z < Len(s) PROVE s[z + 1] # 0
    OBVIOUS
  <2>1. rest # <<>> /\ rest[1] = s[z + 1]
    <3>1. z + 1 \in Int /\ Len(s) \in Int /\ \A i \in z+1..Len(s) : s[i] \in Int
      BY <1>2, <1>3
    <3>2. /\ Len(rest) = Len(s) - (z + 1) + 1
          /\ \A i \in 1..Len(s)-(z + 1)+1 : rest[i] = s[(z + 1) + i - 1]
      BY <1>2, <1>3, <3>1, SubSeqProperties
    <3>3. Len(rest) > 0 /\ rest[1] = s[(z + 1) + 1 - 1] /\ (z + 1) + 1 - 1 = z + 1
      BY <1>2, <1>3, <3>1, <3>2
    <3>4. Len(<<>>) = 0
      OBVIOUS
    <3>5. rest # <<>>
      <4> HIDE DEF rest
      <4> QED
        BY <3>3, <3>4
    <3>6. rest[1] = s[z + 1]
      BY <1>2, <1>3, <3>3
    <3> QED
      BY <3>5, <3>6
  <2> QED
    BY <1>3, <2>1 DEF NoZeroFirst
<1>7. ~(z < k)
  BY <1>2, <1>3, <1>6
<1>8. ~(z > k)
  <2> SUFFICES ASSUME z > k PROVE FALSE
    OBVIOUS
  <2>1. s[k + 1] = 0 /\ t # <<>>
    BY <1>2, <1>3, <1>5
  <2> QED
    BY <1>2, <2>1 DEF NoZeroFirst
<1> QED
  BY <1>3, <1>7, <1>8 DEF s, z

\* Leading zeros have no value.
LEMMA ValueOfZeros ==
  ASSUME NEW base \in Base, NEW k \in Nat
  PROVE  \A t \in Seq(Digit(base)) :
           /\ Zeros(k) \o t \in Seq(Digit(base))
           /\ Value(base, Zeros(k) \o t) = Value(base, t)
<1> DEFINE D == Digit(base)
<1>1. 0 \in D /\ base \in Nat
  BY DEF Base, Digit
<1> HIDE DEF D
<1> DEFINE Z == {j \in Nat : Value(base, Zeros(j)) = 0}
<1>2. 0 \in Z
  <2>1. Zeros(0) = <<>>
    BY DEF Zeros
  <2> QED
    BY <2>1, ValueEmpty
<1>3. ASSUME NEW j \in Nat, j \in Z PROVE j + 1 \in Z
  <2>1. Value(base, Append(Zeros(j), 0)) = Value(base, Zeros(j)) * base + 0
    BY ZerosAppend, ValueAppend
  <2>2. Value(base, Zeros(j)) = 0 /\ 0 * base + 0 = 0
    BY <1>1, <1>3
  <2>3. Value(base, Append(Zeros(j), 0)) = 0
    BY <2>1, <2>2
  <2>4. Append(Zeros(j), 0) = Zeros(j + 1)
    BY ZerosAppend
  <2>5. Value(base, Zeros(j + 1)) = 0
    BY <2>3, <2>4, Zenon
  <2> QED
    BY <2>5
<1> HIDE DEF Z
<1>4. Value(base, Zeros(k)) = 0
  <2>1. k \in Z
    BY <1>2, <1>3, NatInduct
  <2> QED
    BY <2>1 DEF Z
<1>5. Zeros(k) \in Seq(D)
  BY <1>1 DEF Zeros
<1> DEFINE S == {t \in Seq(D) : Value(base, Zeros(k) \o t) = Value(base, t)}
<1>6. <<>> \in S
  <2>1. Zeros(k) \o <<>> = Zeros(k)
    BY <1>5
  <2> QED
    BY <1>4, <2>1, ValueEmpty
<1>7. ASSUME NEW t \in Seq(D), NEW x \in D, t \in S PROVE Append(t, x) \in S
  <2>1. Zeros(k) \o Append(t, x) = Append(Zeros(k) \o t, x) /\ Zeros(k) \o t \in Seq(D)
    BY <1>5
  <2>2. Value(base, Append(Zeros(k) \o t, x)) = Value(base, Zeros(k) \o t) * base + x
    BY <2>1, ValueAppend
  <2>3. Value(base, Append(t, x)) = Value(base, t) * base + x
    BY ValueAppend
  <2>4. Append(t, x) \in Seq(D)
    OBVIOUS
  <2> QED
    BY <1>7, <2>1, <2>2, <2>3, <2>4
<1> HIDE DEF S
<1>8. \A t \in Seq(D) : t \in S
  BY <1>6, <1>7, SeqInduct
<1>9. \A t \in Seq(D) : Zeros(k) \o t \in Seq(D)
  BY <1>5
<1> QED
  BY <1>8, <1>9 DEF S, D

-----------------------------------------------------------------------------
(* Base58 *)

\* From digits of a base to digits of another, zero for leading zero.
Convert(s, base, other) == Zeros(LeadingZeros(s)) \o Numeral(Value(base, s), other)

\* Converting a sequence of digits from a base to another and back gives it
\* again, with as many leading zeros.
LEMMA ConvertBack ==
  ASSUME NEW base \in Base, NEW other \in Base, NEW s \in Seq(Digit(base))
  PROVE  /\ Convert(s, base, other) \in Seq(Digit(other))
         /\ Convert(Convert(s, base, other), other, base) = s
<1> DEFINE k == LeadingZeros(s)
           rest == SubSeq(s, k + 1, Len(s))
           n == Value(base, s)
           t == Numeral(n, other)
<1>1. s \in Seq(Int)
  BY DEF Base, Digit
<1>2. k \in 0..Len(s) /\ s = Zeros(k) \o rest /\ NoZeroFirst(rest)
  BY <1>1, LeadingZerosSplit
<1>3. rest \in Seq(Digit(base))
  BY <1>2
<1> HIDE DEF k, rest
<1>4. n \in Nat /\ k \in Nat
  <2>1. k \in 0..Len(s) /\ Len(s) \in Nat
    BY <1>1, <1>2
  <2> QED
    BY <2>1, ValueNat
<1>5. n = Value(base, rest)
  BY <1>2, <1>3, <1>4, ValueOfZeros
<1> HIDE DEF n
<1>6. t \in Seq(Digit(other)) /\ Value(other, t) = n /\ NoZeroFirst(t)
  BY <1>4, NumeralHasValue
<1> HIDE DEF t
<1>7. Convert(s, base, other) = Zeros(k) \o t
  BY DEF Convert, k, t, n
<1>8. Zeros(k) \o t \in Seq(Digit(other)) /\ Value(other, Zeros(k) \o t) = n
  BY <1>4, <1>6, ValueOfZeros
<1>9. LeadingZeros(Zeros(k) \o t) = k
  <2>1. t \in Seq(Int)
    BY <1>6 DEF Base, Digit
  <2> QED
    BY <1>4, <1>6, <2>1, LeadingZerosOf
<1>10. Numeral(n, base) = rest
  BY <1>2, <1>3, <1>5, NumeralOfValue
<1>11. Convert(Zeros(k) \o t, other, base) = Zeros(k) \o rest
  BY <1>8, <1>9, <1>10 DEF Convert
<1> QED
  BY <1>2, <1>7, <1>8, <1>11

\* Bytes and the alphabet are bases.
LEMMA Bases == Radix \in Base /\ AlphabetSize \in Base
  BY EncodingAssumption DEF Base

\* big.Int.Bytes is the numeral of a number.
LEMMA BytesNumeral == \A n \in Nat : Bytes(n) = Numeral(n, Radix)
  BY DEF Bytes, Numeral

\* Base58Encode converts bytes to the alphabet ...
LEMMA Base58EncodeConverts ==
  \A input : Base58Encode(input) = Convert(input, Radix, AlphabetSize)
  BY SetBytesValue DEF Base58Encode, Convert, Numeral

\* ... and Base58Decode converts texts in the alphabet to bytes.
LEMMA Base58DecodeConverts ==
  ASSUME NEW chars \in Seq(Digit(AlphabetSize))
  PROVE  Base58Decode(chars) = Convert(chars, AlphabetSize, Radix)
<1> DEFINE k == LeadingZeros(chars)
           rest == SubSeq(chars, k + 1, Len(chars))
<1>1. chars \in Seq(Int)
  BY EncodingAssumption DEF Digit
<1>2. k \in 0..Len(chars) /\ chars = Zeros(k) \o rest /\ k \in Nat
  <2>1. /\ LeadingZeros(chars) \in 0..Len(chars)
        /\ chars = Zeros(LeadingZeros(chars))
                     \o SubSeq(chars, LeadingZeros(chars) + 1, Len(chars))
    BY <1>1, LeadingZerosSplit
  <2> QED
    BY <1>1, <2>1, SMTT(20)
<1>3. rest \in Seq(Digit(AlphabetSize))
  BY <1>2
<1>4. Base58Decode(chars) = Zeros(k) \o Bytes(Value(AlphabetSize, rest))
  BY ValueFolds DEF Base58Decode, shift
<1> HIDE DEF k, rest
<1>5. Value(AlphabetSize, chars) = Value(AlphabetSize, rest) /\ Value(AlphabetSize, rest) \in Nat
  BY <1>2, <1>3, Bases, ValueOfZeros, ValueNat
<1> QED
  BY <1>4, <1>5, BytesNumeral DEF Convert, k

\* Base58Encode and Base58Decode undo each other, on texts in the alphabet and
\* on bytes.
THEOREM Base58RoundTrips ==
  /\ \A chars \in Seq(Digit(AlphabetSize)) :
       /\ Base58Decode(chars) \in Seq(Digit(Radix))
       /\ Base58Encode(Base58Decode(chars)) = chars
  /\ \A bytes \in Seq(Digit(Radix)) :
       /\ Base58Encode(bytes) \in Seq(Digit(AlphabetSize))
       /\ Base58Decode(Base58Encode(bytes)) = bytes
<1>1. ASSUME NEW chars \in Seq(Digit(AlphabetSize))
      PROVE  /\ Base58Decode(chars) \in Seq(Digit(Radix))
             /\ Base58Encode(Base58Decode(chars)) = chars
  BY Bases, ConvertBack, Base58DecodeConverts, Base58EncodeConverts
<1>2. ASSUME NEW bytes \in Seq(Digit(Radix))
      PROVE  /\ Base58Encode(bytes) \in Seq(Digit(AlphabetSize))
             /\ Base58Decode(Base58Encode(bytes)) = bytes
  BY Bases, ConvertBack, Base58DecodeConverts, Base58EncodeConverts
<1> QED
  BY <1>1, <1>2

-----------------------------------------------------------------------------
(* Addresses *)

Byte == Digit(Radix)

\* Hashes are bytes, and not shorter than a checksum.
HashesAreBytes ==
    \A bytes \in Seq(Byte) :
        /\ Sha256(bytes) \in Seq(Byte) /\ Len(Sha256(bytes)) >= ChecksumLength
        /\ Ripemd160(bytes) \in Seq(Byte)

\* Where a concatenation is cut between its parts.
LEMMA ConcatCut ==
  ASSUME NEW A, NEW s \in Seq(A), NEW t \in Seq(A)
  PROVE  /\ s \o t \in Seq(A) /\ Len(s \o t) = Len(s) + Len(t)
         /\ SubSeq(s \o t, 1, Len(s)) = s
         /\ SubSeq(s \o t, Len(s) + 1, Len(s) + Len(t)) = t
<1> DEFINE u == s \o t
<1>1. /\ u \in Seq(A) /\ Len(u) = Len(s) + Len(t) /\ Len(s) \in Nat /\ Len(t) \in Nat
      /\ \A i \in 1..Len(s)+Len(t) : u[i] = IF i <= Len(s) THEN s[i] ELSE t[i - Len(s)]
  BY ConcatProperties
<1> HIDE DEF u
<1>2. SubSeq(u, 1, Len(s)) = s
  <2> DEFINE v == SubSeq(u, 1, Len(s))
  <2>1. v \in Seq(A) /\ Len(v) = Len(s) /\ \A i \in 1..Len(s) : v[i] = u[i]
    BY <1>1
  <2> HIDE DEF v
  <2>2. \A i \in 1..Len(s) : v[i] = s[i]
    BY <1>1, <2>1
  <2>3. v = s
    BY <2>1, <2>2, SeqEqual
  <2> QED
    BY <2>3 DEF v
<1>3. SubSeq(u, Len(s) + 1, Len(s) + Len(t)) = t
  <2> DEFINE v == SubSeq(u, Len(s) + 1, Len(s) + Len(t))
  <2>1. v \in Seq(A) /\ Len(v) = Len(t) /\ \A i \in 1..Len(t) : v[i] = u[Len(s) + i]
    BY <1>1
  <2> HIDE DEF v
  <2>2. ASSUME NEW i \in 1..Len(t) PROVE v[i] = t[i]
    <3>1. Len(s) + i \in 1..Len(s)+Len(t) /\ ~(Len(s) + i <= Len(s)) /\ (Len(s) + i) - Len(s) = i
      BY <1>1
    <3> QED
      BY <1>1, <2>1, <3>1
  <2>3. v = t
    BY <2>1, <2>2, SeqEqual
  <2> QED
    BY <2>3 DEF v
<1> QED
  BY <1>1, <1>2, <1>3 DEF u

\* The bytes of a number have its value and do not start with a zero.
LEMMA BytesInSeq ==
  \A n \in Nat : Bytes(n) \in Seq(Byte) /\ Value(Radix, Bytes(n)) = n /\ NoZeroFirst(Bytes(n))
  BY NumeralHasValue, BytesNumeral, Bases DEF Byte

\* What GetAddressWithPublickey returns is a text in the alphabet that decodes
\* to the version, the hash of the key and a checksum.
LEMMA AddressTakenApart ==
  ASSUME HashesAreBytes, NEW publickey \in Seq(Byte)
  PROVE  LET address == GetAddressWithPublickey(publickey)
         IN  /\ address \in Seq(Digit(AlphabetSize))
             /\ ValidateAddress(address) = TRUE
             /\ AddressToPubkeyHash(address) = PublickeyHash(publickey)
<1> DEFINE address == GetAddressWithPublickey(publickey)
           hash == PublickeyHash(publickey)
           payload == <<MAINNET_VERSION>> \o hash
           long == Sha256(Sha256(payload))
           checksum == GenerateChecksum(payload)
           decoded == payload \o checksum
<1>1. hash \in Seq(Byte)
  BY DEF HashesAreBytes, PublickeyHash
<1>2. <<MAINNET_VERSION>> \in Seq(Byte) /\ Len(<<MAINNET_VERSION>>) = 1
  BY EncodingAssumption DEF Byte, Digit
<1>3. payload \in Seq(Byte) /\ Len(payload) = 1 + Len(hash) /\ Len(hash) \in Nat
  <2>1. PICK v \in Seq(Byte) : v = <<MAINNET_VERSION>>
    BY <1>2
  <2> HIDE DEF hash
  <2> QED
    BY <1>1, <1>2, <2>1, ConcatProperties
<1>4. long \in Seq(Byte) /\ Len(long) >= ChecksumLength
  BY <1>3 DEF HashesAreBytes
<1>5. checksum \in Seq(Byte) /\ Len(checksum) = ChecksumLength /\ ChecksumLength \in Nat
  <2>1. checksum = SubSeq(long, 1, ChecksumLength)
    BY DEF GenerateChecksum
  <2> HIDE DEF long, checksum
  <2> QED
    BY <1>4, <2>1, EncodingAssumption
<1>6. address = Base58Encode(decoded)
  BY DEF GetAddressWithPublickey
<1>7. SubSeq(payload, 2, Len(payload)) = hash
  BY <1>1, <1>2, <1>3, ConcatCut
<1> HIDE DEF hash, payload, checksum, address
<1>8. /\ decoded \in Seq(Byte) /\ Len(decoded) = Len(payload) + ChecksumLength
      /\ SubSeq(decoded, 1, Len(payload)) = payload
      /\ SubSeq(decoded, Len(payload) + 1, Len(decoded)) = checksum
  <2>1. payload \in Seq(Byte) /\ checksum \in Seq(Byte)
    BY <1>3, <1>5
  <2>2. decoded \in Seq(Byte) /\ Len(decoded) = Len(payload) + Len(checksum)
    BY <2>1, ConcatCut
  <2>3. SubSeq(decoded, 1, Len(payload)) = payload
    BY <2>1, ConcatCut
  <2>4. SubSeq(decoded, Len(payload) + 1, Len(payload) + Len(checksum)) = checksum
    BY <2>1, ConcatCut
  <2> HIDE DEF decoded
  <2> QED
    BY <1>5, <2>2, <2>3, <2>4
<1>9. SubSeq(decoded, 2, Len(payload)) = SubSeq(payload, 2, Len(payload))
  <2>1. \A i \in 1..Len(payload) : decoded[i] = payload[i]
    BY <1>3, <1>5
  <2> DEFINE v == SubSeq(decoded, 2, Len(payload))
             w == SubSeq(payload, 2, Len(payload))
  <2> HIDE DEF decoded
  <2>2. /\ v \in Seq(Byte) /\ Len(v) = Len(payload) - 1
        /\ \A i \in 1..Len(payload)-1 : v[i] = decoded[i + 1]
    BY <1>3, <1>5, <1>8
  <2>3. /\ w \in Seq(Byte) /\ Len(w) = Len(payload) - 1
        /\ \A i \in 1..Len(payload)-1 : w[i] = payload[i + 1]
    BY <1>3
  <2> HIDE DEF v, w
  <2>4. \A i \in 1..Len(v) : v[i] = w[i]
    BY <1>3, <2>1, <2>2, <2>3
  <2>5. v = w
    BY <2>2, <2>3, <2>4, SeqEqual
  <2> QED
    BY <2>5 DEF v, w
<1> HIDE DEF decoded
<1>10. address \in Seq(Digit(AlphabetSize)) /\ Base58Decode(address) = decoded
  BY <1>6, <1>8, Base58RoundTrips DEF Byte
<1>11. Len(decoded) - ChecksumLength = Len(payload) /\ Len(payload) >= 1
  BY <1>3, <1>5, <1>8
<1>12. ValidateAddress(address) = TRUE
  <2>1. ~(Len(decoded) - ChecksumLength < 1)
    BY <1>3, <1>11
  <2>2. SubSeq(decoded, (Len(decoded) - ChecksumLength) + 1, Len(decoded))
          = GenerateChecksum(SubSeq(decoded, 1, Len(decoded) - ChecksumLength))
    BY <1>8, <1>11 DEF checksum
  <2> QED
    BY <1>10, <2>1, <2>2 DEF ValidateAddress
<1>13. AddressToPubkeyHash(address) = hash
  <2>1. ~(Len(decoded) <= ChecksumLength)
    BY <1>3, <1>5, <1>8
  <2> QED
    BY <1>7, <1>9, <1>10, <1>11, <2>1 DEF AddressToPubkeyHash
<1> QED
  BY <1>10, <1>12, <1>13 DEF address, hash

-----------------------------------------------------------------------------
(* Words and headers *)

times(base, below, j) == base * below

Powers == INSTANCE FoldTheorems WITH op <- times

\* The recursion of Power is defined.
LEMMA PowerRun ==
  ASSUME NEW base \in Base
  PROVE  \A k \in Nat : \E power :
           /\ power[0] = 1
           /\ \A j \in 1..k : power[j] = base * power[j - 1]
           /\ Power(base, k) = power[k]
<1> TAKE k \in Nat
<1>1. PICK power : /\ power = Powers!TheRecursion(base, 1, k)
                   /\ power[0] = 1
                   /\ \A j \in 1..k : power[j] = times(base, power[j - 1], j)
  BY Powers!RecursionRuns
<1>2. Power(base, k) = power[k]
  BY <1>1 DEF Power, Powers!TheRecursion, Powers!IsRecursion, times
<1> QED
  BY <1>1, <1>2 DEF times

\* A numeral of more than k digits that does not start with a zero has at
\* least the value of the power k of the base.
LEMMA LongValues ==
  ASSUME NEW base \in Base, NEW k \in Nat
  PROVE  /\ Power(base, k) \in Nat
         /\ \A s \in Seq(Digit(base)) :
              NoZeroFirst(s) /\ Len(s) > k => Value(base, s) >= Power(base, k)
<1>1. PICK power : /\ power[0] = 1
                   /\ \A j \in 1..k : power[j] = base * power[j - 1]
                   /\ Power(base, k) = power[k]
  BY PowerRun
<1> DEFINE Good(j) == /\ power[j] \in Nat
                      /\ \A s \in Seq(Digit(base)) :
                           NoZeroFirst(s) /\ Len(s) > j => Value(base, s) >= power[j]
           T == {j \in 0..k : Good(j)}
<1>2. 0 \in T
  <2>1. ASSUME NEW s \in Seq(Digit(base)), NoZeroFirst(s), Len(s) > 0
        PROVE  Value(base, s) >= 1
    <3>1. s # <<>> /\ s[1] # 0
      BY <2>1 DEF NoZeroFirst
    <3> QED
      BY <3>1, ValuePositive, ValueNat
  <2> QED
    BY <1>1, <2>1
<1>3. ASSUME NEW j \in 0..k-1, j \in T PROVE j + 1 \in T
  <2>1. power[j + 1] = base * power[j] /\ power[j + 1] \in Nat
    <3>1. j + 1 \in 1..k /\ (j + 1) - 1 = j
      OBVIOUS
    <3>2. power[j + 1] = base * power[j]
      BY <1>1, <3>1
    <3> QED
      BY <1>3, <3>2 DEF Base
  <2>2. ASSUME NEW s \in Seq(Digit(base)), NoZeroFirst(s), Len(s) > j + 1
        PROVE  Value(base, s) >= power[j + 1]
    <3> DEFINE front == SubSeq(s, 1, Len(s) - 1)
               x == s[Len(s)]
    <3>1. /\ front \in Seq(Digit(base)) /\ Len(front) > j /\ x \in Digit(base)
          /\ s = Append(front, x) /\ front[1] = s[1]
      BY <2>2
    <3> HIDE DEF front, x
    <3>2. NoZeroFirst(front)
      BY <2>2, <3>1 DEF NoZeroFirst
    <3>3. Value(base, front) >= power[j]
      BY <1>3, <3>1, <3>2
    <3>4. Value(base, s) = Value(base, front) * base + x /\ Value(base, front) \in Nat
      BY <3>1, ValueAppend, ValueNat
    <3>5. x \in Nat
      BY <3>1 DEF Base, Digit
    <3>6. Value(base, front) * base >= power[j] * base
      BY <1>3, <3>3, <3>4 DEF Base
    <3> QED
      BY <1>3, <2>1, <3>4, <3>5, <3>6 DEF Base
  <2> QED
    BY <2>1, <2>2
<1> HIDE DEF T
<1>4. k \in T
  BY <1>2, <1>3, UpToInduct
<1> QED
  BY <1>1, <1>4 DEF T

\* A word has WordLength bytes and the value of the number, if it is not too
\* large.
LEMMA WordHasValue ==
  ASSUME NEW n \in 0..Power(Radix, WordLength)-1
  PROVE  /\ Uint64ToBytesBigEndian(n) \in Seq(Byte)
         /\ Len(Uint64ToBytesBigEndian(n)) = WordLength
         /\ Value(Radix, Uint64ToBytesBigEndian(n)) = n
<1> DEFINE limit == Power(Radix, WordLength)
           bytes == Bytes(n)
           k == WordLength - Len(bytes)
<1>1. limit \in Nat /\ WordLength \in Nat
  BY Bases, EncodingAssumption, LongValues
<1>2. n \in Nat /\ n % limit = n
  BY <1>1
<1>3. bytes \in Seq(Byte) /\ Value(Radix, bytes) = n /\ NoZeroFirst(bytes)
  BY <1>2, BytesInSeq
<1>4. Uint64ToBytesBigEndian(n) = Zeros(k) \o bytes
  BY <1>2 DEF Uint64ToBytesBigEndian
<1> HIDE DEF bytes
<1>5. ~(Len(bytes) > WordLength)
  <2> SUFFICES ASSUME Len(bytes) > WordLength PROVE FALSE
    OBVIOUS
  <2>1. Value(Radix, bytes) >= limit
    BY <1>1, <1>3, Bases, LongValues DEF Byte
  <2> QED
    BY <1>1, <1>3, <2>1
<1>6. k \in Nat /\ Len(bytes) \in Nat
  BY <1>1, <1>3, <1>5
<1>7. Zeros(k) \o bytes \in Seq(Byte) /\ Value(Radix, Zeros(k) \o bytes) = n
  BY <1>3, <1>6, Bases, ValueOfZeros DEF Byte
<1>8. Len(Zeros(k) \o bytes) = WordLength
  <2>1. Zeros(k) \in Seq(Byte) /\ Len(Zeros(k)) = k
    BY <1>6, EncodingAssumption DEF Zeros, Byte, Digit
  <2>2. Len(Zeros(k) \o bytes) = k + Len(bytes)
    BY <1>3, <1>6, <2>1
  <2> QED
    BY <1>1, <1>6, <2>2
<1> QED
  BY <1>4, <1>7, <1>8

\* Two equal concatenations whose last parts are of one length have equal
\* parts.
LEMMA ConcatInjective ==
  ASSUME NEW A, NEW s \in Seq(A), NEW t \in Seq(A), NEW u \in Seq(A), NEW v \in Seq(A),
         s \o t = u \o v, Len(t) = Len(v)
  PROVE  s = u /\ t = v
<1>1. Len(s) = Len(u)
  <2>1. Len(s \o t) = Len(s) + Len(t) /\ Len(u \o v) = Len(u) + Len(v)
    BY ConcatProperties
  <2> QED
    BY <2>1
<1>2. SubSeq(s \o t, 1, Len(s)) = s /\ SubSeq(u \o v, 1, Len(u)) = u
  BY ConcatCut
<1>3. \A x, y \in Seq(A) : SubSeq(x \o y, Len(x) + 1, Len(x) + Len(y)) = y
  BY ConcatCut
<1>4. /\ SubSeq(s \o t, Len(s) + 1, Len(s) + Len(t)) = t
      /\ SubSeq(u \o v, Len(u) + 1, Len(u) + Len(v)) = v
  BY <1>3
<1>5. s = u
  BY <1>1, <1>2
<1>6. t = v
  BY <1>1, <1>4
<1> QED
  BY <1>5, <1>6

-----------------------------------------------------------------------------
(* The wallet file *)

\* What a cell can hold: a number, an address, a private key or a public key.
Cell == Int \cup Seq(Int)

\* What keys look like in the file.
LEMMA KeyCells ==
  ASSUME HashesAreBytes, NEW key \in Key
  PROVE  /\ key \in Seq(Int) /\ Join(key) \in Seq(Byte) /\ Join(key) \in Seq(Int)
         /\ Address(key) \in Seq(Digit(AlphabetSize)) /\ Address(key) \in Seq(Int)
<1>1. PICK x \in Nat, y \in Nat : key = <<x, y>>
  BY ProgramAssumption
<1>2. key \in Seq(Int)
  BY <1>1
<1>3. Join(key) \in Seq(Byte)
  <2>1. Join(key) = Bytes(x) \o Bytes(y)
    BY <1>1 DEF Join
  <2>2. Bytes(x) \in Seq(Byte) /\ Bytes(y) \in Seq(Byte)
    BY BytesInSeq
  <2> QED
    BY <2>1, <2>2, ConcatProperties
<1>4. Address(key) \in Seq(Digit(AlphabetSize))
  BY <1>3, AddressTakenApart DEF Address
<1>5. \A s \in Seq(Byte) : s \in Seq(Int)
  BY EncodingAssumption DEF Byte, Digit
<1>6. \A s \in Seq(Digit(AlphabetSize)) : s \in Seq(Int)
  BY EncodingAssumption DEF Digit
<1> QED
  BY <1>2, <1>3, <1>4, <1>5, <1>6

\* A map of wallets made of some keys.
IsWallets(ws, keys) ==
    /\ ws \in [DOMAIN ws -> [private : keys, public : {Join(key) : key \in keys}]]
    /\ DOMAIN ws \subseteq {Address(key) : key \in keys}
    /\ IsFiniteSet(DOMAIN ws)

\* Entry i in the cells.
IsEntry(cells, i, a, wallet) ==
    /\ cells[3*i - 1] = a
    /\ cells[3*i] = wallet.private
    /\ cells[3*i + 1] = wallet.public

\* The cells that hold the wallets in an order.
IsEncoding(data, ws, order) ==
    /\ data \in Seq(Cell)
    /\ Len(data) = 1 + 3 * Len(order)
    /\ data[1] = Len(order)
    /\ \A i \in 1..Len(order) : IsEntry(data, i, order[i], ws[order[i]])

\* What gob writes holds every wallet, in the order it is written in.
LEMMA EncodedCells ==
  ASSUME HashesAreBytes, NEW ws, IsWallets(ws, Key), NEW order \in Seq(DOMAIN ws)
  PROVE  IsEncoding(Encoded(ws, order), ws, order)
<1> DEFINE N == Len(order)
           entry(i) == <<order[i], ws[order[i]].private, ws[order[i]].public>>
           seqs == [i \in DOMAIN order |-> entry(i)]
           data == Encoded(ws, order)
<1>1. N \in Nat /\ DOMAIN order = 1..N
  OBVIOUS
<1>2. ASSUME NEW i \in 1..N
      PROVE  order[i] \in Cell /\ ws[order[i]].private \in Cell /\ ws[order[i]].public \in Cell
  <2>1. order[i] \in DOMAIN ws
    BY <1>1
  <2>2. PICK a, w : a = order[i] /\ w = ws[order[i]]
    OBVIOUS
  <2>3. a \in {Address(key) : key \in Key}
    BY <2>1, <2>2 DEF IsWallets
  <2>4. w \in [private : Key, public : {Join(key) : key \in Key}]
    BY <2>1, <2>2 DEF IsWallets
  <2>5. a \in Seq(Int)
    BY <2>3, KeyCells
  <2>6. w.private \in Seq(Int) /\ w.public \in Seq(Int)
    BY <2>4, KeyCells
  <2> QED
    BY <2>2, <2>5, <2>6 DEF Cell
<1>3. /\ seqs \in Seq(Seq(Cell)) /\ Len(seqs) = N
      /\ \A i \in 1..N : seqs[i] = entry(i)
  <2>1. \A i \in 1..N : entry(i) \in Seq(Cell)
    BY <1>2
  <2> HIDE DEF entry
  <2> QED
    BY <1>1, <2>1
<1>4. data = <<N>> \o FlattenSeq(seqs)
  BY DEF Encoded
<1> HIDE DEF seqs
<1>5. PICK flat :
        /\ \A i \in 1..N : flat[i] = IF i = 1 THEN seqs[i] ELSE flat[i - 1] \o seqs[i]
        /\ FlattenSeq(seqs) = IF N = 0 THEN seqs ELSE flat[N]
  <2>1. PICK flat :
          /\ \A i \in 1..Len(seqs) : flat[i] = IF i = 1 THEN seqs[i] ELSE flat[i - 1] \o seqs[i]
          /\ FlattenSeq(seqs) = IF Len(seqs) = 0 THEN seqs ELSE flat[Len(seqs)]
    <3>1. seqs \in Seq(Seq(Cell))
      BY <1>3
    <3> QED
      BY <3>1, FlattenRuns
  <2>2. Len(seqs) = N
    BY <1>3
  <2> QED
    BY <2>1, <2>2
<1> DEFINE Good(s, i) == /\ s \in Seq(Cell) /\ Len(s) = 3 * i
                         /\ \A j \in 1..i : /\ s[3*j - 2] = order[j]
                                            /\ s[3*j - 1] = ws[order[j]].private
                                            /\ s[3*j] = ws[order[j]].public
           T == {i \in Nat : i \in 1..N => Good(flat[i], i)}
<1>6. 0 \in T
  OBVIOUS
<1>7. ASSUME NEW i \in Nat, i \in T PROVE i + 1 \in T
  <2> SUFFICES ASSUME i + 1 \in 1..N PROVE Good(flat[i + 1], i + 1)
    OBVIOUS
  <2> DEFINE e == seqs[i + 1]
             s == flat[i]
  <2>1. /\ e \in Seq(Cell) /\ Len(e) = 3 /\ e[1] = order[i + 1]
        /\ e[2] = ws[order[i + 1]].private /\ e[3] = ws[order[i + 1]].public
    <3>1. PICK x \in Cell, y \in Cell, z \in Cell :
            x = order[i + 1] /\ y = ws[order[i + 1]].private /\ z = ws[order[i + 1]].public
      BY <1>2
    <3>2. e = <<x, y, z>>
      BY <1>3, <3>1
    <3> QED
      BY <3>1, <3>2
  <2>2. CASE i = 0
    <3>1. flat[i + 1] = e
      BY <1>5, <2>2
    <3>2. Good(e, 1)
      BY <2>1, <2>2
    <3> QED
      BY <2>2, <3>1, <3>2
  <2>3. CASE i # 0
    <3>1. flat[i + 1] = s \o e
      <4>1. i + 1 # 1 /\ (i + 1) - 1 = i
        BY <2>3
      <4> QED
        BY <1>5, <4>1
    <3>2. Good(s, i)
      BY <1>7, <2>3, <1>1
    <3> HIDE DEF e, s
    <3>3. /\ s \o e \in Seq(Cell) /\ Len(s \o e) = 3 * i + 3
          /\ \A j \in 1..3*i+3 : (s \o e)[j] = IF j <= 3 * i THEN s[j] ELSE e[j - 3 * i]
      <4>1. s \in Seq(Cell) /\ Len(s) = 3 * i /\ e \in Seq(Cell) /\ Len(e) = 3
        BY <2>1, <3>2
      <4>2. /\ s \o e \in Seq(Cell) /\ Len(s \o e) = Len(s) + Len(e)
            /\ \A j \in 1..Len(s)+Len(e) :
                 (s \o e)[j] = IF j <= Len(s) THEN s[j] ELSE e[j - Len(s)]
        BY <4>1, ConcatProperties
      <4> QED
        BY <4>1, <4>2
    <3>4. \A j \in 1..i : /\ (s \o e)[3*j - 2] = order[j]
                          /\ (s \o e)[3*j - 1] = ws[order[j]].private
                          /\ (s \o e)[3*j] = ws[order[j]].public
      <4> TAKE j \in 1..i
      <4>1. /\ 3*j - 2 \in 1..3*i+3 /\ 3*j - 2 <= 3*i
            /\ 3*j - 1 \in 1..3*i+3 /\ 3*j - 1 <= 3*i
            /\ 3*j \in 1..3*i+3 /\ 3*j <= 3*i
        OBVIOUS
      <4> QED
        BY <3>2, <3>3, <4>1
    <3>5. /\ (s \o e)[3*(i + 1) - 2] = order[i + 1]
          /\ (s \o e)[3*(i + 1) - 1] = ws[order[i + 1]].private
          /\ (s \o e)[3*(i + 1)] = ws[order[i + 1]].public
      <4>1. /\ 3*(i + 1) - 2 = 3*i + 1 /\ 3*(i + 1) - 1 = 3*i + 2 /\ 3*(i + 1) = 3*i + 3
            /\ (3*i + 1) - 3*i = 1 /\ (3*i + 2) - 3*i = 2 /\ (3*i + 3) - 3*i = 3
        OBVIOUS
      <4>2. (s \o e)[3*i + 1] = e[1] /\ (s \o e)[3*i + 2] = e[2] /\ (s \o e)[3*i + 3] = e[3]
        BY <3>3, <4>1
      <4> QED
        BY <2>1, <4>1, <4>2
    <3>6. \A j \in 1..i+1 : j \in 1..i \/ j = i + 1
      OBVIOUS
    <3>7. 3 * (i + 1) = 3 * i + 3
      OBVIOUS
    <3>8. Good(s \o e, i + 1)
      BY <3>3, <3>4, <3>5, <3>6, <3>7
    <3> HIDE DEF Good
    <3> QED
      BY <3>1, <3>8
  <2> QED
    BY <2>2, <2>3
<1> HIDE DEF T
<1>8. N # 0 => Good(flat[N], N)
  <2>1. N \in T
    BY <1>1, <1>6, <1>7, NatInduct
  <2> QED
    BY <1>1, <2>1 DEF T
<1>9. Good(FlattenSeq(seqs), N)
  <2>1. CASE N = 0
    <3>1. FlattenSeq(seqs) = seqs
      BY <1>5, <2>1
    <3>2. seqs = <<>>
      BY <1>3, <2>1
    <3> QED
      BY <2>1, <3>1, <3>2
  <2>2. CASE N # 0
    <3> HIDE DEF Good
    <3> QED
      BY <1>5, <1>8, <2>2
  <2> QED
    BY <2>1, <2>2
<1> DEFINE rest == FlattenSeq(seqs)
<1> HIDE DEF rest
<1>10. PICK first \in Seq(Cell) : first = <<N>> /\ Len(first) = 1 /\ first[1] = N
  <2>1. N \in Cell
    BY <1>1 DEF Cell
  <2>2. PICK n \in Cell : n = N
    <3> HIDE DEF N
    <3> QED
      BY <2>1
  <2>3. <<n>> \in Seq(Cell) /\ Len(<<n>>) = 1 /\ <<n>>[1] = n
    OBVIOUS
  <2> QED
    BY <2>2, <2>3
<1>11. rest \in Seq(Cell) /\ Len(rest) = 3 * N
  BY <1>9 DEF rest
<1>12. /\ data \in Seq(Cell) /\ Len(data) = 1 + 3 * N
       /\ \A j \in 1..1+3*N : data[j] = IF j <= 1 THEN N ELSE rest[j - 1]
  <2>1. data = first \o rest
    BY <1>4, <1>10 DEF rest
  <2> HIDE DEF data
  <2>2. /\ data \in Seq(Cell) /\ Len(data) = Len(first) + Len(rest)
        /\ \A j \in 1..Len(first)+Len(rest) :
             data[j] = IF j <= Len(first) THEN first[j] ELSE rest[j - Len(first)]
    BY <1>11, <2>1, ConcatProperties
  <2> QED
    BY <1>1, <1>10, <1>11, <2>2
<1> HIDE DEF data
<1>13. ASSUME NEW i \in 1..N PROVE IsEntry(data, i, order[i], ws[order[i]])
  <2>1. /\ 3*i - 1 \in 1..1+3*N /\ 3*i \in 1..1+3*N /\ 3*i + 1 \in 1..1+3*N
        /\ ~(3*i - 1 <= 1) /\ ~(3*i <= 1) /\ ~(3*i + 1 <= 1)
        /\ (3*i - 1) - 1 = 3*i - 2 /\ (3*i + 1) - 1 = 3*i
    BY <1>1
  <2>2. data[3*i - 1] = rest[3*i - 2] /\ data[3*i] = rest[3*i - 1] /\ data[3*i + 1] = rest[3*i]
    BY <1>12, <2>1
  <2> QED
    BY <1>9, <2>2 DEF IsEntry, rest
<1>14. data[1] = N
  BY <1>1, <1>12
<1> QED
  BY <1>12, <1>13, <1>14 DEF IsEncoding, data

\* The first k cells of some data written over the cells that are there.
IsOverwritten(new, old, data, k) ==
    /\ new \in Seq(Cell)
    /\ Len(new) = IF k <= Len(old) THEN Len(old) ELSE k
    /\ \A j \in 1..Len(new) : new[j] = IF j <= k THEN data[j] ELSE old[j]

Old(cells) == IF cells = Nil THEN <<>> ELSE cells

\* A write over older cells replaces the first ones and leaves the others.
LEMMA OverwrittenCells ==
  ASSUME NEW cells, cells = Nil \/ cells \in Seq(Cell),
         NEW data \in Seq(Cell), NEW k \in 0..Len(data)
  PROVE  IsOverwritten(Overwritten(cells, data, k), Old(cells), data, k)
<1> DEFINE old == Old(cells)
           new == Overwritten(cells, data, k)
           left == SubSeq(data, 1, k)
           right == SubSeq(old, k + 1, Len(old))
<1>1. old \in Seq(Cell) /\ Len(old) \in Nat /\ Len(data) \in Nat
  BY DEF Old
<1>2. new = left \o right
  BY DEF Overwritten, Old
<1> HIDE DEF old, new
<1>3. left \in Seq(Cell) /\ Len(left) = k /\ \A j \in 1..k : left[j] = data[j]
  BY <1>1
<1>4. /\ right \in Seq(Cell)
      /\ Len(right) = IF k <= Len(old) THEN Len(old) - k ELSE 0
      /\ \A j \in 1..Len(old)-k : right[j] = old[k + j]
  BY <1>1
<1> HIDE DEF left, right
<1>5. /\ new \in Seq(Cell) /\ Len(new) = k + Len(right)
      /\ \A j \in 1..k+Len(right) : new[j] = IF j <= k THEN left[j] ELSE right[j - k]
  <2>1. left \in Seq(Cell) /\ right \in Seq(Cell)
    BY <1>3, <1>4
  <2>2. /\ new \in Seq(Cell) /\ Len(new) = Len(left) + Len(right)
        /\ \A j \in 1..Len(left)+Len(right) :
             new[j] = IF j <= Len(left) THEN left[j] ELSE right[j - Len(left)]
    BY <1>2, <2>1, ConcatProperties
  <2> QED
    BY <1>3, <2>2
<1>6. Len(new) = IF k <= Len(old) THEN Len(old) ELSE k
  BY <1>1, <1>4, <1>5
<1>7. ASSUME NEW j \in 1..Len(new) PROVE new[j] = IF j <= k THEN data[j] ELSE old[j]
  <2>1. j \in 1..k+Len(right)
    BY <1>5
  <2>2. CASE j <= k
    BY <1>3, <1>5, <2>1, <2>2
  <2>3. CASE ~(j <= k)
    <3>1. j - k \in 1..Len(old)-k /\ k + (j - k) = j
      BY <1>1, <1>6, <2>3
    <3> QED
      BY <1>4, <1>5, <2>1, <2>3, <3>1
  <2> QED
    BY <2>2, <2>3
<1> QED
  BY <1>5, <1>6, <1>7 DEF old, new, IsOverwritten

\* A file whose first cells hold some wallets, each address once, decodes to
\* them, whatever follows.
LEMMA DecodedCells ==
  ASSUME NEW ws, NEW keys, IsWallets(ws, keys), NEW order \in SetToSeqs(DOMAIN ws),
         NEW cells \in Seq(Cell), Len(cells) >= 1 + 3 * Len(order), cells[1] = Len(order),
         \A i \in 1..Len(order) : IsEntry(cells, i, order[i], ws[order[i]])
  PROVE  Decoded(cells) = ws
<1> DEFINE N == Len(order)
           where(a) == CHOOSE i \in 1..N : cells[3*i - 1] = a
<1>1. /\ order \in [1..Cardinality(DOMAIN ws) -> DOMAIN ws] /\ Cardinality(DOMAIN ws) \in Nat
      /\ \A i, j \in 1..Cardinality(DOMAIN ws) : i # j => order[i] # order[j]
  BY FS_CardinalityType DEF SetToSeqs, IsWallets
<1>2. N = Cardinality(DOMAIN ws) /\ N \in Nat
  BY <1>1
<1>3. DOMAIN ws = {order[i] : i \in 1..N}
  <2>1. IsFiniteSet(1..N) /\ Cardinality(1..N) = N
    BY <1>2, FS_Interval
  <2>2. IsFiniteSet(DOMAIN ws)
    BY DEF IsWallets
  <2>3. order \in Injection(1..N, DOMAIN ws)
    BY <1>1, <1>2 DEF Injection, IsInjective
  <2>4. order \in Surjection(1..N, DOMAIN ws)
    BY <1>2, <2>1, <2>2, <2>3, FS_Injection
  <2> QED
    BY <2>4 DEF Surjection
<1>4. cells # <<>> /\ ~(Len(cells) < 1 + 3 * cells[1])
  BY <1>2
<1>5. Decoded(cells) = [a \in {cells[3*i - 1] : i \in 1..N} |->
                          [private |-> cells[3 * where(a)], public |-> cells[3 * where(a) + 1]]]
  BY <1>4 DEF Decoded
<1>6. {cells[3*i - 1] : i \in 1..N} = DOMAIN ws
  <2>1. \A i \in 1..N : cells[3*i - 1] = order[i]
    BY DEF IsEntry
  <2> QED
    BY <1>3, <2>1
<1>7. ASSUME NEW a \in DOMAIN ws
      PROVE  ws[a] = [private |-> cells[3 * where(a)], public |-> cells[3 * where(a) + 1]]
  <2>1. PICK i \in 1..N : order[i] = a
    BY <1>3
  <2>2. where(a) \in 1..N /\ cells[3 * where(a) - 1] = a
    BY <2>1 DEF IsEntry
  <2> HIDE DEF where
  <2>3. PICK w : w = ws[a]
    OBVIOUS
  <2>4. cells[3 * where(a)] = w.private /\ cells[3 * where(a) + 1] = w.public
    <3>1. order[where(a)] = a
      BY <2>2 DEF IsEntry
    <3> QED
      BY <2>2, <2>3, <3>1 DEF IsEntry
  <2>5. w = [private |-> w.private, public |-> w.public]
    BY <2>3 DEF IsWallets
  <2> QED
    BY <2>3, <2>4, <2>5
<1>8. ws = [a \in DOMAIN ws |-> ws[a]]
  BY DEF IsWallets
<1> HIDE DEF where
<1> QED
  BY <1>5, <1>6, <1>7, <1>8

-----------------------------------------------------------------------------
(* The invariant of the wallet file *)

Addresses(keys) == {Address(key) : key \in keys}
Publics(keys)   == {Join(key) : key \in keys}

\* Every cell, up to the last one, is of the kind its place asks for.
Grid(cells, keys) ==
    /\ cells \in Seq(Cell)
    /\ cells # <<>> => cells[1] \in 1..Len(cells)
    /\ \A i \in Nat \ {0} :
         /\ 3*i - 1 <= Len(cells) => cells[3*i - 1] \in Addresses(keys)
         /\ 3*i     <= Len(cells) => cells[3*i] \in keys
         /\ 3*i + 1 <= Len(cells) => cells[3*i + 1] \in Publics(keys)

Decodable(cells) == cells # <<>> /\ Len(cells) >= 1 + 3 * cells[1]

\* The entries that are decoded are wallets as they were made.
Sound(cells, keys) ==
    \A i \in 1..cells[1] : \E key \in keys : IsEntry(cells, i, Address(key), NewWallet(key))

\* After any failures the cells are of their kinds; after one, the file is
\* too short for its size or its entries are sound; without any, it holds
\* exactly the wallets written last.
FileInv ==
    file # Nil =>
        /\ Grid(file, made)
        /\ faults <= 1 /\ Decodable(file) => Sound(file, made)
        /\ faults = 0 => /\ Decodable(file) /\ Len(file) = 1 + 3 * file[1]
                         /\ Cardinality(DOMAIN Readable) = file[1]

\* The wallets a process has read.
Loaded(ws) == ws = Readable \/ (ws = <<>> /\ faults > 0)

\* createwallet adds a new one to them.
Added(key, ws) ==
    /\ Loaded(ws) /\ Address(key) \notin DOMAIN ws
    /\ wallets = WithWallet(ws, key)
    /\ cmd.address = Address(key)

WalletsInv ==
    /\ IsWallets(wallets, made)
    /\ pc \in {"idle", "read"} => wallets = <<>>
    /\ pc \in {"createwallet", "listaddress", "sendtx", "lock", "sign", "verify"} => Loaded(wallets)
    /\ pc = "save" => \E key \in made : \E ws \in {Readable, <<>>} : Added(key, ws)
    /\ pc = "saved" => file # Nil /\ Decoded(file) = wallets
    /\ pc \in {"saved", "unsaved"} => cmd.address \in DOMAIN wallets
    /\ pc = "unsaved" => faults > 0

Sending == [op : {"sendtx"}, from : Addresses(Key), to : Typed, amount : {0, 1}]

TransferInv ==
    /\ pc \in {"sendtx", "lock", "sign", "verify"} => cmd \in Sending
    /\ pc \in {"lock", "sign", "verify"} =>
         cmd.from \in DOMAIN wallets /\ transfer.wallet = wallets[cmd.from]
    /\ pc \in {"sign", "verify"} => transfer.change = AddressToPubkeyHash(cmd.from)
    /\ pc = "verify" => transfer.pair \in Signatures /\ transfer.signature = Join(transfer.pair)

CommandInv ==
    /\ pc \in {"idle", "read", "createwallet", "listaddress", "sendtx", "save", "saved",
               "unsaved", "lock", "sign", "verify", "database", "getbalance", "startnode",
               "addblock", "mine", "mined", "serving"}
    /\ pc = "idle" <=> cmd = Nil
    /\ pc = "read" => cmd \in [op : {"createwallet", "listaddress"}] \cup Sending
    /\ pc \in {"getbalance", "startnode", "addblock"} =>
         cmd \in [op : {"getbalance"}, address : Typed]
                   \cup [op : {"startnode"}, minner : Typed]
                   \cup [op : {"addblock"}, header : Header]
    /\ pc \in {"getbalance", "startnode", "addblock"} => pc = cmd.op
    /\ pc \in {"mine", "mined"} => block.header \in Header
    /\ made \subseteq Key /\ faults \in 0..MaxFaults

ReportedInv ==
    /\ reported \subseteq Addresses(made)
    /\ faults = 0 => reported \subseteq DOMAIN Readable

ProgramInv == FileInv /\ WalletsInv /\ TransferInv /\ CommandInv /\ ReportedInv

-----------------------------------------------------------------------------
(* What is read from such a file and written to it *)

\* A file whose cells are of their kinds decodes to wallets, not more than its
\* size says.
LEMMA DecodedIsWallets ==
  ASSUME NEW keys, keys \subseteq Key, NEW cells, Grid(cells, keys), Decodable(cells)
  PROVE  /\ IsWallets(Decoded(cells), keys)
         /\ Cardinality(DOMAIN Decoded(cells)) <= cells[1]
         /\ Decoded(cells) # Nil
<1> DEFINE N == cells[1]
           D == {cells[3*i - 1] : i \in 1..N}
           where(a) == CHOOSE i \in 1..N : cells[3*i - 1] = a
           W == [private : keys, public : Publics(keys)]
           ws == Decoded(cells)
<1>1. N \in Nat \ {0} /\ Len(cells) >= 1 + 3 * N /\ cells # <<>> /\ Len(cells) \in Nat
  BY DEF Grid, Decodable
<1>2. ws = [a \in D |-> [private |-> cells[3 * where(a)], public |-> cells[3 * where(a) + 1]]]
  BY <1>1 DEF Decoded
<1> HIDE DEF N, ws
<1>3. ASSUME NEW i \in 1..N
      PROVE  /\ cells[3*i - 1] \in Addresses(keys) /\ cells[3*i] \in keys
             /\ cells[3*i + 1] \in Publics(keys)
  <2>1. i \in Nat \ {0} /\ 3*i - 1 <= Len(cells) /\ 3*i <= Len(cells) /\ 3*i + 1 <= Len(cells)
    BY <1>1
  <2> QED
    BY <2>1 DEF Grid
<1>4. D \subseteq Addresses(keys)
  BY <1>3
<1>5. IsFiniteSet(D) /\ Cardinality(D) <= N
  <2>1. IsFiniteSet(1..N) /\ Cardinality(1..N) = N
    <3>1. PICK n \in Nat \ {0} : n = N
      BY <1>1
    <3>2. IsFiniteSet(1..n) /\ Cardinality(1..n) = n
      BY FS_Interval
    <3> QED
      BY <3>1, <3>2
  <2> DEFINE f == [i \in 1..N |-> cells[3*i - 1]]
  <2>2. f \in Surjection(1..N, D)
    BY DEF Surjection
  <2> HIDE DEF f, D
  <2> QED
    BY <2>1, <2>2, FS_Surjection
<1>6. ASSUME NEW a \in D PROVE where(a) \in 1..N
  OBVIOUS
<1> HIDE DEF where
<1>7. \A a \in D : [private |-> cells[3 * where(a)], public |-> cells[3 * where(a) + 1]] \in W
  BY <1>3, <1>6
<1> HIDE DEF W, D
<1>8. DOMAIN ws = D /\ ws \in [D -> W]
  BY <1>2, <1>7
<1>9. IsWallets(ws, keys)
  BY <1>4, <1>5, <1>8 DEF IsWallets, Addresses, Publics, W
<1>10. ws # Nil
  <2>1. D \in SUBSET {Address(key) : key \in Key}
    BY <1>4 DEF Addresses
  <2>2. ws \in [D -> [private : Key, public : {Join(key) : key \in Key}]]
    BY <1>8 DEF W, Publics
  <2>3. Nil \notin [D -> [private : Key, public : {Join(key) : key \in Key}]]
    BY <2>1, NilAssumption
  <2> QED
    BY <2>2, <2>3
<1> QED
  BY <1>5, <1>8, <1>9, <1>10 DEF N, ws

\* Sound entries decode to wallets as they were made.
LEMMA DecodedIsSound ==
  ASSUME NEW keys, NEW cells, Grid(cells, keys), Decodable(cells), Sound(cells, keys)
  PROVE  \A a \in DOMAIN Decoded(cells) :
           \E key \in keys : a = Address(key) /\ Decoded(cells)[a] = NewWallet(key)
<1> DEFINE N == cells[1]
           where(a) == CHOOSE i \in 1..N : cells[3*i - 1] = a
<1>1. N \in Nat \ {0} /\ Len(cells) >= 1 + 3 * N /\ cells # <<>> /\ Len(cells) \in Nat
  BY DEF Grid, Decodable
<1>2. Decoded(cells) = [a \in {cells[3*i - 1] : i \in 1..N} |->
                          [private |-> cells[3 * where(a)], public |-> cells[3 * where(a) + 1]]]
  BY <1>1 DEF Decoded
<1> TAKE a \in DOMAIN Decoded(cells)
<1>3. PICK i \in 1..N : cells[3*i - 1] = a
  BY <1>2
<1>4. where(a) \in 1..N /\ cells[3 * where(a) - 1] = a
  BY <1>3
<1>5. Decoded(cells)[a] = [private |-> cells[3 * where(a)], public |-> cells[3 * where(a) + 1]]
  BY <1>2, <1>3
<1> HIDE DEF where
<1>6. PICK key \in keys : IsEntry(cells, where(a), Address(key), NewWallet(key))
  BY <1>4 DEF Sound
<1>7. NewWallet(key) = [private |-> NewWallet(key).private, public |-> NewWallet(key).public]
  BY DEF NewWallet
<1> QED
  BY <1>4, <1>5, <1>6, <1>7 DEF IsEntry

\* One more wallet in a map.
IsOneMore(more, ws, key) ==
    /\ DOMAIN more = DOMAIN ws \cup {Address(key)}
    /\ Cardinality(DOMAIN more) = Cardinality(DOMAIN ws) + 1
    /\ more[Address(key)] = NewWallet(key)
    /\ \A a \in DOMAIN ws : more[a] = ws[a]

\* CreateWalletRandomly adds one wallet and keeps the others.
LEMMA WalletAdded ==
  ASSUME NEW keys, NEW ws, IsWallets(ws, keys), NEW key \in keys, Address(key) \notin DOMAIN ws
  PROVE  /\ IsWallets(WithWallet(ws, key), keys)
         /\ IsOneMore(WithWallet(ws, key), ws, key)
<1> DEFINE more == WithWallet(ws, key)
           W == [private : keys, public : {Join(k) : k \in keys}]
<1>1. /\ DOMAIN more = DOMAIN ws \cup {Address(key)}
      /\ more[Address(key)] = NewWallet(key)
      /\ \A a \in DOMAIN ws : more[a] = ws[a]
      /\ more = [a \in DOMAIN more |-> more[a]]
  BY DEF WithWallet
<1> HIDE DEF more
<1>2. NewWallet(key) \in W
  BY DEF NewWallet
<1>3. \A a \in DOMAIN ws : ws[a] \in W
  BY DEF IsWallets
<1>4. more \in [DOMAIN more -> W]
  <2> HIDE DEF W
  <2> QED
    BY <1>1, <1>2, <1>3
<1>5. IsFiniteSet(DOMAIN more) /\ Cardinality(DOMAIN more) = Cardinality(DOMAIN ws) + 1
  BY <1>1, FS_AddElement DEF IsWallets
<1>6. IsWallets(more, keys)
  BY <1>1, <1>4, <1>5 DEF IsWallets
<1> QED
  BY <1>1, <1>5, <1>6 DEF more, IsOneMore

\* The kinds of cells stay right as keys are made, and when wallets are written
\* over older ones, in whole or in part.
LEMMA GridGrows ==
  ASSUME NEW keys, NEW more, keys \subseteq more
  PROVE  /\ \A cells : Grid(cells, keys) => Grid(cells, more)
         /\ \A cells : Sound(cells, keys) => Sound(cells, more)
         /\ \A ws : IsWallets(ws, keys) => IsWallets(ws, more)
<1>1. Addresses(keys) \subseteq Addresses(more) /\ Publics(keys) \subseteq Publics(more)
  BY DEF Addresses, Publics
<1>2. \A cells : Grid(cells, keys) => Grid(cells, more)
  BY <1>1 DEF Grid
<1>3. \A cells : Sound(cells, keys) => Sound(cells, more)
  BY DEF Sound
<1>4. ASSUME NEW ws, IsWallets(ws, keys) PROVE IsWallets(ws, more)
  <2> DEFINE D == DOMAIN ws
             V == [private : keys, public : Publics(keys)]
             W == [private : more, public : Publics(more)]
  <2>1. V \subseteq W
    BY <1>1
  <2>2. ws \in [D -> V]
    BY <1>4 DEF IsWallets, Publics
  <2>3. ws \in [D -> W]
    <3> HIDE DEF D, V, W
    <3> QED
      BY <2>1, <2>2
  <2> QED
    BY <1>1, <1>4, <2>3 DEF IsWallets, Addresses, Publics
<1> QED
  BY <1>2, <1>3, <1>4

\* A write, whole or in part, keeps the cells of their kinds: where it stops in
\* an older and longer file, the older entries begin at the same places.
LEMMA GridOverwritten ==
  ASSUME NEW keys, NEW cells, cells = Nil \/ Grid(cells, keys),
         NEW ws, IsWallets(ws, keys), NEW order \in Seq(DOMAIN ws), Len(order) > 0,
         NEW data, IsEncoding(data, ws, order),
         Len(order) = 1 \/ (cells # Nil /\ Len(cells) >= 1 + 3 * (Len(order) - 1)),
         NEW k \in 0..Len(data)
  PROVE  Grid(Overwritten(cells, data, k), keys)
<1> DEFINE old == Old(cells)
           new == Overwritten(cells, data, k)
           N == Len(order)
<1>1. data \in Seq(Cell) /\ Len(data) = 1 + 3 * N /\ data[1] = N /\ N \in Nat \ {0}
  BY DEF IsEncoding
<1>2. /\ new \in Seq(Cell)
      /\ Len(new) = IF k <= Len(old) THEN Len(old) ELSE k
      /\ \A j \in 1..Len(new) : new[j] = IF j <= k THEN data[j] ELSE old[j]
      /\ old \in Seq(Cell) /\ Len(old) \in Nat
  <2>1. cells = Nil \/ cells \in Seq(Cell)
    BY DEF Grid
  <2>2. IsOverwritten(new, old, data, k)
    BY <1>1, <2>1, OverwrittenCells
  <2> HIDE DEF new
  <2>3. old \in Seq(Cell) /\ Len(old) \in Nat
    BY <2>1 DEF Old
  <2> QED
    BY <2>2, <2>3 DEF new, IsOverwritten
<1>3. /\ old # <<>> => old[1] \in 1..Len(old)
      /\ \A i \in Nat \ {0} :
           /\ 3*i - 1 <= Len(old) => old[3*i - 1] \in Addresses(keys)
           /\ 3*i     <= Len(old) => old[3*i] \in keys
           /\ 3*i + 1 <= Len(old) => old[3*i + 1] \in Publics(keys)
  <2>1. CASE cells = Nil
    <3>1. Len(<<>>) = 0
      OBVIOUS
    <3> QED
      BY <2>1, <3>1 DEF Old
  <2>2. CASE cells # Nil
    BY <2>2 DEF Grid, Old
  <2> QED
    BY <2>1, <2>2
<1>4. Len(old) >= 1 + 3 * (N - 1) \/ N = 1
  BY DEF Old
<1> HIDE DEF old, new
<1>5. ASSUME NEW i \in 1..N
      PROVE  /\ data[3*i - 1] \in Addresses(keys) /\ data[3*i] \in keys
             /\ data[3*i + 1] \in Publics(keys)
  <2>1. IsEntry(data, i, order[i], ws[order[i]]) /\ order[i] \in DOMAIN ws
    BY DEF IsEncoding
  <2>2. order[i] \in Addresses(keys)
    BY <2>1 DEF IsWallets, Addresses
  <2>3. ws[order[i]].private \in keys /\ ws[order[i]].public \in Publics(keys)
    BY <2>1 DEF IsWallets, Publics
  <2> QED
    BY <2>1, <2>2, <2>3 DEF IsEntry
<1>6. new # <<>> => new[1] \in 1..Len(new)
  <2> SUFFICES ASSUME new # <<>> PROVE new[1] \in 1..Len(new)
    OBVIOUS
  <2>1. Len(new) \in Nat \ {0} /\ 1 \in 1..Len(new)
    BY <1>2
  <2>2. CASE k = 0
    <3>1. new[1] = old[1] /\ Len(new) = Len(old) /\ old # <<>>
      BY <1>2, <2>1, <2>2
    <3> QED
      BY <1>3, <3>1
  <2>3. CASE k # 0
    <3>1. new[1] = N
      BY <1>1, <1>2, <2>1, <2>3
    <3>2. N <= Len(new)
      BY <1>1, <1>2, <1>4, <2>3
    <3> QED
      BY <1>1, <2>1, <3>1, <3>2
  <2> QED
    BY <2>2, <2>3
<1>7. ASSUME NEW i \in Nat \ {0}
      PROVE  /\ 3*i - 1 <= Len(new) => new[3*i - 1] \in Addresses(keys)
             /\ 3*i     <= Len(new) => new[3*i] \in keys
             /\ 3*i + 1 <= Len(new) => new[3*i + 1] \in Publics(keys)
  <2>1. ASSUME NEW j \in {3*i - 1, 3*i, 3*i + 1}, j <= Len(new)
        PROVE  \/ j <= Len(data) /\ i \in 1..N /\ new[j] = data[j]
               \/ j <= Len(old) /\ new[j] = old[j]
    <3>1. j \in 1..Len(new) /\ j >= 3*i - 1
      BY <1>2, <2>1
    <3>2. CASE j <= k
      BY <1>1, <1>2, <3>1, <3>2
    <3>3. CASE ~(j <= k)
      BY <1>1, <1>2, <3>1, <3>3
    <3> QED
      BY <3>2, <3>3
  <2>2. 3*i - 1 <= Len(new) => new[3*i - 1] \in Addresses(keys)
    BY <1>3, <1>5, <2>1
  <2>3. 3*i <= Len(new) => new[3*i] \in keys
    BY <1>3, <1>5, <2>1
  <2>4. 3*i + 1 <= Len(new) => new[3*i + 1] \in Publics(keys)
    BY <1>3, <1>5, <2>1
  <2> QED
    BY <2>2, <2>3, <2>4
<1> QED
  BY <1>2, <1>6, <1>7 DEF Grid, new

-----------------------------------------------------------------------------

\* What a process may find in the file.
ReadableIs(keys) ==
    /\ IsWallets(Readable, keys)
    /\ faults <= 1 => \A a \in DOMAIN Readable :
                        \E key \in keys : a = Address(key) /\ Readable[a] = NewWallet(key)
    /\ Readable # <<>> => /\ file # Nil /\ Grid(file, keys) /\ Decodable(file)
                          /\ Cardinality(DOMAIN Readable) <= file[1]

\* No wallets are wallets.
LEMMA NoWallets == \A keys : IsWallets(<<>>, keys) /\ Cardinality(DOMAIN <<>>) = 0
<1> TAKE keys
<1> DEFINE W == [private : keys, public : {Join(key) : key \in keys}]
<1>1. DOMAIN <<>> = {}
  OBVIOUS
<1>2. <<>> \in [{} -> W]
  <2> HIDE DEF W
  <2>1. <<>> = [a \in {} |-> <<>>[a]]
    OBVIOUS
  <2> QED
    BY <2>1
<1>3. IsFiniteSet({}) /\ Cardinality({}) = 0
  BY FS_EmptySet
<1> QED
  BY <1>1, <1>2, <1>3 DEF IsWallets

\* A process finds wallets in the file, as they were made unless two failures
\* have mixed the entries of two writes.
LEMMA ReadableWallets ==
  ASSUME FileInv, made \subseteq Key
  PROVE  ReadableIs(made)
<1>1. CASE Readable = <<>>
  <2>1. DOMAIN <<>> = {}
    OBVIOUS
  <2> QED
    BY <1>1, <2>1, NoWallets DEF ReadableIs
<1>2. CASE Readable # <<>>
  <2>1. file # Nil /\ Readable = Decoded(file) /\ Decoded(file) # Nil
    BY <1>2 DEF Readable
  <2>2. Grid(file, made) /\ (faults <= 1 /\ Decodable(file) => Sound(file, made))
    BY <2>1 DEF FileInv
  <2>3. Decodable(file)
    <3>1. Len(file) \in Nat /\ (file # <<>> => file[1] \in Nat)
      BY <2>2 DEF Grid
    <3> QED
      BY <2>1, <3>1 DEF Decoded, Decodable
  <2>4. /\ IsWallets(Decoded(file), made)
        /\ Cardinality(DOMAIN Decoded(file)) <= file[1]
    BY <2>2, <2>3, DecodedIsWallets
  <2>5. ASSUME faults <= 1
        PROVE  \A a \in DOMAIN Decoded(file) :
                 \E key \in made : a = Address(key) /\ Decoded(file)[a] = NewWallet(key)
    BY <2>2, <2>3, <2>5, DecodedIsSound
  <2> QED
    BY <2>1, <2>2, <2>3, <2>4, <2>5 DEF ReadableIs
<1> QED
  BY <1>1, <1>2

\* Without failures the file is decoded whole.
LEMMA ReadableDecoded ==
  ASSUME FileInv, made \subseteq Key, file # Nil, Decodable(file)
  PROVE  Readable = Decoded(file)
<1>1. Grid(file, made)
  BY DEF FileInv
<1>2. Decoded(file) # Nil
  BY <1>1, DecodedIsWallets
<1> QED
  BY <1>2 DEF Readable

-----------------------------------------------------------------------------
(* Steps that write no file and make no key *)

Quiet == file' = file /\ made' = made /\ reported' = reported /\ faults' = faults

\* Such a step keeps the invariant of the file and of the printed addresses.
LEMMA QuietKeeps ==
  ASSUME ProgramInv, Quiet
  PROVE  FileInv' /\ ReportedInv' /\ Readable' = Readable
<1>1. Readable' = Readable
  BY DEF Quiet, Readable
<1> QED
  BY <1>1 DEF Quiet, ProgramInv, FileInv, ReportedInv

\* A process that ends leaves only the file and the history to look after.
LEMMA ExitKeeps ==
  ASSUME Exit, FileInv', ReportedInv', made' \subseteq Key, faults' \in 0..MaxFaults
  PROVE  ProgramInv'
<1>1. pc' = "idle" /\ cmd' = Nil /\ wallets' = <<>>
  BY DEF Exit
<1>2. CommandInv'
  BY <1>1 DEF CommandInv
<1>3. WalletsInv'
  <2>1. IsWallets(<<>>, made')
    BY NoWallets
  <2> QED
    BY <1>1, <2>1 DEF WalletsInv
<1>4. TransferInv'
  BY <1>1 DEF TransferInv
<1> QED
  BY <1>2, <1>3, <1>4 DEF ProgramInv

\* A process may end or be killed in such a step.
LEMMA QuietExitKeeps ==
  ASSUME ProgramInv, Quiet, Exit
  PROVE  ProgramInv'
<1>1. made' \subseteq Key /\ faults' \in 0..MaxFaults
  BY DEF Quiet, ProgramInv, CommandInv
<1> QED
  BY <1>1, QuietKeeps, ExitKeeps

-----------------------------------------------------------------------------

\* A process that starts has a command and nothing else.
LEMMA RunKeeps == ProgramInv /\ Run => ProgramInv'
<1> SUFFICES ASSUME ProgramInv, Run PROVE ProgramInv'
  OBVIOUS
<1>1. Quiet /\ pc = "idle" /\ wallets' = wallets
  BY DEF Run, Quiet, history
<1>2. PICK c \in Commands :
        /\ cmd' = c
        /\ pc' = IF c.op \in {"createwallet", "listaddress", "sendtx"} THEN "read" ELSE c.op
  BY DEF Run
<1>3. \/ pc' = "read" /\ c \in [op : {"createwallet", "listaddress"}] \cup Sending
      \/ pc' = "getbalance" /\ c \in [op : {"getbalance"}, address : Typed]
      \/ pc' = "startnode" /\ c \in [op : {"startnode"}, minner : Typed]
      \/ pc' = "addblock" /\ c \in [op : {"addblock"}, header : Header]
  BY <1>2 DEF Commands, Sending, Addresses
<1>4. cmd' # Nil
  BY <1>2, NilAssumption
<1>5. CommandInv'
  BY <1>1, <1>2, <1>3, <1>4 DEF CommandInv, ProgramInv, Quiet
<1>6. WalletsInv'
  <2>1. wallets' = <<>>
    BY <1>1 DEF ProgramInv, WalletsInv
  <2>2. IsWallets(<<>>, made')
    BY NoWallets
  <2> QED
    BY <1>3, <2>1, <2>2 DEF WalletsInv
<1>7. TransferInv'
  BY <1>1, <1>3 DEF TransferInv
<1> QED
  BY <1>1, <1>5, <1>6, <1>7, QuietKeeps DEF ProgramInv


\* ReadWalletsFromFile finds the wallets of the file, or none if it fails.
LEMMA ReadKeeps == ProgramInv /\ (ReadWalletsFromFile \/ ReadFails) => ProgramInv'
<1> SUFFICES ASSUME ProgramInv, ReadWalletsFromFile \/ ReadFails PROVE ProgramInv'
  OBVIOUS
<1>1. /\ pc = "read" /\ pc' = cmd.op /\ cmd' = cmd /\ wallets = <<>>
      /\ cmd \in [op : {"createwallet", "listaddress"}] \cup Sending
      /\ made' = made /\ file' = file /\ reported' = reported
      /\ faults' = faults \/ (faults' = faults + 1 /\ faults < MaxFaults)
      /\ faults \in 0..MaxFaults /\ MaxFaults \in Nat /\ made \subseteq Key
  BY ProgramAssumption
     DEF ReadWalletsFromFile, ReadFails, process, history, ProgramInv, WalletsInv, CommandInv
<1>2. /\ pc' \in {"createwallet", "listaddress", "sendtx"} /\ cmd' # Nil
      /\ pc' = "sendtx" => cmd' \in Sending
  BY <1>1 DEF Sending, ProgramInv, CommandInv
<1>3. Readable' = Readable
  BY <1>1 DEF Readable
<1>4. wallets' = Readable \/ (wallets' = <<>> /\ faults' = faults + 1)
  BY <1>1 DEF ReadWalletsFromFile, ReadFails, process
<1>5. IsWallets(wallets', made')
  BY <1>1, <1>4, NoWallets, ReadableWallets DEF ReadableIs, ProgramInv
<1>6. CommandInv'
  BY <1>1, <1>2 DEF CommandInv
<1>7. WalletsInv'
  BY <1>1, <1>2, <1>3, <1>4, <1>5 DEF WalletsInv, Loaded
<1>8. TransferInv'
  BY <1>2 DEF TransferInv
<1>9. FileInv'
  BY <1>1, <1>3 DEF FileInv, ProgramInv
<1>10. ReportedInv'
  BY <1>1, <1>3 DEF ReportedInv, ProgramInv
<1> QED
  BY <1>6, <1>7, <1>8, <1>9, <1>10 DEF ProgramInv

\* A new key has a new address.
LEMMA CreateWalletRandomlyKeeps == ProgramInv /\ CreateWalletRandomly => ProgramInv'
<1> SUFFICES ASSUME ProgramInv, CreateWalletRandomly PROVE ProgramInv'
  OBVIOUS
<1>1. PICK key \in Key \ made :
        /\ wallets' = WithWallet(wallets, key)
        /\ made' = made \cup {key}
        /\ cmd' = [op |-> "createwallet", address |-> Address(key)]
  BY DEF CreateWalletRandomly
<1>2. /\ pc = "createwallet" /\ pc' = "save"
      /\ file' = file /\ reported' = reported /\ faults' = faults
      /\ made \subseteq Key /\ faults \in 0..MaxFaults
      /\ IsWallets(wallets, made) /\ Loaded(wallets)
  BY DEF CreateWalletRandomly, ProgramInv, CommandInv, WalletsInv
<1>3. made \subseteq made' /\ made' \subseteq Key /\ key \in made'
  BY <1>1, <1>2
<1>4. Readable' = Readable
  BY <1>2 DEF Readable
<1>5. Address(key) \notin DOMAIN wallets
  <2>1. \A k \in made : Address(k) # Address(key)
    BY <1>1, <1>2, AddressAssumption
  <2> QED
    BY <1>2, <2>1 DEF IsWallets
<1>6. IsWallets(wallets', made')
  <2>1. IsWallets(wallets, made')
    BY <1>2, <1>3, GridGrows
  <2> QED
    BY <1>1, <1>3, <1>5, <2>1, WalletAdded
<1>7. \E ws \in {Readable', <<>>} : Added(key, ws)'
  <2>1. PICK ws : ws = wallets
    OBVIOUS
  <2>2. ws \in {Readable', <<>>} /\ (ws = Readable' \/ (ws = <<>> /\ faults' > 0))
    BY <1>2, <1>4, <2>1 DEF Loaded
  <2>3. Added(key, ws)'
    BY <1>1, <1>5, <2>1, <2>2 DEF Added, Loaded
  <2> QED
    BY <2>2, <2>3
<1>8. WalletsInv'
  BY <1>2, <1>3, <1>4, <1>6, <1>7 DEF WalletsInv
<1>9. FileInv'
  <2>1. \A cells : Grid(cells, made) => Grid(cells, made')
    BY <1>3, GridGrows
  <2>2. \A cells : Sound(cells, made) => Sound(cells, made')
    BY <1>3, GridGrows
  <2> QED
    BY <1>2, <1>4, <2>1, <2>2 DEF FileInv, ProgramInv
<1>10. CommandInv'
  <2>1. cmd' # Nil
    <3>1. cmd' \in [op : {"createwallet"}, address : {Address(k) : k \in Key}]
      BY <1>1
    <3> QED
      BY <3>1, NilAssumption
  <2> QED
    BY <1>2, <1>3, <2>1 DEF CommandInv
<1>11. TransferInv'
  BY <1>2 DEF TransferInv
<1>12. ReportedInv'
  BY <1>2, <1>3, <1>4 DEF ReportedInv, ProgramInv, Addresses
<1> QED
  BY <1>8, <1>9, <1>10, <1>11, <1>12 DEF ProgramInv

\* The address that CreateWallet prints is in the file, unless a write failed.
LEMMA CreateWalletKeeps == ProgramInv /\ CreateWallet => ProgramInv'
<1> SUFFICES ASSUME ProgramInv, CreateWallet PROVE ProgramInv'
  OBVIOUS
<1>1. /\ pc \in {"saved", "unsaved"} /\ reported' = reported \cup {cmd.address}
      /\ Exit /\ file' = file /\ made' = made /\ faults' = faults
      /\ made \subseteq Key /\ faults \in 0..MaxFaults
      /\ IsWallets(wallets, made) /\ cmd.address \in DOMAIN wallets
      /\ pc = "saved" => file # Nil /\ Decoded(file) = wallets
      /\ pc = "unsaved" => faults > 0
  BY DEF CreateWallet, ProgramInv, CommandInv, WalletsInv
<1>2. Readable' = Readable
  BY <1>1 DEF Readable
<1>3. FileInv'
  BY <1>1, <1>2 DEF FileInv, ProgramInv
<1>4. reported' \subseteq Addresses(made')
  BY <1>1 DEF ReportedInv, ProgramInv, IsWallets, Addresses
<1>5. ASSUME faults' = 0 PROVE reported' \subseteq DOMAIN Readable'
  <2>1. pc = "saved" /\ faults = 0
    BY <1>1, <1>5
  <2>2. Readable = wallets
    BY <1>1, <2>1, ReadableDecoded DEF ProgramInv, FileInv
  <2> QED
    BY <1>1, <1>2, <2>1, <2>2 DEF ProgramInv, ReportedInv
<1>6. ReportedInv'
  BY <1>4, <1>5 DEF ReportedInv
<1> QED
  BY <1>1, <1>3, <1>6, ExitKeeps

-----------------------------------------------------------------------------
(* The save *)

\* The wallets of a process that is about to save: those of the file and one
\* more, or just one.
Ready(order) ==
    /\ order \in Seq(DOMAIN wallets)
    /\ Len(order) \in Nat \ {0} /\ Len(order) = Cardinality(DOMAIN wallets)
    /\ IsEncoding(Encoded(wallets, order), wallets, order)
    /\ Len(order) = 1 \/ (file # Nil /\ Len(file) >= 1 + 3 * (Len(order) - 1))
    /\ cmd.address \in DOMAIN wallets
    /\ faults = 0 => /\ reported \subseteq DOMAIN wallets
                     /\ file # Nil => Len(file) = 1 + 3 * (Len(order) - 1)
    /\ faults <= 1 => \A a \in DOMAIN wallets :
                        \E key \in made : a = Address(key) /\ wallets[a] = NewWallet(key)

\* The file has room for all but one of the wallets about to be saved, and no
\* more than that without failures.
LEMMA SaveReady ==
  ASSUME HashesAreBytes, ProgramInv, pc = "save", NEW order \in SetToSeqs(DOMAIN wallets)
  PROVE  Ready(order)
<1>1. PICK key \in made, ws \in {Readable, <<>>} : Added(key, ws)
  BY DEF ProgramInv, WalletsInv
<1>2. /\ made \subseteq Key /\ faults \in Nat /\ IsWallets(wallets, made) /\ ReadableIs(made)
  BY ReadableWallets, ProgramAssumption DEF ProgramInv, WalletsInv, CommandInv
<1>3. IsWallets(ws, made)
  BY <1>1, <1>2, NoWallets DEF ReadableIs
<1> DEFINE c == Cardinality(DOMAIN ws)
<1>4. /\ DOMAIN wallets = DOMAIN ws \cup {Address(key)}
      /\ Cardinality(DOMAIN wallets) = c + 1
      /\ wallets[Address(key)] = NewWallet(key)
      /\ \A a \in DOMAIN ws : wallets[a] = ws[a]
  <2>1. wallets = WithWallet(ws, key) /\ Address(key) \notin DOMAIN ws
    BY <1>1 DEF Added
  <2>2. IsOneMore(WithWallet(ws, key), ws, key)
    BY <1>1, <1>3, <2>1, WalletAdded
  <2> QED
    BY <2>1, <2>2 DEF IsOneMore
<1>5. c \in Nat
  BY <1>3, FS_CardinalityType DEF IsWallets
<1>6. /\ order \in Seq(DOMAIN wallets) /\ Len(order) = c + 1
  <2>1. order \in [1..c+1 -> DOMAIN wallets]
    BY <1>4 DEF SetToSeqs
  <2> HIDE DEF c
  <2> QED
    BY <1>5, <2>1
<1>7. IsEncoding(Encoded(wallets, order), wallets, order)
  <2>1. IsWallets(wallets, Key)
    BY <1>2, GridGrows
  <2> QED
    BY <1>6, <2>1, EncodedCells
<1>8. cmd.address \in DOMAIN wallets
  BY <1>1, <1>4 DEF Added
<1>9. ws = <<>> => c = 0
  BY NoWallets
<1>10. c = 0 \/ (file # Nil /\ Len(file) >= 1 + 3 * c)
  <2>1. CASE ws = <<>>
    BY <1>9, <2>1
  <2>2. CASE ws # <<>>
    <3>1. /\ file # Nil /\ Grid(file, made) /\ Decodable(file) /\ c <= file[1]
      BY <1>1, <1>2, <2>2 DEF ReadableIs
    <3>2. file[1] \in Nat /\ Len(file) \in Nat /\ Len(file) >= 1 + 3 * file[1]
      BY <3>1 DEF Grid, Decodable
    <3> HIDE DEF c
    <3> QED
      BY <1>5, <3>1, <3>2
  <2> QED
    BY <2>1, <2>2
<1>11. ASSUME faults = 0
       PROVE  /\ reported \subseteq DOMAIN wallets
              /\ file # Nil => Len(file) = 1 + 3 * c
  <2>1. ws = Readable
    BY <1>1, <1>11, <1>2 DEF Added, Loaded
  <2> QED
    BY <1>4, <1>11, <2>1 DEF ProgramInv, ReportedInv, FileInv
<1>12. ASSUME faults <= 1, NEW a \in DOMAIN wallets
       PROVE  \E k \in made : a = Address(k) /\ wallets[a] = NewWallet(k)
  <2>1. CASE a = Address(key)
    BY <1>4, <2>1
  <2>2. CASE a \in DOMAIN ws
    <3>1. ws = Readable \/ DOMAIN ws = {}
      BY <1>1
    <3> QED
      BY <1>2, <1>4, <1>12, <2>2, <3>1 DEF ReadableIs
  <2> QED
    BY <1>4, <2>1, <2>2
<1> HIDE DEF c
<1>13. Len(order) \in Nat \ {0} /\ Len(order) - 1 = c
  BY <1>5, <1>6
<1> QED
  BY <1>4, <1>6, <1>7, <1>8, <1>10, <1>11, <1>12, <1>13 DEF Ready, c

\* The cells of a whole write.
LEMMA WrittenWhole ==
  ASSUME HashesAreBytes, ProgramInv, pc = "save", NEW order \in SetToSeqs(DOMAIN wallets),
         NEW new, new = Overwritten(file, Encoded(wallets, order), Len(Encoded(wallets, order)))
  PROVE  /\ Grid(new, made) /\ Decodable(new) /\ Decoded(new) = wallets /\ new # Nil
         /\ faults <= 1 => Sound(new, made)
         /\ faults = 0 => Len(new) = 1 + 3 * new[1] /\ Cardinality(DOMAIN wallets) = new[1]
<1> DEFINE data == Encoded(wallets, order)
           N == Len(order)
<1>1. Ready(order)
  BY SaveReady
<1>2. /\ data \in Seq(Cell) /\ Len(data) = 1 + 3 * N /\ data[1] = N /\ N \in Nat \ {0}
      /\ \A i \in 1..N : IsEntry(data, i, order[i], wallets[order[i]])
      /\ N = Cardinality(DOMAIN wallets)
  BY <1>1 DEF Ready, IsEncoding
<1>3. file = Nil \/ Grid(file, made)
  BY DEF ProgramInv, FileInv
<1>4. IsWallets(wallets, made)
  BY DEF ProgramInv, WalletsInv
<1>5. Len(data) \in 0..Len(data)
  BY <1>2
<1>6. Grid(new, made)
  <2>1. PICK k \in 0..Len(data) : k = Len(data)
    BY <1>5
  <2>2. /\ order \in Seq(DOMAIN wallets) /\ Len(order) > 0 /\ IsEncoding(data, wallets, order)
        /\ Len(order) = 1 \/ (file # Nil /\ Len(file) >= 1 + 3 * (Len(order) - 1))
    BY <1>1 DEF Ready
  <2>3. new = Overwritten(file, data, k)
    BY <2>1
  <2> HIDE DEF data
  <2> QED
    BY <1>3, <1>4, <2>2, <2>3, GridOverwritten
<1>7. IsOverwritten(new, Old(file), data, Len(data))
  <2>1. file = Nil \/ file \in Seq(Cell)
    BY <1>3 DEF Grid
  <2> QED
    BY <1>2, <1>5, <2>1, OverwrittenCells
<1>8. Old(file) \in Seq(Cell) /\ Len(Old(file)) \in Nat
  BY <1>3 DEF Old, Grid
<1> HIDE DEF data
<1>9. /\ new \in Seq(Cell) /\ Len(new) >= 1 + 3 * N /\ Len(new) \in Nat
      /\ \A j \in 1..1+3*N : new[j] = data[j]
  <2>1. /\ new \in Seq(Cell)
        /\ Len(new) = IF 1 + 3 * N <= Len(Old(file)) THEN Len(Old(file)) ELSE 1 + 3 * N
        /\ \A j \in 1..Len(new) : new[j] = IF j <= 1 + 3 * N THEN data[j] ELSE Old(file)[j]
    BY <1>2, <1>7 DEF IsOverwritten
  <2>2. Len(new) >= 1 + 3 * N /\ Len(new) \in Nat
    BY <1>2, <1>8, <2>1
  <2>3. \A j \in 1..1+3*N : j \in 1..Len(new) /\ j <= 1 + 3 * N
    BY <1>2, <2>2
  <2> QED
    BY <2>1, <2>2, <2>3
<1>10. new[1] = N
  BY <1>2, <1>9
<1>11. Decodable(new)
  BY <1>2, <1>9, <1>10 DEF Decodable
<1>12. ASSUME NEW i \in 1..N PROVE IsEntry(new, i, order[i], wallets[order[i]])
  <2>1. 3*i - 1 \in 1..1+3*N /\ 3*i \in 1..1+3*N /\ 3*i + 1 \in 1..1+3*N
    BY <1>2
  <2> QED
    BY <1>2, <1>9, <2>1 DEF IsEntry
<1>13. Decoded(new) = wallets
  BY <1>4, <1>9, <1>10, <1>12, DecodedCells
<1>14. ASSUME faults <= 1 PROVE Sound(new, made)
  <2> SUFFICES ASSUME NEW i \in 1..N
               PROVE  \E key \in made : IsEntry(new, i, Address(key), NewWallet(key))
    BY <1>10 DEF Sound
  <2>1. order[i] \in DOMAIN wallets
    BY <1>1 DEF Ready
  <2>2. PICK key \in made : order[i] = Address(key) /\ wallets[order[i]] = NewWallet(key)
    BY <1>1, <1>14, <2>1 DEF Ready
  <2> QED
    BY <1>12, <2>2
<1>15. ASSUME faults = 0 PROVE Len(new) = 1 + 3 * N
  <2>1. CASE file = Nil
    <3>1. Len(Old(file)) = 0
      BY <2>1 DEF Old
    <3> QED
      BY <1>2, <1>7, <3>1 DEF IsOverwritten
  <2>2. CASE file # Nil
    <3>1. Len(Old(file)) = 1 + 3 * (N - 1)
      BY <1>1, <1>15, <2>2 DEF Old, Ready
    <3>2. ~(Len(data) <= Len(Old(file)))
      BY <1>2, <3>1
    <3> QED
      BY <1>2, <1>7, <3>2 DEF IsOverwritten
  <2> QED
    BY <2>1, <2>2
<1>16. new # Nil
  <2>1. new \in Seq(Int \cup Seq(Int))
    BY <1>9 DEF Cell
  <2> QED
    BY <2>1, NilAssumption
<1> QED
  BY <1>2, <1>6, <1>10, <1>11, <1>13, <1>14, <1>15, <1>16

\* A save that succeeds keeps the invariant.
LEMMA SaveWalletsToFileKeeps ==
  ASSUME HashesAreBytes PROVE ProgramInv /\ SaveWalletsToFile => ProgramInv'
<1> SUFFICES ASSUME ProgramInv, SaveWalletsToFile PROVE ProgramInv'
  OBVIOUS
<1>1. PICK order \in SetToSeqs(DOMAIN wallets) :
        file' = Overwritten(file, Encoded(wallets, order), Len(Encoded(wallets, order)))
  BY DEF SaveWalletsToFile
<1>2. /\ pc = "save" /\ pc' = "saved" /\ cmd' = cmd /\ wallets' = wallets
      /\ made' = made /\ reported' = reported /\ faults' = faults
      /\ made \subseteq Key /\ faults \in 0..MaxFaults /\ cmd # Nil
      /\ IsWallets(wallets, made)
  BY DEF SaveWalletsToFile, process, history, ProgramInv, CommandInv, WalletsInv
<1>3. /\ Grid(file', made) /\ Decodable(file') /\ Decoded(file') = wallets /\ file' # Nil
      /\ faults <= 1 => Sound(file', made)
      /\ faults = 0 => Len(file') = 1 + 3 * file'[1] /\ Cardinality(DOMAIN wallets) = file'[1]
  <2>1. PICK new : new = file'
    OBVIOUS
  <2>2. /\ Grid(new, made) /\ Decodable(new) /\ Decoded(new) = wallets /\ new # Nil
        /\ faults <= 1 => Sound(new, made)
        /\ faults = 0 => Len(new) = 1 + 3 * new[1] /\ Cardinality(DOMAIN wallets) = new[1]
    BY <1>1, <1>2, <2>1, WrittenWhole
  <2> QED
    BY <2>1, <2>2
<1>4. Readable' = wallets
  <2>1. Decoded(file') # Nil
    BY <1>2, <1>3, DecodedIsWallets
  <2> QED
    BY <1>3, <2>1 DEF Readable
<1>5. Ready(order)
  BY <1>2, SaveReady
<1>6. FileInv'
  BY <1>2, <1>3, <1>4 DEF FileInv
<1>7. WalletsInv'
  BY <1>2, <1>3, <1>5 DEF WalletsInv, Ready
<1>8. TransferInv'
  BY <1>2 DEF TransferInv
<1>9. CommandInv'
  BY <1>2 DEF CommandInv
<1>10. ReportedInv'
  BY <1>2, <1>4, <1>5 DEF ReportedInv, ProgramInv, Ready
<1> QED
  BY <1>6, <1>7, <1>8, <1>9, <1>10 DEF ProgramInv

\* A write that is cut short leaves the file as it was or too short for its
\* size, if it was whole.
LEMMA WrittenInPart ==
  ASSUME HashesAreBytes, ProgramInv, pc = "save", NEW order \in SetToSeqs(DOMAIN wallets),
         NEW k \in 0..Len(Encoded(wallets, order))-1,
         NEW new, new = Overwritten(file, Encoded(wallets, order), k)
  PROVE  /\ Grid(new, made)
         /\ faults = 0 /\ Decodable(new) => Sound(new, made)
<1> DEFINE data == Encoded(wallets, order)
           N == Len(order)
<1>1. Ready(order)
  BY SaveReady
<1>2. /\ data \in Seq(Cell) /\ Len(data) = 1 + 3 * N /\ data[1] = N /\ N \in Nat \ {0}
      /\ k \in 0..Len(data) /\ k < Len(data)
  BY <1>1 DEF Ready, IsEncoding
<1>3. file = Nil \/ Grid(file, made)
  BY DEF ProgramInv, FileInv
<1>4. IsWallets(wallets, made)
  BY DEF ProgramInv, WalletsInv
<1>5. Grid(new, made)
  <2>1. /\ order \in Seq(DOMAIN wallets) /\ Len(order) > 0 /\ IsEncoding(data, wallets, order)
        /\ Len(order) = 1 \/ (file # Nil /\ Len(file) >= 1 + 3 * (Len(order) - 1))
    BY <1>1 DEF Ready
  <2>2. new = Overwritten(file, data, k) /\ k \in 0..Len(data)
    BY <1>2
  <2> HIDE DEF data
  <2> QED
    BY <1>3, <1>4, <2>1, <2>2, GridOverwritten
<1>6. IsOverwritten(new, Old(file), data, k)
  <2>1. file = Nil \/ file \in Seq(Cell)
    BY <1>3 DEF Grid
  <2> QED
    BY <1>2, <2>1, OverwrittenCells
<1>7. Old(file) \in Seq(Cell) /\ Len(Old(file)) \in Nat
  BY <1>3 DEF Old, Grid
<1> HIDE DEF data
<1>8. ASSUME faults = 0, Decodable(new) PROVE Sound(new, made)
  <2>1. new \in Seq(Cell) /\ Len(new) \in Nat \ {0}
    BY <1>8, <1>6 DEF Decodable, IsOverwritten
  <2>2. CASE k = 0
    <3>1. new = Old(file)
      BY <1>6, <1>7, <2>1, <2>2 DEF IsOverwritten
    <3>2. file # Nil /\ new = file
      <4>1. new # <<>>
        BY <1>8 DEF Decodable
      <4> QED
        BY <3>1, <4>1 DEF Old
    <3> QED
      BY <1>8, <3>2 DEF ProgramInv, FileInv
  <2>3. CASE k # 0
    <3>1. new[1] = N
      BY <1>2, <1>6, <2>1, <2>3 DEF IsOverwritten
    <3>2. Len(Old(file)) < 1 + 3 * N
      <4>1. CASE file = Nil
        <5>1. Len(Old(file)) = 0
          BY <4>1 DEF Old
        <5> QED
          BY <1>2, <5>1
      <4>2. CASE file # Nil
        <5>1. Len(Old(file)) = 1 + 3 * (N - 1)
          BY <1>1, <1>8, <4>2 DEF Old, Ready
        <5> QED
          BY <1>2, <5>1
      <4> QED
        BY <4>1, <4>2
    <3>3. Len(new) < 1 + 3 * N
      BY <1>2, <1>6, <3>2 DEF IsOverwritten
    <3>4. Len(new) >= 1 + 3 * N
      BY <1>8, <3>1 DEF Decodable
    <3> QED
      BY <1>2, <2>1, <3>3, <3>4
  <2> QED
    BY <2>2, <2>3
<1> QED
  BY <1>5, <1>8

\* A save that fails keeps the invariant.
LEMMA SaveFailsKeeps ==
  ASSUME HashesAreBytes PROVE ProgramInv /\ SaveFails => ProgramInv'
<1> SUFFICES ASSUME ProgramInv, SaveFails PROVE ProgramInv'
  OBVIOUS
<1>1. PICK order \in SetToSeqs(DOMAIN wallets) :
        \E k \in 0..Len(Encoded(wallets, order))-1 :
          file' = Overwritten(file, Encoded(wallets, order), k)
  BY DEF SaveFails
<1>2. PICK k \in 0..Len(Encoded(wallets, order))-1 :
        file' = Overwritten(file, Encoded(wallets, order), k)
  BY <1>1
<1>3. /\ pc = "save" /\ made' = made /\ reported' = reported
      /\ faults' = faults + 1 /\ faults \in Nat /\ faults' \in 0..MaxFaults
      /\ made \subseteq Key /\ cmd # Nil /\ IsWallets(wallets, made)
  BY ProgramAssumption DEF SaveFails, history, ProgramInv, CommandInv, WalletsInv
<1>4. Grid(file', made) /\ (faults = 0 /\ Decodable(file') => Sound(file', made))
  <2>1. PICK new : new = file'
    OBVIOUS
  <2>2. Grid(new, made) /\ (faults = 0 /\ Decodable(new) => Sound(new, made))
    BY <1>2, <1>3, <2>1, WrittenInPart
  <2> QED
    BY <2>1, <2>2
<1>5. FileInv'
  <2>1. faults' # 0 /\ (faults' <= 1 => faults = 0)
    BY <1>3
  <2> QED
    BY <1>3, <1>4, <2>1 DEF FileInv
<1>6. ReportedInv'
  BY <1>3 DEF ReportedInv, ProgramInv
<1>7. CASE Exit
  BY <1>3, <1>5, <1>6, <1>7, ExitKeeps
<1>8. CASE pc' = "unsaved" /\ UNCHANGED process
  <2>1. Ready(order)
    BY <1>3, SaveReady
  <2>2. WalletsInv'
    BY <1>3, <1>8, <2>1 DEF WalletsInv, Ready, process
  <2>3. TransferInv'
    BY <1>8 DEF TransferInv
  <2>4. CommandInv'
    BY <1>3, <1>8 DEF CommandInv, process
  <2> QED
    BY <1>5, <1>6, <2>2, <2>3, <2>4 DEF ProgramInv
<1> QED
  BY <1>7, <1>8 DEF SaveFails

-----------------------------------------------------------------------------
(* The search for a nonce *)

\* While the loop of POW.Run turns, the nonces it has passed are no proofs of
\* work.
Searching ==
    pc = "mine" =>
        /\ block = [header |-> block.header, nonce |-> block.nonce, hash |-> block.hash]
        /\ block.nonce \in 0..MaxNonce
        /\ \A n \in 0..MaxNonce : n < block.nonce => ~Validate(block.header, n)

\* The commands that begin with the wallet file do not search.
Reading == pc = "read" => cmd.op \in {"createwallet", "listaddress", "sendtx"}

MineInv == Reading /\ Searching /\ MinedNonce

\* A process that ends leaves no search behind.
LEMMA ExitStops == Exit => MineInv'
  BY DEF Exit, MineInv, Reading, Searching, MinedNonce

\* A step to none of the three places that MineInv is about keeps it.
LEMMA ElsewhereStops == pc' \notin {"read", "mine", "mined"} => MineInv'
  BY DEF MineInv, Reading, Searching, MinedNonce

\* NewBlock starts with the first nonce.
LEMMA NewBlockSearches == NewBlock => MineInv'
<1> SUFFICES ASSUME NewBlock PROVE MineInv'
  OBVIOUS
<1>1. pc' = "mine" /\ block' = [header |-> cmd.header, nonce |-> 0, hash |-> Nil]
  BY DEF NewBlock
<1>2. Searching'
  BY <1>1, ProgramAssumption DEF Searching
<1> QED
  BY <1>1, <1>2 DEF MineInv, Reading, MinedNonce

\* A round of the loop ends it at the first proof of work, or passes a nonce
\* that is none.
LEMMA TrySearches == MineInv /\ Try => MineInv'
<1> SUFFICES ASSUME MineInv, Try PROVE MineInv'
  OBVIOUS
<1> DEFINE header == block.header
           nonce  == block.nonce
           hash   == HashWith(header, nonce)
<1>1. /\ pc = "mine" /\ nonce \in 0..MaxNonce-1 /\ MaxNonce \in Nat
      /\ block = [header |-> header, nonce |-> nonce, hash |-> block.hash]
      /\ \A n \in 0..MaxNonce : n < nonce => ~Validate(header, n)
  BY ProgramAssumption DEF MineInv, Searching, Try
<1>2. Validate(header, nonce) <=> MeetsTarget(hash)
  BY DEF Validate
<1>3. CASE MeetsTarget(hash)
  <2>1. block' = [block EXCEPT !.hash = hash] /\ pc' = "mined"
    BY <1>3 DEF Try
  <2>2. block'.header = header /\ block'.nonce = nonce /\ block'.hash = hash
    BY <1>1, <2>1
  <2>3. \A n \in 0..MaxNonce-1 : Validate(header, n) => nonce <= n
    BY <1>1
  <2>4. MinedNonce'
    BY <1>1, <1>2, <1>3, <2>2, <2>3 DEF MinedNonce
  <2>5. Searching'
    BY <2>1 DEF Searching
  <2> QED
    BY <2>1, <2>4, <2>5 DEF MineInv, Reading
<1>4. CASE ~MeetsTarget(hash)
  <2>1. block' = [block EXCEPT !.hash = hash, !.nonce = nonce + 1] /\ pc' = "mine"
    BY <1>4 DEF Try
  <2>2. block' = [header |-> header, nonce |-> nonce + 1, hash |-> hash]
    BY <1>1, <2>1
  <2>3. \A n \in 0..MaxNonce : n < nonce + 1 => ~Validate(header, n)
    BY <1>1, <1>2, <1>4
  <2>4. Searching'
    BY <1>1, <2>2, <2>3 DEF Searching
  <2>5. MinedNonce'
    BY <2>1 DEF MinedNonce
  <2> QED
    BY <2>1, <2>4, <2>5 DEF MineInv, Reading
<1> QED
  BY <1>3, <1>4

\* The search gives up only after every nonce.
LEMMA ExhaustedSearches == MineInv /\ Exhausted => MineInv'
<1> SUFFICES ASSUME MineInv, Exhausted PROVE MineInv'
  OBVIOUS
<1>1. /\ pc = "mine" /\ block.nonce \in 0..MaxNonce /\ block.nonce >= MaxNonce
      /\ \A n \in 0..MaxNonce : n < block.nonce => ~Validate(block.header, n)
      /\ MaxNonce \in Nat
  BY ProgramAssumption DEF MineInv, Searching, Exhausted
<1>2. block' = block /\ pc' = "mined"
  BY DEF Exhausted, process
<1>3. block.nonce = MaxNonce /\ {n \in 0..MaxNonce-1 : Validate(block.header, n)} = {}
  BY <1>1
<1>4. MinedNonce'
  BY <1>2, <1>3 DEF MinedNonce
<1>5. Searching'
  BY <1>2 DEF Searching
<1> QED
  BY <1>2, <1>4, <1>5 DEF MineInv, Reading

-----------------------------------------------------------------------------

\* The nonce search keeps its invariant in every step of a process, killed or
\* not.
LEMMA NextSearches == MineInv /\ [Next]_vars => MineInv'
<1> SUFFICES ASSUME MineInv, [Next]_vars PROVE MineInv'
  OBVIOUS
<1>1. CASE UNCHANGED vars
  BY <1>1 DEF vars, process, MineInv, Reading, Searching, MinedNonce
<1>2. CASE Run
  <2>1. PICK c \in Commands :
          /\ cmd' = c
          /\ pc' = IF c.op \in {"createwallet", "listaddress", "sendtx"} THEN "read" ELSE c.op
    BY <1>2 DEF Run
  <2>2. c.op \in {"createwallet", "listaddress", "sendtx", "getbalance", "startnode",
                  "addblock"}
    BY DEF Commands
  <2> QED
    BY <2>1, <2>2 DEF MineInv, Reading, Searching, MinedNonce
<1>3. CASE Crash
  BY <1>3, ExitStops DEF Crash
<1>4. CASE ReadWalletsFromFile \/ ReadFails
  <2>1. pc' \in {"createwallet", "listaddress", "sendtx"}
    BY <1>4 DEF ReadWalletsFromFile, ReadFails, MineInv, Reading
  <2> QED
    BY <2>1, ElsewhereStops
<1>5. CASE CreateWalletRandomly
  BY <1>5, ElsewhereStops DEF CreateWalletRandomly
<1>6. CASE SaveWalletsToFile \/ SaveFails
  BY <1>6, ElsewhereStops DEF SaveWalletsToFile, SaveFails, Exit
<1>7. CASE CreateWallet \/ return
  BY <1>7, ExitStops DEF CreateWallet, return
<1>8. CASE GetWallet \/ LockAddress \/ sign
  BY <1>8, ElsewhereStops DEF GetWallet, LockAddress, sign, Exit
<1>9. CASE Verify \/ GetBalance \/ startnode
  BY <1>9, ElsewhereStops DEF Verify, GetBalance, startnode, Exit
<1>10. CASE NewBlock
  BY <1>10, NewBlockSearches
<1>11. CASE Try
  BY <1>11, TrySearches
<1>12. CASE Exhausted
  BY <1>12, ExhaustedSearches
<1> QED
  BY <1>1, <1>2, <1>3, <1>4, <1>5, <1>6, <1>7, <1>8, <1>9, <1>10, <1>11, <1>12 DEF Next


-----------------------------------------------------------------------------
(* The other commands *)

\* GetWallet takes a wallet of the file.
LEMMA GetWalletKeeps == ProgramInv /\ GetWallet => ProgramInv'
<1> SUFFICES ASSUME ProgramInv, GetWallet PROVE ProgramInv'
  OBVIOUS
<1>1. Quiet /\ pc = "sendtx"
  BY DEF GetWallet, Quiet, history
<1>2. CASE Exit
  BY <1>1, <1>2, QuietExitKeeps
<1>3. CASE ~Exit
  <2>1. /\ cmd.from \in DOMAIN wallets /\ transfer' = [wallet |-> wallets[cmd.from]]
        /\ pc' = "lock" /\ cmd' = cmd /\ wallets' = wallets
    BY <1>3 DEF GetWallet
  <2>2. /\ made \subseteq Key /\ faults \in 0..MaxFaults /\ cmd # Nil /\ cmd \in Sending
        /\ IsWallets(wallets, made) /\ Loaded(wallets)
    BY <1>1 DEF ProgramInv, CommandInv, WalletsInv, TransferInv
  <2>3. CommandInv'
    BY <1>1, <2>1, <2>2 DEF CommandInv, Quiet
  <2>4. Loaded(wallets)'
    BY <1>1, <2>1, <2>2 DEF Loaded, Quiet, Readable
  <2>5. WalletsInv'
    BY <1>1, <2>1, <2>2, <2>4 DEF WalletsInv, Quiet
  <2>6. TransferInv'
    BY <2>1, <2>2 DEF TransferInv
  <2> QED
    BY <1>1, <2>3, <2>5, <2>6, QuietKeeps DEF ProgramInv
<1> QED
  BY <1>2, <1>3

\* LockAddress locks the change to the address of the sender.
LEMMA LockAddressKeeps == ProgramInv /\ LockAddress => ProgramInv'
<1> SUFFICES ASSUME ProgramInv, LockAddress PROVE ProgramInv'
  OBVIOUS
<1>1. Quiet /\ pc = "lock"
  BY DEF LockAddress, Quiet, history
<1>2. CASE Exit
  BY <1>1, <1>2, QuietExitKeeps
<1>3. CASE ~Exit
  <2>1. /\ transfer' = [wallet |-> transfer.wallet,
                        out    |-> AddressToPubkeyHash(cmd.to),
                        change |-> AddressToPubkeyHash(cmd.from)]
        /\ pc' = "sign" /\ cmd' = cmd /\ wallets' = wallets
    BY <1>3 DEF LockAddress
  <2>2. /\ made \subseteq Key /\ faults \in 0..MaxFaults /\ cmd # Nil /\ cmd \in Sending
        /\ IsWallets(wallets, made) /\ Loaded(wallets)
        /\ cmd.from \in DOMAIN wallets /\ transfer.wallet = wallets[cmd.from]
    BY <1>1 DEF ProgramInv, CommandInv, WalletsInv, TransferInv
  <2>3. CommandInv'
    BY <1>1, <2>1, <2>2 DEF CommandInv, Quiet
  <2>4. Loaded(wallets)'
    BY <1>1, <2>1, <2>2 DEF Loaded, Quiet, Readable
  <2>5. WalletsInv'
    BY <1>1, <2>1, <2>2, <2>4 DEF WalletsInv, Quiet
  <2>6. TransferInv'
    BY <2>1, <2>2 DEF TransferInv
  <2> QED
    BY <1>1, <2>3, <2>5, <2>6, QuietKeeps DEF ProgramInv
<1> QED
  BY <1>2, <1>3

\* sign joins the two numbers of a signature.
LEMMA SignKeeps == ProgramInv /\ sign => ProgramInv'
<1> SUFFICES ASSUME ProgramInv, sign PROVE ProgramInv'
  OBVIOUS
<1>1. /\ Quiet /\ pc = "sign"
      /\ pc' = "verify" /\ cmd' = cmd /\ wallets' = wallets
  BY DEF sign, Quiet, history
<1>2. PICK pair \in Signatures :
        transfer' = [wallet |-> transfer.wallet, out |-> transfer.out,
                     change |-> transfer.change, pair |-> pair, signature |-> Join(pair)]
  BY DEF sign
<1>3. /\ made \subseteq Key /\ faults \in 0..MaxFaults /\ cmd # Nil /\ cmd \in Sending
      /\ IsWallets(wallets, made) /\ Loaded(wallets)
      /\ cmd.from \in DOMAIN wallets /\ transfer.wallet = wallets[cmd.from]
      /\ transfer.change = AddressToPubkeyHash(cmd.from)
  BY <1>1 DEF ProgramInv, CommandInv, WalletsInv, TransferInv
<1>4. CommandInv'
  BY <1>1, <1>3 DEF CommandInv, Quiet
<1>5. Loaded(wallets)'
  BY <1>1, <1>3 DEF Loaded, Quiet, Readable
<1>6. WalletsInv'
  BY <1>1, <1>3, <1>5 DEF WalletsInv, Quiet
<1>7. TransferInv'
  BY <1>1, <1>2, <1>3 DEF TransferInv
<1> QED
  BY <1>1, <1>4, <1>6, <1>7, QuietKeeps DEF ProgramInv

\* Verify, GetBalance and startnode let the process go on, or end it.
LEMMA ChecksKeep == ProgramInv /\ (Verify \/ GetBalance \/ startnode) => ProgramInv'
<1> SUFFICES ASSUME ProgramInv, Verify \/ GetBalance \/ startnode PROVE ProgramInv'
  OBVIOUS
<1>1. Quiet /\ pc \in {"verify", "getbalance", "startnode"}
  BY DEF Verify, GetBalance, startnode, Quiet, history
<1>2. CASE Exit
  BY <1>1, <1>2, QuietExitKeeps
<1>3. CASE ~Exit
  <2>1. pc' \in {"database", "serving"} /\ cmd' = cmd /\ wallets' = wallets
    BY <1>3 DEF Verify, GetBalance, startnode, process
  <2>2. /\ made \subseteq Key /\ faults \in 0..MaxFaults /\ cmd # Nil
        /\ IsWallets(wallets, made)
    BY <1>1 DEF ProgramInv, CommandInv, WalletsInv
  <2>3. CommandInv'
    BY <1>1, <2>1, <2>2 DEF CommandInv, Quiet
  <2>4. WalletsInv'
    BY <1>1, <2>1, <2>2 DEF WalletsInv, Quiet
  <2>5. TransferInv'
    BY <2>1 DEF TransferInv
  <2> QED
    BY <1>1, <2>3, <2>4, <2>5, QuietKeeps DEF ProgramInv
<1> QED
  BY <1>2, <1>3

\* A block is mined for a header of its command.
LEMMA NewBlockKeeps == ProgramInv /\ NewBlock => ProgramInv'
<1> SUFFICES ASSUME ProgramInv, NewBlock PROVE ProgramInv'
  OBVIOUS
<1>1. /\ Quiet /\ pc = "addblock" /\ pc' = "mine" /\ cmd' = cmd /\ wallets' = wallets
      /\ block' = [header |-> cmd.header, nonce |-> 0, hash |-> Nil]
  BY DEF NewBlock, Quiet, history
<1>2. /\ made \subseteq Key /\ faults \in 0..MaxFaults /\ cmd # Nil
      /\ cmd \in [op : {"addblock"}, header : Header] /\ IsWallets(wallets, made)
  BY <1>1 DEF ProgramInv, CommandInv, WalletsInv
<1>3. block'.header \in Header
  BY <1>1, <1>2
<1>4. CommandInv'
  BY <1>1, <1>2, <1>3 DEF CommandInv, Quiet
<1>5. WalletsInv'
  BY <1>1, <1>2 DEF WalletsInv, Quiet
<1>6. TransferInv'
  BY <1>1 DEF TransferInv
<1> QED
  BY <1>1, <1>4, <1>5, <1>6, QuietKeeps DEF ProgramInv

\* The rounds of the search leave the header as it is.
LEMMA MineKeeps == ProgramInv /\ MineInv /\ (Try \/ Exhausted) => ProgramInv'
<1> SUFFICES ASSUME ProgramInv, MineInv, Try \/ Exhausted PROVE ProgramInv'
  OBVIOUS
<1>1. /\ Quiet /\ pc = "mine" /\ pc' \in {"mine", "mined"} /\ cmd' = cmd /\ wallets' = wallets
  BY DEF Try, Exhausted, Quiet, history, process
<1>2. /\ made \subseteq Key /\ faults \in 0..MaxFaults /\ cmd # Nil
      /\ block.header \in Header /\ IsWallets(wallets, made)
  BY <1>1 DEF ProgramInv, CommandInv, WalletsInv
<1>3. block'.header = block.header
  <2>1. block = [header |-> block.header, nonce |-> block.nonce, hash |-> block.hash]
    BY <1>1 DEF MineInv, Searching
  <2>2. CASE Exhausted
    BY <2>2 DEF Exhausted, process
  <2>3. CASE Try
    <3>1. PICK h, n, x : block = [header |-> h, nonce |-> n, hash |-> x]
      BY <2>1
    <3>2. PICK hash : \/ block' = [block EXCEPT !.hash = hash]
                      \/ block' = [block EXCEPT !.hash = hash, !.nonce = @ + 1]
      BY <2>3 DEF Try
    <3> QED
      BY <3>1, <3>2
  <2> QED
    BY <2>2, <2>3
<1>4. CommandInv'
  BY <1>1, <1>2, <1>3 DEF CommandInv, Quiet
<1>5. WalletsInv'
  BY <1>1, <1>2 DEF WalletsInv, Quiet
<1>6. TransferInv'
  BY <1>1 DEF TransferInv
<1> QED
  BY <1>1, <1>4, <1>5, <1>6, QuietKeeps DEF ProgramInv

\* The wallet file and what is made of it keep their invariant in every step
\* of a process, killed or not.
LEMMA NextKeeps ==
  ASSUME HashesAreBytes PROVE ProgramInv /\ MineInv /\ [Next]_vars => ProgramInv'
<1> SUFFICES ASSUME ProgramInv, MineInv, [Next]_vars PROVE ProgramInv'
  OBVIOUS
<1>1. CASE UNCHANGED vars
  <2>1. Quiet /\ pc' = pc /\ cmd' = cmd /\ wallets' = wallets /\ transfer' = transfer
        /\ block' = block
    BY <1>1 DEF vars, process, history, Quiet
  <2>2. WalletsInv'
    BY <2>1 DEF WalletsInv, ProgramInv, Quiet, Loaded, Added, Readable
  <2>3. TransferInv' /\ CommandInv'
    BY <2>1 DEF TransferInv, CommandInv, ProgramInv, Quiet
  <2> QED
    BY <2>1, <2>2, <2>3, QuietKeeps DEF ProgramInv
<1>2. CASE Run
  BY <1>2, RunKeeps
<1>3. CASE Crash \/ return
  <2>1. Quiet /\ Exit
    BY <1>3 DEF Crash, return, Quiet, history
  <2> QED
    BY <2>1, QuietExitKeeps
<1>4. CASE ReadWalletsFromFile \/ ReadFails
  BY <1>4, ReadKeeps
<1>5. CASE CreateWalletRandomly
  BY <1>5, CreateWalletRandomlyKeeps
<1>6. CASE SaveWalletsToFile
  BY <1>6, SaveWalletsToFileKeeps
<1>7. CASE SaveFails
  BY <1>7, SaveFailsKeeps
<1>8. CASE CreateWallet
  BY <1>8, CreateWalletKeeps
<1>9. CASE GetWallet
  BY <1>9, GetWalletKeeps
<1>10. CASE LockAddress
  BY <1>10, LockAddressKeeps
<1>11. CASE sign
  BY <1>11, SignKeeps
<1>12. CASE Verify \/ GetBalance \/ startnode
  BY <1>12, ChecksKeep
<1>13. CASE NewBlock
  BY <1>13, NewBlockKeeps
<1>14. CASE Try \/ Exhausted
  BY <1>14, MineKeeps
<1> QED
  BY <1>1, <1>2, <1>3, <1>4, <1>5, <1>6, <1>7, <1>8, <1>9, <1>10, <1>11, <1>12, <1>13, <1>14
     DEF Next

\* The invariants hold before the first process.
LEMMA InitHolds == Init => ProgramInv /\ MineInv
<1> SUFFICES ASSUME Init PROVE ProgramInv /\ MineInv
  OBVIOUS
<1>1. /\ file = Nil /\ pc = "idle" /\ cmd = Nil /\ wallets = <<>>
      /\ made = {} /\ reported = {} /\ faults = 0
  BY DEF Init
<1>2. FileInv /\ TransferInv /\ ReportedInv
  BY <1>1 DEF FileInv, TransferInv, ReportedInv
<1>3. WalletsInv
  BY <1>1, NoWallets DEF WalletsInv
<1>4. CommandInv
  BY <1>1, ProgramAssumption DEF CommandInv
<1>5. MineInv
  BY <1>1 DEF MineInv, Reading, Searching, MinedNonce
<1> QED
  BY <1>2, <1>3, <1>4, <1>5 DEF ProgramInv

\* The invariants hold in every state.
LEMMA ProgramInvariant ==
  ASSUME HashesAreBytes PROVE Spec => [](ProgramInv /\ MineInv)
  BY InitHolds, NextKeeps, NextSearches, PTL DEF Spec

-----------------------------------------------------------------------------
(* What the theorems need of joined numbers, headers and typed text *)

\* The middle of two joined numbers is where they meet exactly if their
\* lengths match.
LEMMA HalvesOfJoin ==
  ASSUME NEW pair \in Nat \X Nat
  PROVE  Halves(Join(pair)) = pair <=> Aligned(pair)
<1>1. PICK x \in Nat, y \in Nat : pair = <<x, y>>
  OBVIOUS
<1> DEFINE a == Bytes(x)
           b == Bytes(y)
           s == a \o b
           half == Len(s) \div 2
           left == SubSeq(s, 1, half)
           right == SubSeq(s, half + 1, Len(s))
<1>2. /\ a \in Seq(Byte) /\ Value(Radix, a) = x /\ NoZeroFirst(a)
      /\ b \in Seq(Byte) /\ Value(Radix, b) = y /\ NoZeroFirst(b)
  BY BytesInSeq
<1>3. Join(pair) = s
  BY <1>1 DEF Join
<1>4. Halves(Join(pair)) = <<Value(Radix, left), Value(Radix, right)>>
  BY <1>3, SetBytesValue DEF Halves
<1>5. Aligned(pair) <=> Len(b) - Len(a) \in {0, 1}
  BY <1>1 DEF Aligned
<1> HIDE DEF a, b
<1>6. /\ s \in Seq(Byte) /\ Len(s) = Len(a) + Len(b) /\ Len(a) \in Nat /\ Len(b) \in Nat
      /\ SubSeq(s, 1, Len(a)) = a /\ SubSeq(s, Len(a) + 1, Len(a) + Len(b)) = b
      /\ \A i \in 1..Len(a)+Len(b) : s[i] = IF i <= Len(a) THEN a[i] ELSE b[i - Len(a)]
  BY <1>2, ConcatCut, ConcatProperties
<1> HIDE DEF s
<1>7. Aligned(pair) <=> half = Len(a)
  <2>1. PICK m \in Nat, n \in Nat : m = Len(a) /\ n = Len(b)
    BY <1>6
  <2>2. half = (m + n) \div 2
    BY <1>6, <2>1
  <2>3. (m + n) \div 2 = m <=> n - m \in {0, 1}
    OBVIOUS
  <2> QED
    BY <1>5, <2>1, <2>2, <2>3
<1>8. ASSUME half = Len(a) PROVE Value(Radix, left) = x /\ Value(Radix, right) = y
  <2>1. left = a /\ right = b
    BY <1>6, <1>8
  <2> QED
    BY <1>2, <2>1
<1>9. ASSUME Value(Radix, left) = x PROVE half = Len(a)
  <2>1. half \in 0..Len(s)
    BY <1>6
  <2> HIDE DEF half
  <2>2. left \in Seq(Byte) /\ Len(left) = half /\ (half > 0 => left[1] = s[1])
    BY <1>6, <2>1
  <2>3. ASSUME half > 0 PROVE s[1] # 0
    <3>1. 1 \in 1..Len(a)+Len(b)
      BY <1>6, <2>1, <2>3
    <3>2. CASE Len(a) > 0
      <4>1. a # <<>> /\ s[1] = a[1]
        BY <1>6, <3>1, <3>2
      <4> QED
        BY <1>2, <4>1 DEF NoZeroFirst
    <3>3. CASE Len(a) = 0
      <4>1. b # <<>> /\ s[1] = b[1]
        BY <1>6, <3>1, <3>3
      <4> QED
        BY <1>2, <4>1 DEF NoZeroFirst
    <3> QED
      BY <1>6, <3>2, <3>3
  <2>4. NoZeroFirst(left)
    BY <2>1, <2>2, <2>3 DEF NoZeroFirst
  <2> HIDE DEF left
  <2>5. left = a
    BY <1>2, <1>9, <2>2, <2>4, Bases, ValueInjective DEF Byte
  <2> QED
    BY <2>2, <2>5
<1> HIDE DEF left, right, half
<1> QED
  BY <1>1, <1>4, <1>7, <1>8, <1>9

\* Words are long enough for 1.
LEMMA WordsHold ==
  /\ Power(Radix, WordLength) \in Nat
  /\ 0 \in 0..Power(Radix, WordLength)-1 /\ 1 \in 0..Power(Radix, WordLength)-1
<1>1. WordLength \in Nat \ {0} /\ Radix \in Base /\ Radix \in Nat /\ Radix > 1
  BY EncodingAssumption, Bases
<1>2. PICK power : /\ power[0] = 1
                   /\ \A j \in 1..WordLength : power[j] = Radix * power[j - 1]
                   /\ Power(Radix, WordLength) = power[WordLength]
  BY <1>1, PowerRun
<1> DEFINE T == {j \in Nat : j \in 0..WordLength => power[j] \in Nat \ {0}}
<1>3. 0 \in T
  BY <1>2
<1>4. ASSUME NEW j \in Nat, j \in T PROVE j + 1 \in T
  <2> SUFFICES ASSUME j + 1 \in 0..WordLength PROVE power[j + 1] \in Nat \ {0}
    OBVIOUS
  <2>1. j \in 0..WordLength /\ j + 1 \in 1..WordLength /\ (j + 1) - 1 = j
    BY <1>1
  <2>2. power[j] \in Nat \ {0} /\ power[j + 1] = Radix * power[j]
    BY <1>2, <1>4, <2>1
  <2> QED
    BY <1>1, <2>2
<1> HIDE DEF T
<1>5. WordLength - 1 \in T
  BY <1>1, <1>3, <1>4, NatInduct
<1>6. power[WordLength - 1] \in Nat \ {0} /\ power[WordLength] = Radix * power[WordLength - 1]
  <2>1. WordLength - 1 \in 0..WordLength /\ WordLength \in 1..WordLength
    BY <1>1
  <2> QED
    BY <1>2, <1>5, <2>1 DEF T
<1>7. power[WordLength] \in Nat /\ power[WordLength] > 1
  BY <1>1, <1>6
<1> QED
  BY <1>2, <1>7

\* The fields of a header and the nonce can be taken out of the bytes again.
LEMMA HeaderTakenApart ==
  ASSUME NEW h1 \in Header, NEW n1 \in 0..MaxNonce, NEW h2 \in Header, NEW n2 \in 0..MaxNonce,
         ConvertData2Bytes(h1, n1) = ConvertData2Bytes(h2, n2)
  PROVE  h1 = h2 /\ n1 = n2
<1> DEFINE W(n) == Uint64ToBytesBigEndian(n)
           limit == Power(Radix, WordLength)
           a(h) == W(1) \o h.prev
           b(h) == a(h) \o W(h.time)
           c(h) == b(h) \o W(0)
<1>1. \A n \in 0..limit-1 : W(n) \in Seq(Byte) /\ Len(W(n)) = WordLength /\ Value(Radix, W(n)) = n
  BY WordHasValue
<1>2. /\ limit \in Nat /\ n1 \in 0..limit-1 /\ n2 \in 0..limit-1
      /\ 0 \in 0..limit-1 /\ 1 \in 0..limit-1
  BY WordsHold, ProgramAssumption
<1>3. \A h \in Header : /\ h = [prev |-> h.prev, time |-> h.time]
                        /\ h.prev \in Seq(Byte) /\ h.time \in 0..limit-1
  BY ProgramAssumption DEF Byte, Digit
<1>4. \A h, n : ConvertData2Bytes(h, n) = c(h) \o W(n)
  BY DEF ConvertData2Bytes
<1> HIDE DEF W, limit
<1>5. \A h \in Header : /\ a(h) \in Seq(Byte) /\ b(h) \in Seq(Byte) /\ c(h) \in Seq(Byte)
                        /\ Len(a(h)) = WordLength + Len(h.prev)
  <2> TAKE h \in Header
  <2>1. W(1) \in Seq(Byte) /\ h.prev \in Seq(Byte) /\ Len(W(1)) = WordLength
    BY <1>1, <1>2, <1>3
  <2>2. a(h) \in Seq(Byte) /\ Len(a(h)) = WordLength + Len(h.prev)
    BY <2>1, ConcatProperties
  <2>3. W(h.time) \in Seq(Byte) /\ W(0) \in Seq(Byte)
    BY <1>1, <1>2, <1>3
  <2> HIDE DEF a
  <2>4. b(h) \in Seq(Byte)
    BY <2>2, <2>3, ConcatProperties
  <2> HIDE DEF b
  <2>5. c(h) \in Seq(Byte)
    BY <2>4, <2>3, ConcatProperties
  <2> QED
    BY <2>2, <2>4, <2>5
<1>6. \A s, t, u, v \in Seq(Byte) : s \o t = u \o v /\ Len(t) = Len(v) => s = u /\ t = v
  BY ConcatInjective
<1>7. c(h1) = c(h2) /\ W(n1) = W(n2)
  <2>1. PICK s \in Seq(Byte), t \in Seq(Byte), u \in Seq(Byte), v \in Seq(Byte) :
          s = c(h1) /\ t = W(n1) /\ u = c(h2) /\ v = W(n2)
    BY <1>1, <1>2, <1>5
  <2>2. s \o t = u \o v /\ Len(t) = Len(v)
    BY <1>1, <1>2, <1>4, <2>1
  <2>3. s = u /\ t = v
    BY <1>6, <2>2, ZenonT(40)
  <2> QED
    BY <2>1, <2>3
<1>8. b(h1) = b(h2)
  <2>1. PICK s \in Seq(Byte), t \in Seq(Byte), u \in Seq(Byte) :
          s = b(h1) /\ t = W(0) /\ u = b(h2)
    BY <1>1, <1>2, <1>5
  <2>2. s \o t = u \o t
    BY <1>7, <2>1
  <2>3. s = u
    BY <1>6, <2>2
  <2> QED
    BY <2>1, <2>3
<1>9. a(h1) = a(h2) /\ W(h1.time) = W(h2.time)
  <2>1. PICK s \in Seq(Byte), t \in Seq(Byte), u \in Seq(Byte), v \in Seq(Byte) :
          s = a(h1) /\ t = W(h1.time) /\ u = a(h2) /\ v = W(h2.time)
    BY <1>1, <1>2, <1>3, <1>5
  <2>2. s \o t = u \o v /\ Len(t) = Len(v)
    BY <1>1, <1>2, <1>3, <1>8, <2>1
  <2>3. s = u /\ t = v
    BY <1>6, <2>2, ZenonT(40)
  <2> QED
    BY <2>1, <2>3
<1>10. h1.prev = h2.prev
  <2>1. /\ h1.prev \in Seq(Byte) /\ h2.prev \in Seq(Byte) /\ W(1) \in Seq(Byte)
        /\ Len(W(1)) = WordLength /\ WordLength \in Nat
    BY <1>1, <1>2, <1>3, EncodingAssumption
  <2>2. Len(a(h1)) = WordLength + Len(h1.prev) /\ Len(a(h2)) = WordLength + Len(h2.prev)
    BY <1>5
  <2>3. Len(h1.prev) = Len(h2.prev)
    <3> HIDE DEF a
    <3>1. Len(h1.prev) \in Nat /\ Len(h2.prev) \in Nat
      BY <2>1
    <3> QED
      BY <1>9, <2>1, <2>2, <3>1
  <2>4. W(1) \o h1.prev = W(1) \o h2.prev
    BY <1>9
  <2> QED
    BY <1>6, <2>1, <2>3, <2>4
<1>11. h1.time = h2.time /\ n1 = n2
  BY <1>1, <1>2, <1>3, <1>7, <1>9
<1> QED
  BY <1>3, <1>10, <1>11

-----------------------------------------------------------------------------
(* Theorems *)

\* Every variable has its type.
THEOREM TypeCorrect == ASSUME HashesAreBytes PROVE Spec => []TypeOK
<1>1. ProgramInv /\ MineInv => TypeOK
  <2> SUFFICES ASSUME ProgramInv, MineInv PROVE TypeOK
    OBVIOUS
  <2>1. /\ IsWallets(wallets, made) /\ made \subseteq Key
    BY DEF ProgramInv, WalletsInv, CommandInv
  <2>2. file = Nil \/ file = <<>> \/ file[1] \in 1..Len(file)
    BY DEF ProgramInv, FileInv, Grid
  <2>3. \A a \in DOMAIN wallets : wallets[a].private \in made
    BY <2>1 DEF IsWallets
  <2>4. pc \in {"lock", "sign", "verify"} => transfer.wallet \in Range(wallets)
    BY DEF ProgramInv, TransferInv, Range
  <2>5. pc \in {"mine", "mined"} => block.nonce \in 0..MaxNonce
    <3>1. MaxNonce \in Nat
      BY ProgramAssumption
    <3>2. pc = "mine" => block.nonce \in 0..MaxNonce
      BY DEF MineInv, Searching
    <3>3. pc = "mined" => block.nonce \in 0..MaxNonce-1 \/ block.nonce = MaxNonce
      BY DEF MineInv, MinedNonce
    <3> QED
      BY <3>1, <3>2, <3>3
  <2>6. \A a \in reported : a \in Seq(0..AlphabetSize-1)
    <3> TAKE a \in reported
    <3>1. PICK key \in made : a = Address(key)
      BY DEF ProgramInv, ReportedInv, Addresses
    <3> QED
      BY <2>1, <3>1, KeyCells DEF Digit
  <2>7. /\ pc \in {"idle", "read", "createwallet", "listaddress", "sendtx", "save", "saved",
                   "unsaved", "lock", "sign", "verify", "database", "getbalance", "startnode",
                   "addblock", "mine", "mined", "serving"}
        /\ pc = "idle" <=> cmd = Nil
        /\ faults \in 0..MaxFaults
    BY DEF ProgramInv, CommandInv
  <2> QED
    BY <2>1, <2>2, <2>3, <2>4, <2>5, <2>6, <2>7 DEF TypeOK
<1> QED
  BY <1>1, ProgramInvariant, PTL

\* SaveWalletsToFile: a file written to its end decodes to the wallets written.
THEOREM SavedReadableHolds == ASSUME HashesAreBytes PROVE Spec => []SavedReadable
<1>1. ProgramInv => SavedReadable
  BY DEF ProgramInv, WalletsInv, SavedReadable
<1> QED
  BY <1>1, ProgramInvariant, PTL

\* CreateWallet: without failed reads and writes, every address printed is in
\* the wallet file, whenever processes are killed.
THEOREM ReportedReadableHolds == ASSUME HashesAreBytes PROVE Spec => []ReportedReadable
<1>1. ProgramInv => ReportedReadable
  BY DEF ProgramInv, ReportedInv, ReportedReadable
<1> QED
  BY <1>1, ProgramInvariant, PTL

\* What a transfer is made with when one read or write has failed at most: the
\* wallet of its sender, as it was made.
LEMMA SenderWallet ==
  ASSUME ProgramInv, pc \in {"lock", "sign", "verify"}, faults <= 1
  PROVE  \E key \in Key : cmd.from = Address(key) /\ transfer.wallet = NewWallet(key)
<1>1. /\ Loaded(wallets) /\ made \subseteq Key
      /\ cmd.from \in DOMAIN wallets /\ transfer.wallet = wallets[cmd.from]
  BY DEF ProgramInv, WalletsInv, CommandInv, TransferInv
<1>2. ReadableIs(made)
  BY <1>1, ReadableWallets DEF ProgramInv
<1>3. wallets = Readable
  <2>1. DOMAIN <<>> = {}
    OBVIOUS
  <2> QED
    BY <1>1, <2>1 DEF Loaded
<1> QED
  BY <1>1, <1>2, <1>3 DEF ReadableIs

\* GetWallet, LockAddress and sign: a transfer is signed with the key of the
\* address it is sent from and its change is locked to that key.
THEOREM SignsForSenderHolds == ASSUME HashesAreBytes PROVE Spec => []SignsForSender
<1>1. ProgramInv => SignsForSender
  <2> SUFFICES ASSUME ProgramInv, pc \in {"sign", "verify"}, faults <= 1
               PROVE  /\ Address(transfer.wallet.private) = cmd.from
                      /\ transfer.wallet.public = Join(transfer.wallet.private)
                      /\ transfer.change = PublickeyHash(transfer.wallet.public)
    BY DEF SignsForSender
  <2>1. PICK key \in Key : cmd.from = Address(key) /\ transfer.wallet = NewWallet(key)
    BY SenderWallet
  <2>2. transfer.wallet.private = key /\ transfer.wallet.public = Join(key)
    BY <2>1 DEF NewWallet
  <2>3. transfer.change = AddressToPubkeyHash(cmd.from)
    BY DEF ProgramInv, TransferInv
  <2>4. AddressToPubkeyHash(Address(key)) = PublickeyHash(Join(key))
    BY KeyCells, AddressTakenApart DEF Address
  <2> QED
    BY <2>1, <2>2, <2>3, <2>4
<1> QED
  BY <1>1, ProgramInvariant, PTL

\* sign and Verify: the middle of two joined numbers is between them if their
\* lengths match.
THEOREM AlignedVerifiesHolds == ASSUME HashesAreBytes PROVE Spec => []AlignedVerifies
<1>1. ProgramInv => AlignedVerifies
  <2> SUFFICES ASSUME ProgramInv, pc = "verify", faults <= 1,
                      Aligned(transfer.wallet.private), Aligned(transfer.pair)
               PROVE  Valid(transfer)
    BY DEF AlignedVerifies
  <2>1. PICK key \in Key : transfer.wallet = NewWallet(key)
    BY SenderWallet
  <2>2. transfer.wallet.private = key /\ transfer.wallet.public = Join(key)
    BY <2>1 DEF NewWallet
  <2>3. transfer.pair \in Signatures /\ transfer.signature = Join(transfer.pair)
    BY DEF ProgramInv, TransferInv
  <2>4. PICK pair \in Nat \X Nat : pair = transfer.pair
    BY <2>3, ProgramAssumption
  <2>5. key \in Nat \X Nat
    BY ProgramAssumption
  <2>6. Halves(Join(key)) = key
    BY <2>2, <2>5, HalvesOfJoin
  <2>7. Halves(Join(pair)) = pair
    BY <2>4, HalvesOfJoin
  <2> QED
    BY <2>2, <2>3, <2>4, <2>6, <2>7 DEF Valid
<1> QED
  BY <1>1, ProgramInvariant, PTL

\* Base58Decode and Base58Encode: no two texts in the alphabet stand for the
\* same bytes.
THEOREM TextRoundTripHolds == ASSUME HashesAreBytes PROVE Spec => []TextRoundTrip
<1>1. ProgramInv => TextRoundTrip
  <2> SUFFICES ASSUME ProgramInv, pc = "getbalance", Range(cmd.address) \subseteq 0..AlphabetSize-1
               PROVE  Base58Encode(Base58Decode(cmd.address)) = cmd.address
    BY DEF TextRoundTrip
  <2>1. cmd.address \in Typed
    BY DEF ProgramInv, CommandInv
  <2>2. PICK text \in Seq(Int) : text = cmd.address
    BY <2>1, ProgramAssumption
  <2>3. \A i \in 1..Len(text) : text[i] \in Digit(AlphabetSize)
    BY <2>2 DEF Range, Digit
  <2>4. text \in Seq(Digit(AlphabetSize))
    BY <2>2, <2>3
  <2> QED
    BY <2>2, <2>4, Base58RoundTrips
<1> QED
  BY <1>1, ProgramInvariant, PTL

\* GetAddressWithPublickey, ValidateAddress and AddressToPubkeyHash: addresses
\* given out are valid and stand for the key they were made from.
THEOREM AddressRoundTripHolds == ASSUME HashesAreBytes PROVE Spec => []AddressRoundTrip
<1>1. ProgramInv => AddressRoundTrip
  <2> SUFFICES ASSUME ProgramInv, pc = "save"
               PROVE  /\ ValidateAddress(cmd.address) = TRUE
                      /\ AddressToPubkeyHash(cmd.address)
                           = PublickeyHash(wallets[cmd.address].public)
    BY DEF AddressRoundTrip
  <2>1. PICK key \in made, ws \in {Readable, <<>>} : Added(key, ws)
    BY DEF ProgramInv, WalletsInv
  <2>2. key \in Key
    BY DEF ProgramInv, CommandInv
  <2>3. cmd.address = Address(key) /\ wallets[cmd.address] = NewWallet(key)
    BY <2>1 DEF Added, WithWallet
  <2>4. /\ ValidateAddress(Address(key)) = TRUE
        /\ AddressToPubkeyHash(Address(key)) = PublickeyHash(Join(key))
    BY <2>2, KeyCells, AddressTakenApart DEF Address
  <2>5. wallets[cmd.address].public = Join(key)
    BY <2>3 DEF NewWallet
  <2> QED
    BY <2>3, <2>4, <2>5
<1> QED
  BY <1>1, ProgramInvariant, PTL

\* POW.Run stops at the least nonce that is a proof of work, and gives up only
\* if there is none below maxNonce.
THEOREM MinedNonceHolds == Spec => []MinedNonce
<1>1. Init => MineInv
  BY DEF Init, MineInv, Reading, Searching, MinedNonce
<1>2. MineInv => MinedNonce
  BY DEF MineInv
<1> QED
  BY <1>1, <1>2, NextSearches, PTL DEF Spec

\* ConvertData2Bytes: no two headers and nonces give the same bytes.
THEOREM HeaderFixesBlockHolds == ASSUME HashesAreBytes PROVE Spec => []HeaderFixesBlock
<1>1. ProgramInv /\ MineInv => HeaderFixesBlock
  <2> SUFFICES ASSUME ProgramInv, MineInv, pc \in {"mine", "mined"},
                      NEW header \in Header, NEW nonce \in 0..MaxNonce,
                      ConvertData2Bytes(header, nonce)
                        = ConvertData2Bytes(block.header, block.nonce)
               PROVE  header = block.header /\ nonce = block.nonce
    BY DEF HeaderFixesBlock
  <2>1. block.header \in Header
    BY DEF ProgramInv, CommandInv
  <2>2. block.nonce \in 0..MaxNonce
    <3>1. MaxNonce \in Nat
      BY ProgramAssumption
    <3>2. pc = "mine" => block.nonce \in 0..MaxNonce
      BY DEF MineInv, Searching
    <3>3. pc = "mined" => block.nonce \in 0..MaxNonce-1 \/ block.nonce = MaxNonce
      BY DEF MineInv, MinedNonce
    <3> QED
      BY <3>1, <3>2, <3>3
  <2> QED
    BY <2>1, <2>2, HeaderTakenApart
<1> QED
  BY <1>1, ProgramInvariant, PTL

-----------------------------------------------------------------------------
(* The Merkle tree *)

\* Powers of two grow.
LEMMA PowersOfTwo ==
  /\ Power(2, 0) = 1
  /\ \A k \in Nat : /\ Power(2, k) \in Nat /\ k < Power(2, k)
                    /\ Power(2, k + 1) = 2 * Power(2, k)
<1>1. 2 \in Base
  BY DEF Base
<1>2. Power(2, 0) = 1
  BY <1>1, PowerRun
<1>3. ASSUME NEW k \in Nat PROVE Power(2, k + 1) = 2 * Power(2, k)
  <2>1. PICK p : /\ p[0] = 1 /\ \A j \in 1..k : p[j] = 2 * p[j - 1]
                 /\ Power(2, k) = p[k]
    BY <1>1, PowerRun
  <2>2. PICK q : /\ q[0] = 1 /\ \A j \in 1..k+1 : q[j] = 2 * q[j - 1]
                 /\ Power(2, k + 1) = q[k + 1]
    BY <1>1, PowerRun
  <2> DEFINE S == {j \in Nat : j <= k => p[j] = q[j]}
  <2>3. 0 \in S
    BY <2>1, <2>2
  <2>4. ASSUME NEW j \in 0..k-1, j \in S PROVE j + 1 \in S
    <3>1. j + 1 \in 1..k /\ j + 1 \in 1..k+1 /\ (j + 1) - 1 = j
      OBVIOUS
    <3>2. p[j] = q[j]
      BY <2>4
    <3>3. p[j + 1] = 2 * p[j] /\ q[j + 1] = 2 * q[j]
      BY <2>1, <2>2, <3>1
    <3> QED
      BY <3>2, <3>3
  <2> HIDE DEF S
  <2>5. k \in S
    <3>1. \A j \in 0..k : j \in S
      BY <2>3, <2>4, UpToInduct
    <3> QED
      BY <3>1
  <2>6. k + 1 \in 1..k+1 /\ (k + 1) - 1 = k
    OBVIOUS
  <2>7. q[k + 1] = 2 * q[k]
    BY <2>2, <2>6
  <2> QED
    BY <2>1, <2>2, <2>5, <2>7 DEF S
<1> DEFINE T == {k \in Nat : Power(2, k) \in Nat /\ k < Power(2, k)}
<1>4. 0 \in T
  BY <1>2
<1>5. ASSUME NEW k \in Nat, k \in T PROVE k + 1 \in T
  BY <1>3, <1>5
<1> HIDE DEF T
<1>6. \A k \in Nat : k \in T
  BY <1>4, <1>5, NatInduct
<1> QED
  BY <1>2, <1>3, <1>6 DEF T

\* The transactions are even in number afterwards, and stay as they are.
LEMMA EvenOutEven ==
  ASSUME NEW A, NEW txs \in Seq(A), txs # <<>>
  PROVE  /\ EvenOut(txs) \in Seq(A) /\ Len(EvenOut(txs)) % 2 = 0
         /\ Len(EvenOut(txs)) \in 2..Len(txs)+1
         /\ EvenOut(EvenOut(txs)) = EvenOut(txs)
<1>1. Len(txs) \in Nat \ {0} /\ Last(txs) \in A
  BY DEF Last
<1>2. CASE Len(txs) % 2 = 0
  BY <1>1, <1>2 DEF EvenOut
<1>3. CASE Len(txs) % 2 # 0
  <2>1. EvenOut(txs) = Append(txs, Last(txs))
    BY <1>3 DEF EvenOut
  <2>2. EvenOut(txs) \in Seq(A) /\ Len(EvenOut(txs)) = Len(txs) + 1
    BY <1>1, <2>1
  <2>3. (Len(txs) + 1) % 2 = 0
    BY <1>1, <1>3
  <2>4. Len(EvenOut(txs)) % 2 = 0
    BY <2>2, <2>3
  <2>5. EvenOut(EvenOut(txs)) = EvenOut(txs)
    BY <2>4 DEF EvenOut
  <2> QED
    BY <1>1, <2>2, <2>4, <2>5
<1> QED
  BY <1>2, <1>3

nextLevel(context, below, k) == NextLevel(below)
nextRow(n, below, h) ==
    [i \in 1..(n - Power(2, h) + 1) |-> <<below[i], below[i + Power(2, h - 1)]>>]

Levels == INSTANCE FoldTheorems WITH op <- nextLevel
Rows   == INSTANCE FoldTheorems WITH op <- nextRow

\* The root of the perfect binary tree over leaves, 2^height of them: each row
\* has the roots of the trees one higher, by the first leaf they are over.
TreeRoot(leaves, height) ==
    LET row[h \in 0..height] ==
          IF h = 0 THEN leaves
          ELSE [i \in 1..(Len(leaves) - Power(2, h) + 1) |->
                  <<row[h - 1][i], row[h - 1][i + Power(2, h - 1)]>>]
    IN  row[height][1]

\* The rows of a perfect tree.
AreRows(row, leaves, height) ==
    /\ row[0] = leaves
    /\ \A h \in 1..height : row[h] = nextRow(Len(leaves), row[h - 1], h)
    /\ TreeRoot(leaves, height) = row[height][1]

LEMMA RowsExist ==
  ASSUME NEW leaves, NEW height \in Nat
  PROVE  \E row : AreRows(row, leaves, height)
<1>1. PICK row : /\ row = Rows!TheRecursion(Len(leaves), leaves, height)
                 /\ row[0] = leaves
                 /\ \A h \in 1..height : row[h] = nextRow(Len(leaves), row[h - 1], h)
  BY Rows!RecursionRuns
<1>2. TreeRoot(leaves, height) = row[height][1]
  BY <1>1 DEF TreeRoot, Rows!TheRecursion, Rows!IsRecursion, nextRow
<1> QED
  BY <1>1, <1>2 DEF AreRows

\* The last level, where the loop ends.
IsLast(level, last) ==
    Len(level[last]) <= 1 /\ \A j \in 0..last-1 : Len(level[j]) > 1

\* The levels CreateMerkleRoot computes.
AreLevels(level, txs) ==
    /\ level[0] = EvenOut(txs)
    /\ \A k \in 1..Len(txs) : level[k] = NextLevel(level[k - 1])
    /\ CreateMerkleRoot(txs) =
         LET last == CHOOSE k \in 0..Len(txs) : IsLast(level, k)
         IN  IF \E k \in 0..last-1 : Len(level[k]) % 2 # 0 THEN Nil ELSE level[last][1]

LEMMA LevelsExist ==
  ASSUME NEW A, NEW txs \in Seq(A), txs # <<>>
  PROVE  \E level : AreLevels(level, txs)
<1>1. PICK level : /\ level = Levels!TheRecursion(0, EvenOut(txs), Len(txs))
                   /\ level[0] = EvenOut(txs)
                   /\ \A k \in 1..Len(txs) : level[k] = nextLevel(0, level[k - 1], k)
  BY Levels!RecursionRuns
<1>2. CreateMerkleRoot(txs) =
         LET last == CHOOSE k \in 0..Len(txs) : IsLast(level, k)
         IN  IF \E k \in 0..last-1 : Len(level[k]) % 2 # 0 THEN Nil ELSE level[last][1]
  BY <1>1 DEF CreateMerkleRoot, Levels!TheRecursion, Levels!IsRecursion, nextLevel, IsLast
<1> QED
  BY <1>1, <1>2 DEF AreLevels, nextLevel

\* The level k has n leaves under it, and its hashes are the roots over them.
OverRow(level, row, k, n) ==
    /\ Len(level[k]) \in Nat /\ Len(level[k]) * Power(2, k) = n
    /\ \A i \in 1..Len(level[k]) : level[k][i] = row[k][(i - 1) * Power(2, k) + 1]

\* While levels are even, a level with its number of hashes times the leaves
\* under each has all the leaves, and its hashes are the roots over them.
LEMMA LevelsAreRows ==
  ASSUME NEW A, NEW txs \in Seq(A), txs # <<>>, NEW level, AreLevels(level, txs),
         NEW height \in 0..Len(txs), NEW row, AreRows(row, EvenOut(txs), height),
         \A k \in 0..height-1 : Len(level[k]) % 2 = 0
  PROVE  \A k \in 0..height : OverRow(level, row, k, Len(EvenOut(txs)))
<1> DEFINE n == Len(EvenOut(txs))
           Good(k) == /\ Len(level[k]) \in Nat /\ Len(level[k]) * Power(2, k) = n
                      /\ \A i \in 1..Len(level[k]) : level[k][i] = row[k][(i - 1) * Power(2, k) + 1]
           S == {k \in 0..height : Good(k)}
<1>1. n \in Nat /\ Len(txs) \in Nat
  BY EvenOutEven
<1>2. 0 \in S
  <2>1. level[0] = EvenOut(txs) /\ row[0] = EvenOut(txs) /\ Power(2, 0) = 1
    BY PowersOfTwo DEF AreLevels, AreRows
  <2>2. \A i \in 1..n : (i - 1) * 1 + 1 = i
    BY <1>1
  <2>3. 0 \in 0..height /\ n * 1 = n
    BY <1>1
  <2>4. Good(0)
    BY <1>1, <2>1, <2>2, <2>3
  <2> QED
    BY <2>3, <2>4
<1>3. ASSUME NEW k \in 0..height-1, k \in S PROVE k + 1 \in S
  <2> DEFINE size == Len(level[k])
             P == Power(2, k)
  <2>1. /\ k \in Nat /\ k + 1 \in 1..height /\ k + 1 \in 1..Len(txs) /\ (k + 1) - 1 = k
        /\ k + 1 \in 0..height
    BY <1>1
  <2>2. /\ size \in Nat /\ size * P = n /\ P \in Nat /\ P > 0 /\ Power(2, k + 1) = 2 * P
        /\ size % 2 = 0
    <3>1. size \in Nat /\ size * P = n
      BY <1>3
    <3>2. P \in Nat /\ P > 0 /\ Power(2, k + 1) = 2 * P
      <4> HIDE DEF n, size
      <4>1. P \in Nat /\ k < P
        BY <2>1, PowersOfTwo
      <4>2. Power(2, k + 1) = 2 * P
        BY <2>1, PowersOfTwo
      <4> QED
        BY <2>1, <4>1, <4>2
    <3>3. size % 2 = 0
      OBVIOUS
    <3> QED
      BY <3>1, <3>2, <3>3
  <2>3. \A i \in 1..size : level[k][i] = row[k][(i - 1) * P + 1]
    BY <1>3
  <2>4. level[k + 1] = [i \in 1..(size \div 2) |-> <<level[k][2*i - 1], level[k][2*i]>>]
    BY <2>1 DEF AreLevels, NextLevel
  <2>5. row[k + 1] = [i \in 1..(n - 2 * P + 1) |-> <<row[k][i], row[k][i + P]>>]
    BY <2>1, <2>2 DEF AreRows, nextRow
  <2> HIDE DEF n, P, size
  <2> DEFINE half == size \div 2
  <2>6. half \in Nat /\ size = 2 * half
    BY <2>2
  <2>7. Len(level[k + 1]) = half
    BY <2>4, <2>6
  <2>8. half * (2 * P) = n
    BY <2>2, <2>6
  <2>9. ASSUME NEW i \in 1..half
        PROVE  level[k + 1][i] = row[k + 1][(i - 1) * (2 * P) + 1]
    <3> DEFINE from == (i - 1) * (2 * P) + 1
    <3>1. 2*i - 1 \in 1..size /\ 2*i \in 1..size
      BY <2>6
    <3>2. ((2*i - 1) - 1) * P + 1 = from /\ (2*i - 1) * P + 1 = from + P
      BY <2>2, <2>6
    <3>3. from \in 1..(n - 2 * P + 1)
      <4>1. half - i \in Nat /\ i - 1 \in Nat
        BY <2>6
      <4>2. (half - i) * (2 * P) \in Nat /\ (i - 1) * (2 * P) \in Nat
        BY <4>1, <2>2
      <4>3. (i - 1) * (2 * P) + (half - i) * (2 * P) = n - 2 * P
        BY <2>2, <2>6, <2>8
      <4> QED
        BY <4>2, <4>3, <1>1, <2>2
    <3>4. level[k + 1][i] = <<level[k][2*i - 1], level[k][2*i]>>
      BY <2>4
    <3>5. level[k][2*i - 1] = row[k][from] /\ level[k][2*i] = row[k][from + P]
      BY <2>3, <3>1, <3>2
    <3> HIDE DEF from
    <3>6. row[k + 1][from] = <<row[k][from], row[k][from + P]>>
      BY <2>5, <3>3
    <3> QED
      BY <3>4, <3>5, <3>6 DEF from
  <2>10. Good(k + 1)
    BY <2>2, <2>6, <2>7, <2>8, <2>9 DEF n
  <2> QED
    BY <2>1, <2>10
<1>4. \A k \in 0..height : k \in S
  <2> HIDE DEF S
  <2> QED
    BY <1>2, <1>3, UpToInduct
<1> QED
  BY <1>4 DEF OverRow

\* So a single hash is the root over all leaves.
LEMMA SingleHash ==
  ASSUME NEW A, NEW txs \in Seq(A), txs # <<>>, NEW level, AreLevels(level, txs),
         NEW height \in 0..Len(txs), \A k \in 0..height-1 : Len(level[k]) % 2 = 0
  PROVE  /\ Len(level[height]) \in Nat
         /\ Len(level[height]) * Power(2, height) = Len(EvenOut(txs))
         /\ Len(level[height]) = 1 => level[height][1] = TreeRoot(EvenOut(txs), height)
<1>1. height \in Nat /\ height \in 0..height
  OBVIOUS
<1>2. PICK row : AreRows(row, EvenOut(txs), height)
  BY <1>1, RowsExist
<1>3. OverRow(level, row, height, Len(EvenOut(txs)))
  BY <1>1, <1>2, LevelsAreRows
<1>4. ASSUME Len(level[height]) = 1
      PROVE  level[height][1] = TreeRoot(EvenOut(txs), height)
  <2>1. level[height][1] = row[height][(1 - 1) * Power(2, height) + 1]
    BY <1>3, <1>4 DEF OverRow
  <2>2. (1 - 1) * Power(2, height) + 1 = 1
    BY <1>1, PowersOfTwo
  <2> QED
    BY <1>2, <2>1, <2>2 DEF AreRows
<1> QED
  BY <1>3, <1>4 DEF OverRow

\* What half of a number is like.
LEMMA Halved == \A m \in Nat : m \div 2 \in Nat /\ (m > 1 => m \div 2 < m) /\ (m <= 1 => m \div 2 <= 1)
  OBVIOUS

\* Levels get shorter, so there is a last one.
LEMMA LastLevel ==
  ASSUME NEW A, NEW txs \in Seq(A), txs # <<>>, NEW level, AreLevels(level, txs)
  PROVE  /\ \E last \in 0..Len(txs) : IsLast(level, last)
         /\ \A k \in 0..Len(txs) : Len(level[k]) \in Nat
         /\ \A k \in 1..Len(txs) : Len(level[k]) = Len(level[k - 1]) \div 2
<1> DEFINE N == Len(txs)
<1>1. N \in Nat /\ N > 0 /\ level[0] = EvenOut(txs) /\ Len(level[0]) \in Nat /\ Len(level[0]) <= N + 1
  BY EvenOutEven DEF AreLevels
<1>2. \A k \in 1..N : level[k] = NextLevel(level[k - 1])
  BY DEF AreLevels
<1> DEFINE S == {k \in 0..N : Len(level[k]) \in Nat /\ (Len(level[k]) <= N + 1 - k \/ Len(level[k]) <= 1)}
<1>3. 0 \in S
  BY <1>1
<1>4. ASSUME NEW k \in 0..N-1, Len(level[k]) \in Nat
      PROVE  Len(level[k + 1]) = Len(level[k]) \div 2 /\ Len(level[k + 1]) \in Nat
  <2>1. k + 1 \in 1..N /\ (k + 1) - 1 = k
    BY <1>1
  <2>2. level[k + 1] = NextLevel(level[k])
    BY <1>2, <2>1
  <2>3. PICK half \in Nat : half = Len(level[k]) \div 2
    BY <1>4, Halved
  <2>4. level[k + 1] = [i \in 1..half |-> <<level[k][2*i - 1], level[k][2*i]>>]
    BY <2>2, <2>3 DEF NextLevel
  <2>5. Len(level[k + 1]) = half
    BY <2>4
  <2> QED
    BY <2>3, <2>5
<1>5. ASSUME NEW k \in 0..N-1, k \in S PROVE k + 1 \in S
  <2>1. Len(level[k + 1]) = Len(level[k]) \div 2 /\ Len(level[k + 1]) \in Nat /\ Len(level[k]) \in Nat
    BY <1>4, <1>5
  <2>2. Len(level[k]) <= N + 1 - k \/ Len(level[k]) <= 1
    BY <1>5
  <2> HIDE DEF N, S
  <2>3. Len(level[k + 1]) <= N + 1 - (k + 1) \/ Len(level[k + 1]) <= 1
    <3>1. PICK m \in Nat : m = Len(level[k])
      BY <2>1
    <3>2. PICK h \in Nat : h = Len(level[k + 1])
      BY <2>1
    <3>3. N \in Nat /\ k \in 0..N-1 /\ h = m \div 2 /\ (m <= N + 1 - k \/ m <= 1)
      BY <1>1, <2>1, <2>2, <3>1, <3>2
    <3>4. h \in Nat /\ (m > 1 => h < m) /\ (m <= 1 => h <= 1)
      BY <3>3, Halved
    <3> QED
      BY <3>2, <3>3, <3>4
  <2>4. k + 1 \in 0..N
    BY <1>1
  <2> QED
    BY <2>1, <2>3, <2>4 DEF S
<1>6. \A k \in 0..N : k \in S
  <2> HIDE DEF S, N
  <2> QED
    BY <1>1, <1>3, <1>5, UpToInduct
<1> DEFINE Ends == {k \in 0..N : Len(level[k]) <= 1}
<1>7. PICK last \in Ends : \A k \in Ends : last <= k
  <2>1. N \in Ends /\ Ends \subseteq Nat
    BY <1>1, <1>6
  <2> HIDE DEF S, Ends
  <2> QED
    BY <2>1, LeastElement
<1>8. IsLast(level, last) /\ last \in 0..N
  <2>1. last \in 0..N /\ Len(level[last]) <= 1
    BY <1>7
  <2>2. ASSUME NEW j \in 0..last-1 PROVE Len(level[j]) > 1
    <3>1. j \in 0..N /\ ~(last <= j)
      BY <1>1, <2>1
    <3>2. j \notin Ends
      BY <1>7, <3>1
    <3>3. Len(level[j]) \in Nat
      BY <1>6, <3>1
    <3> QED
      BY <3>1, <3>2, <3>3
  <2> QED
    BY <2>1, <2>2 DEF IsLast
<1>9. \A k \in 1..N : Len(level[k]) = Len(level[k - 1]) \div 2
  <2> TAKE k \in 1..N
  <2>1. k - 1 \in 0..N-1 /\ (k - 1) + 1 = k /\ k - 1 \in 0..N
    BY <1>1
  <2>2. Len(level[k - 1]) \in Nat
    BY <1>6, <2>1
  <2> QED
    BY <1>4, <2>1, <2>2
<1> QED
  BY <1>6, <1>8, <1>9

\* What CreateMerkleRoot has to return for leaves.
IsRoot(root, leaves) ==
    LET heights == {h \in 0..Len(leaves) : Power(2, h) = Len(leaves)}
    IN  IF heights = {} THEN root = Nil
        ELSE root = TreeRoot(leaves, CHOOSE h \in heights : TRUE)

\* The leaves of a perfect tree are halved until one hash is left.
LEMMA PerfectLevels ==
  ASSUME NEW A, NEW txs \in Seq(A), txs # <<>>, NEW level, AreLevels(level, txs),
         NEW h \in 0..Len(txs), Power(2, h) = Len(EvenOut(txs))
  PROVE  /\ \A k \in 0..h-1 : Len(level[k]) % 2 = 0 /\ Len(level[k]) > 1
         /\ Len(level[h]) = 1
<1> DEFINE S == {k \in 0..h : Len(level[k]) = Power(2, h - k)}
<1>1. Len(txs) \in Nat /\ h \in Nat /\ level[0] = EvenOut(txs)
  BY DEF AreLevels
<1>2. ASSUME NEW k \in 0..h-1
      PROVE  /\ h - k = (h - (k + 1)) + 1 /\ h - (k + 1) \in Nat
             /\ Power(2, h - k) = 2 * Power(2, h - (k + 1))
             /\ Power(2, h - (k + 1)) \in Nat /\ Power(2, h - (k + 1)) > 0
  <2>1. PICK j \in Nat : j = h - (k + 1)
    BY <1>1
  <2>2. h - k = j + 1
    BY <1>1, <2>1
  <2>3. Power(2, j + 1) = 2 * Power(2, j) /\ Power(2, j) \in Nat
    BY PowersOfTwo
  <2>4. Power(2, j) > 0
    <3>1. j < Power(2, j)
      BY PowersOfTwo
    <3> QED
      BY <2>3, <3>1
  <2> QED
    BY <2>1, <2>2, <2>3, <2>4
<1>3. 0 \in S
  BY <1>1
<1>4. ASSUME NEW k \in 0..h-1, k \in S PROVE k + 1 \in S
  <2>1. k + 1 \in 1..Len(txs) /\ (k + 1) - 1 = k /\ k + 1 \in 0..h
    BY <1>1
  <2>2. Len(level[k + 1]) = Len(level[k]) \div 2
    BY <2>1, LastLevel
  <2>3. PICK p \in Nat : p = Power(2, h - (k + 1)) /\ Len(level[k]) = 2 * p
    BY <1>2, <1>4
  <2>4. (2 * p) \div 2 = p
    BY <2>3
  <2> QED
    BY <2>1, <2>2, <2>3, <2>4
<1> HIDE DEF S
<1>5. \A k \in 0..h : k \in S
  BY <1>1, <1>3, <1>4, UpToInduct
<1>6. ASSUME NEW k \in 0..h-1 PROVE Len(level[k]) % 2 = 0 /\ Len(level[k]) > 1
  <2>1. k \in 0..h
    BY <1>1
  <2>2. Len(level[k]) = Power(2, h - k)
    BY <1>5, <2>1 DEF S
  <2>3. PICK p \in Nat : p > 0 /\ Len(level[k]) = 2 * p
    BY <1>2, <2>2
  <2> QED
    BY <2>3
<1>7. Len(level[h]) = 1
  <2>1. h \in 0..h /\ h - h = 0
    BY <1>1
  <2>2. Len(level[h]) = Power(2, h - h)
    BY <1>5, <2>1 DEF S
  <2> QED
    BY <2>1, <2>2, PowersOfTwo
<1> QED
  BY <1>6, <1>7

\* CreateMerkleRoot computes the root of the perfect tree, if there is one.
LEMMA MerkleRoot ==
  ASSUME NEW A, NEW txs \in Seq(A), txs # <<>>
  PROVE  IsRoot(CreateMerkleRoot(txs), EvenOut(txs))
<1> DEFINE leaves  == EvenOut(txs)
           n       == Len(leaves)
           N       == Len(txs)
           heights == {h \in 0..n : Power(2, h) = n}
<1>1. PICK level : AreLevels(level, txs)
  BY LevelsExist
<1>2. /\ N \in Nat /\ n \in 2..N+1
      /\ \A k \in 0..N : Len(level[k]) \in Nat
  BY <1>1, EvenOutEven, LastLevel
<1> DEFINE last == CHOOSE k \in 0..N : IsLast(level, k)
<1>3. last \in 0..N /\ IsLast(level, last)
  BY <1>1, LastLevel
<1>4. CreateMerkleRoot(txs) =
        IF \E k \in 0..last-1 : Len(level[k]) % 2 # 0 THEN Nil ELSE level[last][1]
  BY <1>1 DEF AreLevels
<1> HIDE DEF last
<1>5. CASE heights = {}
  <2>1. ASSUME ~\E k \in 0..last-1 : Len(level[k]) % 2 # 0 PROVE FALSE
    <3>1. last \in Nat
      BY <1>2, <1>3
    <3>2. Len(level[last]) * Power(2, last) = n
      BY <1>1, <1>3, <2>1, SingleHash
    <3>3. Power(2, last) \in Nat /\ last < Power(2, last)
      BY <3>1, PowersOfTwo
    <3>4. Len(level[last]) <= 1 /\ Len(level[last]) \in Nat
      BY <1>2, <1>3 DEF IsLast
    <3> HIDE DEF n, N
    <3>5. Power(2, last) = n
      <4>1. PICK m \in Nat : m = Len(level[last])
        BY <3>4
      <4>2. PICK p \in Nat : p = Power(2, last)
        BY <3>3
      <4>3. m = 0 \/ m = 1
        <5>1. m <= 1
          BY <3>4, <4>1
        <5>2. \A i \in Nat : i <= 1 => i = 0 \/ i = 1
          OBVIOUS
        <5> QED
          BY <5>1, <5>2
      <4>4. m * p = n /\ n > 0
        BY <1>2, <3>2, <4>1, <4>2
      <4>5. m = 1
        BY <4>2, <4>3, <4>4
      <4> QED
        BY <4>2, <4>4, <4>5
    <3>6. last \in 0..n
      BY <1>2, <3>1, <3>3, <3>5
    <3> QED
      BY <1>5, <3>5, <3>6
  <2>2. CreateMerkleRoot(txs) = Nil
    BY <1>4, <2>1
  <2> QED
    BY <1>5, <2>2 DEF IsRoot
<1>6. CASE heights # {}
  <2>1. PICK h \in 0..n :
          /\ Power(2, h) = n
          /\ IsRoot(CreateMerkleRoot(txs), leaves) <=> CreateMerkleRoot(txs) = TreeRoot(leaves, h)
    <3> DEFINE h == CHOOSE k \in heights : TRUE
    <3>1. h \in 0..n /\ Power(2, h) = n
      BY <1>6
    <3>2. IsRoot(CreateMerkleRoot(txs), leaves) <=> CreateMerkleRoot(txs) = TreeRoot(leaves, h)
      BY <1>6 DEF IsRoot
    <3> HIDE DEF h
    <3> QED
      BY <3>1, <3>2
  <2>2. h \in 0..N
    <3> HIDE DEF heights, n, N
    <3>1. h \in Nat
      BY <1>2, <2>1
    <3>2. h < Power(2, h)
      BY <3>1, PowersOfTwo
    <3> QED
      BY <1>2, <2>1, <3>1, <3>2
  <2>3. /\ \A k \in 0..h-1 : Len(level[k]) % 2 = 0 /\ Len(level[k]) > 1
        /\ Len(level[h]) = 1
    BY <1>1, <2>1, <2>2, PerfectLevels
  <2>4. last = h
    <3>1. ~(h < last)
      <4>1. h < last => h \in 0..last-1
        BY <1>3, <2>2
      <4>2. h \in 0..last-1 => Len(level[h]) > 1
        BY <1>3 DEF IsLast
      <4> QED
        BY <2>3, <4>1, <4>2
    <3>2. ~(last < h)
      <4>1. last < h => last \in 0..h-1
        BY <1>3, <2>2
      <4>2. Len(level[last]) <= 1 /\ Len(level[last]) \in Nat
        BY <1>2, <1>3 DEF IsLast
      <4>3. last \in 0..h-1 => Len(level[last]) > 1
        BY <2>3
      <4>4. ~(Len(level[last]) <= 1 /\ Len(level[last]) > 1)
        BY <4>2
      <4> QED
        BY <4>1, <4>2, <4>3, <4>4
    <3> QED
      BY <1>2, <1>3, <2>2, <3>1, <3>2
  <2>5. CreateMerkleRoot(txs) = level[h][1]
    BY <1>4, <2>3, <2>4
  <2>6. level[h][1] = TreeRoot(leaves, h)
    <3>1. \A k \in 0..h-1 : Len(level[k]) % 2 = 0
      BY <2>3
    <3> QED
      BY <1>1, <2>2, <2>3, <3>1, SingleHash
  <2> QED
    BY <2>1, <2>5, <2>6
<1> QED
  BY <1>5, <1>6

\* CreateMerkleRoot: for any number of transactions the root is the one of
\* the perfect binary tree over them, the last doubled if they are odd in
\* number, and there is none, the loop panics, exactly if there is no such
\* tree; the block, which may have one transaction more, keeps its root.
THEOREM MerkleRoots ==
  ASSUME NEW A, NEW txs \in Seq(A), txs # <<>>
  PROVE  LET leaves  == EvenOut(txs)
             heights == {h \in 0..Len(leaves) : Power(2, h) = Len(leaves)}
         IN  /\ CreateMerkleRoot(txs) = IF heights = {} THEN Nil
                                        ELSE TreeRoot(leaves, CHOOSE h \in heights : TRUE)
             /\ CreateMerkleRoot(leaves) = CreateMerkleRoot(txs)
<1> DEFINE leaves == EvenOut(txs)
<1>1. /\ leaves \in Seq(A) /\ Len(leaves) \in 2..Len(txs)+1 /\ EvenOut(leaves) = leaves
  BY EvenOutEven
<1>2. leaves # <<>>
  BY <1>1
<1>3. IsRoot(CreateMerkleRoot(txs), leaves)
  BY MerkleRoot
<1>4. IsRoot(CreateMerkleRoot(leaves), leaves)
  <2> HIDE DEF leaves
  <2> QED
    BY <1>1, <1>2, MerkleRoot
<1> QED
  BY <1>3, <1>4 DEF IsRoot

=============================================================================
