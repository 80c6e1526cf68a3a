--------------------------- MODULE FoldTheorems ----------------------------
(***************************************************************************)
(* What FoldLeft of the community modules computes, for an operator op     *)
(* that may also depend on a context.  FoldLeft recurses over the subsets  *)
(* of the domain of its sequence, each time taking out the largest index;  *)
(* this is the run over the sequence from its first element to its last.   *)
(* Also, that recursions on the numbers up to a bound are defined.         *)
(***************************************************************************)
EXTENDS Induction

CONSTANT op(_, _, _)    \* the context, what is accumulated, the next element

Fold(context, base, seq) == FoldLeft(LAMBDA acc, x : op(context, acc, x), base, seq)

-----------------------------------------------------------------------------

\* The function FoldLeft recurses with, on the subsets of D.
IsIter(iter, D, context, base, seq) ==
    iter = [s \in SUBSET D |->
              IF s = {} THEN base
              ELSE op(context, iter[s \ {Max(s)}], seq[Max(s)])]

\* There is such a function on the subsets of any 1..n.
LEMMA IterExists ==
  ASSUME NEW context, NEW base, NEW seq
  PROVE  \A n \in Nat : \E iter : IsIter(iter, 1..n, context, base, seq)
<1> DEFINE S == {n \in Nat : \E iter : IsIter(iter, 1..n, context, base, seq)}
<1>1. 0 \in S
  <2>1. 1..0 = {}
    OBVIOUS
  <2>2. IsIter([s \in SUBSET {} |-> base], {}, context, base, seq)
    BY DEF IsIter
  <2> QED
    BY <2>1, <2>2
<1>2. ASSUME NEW n \in Nat, n \in S PROVE n + 1 \in S
  <2>1. PICK f : IsIter(f, 1..n, context, base, seq)
    BY <1>2
  <2> DEFINE g == [s \in SUBSET (1..n+1) |->
                     IF n + 1 \in s THEN op(context, f[s \ {n + 1}], seq[n + 1]) ELSE f[s]]
  <2>2. \A s \in SUBSET (1..n) :
          f[s] = IF s = {} THEN base ELSE op(context, f[s \ {Max(s)}], seq[Max(s)])
    BY <2>1 DEF IsIter
  <2>3. \A s \in SUBSET (1..n) : g[s] = f[s]
    OBVIOUS
  <2>4. ASSUME NEW s \in SUBSET (1..n+1)
        PROVE  g[s] = IF s = {} THEN base ELSE op(context, g[s \ {Max(s)}], seq[Max(s)])
    <3>1. CASE n + 1 \in s
      <4>1. Max(s) = n + 1
        <5>1. \A y \in s : n + 1 >= y
          OBVIOUS
        <5>2. \A x \in s : (\A y \in s : x >= y) => x = n + 1
          BY <3>1
        <5> QED
          BY <3>1, <5>1, <5>2 DEF Max
      <4>2. s \ {n + 1} \in SUBSET (1..n)
        OBVIOUS
      <4>3. g[s \ {n + 1}] = f[s \ {n + 1}]
        BY <4>2, <2>3
      <4>4. g[s] = op(context, f[s \ {n + 1}], seq[n + 1])
        BY <3>1
      <4> QED
        BY <3>1, <4>1, <4>3, <4>4
    <3>2. CASE n + 1 \notin s
      <4>1. s \in SUBSET (1..n) /\ s \ {Max(s)} \in SUBSET (1..n)
        <5>1. \A x \in s : x \in 1..n
          BY <3>2
        <5> QED
          BY <5>1
      <4>2. g[s] = f[s] /\ g[s \ {Max(s)}] = f[s \ {Max(s)}]
        BY <2>3, <4>1
      <4> HIDE DEF g
      <4> QED
        BY <2>2, <4>1, <4>2
    <3> QED
      BY <3>1, <3>2
  <2>5. g = [s \in SUBSET (1..n+1) |-> g[s]]
    OBVIOUS
  <2> HIDE DEF g
  <2>6. IsIter(g, 1..n+1, context, base, seq)
    BY <2>4, <2>5 DEF IsIter
  <2> QED
    BY <2>6
<1> HIDE DEF S
<1>3. \A n \in Nat : n \in S
  BY <1>1, <1>2, NatInduct
<1> QED
  BY <1>3 DEF S

\* FoldLeft is the last member of a run from the base over the elements in
\* their order.
LEMMA FoldRuns ==
  ASSUME NEW context, NEW base, NEW A, NEW seq \in Seq(A)
  PROVE  \E run : /\ run[0] = base
                  /\ \A n \in 1..Len(seq) : run[n] = op(context, run[n - 1], seq[n])
                  /\ Fold(context, base, seq) = run[Len(seq)]
<1> DEFINE N == Len(seq)
           iter == CHOOSE f : IsIter(f, 1..N, context, base, seq)
           run == [n \in 0..N |-> iter[1..n]]
<1>1. N \in Nat /\ DOMAIN seq = 1..N
  OBVIOUS
<1>2. IsIter(iter, 1..N, context, base, seq)
  BY <1>1, IterExists
<1>3. Fold(context, base, seq) = iter[1..N]
  BY <1>1 DEF Fold, FoldLeft, MapThenFoldSet, IsIter
<1> HIDE DEF iter
<1>4. \A s \in SUBSET (1..N) :
        iter[s] = IF s = {} THEN base ELSE op(context, iter[s \ {Max(s)}], seq[Max(s)])
  BY <1>2 DEF IsIter
<1>5. run[0] = base
  <2>1. 1..0 = {} /\ {} \in SUBSET (1..N)
    OBVIOUS
  <2>2. run[0] = iter[{}]
    BY <1>1, <2>1
  <2> QED
    BY <1>4, <2>1, <2>2
<1>6. ASSUME NEW n \in 1..N PROVE run[n] = op(context, run[n - 1], seq[n])
  <2>1. 1..n \in SUBSET (1..N) /\ 1..n # {} /\ (1..n) \ {n} = 1..n-1 /\ n - 1 \in 0..N /\ n \in 0..N
    <3>1. \A x \in 1..n : x \in 1..N /\ (x # n => x \in 1..n-1)
      BY <1>1
    <3>2. \A x \in 1..n-1 : x \in 1..n /\ x # n
      BY <1>1
    <3>3. n \in 1..n /\ n - 1 \in 0..N /\ n \in 0..N
      BY <1>1
    <3> QED
      BY <3>1, <3>2, <3>3
  <2>2. Max(1..n) = n
    <3>1. n \in 1..n /\ \A y \in 1..n : n >= y
      BY <1>1
    <3>2. \A x \in 1..n : (\A y \in 1..n : x >= y) => x = n
      BY <1>1
    <3> QED
      BY <3>1, <3>2 DEF Max
  <2>3. iter[1..n] = op(context, iter[1..n-1], seq[n])
    BY <1>4, <2>1, <2>2
  <2>4. run[n] = iter[1..n] /\ run[n - 1] = iter[1..n-1]
    BY <2>1
  <2> QED
    BY <2>3, <2>4
<1>7. Fold(context, base, seq) = run[Len(seq)]
  BY <1>1, <1>3
<1> HIDE DEF run
<1> QED
  BY <1>5, <1>6, <1>7

\* A longer sequence goes on where the shorter one has ended.
THEOREM FoldAppends ==
  ASSUME NEW context, NEW base, NEW A, NEW seq \in Seq(A), NEW x \in A
  PROVE  Fold(context, base, Append(seq, x)) = op(context, Fold(context, base, seq), x)
<1> DEFINE N == Len(seq)
           longer == Append(seq, x)
<1>1. /\ N \in Nat /\ longer \in Seq(A) /\ Len(longer) = N + 1
      /\ longer[N + 1] = x /\ \A n \in 1..N : longer[n] = seq[n]
  OBVIOUS
<1> HIDE DEF longer
<1>2. PICK run : /\ run[0] = base
                 /\ \A n \in 1..N : run[n] = op(context, run[n - 1], seq[n])
                 /\ Fold(context, base, seq) = run[N]
  BY FoldRuns
<1>3. PICK more : /\ more[0] = base
                  /\ \A n \in 1..N+1 : more[n] = op(context, more[n - 1], longer[n])
                  /\ Fold(context, base, longer) = more[N + 1]
  BY <1>1, FoldRuns
<1> DEFINE S == {n \in 0..N : more[n] = run[n]}
<1>4. 0 \in S
  BY <1>1, <1>2, <1>3
<1>5. ASSUME NEW n \in 0..N-1, n \in S PROVE n + 1 \in S
  <2>1. /\ n + 1 \in 1..N /\ n + 1 \in 1..N+1 /\ n + 1 \in 0..N
        /\ (n + 1) - 1 = n /\ more[n] = run[n]
    BY <1>1, <1>5
  <2>2. more[n + 1] = op(context, more[n], longer[n + 1])
    BY <1>3, <2>1
  <2>3. run[n + 1] = op(context, run[n], seq[n + 1])
    BY <1>2, <2>1
  <2> QED
    BY <1>1, <2>1, <2>2, <2>3
<1> HIDE DEF S
<1>6. N \in S
  <2>1. \A n \in 0..N : n \in S
    BY <1>1, <1>4, <1>5, UpToInduct
  <2> QED
    BY <1>1, <2>1
<1>7. more[N] = run[N]
  BY <1>6 DEF S
<1>8. more[N + 1] = op(context, more[N], x)
  <2>1. N + 1 \in 1..N+1 /\ (N + 1) - 1 = N
    BY <1>1
  <2> QED
    BY <1>1, <1>3, <2>1
<1> QED
  BY <1>2, <1>3, <1>7, <1>8 DEF longer

\* The fold of no elements is the base.
THEOREM FoldOfNothing ==
  ASSUME NEW context, NEW base
  PROVE  Fold(context, base, <<>>) = base
<1>1. PICK seq : seq = <<>>
  OBVIOUS
<1>2. seq \in Seq({})
  BY <1>1
<1>3. Len(seq) = 0
  BY <1>1
<1>4. PICK run : /\ run[0] = base
                 /\ \A n \in 1..Len(seq) : run[n] = op(context, run[n - 1], seq[n])
                 /\ Fold(context, base, seq) = run[Len(seq)]
  BY <1>2, FoldRuns
<1> QED
  BY <1>1, <1>3, <1>4


-----------------------------------------------------------------------------
(* Recursive functions *)

\* The function on 0..N with a given start and step.
IsRecursion(f, context, base, N) ==
    f = [k \in 0..N |-> IF k = 0 THEN base ELSE op(context, f[k - 1], k)]

TheRecursion(context, base, N) == CHOOSE f : IsRecursion(f, context, base, N)

\* A recursion from 0 up to a bound is defined.
THEOREM RecursionRuns ==
  ASSUME NEW context, NEW base
  PROVE  \A N \in Nat : \E f : /\ f = TheRecursion(context, base, N)
                               /\ f = [k \in 0..N |-> f[k]]
                               /\ f[0] = base
                               /\ \A k \in 1..N : f[k] = op(context, f[k - 1], k)
<1> DEFINE E == {N \in Nat : \E f : IsRecursion(f, context, base, N)}
<1>1. 0 \in E
  <2>1. IsRecursion([k \in 0..0 |-> base], context, base, 0)
    BY DEF IsRecursion
  <2> QED
    BY <2>1
<1>2. ASSUME NEW N \in Nat, N \in E PROVE N + 1 \in E
  <2>1. PICK f : IsRecursion(f, context, base, N)
    BY <1>2
  <2>2. \A k \in 0..N : f[k] = IF k = 0 THEN base ELSE op(context, f[k - 1], k)
    BY <2>1 DEF IsRecursion
  <2> DEFINE g == [k \in 0..N+1 |-> IF k <= N THEN f[k] ELSE op(context, f[k - 1], k)]
  <2>3. ASSUME NEW k \in 0..N+1
        PROVE  g[k] = IF k = 0 THEN base ELSE op(context, g[k - 1], k)
    <3>1. CASE k = 0
      <4>1. 0 \in 0..N
        OBVIOUS
      <4>2. f[0] = base
        BY <2>2, <4>1
      <4> QED
        BY <3>1, <4>1, <4>2
    <3>2. CASE k # 0
      <4>1. k - 1 \in 0..N
        BY <3>2
      <4>2. g[k - 1] = f[k - 1]
        BY <4>1
      <4>3. g[k] = op(context, f[k - 1], k)
        <5>1. CASE k <= N
          <6>1. g[k] = f[k] /\ k \in 0..N
            BY <5>1
          <6> HIDE DEF g
          <6> QED
            BY <2>2, <3>2, <6>1
        <5>2. CASE ~(k <= N)
          BY <5>2
        <5> QED
          BY <5>1, <5>2
      <4> HIDE DEF g
      <4> QED
        BY <3>2, <4>2, <4>3
    <3> QED
      BY <3>1, <3>2
  <2>4. g = [k \in 0..N+1 |-> g[k]]
    OBVIOUS
  <2> HIDE DEF g
  <2>5. IsRecursion(g, context, base, N + 1)
    BY <2>3, <2>4 DEF IsRecursion
  <2> QED
    BY <2>5
<1> HIDE DEF E
<1>3. \A N \in Nat : N \in E
  BY <1>1, <1>2, NatInduct
<1>4. ASSUME NEW N \in Nat
      PROVE  \E f : /\ f = TheRecursion(context, base, N)
                    /\ f = [k \in 0..N |-> f[k]]
                    /\ f[0] = base
                    /\ \A k \in 1..N : f[k] = op(context, f[k - 1], k)
  <2> DEFINE f == TheRecursion(context, base, N)
  <2>1. IsRecursion(f, context, base, N)
    BY <1>3 DEF E, TheRecursion
  <2>2. 0 \in 0..N
    OBVIOUS
  <2>3. f = TheRecursion(context, base, N)
    OBVIOUS
  <2> HIDE DEF f
  <2>4. f = [k \in 0..N |-> f[k]]
    BY <2>1 DEF IsRecursion
  <2>5. f[0] = base
    BY <2>1, <2>2 DEF IsRecursion
  <2>6. \A k \in 1..N : f[k] = op(context, f[k - 1], k)
    BY <2>1 DEF IsRecursion
  <2> QED
    BY <2>3, <2>4, <2>5, <2>6
<1> QED
  BY <1>4

=============================================================================
