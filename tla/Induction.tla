----------------------------- MODULE Induction ------------------------------
(***************************************************************************)
(* Induction over the natural numbers, stated with a set in place of the   *)
(* predicate.  To prove that all n in Nat have a property, take for S the  *)
(* set of the numbers that have it.  Then induction over sequences, and    *)
(* what FlattenSeq of the community modules computes.                      *)
(***************************************************************************)
EXTENDS Integers, SequencesExt, FiniteSets, FiniteSetTheorems, TLAPS

\* Mathematical induction.  If k were missing from S, the finite set of the
\* missing numbers up to k would be mapped by n |-> n - 1, which is injective,
\* into itself without k.
LEMMA NatInduct ==
  ASSUME NEW S, 0 \in S, \A n \in Nat : n \in S => n + 1 \in S
  PROVE  \A n \in Nat : n \in S
<1> SUFFICES ASSUME NEW k \in Nat, k \notin S PROVE FALSE
  OBVIOUS
<1> DEFINE F == {n \in 0..k : n \notin S}
<1>1. k \in F
  BY SMT
<1>2. IsFiniteSet(F)
  <2>1. IsFiniteSet(0..k)
    BY FS_Interval
  <2>2. F \subseteq 0..k
    OBVIOUS
  <2> QED BY <2>1, <2>2, FS_Subset
<1> DEFINE pred == [n \in F |-> n - 1]
<1>3. \A n \in F : n - 1 \in F \ {k}
  <2> TAKE n \in F
  <2>1. n \in Nat /\ n <= k /\ n \notin S
    OBVIOUS
  <2>2. n # 0
    BY <2>1
  <2>3. n - 1 \in Nat /\ n - 1 < k /\ (n - 1) + 1 = n
    BY <2>1, <2>2
  <2>4. n - 1 \notin S
    BY <2>1, <2>3
  <2> QED BY <2>3, <2>4
<1>4. IsFiniteSet(F \ {k}) /\ Cardinality(F \ {k}) < Cardinality(F)
  <2>1. IsFiniteSet(F \ {k}) /\ Cardinality(F \ {k}) = Cardinality(F) - 1
    BY <1>1, <1>2, FS_RemoveElement
  <2>2. Cardinality(F) \in Nat
    BY <1>2, FS_CardinalityType
  <2> QED BY <2>1, <2>2
<1>5. pred \in [F -> F \ {k}]
  BY <1>3
<1>6. PICK x, y \in F : x # y /\ pred[x] = pred[y]
  <2> HIDE DEF F, pred
  <2> QED BY <1>2, <1>4, <1>5, FS_PigeonHole
<1>7. x - 1 = y - 1 /\ x \in Nat /\ y \in Nat
  BY <1>6
<1> QED BY <1>6, <1>7

\* Induction up to a bound.
LEMMA UpToInduct ==
  ASSUME NEW N \in Nat, NEW S, 0 \in S, \A n \in 0..N-1 : n \in S => n + 1 \in S
  PROVE  \A n \in 0..N : n \in S
<1> DEFINE T == {n \in Nat : n <= N => n \in S}
<1>1. 0 \in T
  OBVIOUS
<1>2. \A n \in Nat : n \in T => n + 1 \in T
  OBVIOUS
<1> HIDE DEF T
<1>3. \A n \in Nat : n \in T
  BY <1>1, <1>2, NatInduct
<1> QED
  BY <1>3 DEF T

\* A set of natural numbers that is not empty has a least element.
LEMMA LeastElement ==
  ASSUME NEW S, S \subseteq Nat, S # {}
  PROVE  \E m \in S : \A n \in S : m <= n
<1> SUFFICES ASSUME \A m \in S : \E n \in S : n < m PROVE FALSE
  OBVIOUS
<1> DEFINE T == {k \in Nat : \A n \in S : n >= k}
<1>1. 0 \in T
  OBVIOUS
<1>2. \A k \in Nat : k \in T => k + 1 \in T
  OBVIOUS
<1> HIDE DEF T
<1>3. \A k \in Nat : k \in T
  BY <1>1, <1>2, NatInduct
<1>4. PICK m \in S : TRUE
  OBVIOUS
<1>5. m + 1 \in T
  BY <1>3, <1>4
<1> QED
  BY <1>4, <1>5 DEF T

\* Induction over sequences, along Append.
LEMMA SeqInduct ==
  ASSUME NEW A, NEW S, <<>> \in S,
         \A s \in Seq(A), x \in A : s \in S => Append(s, x) \in S
  PROVE  \A s \in Seq(A) : s \in S
<1> DEFINE T == {n \in Nat : \A s \in Seq(A) : Len(s) = n => s \in S}
<1>1. 0 \in T
  <2>1. \A s \in Seq(A) : Len(s) = 0 => s = <<>>
    OBVIOUS
  <2> QED
    BY <2>1
<1>2. ASSUME NEW n \in Nat, n \in T PROVE n + 1 \in T
  <2> SUFFICES ASSUME NEW s \in Seq(A), Len(s) = n + 1 PROVE s \in S
    OBVIOUS
  <2> DEFINE front == SubSeq(s, 1, n)
  <2>1. front \in Seq(A) /\ Len(front) = n /\ s[n + 1] \in A
    OBVIOUS
  <2>2. s = Append(front, s[n + 1])
    OBVIOUS
  <2> HIDE DEF front
  <2>3. front \in S
    BY <1>2, <2>1
  <2> QED
    BY <2>1, <2>2, <2>3
<1> HIDE DEF T
<1>3. \A n \in Nat : n \in T
  BY <1>1, <1>2, NatInduct
<1> QED
  BY <1>3 DEF T

-----------------------------------------------------------------------------
(* Flattened sequences *)

\* FlattenSeq appends one sequence after the other.
LEMMA FlattenRuns ==
  ASSUME NEW S, NEW seqs \in Seq(S)
  PROVE  \E flat :
           /\ \A i \in 1..Len(seqs) :
                flat[i] = IF i = 1 THEN seqs[i] ELSE flat[i - 1] \o seqs[i]
           /\ FlattenSeq(seqs) = IF Len(seqs) = 0 THEN seqs ELSE flat[Len(seqs)]
<1> DEFINE Is(f, n) == f = [i \in 1..n |-> IF i = 1 THEN seqs[i] ELSE f[i - 1] \o seqs[i]]
           E == {n \in Nat : \E f : Is(f, n)}
           N == Len(seqs)
           flat == CHOOSE f : Is(f, N)
<1>1. 0 \in E
  <2>1. Is(<<>>, 0)
    OBVIOUS
  <2> QED
    BY <2>1
<1>2. ASSUME NEW n \in Nat, n \in E PROVE n + 1 \in E
  <2>1. PICK f : Is(f, n)
    BY <1>2
  <2>2. \A i \in 1..n : f[i] = IF i = 1 THEN seqs[i] ELSE f[i - 1] \o seqs[i]
    BY <2>1
  <2> DEFINE g == [i \in 1..n+1 |-> IF i <= n THEN f[i]
                                    ELSE IF i = 1 THEN seqs[i] ELSE f[i - 1] \o seqs[i]]
  <2>3. ASSUME NEW i \in 1..n+1
        PROVE  g[i] = IF i = 1 THEN seqs[i] ELSE g[i - 1] \o seqs[i]
    <3>1. CASE i = 1
      BY <2>2, <3>1
    <3>2. CASE i # 1
      <4>1. i - 1 \in 1..n /\ i - 1 \in 1..n+1
        BY <3>2
      <4>2. g[i - 1] = f[i - 1]
        BY <4>1
      <4>3. g[i] = f[i - 1] \o seqs[i]
        <5>1. CASE i <= n
          <6>1. g[i] = f[i]
            BY <5>1
          <6>2. i \in 1..n
            BY <5>1
          <6> HIDE DEF g
          <6> QED
            BY <2>2, <3>2, <6>1, <6>2
        <5>2. CASE ~(i <= n)
          BY <3>2, <5>2
        <5> QED
          BY <5>1, <5>2
      <4> QED
        BY <3>2, <4>2, <4>3
    <3> QED
      BY <3>1, <3>2
  <2>4. g = [i \in 1..n+1 |-> g[i]]
    OBVIOUS
  <2> HIDE DEF g
  <2>5. Is(g, n + 1)
    BY <2>3, <2>4
  <2> HIDE DEF Is
  <2> QED
    BY <2>5
<1> HIDE DEF E
<1>3. \A n \in Nat : n \in E
  BY <1>1, <1>2, NatInduct
<1>4. N \in Nat
  OBVIOUS
<1>5. Is(flat, N)
  <2>1. \E f : Is(f, N)
    BY <1>3, <1>4 DEF E
  <2> HIDE DEF Is
  <2> QED
    BY <2>1
<1>6. FlattenSeq(seqs) = IF N = 0 THEN seqs ELSE flat[N]
  BY DEF FlattenSeq
<1> HIDE DEF flat
<1>7. \A i \in 1..N : flat[i] = IF i = 1 THEN seqs[i] ELSE flat[i - 1] \o seqs[i]
  BY <1>5
<1> QED
  BY <1>6, <1>7

\* The elements of a flattened sequence come from the sequences it is made of.
LEMMA FlattenInSeq ==
  ASSUME NEW S, NEW seqs \in Seq(Seq(S))
  PROVE  FlattenSeq(seqs) \in Seq(S)
<1> DEFINE N == Len(seqs)
<1>1. N \in Nat /\ \A i \in 1..N : seqs[i] \in Seq(S)
  OBVIOUS
<1>2. PICK flat : /\ \A i \in 1..N :
                       flat[i] = IF i = 1 THEN seqs[i] ELSE flat[i - 1] \o seqs[i]
                  /\ FlattenSeq(seqs) = IF N = 0 THEN seqs ELSE flat[N]
  BY FlattenRuns
<1> DEFINE T == {n \in Nat : n \in 1..N => flat[n] \in Seq(S)}
<1>3. 0 \in T
  OBVIOUS
<1>4. ASSUME NEW n \in Nat, n \in T PROVE n + 1 \in T
  <2> SUFFICES ASSUME n + 1 \in 1..N PROVE flat[n + 1] \in Seq(S)
    OBVIOUS
  <2>1. (n + 1) - 1 = n /\ seqs[n + 1] \in Seq(S)
    BY <1>1
  <2>2. flat[n + 1] = IF n = 0 THEN seqs[n + 1] ELSE flat[n] \o seqs[n + 1]
    BY <1>2, <2>1
  <2>3. n = 0 \/ flat[n] \in Seq(S)
    BY <1>1, <1>4
  <2> QED
    BY <2>1, <2>2, <2>3
<1> HIDE DEF T
<1>5. \A n \in Nat : n \in T
  BY <1>3, <1>4, NatInduct
<1>6. N = 0 \/ flat[N] \in Seq(S)
  BY <1>1, <1>5 DEF T
<1>7. N = 0 => seqs = <<>>
  OBVIOUS
<1> QED
  BY <1>1, <1>2, <1>6, <1>7

=============================================================================
