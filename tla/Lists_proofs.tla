----------------------------- MODULE Lists_proofs -----------------------------
(***************************************************************************)
(* What the proofs about the configuration need of numbers and folds.      *)
(*                                                                         *)
(* The provers cannot instantiate an induction theorem that takes a        *)
(* predicate.  Here induction is about a set of numbers, which they can:   *)
(* to prove P(n), take {n \in Nat : P(n)}.                                 *)
(***************************************************************************)
EXTENDS SequencesExt, WellFoundedInduction, TLAPS

\* A non-empty set of natural numbers has a least element.
LEMMA LeastNumber ==
    ASSUME NEW S, S \subseteq Nat, S # {}
    PROVE  \E x \in S : \A y \in S : x <= y
<1> DEFINE R == OpToRel(<, Nat)
<1>1. IsWellFoundedOn(R, Nat)
  BY NatLessThanWellFounded
<1>2. \A y, x \in Nat : y < x => <<y, x>> \in R
  BY DEF OpToRel
<1> HIDE DEF R
<1>3. PICK x \in S : \A y \in S : <<y, x>> \notin R
  BY <1>1, WFMin
<1>4. \A y \in S : y \in Nat /\ x \in Nat /\ ~(y < x)
  BY <1>2, <1>3
<1> QED
  BY <1>4

\* Induction up to m, for a set in place of a predicate.
LEMMA BoundedInduction ==
    ASSUME NEW m \in Nat, NEW S, 0 \in S, \A n \in 0..m - 1 : n \in S => n + 1 \in S
    PROVE  m \in S
<1> SUFFICES ASSUME (0..m) \ S # {} PROVE FALSE
  OBVIOUS
<1>1. PICK x \in (0..m) \ S : \A y \in (0..m) \ S : x <= y
  BY LeastNumber, (0..m) \ S \subseteq Nat
<1>2. x - 1 \in 0..m - 1 /\ x - 1 \in 0..m /\ x - 1 + 1 = x /\ ~(x <= x - 1)
  BY <1>1
<1>3. x - 1 \in S
  BY <1>1, <1>2
<1> QED
  BY <1>1, <1>2, <1>3

\* Min and Max of the community modules choose what they should.
LEMMA MaxIs ==
    ASSUME NEW S, S \subseteq Nat, NEW n \in S, \A y \in S : y <= n
    PROVE  Max(S) = n
<1>1. \A x \in S : (\A y \in S : x >= y) <=> x = n
  OBVIOUS
<1> QED
  BY <1>1 DEF Max

LEMMA MaxIn ==
    ASSUME NEW m \in Nat, NEW S \in SUBSET (1..m), S # {}
    PROVE  Max(S) \in S
<1> DEFINE T == {m - x : x \in S}
<1>1. T \subseteq Nat /\ T # {}
  <2>1. \A x \in S : m - x \in Nat
    OBVIOUS
  <2> QED
    BY <2>1
<1>2. PICK t \in T : \A y \in T : t <= y
  BY <1>1, LeastNumber
<1>3. PICK n \in S : t = m - n
  BY <1>2
<1>4. \A y \in S : y <= n
  <2> TAKE y \in S
  <2>1. m - y \in T /\ t = m - n /\ y \in 1..m /\ n \in 1..m
    BY <1>3
  <2> QED
    BY <1>2, <2>1
<1>5. S \subseteq Nat
  OBVIOUS
<1> QED
  BY <1>4, <1>5, MaxIs

LEMMA MinIn ==
    ASSUME NEW S, S \subseteq Nat, S # {}
    PROVE  Min(S) \in S /\ \A y \in S : Min(S) <= y
BY LeastNumber DEF Min

\* The largest of the first k numbers, and what is left without it.
LEMMA PrefixRange ==
    ASSUME NEW m \in Nat, NEW k \in 1..m
    PROVE  /\ Max(1..k) = k
           /\ (1..k) \ {k} = 1..k - 1
           /\ 1..k # {}
           /\ 1..k \in SUBSET (1..m)
           /\ k \in 0..m /\ k - 1 \in 0..m
<1>1. 1..k \subseteq Nat /\ k \in 1..k /\ \A y \in 1..k : y <= k
  OBVIOUS
<1>2. Max(1..k) = k
  BY <1>1, MaxIs
<1>3. (1..k) \ {k} = 1..k - 1
  OBVIOUS
<1>4. 1..k # {} /\ 1..k \in SUBSET (1..m)
  OBVIOUS
<1>5. k \in 0..m /\ k - 1 \in 0..m
  OBVIOUS
<1> QED
  BY <1>2, <1>3, <1>4, <1>5

-----------------------------------------------------------------------------
(* Folds.  FoldLeft is a function on the sets of indices, recursive in the *)
(* largest; it exists whenever what it folds with has a type.              *)

\* f folds step over each set of the numbers up to m, smallest number first.
IsFold(f, X, base, m, step) ==
    /\ f \in [SUBSET (1..m) -> X]
    /\ f[{}] = base
    /\ \A s \in SUBSET (1..m) : s # {} => f[s] = step[<<f[s \ {Max(s)}], Max(s)>>]

LEMMA FoldExists ==
    ASSUME NEW X, NEW base \in X, NEW m \in Nat, NEW step \in [X \X (1..m) -> X]
    PROVE  \E f : IsFold(f, X, base, m, step)
<1> DEFINE S == {n \in Nat : n <= m => \E f : IsFold(f, X, base, n, step)}
<1>1. 0 \in S
  <2> DEFINE f == [s \in {{}} |-> base]
  <2>1. SUBSET (1..0) = {{}}
    OBVIOUS
  <2>2. IsFold(f, X, base, 0, step)
    BY <2>1 DEF IsFold
  <2> QED
    BY <2>2
<1>2. ASSUME NEW n \in 0..m - 1, n \in S PROVE n + 1 \in S
  <2>1. PICK f : IsFold(f, X, base, n, step)
    BY <1>2
  <2> DEFINE N == n + 1
             g == [s \in SUBSET (1..N) |-> IF N \in s THEN step[<<f[s \ {N}], N>>] ELSE f[s]]
  <2>2. /\ N \in 1..m /\ N \in Nat /\ 1..n \subseteq 1..N
        /\ \A s \in SUBSET (1..N) : s \ {N} \in SUBSET (1..n)
        /\ \A s \in SUBSET (1..N) : s \subseteq Nat /\ \A y \in s : y <= N
    OBVIOUS
  <2>3. \A s \in SUBSET (1..n) : f[s] \in X
    BY <2>1 DEF IsFold
  <2> HIDE DEF N
  <2>4. ASSUME NEW s \in SUBSET (1..N) PROVE g[s] \in X
    <3>1. CASE N \in s
      <4>1. f[s \ {N}] \in X
        BY <2>2, <2>3
      <4> QED
        BY <4>1, <2>2, <3>1
    <3>2. CASE N \notin s
      <4>1. s \in SUBSET (1..n)
        BY <3>2, <2>2
      <4> QED
        BY <3>2, <2>3, <4>1
    <3> QED
      BY <3>1, <3>2
  <2>5. g[{}] = base
    BY <2>1 DEF IsFold
  <2>6. ASSUME NEW s \in SUBSET (1..N), s # {}
        PROVE  g[s] = step[<<g[s \ {Max(s)}], Max(s)>>]
    <3>1. CASE N \in s
      <4>1. Max(s) = N
        BY <2>2, <3>1, MaxIs
      <4>2. g[s \ {N}] = f[s \ {N}] /\ g[s] = step[<<f[s \ {N}], N>>]
        BY <3>1, <2>2
      <4> QED
        BY <4>1, <4>2
    <3>2. CASE N \notin s
      <4>1. s \in SUBSET (1..n) /\ s \ {Max(s)} \in SUBSET (1..n)
        BY <3>2, <2>2
      <4>2. g[s] = f[s] /\ g[s \ {Max(s)}] = f[s \ {Max(s)}]
        BY <3>2
      <4> HIDE DEF g
      <4> QED
        BY <4>1, <4>2, <2>1, <2>6 DEF IsFold
    <3> QED
      BY <3>1, <3>2
  <2>7. g \in [SUBSET (1..N) -> X]
    BY <2>4
  <2> HIDE DEF g
  <2>8. IsFold(g, X, base, N, step)
    BY <2>5, <2>6, <2>7 DEF IsFold
  <2> QED
    BY <2>8 DEF N
<1>3. m \in S
  <2> HIDE DEF S
  <2> QED
    BY <1>1, <1>2, BoundedInduction
<1> QED
  BY <1>3

=============================================================================
