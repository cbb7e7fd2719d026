----------------------------- MODULE NaturalOrder -----------------------------
(***************************************************************************)
(* Least and greatest elements of sets of naturals, and what is defined    *)
(* round by round: the facts that the proofs about ids and rounds rest on. *)
(***************************************************************************)
EXTENDS Integers, TLAPS, WellFoundedInduction

\* Every nonempty set of naturals has a least element.
LEMMA Least == ASSUME NEW T, T \subseteq Nat, T # {} PROVE \E x \in T : \A y \in T : x <= y
<1>1. PICK x \in T : \A y \in T : ~ (<<y, x>> \in OpToRel(<, Nat))
  BY NatLessThanWellFounded, WFMin, Zenon
<1>2. \A y \in T : ~ (y < x)
  BY <1>1 DEF OpToRel
<1> QED BY <1>2

\* A nonempty set of naturals with a bound has a greatest element.
LEMMA Greatest ==
  ASSUME NEW n \in Nat, NEW T, T \subseteq 0..n, T # {}
  PROVE \E x \in T : \A y \in T : x >= y
<1> DEFINE Below == {n - x : x \in T}
<1>1. Below \subseteq Nat /\ Below # {}
  <2>1. \A x \in T : n - x \in Nat
    OBVIOUS
  <2>2. \A b \in Below : \E x \in T : b = n - x
    OBVIOUS
  <2>3. PICK x \in T : TRUE
    OBVIOUS
  <2>4. n - x \in Below
    OBVIOUS
  <2> QED BY <2>1, <2>2, <2>4
<1>2. PICK b \in Below : \A y \in Below : b <= y
  BY <1>1, Least
<1>3. PICK x \in T : b = n - x
  OBVIOUS
<1>4. \A y \in T : x >= y
  <2> TAKE y \in T
  <2>1. n - y \in Below
    OBVIOUS
  <2>2. b <= n - y
    BY <1>2, <2>1
  <2> QED BY <2>2, <1>3
<1> QED BY <1>4

\* f[n] is the set after n rounds from the empty one, where each adds more.
IsRounds(f, N, more) == f = [n \in 0..N |-> IF n = 0 THEN {} ELSE more[f[n - 1]]]

\* Any number of rounds can be gone.
LEMMA Rounds ==
  ASSUME NEW N \in Nat, NEW X, NEW more \in [SUBSET X -> SUBSET X]
  PROVE \E f \in [0..N -> SUBSET X] : IsRounds(f, N, more)
<1> DEFINE Gone(n, f) == f = [i \in 0..n |-> IF i = 0 THEN {} ELSE more[f[i - 1]]]
           Far(n) == \E f \in [0..n -> SUBSET X] : Gone(n, f)
           TooFar == {n \in Nat : ~Far(n)}
<1>1. SUFFICES ASSUME TooFar # {} PROVE FALSE
  <2>1. ASSUME TooFar = {} PROVE Far(N)
    BY <2>1
  <2> QED BY <2>1 DEF IsRounds
<1>2. PICK m \in TooFar : \A y \in TooFar : m <= y
  BY <1>1, Least
<1>3. CASE m = 0
  <2>1. Gone(0, [i \in 0..0 |-> {}]) /\ [i \in 0..0 |-> {}] \in [0..0 -> SUBSET X]
    OBVIOUS
  <2> QED BY <1>2, <1>3, <2>1
<1>4. CASE m > 0
  <2>0. m \in Nat
    OBVIOUS
  <2>1. m - 1 \in Nat /\ m - 1 \notin TooFar
    <3> HIDE DEF TooFar
    <3> QED BY <1>2, <1>4, <2>0
  <2>2. PICK f \in [0..(m - 1) -> SUBSET X] : Gone(m - 1, f)
    BY <2>1
  <2> DEFINE g == [i \in 0..m |-> IF i = m THEN more[f[m - 1]] ELSE f[i]]
  <2>3. g \in [0..m -> SUBSET X]
    BY <2>1, <1>4
  <2>4. \A i \in 0..m : g[i] = IF i = 0 THEN {} ELSE more[g[i - 1]]
    <3> TAKE i \in 0..m
    <3>1. CASE i = m
      BY <3>1, <1>4, <2>1
    <3>2. CASE i # m
      <4>1. i \in 0..(m - 1) /\ (i # 0 => i - 1 \in 0..(m - 1))
        BY <3>2, <2>0
      <4>2. g[i] = f[i] /\ (i # 0 => g[i - 1] = f[i - 1])
        BY <4>1, <3>2
      <4>3. f[i] = IF i = 0 THEN {} ELSE more[f[i - 1]]
        BY <4>1, <2>2
      <4> QED BY <4>2, <4>3
    <3> QED BY <3>1, <3>2
  <2>5. Gone(m, g)
    BY <2>4
  <2> QED BY <2>3, <2>5, <1>2
<1> QED BY <1>2, <1>3, <1>4
=============================================================================
