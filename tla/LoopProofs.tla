----------------------------- MODULE LoopProofs -----------------------------
(***************************************************************************)
(* Lemmas on naturals and the places of a loop, for the proofs about every *)
(* component.                                                              *)
(***************************************************************************)
EXTENDS Integers, WellFoundedInduction, TLAPS

\* Induction for a set of naturals: what is not empty has a least element.
LEMMA Smallest ==
  ASSUME NEW T \in SUBSET Nat, T # {}
  PROVE  \E m \in T : \A k \in T : m <= k
<1>1. \E m \in T : \A k \in T : ~(<<k, m>> \in OpToRel(<, Nat))
  BY WFMin, NatLessThanWellFounded, Zenon
<1>2. PICK m \in T : \A k \in T : ~(<<k, m>> \in OpToRel(<, Nat))
  BY <1>1
<1>3. \A k \in T : ~(k < m)
  BY <1>2 DEF OpToRel
<1>4. QED
  BY <1>3

\* What holds at first and is kept by each of n steps holds after them.
LEMMA Climb ==
  ASSUME NEW n \in Nat, NEW T, 0 \in T, \A i \in 1 .. n : i - 1 \in T => i \in T
  PROVE  \A i \in 0 .. n : i \in T
<1> DEFINE Left == {i \in 0 .. n : i \notin T}
<1> SUFFICES ASSUME Left # {} PROVE FALSE
  OBVIOUS
<1>0. Left \in SUBSET Nat
  OBVIOUS
<1> HIDE DEF Left
<1>1. PICK m \in Left : \A k \in Left : m <= k
  BY <1>0, Smallest
<1> USE DEF Left
<1>2. m \in 1 .. n /\ m - 1 \in 0 .. n /\ ~(m <= m - 1)
  BY <1>1
<1>3. m - 1 \in T
  BY <1>1, <1>2
<1>4. QED
  BY <1>1, <1>2, <1>3

\* n steps on S, the i-th of them g[i].
Goes(f, S, base, n, g) ==
  f \in [0 .. n -> S] /\ f[0] = base /\ \A i \in 1 .. n : f[i] = g[i][f[i - 1]]

LEMMA GoesOn ==
  ASSUME NEW S, NEW base \in S, NEW n \in Nat, NEW g \in [1 .. n -> [S -> S]]
  PROVE  \E f : Goes(f, S, base, n, g)
<1> DEFINE T == {k \in 0 .. n : \E f : Goes(f, S, base, k, g)}
<1>1. 0 \in T
  <2>1. Goes([i \in 0 .. 0 |-> base], S, base, 0, g)
    BY DEF Goes
  <2>2. QED
    BY <2>1
<1>2. ASSUME NEW k \in 1 .. n, k - 1 \in T PROVE k \in T
  <2>1. PICK f : Goes(f, S, base, k - 1, g)
    BY <1>2
  <2> DEFINE h == [i \in 0 .. k |-> IF i = k THEN g[k][f[k - 1]] ELSE f[i]]
  <2>2. f[k - 1] \in S /\ g[k] \in [S -> S]
    BY <2>1 DEF Goes
  <2>3. \A i \in 0 .. k - 1 : f[i] \in S /\ h[i] = f[i]
    BY <2>1 DEF Goes
  <2>4. h[k] = g[k][f[k - 1]] /\ h[k] \in S
    BY <2>2
  <2>5. h \in [0 .. k -> S]
    <3>1. \A i \in 0 .. k : h[i] \in S
      BY <2>3, <2>4
    <3>2. QED
      BY <3>1
  <2>6. \A i \in 1 .. k - 1 : h[i] = g[i][h[i - 1]]
    BY <2>1, <2>3 DEF Goes
  <2>7. h[k] = g[k][h[k - 1]]
    BY <2>3, <2>4
  <2>8. h[0] = base
    BY <2>1, <2>3 DEF Goes
  <2> HIDE DEF h
  <2>9. Goes(h, S, base, k, g)
    <3>1. ASSUME NEW i \in 1 .. k PROVE h[i] = g[i][h[i - 1]]
      BY <2>6, <2>7
    <3>2. QED
      BY <3>1, <2>5, <2>8 DEF Goes
  <2>10. QED
    BY <2>9
<1> HIDE DEF T
<1>3. \A k \in 1 .. n : k - 1 \in T => k \in T
  BY <1>2
<1>4. n \in T
  <2>1. \A k \in 0 .. n : k \in T
    BY <1>1, <1>3, Climb
  <2>2. QED
    BY <2>1
<1> USE DEF T
<1>5. QED
  BY <1>4

\* n steps on S are the loop that is written with the step before.
Stepped(base, n, g, f) == [i \in 0 .. n |-> IF i = 0 THEN base ELSE g[i][f[i - 1]]]

LEMMA GoesAsLoop ==
  ASSUME NEW S, NEW base, NEW n \in Nat, NEW g, NEW f, Goes(f, S, base, n, g)
  PROVE  f = Stepped(base, n, g, f)
<1>1. f \in [0 .. n -> S] /\ f[0] = base /\ \A i \in 1 .. n : f[i] = g[i][f[i - 1]]
  BY DEF Goes
<1>2. \A i \in 0 .. n : i = 0 \/ i \in 1 .. n
  OBVIOUS
<1>3. \A i \in 0 .. n : f[i] = IF i = 0 THEN base ELSE g[i][f[i - 1]]
  BY <1>1, <1>2
<1>4. QED
  BY <1>1, <1>3 DEF Stepped

\* A loop whose steps stay in S.
LEMMA LoopStays ==
  ASSUME NEW S, NEW n \in Nat, NEW m, m = [i \in 0 .. n |-> m[i]],
         m[0] \in S, \A i \in 1 .. n : m[i - 1] \in S => m[i] \in S
  PROVE  m \in [0 .. n -> S]
<1> DEFINE T == {i \in 0 .. n : m[i] \in S}
<1>1. 0 \in T /\ \A i \in 1 .. n : i - 1 \in T => i \in T
  OBVIOUS
<1> HIDE DEF T
<1>2. \A i \in 0 .. n : i \in T
  BY <1>1, Climb
<1>3. \A i \in 0 .. n : m[i] \in S
  BY <1>2 DEF T
<1>4. QED
  BY <1>3
=============================================================================
