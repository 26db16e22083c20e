--------------------------- MODULE VirtualFSProofs ---------------------------
(***************************************************************************)
(* Proofs about VirtualFS, for any paths, trees, accounts and operands.    *)
(*                                                                         *)
(* Each operation of State is shown to lead from trees to trees, to leave  *)
(* the secret where it was when the participant runs it, and to change     *)
(* only what he may change; the loops over operands, over the parts of a   *)
(* path and over the entries of a directory carry this from step to step.  *)
(***************************************************************************)
EXTENDS VirtualFS, LoopProofs, FiniteSetTheorems, SequenceTheorems

-----------------------------------------------------------------------------
\* Paths

\* Being under a path, name by name.
LEMMA UnderNames ==
  ASSUME NEW p \in Seq(Nat), NEW q \in Seq(Nat)
  PROVE  Under(p, q) <=> Len(q) <= Len(p) /\ \A i \in 1 .. Len(q) : p[i] = q[i]
<1>1. Len(p) \in Nat /\ Len(q) \in Nat
  OBVIOUS
<1>2. CASE Len(q) <= Len(p)
  <2> DEFINE a == SubSeq(q, 1, Len(q))
             b == SubSeq(p, 1, Len(q))
  <2>1. a = [i \in 1 .. Len(q) |-> q[i]] /\ b = [i \in 1 .. Len(q) |-> p[i]]
    BY <1>1, <1>2
  <2>2. a = b <=> \A i \in 1 .. Len(q) : p[i] = q[i]
    <3> HIDE DEF a, b
    <3>1. ASSUME a = b, NEW i \in 1 .. Len(q) PROVE p[i] = q[i]
      <4>1. a[i] = q[i] /\ b[i] = p[i]
        BY <2>1
      <4>2. QED
        BY <4>1, <3>1
    <3>2. ASSUME \A i \in 1 .. Len(q) : p[i] = q[i] PROVE a = b
      BY <2>1, <3>2
    <3>3. QED
      BY <3>1, <3>2
  <2>3. QED
    BY <1>2, <2>2 DEF Under, IsPrefix
<1>3. QED
  BY <1>1, <1>2 DEF Under, IsPrefix

LEMMA UnderOrder ==
  ASSUME NEW p \in Seq(Nat), NEW q \in Seq(Nat), NEW r \in Seq(Nat)
  PROVE  /\ Under(p, p)
         /\ Under(p, q) /\ Under(q, r) => Under(p, r)
         /\ Under(p, q) /\ Under(q, p) => p = q
         /\ Under(p, q) /\ Under(p, r) => Under(q, r) \/ Under(r, q)
<1>1. Len(p) \in Nat /\ Len(q) \in Nat /\ Len(r) \in Nat
  OBVIOUS
<1>2. /\ Under(p, p) <=> Len(p) <= Len(p) /\ \A i \in 1 .. Len(p) : p[i] = p[i]
      /\ Under(p, q) <=> Len(q) <= Len(p) /\ \A i \in 1 .. Len(q) : p[i] = q[i]
      /\ Under(q, p) <=> Len(p) <= Len(q) /\ \A i \in 1 .. Len(p) : q[i] = p[i]
      /\ Under(q, r) <=> Len(r) <= Len(q) /\ \A i \in 1 .. Len(r) : q[i] = r[i]
      /\ Under(r, q) <=> Len(q) <= Len(r) /\ \A i \in 1 .. Len(q) : r[i] = q[i]
      /\ Under(p, r) <=> Len(r) <= Len(p) /\ \A i \in 1 .. Len(r) : p[i] = r[i]
  BY UnderNames
<1>3. ASSUME Len(p) = Len(q), \A i \in 1 .. Len(q) : p[i] = q[i] PROVE p = q
  BY <1>3, SeqEqual
<1>4. Under(p, p)
  BY <1>1, <1>2
<1>5. Under(p, q) /\ Under(q, r) => Under(p, r)
  BY <1>1, <1>2
<1>6. Under(p, q) /\ Under(q, p) => p = q
  BY <1>1, <1>2, <1>3
<1>7. Under(p, q) /\ Under(p, r) => Under(q, r) \/ Under(r, q)
  BY <1>1, <1>2
<1>8. QED
  BY <1>4, <1>5, <1>6, <1>7

\* The parts of a path.
LEMMA PartFacts ==
  ASSUME NEW p \in Seq(Nat), NEW i \in 0 .. Len(p)
  PROVE  /\ SubSeq(p, 1, i) \in Seq(Nat) /\ Len(SubSeq(p, 1, i)) = i
         /\ \A j \in 1 .. i : SubSeq(p, 1, i)[j] = p[j]
         /\ Under(p, SubSeq(p, 1, i))
         /\ i > 0 => SubSeq(p, 1, i) # <<>>
<1>1. Len(p) \in Nat /\ i \in Nat /\ i <= Len(p)
  OBVIOUS
<1>2. /\ SubSeq(p, 1, i) \in Seq(Nat) /\ Len(SubSeq(p, 1, i)) = i
      /\ \A j \in 1 .. i : SubSeq(p, 1, i)[j] = p[j]
  BY <1>1
<1>3. Under(p, SubSeq(p, 1, i))
  BY <1>1, <1>2, UnderNames
<1>4. QED
  BY <1>1, <1>2, <1>3

LEMMA ParentFacts ==
  ASSUME NEW p \in Seq(Nat)
  PROVE  ParentOf(p) \in Seq(Nat) /\ Under(p, ParentOf(p))
<1>1. CASE p = <<>>
  BY <1>1, UnderOrder DEF ParentOf
<1>2. CASE p # <<>>
  <2>1. Len(p) \in Nat /\ Len(p) >= 1
    BY <1>2
  <2> DEFINE q == SubSeq(p, 1, Len(p) - 1)
  <2>2. Len(p) - 1 \in 0 .. Len(p)
    BY <2>1
  <2>3. ParentOf(p) = q
    BY <1>2 DEF ParentOf, Front
  <2>4. q \in Seq(Nat) /\ Under(p, q)
    BY <2>2, PartFacts
  <2>5. QED
    BY <2>3, <2>4
<1>3. QED
  BY <1>1, <1>2

LEMMA RootFacts ==
  ASSUME NEW p \in Seq(Nat)
  PROVE  Under(<<>>, p) <=> p = <<>>
<1>1. Len(p) \in Nat /\ Len(<<>>) = 0 /\ <<>> \in Seq(Nat)
  OBVIOUS
<1>2. Under(<<>>, p) <=> Len(p) <= 0 /\ \A i \in 1 .. Len(p) : <<>>[i] = p[i]
  BY <1>1, UnderNames
<1>3. QED
  BY <1>1, <1>2

LEMMA RebaseFacts ==
  ASSUME NEW src \in Seq(Nat), NEW dst \in Seq(Nat), NEW p \in Seq(Nat), Under(p, src)
  PROVE  /\ Rebase(p, src, dst) \in Seq(Nat)
         /\ Under(Rebase(p, src, dst), dst)
         /\ dst # <<>> => Rebase(p, src, dst) # <<>>
         /\ Len(Rebase(p, src, dst)) = Len(dst) + Len(p) - Len(src)
         /\ \A i \in 1 .. Len(p) - Len(src) : Rebase(p, src, dst)[Len(dst) + i] = p[Len(src) + i]
<1>1. Len(p) \in Nat /\ Len(src) \in Nat /\ Len(dst) \in Nat /\ Len(src) <= Len(p)
  BY UnderNames
<1> DEFINE rest == SubSeq(p, Len(src) + 1, Len(p))
<1>2. /\ rest \in Seq(Nat) /\ Len(rest) = Len(p) - Len(src)
      /\ \A i \in 1 .. Len(p) - Len(src) : rest[i] = p[Len(src) + i]
  BY <1>1
<1> HIDE DEF rest
<1>3. Rebase(p, src, dst) = dst \o rest
  BY DEF Rebase, rest
<1> DEFINE to == dst \o rest
<1>4. /\ to \in Seq(Nat) /\ Len(to) = Len(dst) + Len(rest)
      /\ \A i \in 1 .. Len(dst) : to[i] = dst[i]
      /\ \A i \in 1 .. Len(rest) : to[Len(dst) + i] = rest[i]
  <2>1. rest \in Seq(Nat)
    BY <1>2
  <2>2. to \in Seq(Nat) /\ Len(to) = Len(dst) + Len(rest)
    BY <2>1
  <2>3. \A i \in 1 .. Len(dst) : to[i] = dst[i]
    BY <2>1
  <2>4. \A i \in 1 .. Len(rest) : to[Len(dst) + i] = rest[i]
    BY <2>1
  <2>5. QED
    BY <2>2, <2>3, <2>4
<1> HIDE DEF to
<1>5. Under(to, dst)
  BY <1>1, <1>2, <1>4, UnderNames
<1>6. dst # <<>> => to # <<>>
  BY <1>1, <1>2, <1>4
<1>7. /\ Len(to) = Len(dst) + Len(p) - Len(src)
      /\ \A i \in 1 .. Len(p) - Len(src) : to[Len(dst) + i] = p[Len(src) + i]
  BY <1>1, <1>2, <1>4
<1>8. Rebase(p, src, dst) = to
  BY <1>3 DEF to
<1>9. QED
  BY <1>4, <1>5, <1>6, <1>7, <1>8

\* What lies under the source arrives at a place of its own, the source itself
\* at the destination.
LEMMA RebaseApart ==
  ASSUME NEW src \in Seq(Nat), NEW dst \in Seq(Nat),
         NEW p \in Seq(Nat), Under(p, src), NEW q \in Seq(Nat), Under(q, src),
         Rebase(p, src, dst) = Rebase(q, src, dst)
  PROVE  p = q
<1>1. /\ Len(p) \in Nat /\ Len(q) \in Nat /\ Len(src) \in Nat /\ Len(dst) \in Nat
      /\ Len(src) <= Len(p) /\ Len(src) <= Len(q)
      /\ \A i \in 1 .. Len(src) : p[i] = src[i] /\ q[i] = src[i]
  BY UnderNames
<1> DEFINE to == Rebase(p, src, dst)
<1>2. /\ Len(to) = Len(dst) + Len(p) - Len(src)
      /\ \A i \in 1 .. Len(p) - Len(src) : to[Len(dst) + i] = p[Len(src) + i]
  BY RebaseFacts
<1>a. /\ Len(to) = Len(dst) + Len(q) - Len(src)
      /\ \A i \in 1 .. Len(q) - Len(src) : to[Len(dst) + i] = q[Len(src) + i]
  <2> DEFINE from == Rebase(q, src, dst)
  <2>1. /\ Len(from) = Len(dst) + Len(q) - Len(src)
        /\ \A i \in 1 .. Len(q) - Len(src) : from[Len(dst) + i] = q[Len(src) + i]
    BY RebaseFacts
  <2>2. to = from
    OBVIOUS
  <2>3. QED
    BY <2>1, <2>2
<1> HIDE DEF to
<1>3. Len(p) = Len(q)
  BY <1>1, <1>2, <1>a
<1>4. \A i \in 1 .. Len(p) - Len(src) : p[Len(src) + i] = q[Len(src) + i]
  BY <1>3, <1>2, <1>a
<1>5. ASSUME NEW j \in 1 .. Len(p) PROVE p[j] = q[j]
  <2>1. CASE j <= Len(src)
    BY <1>1, <2>1
  <2>2. CASE j > Len(src)
    <3>1. j - Len(src) \in 1 .. Len(p) - Len(src) /\ Len(src) + (j - Len(src)) = j
      BY <1>1, <2>2
    <3>2. QED
      BY <1>4, <3>1
  <2>3. QED
    BY <1>1, <2>1, <2>2
<1>6. QED
  BY <1>3, <1>5, SeqEqual

-----------------------------------------------------------------------------
\* The order in which a directory is copied

\* Two paths of which one comes first: it is where the other starts, or it has
\* the smaller name at the first place at which they differ.
Starts(a, b) == Len(a) <= Len(b) /\ \A i \in 1 .. Len(a) : b[i] = a[i]
Differ(a, b, i) == /\ i \in 1 .. Len(a) /\ i \in 1 .. Len(b) /\ a[i] < b[i]
                   /\ \A j \in 1 .. i - 1 : a[j] = b[j]

LEMMA LessNames ==
  ASSUME NEW p \in Seq(Nat), NEW q \in Seq(Nat)
  PROVE  PathLess(p, q) <=>
           \/ p # q /\ Starts(p, q)
           \/ \E i : Differ(p, q, i)
<1>1. DOMAIN p = 1 .. Len(p) /\ DOMAIN q = 1 .. Len(q) /\ Len(p) \in Nat /\ Len(q) \in Nat
  OBVIOUS
<1>2. ASSUME NEW i \in 1 .. Len(p), i \in 1 .. Len(q)
      PROVE  SubSeq(p, 1, i - 1) = SubSeq(q, 1, i - 1) <=> \A j \in 1 .. i - 1 : p[j] = q[j]
  <2> DEFINE k == i - 1
             a == SubSeq(p, 1, k)
             b == SubSeq(q, 1, k)
  <2>1. k \in 0 .. Len(p) /\ k \in 0 .. Len(q) /\ k \in Nat
    BY <1>1, <1>2
  <2> HIDE DEF k
  <2>2. /\ a \in Seq(Nat) /\ Len(a) = k /\ \A j \in 1 .. k : a[j] = p[j]
        /\ b \in Seq(Nat) /\ Len(b) = k /\ \A j \in 1 .. k : b[j] = q[j]
    BY <2>1, PartFacts
  <2> HIDE DEF a, b
  <2>3. a = b <=> \A j \in 1 .. k : p[j] = q[j]
    <3>1. ASSUME \A j \in 1 .. k : p[j] = q[j] PROVE a = b
      BY <2>2, <3>1, SeqEqual
    <3>2. QED
      BY <2>2, <3>1
  <2>4. QED
    BY <2>3 DEF a, b, k
<1>3. IsStrictPrefix(p, q) <=> p # q /\ Starts(p, q)
  BY UnderNames DEF IsStrictPrefix, Under, Starts
<1>4. QED
  BY <1>1, <1>2, <1>3 DEF PathLess, Differ

\* Two paths that differ first at i, and the second from a third first at k:
\* the first differs from the third at the smaller of the two.
LEMMA DifferChain ==
  ASSUME NEW p \in Seq(Nat), NEW q \in Seq(Nat), NEW r \in Seq(Nat),
         NEW i, Differ(p, q, i), NEW k, Differ(q, r, k)
  PROVE  \E m : Differ(p, r, m)
<1>1. i \in 1 .. Len(p) /\ i \in 1 .. Len(q) /\ p[i] < q[i] /\ \A j \in 1 .. i - 1 : p[j] = q[j]
  BY DEF Differ
<1>2. k \in 1 .. Len(q) /\ k \in 1 .. Len(r) /\ q[k] < r[k] /\ \A j \in 1 .. k - 1 : q[j] = r[j]
  BY DEF Differ
<1>3. Len(p) \in Nat /\ Len(q) \in Nat /\ Len(r) \in Nat /\ i \in Nat /\ k \in Nat
  <2>1. i \in 1 .. Len(p) /\ k \in 1 .. Len(q)
    BY <1>1, <1>2
  <2>2. QED
    BY <2>1
<1>4. CASE i < k
  <2>1. i \in 1 .. k - 1 /\ i \in 1 .. Len(r)
    BY <1>1, <1>2, <1>3, <1>4
  <2>2. p[i] < r[i]
    BY <1>1, <1>2, <2>1
  <2>3. ASSUME NEW j \in 1 .. i - 1 PROVE p[j] = r[j]
    <3>1. j \in 1 .. k - 1
      BY <1>3, <1>4
    <3>2. QED
      BY <1>1, <1>2, <3>1
  <2>4. Differ(p, r, i)
    BY <1>1, <2>1, <2>2, <2>3 DEF Differ
  <2>5. QED
    BY <2>4
<1>5. CASE i = k
  <2>1. p[i] < r[i]
    <3>1. p[i] \in Nat /\ q[i] \in Nat /\ r[i] \in Nat
      <4>1. i \in 1 .. Len(p) /\ i \in 1 .. Len(q) /\ i \in 1 .. Len(r)
        BY <1>1, <1>2, <1>5
      <4>2. QED
        BY <4>1
    <3>2. p[i] < q[i] /\ q[i] < r[i]
      BY <1>1, <1>2, <1>5
    <3>3. QED
      BY <3>1, <3>2
  <2>2. \A j \in 1 .. i - 1 : p[j] = r[j]
    BY <1>1, <1>2, <1>5
  <2>3. Differ(p, r, i)
    BY <1>1, <1>2, <1>5, <2>1, <2>2 DEF Differ
  <2>4. QED
    BY <2>3
<1>6. CASE i > k
  <2>1. k \in 1 .. i - 1 /\ k \in 1 .. Len(p)
    BY <1>1, <1>2, <1>3, <1>6
  <2>2. p[k] < r[k]
    BY <1>1, <1>2, <2>1
  <2>3. ASSUME NEW j \in 1 .. k - 1 PROVE p[j] = r[j]
    <3>1. j \in 1 .. i - 1
      BY <1>3, <1>6
    <3>2. QED
      BY <1>1, <1>2, <3>1
  <2>4. Differ(p, r, k)
    BY <1>2, <2>1, <2>2, <2>3 DEF Differ
  <2>5. QED
    BY <2>4
<1>7. QED
  BY <1>3, <1>4, <1>5, <1>6

LEMMA LessOrder ==
  ASSUME NEW p \in Seq(Nat), NEW q \in Seq(Nat), NEW r \in Seq(Nat)
  PROVE  /\ ~PathLess(p, p)
         /\ PathLess(p, q) /\ PathLess(q, r) => PathLess(p, r)
         /\ p # q => PathLess(p, q) \/ PathLess(q, p)
<1>1. Len(p) \in Nat /\ Len(q) \in Nat /\ Len(r) \in Nat
  OBVIOUS
<1>2. /\ \A i \in 1 .. Len(p) : p[i] \in Nat
      /\ \A i \in 1 .. Len(q) : q[i] \in Nat
      /\ \A i \in 1 .. Len(r) : r[i] \in Nat
  OBVIOUS
<1>3. \A a, b \in Seq(Nat) : PathLess(a, b) <=> (a # b /\ Starts(a, b)) \/ \E i : Differ(a, b, i)
  BY LessNames
<1>4. ~PathLess(p, p)
  BY <1>2, <1>3 DEF Differ
<1>5. ASSUME PathLess(p, q), PathLess(q, r) PROVE PathLess(p, r)
  <2>1. CASE p # q /\ Starts(p, q) /\ q # r /\ Starts(q, r)
    <3>1. Starts(p, r)
      BY <1>1, <2>1 DEF Starts
    <3>2. p # r
      <4>1. SUFFICES ASSUME p = r PROVE FALSE
        OBVIOUS
      <4>2. Len(p) = Len(q) /\ \A i \in 1 .. Len(p) : p[i] = q[i]
        BY <1>1, <2>1, <4>1 DEF Differ, Starts
      <4>3. QED
        BY <2>1, <4>2, SeqEqual
    <3>3. QED
      BY <1>3, <3>1, <3>2
  <2>2. ASSUME p # q, Starts(p, q), NEW k, Differ(q, r, k) PROVE PathLess(p, r)
    <3>1. CASE k <= Len(p)
      <4>1. Differ(p, r, k)
        BY <1>1, <1>2, <2>2, <3>1 DEF Differ, Starts
      <4>2. QED
        BY <1>3, <4>1
    <3>2. CASE k > Len(p)
      <4>1. Starts(p, r) /\ Len(p) # Len(r)
        BY <1>1, <1>2, <2>2, <3>2 DEF Differ, Starts
      <4>2. QED
        BY <1>3, <4>1
    <3>3. QED
      BY <1>1, <2>2, <3>1, <3>2 DEF Differ, Starts
  <2>3. ASSUME NEW i, Differ(p, q, i), q # r, Starts(q, r) PROVE PathLess(p, r)
    <3>1. Differ(p, r, i)
      BY <1>1, <1>2, <2>3 DEF Differ, Starts
    <3>2. QED
      BY <1>3, <3>1
  <2>4. ASSUME NEW i, Differ(p, q, i), NEW k, Differ(q, r, k) PROVE PathLess(p, r)
    <3>1. \E m : Differ(p, r, m)
      BY <2>4, DifferChain
    <3>2. QED
      BY <1>3, <3>1
  <2>5. QED
    BY <1>3, <1>5, <2>1, <2>2, <2>3, <2>4
<1>6. ASSUME p # q PROVE PathLess(p, q) \/ PathLess(q, p)
  <2> DEFINE D == {i \in 1 .. Len(p) : i \in 1 .. Len(q) /\ p[i] # q[i]}
  <2>1. CASE D = {}
    <3>1. \A i \in 1 .. Len(p) : i \in 1 .. Len(q) => p[i] = q[i]
      BY <2>1
    <3>2. CASE Len(p) <= Len(q)
      <4>1. Starts(p, q)
        BY <1>1, <3>1, <3>2 DEF Starts
      <4>2. QED
        BY <1>3, <1>6, <4>1
    <3>3. CASE Len(q) <= Len(p)
      <4>1. Starts(q, p)
        BY <1>1, <3>1, <3>3 DEF Starts
      <4>2. QED
        BY <1>3, <1>6, <4>1
    <3>4. QED
      BY <1>1, <3>2, <3>3
  <2>2. CASE D # {}
    <3>1. D \in SUBSET Nat
      OBVIOUS
    <3> HIDE DEF D
    <3>2. PICK i \in D : \A k \in D : i <= k
      BY <2>2, <3>1, Smallest
    <3>3. i \in 1 .. Len(p) /\ i \in 1 .. Len(q) /\ p[i] # q[i]
      BY DEF D
    <3>4. ASSUME NEW j \in 1 .. i - 1 PROVE p[j] = q[j]
      <4>1. j \in 1 .. Len(p) /\ j \in 1 .. Len(q) /\ ~(i <= j)
        <5>1. i \in Nat /\ i <= Len(p) /\ i <= Len(q)
          BY <3>3
        <5>2. j \in Nat /\ 1 <= j /\ j <= i - 1
          BY <5>1
        <5>3. QED
          BY <1>1, <5>1, <5>2
      <4>2. j \notin D
        BY <3>2, <4>1
      <4>3. QED
        BY <4>1, <4>2 DEF D
    <3>5. Differ(p, q, i) \/ Differ(q, p, i)
      BY <1>1, <1>2, <3>3, <3>4 DEF Differ, Starts
    <3>6. QED
      BY <1>3, <3>5
  <2>3. QED
    BY <2>1, <2>2
<1>7. QED
  BY <1>4, <1>5, <1>6

LEMMA RankFacts ==
  ASSUME NEW S \in SUBSET Seq(Nat), IsFiniteSet(S)
  PROVE  /\ Cardinality(S) \in Nat
         /\ \A p \in S : Rank(S, p) \in 0 .. Cardinality(S) - 1
         /\ \A p, q \in S : Rank(S, p) = Rank(S, q) => p = q
<1> DEFINE B(p) == {q \in S : PathLess(q, p)}
<1>1. Cardinality(S) \in Nat
  BY FS_CardinalityType
<1>2. ASSUME NEW p \in S
      PROVE  IsFiniteSet(B(p)) /\ Cardinality(B(p)) \in Nat /\ Cardinality(B(p)) <= Cardinality(S) - 1
  <2>1. B(p) \in SUBSET (S \ {p})
    BY LessOrder
  <2>2. IsFiniteSet(S \ {p}) /\ Cardinality(S \ {p}) = Cardinality(S) - 1
    BY FS_RemoveElement
  <2> HIDE DEF B
  <2>3. IsFiniteSet(B(p)) /\ Cardinality(B(p)) <= Cardinality(S \ {p})
    BY <2>1, <2>2, FS_Subset
  <2>4. Cardinality(B(p)) \in Nat
    BY <2>3, FS_CardinalityType
  <2>5. QED
    BY <2>2, <2>3, <2>4
<1>3. ASSUME NEW p \in S, NEW q \in S, PathLess(p, q)
      PROVE  Cardinality(B(p)) # Cardinality(B(q))
  <2>1. B(p) \in SUBSET B(q) /\ p \in B(q) /\ p \notin B(p)
    BY <1>3, LessOrder
  <2>2. IsFiniteSet(B(q))
    BY <1>2
  <2> HIDE DEF B
  <2>3. Cardinality(B(p)) = Cardinality(B(q)) => B(p) = B(q)
    BY <2>1, <2>2, FS_Subset
  <2>4. QED
    BY <2>1, <2>3
<1>4. ASSUME NEW p \in S, NEW q \in S, Cardinality(B(p)) = Cardinality(B(q)) PROVE p = q
  <2>1. p \in Seq(Nat) /\ q \in Seq(Nat)
    OBVIOUS
  <2>2. p # q => PathLess(p, q) \/ PathLess(q, p)
    BY <2>1, LessOrder
  <2> HIDE DEF B
  <2>3. QED
    BY <1>3, <1>4, <2>2
<1>5. \A p : Rank(S, p) = Cardinality(B(p))
  BY DEF Rank
<1> HIDE DEF B
<1>6. QED
  BY <1>1, <1>2, <1>4, <1>5

\* Sorted lists the set, each path once.
LEMMA SortedFacts ==
  ASSUME NEW S \in SUBSET Seq(Nat), IsFiniteSet(S)
  PROVE  /\ Sorted(S) \in Seq(S) /\ Len(Sorted(S)) = Cardinality(S) /\ Cardinality(S) \in Nat
         /\ \A p \in S : \E i \in 1 .. Cardinality(S) : Sorted(S)[i] = p
<1> DEFINE n == Cardinality(S)
           r == [p \in S |-> Rank(S, p)]
<1>1. /\ n \in Nat /\ \A p \in S : Rank(S, p) \in 0 .. n - 1
      /\ \A p, q \in S : Rank(S, p) = Rank(S, q) => p = q
  BY RankFacts
<1>2. r \in Injection(S, 0 .. n - 1)
  BY <1>1 DEF Injection, IsInjective
<1>3. IsFiniteSet(0 .. n - 1) /\ Cardinality(0 .. n - 1) = n
  BY <1>1, FS_Interval
<1>4. r \in Surjection(S, 0 .. n - 1)
  <2> HIDE DEF r
  <2>1. QED
    BY <1>2, <1>3, FS_Injection
<1>5. \A k \in 0 .. n - 1 : \E p \in S : Rank(S, p) = k
  BY <1>4 DEF Surjection
<1> HIDE DEF n, r
<1>6. ASSUME NEW i \in 1 .. n
      PROVE  (CHOOSE p \in S : Rank(S, p) = i - 1) \in S
             /\ Rank(S, CHOOSE p \in S : Rank(S, p) = i - 1) = i - 1
  <2>1. i - 1 \in 0 .. n - 1
    BY <1>1
  <2>2. QED
    BY <1>5, <2>1
<1>7. Sorted(S) = [i \in 1 .. n |-> CHOOSE p \in S : Rank(S, p) = i - 1]
  BY DEF Sorted, n
<1>8. Sorted(S) \in Seq(S) /\ Len(Sorted(S)) = n
  <2>1. Sorted(S) \in [1 .. n -> S]
    BY <1>6, <1>7
  <2>2. QED
    BY <1>1, <1>7, <2>1
<1>9. ASSUME NEW p \in S PROVE \E i \in 1 .. n : Sorted(S)[i] = p
  <2> DEFINE k == Rank(S, p) + 1
  <2>1. k \in 1 .. n /\ k - 1 = Rank(S, p)
    BY <1>1
  <2> HIDE DEF k
  <2>2. Sorted(S)[k] \in S /\ Rank(S, Sorted(S)[k]) = k - 1
    BY <1>6, <1>7, <2>1
  <2>3. Sorted(S)[k] = p
    BY <1>1, <2>1, <2>2
  <2>4. QED
    BY <2>1, <2>3
<1>10. QED
  BY <1>1, <1>8, <1>9 DEF n

-----------------------------------------------------------------------------
\* Trees, and what an operation makes of one

Tree(f) ==
  /\ f \in [DOMAIN f -> Entry] /\ DOMAIN f \subseteq Seq(Nat)
  /\ <<>> \in DOMAIN f /\ f[<<>>].dir

\* Only root's eyes: what the participant can neither read nor chmod.
Closed(e) == Secret \in e.content => e.owner # User /\ e.mode \subseteq {"ur", "uw"}
Kept(f) == \A p \in DOMAIN f : Closed(f[p])

Same(f, g, p) == (p \in DOMAIN f <=> p \in DOMAIN g) /\ (p \in DOMAIN f => f[p] = g[p])

\* In or under something the participant could write.
Reach(f, p) == \E q \in DOMAIN f : Under(p, q) /\ CanWrite(f[q], User)

Within(f, g) ==
  \A p \in DOMAIN f \union DOMAIN g :
    \/ Same(f, g, p)
    \/ p \notin DOMAIN f /\ g[p] = NewDir(Root, Root)
    \/ Reach(f, p)

\* What an operation run by u, which brings these lines, may make of a tree.
Step(f, g, u, lines) ==
  /\ Tree(g)
  /\ u = User => /\ Kept(f) /\ Secret \notin lines => Kept(g)
                 /\ Within(f, g)

AccountsOK ==
  /\ users \in [DOMAIN users -> Seq(STRING)]
  /\ {User, Root} \subseteq DOMAIN users /\ DOMAIN users \subseteq {User, Root, NewUser}

LEMMA NameFacts == User # Root /\ User \in STRING /\ NewUser \in STRING /\ Root \in STRING
BY FilesAssumption DEF Root

\* The entries the operations make.
LEMMA NewEntries ==
  ASSUME NEW u \in {User, Root, NewUser}, NEW g \in STRING, NEW lines \in SUBSET STRING
  PROVE  /\ NewFile(u, g, lines) \in Entry /\ NewDir(u, g) \in Entry /\ NewDir(u, g).dir
         /\ Secret \notin lines => Closed(NewFile(u, g, lines))
         /\ Closed(NewDir(u, g))
BY DEF NewFile, NewDir, Entry, Closed, RW

LEMMA NewHomeEntry ==
  /\ NewHomeDir(NewUser) \in Entry /\ NewHomeDir(NewUser).dir
  /\ Closed(NewHomeDir(NewUser))
BY NameFacts DEF NewHomeDir, NewDir, Entry, Closed, HomeMode, RW

LEMMA GroupFacts ==
  ASSUME AccountsOK, NEW u \in {User, Root}
  PROVE  PrimaryGroup(u) \in STRING
<1>1. u \in DOMAIN users /\ users[u] \in Seq(STRING) /\ u \in STRING
  BY NameFacts DEF AccountsOK
<1>2. users[u] # <<>> => users[u][1] \in STRING
  BY <1>1
<1>3. QED
  BY <1>1, <1>2 DEF PrimaryGroup

\* The participant can write neither what is not there nor a directory made
\* for root.
LEMMA NotWritable == ~CanWrite(NoEntry, User) /\ ~CanWrite(NewDir(Root, Root), User)
<1>1. /\ NoEntry.mode = {} /\ NewDir(Root, Root).mode = RW /\ NewDir(Root, Root).owner = Root
  BY DEF NoEntry, NewDir
<1>2. "uw" # "gw" /\ "gw" \notin RW /\ "ow" \notin RW
  BY DEF RW
<1>3. QED
  BY <1>1, <1>2, NameFacts DEF CanWrite, Permitted

\* What is closed the participant cannot read.
LEMMA ClosedIsUnread ==
  ASSUME NEW e, Closed(e), Secret \in e.content
  PROVE  ~CanRead(e, User)
BY NameFacts DEF Closed, CanRead, Permitted

-----------------------------------------------------------------------------
\* What is within his reach

LEMMA ReachKept ==
  ASSUME NEW f, Tree(f), NEW g, Tree(g), Within(f, g), NEW p \in Seq(Nat), Reach(g, p)
  PROVE  Reach(f, p)
<1>1. PICK q \in DOMAIN g : Under(p, q) /\ CanWrite(g[q], User)
  BY DEF Reach
<1>2. q \in Seq(Nat)
  BY DEF Tree
<1>3. CASE Same(f, g, q)
  BY <1>1, <1>3 DEF Same, Reach
<1>4. CASE q \notin DOMAIN f /\ g[q] = NewDir(Root, Root)
  BY <1>1, <1>4, NotWritable
<1>5. CASE Reach(f, q)
  <2>1. PICK r \in DOMAIN f : Under(q, r) /\ CanWrite(f[r], User)
    BY <1>5 DEF Reach
  <2>2. r \in Seq(Nat)
    BY DEF Tree
  <2>3. Under(p, r)
    BY <1>1, <1>2, <2>1, <2>2, UnderOrder
  <2>4. QED
    BY <2>1, <2>3 DEF Reach
<1>6. QED
  BY <1>1, <1>3, <1>4, <1>5 DEF Within

LEMMA WithinOrder ==
  ASSUME NEW f, Tree(f), NEW g, Tree(g), NEW h, Tree(h), Within(f, g), Within(g, h)
  PROVE  Within(f, h)
<1> SUFFICES ASSUME NEW p \in DOMAIN f \union DOMAIN h, ~Same(f, h, p)
             PROVE  (p \notin DOMAIN f /\ h[p] = NewDir(Root, Root)) \/ Reach(f, p)
  BY DEF Within
<1>1. p \in Seq(Nat)
  BY DEF Tree
<1>2. CASE ~Same(g, h, p)
  <2>1. p \in DOMAIN g \union DOMAIN h
    BY <1>2 DEF Same
  <2>2. (p \notin DOMAIN g /\ h[p] = NewDir(Root, Root)) \/ Reach(g, p)
    BY <1>2, <2>1 DEF Within
  <2>3. CASE Reach(g, p)
    BY <1>1, <2>3, ReachKept
  <2>4. CASE p \notin DOMAIN g /\ h[p] = NewDir(Root, Root)
    <3>1. p \in DOMAIN f => ~Same(f, g, p)
      BY <2>4 DEF Same
    <3>2. p \in DOMAIN f => Reach(f, p)
      BY <3>1 DEF Within
    <3>3. QED
      BY <2>4, <3>2
  <2>5. QED
    BY <2>2, <2>3, <2>4
<1>3. CASE Same(g, h, p)
  <2>1. ~Same(f, g, p) /\ p \in DOMAIN f \union DOMAIN g
    BY <1>3 DEF Same
  <2>2. (p \notin DOMAIN f /\ g[p] = NewDir(Root, Root)) \/ Reach(f, p)
    BY <2>1 DEF Within
  <2>3. p \in DOMAIN g => g[p] = h[p]
    BY <1>3 DEF Same
  <2>4. p \notin DOMAIN f => p \in DOMAIN g
    BY <2>1
  <2>5. QED
    BY <2>2, <2>3, <2>4
<1>4. QED
  BY <1>2, <1>3

LEMMA StepOrder ==
  ASSUME NEW f, Tree(f), NEW u, NEW lines
  PROVE  /\ Step(f, f, u, lines)
         /\ \A g, h : Step(f, g, u, lines) /\ Step(g, h, u, lines) => Step(f, h, u, lines)
<1>1. Step(f, f, u, lines)
  BY DEF Step, Within, Same
<1>2. ASSUME NEW g, NEW h, Step(f, g, u, lines), Step(g, h, u, lines) PROVE Step(f, h, u, lines)
  BY <1>2, WithinOrder DEF Step
<1>3. QED
  BY <1>1, <1>2

\* What changes only in or under something he could write is within his reach.
LEMMA WithinOne ==
  ASSUME NEW f, NEW g, NEW q, CanWrite(EntryAt(f, q), User),
         \A p \in DOMAIN f \union DOMAIN g : Same(f, g, p) \/ Under(p, q)
  PROVE  Within(f, g)
<1>1. q \in DOMAIN f /\ CanWrite(f[q], User)
  BY NotWritable DEF EntryAt
<1>2. QED
  BY <1>1 DEF Within, Reach

-----------------------------------------------------------------------------
\* The ways a map of files is changed

LEMMA PutFacts ==
  ASSUME NEW f, Tree(f), NEW p \in Seq(Nat), NEW e \in Entry, p = <<>> => e.dir
  PROVE  /\ Tree(Put(f, p, e)) /\ DOMAIN Put(f, p, e) = DOMAIN f \union {p}
         /\ Put(f, p, e)[p] = e
         /\ \A q : q # p => Same(f, Put(f, p, e), q)
         /\ Kept(f) /\ Closed(e) => Kept(Put(f, p, e))
<1> DEFINE g == Put(f, p, e)
<1>1. g = [q \in DOMAIN f \union {p} |-> IF q = p THEN e ELSE f[q]]
  BY DEF Put
<1>2. /\ DOMAIN g = DOMAIN f \union {p} /\ g[p] = e /\ \A q \in DOMAIN f : q # p => g[q] = f[q]
      /\ \A q \in DOMAIN g : g[q] \in Entry
  BY <1>1 DEF Tree
<1>3. g = [q \in DOMAIN g |-> g[q]]
  BY <1>1
<1> HIDE DEF g
<1>4. Tree(g)
  <2>1. g \in [DOMAIN g -> Entry]
    BY <1>2, <1>3
  <2>2. DOMAIN g \subseteq Seq(Nat)
    BY <1>2 DEF Tree
  <2>3. <<>> \in DOMAIN g /\ g[<<>>].dir
    BY <1>2 DEF Tree
  <2>4. QED
    BY <2>1, <2>2, <2>3 DEF Tree
<1>5. \A q : q # p => Same(f, g, q)
  BY <1>2 DEF Same
<1>6. Kept(f) /\ Closed(e) => Kept(g)
  BY <1>2 DEF Kept
<1>7. QED
  BY <1>2, <1>4, <1>5, <1>6 DEF g

LEMMA DropFacts ==
  ASSUME NEW f, Tree(f), NEW S, <<>> \notin S
  PROVE  /\ Tree(Drop(f, S)) /\ DOMAIN Drop(f, S) = DOMAIN f \ S
         /\ \A q : q \notin S => Same(f, Drop(f, S), q)
         /\ Kept(f) => Kept(Drop(f, S))
<1> DEFINE g == Drop(f, S)
<1>1. g = [q \in DOMAIN f \ S |-> f[q]]
  BY DEF Drop
<1>2. /\ DOMAIN g = DOMAIN f \ S /\ \A q \in DOMAIN g : g[q] = f[q]
  BY <1>1
<1>3. g = [q \in DOMAIN g |-> g[q]]
  BY <1>1
<1> HIDE DEF g
<1>4. Tree(g)
  <2>1. g \in [DOMAIN g -> Entry]
    BY <1>2, <1>3 DEF Tree
  <2>2. DOMAIN g \subseteq Seq(Nat)
    BY <1>2 DEF Tree
  <2>3. <<>> \in DOMAIN g /\ g[<<>>].dir
    BY <1>2 DEF Tree
  <2>4. QED
    BY <2>1, <2>2, <2>3 DEF Tree
<1>5. \A q : q \notin S => Same(f, g, q)
  BY <1>2 DEF Same
<1>6. Kept(f) => Kept(g)
  BY <1>2 DEF Kept
<1>7. QED
  BY <1>2, <1>4, <1>5, <1>6 DEF g

\* Only what is missing above the path is made, as directories of root's.
LEMMA ParentsFacts ==
  ASSUME NEW f, Tree(f), NEW p \in Seq(Nat)
  PROVE  /\ Tree(EnsureParents(f, p))
         /\ DOMAIN f \subseteq DOMAIN EnsureParents(f, p)
         /\ \A q \in DOMAIN f : EnsureParents(f, p)[q] = f[q]
         /\ \A q \in DOMAIN EnsureParents(f, p) \ DOMAIN f :
              Under(p, q) /\ q # p /\ EnsureParents(f, p)[q] = NewDir(Root, Root)
         /\ Kept(f) => Kept(EnsureParents(f, p))
         /\ Within(f, EnsureParents(f, p))
<1> DEFINE parts == {SubSeq(p, 1, i) : i \in 1 .. Len(p) - 1}
           missing == {q \in parts : q \notin DOMAIN f}
           g == EnsureParents(f, p)
<1>1. ASSUME NEW q \in parts PROVE q \in Seq(Nat) /\ Under(p, q) /\ q # p
  <2>1. PICK i \in 1 .. Len(p) - 1 : q = SubSeq(p, 1, i)
    OBVIOUS
  <2>2. i \in 0 .. Len(p) /\ i # Len(p)
    OBVIOUS
  <2>3. SubSeq(p, 1, i) \in Seq(Nat) /\ Len(SubSeq(p, 1, i)) = i /\ Under(p, SubSeq(p, 1, i))
    BY <2>2, PartFacts
  <2>4. QED
    BY <2>1, <2>2, <2>3
<1>2. g = [q \in DOMAIN f \union missing |-> IF q \in missing THEN NewDir(Root, Root) ELSE f[q]]
  BY DEF EnsureParents
<1>3. /\ NewDir(Root, Root) \in Entry /\ NewDir(Root, Root).dir /\ Closed(NewDir(Root, Root))
  BY NewEntries, NameFacts
<1> HIDE DEF parts
<1>4. \A q \in missing : q \in Seq(Nat) /\ Under(p, q) /\ q # p /\ q \notin DOMAIN f
  BY <1>1
<1> HIDE DEF missing
<1>5. /\ DOMAIN g = DOMAIN f \union missing
      /\ \A q \in DOMAIN f : g[q] = f[q]
      /\ \A q \in missing : g[q] = NewDir(Root, Root)
  BY <1>2, <1>4
<1>6. g = [q \in DOMAIN g |-> g[q]]
  BY <1>2
<1> HIDE DEF g
<1>7. Tree(g)
  <2>1. g \in [DOMAIN g -> Entry]
    BY <1>3, <1>5, <1>6 DEF Tree
  <2>2. DOMAIN g \subseteq Seq(Nat)
    BY <1>4, <1>5 DEF Tree
  <2>3. <<>> \in DOMAIN g /\ g[<<>>].dir
    BY <1>5 DEF Tree
  <2>4. QED
    BY <2>1, <2>2, <2>3 DEF Tree
<1>8. Kept(f) => Kept(g)
  BY <1>3, <1>5 DEF Kept
<1>9. Within(f, g)
  BY <1>5 DEF Within, Same
<1>10. QED
  BY <1>4, <1>5, <1>7, <1>8, <1>9 DEF g

\* One field of one entry is set.
LEMMA SetFacts ==
  ASSUME NEW f, Tree(f), NEW p \in DOMAIN f, NEW e \in Entry, e.dir = f[p].dir, NEW g,
         g = [f EXCEPT ![p] = e]
  PROVE  /\ Tree(g) /\ DOMAIN g = DOMAIN f /\ g[p] = e
         /\ \A q : q # p => Same(f, g, q)
         /\ Kept(f) /\ Closed(e) => Kept(g)
<1>1. DOMAIN g = DOMAIN f /\ g[p] = e /\ \A q \in DOMAIN f : q # p => g[q] = f[q]
  BY DEF Tree
<1>2. g = [q \in DOMAIN g |-> g[q]]
  BY DEF Tree
<1>3. g \in [DOMAIN g -> Entry]
  BY <1>1, <1>2 DEF Tree
<1>4. Tree(g)
  BY <1>1, <1>3 DEF Tree
<1>5. QED
  BY <1>1, <1>4 DEF Same, Kept

-----------------------------------------------------------------------------
\* The operations of State

GoodTrees == {f \in UNION {[D -> Entry] : D \in SUBSET Seq(Nat)} : <<>> \in DOMAIN f /\ f[<<>>].dir}
Outcome == [fs : GoodTrees, ok : BOOLEAN]

LEMMA TreeSet ==
  ASSUME NEW f
  PROVE  f \in GoodTrees <=> Tree(f)
<1>1. ASSUME Tree(f) PROVE f \in GoodTrees
  <2>1. f \in [DOMAIN f -> Entry] /\ DOMAIN f \in SUBSET Seq(Nat)
    BY <1>1 DEF Tree
  <2>2. f \in UNION {[D -> Entry] : D \in SUBSET Seq(Nat)}
    BY <2>1
  <2>3. QED
    BY <1>1, <2>2 DEF GoodTrees, Tree
<1>2. ASSUME f \in GoodTrees PROVE Tree(f)
  <2>1. PICK D \in SUBSET Seq(Nat) : f \in [D -> Entry]
    BY <1>2 DEF GoodTrees
  <2>2. DOMAIN f = D
    BY <2>1
  <2>3. QED
    BY <1>2, <2>1, <2>2 DEF GoodTrees, Tree
<1>3. QED
  BY <1>1, <1>2

LEMMA OutcomeFacts ==
  ASSUME NEW r \in Outcome
  PROVE  Tree(r.fs) /\ r.ok \in BOOLEAN
BY TreeSet DEF Outcome

\* What an operation run by u answers.
Leads(f, r, u, lines) == r \in Outcome /\ Step(f, r.fs, u, lines)

\* An operation that refuses leaves things as they are.
LEMMA Refused ==
  ASSUME NEW f, Tree(f), NEW u, NEW lines, NEW r, NEW ok \in BOOLEAN, r = Result(f, ok)
  PROVE  Leads(f, r, u, lines)
<1>1. r.fs = f /\ r \in Outcome
  BY TreeSet DEF Outcome, Result
<1>2. QED
  BY <1>1, StepOrder DEF Leads

LEMMA Settled ==
  ASSUME NEW f, NEW g, NEW u, NEW lines, Step(f, g, u, lines), NEW r, NEW ok \in BOOLEAN, r = Result(g, ok)
  PROVE  Leads(f, r, u, lines)
<1>1. r.fs = g /\ r \in Outcome
  BY TreeSet DEF Outcome, Result, Step
<1>2. QED
  BY <1>1 DEF Leads

LEMMA ContentFacts ==
  ASSUME NEW old \in Entry, NEW lines \in SUBSET STRING, NEW e, e = [old EXCEPT !.content = lines]
  PROVE  /\ e \in Entry /\ e.dir = old.dir
         /\ Closed(old) /\ (Secret \in lines => Secret \in old.content) => Closed(e)
<1>1. e = [owner |-> old.owner, group |-> old.group, mode |-> old.mode, dir |-> old.dir, content |-> lines]
  BY DEF Entry
<1>2. QED
  BY <1>1 DEF Entry, Closed

LEMMA WriteStep ==
  ASSUME AccountsOK, NEW f, Tree(f), NEW p \in Seq(Nat), NEW lines \in SUBSET STRING,
         NEW u \in {User, Root}, NEW append \in BOOLEAN
  PROVE  Leads(f, WriteFile(f, p, lines, u, append), u, lines)
<1> DEFINE r == WriteFile(f, p, lines, u, append)
<1>1. CASE p \in DOMAIN f
  <2> DEFINE new == IF append THEN f[p].content \union lines ELSE lines
             e == [f[p] EXCEPT !.content = new]
             g == [f EXCEPT ![p] = e]
  <2>1. r = IF CanWrite(f[p], u) THEN Result(g, TRUE) ELSE Result(f, FALSE)
    BY <1>1 DEF WriteFile
  <2>2. new \in SUBSET STRING /\ (Secret \in new => Secret \in lines \union f[p].content)
    BY <1>1 DEF Tree, Entry
  <2> HIDE DEF new
  <2>a. /\ e \in Entry /\ e.dir = f[p].dir
        /\ Closed(f[p]) /\ (Secret \in new => Secret \in f[p].content) => Closed(e)
    <3> DEFINE old == f[p]
    <3>1. old \in Entry /\ new \in SUBSET STRING /\ e = [old EXCEPT !.content = new]
      BY <1>1, <2>2 DEF Tree
    <3> HIDE DEF old, e
    <3>2. /\ e \in Entry /\ e.dir = old.dir
          /\ Closed(old) /\ (Secret \in new => Secret \in old.content) => Closed(e)
      BY <3>1, ContentFacts
    <3>3. QED
      BY <3>2 DEF old
  <2>b. g = [f EXCEPT ![p] = e]
    OBVIOUS
  <2> HIDE DEF e, g
  <2>3. Tree(g) /\ (\A q : q # p => Same(f, g, q)) /\ (Kept(f) /\ Closed(e) => Kept(g))
    BY <1>1, <2>a, <2>b, SetFacts
  <2>c. Kept(f) => Closed(f[p])
    BY <1>1 DEF Kept
  <2>4. CASE CanWrite(f[p], u)
    <3>1. CanWrite(EntryAt(f, p), u) /\ Under(p, p)
      BY <1>1, <2>4, UnderOrder DEF EntryAt
    <3>2. Step(f, g, u, lines)
      <4>1. u = User => Within(f, g)
        <5>1. \A q \in DOMAIN f \union DOMAIN g : Same(f, g, q) \/ Under(q, p)
          BY <2>3, <3>1
        <5>2. QED
          BY <3>1, <5>1, WithinOne
      <4>2. u = User => (Kept(f) /\ Secret \notin lines => Kept(g))
        BY <2>2, <2>3, <2>a, <2>c
      <4>3. QED
        BY <2>3, <4>1, <4>2 DEF Step
    <3>3. r = Result(g, TRUE)
      BY <2>1, <2>4
    <3> HIDE DEF r
    <3>4. Leads(f, r, u, lines)
      BY <3>2, <3>3, Settled
    <3>5. QED
      BY <3>4 DEF r
  <2>5. CASE ~CanWrite(f[p], u)
    <3>1. r = Result(f, FALSE)
      BY <2>1, <2>5
    <3> HIDE DEF r
    <3>2. Leads(f, r, u, lines)
      BY <3>1, Refused
    <3>3. QED
      BY <3>2 DEF r
  <2>6. QED
    BY <2>4, <2>5
<1>2. CASE p \notin DOMAIN f
  <2> DEFINE g == EnsureParents(f, p)
             e == NewFile(u, PrimaryGroup(u), lines)
             h == Put(g, p, e)
  <2>1. r = IF CanWrite(EntryAt(g, ParentOf(p)), u) THEN Result(h, TRUE) ELSE Result(g, FALSE)
    BY <1>2 DEF WriteFile
  <2>2. Tree(g) /\ (Kept(f) => Kept(g)) /\ Within(f, g)
    BY ParentsFacts
  <2>3. Step(f, g, u, lines)
    BY <2>2 DEF Step
  <2>4. p # <<>>
    BY <1>2 DEF Tree
  <2>5. e \in Entry /\ (Secret \notin lines => Closed(e))
    BY GroupFacts, NewEntries
  <2> HIDE DEF g, e
  <2>6. /\ Tree(h) /\ \A q : q # p => Same(g, h, q)
        /\ Kept(g) /\ Closed(e) => Kept(h)
    BY <2>2, <2>4, <2>5, PutFacts
  <2> HIDE DEF h
  <2>7. CASE CanWrite(EntryAt(g, ParentOf(p)), u)
    <3>1. Under(p, ParentOf(p))
      BY ParentFacts
    <3>2. u = User => Within(g, h)
      <4>1. \A q \in DOMAIN g \union DOMAIN h : Same(g, h, q) \/ Under(q, ParentOf(p))
        BY <2>6, <3>1
      <4>2. QED
        BY <2>7, <4>1, WithinOne
    <3>3. Step(g, h, u, lines)
      BY <2>5, <2>6, <3>2 DEF Step
    <3>4. Step(f, h, u, lines)
      BY <2>3, <3>3, StepOrder
    <3>5. r = Result(h, TRUE)
      BY <2>1, <2>7
    <3> HIDE DEF r
    <3>6. Leads(f, r, u, lines)
      BY <3>4, <3>5, Settled
    <3>7. QED
      BY <3>6 DEF r
  <2>8. CASE ~CanWrite(EntryAt(g, ParentOf(p)), u)
    <3>1. r = Result(g, FALSE)
      BY <2>1, <2>8
    <3> HIDE DEF r
    <3>2. Leads(f, r, u, lines)
      BY <2>3, <3>1, Settled
    <3>3. QED
      BY <3>2 DEF r
  <2>9. QED
    BY <2>7, <2>8
<1>3. QED
  BY <1>1, <1>2

LEMMA TouchStep ==
  ASSUME AccountsOK, NEW f, Tree(f), NEW p \in Seq(Nat), NEW u \in {User, Root}
  PROVE  Leads(f, Touch(f, p, u), u, {})
<1>1. Leads(f, WriteFile(f, p, {}, u, FALSE), u, {})
  BY WriteStep
<1>2. CASE p \in DOMAIN f
  <2>1. Touch(f, p, u) = Result(f, TRUE)
    BY <1>2 DEF Touch
  <2>2. QED
    BY <2>1, Refused
<1>3. CASE p \notin DOMAIN f
  <2>1. Touch(f, p, u) = WriteFile(f, p, {}, u, FALSE)
    BY <1>3 DEF Touch
  <2>2. QED
    BY <1>1, <2>1
<1>4. QED
  BY <1>2, <1>3

LEMMA MakeDirStep ==
  ASSUME AccountsOK, NEW f, Tree(f), NEW p \in Seq(Nat), NEW u \in {User, Root}
  PROVE  Leads(f, MakeDir(f, p, u), u, {})
<1> DEFINE e == NewDir(u, PrimaryGroup(u))
           g == Put(f, p, e)
<1>1. e \in Entry /\ e.dir /\ Closed(e)
  BY GroupFacts, NewEntries
<1>2. MakeDir(f, p, u) = IF p \notin DOMAIN f /\ CanWrite(EntryAt(f, ParentOf(p)), u)
                         THEN Result(g, TRUE) ELSE Result(f, FALSE)
  BY DEF MakeDir
<1> HIDE DEF e
<1>3. Tree(g) /\ (\A q : q # p => Same(f, g, q)) /\ (Kept(f) => Kept(g))
  BY <1>1, PutFacts
<1> HIDE DEF g
<1>4. CASE p \notin DOMAIN f /\ CanWrite(EntryAt(f, ParentOf(p)), u)
  <2>1. Under(p, ParentOf(p))
    BY ParentFacts
  <2>2. u = User => Within(f, g)
    <3>1. \A q \in DOMAIN f \union DOMAIN g : Same(f, g, q) \/ Under(q, ParentOf(p))
      BY <1>3, <2>1
    <3>2. QED
      BY <1>4, <3>1, WithinOne
  <2>3. Step(f, g, u, {})
    BY <1>3, <2>2 DEF Step
  <2>4. MakeDir(f, p, u) = Result(g, TRUE)
    BY <1>2, <1>4
  <2>5. QED
    BY <2>3, <2>4, Settled
<1>5. CASE ~(p \notin DOMAIN f /\ CanWrite(EntryAt(f, ParentOf(p)), u))
  <2>1. MakeDir(f, p, u) = Result(f, FALSE)
    BY <1>2, <1>5
  <2>2. QED
    BY <2>1, Refused
<1>6. QED
  BY <1>4, <1>5

LEMMA RemoveStep ==
  ASSUME NEW f, Tree(f), NEW p \in Seq(Nat), NEW u \in {User, Root}
  PROVE  Leads(f, RemoveEntry(f, p, u), u, {})
<1> DEFINE gone == IF f[p].dir THEN Subtree(f, p) ELSE {p}
           g == Drop(f, gone)
<1>1. RemoveEntry(f, p, u) = IF p \in DOMAIN f /\ p # <<>> /\ CanWrite(EntryAt(f, ParentOf(p)), u)
                             THEN Result(g, TRUE) ELSE Result(f, FALSE)
  BY DEF RemoveEntry
<1>2. CASE p \in DOMAIN f /\ p # <<>> /\ CanWrite(EntryAt(f, ParentOf(p)), u)
  <2>1. ASSUME NEW q \in gone PROVE q \in Seq(Nat) /\ Under(q, p)
    <3>1. q \in DOMAIN f \/ q = p
      BY DEF Subtree
    <3>2. q \in Seq(Nat)
      BY <3>1 DEF Tree
    <3>3. Under(p, p)
      BY UnderOrder
    <3>4. QED
      BY <3>2, <3>3 DEF Subtree
  <2>2. <<>> \notin gone
    BY <1>2, <2>1, RootFacts
  <2>3. \A q \in gone : Under(q, ParentOf(p))
    <3>1. ParentOf(p) \in Seq(Nat) /\ Under(p, ParentOf(p))
      BY ParentFacts
    <3>2. QED
      BY <2>1, <3>1, UnderOrder
  <2> HIDE DEF gone
  <2>4. Tree(g) /\ (\A q : q \notin gone => Same(f, g, q)) /\ (Kept(f) => Kept(g))
    BY <2>2, DropFacts
  <2> HIDE DEF g
  <2>5. u = User => Within(f, g)
    <3>1. \A q \in DOMAIN f \union DOMAIN g : Same(f, g, q) \/ Under(q, ParentOf(p))
      BY <2>3, <2>4
    <3>2. QED
      BY <1>2, <3>1, WithinOne
  <2>6. Step(f, g, u, {})
    BY <2>4, <2>5 DEF Step
  <2>7. RemoveEntry(f, p, u) = Result(g, TRUE)
    BY <1>1, <1>2 DEF g
  <2>8. QED
    BY <2>6, <2>7, Settled
<1>3. CASE ~(p \in DOMAIN f /\ p # <<>> /\ CanWrite(EntryAt(f, ParentOf(p)), u))
  <2>1. RemoveEntry(f, p, u) = Result(f, FALSE)
    BY <1>1, <1>3
  <2>2. QED
    BY <2>1, Refused
<1>4. QED
  BY <1>2, <1>3

LEMMA MakePartStep ==
  ASSUME AccountsOK, NEW acc \in Outcome, NEW q \in Seq(Nat), NEW u \in {User, Root}
  PROVE  Leads(acc.fs, MakePart(acc, q, u), u, {})
<1> DEFINE r == MakePart(acc, q, u)
<1>0. Tree(acc.fs)
  BY OutcomeFacts
<1>1. CASE ~acc.ok
  <2>1. r = acc
    BY <1>1 DEF MakePart
  <2>2. QED
    BY <1>0, <2>1, StepOrder DEF Leads
<1>2. CASE acc.ok /\ q \in DOMAIN acc.fs
  <2>1. r = Result(acc.fs, acc.fs[q].dir)
    BY <1>2 DEF MakePart
  <2>2. acc.fs[q].dir \in BOOLEAN
    BY <1>0, <1>2 DEF Tree, Entry
  <2> HIDE DEF r
  <2>3. Leads(acc.fs, r, u, {})
    BY <1>0, <2>1, <2>2, Refused
  <2>4. QED
    BY <2>3 DEF r
<1>3. CASE acc.ok /\ q \notin DOMAIN acc.fs
  <2>1. r = MakeDir(acc.fs, q, u)
    BY <1>3 DEF MakePart
  <2>2. Leads(acc.fs, MakeDir(acc.fs, q, u), u, {})
    BY <1>0, MakeDirStep
  <2>3. QED
    BY <2>1, <2>2
<1>4. QED
  BY <1>1, <1>2, <1>3

LEMMA MakeDirAllStep ==
  ASSUME AccountsOK, NEW f, Tree(f), NEW p \in Seq(Nat), NEW u \in {User, Root}
  PROVE  Leads(f, MakeDirAll(f, p, u), u, {})
<1>1. CASE p \in DOMAIN f
  <2>1. MakeDirAll(f, p, u) = Result(f, f[p].dir)
    BY <1>1 DEF MakeDirAll
  <2>2. f[p].dir \in BOOLEAN
    BY <1>1 DEF Tree, Entry
  <2>3. QED
    BY <2>1, <2>2, Refused
<1>2. CASE p \notin DOMAIN f
  <2> DEFINE parts == [i \in 1 .. Len(p) |-> SubSeq(p, 1, i)]
             n == Len(parts)
             base == Result(f, TRUE)
             Op(acc, q) == MakePart(acc, q, u)
             Is(m) == m = [i \in 0 .. n |-> IF i = 0 THEN base ELSE Op(m[i - 1], parts[i])]
             g == [i \in 1 .. n |-> [acc \in Outcome |-> Op(acc, parts[i])]]
             made == CHOOSE m : Is(m)
             T == {i \in 0 .. n : Leads(f, made[i], u, {})}
  <2>1. MakeDirAll(f, p, u) = made[n]
    BY <1>2 DEF MakeDirAll, Over
  <2>2. n \in Nat /\ \A i \in 1 .. n : parts[i] \in Seq(Nat)
    <3>1. Len(p) \in Nat /\ n = Len(p)
      OBVIOUS
    <3>2. SUFFICES ASSUME NEW i \in 1 .. n PROVE parts[i] \in Seq(Nat)
      BY <3>1
    <3>3. i \in 0 .. Len(p) /\ parts[i] = SubSeq(p, 1, i)
      BY <3>1
    <3>4. SubSeq(p, 1, i) \in Seq(Nat)
      BY <3>3, PartFacts
    <3>5. QED
      BY <3>3, <3>4
  <2> HIDE DEF n, parts
  <2>3. ASSUME NEW acc \in Outcome, NEW i \in 1 .. n
        PROVE  Op(acc, parts[i]) \in Outcome /\ Step(acc.fs, Op(acc, parts[i]).fs, u, {})
    <3>1. parts[i] \in Seq(Nat)
      BY <2>2
    <3>2. Leads(acc.fs, MakePart(acc, parts[i], u), u, {})
      BY <3>1, MakePartStep
    <3>3. QED
      BY <3>2 DEF Leads
  <2> HIDE DEF Op
  <2>4. Leads(f, base, u, {}) /\ base \in Outcome
    BY Refused DEF Leads
  <2>5. g \in [1 .. n -> [Outcome -> Outcome]]
    BY <2>3
  <2>6. PICK h : Goes(h, Outcome, base, n, g)
    BY <2>2, <2>4, <2>5, GoesOn
  <2>7. Is(h)
    <3>1. ASSUME NEW i \in 1 .. n PROVE h[i] = Op(h[i - 1], parts[i])
      <4>1. i - 1 \in 0 .. n
        BY <2>2
      <4>2. h[i] = g[i][h[i - 1]] /\ h[i - 1] \in Outcome
        BY <2>6, <4>1 DEF Goes
      <4>3. QED
        BY <4>2
    <3>2. h \in [0 .. n -> Outcome] /\ h[0] = base
      BY <2>6 DEF Goes
    <3>3. \A i \in 0 .. n : i = 0 \/ i \in 1 .. n
      BY <2>2
    <3>4. \A i \in 0 .. n : h[i] = IF i = 0 THEN base ELSE Op(h[i - 1], parts[i])
      BY <3>1, <3>2, <3>3
    <3>5. QED
      BY <3>2, <3>4
  <2>8. Is(made)
    BY <2>7
  <2> HIDE DEF made, base
  <2>9. \A i \in 0 .. n : made[i] = IF i = 0 THEN base ELSE Op(made[i - 1], parts[i])
    BY <2>8
  <2>10. 0 \in T
    BY <2>2, <2>4, <2>9
  <2>11. ASSUME NEW i \in 1 .. n, i - 1 \in T PROVE i \in T
    <3> DEFINE acc == made[i - 1]
    <3>1. i \in 0 .. n /\ i # 0
      BY <2>2
    <3>2. made[i] = Op(acc, parts[i])
      BY <2>9, <3>1
    <3>3. acc \in Outcome /\ Step(f, acc.fs, u, {})
      BY <2>11 DEF Leads
    <3> HIDE DEF acc
    <3>4. made[i] \in Outcome /\ Step(acc.fs, made[i].fs, u, {})
      BY <2>3, <3>2, <3>3
    <3>5. Step(f, made[i].fs, u, {})
      BY <3>3, <3>4, StepOrder
    <3>6. QED
      BY <3>1, <3>4, <3>5 DEF Leads
  <2> HIDE DEF T
  <2>12. \A i \in 0 .. n : i \in T
    BY <2>2, <2>10, <2>11, Climb
  <2>13. n \in T
    BY <2>2, <2>12
  <2>14. QED
    BY <2>1, <2>13 DEF T
<1>3. QED
  BY <1>1, <1>2

\* chmod and chown change no more than the modes, owners and groups of what
\* is there; run by the participant, the modes of what is his.
Owned(f, g) ==
  /\ DOMAIN g = DOMAIN f
  /\ \A p \in DOMAIN f : g[p].owner = f[p].owner /\ (g[p] # f[p] => f[p].owner = User)
Mine(f, g, u) ==
  /\ Tree(g)
  /\ u = User => (Kept(f) => Kept(g)) /\ Owned(f, g)

LEMMA MineOrder ==
  ASSUME NEW f, Tree(f), NEW u
  PROVE  /\ Mine(f, f, u)
         /\ \A g, h : Mine(f, g, u) /\ Mine(g, h, u) => Mine(f, h, u)
<1>1. Mine(f, f, u)
  BY DEF Mine, Owned
<1>2. ASSUME NEW g, NEW h, Mine(f, g, u), Mine(g, h, u) PROVE Mine(f, h, u)
  <2>1. ASSUME u = User PROVE Owned(f, h)
    BY <1>2, <2>1 DEF Mine, Owned
  <2>2. QED
    BY <1>2, <2>1 DEF Mine
<1>3. QED
  BY <1>1, <1>2

LEMMA MineAnswer ==
  ASSUME NEW f, NEW g, NEW u, Mine(f, g, u), NEW ok \in BOOLEAN, NEW r, r = Result(g, ok)
  PROVE  r \in Outcome /\ Mine(f, r.fs, u)
BY TreeSet DEF Outcome, Result, Mine

LEMMA ChmodMine ==
  ASSUME NEW f, Tree(f), NEW p \in Seq(Nat), NEW mode \in Modes, NEW u \in {User, Root}
  PROVE  Chmod(f, p, mode, u) \in Outcome /\ Mine(f, Chmod(f, p, mode, u).fs, u)
<1> DEFINE g == [f EXCEPT ![p].mode = mode]
           r == Chmod(f, p, mode, u)
<1>1. CASE p \in DOMAIN f /\ (u = Root \/ f[p].owner = u)
  <2>1. r = Result(g, TRUE)
    BY <1>1 DEF Chmod
  <2>2. f[p] \in Entry
    BY <1>1 DEF Tree
  <2> DEFINE e == [owner |-> f[p].owner, group |-> f[p].group, mode |-> mode,
                   dir |-> f[p].dir, content |-> f[p].content]
  <2>3. [f[p] EXCEPT !.mode = mode] = e
    <3> DEFINE old == f[p]
    <3>1. old \in Entry
      BY <2>2
    <3> HIDE DEF old
    <3>2. [old EXCEPT !.mode = mode]
            = [owner |-> old.owner, group |-> old.group, mode |-> mode, dir |-> old.dir, content |-> old.content]
      BY <3>1 DEF Entry
    <3>3. QED
      BY <3>2 DEF old
  <2>4. e \in Entry /\ e.dir = f[p].dir /\ e.owner = f[p].owner
    BY <2>2 DEF Entry
  <2>5. u = User /\ Closed(f[p]) => Closed(e)
    <3>1. u = User => f[p].owner = User
      BY <1>1, NameFacts
    <3>2. e.content = f[p].content
      OBVIOUS
    <3>3. QED
      BY <3>1, <3>2 DEF Closed
  <2>6. g = [f EXCEPT ![p] = e]
    BY <2>3
  <2> HIDE DEF e, g
  <2>7. /\ Tree(g) /\ DOMAIN g = DOMAIN f /\ g[p] = e
        /\ \A q : q # p => Same(f, g, q)
        /\ Kept(f) /\ Closed(e) => Kept(g)
    BY <1>1, <2>4, <2>6, SetFacts
  <2>8. Kept(f) => Closed(f[p])
    BY <1>1 DEF Kept
  <2>9. u = User => Owned(f, g)
    <3>1. \A q \in DOMAIN f : q # p => g[q] = f[q]
      BY <2>7 DEF Same
    <3>2. u = User => f[p].owner = User
      BY <1>1, NameFacts
    <3>3. QED
      BY <2>4, <2>7, <3>1, <3>2 DEF Owned
  <2>10. Mine(f, g, u)
    BY <2>5, <2>7, <2>8, <2>9 DEF Mine
  <2>11. QED
    BY <2>1, <2>10, MineAnswer
<1>2. CASE ~(p \in DOMAIN f /\ (u = Root \/ f[p].owner = u))
  <2>1. r = Result(f, FALSE)
    BY <1>2 DEF Chmod
  <2>2. QED
    BY <2>1, MineOrder, MineAnswer
<1>3. QED
  BY <1>1, <1>2

LEMMA ChownMine ==
  ASSUME NEW f, Tree(f), NEW p \in Seq(Nat), NEW owner \in {User, Root},
         NEW group, group = "" \/ group \in STRING,
         NEW u \in {User, Root}
  PROVE  Chown(f, p, owner, group, u) \in Outcome /\ Mine(f, Chown(f, p, owner, group, u).fs, u)
<1> DEFINE to == IF group = "" THEN f[p].group ELSE group
           r == Chown(f, p, owner, group, u)
           e == [owner |-> owner, group |-> to, mode |-> f[p].mode,
                 dir |-> f[p].dir, content |-> f[p].content]
           g == [f EXCEPT ![p] = e]
<1>1. CASE u = Root /\ p \in DOMAIN f
  <2>1. f[p] \in Entry
    BY <1>1 DEF Tree
  <2>2. to \in STRING
    BY <2>1 DEF Entry
  <2> DEFINE new == [f[p] EXCEPT !.owner = owner, !.group = to]
  <2>3. r = Result([f EXCEPT ![p] = new], TRUE)
    BY <1>1 DEF Chown
  <2> HIDE DEF to
  <2>4. new = e
    <3> DEFINE old == f[p]
               half == [owner |-> owner, group |-> old.group, mode |-> old.mode,
                        dir |-> old.dir, content |-> old.content]
    <3>1. old \in Entry /\ owner \in {User, Root, NewUser}
      BY <2>1
    <3> HIDE DEF old
    <3>2. half \in Entry
      BY <3>1 DEF Entry
    <3>3. [old EXCEPT !.owner = owner] = half
      BY ONLY <3>1 DEF Entry, half
    <3> HIDE DEF half
    <3>4. [half EXCEPT !.group = to]
            = [owner |-> half.owner, group |-> to, mode |-> half.mode, dir |-> half.dir, content |-> half.content]
      BY ONLY <2>2, <3>2 DEF Entry
    <3>5. [[old EXCEPT !.owner = owner] EXCEPT !.group = to]
            = [owner |-> owner, group |-> to, mode |-> old.mode, dir |-> old.dir, content |-> old.content]
      BY <3>3, <3>4 DEF half
    <3>6. QED
      BY <3>5 DEF old
  <2>5. e \in Entry /\ e.dir = f[p].dir
    BY <2>1, <2>2 DEF Entry
  <2> HIDE DEF new
  <2>6. r = Result(g, TRUE) /\ g = [f EXCEPT ![p] = e]
    BY <2>3, <2>4
  <2> HIDE DEF e, g
  <2>7. Tree(g)
    BY <1>1, <2>5, <2>6, SetFacts
  <2>8. Mine(f, g, u)
    BY <1>1, <2>7, NameFacts DEF Mine
  <2>9. QED
    BY <2>6, <2>8, MineAnswer
<1>2. CASE ~(u = Root /\ p \in DOMAIN f)
  <2>1. r = Result(f, FALSE)
    BY <1>2 DEF Chown
  <2>2. QED
    BY <2>1, MineOrder, MineAnswer
<1>3. QED
  BY <1>1, <1>2

-----------------------------------------------------------------------------
\* Paths as they are typed

LEMMA NormalType ==
  ASSUME cwd \in Seq(Nat), NEW o \in Operands
  PROVE  NormalizePath(o) \in Seq(Nat)
<1> DEFINE n == Len(o.steps)
           base == IF o.abs THEN <<>> ELSE cwd
           Op(p, name) == IF name = Up THEN ParentOf(p) ELSE Append(p, name)
           Is(m) == m = [i \in 0 .. n |-> IF i = 0 THEN base ELSE Op(m[i - 1], o.steps[i])]
           g == [i \in 1 .. n |-> [p \in Seq(Nat) |-> Op(p, o.steps[i])]]
           made == CHOOSE m : Is(m)
           T == {i \in 0 .. n : made[i] \in Seq(Nat)}
<1>1. NormalizePath(o) = made[n]
  BY DEF NormalizePath, Over
<1>2. n \in Nat /\ (\A i \in 1 .. n : o.steps[i] \in Nat) /\ base \in Seq(Nat)
  <2>1. o.steps \in Seq(Nat)
    BY FilesAssumption
  <2>2. QED
    BY <2>1
<1>3. ASSUME NEW p \in Seq(Nat), NEW name \in Nat PROVE Op(p, name) \in Seq(Nat)
  <2>1. ParentOf(p) \in Seq(Nat)
    BY ParentFacts
  <2>2. Append(p, name) \in Seq(Nat)
    OBVIOUS
  <2>3. QED
    BY <2>1, <2>2
<1> HIDE DEF n, Op, base
<1>4. g \in [1 .. n -> [Seq(Nat) -> Seq(Nat)]]
  BY <1>2, <1>3
<1>5. PICK h : Goes(h, Seq(Nat), base, n, g)
  BY <1>2, <1>4, GoesOn
<1>6. Is(h)
  <2>1. ASSUME NEW i \in 1 .. n PROVE h[i] = Op(h[i - 1], o.steps[i])
    <3>1. i - 1 \in 0 .. n
      BY <1>2
    <3>2. h[i] = g[i][h[i - 1]] /\ h[i - 1] \in Seq(Nat)
      BY <1>5, <3>1 DEF Goes
    <3>3. QED
      BY <3>2
  <2>2. h \in [0 .. n -> Seq(Nat)] /\ h[0] = base
    BY <1>5 DEF Goes
  <2>3. \A i \in 0 .. n : i = 0 \/ i \in 1 .. n
    BY <1>2
  <2>4. \A i \in 0 .. n : h[i] = IF i = 0 THEN base ELSE Op(h[i - 1], o.steps[i])
    BY <2>1, <2>2, <2>3
  <2>5. QED
    BY <2>2, <2>4
<1>7. Is(made)
  BY <1>6
<1> HIDE DEF made
<1>8. \A i \in 0 .. n : made[i] = IF i = 0 THEN base ELSE Op(made[i - 1], o.steps[i])
  BY <1>7
<1>9. 0 \in T
  BY <1>2, <1>8
<1>10. ASSUME NEW i \in 1 .. n, i - 1 \in T PROVE i \in T
  <2>1. i \in 0 .. n /\ i # 0
    BY <1>2
  <2>2. made[i] = Op(made[i - 1], o.steps[i]) /\ made[i - 1] \in Seq(Nat)
    BY <1>8, <1>10, <2>1
  <2>3. QED
    BY <1>2, <1>3, <2>1, <2>2
<1> HIDE DEF T
<1>11. \A i \in 0 .. n : i \in T
  BY <1>2, <1>9, <1>10, Climb
<1>12. n \in T
  BY <1>2, <1>11
<1>13. QED
  BY <1>1, <1>12 DEF T

-----------------------------------------------------------------------------
\* Commands that take their operands in turn

GoodCommand(c) ==
  \/ c.verb = "tee" /\ c.lines \in SUBSET STRING
  \/ c.verb = "touch"
  \/ c.verb = "mkdir" /\ c.parents \in BOOLEAN
  \/ c.verb = "rm" /\ c.recursive \in BOOLEAN /\ c.force \in BOOLEAN
  \/ c.verb = "chmod" /\ c.mode \in Modes
  \/ c.verb = "chown" /\ c.owner \in {User, Root} /\ (c.group = "" \/ c.group \in STRING)

Brings(c) == IF c.verb = "tee" THEN c.lines ELSE {}

\* What such a command may make of a tree.
Fits(c, f, g, u) == IF c.verb \in {"chmod", "chown"} THEN Mine(f, g, u) ELSE Step(f, g, u, Brings(c))

LEMMA FitsOrder ==
  ASSUME NEW c, NEW f, Tree(f), NEW u
  PROVE  /\ Fits(c, f, f, u)
         /\ \A g, h : Fits(c, f, g, u) /\ Fits(c, g, h, u) => Fits(c, f, h, u)
         /\ \A g : Fits(c, f, g, u) => Tree(g)
<1>1. Fits(c, f, f, u)
  BY StepOrder, MineOrder DEF Fits
<1>2. ASSUME NEW g, NEW h, Fits(c, f, g, u), Fits(c, g, h, u) PROVE Fits(c, f, h, u)
  BY <1>2, StepOrder, MineOrder DEF Fits
<1>3. \A g : Fits(c, f, g, u) => Tree(g)
  BY DEF Fits, Step, Mine
<1>4. QED
  BY <1>1, <1>2, <1>3

LEMMA BringsNothing ==
  ASSUME NEW f, NEW r, NEW u, NEW lines, Leads(f, r, u, {})
  PROVE  r \in Outcome /\ Step(f, r.fs, u, lines)
BY DEF Leads, Step

LEMMA OperandFits ==
  ASSUME AccountsOK, NEW c, GoodCommand(c), NEW f, Tree(f), NEW p \in Seq(Nat), NEW u \in {User, Root}
  PROVE  Operand(c, f, p, u) \in Outcome /\ Fits(c, f, Operand(c, f, p, u).fs, u)
<1> DEFINE r == Operand(c, f, p, u)
<1>1. CASE c.verb = "tee"
  <2>1. r = WriteFile(f, p, c.lines, u, FALSE)
    BY <1>1 DEF Operand
  <2>2. c.lines \in SUBSET STRING
    BY <1>1 DEF GoodCommand
  <2>3. Leads(f, WriteFile(f, p, c.lines, u, FALSE), u, c.lines)
    BY <2>2, WriteStep
  <2>4. r \in Outcome /\ Step(f, r.fs, u, c.lines)
    BY <2>1, <2>3 DEF Leads
  <2>5. QED
    BY <1>1, <2>4 DEF Fits, Brings
<1>2. CASE c.verb = "touch"
  <2>1. r = Touch(f, p, u)
    BY <1>2 DEF Operand
  <2>2. Leads(f, Touch(f, p, u), u, {})
    BY TouchStep
  <2>3. QED
    BY <1>2, <2>1, <2>2, BringsNothing DEF Fits
<1>3. CASE c.verb = "mkdir"
  <2>1. r = IF c.parents THEN MakeDirAll(f, p, u) ELSE MakeDir(f, p, u)
    BY <1>3 DEF Operand
  <2>2. Leads(f, MakeDirAll(f, p, u), u, {})
    BY MakeDirAllStep
  <2>3. Leads(f, MakeDir(f, p, u), u, {})
    BY MakeDirStep
  <2>4. Leads(f, r, u, {})
    BY <2>1, <2>2, <2>3
  <2>5. QED
    BY <1>3, <2>4, BringsNothing DEF Fits
<1>4. CASE c.verb = "rm"
  <2>1. r = RemoveOperand(f, p, u, c.recursive, c.force)
    BY <1>4 DEF Operand
  <2>2. \/ \E ok \in BOOLEAN : r = Result(f, ok)
        \/ r = RemoveEntry(f, p, u)
    <3>1. c.force \in BOOLEAN
      BY <1>4 DEF GoodCommand
    <3>2. QED
      BY <2>1, <3>1 DEF RemoveOperand
  <2>3. Leads(f, RemoveEntry(f, p, u), u, {})
    BY RemoveStep
  <2>4. \A ok \in BOOLEAN : r = Result(f, ok) => Leads(f, r, u, {})
    <3> HIDE DEF r
    <3>1. QED
      BY Refused
  <2>5. Leads(f, r, u, {})
    BY <2>2, <2>3, <2>4
  <2>6. QED
    BY <1>4, <2>5, BringsNothing DEF Fits
<1>5. CASE c.verb = "chmod"
  <2>1. r = Chmod(f, p, c.mode, u)
    BY <1>5 DEF Operand
  <2>2. c.mode \in Modes
    BY <1>5 DEF GoodCommand
  <2>3. Chmod(f, p, c.mode, u) \in Outcome /\ Mine(f, Chmod(f, p, c.mode, u).fs, u)
    BY <2>2, ChmodMine
  <2>4. QED
    BY <1>5, <2>1, <2>3 DEF Fits
<1>6. CASE c.verb = "chown"
  <2>1. r = Chown(f, p, c.owner, c.group, u)
    BY <1>6 DEF Operand
  <2>2. c.owner \in {User, Root} /\ (c.group = "" \/ c.group \in STRING)
    BY <1>6 DEF GoodCommand
  <2>3. Chown(f, p, c.owner, c.group, u) \in Outcome /\ Mine(f, Chown(f, p, c.owner, c.group, u).fs, u)
    BY <2>2, ChownMine
  <2>4. QED
    BY <1>6, <2>1, <2>3 DEF Fits
<1>7. QED
  BY <1>1, <1>2, <1>3, <1>4, <1>5, <1>6 DEF GoodCommand

LEMMA EachFits ==
  ASSUME AccountsOK, cwd \in Seq(Nat), NEW c, GoodCommand(c), NEW f, Tree(f), NEW list \in Seq(Operands),
         NEW u \in {User, Root}
  PROVE  Each(c, f, list, u) \in Outcome /\ Fits(c, f, Each(c, f, list, u).fs, u)
<1> DEFINE n == Len(list)
           base == Result(f, TRUE)
           Op(acc, o) == IF acc.ok THEN Operand(c, acc.fs, NormalizePath(o), u) ELSE acc
           Is(m) == m = [i \in 0 .. n |-> IF i = 0 THEN base ELSE Op(m[i - 1], list[i])]
           g == [i \in 1 .. n |-> [acc \in Outcome |-> Op(acc, list[i])]]
           made == CHOOSE m : Is(m)
           T == {i \in 0 .. n : made[i] \in Outcome /\ Fits(c, f, made[i].fs, u)}
<1>1. Each(c, f, list, u) = made[n]
  BY DEF Each, Over
<1>2. n \in Nat /\ \A i \in 1 .. n : list[i] \in Operands
  OBVIOUS
<1> HIDE DEF n
<1>3. ASSUME NEW acc \in Outcome, NEW i \in 1 .. n
      PROVE  Op(acc, list[i]) \in Outcome /\ Fits(c, acc.fs, Op(acc, list[i]).fs, u)
  <2> DEFINE p == NormalizePath(list[i])
  <2>1. p \in Seq(Nat)
    BY <1>2, NormalType
  <2>2. Tree(acc.fs)
    BY OutcomeFacts
  <2> HIDE DEF p
  <2>3. Operand(c, acc.fs, p, u) \in Outcome /\ Fits(c, acc.fs, Operand(c, acc.fs, p, u).fs, u)
    BY <2>1, <2>2, OperandFits
  <2>4. Fits(c, acc.fs, acc.fs, u)
    BY <2>2, FitsOrder
  <2>5. QED
    BY <2>3, <2>4 DEF p
<1> HIDE DEF Op
<1>4. base \in Outcome /\ base.fs = f
  BY TreeSet DEF Outcome, Result
<1>5. g \in [1 .. n -> [Outcome -> Outcome]]
  BY <1>3
<1>6. PICK h : Goes(h, Outcome, base, n, g)
  BY <1>2, <1>4, <1>5, GoesOn
<1>7. Is(h)
  <2>1. ASSUME NEW i \in 1 .. n PROVE h[i] = Op(h[i - 1], list[i])
    <3>1. i - 1 \in 0 .. n
      BY <1>2
    <3>2. h[i] = g[i][h[i - 1]] /\ h[i - 1] \in Outcome
      BY <1>6, <3>1 DEF Goes
    <3>3. QED
      BY <3>2
  <2>2. h \in [0 .. n -> Outcome] /\ h[0] = base
    BY <1>6 DEF Goes
  <2>3. \A i \in 0 .. n : i = 0 \/ i \in 1 .. n
    BY <1>2
  <2>4. \A i \in 0 .. n : h[i] = IF i = 0 THEN base ELSE Op(h[i - 1], list[i])
    BY <2>1, <2>2, <2>3
  <2>5. QED
    BY <2>2, <2>4
<1>8. Is(made)
  BY <1>7
<1> HIDE DEF made, base
<1>9. \A i \in 0 .. n : made[i] = IF i = 0 THEN base ELSE Op(made[i - 1], list[i])
  BY <1>8
<1>10. 0 \in T
  <2>1. Fits(c, f, f, u)
    BY FitsOrder
  <2>2. 0 \in 0 .. n /\ made[0] = base
    BY <1>2, <1>9
  <2>3. QED
    BY <1>4, <2>1, <2>2
<1>11. ASSUME NEW i \in 1 .. n, i - 1 \in T PROVE i \in T
  <2> DEFINE acc == made[i - 1]
  <2>1. i \in 0 .. n /\ i # 0
    BY <1>2
  <2>2. made[i] = Op(acc, list[i])
    BY <1>9, <2>1
  <2>3. acc \in Outcome /\ Fits(c, f, acc.fs, u)
    BY <1>11
  <2> HIDE DEF acc
  <2>4. made[i] \in Outcome /\ Fits(c, acc.fs, made[i].fs, u)
    BY <1>3, <2>2, <2>3
  <2>5. Fits(c, f, made[i].fs, u)
    BY <2>3, <2>4, FitsOrder
  <2>6. QED
    BY <2>1, <2>4, <2>5
<1> HIDE DEF T
<1>12. \A i \in 0 .. n : i \in T
  BY <1>2, <1>10, <1>11, Climb
<1>13. n \in T
  BY <1>2, <1>12
<1>14. QED
  BY <1>1, <1>13 DEF T

-----------------------------------------------------------------------------
\* Copying a directory

Apart(src, dst) == ~Under(src, dst) /\ ~Under(dst, src)

\* What the copy has brought: at the new place of each of these paths there is
\* what was at the old one.
Arrived(f, h, src, dst, p) ==
  Rebase(p, src, dst) \in DOMAIN h /\ h[Rebase(p, src, dst)] = f[p]

\* What is under the source is not under an unrelated destination.
LEMMA ApartUnder ==
  ASSUME NEW src \in Seq(Nat), NEW dst \in Seq(Nat), Apart(src, dst), NEW p \in Seq(Nat)
  PROVE  ~(Under(p, src) /\ Under(p, dst))
BY UnderOrder DEF Apart

LEMMA RebaseSelf ==
  ASSUME NEW src \in Seq(Nat), NEW dst \in Seq(Nat)
  PROVE  Rebase(src, src, dst) = dst
<1> DEFINE to == Rebase(src, src, dst)
<1>1. Under(src, src)
  BY UnderOrder
<1>2. to \in Seq(Nat) /\ Under(to, dst) /\ Len(to) = Len(dst) + Len(src) - Len(src)
  BY <1>1, RebaseFacts
<1> HIDE DEF to
<1>3. Len(to) = Len(dst)
  BY <1>2
<1>4. \A i \in 1 .. Len(dst) : to[i] = dst[i]
  BY <1>2, UnderNames
<1>5. to = dst
  BY <1>2, <1>3, <1>4, SeqEqual
<1>6. QED
  BY <1>5 DEF to

LEMMA CopyTreeFacts ==
  ASSUME NEW f, Tree(f), NEW src \in Seq(Nat), NEW dst \in Seq(Nat), dst # <<>>,
         IsFiniteSet(Subtree(f, src))
  PROVE  /\ Tree(CopyTree(f, src, dst))
         /\ Kept(f) => Kept(CopyTree(f, src, dst))
         /\ \A p : ~Under(p, dst) => Same(f, CopyTree(f, src, dst), p)
         /\ Apart(src, dst) => \A p \in Subtree(f, src) : Arrived(f, CopyTree(f, src, dst), src, dst, p)
<1> DEFINE S == Subtree(f, src)
           order == Sorted(S)
           n == Len(order)
           A == {h \in GoodTrees : S \subseteq DOMAIN h}
           Op(h, p) == Put(h, Rebase(p, src, dst), h[p])
           Is(m) == m = [i \in 0 .. n |-> IF i = 0 THEN f ELSE Op(m[i - 1], order[i])]
           g == [i \in 1 .. n |-> [h \in A |-> Op(h, order[i])]]
           made == CHOOSE m : Is(m)
           Good(i) == /\ made[i] \in A
                      /\ Kept(f) => Kept(made[i])
                      /\ \A p : ~Under(p, dst) => Same(f, made[i], p)
                      /\ Apart(src, dst) => \A j \in 1 .. i : Arrived(f, made[i], src, dst, order[j])
           T == {i \in 0 .. n : Good(i)}
<1>1. CopyTree(f, src, dst) = made[n]
  BY DEF CopyTree, Over
<1>2. S \in SUBSET Seq(Nat) /\ IsFiniteSet(S) /\ \A p \in S : p \in DOMAIN f /\ Under(p, src)
  BY DEF Subtree, Tree
<1>3. f \in A
  BY <1>2, TreeSet
<1> HIDE DEF S
<1>4. /\ n \in Nat /\ (\A i \in 1 .. n : order[i] \in S)
      /\ \A p \in S : \E i \in 1 .. n : order[i] = p
  <2>1. /\ order \in Seq(S) /\ Len(order) = Cardinality(S) /\ Cardinality(S) \in Nat
        /\ \A p \in S : \E i \in 1 .. Cardinality(S) : order[i] = p
    BY <1>2, SortedFacts
  <2> HIDE DEF order
  <2>2. QED
    BY <2>1
<1> HIDE DEF order, n
<1>5. ASSUME NEW h \in A, NEW p \in S
      PROVE  LET to == Rebase(p, src, dst) IN
             /\ Op(h, p) \in A /\ Under(to, dst)
             /\ DOMAIN Op(h, p) = DOMAIN h \union {to} /\ Op(h, p)[to] = h[p]
             /\ \A q : q # to => Same(h, Op(h, p), q)
             /\ Kept(h) => Kept(Op(h, p))
  <2> DEFINE to == Rebase(p, src, dst)
             e == h[p]
  <2>1. to \in Seq(Nat) /\ Under(to, dst) /\ to # <<>>
    BY <1>2, RebaseFacts
  <2>2. Tree(h) /\ p \in DOMAIN h /\ S \subseteq DOMAIN h
    BY TreeSet
  <2>3. e \in Entry
    BY <2>2 DEF Tree
  <2>4. Kept(h) => Closed(e)
    BY <2>2 DEF Kept
  <2>5. Op(h, p) = Put(h, to, e)
    OBVIOUS
  <2> HIDE DEF to, e, Op
  <2>6. /\ Tree(Put(h, to, e)) /\ DOMAIN Put(h, to, e) = DOMAIN h \union {to}
        /\ Put(h, to, e)[to] = e /\ (\A q : q # to => Same(h, Put(h, to, e), q))
        /\ (Kept(h) /\ Closed(e) => Kept(Put(h, to, e)))
    BY <2>1, <2>2, <2>3, PutFacts
  <2>7. Op(h, p) \in A
    BY <2>2, <2>5, <2>6, TreeSet
  <2>8. QED
    BY <2>1, <2>4, <2>5, <2>6, <2>7 DEF to, e
<1>6. \A h \in A, p \in S : Op(h, p) \in A
  BY <1>5
<1> HIDE DEF A, Op
<1>7. g \in [1 .. n -> [A -> A]]
  BY <1>4, <1>6
<1>8. PICK m : Goes(m, A, f, n, g)
  BY <1>3, <1>4, <1>7, GoesOn
<1>9. Is(m)
  <2>1. ASSUME NEW i \in 1 .. n PROVE m[i] = Op(m[i - 1], order[i])
    <3>1. i - 1 \in 0 .. n
      BY <1>4
    <3>2. m[i] = g[i][m[i - 1]] /\ m[i - 1] \in A
      BY <1>8, <3>1 DEF Goes
    <3>3. QED
      BY <3>2
  <2>2. m \in [0 .. n -> A] /\ m[0] = f
    BY <1>8 DEF Goes
  <2>3. \A i \in 0 .. n : i = 0 \/ i \in 1 .. n
    BY <1>4
  <2>4. \A i \in 0 .. n : m[i] = IF i = 0 THEN f ELSE Op(m[i - 1], order[i])
    BY <2>1, <2>2, <2>3
  <2>5. QED
    BY <2>2, <2>4
<1>10. Is(made)
  BY <1>9
<1> HIDE DEF made
<1>11. \A i \in 0 .. n : made[i] = IF i = 0 THEN f ELSE Op(made[i - 1], order[i])
  BY <1>10
<1>12. 0 \in T
  <2>1. 0 \in 0 .. n /\ made[0] = f
    BY <1>4, <1>11
  <2>2. Good(0)
    BY <1>3, <2>1 DEF Same
  <2>3. QED
    BY <2>1, <2>2
<1>13. ASSUME NEW i \in 1 .. n, i - 1 \in T PROVE i \in T
  <2> DEFINE h == made[i - 1]
             p == order[i]
             to == Rebase(p, src, dst)
             k == made[i]
  <2>1. i \in 0 .. n /\ i # 0 /\ i - 1 \in 0 .. n
    BY <1>4
  <2>2. k = Op(h, p)
    BY <1>11, <2>1
  <2>3. p \in S
    BY <1>4
  <2>4. /\ h \in A /\ (Kept(f) => Kept(h)) /\ (\A q : ~Under(q, dst) => Same(f, h, q))
        /\ Apart(src, dst) => \A j \in 1 .. i - 1 : Arrived(f, h, src, dst, order[j])
    BY <1>13
  <2> HIDE DEF h, p, k
  <2>5. /\ k \in A /\ Under(to, dst)
        /\ DOMAIN k = DOMAIN h \union {to} /\ k[to] = h[p]
        /\ \A q : q # to => Same(h, k, q)
        /\ Kept(h) => Kept(k)
    BY <1>5, <2>2, <2>3, <2>4
  <2>6. \A q : ~Under(q, dst) => Same(f, k, q)
    BY <2>4, <2>5 DEF Same
  <2>7. ASSUME Apart(src, dst), NEW j \in 1 .. i PROVE Arrived(f, k, src, dst, order[j])
    <3>1. p \in Seq(Nat) /\ Under(p, src) /\ p \in DOMAIN f
      BY <1>2, <2>3
    <3>2. h[p] = f[p]
      <4>1. ~Under(p, dst)
        BY <2>7, <3>1, ApartUnder
      <4>2. Same(f, h, p)
        BY <2>4, <4>1
      <4>3. QED
        BY <3>1, <4>2 DEF Same
    <3>3. CASE order[j] = p
      <4>1. Rebase(p, src, dst) \in DOMAIN k /\ k[Rebase(p, src, dst)] = f[p]
        BY <2>5, <3>2
      <4>2. QED
        BY <3>3, <4>1 DEF Arrived
    <3>4. CASE order[j] # p
      <4> DEFINE q == order[j]
                 at == Rebase(q, src, dst)
      <4>1. j \in 1 .. i - 1 /\ j \in 1 .. n
        BY <1>4, <3>4 DEF p
      <4>2. q \in S
        BY <1>4, <4>1
      <4>3. q \in Seq(Nat) /\ Under(q, src)
        BY <1>2, <4>2
      <4>4. at \in DOMAIN h /\ h[at] = f[q]
        BY <2>4, <2>7, <4>1 DEF Arrived
      <4> HIDE DEF q
      <4>5. at # to
        BY <3>1, <3>4, <4>3, RebaseApart DEF q
      <4> HIDE DEF at, to
      <4>6. at \in DOMAIN k /\ k[at] = f[q]
        BY <2>5, <4>4, <4>5 DEF Same
      <4>7. QED
        BY <4>6 DEF Arrived, at, q
    <3>5. QED
      BY <3>3, <3>4
  <2>8. Kept(f) => Kept(k)
    BY <2>4, <2>5
  <2>9. Good(i)
    BY <2>5, <2>6, <2>7, <2>8 DEF k
  <2>10. QED
    BY <2>1, <2>9
<1> HIDE DEF T
<1>14. \A i \in 0 .. n : i \in T
  BY <1>4, <1>12, <1>13, Climb
<1>15. Good(n)
  BY <1>4, <1>14 DEF T
<1>16. Apart(src, dst) => \A p \in S : Arrived(f, made[n], src, dst, p)
  <2>1. SUFFICES ASSUME Apart(src, dst), NEW p \in S PROVE Arrived(f, made[n], src, dst, p)
    OBVIOUS
  <2>2. PICK i \in 1 .. n : order[i] = p
    BY <1>4
  <2>3. Arrived(f, made[n], src, dst, order[i])
    BY <1>15, <2>1
  <2>4. QED
    BY <2>2, <2>3
<1>17. Tree(made[n])
  BY <1>15, TreeSet DEF A
<1>18. QED
  BY <1>1, <1>15, <1>16, <1>17 DEF S

LEMMA TargetFacts ==
  ASSUME NEW f, Tree(f), NEW src \in Seq(Nat), src # <<>>, NEW to \in Seq(Nat)
  PROVE  Target(f, src, to) \in Seq(Nat) /\ Target(f, src, to) # <<>>
<1>1. CASE EntryAt(f, to).dir
  <2>1. Target(f, src, to) = Append(to, Last(src))
    BY <1>1 DEF Target
  <2>2. Last(src) \in Nat
    BY DEF Last
  <2> DEFINE name == Last(src)
  <2> HIDE DEF name
  <2>3. Append(to, name) \in Seq(Nat) /\ Len(Append(to, name)) = Len(to) + 1 /\ Len(to) \in Nat
    BY <2>2 DEF name
  <2>4. QED
    BY <2>1, <2>3 DEF name
<1>2. CASE ~EntryAt(f, to).dir
  <2>1. Target(f, src, to) = to
    BY <1>2 DEF Target
  <2>2. to # <<>>
    BY <1>2 DEF Tree, EntryAt
  <2>3. QED
    BY <2>1, <2>2
<1>3. QED
  BY <1>1, <1>2

\* What the copy makes of a tree whose parents are there, of a directory or of
\* a file.
Copied(g, e, src, dst) == IF e.dir THEN CopyTree(g, src, dst) ELSE Put(g, dst, e)

LEMMA CopiedFacts ==
  ASSUME NEW g, Tree(g), NEW src \in DOMAIN g, NEW dst \in Seq(Nat), dst # <<>>,
         NEW e, e = g[src], e.dir => IsFiniteSet(Subtree(g, src))
  PROVE  /\ Tree(Copied(g, e, src, dst))
         /\ Kept(g) => Kept(Copied(g, e, src, dst))
         /\ \A p : ~Under(p, dst) => Same(g, Copied(g, e, src, dst), p)
         /\ (Apart(src, dst) /\ (e.dir \/ Subtree(g, src) = {src})) =>
              \A p \in Subtree(g, src) : Arrived(g, Copied(g, e, src, dst), src, dst, p)
<1> DEFINE h == Copied(g, e, src, dst)
<1>1. src \in Seq(Nat) /\ e \in Entry /\ (Kept(g) => Closed(e))
  BY DEF Tree, Kept
<1>2. CASE e.dir
  <2>1. h = CopyTree(g, src, dst)
    BY <1>2 DEF Copied
  <2>2. /\ Tree(CopyTree(g, src, dst))
        /\ Kept(g) => Kept(CopyTree(g, src, dst))
        /\ \A p : ~Under(p, dst) => Same(g, CopyTree(g, src, dst), p)
        /\ Apart(src, dst) => \A p \in Subtree(g, src) : Arrived(g, CopyTree(g, src, dst), src, dst, p)
    BY <1>1, <1>2, CopyTreeFacts
  <2>3. QED
    BY <2>1, <2>2
<1>3. CASE ~e.dir
  <2>1. h = Put(g, dst, e)
    BY <1>3 DEF Copied
  <2> HIDE DEF h
  <2>2. /\ Tree(h) /\ DOMAIN h = DOMAIN g \union {dst} /\ h[dst] = e
        /\ (\A q : q # dst => Same(g, h, q)) /\ (Kept(g) => Kept(h))
    BY <1>1, <2>1, PutFacts
  <2>3. \A p : ~Under(p, dst) => Same(g, h, p)
    BY <2>2, UnderOrder
  <2>4. Arrived(g, h, src, dst, src)
    <3>1. Rebase(src, src, dst) = dst
      BY <1>1, RebaseSelf
    <3>2. QED
      BY <2>2, <3>1 DEF Arrived
  <2>5. Subtree(g, src) = {src} => \A p \in Subtree(g, src) : Arrived(g, h, src, dst, p)
    BY <2>4
  <2>6. QED
    BY <1>3, <2>2, <2>3, <2>5 DEF h
<1>4. QED
  BY <1>2, <1>3

\* What a transfer run by the participant may change.
Moves(f, g, src, move) ==
  \A p \in DOMAIN f \union DOMAIN g :
    \/ Same(f, g, p)
    \/ p \notin DOMAIN f /\ g[p] = NewDir(Root, Root)
    \/ Reach(f, p)
    \/ move /\ Under(p, src) /\ src \in DOMAIN f /\ CanRead(f[src], User)

\* A transfer from one place to an unrelated one is exact.
Exact(f, g, src, dst, move) ==
  /\ \A p \in Subtree(f, src) :
       /\ Arrived(f, g, src, dst, p)
       /\ IF move THEN p \notin DOMAIN g ELSE Same(f, g, p)
  /\ \A p \in DOMAIN f \union DOMAIN g :
       ~Under(p, src) /\ ~Under(p, dst) => Same(f, g, p) \/ (p \notin DOMAIN f /\ g[p] = NewDir(Root, Root))

LEMMA CopyStep ==
  ASSUME NEW f, Tree(f), IsFiniteSet(DOMAIN f), NEW src \in Seq(Nat), NEW to \in Seq(Nat),
         NEW u \in {User, Root}, NEW move \in BOOLEAN, NEW recursive \in BOOLEAN
  PROVE  LET r == CopyRecursive(f, src, to, u, move, recursive)
             dst == Target(f, src, to)
         IN /\ r \in Outcome
            /\ Kept(f) => Kept(r.fs)
            /\ u = User => Moves(f, r.fs, src, move)
            /\ r.ok => src # <<>>
            /\ (r.ok /\ Apart(src, dst) /\ (f[src].dir \/ Subtree(f, src) = {src})) =>
                 Exact(f, r.fs, src, dst, move)
<1> DEFINE dst == Target(f, src, to)
           g == EnsureParents(f, dst)
           e == f[src]
           h == Copied(g, e, src, dst)
           gone == Subtree(h, src)
           r == CopyRecursive(f, src, to, u, move, recursive)
           k == IF move THEN Drop(h, gone) ELSE h
<1>1. \/ r = Result(f, FALSE)
      \/ src \in DOMAIN f /\ src # <<>> /\ r = Result(g, FALSE)
      \/ /\ src \in DOMAIN f /\ src # <<>> /\ CanRead(e, u)
         /\ dst # src /\ (e.dir => ~Below(dst, src))
         /\ CanWrite(EntryAt(g, ParentOf(dst)), u)
         /\ r = Result(k, TRUE)
  BY DEF CopyRecursive, Copied
<1> HIDE DEF r
<1>2. CASE r = Result(f, FALSE)
  <2>1. r.fs = f /\ r.ok = FALSE /\ r \in Outcome
    BY <1>2, TreeSet DEF Result, Outcome
  <2>2. Moves(f, f, src, move)
    BY DEF Moves, Same
  <2>3. QED
    BY <2>1, <2>2 DEF r
<1>3. ASSUME src \in DOMAIN f, src # <<>> PROVE dst \in Seq(Nat) /\ dst # <<>>
  BY <1>3, TargetFacts
<1> HIDE DEF dst
<1>4. ASSUME src \in DOMAIN f, src # <<>>
      PROVE  /\ Tree(g) /\ DOMAIN f \subseteq DOMAIN g
             /\ \A q \in DOMAIN f : g[q] = f[q]
             /\ \A q \in DOMAIN g \ DOMAIN f : Under(dst, q) /\ q # dst /\ g[q] = NewDir(Root, Root)
             /\ Kept(f) => Kept(g)
             /\ Within(f, g)
  BY <1>3, <1>4, ParentsFacts
<1> HIDE DEF g, h, k
<1>5. CASE src \in DOMAIN f /\ src # <<>> /\ r = Result(g, FALSE)
  <2>1. r.fs = g /\ r.ok = FALSE /\ r \in Outcome
    BY <1>4, <1>5, TreeSet DEF Result, Outcome
  <2>2. Moves(f, g, src, move)
    BY <1>4, <1>5 DEF Moves, Within
  <2>3. QED
    BY <1>4, <1>5, <2>1, <2>2 DEF r, dst
<1>6. CASE /\ src \in DOMAIN f /\ src # <<>> /\ CanRead(e, u)
           /\ dst # src /\ (e.dir => ~Below(dst, src))
           /\ CanWrite(EntryAt(g, ParentOf(dst)), u)
           /\ r = Result(k, TRUE)
  <2>1. /\ dst \in Seq(Nat) /\ dst # <<>> /\ Tree(g) /\ src \in DOMAIN g /\ e = g[src]
        /\ Within(f, g) /\ (Kept(f) => Kept(g))
    BY <1>3, <1>4, <1>6
  <2>2. ASSUME ~Under(dst, src) PROVE Subtree(g, src) = Subtree(f, src)
    <3>1. ASSUME NEW q \in DOMAIN g, Under(q, src) PROVE q \in DOMAIN f
      <4>1. SUFFICES ASSUME q \notin DOMAIN f PROVE FALSE
        OBVIOUS
      <4>2. Under(dst, q) /\ q \in Seq(Nat)
        BY <1>4, <1>6, <2>1, <4>1 DEF Tree
      <4>3. Under(dst, src)
        BY <2>1, <3>1, <4>2, UnderOrder
      <4>4. QED
        BY <2>2, <4>3
    <3>2. QED
      BY <1>4, <1>6, <3>1 DEF Subtree
  <2>3. e.dir => IsFiniteSet(Subtree(g, src))
    <3>1. SUFFICES ASSUME e.dir PROVE IsFiniteSet(Subtree(g, src))
      OBVIOUS
    <3>2. ~Under(dst, src)
      BY <1>6, <3>1 DEF Below, Under, IsStrictPrefix
    <3>3. Subtree(g, src) \subseteq DOMAIN f
      BY <2>2, <3>2 DEF Subtree
    <3>4. QED
      BY <3>3, FS_Subset
  <2> HIDE DEF e
  <2>4. /\ Tree(h) /\ (Kept(g) => Kept(h)) /\ (\A p : ~Under(p, dst) => Same(g, h, p))
        /\ (Apart(src, dst) /\ (e.dir \/ Subtree(g, src) = {src})) =>
              \A p \in Subtree(g, src) : Arrived(g, h, src, dst, p)
    BY <2>1, <2>3, CopiedFacts DEF h
  <2>5. <<>> \notin gone
    BY <1>6, RootFacts DEF Subtree
  <2>6. \A p \in gone : Under(p, src) /\ p \in DOMAIN h
    BY DEF Subtree
  <2>7. \A p \in DOMAIN h : Under(p, src) => p \in gone
    BY DEF Subtree
  <2> HIDE DEF gone
  <2>8. /\ Tree(k) /\ (Kept(h) => Kept(k))
        /\ DOMAIN k = IF move THEN DOMAIN h \ gone ELSE DOMAIN h
        /\ \A p : (move => p \notin gone) => Same(h, k, p)
    <3>1. CASE move
      <4>1. k = Drop(h, gone)
        BY <3>1 DEF k
      <4>2. /\ Tree(Drop(h, gone)) /\ DOMAIN Drop(h, gone) = DOMAIN h \ gone
            /\ (\A q : q \notin gone => Same(h, Drop(h, gone), q))
            /\ (Kept(h) => Kept(Drop(h, gone)))
        BY <2>4, <2>5, DropFacts
      <4>3. QED
        BY <3>1, <4>1, <4>2
    <3>2. CASE ~move
      <4>1. k = h
        BY <3>2 DEF k
      <4>2. QED
        BY <2>4, <3>2, <4>1 DEF Same
    <3>3. QED
      BY <3>1, <3>2
  <2>9. r \in Outcome /\ r.fs = k /\ r.ok = TRUE
    BY <1>6, <2>8, TreeSet DEF Result, Outcome
  <2>10. Kept(f) => Kept(k)
    BY <2>1, <2>4, <2>8
  <2>11. ASSUME u = User PROVE Moves(f, k, src, move)
    <3>1. Within(g, h)
      <4>1. \A p \in DOMAIN g \union DOMAIN h : Same(g, h, p) \/ Under(p, ParentOf(dst))
        <5>1. SUFFICES ASSUME NEW p \in DOMAIN g \union DOMAIN h, Under(p, dst) PROVE Under(p, ParentOf(dst))
          BY <2>4
        <5>2. p \in Seq(Nat)
          BY <2>1, <2>4 DEF Tree
        <5>3. ParentOf(dst) \in Seq(Nat) /\ Under(dst, ParentOf(dst))
          BY <2>1, ParentFacts
        <5>4. QED
          BY <2>1, <5>1, <5>2, <5>3, UnderOrder
      <4>2. CanWrite(EntryAt(g, ParentOf(dst)), User)
        BY <1>6, <2>11
      <4>3. QED
        BY <4>1, <4>2, WithinOne
    <3>2. Within(f, h)
      BY <2>1, <2>4, <3>1, WithinOrder
    <3>3. ASSUME NEW p \in DOMAIN f \union DOMAIN k
          PROVE  \/ Same(f, k, p)
                 \/ p \notin DOMAIN f /\ k[p] = NewDir(Root, Root)
                 \/ Reach(f, p)
                 \/ move /\ Under(p, src) /\ src \in DOMAIN f /\ CanRead(f[src], User)
      <4>1. CASE move /\ p \in gone
        BY <1>6, <2>6, <2>11, <4>1 DEF e
      <4>2. CASE ~(move /\ p \in gone)
        <5>1. Same(h, k, p)
          BY <2>8, <4>2
        <5>2. p \in DOMAIN f \union DOMAIN h
          BY <5>1 DEF Same
        <5>3. Same(f, h, p) \/ (p \notin DOMAIN f /\ h[p] = NewDir(Root, Root)) \/ Reach(f, p)
          BY <3>2, <5>2 DEF Within
        <5>4. QED
          BY <5>1, <5>2, <5>3 DEF Same
      <4>3. QED
        BY <4>1, <4>2
    <3>4. QED
      BY <3>3 DEF Moves
  <2>12. ASSUME Apart(src, dst), e.dir \/ Subtree(f, src) = {src} PROVE Exact(f, k, src, dst, move)
    <3>1. Subtree(g, src) = Subtree(f, src)
      BY <2>2, <2>12 DEF Apart
    <3>2. ASSUME NEW p \in Subtree(f, src)
          PROVE  /\ Arrived(f, k, src, dst, p)
                 /\ IF move THEN p \notin DOMAIN k ELSE Same(f, k, p)
      <4>1. p \in DOMAIN f /\ p \in Seq(Nat) /\ Under(p, src) /\ g[p] = f[p] /\ p \in DOMAIN g
        BY <1>4, <1>6 DEF Subtree, Tree
      <4> DEFINE at == Rebase(p, src, dst)
      <4>2. at \in Seq(Nat) /\ Under(at, dst)
        BY <2>1, <4>1, RebaseFacts
      <4>3. at \in DOMAIN h /\ h[at] = f[p]
        BY <2>4, <2>12, <3>1, <4>1 DEF Arrived
      <4> HIDE DEF at
      <4>4. at \notin gone
        BY <2>1, <2>6, <2>12, <4>2, ApartUnder
      <4>5. at \in DOMAIN k /\ k[at] = f[p]
        BY <2>8, <4>3, <4>4 DEF Same
      <4>6. move => p \notin DOMAIN k
        BY <2>7, <2>8, <4>1
      <4>7. ~move => Same(f, k, p)
        <5>1. ~Under(p, dst)
          BY <2>1, <2>12, <4>1, ApartUnder
        <5>2. Same(g, h, p) /\ (~move => Same(h, k, p))
          BY <2>4, <2>8, <5>1
        <5>3. QED
          BY <4>1, <5>2 DEF Same
      <4>8. QED
        BY <4>5, <4>6, <4>7 DEF Arrived, at
    <3>3. ASSUME NEW p \in DOMAIN f \union DOMAIN k, ~Under(p, src), ~Under(p, dst)
          PROVE  Same(f, k, p) \/ (p \notin DOMAIN f /\ k[p] = NewDir(Root, Root))
      <4>1. Same(g, h, p) /\ Same(h, k, p)
        BY <2>4, <2>6, <2>8, <3>3
      <4>2. CASE p \in DOMAIN f
        BY <1>4, <1>6, <4>1, <4>2 DEF Same
      <4>3. CASE p \notin DOMAIN f
        <5>1. p \in DOMAIN g /\ g[p] = k[p]
          BY <4>1, <4>3 DEF Same
        <5>2. g[p] = NewDir(Root, Root)
          BY <1>4, <1>6, <4>3, <5>1
        <5>3. QED
          BY <4>3, <5>1, <5>2
      <4>4. QED
        BY <4>2, <4>3
    <3>4. QED
      BY <3>2, <3>3 DEF Exact
  <2>13. QED
    BY <1>6, <2>9, <2>10, <2>11, <2>12 DEF r, dst, e
<1>7. QED
  BY <1>1, <1>2, <1>5, <1>6

-----------------------------------------------------------------------------
\* The commands

\* A command that did not run under sudo has not spread the secret.
Quiet == ~sudoed' => ~sudoed /\ (Kept(fs) => Kept(fs'))

\* What the participant's command has changed.
Held ==
  last'.user = User =>
    \/ Within(fs, fs')
    \/ Owned(fs, fs')
    \/ last'.verb = "mv" /\ Moves(fs, fs', last'.args[1], TRUE)

\* What a transfer has carried.
Carried ==
  (last'.verb \in {"cp", "mv"} /\ last'.ok) =>
    LET src == last'.args[1]
        dst == Target(fs, src, last'.args[2])
    IN (Apart(src, dst) /\ (fs[src].dir \/ Subtree(fs, src) = {src})) =>
         src \in Seq(Nat) /\ dst \in Seq(Nat) /\ Exact(fs, fs', src, dst, last'.verb = "mv")

Done == FilesTypeOK' /\ Quiet /\ Held /\ Carried

LEMMA StateFacts ==
  ASSUME FilesTypeOK
  PROVE  Tree(fs) /\ IsFiniteSet(DOMAIN fs) /\ AccountsOK /\ cwd \in Seq(Nat)
<1>1. Paths \subseteq Seq(Nat) /\ IsFiniteSet(Paths)
  BY FilesAssumption
<1>2. IsFiniteSet(DOMAIN fs)
  BY <1>1, FS_Subset DEF FilesTypeOK
<1>3. QED
  BY <1>1, <1>2 DEF FilesTypeOK, Tree, AccountsOK

LEMMA RanFacts ==
  ASSUME FilesTypeOK, NEW verb, NEW u, NEW args, NEW r \in Outcome, Ran(verb, u, args, r)
  PROVE  /\ fs' = r.fs /\ Tree(fs') /\ DOMAIN fs' \subseteq Paths
         /\ last'.n \in 0 .. MaxCommands /\ last'.user = u
         /\ last'.verb \in {"cp", "mv"} => last'.verb = verb /\ last'.args = args /\ last'.ok = r.ok
         /\ verb \in {"cp", "mv"} /\ fs' # fs => last'.verb = verb
<1>1. fs' = r.fs /\ DOMAIN fs' \subseteq Paths
  BY DEF Ran
<1>2. Tree(fs')
  BY <1>1, OutcomeFacts
<1>3. last.n + 1 \in 0 .. MaxCommands
  <2>1. last.n \in 0 .. MaxCommands /\ last.n < MaxCommands /\ MaxCommands \in Nat
    BY FilesAssumption DEF Ran, FilesTypeOK
  <2>2. QED
    BY <2>1
<1>4. CASE verb \in {"cp", "mv"} /\ (r.ok \/ r.fs # fs)
  <2>1. last' = [n |-> last.n + 1, verb |-> verb, user |-> u, args |-> args, ok |-> r.ok]
    BY <1>4 DEF Ran
  <2>2. QED
    BY <1>1, <1>2, <1>3, <2>1
<1>5. CASE ~(verb \in {"cp", "mv"} /\ (r.ok \/ r.fs # fs))
  <2>1. last' = [n |-> last.n + 1, verb |-> "", user |-> u, args |-> <<>>, ok |-> TRUE]
    BY <1>5 DEF Ran
  <2>2. QED
    BY <1>1, <1>2, <1>3, <1>5, <2>1
<1>6. QED
  BY <1>4, <1>5

\* A command on files leaves accounts and directory alone.
LEMMA OnFilesDone ==
  ASSUME FilesTypeOK, NEW verb, NEW u \in {User, Root}, NEW args, NEW r \in Outcome,
         OnFiles(verb, u, args, r),
         u = User /\ Kept(fs) => Kept(r.fs)
  PROVE  FilesTypeOK' /\ Quiet
<1>1. Ran(verb, u, args, r) /\ sudoed' = (sudoed \/ u = Root) /\ users' = users /\ cwd' = cwd
  BY DEF OnFiles
<1>2. fs' = r.fs /\ Tree(fs') /\ DOMAIN fs' \subseteq Paths /\ last'.n \in 0 .. MaxCommands
  BY <1>1, RanFacts
<1>3. FilesTypeOK'
  BY <1>1, <1>2 DEF FilesTypeOK, Tree
<1>4. Quiet
  BY <1>1, <1>2 DEF Quiet
<1>5. QED
  BY <1>3, <1>4

LEMMA ReadableFacts ==
  ASSUME FilesTypeOK, NEW u, NEW lines \in Readable(u)
  PROVE  lines \in SUBSET STRING /\ (u = User /\ Kept(fs) => Secret \notin lines)
<1>1. PICK p \in DOMAIN fs : lines \in ReadFile(fs, p, u)
  BY DEF Readable
<1>2. lines = fs[p].content /\ CanRead(fs[p], u)
  BY <1>1 DEF ReadFile
<1>3. lines \in SUBSET STRING
  BY <1>2 DEF FilesTypeOK, Entry
<1>4. ASSUME u = User, Kept(fs), Secret \in lines PROVE FALSE
  <2> DEFINE e == fs[p]
  <2>1. Closed(e) /\ Secret \in e.content /\ CanRead(e, User)
    BY <1>2, <1>4 DEF Kept
  <2> HIDE DEF e
  <2>2. QED
    BY <2>1, ClosedIsUnread
<1>5. QED
  BY <1>3, <1>4

LEMMA RunsAsFacts == ASSUME NEW verb, NEW u \in RunsAs(verb) PROVE u \in {User, Root}
BY DEF RunsAs

LEMMA TakesDone ==
  ASSUME FilesTypeOK, NEW c, GoodCommand(c), TakesOperands(c), Kept(fs) => Secret \notin Brings(c)
  PROVE  Done
<1>1. PICK u \in RunsAs(c.verb), list \in OperandLists : OnFiles(c.verb, u, <<>>, Each(c, fs, list, u))
  BY DEF TakesOperands
<1>2. u \in {User, Root} /\ list \in Seq(Operands)
  BY RunsAsFacts, FilesAssumption
<1> DEFINE r == Each(c, fs, list, u)
<1>3. r \in Outcome /\ Fits(c, fs, r.fs, u)
  BY <1>2, StateFacts, EachFits
<1>4. OnFiles(c.verb, u, <<>>, r)
  BY <1>1
<1> HIDE DEF r
<1>5. u = User => (Kept(fs) => Kept(r.fs)) /\ (Within(fs, r.fs) \/ Owned(fs, r.fs))
  BY <1>3 DEF Fits, Mine, Step
<1>6. FilesTypeOK' /\ Quiet
  BY <1>2, <1>3, <1>4, <1>5, OnFilesDone
<1>7. /\ fs' = r.fs /\ last'.user = u
      /\ last'.verb \in {"cp", "mv"} => last'.verb = c.verb
  BY <1>3, <1>4, RanFacts DEF OnFiles
<1>8. c.verb \notin {"cp", "mv"}
  BY DEF GoodCommand
<1>9. Held /\ Carried
  BY <1>5, <1>7, <1>8 DEF Held, Carried
<1>10. QED
  BY <1>6, <1>9 DEF Done

LEMMA TeeDone == ASSUME FilesTypeOK, Tee PROVE Done
<1>1. PICK lines \in {{}} \union Readable(User) : TakesOperands([verb |-> "tee", lines |-> lines])
  BY DEF Tee
<1>2. lines \in SUBSET STRING /\ (Kept(fs) => Secret \notin lines)
  BY ReadableFacts
<1> DEFINE c == [verb |-> "tee", lines |-> lines]
<1>3. GoodCommand(c) /\ Brings(c) = lines
  BY <1>2 DEF GoodCommand, Brings
<1>4. TakesOperands(c)
  BY <1>1
<1> HIDE DEF c
<1>5. QED
  BY <1>2, <1>3, <1>4, TakesDone

LEMMA TouchDone == ASSUME FilesTypeOK, RunTouch PROVE Done
<1> DEFINE c == [verb |-> "touch"]
<1>1. GoodCommand(c) /\ Brings(c) = {} /\ TakesOperands(c)
  BY DEF GoodCommand, Brings, RunTouch
<1> HIDE DEF c
<1>2. QED
  BY <1>1, TakesDone

LEMMA MkdirDone == ASSUME FilesTypeOK, Mkdir PROVE Done
<1>1. PICK parents \in BOOLEAN : TakesOperands([verb |-> "mkdir", parents |-> parents])
  BY DEF Mkdir
<1> DEFINE c == [verb |-> "mkdir", parents |-> parents]
<1>2. GoodCommand(c) /\ Brings(c) = {} /\ TakesOperands(c)
  BY <1>1 DEF GoodCommand, Brings
<1> HIDE DEF c
<1>3. QED
  BY <1>2, TakesDone

LEMMA RMDone == ASSUME FilesTypeOK, RM PROVE Done
<1>1. PICK recursive \in BOOLEAN, force \in BOOLEAN :
        TakesOperands([verb |-> "rm", recursive |-> recursive, force |-> force])
  BY DEF RM
<1> DEFINE c == [verb |-> "rm", recursive |-> recursive, force |-> force]
<1>2. GoodCommand(c) /\ Brings(c) = {} /\ TakesOperands(c)
  BY <1>1 DEF GoodCommand, Brings
<1> HIDE DEF c
<1>3. QED
  BY <1>2, TakesDone

LEMMA ChmodDone == ASSUME FilesTypeOK, RunChmod PROVE Done
<1>1. PICK mode \in Modes : TakesOperands([verb |-> "chmod", mode |-> mode])
  BY DEF RunChmod
<1> DEFINE c == [verb |-> "chmod", mode |-> mode]
<1>2. GoodCommand(c) /\ Brings(c) = {} /\ TakesOperands(c)
  BY <1>1 DEF GoodCommand, Brings
<1> HIDE DEF c
<1>3. QED
  BY <1>2, TakesDone

LEMMA ChownDone == ASSUME FilesTypeOK, RunChown PROVE Done
<1>1. PICK owner \in {User, Root}, group \in {"", User} :
        TakesOperands([verb |-> "chown", owner |-> owner, group |-> group])
  BY DEF RunChown
<1> DEFINE c == [verb |-> "chown", owner |-> owner, group |-> group]
<1>2. GoodCommand(c) /\ Brings(c) = {} /\ TakesOperands(c)
  BY <1>1, NameFacts DEF GoodCommand, Brings
<1> HIDE DEF c
<1>3. QED
  BY <1>2, TakesDone

LEMMA RedirectDone == ASSUME FilesTypeOK, Redirect PROVE Done
<1>1. PICK reader \in RunsAs("cat"), o \in Operands, append \in BOOLEAN :
        \E lines \in Readable(reader) :
          /\ Ran("redirect", User, <<>>, WriteFile(fs, NormalizePath(o), lines, User, append))
          /\ sudoed' = (sudoed \/ reader = Root)
          /\ UNCHANGED <<users, cwd>>
  BY DEF Redirect
<1>2. PICK lines \in Readable(reader) :
        /\ Ran("redirect", User, <<>>, WriteFile(fs, NormalizePath(o), lines, User, append))
        /\ sudoed' = (sudoed \/ reader = Root)
        /\ UNCHANGED <<users, cwd>>
  BY <1>1
<1> DEFINE p == NormalizePath(o)
           r == WriteFile(fs, p, lines, User, append)
<1>3. p \in Seq(Nat)
  BY StateFacts, NormalType
<1>4. lines \in SUBSET STRING /\ (reader = User /\ Kept(fs) => Secret \notin lines)
  BY ReadableFacts
<1>5. Ran("redirect", User, <<>>, r)
  BY <1>2
<1> HIDE DEF p
<1>6. Leads(fs, r, User, lines)
  BY <1>3, <1>4, StateFacts, WriteStep
<1> HIDE DEF r
<1>7. r \in Outcome /\ Within(fs, r.fs) /\ (Kept(fs) /\ Secret \notin lines => Kept(r.fs))
  BY <1>6 DEF Leads, Step
<1>8. /\ fs' = r.fs /\ Tree(fs') /\ DOMAIN fs' \subseteq Paths
      /\ last'.n \in 0 .. MaxCommands /\ last'.verb \notin {"cp", "mv"}
  BY <1>5, <1>7, RanFacts
<1>9. FilesTypeOK'
  BY <1>2, <1>8 DEF FilesTypeOK, Tree
<1>10. Quiet
  <2>1. SUFFICES ASSUME ~sudoed' PROVE ~sudoed /\ (Kept(fs) => Kept(fs'))
    BY DEF Quiet
  <2>2. ~sudoed /\ reader # Root
    BY <1>2, <2>1
  <2>3. reader = User
    BY <2>2, RunsAsFacts
  <2>4. QED
    BY <1>4, <1>7, <1>8, <2>2, <2>3
<1>11. Held /\ Carried
  BY <1>7, <1>8 DEF Held, Carried
<1>12. QED
  BY <1>9, <1>10, <1>11 DEF Done

LEMMA RmdirDone == ASSUME FilesTypeOK, Rmdir PROVE Done
<1> DEFINE Empty(p) == EntryAt(fs, p).dir /\ ~\E q \in DOMAIN fs : Below(q, p) /\ ParentOf(q) = p
           R(u, p) == IF Empty(p) THEN RemoveEntry(fs, p, u) ELSE Result(fs, FALSE)
<1>1. PICK u \in RunsAs("rmdir"), o \in Operands : OnFiles("rmdir", u, <<>>, R(u, NormalizePath(o)))
  BY DEF Rmdir
<1> DEFINE p == NormalizePath(o)
           r == R(u, p)
<1>2. p \in Seq(Nat) /\ u \in {User, Root}
  BY StateFacts, NormalType, RunsAsFacts
<1>3. OnFiles("rmdir", u, <<>>, r)
  BY <1>1
<1>4. r = RemoveEntry(fs, p, u) \/ r = Result(fs, FALSE)
  OBVIOUS
<1> HIDE DEF p, r
<1>5. Leads(fs, r, u, {})
  <2>1. CASE r = RemoveEntry(fs, p, u)
    BY <1>2, <2>1, StateFacts, RemoveStep
  <2>2. CASE r = Result(fs, FALSE)
    BY <2>2, StateFacts, Refused
  <2>3. QED
    BY <1>4, <2>1, <2>2
<1>6. r \in Outcome /\ (u = User => Within(fs, r.fs) /\ (Kept(fs) => Kept(r.fs)))
  BY <1>5 DEF Leads, Step
<1>7. FilesTypeOK' /\ Quiet
  BY <1>2, <1>3, <1>6, OnFilesDone
<1>8. fs' = r.fs /\ last'.user = u /\ last'.verb \notin {"cp", "mv"}
  BY <1>3, <1>6, RanFacts DEF OnFiles
<1>9. Held /\ Carried
  BY <1>6, <1>8 DEF Held, Carried
<1>10. QED
  BY <1>7, <1>9 DEF Done

\* cp and mv.
LEMMA TransferDone ==
  ASSUME FilesTypeOK, NEW verb \in {"cp", "mv"}, NEW u \in {User, Root},
         NEW src \in Seq(Nat), NEW to \in Seq(Nat), NEW recursive \in BOOLEAN,
         OnFiles(verb, u, <<src, to>>, CopyRecursive(fs, src, to, u, verb = "mv", recursive))
  PROVE  Done
<1> DEFINE move == verb = "mv"
           r == CopyRecursive(fs, src, to, u, move, recursive)
           dst == Target(fs, src, to)
<1>1. move \in BOOLEAN
  OBVIOUS
<1>2. OnFiles(verb, u, <<src, to>>, r)
  OBVIOUS
<1>a. move = (verb = "mv")
  OBVIOUS
<1> HIDE DEF move
<1>3. /\ r \in Outcome
      /\ Kept(fs) => Kept(r.fs)
      /\ u = User => Moves(fs, r.fs, src, move)
      /\ r.ok => src # <<>>
      /\ (r.ok /\ Apart(src, dst) /\ (fs[src].dir \/ Subtree(fs, src) = {src})) =>
           Exact(fs, r.fs, src, dst, move)
  BY <1>1, StateFacts, CopyStep
<1> HIDE DEF r
<1>4. FilesTypeOK' /\ Quiet
  BY <1>2, <1>3, OnFilesDone
<1>5. /\ fs' = r.fs /\ last'.user = u
      /\ last'.verb \in {"cp", "mv"} => last'.verb = verb /\ last'.args = <<src, to>> /\ last'.ok = r.ok
      /\ fs' # fs => last'.verb = verb
  BY <1>2, <1>3, RanFacts DEF OnFiles
<1>6. Held
  <2>1. SUFFICES ASSUME u = User
                 PROVE  Within(fs, fs') \/ (last'.verb = "mv" /\ Moves(fs, fs', last'.args[1], TRUE))
    BY <1>5 DEF Held
  <2>2. CASE fs' = fs
    BY <2>2 DEF Within, Same
  <2>3. CASE fs' # fs
    <3>1. last'.verb = verb /\ last'.args[1] = src /\ Moves(fs, fs', src, move)
      BY <1>3, <1>5, <2>1, <2>3
    <3>2. CASE move
      BY <1>a, <3>1, <3>2 DEF Moves
    <3>3. CASE ~move
      <4>1. Within(fs, fs')
        BY <3>1, <3>3 DEF Moves, Within
      <4>2. QED
        BY <4>1
    <3>4. QED
      BY <3>2, <3>3
  <2>4. QED
    BY <2>2, <2>3
<1>7. Carried
  <2> DEFINE Due == (Apart(src, dst) /\ (fs[src].dir \/ Subtree(fs, src) = {src})) =>
                      src \in Seq(Nat) /\ dst \in Seq(Nat) /\ Exact(fs, fs', src, dst, last'.verb = "mv")
  <2>0. ASSUME last'.verb \in {"cp", "mv"}, last'.ok, Due PROVE Carried
    <3>0. last'.args = <<src, to>>
      BY <1>5, <2>0
    <3>1. last'.args[1] = src /\ last'.args[2] = to
      BY ONLY <3>0
    <3>2. QED
      BY <2>0, <3>1 DEF Carried
  <2>1. SUFFICES ASSUME last'.verb \in {"cp", "mv"}, last'.ok,
                        Apart(src, dst), fs[src].dir \/ Subtree(fs, src) = {src}
                 PROVE  src \in Seq(Nat) /\ dst \in Seq(Nat) /\ Exact(fs, fs', src, dst, last'.verb = "mv")
    <3>1. ~(last'.verb \in {"cp", "mv"} /\ last'.ok) => Carried
      BY DEF Carried
    <3>2. QED
      BY <2>0, <3>1
  <2>2. Exact(fs, fs', src, dst, move)
    BY <1>3, <1>5, <2>1
  <2>3. move = (last'.verb = "mv")
    BY <1>a, <1>5, <2>1
  <2>4. dst \in Seq(Nat)
    <3>1. src # <<>>
      BY <1>3, <1>5, <2>1
    <3>2. QED
      BY <3>1, StateFacts, TargetFacts
  <2>5. QED
    BY <2>2, <2>3, <2>4
<1>8. QED
  BY <1>4, <1>6, <1>7 DEF Done

LEMMA CPDone == ASSUME FilesTypeOK, CP PROVE Done
<1>1. PICK u \in RunsAs("cp"), from \in Operands, to \in Operands, recursive \in BOOLEAN :
        OnFiles("cp", u, <<NormalizePath(from), NormalizePath(to)>>,
                CopyRecursive(fs, NormalizePath(from), NormalizePath(to), u, FALSE, recursive))
  BY DEF CP
<1> DEFINE src == NormalizePath(from)
           dst == NormalizePath(to)
           verb == "cp"
<1>2. u \in {User, Root} /\ src \in Seq(Nat) /\ dst \in Seq(Nat)
  BY StateFacts, NormalType, RunsAsFacts
<1>3. verb \in {"cp", "mv"} /\ (verb = "mv") = FALSE
  OBVIOUS
<1>4. OnFiles(verb, u, <<src, dst>>, CopyRecursive(fs, src, dst, u, FALSE, recursive))
  BY <1>1
<1> HIDE DEF src, dst, verb
<1>5. OnFiles(verb, u, <<src, dst>>, CopyRecursive(fs, src, dst, u, verb = "mv", recursive))
  BY <1>3, <1>4
<1>6. QED
  BY <1>2, <1>3, <1>5, TransferDone

LEMMA MVDone == ASSUME FilesTypeOK, MV PROVE Done
<1>1. PICK u \in RunsAs("mv"), from \in Operands, to \in Operands :
        OnFiles("mv", u, <<NormalizePath(from), NormalizePath(to)>>,
                CopyRecursive(fs, NormalizePath(from), NormalizePath(to), u, TRUE, TRUE))
  BY DEF MV
<1> DEFINE src == NormalizePath(from)
           dst == NormalizePath(to)
           verb == "mv"
           recursive == TRUE
<1>2. u \in {User, Root} /\ src \in Seq(Nat) /\ dst \in Seq(Nat) /\ recursive \in BOOLEAN
  BY StateFacts, NormalType, RunsAsFacts
<1>3. verb \in {"cp", "mv"} /\ (verb = "mv") = TRUE
  OBVIOUS
<1>4. OnFiles(verb, u, <<src, dst>>, CopyRecursive(fs, src, dst, u, TRUE, recursive))
  BY <1>1
<1> HIDE DEF src, dst, verb, recursive
<1>5. OnFiles(verb, u, <<src, dst>>, CopyRecursive(fs, src, dst, u, verb = "mv", recursive))
  BY <1>3, <1>4
<1>6. QED
  BY <1>2, <1>3, <1>5, TransferDone

LEMMA CDDone == ASSUME FilesTypeOK, CD PROVE Done
<1>1. PICK p : /\ EntryAt(fs, p).dir /\ cwd' = p
               /\ Ran("cd", User, <<>>, Result(fs, TRUE))
               /\ UNCHANGED <<users, sudoed>>
  BY DEF CD
<1> DEFINE r == Result(fs, TRUE)
<1>2. r \in Outcome /\ r.fs = fs
  BY StateFacts, TreeSet DEF Outcome, Result
<1>3. Ran("cd", User, <<>>, r)
  BY <1>1
<1> HIDE DEF r
<1>4. fs' = fs /\ last'.n \in 0 .. MaxCommands /\ last'.verb \notin {"cp", "mv"}
  BY <1>2, <1>3, RanFacts
<1>5. p \in Paths
  BY <1>1 DEF EntryAt, NoEntry, FilesTypeOK
<1>6. FilesTypeOK'
  BY <1>1, <1>4, <1>5 DEF FilesTypeOK
<1>7. Quiet /\ Held /\ Carried
  <2>1. Within(fs, fs')
    BY <1>4 DEF Within, Same
  <2>2. QED
    BY <1>1, <1>4, <2>1 DEF Quiet, Held, Carried
<1>8. QED
  BY <1>6, <1>7 DEF Done

\* The lists of accounts, in /etc/passwd.
LEMMA SyncTree ==
  ASSUME NEW f, Tree(f), NEW names \in SUBSET STRING
  PROVE  Tree(SyncIdentity(f, names))
<1>1. CASE Passwd \in DOMAIN f
  <2> DEFINE old == f[Passwd]
             e == [old EXCEPT !.content = names]
             g == [f EXCEPT ![Passwd] = e]
  <2>1. old \in Entry
    BY <1>1 DEF Tree
  <2>2. SyncIdentity(f, names) = g
    BY <1>1 DEF SyncIdentity
  <2>a. e = [old EXCEPT !.content = names]
    OBVIOUS
  <2> HIDE DEF old, e
  <2>3. e \in Entry /\ e.dir = old.dir
    BY <2>1, <2>a, ContentFacts
  <2>b. g = [f EXCEPT ![Passwd] = e]
    OBVIOUS
  <2> HIDE DEF g
  <2>4. Tree(g)
    BY <1>1, <2>3, <2>b, SetFacts DEF old
  <2>5. QED
    BY <2>2, <2>4
<1>2. CASE Passwd \notin DOMAIN f
  BY <1>2 DEF SyncIdentity
<1>3. QED
  BY <1>1, <1>2

LEMMA AddUserTree ==
  ASSUME AccountsOK, NEW f, Tree(f)
  PROVE  Tree(AddUser(f, NewUser))
<1> DEFINE e == NewHomeDir(NewUser)
           d == NewFile(NewUser, NewUser, {})
           home == Put(f, NewHome, e)
           filled == [p \in DOMAIN home \union Dotfiles |-> IF p \in Dotfiles THEN d ELSE home[p]]
           names == DOMAIN users \union {NewUser}
<1>1. e \in Entry /\ e.dir /\ d \in Entry
  BY NewEntries, NewHomeEntry, NameFacts
<1>2. NewHome \in Seq(Nat) /\ Dotfiles \subseteq Seq(Nat) \ {<<>>}
  BY FilesAssumption
<1>3. AddUser(f, NewUser) = SyncIdentity(filled, names)
  BY DEF AddUser
<1> HIDE DEF e, d
<1>4. Tree(home)
  BY <1>1, <1>2, PutFacts
<1> HIDE DEF home
<1>5. Tree(filled)
  <2>1. \A p \in DOMAIN filled : filled[p] \in Entry
    BY <1>1, <1>4 DEF Tree
  <2>2. DOMAIN filled = DOMAIN home \union Dotfiles
    OBVIOUS
  <2>3. filled \in [DOMAIN filled -> Entry]
    BY <2>1
  <2>4. <<>> \in DOMAIN filled /\ filled[<<>>] = home[<<>>]
    BY <1>2, <1>4 DEF Tree
  <2> HIDE DEF filled
  <2>5. QED
    BY <1>2, <1>4, <2>2, <2>3, <2>4 DEF Tree
<1>6. names \in SUBSET STRING
  BY NameFacts DEF AccountsOK
<1> HIDE DEF filled, names
<1>7. QED
  BY <1>3, <1>5, <1>6, SyncTree

LEMMA OneGroup == ASSUME NEW S, NEW g \in S PROVE <<g>> \in Seq(S)
OBVIOUS

LEMMA UseraddDone == ASSUME FilesTypeOK, Useradd PROVE Done
<1> DEFINE r == Result(AddUser(fs, NewUser), TRUE)
<1>1. Tree(AddUser(fs, NewUser))
  BY StateFacts, AddUserTree
<1>2. r \in Outcome
  BY <1>1, TreeSet DEF Outcome, Result
<1>3. /\ Ran("useradd", Root, <<>>, r) /\ sudoed' = TRUE /\ cwd' = cwd
      /\ users' = [v \in DOMAIN users \union {NewUser} |-> IF v = NewUser THEN <<NewUser>> ELSE users[v]]
  BY DEF Useradd
<1> HIDE DEF r
<1>4. /\ Tree(fs') /\ DOMAIN fs' \subseteq Paths
      /\ last'.n \in 0 .. MaxCommands /\ last'.user = Root /\ last'.verb \notin {"cp", "mv"}
  BY <1>2, <1>3, RanFacts
<1>5. /\ users' \in [DOMAIN users' -> Seq(STRING)]
      /\ {User, Root} \subseteq DOMAIN users' /\ DOMAIN users' \subseteq {User, Root, NewUser}
  <2>1. users \in [DOMAIN users -> Seq(STRING)] /\ {User, Root} \subseteq DOMAIN users
        /\ DOMAIN users \subseteq {User, Root, NewUser}
    BY DEF FilesTypeOK
  <2>2. <<NewUser>> \in Seq(STRING)
    BY NameFacts, OneGroup
  <2>3. QED
    BY <1>3, <2>1, <2>2
<1>6. FilesTypeOK'
  BY <1>3, <1>4, <1>5 DEF FilesTypeOK, Tree
<1>7. Quiet /\ Held /\ Carried
  BY <1>3, <1>4, NameFacts DEF Quiet, Held, Carried
<1>8. QED
  BY <1>6, <1>7 DEF Done

LEMMA UsermodDone == ASSUME FilesTypeOK, Usermod PROVE Done
<1> DEFINE r == Result(SyncIdentity(fs, DOMAIN users), TRUE)
<1>1. PICK v \in DOMAIN users :
        /\ Ran("usermod", Root, <<>>, r) /\ sudoed' = TRUE /\ cwd' = cwd
        /\ users' = [users EXCEPT ![v] = Append(@, "wheel")]
  BY DEF Usermod
<1>2. r \in Outcome
  <2>1. DOMAIN users \in SUBSET STRING
    BY NameFacts DEF FilesTypeOK
  <2>2. Tree(SyncIdentity(fs, DOMAIN users))
    BY <2>1, StateFacts, SyncTree
  <2>3. QED
    BY <2>2, TreeSet DEF Outcome, Result
<1> HIDE DEF r
<1>3. /\ Tree(fs') /\ DOMAIN fs' \subseteq Paths
      /\ last'.n \in 0 .. MaxCommands /\ last'.user = Root /\ last'.verb \notin {"cp", "mv"}
  BY <1>1, <1>2, RanFacts
<1>4. users' \in [DOMAIN users' -> Seq(STRING)] /\ DOMAIN users' = DOMAIN users
  <2>1. users \in [DOMAIN users -> Seq(STRING)] /\ users[v] \in Seq(STRING)
    BY DEF FilesTypeOK
  <2>2. "wheel" \in STRING
    BY FilesAssumption
  <2>3. Append(users[v], "wheel") \in Seq(STRING)
    BY <2>1, <2>2
  <2>4. QED
    BY <1>1, <2>1, <2>3
<1>5. FilesTypeOK'
  BY <1>1, <1>3, <1>4 DEF FilesTypeOK, Tree
<1>6. Quiet /\ Held /\ Carried
  BY <1>1, <1>3, NameFacts DEF Quiet, Held, Carried
<1>7. QED
  BY <1>5, <1>6 DEF Done

\* Every step does what it promises.
LEMMA StepDone ==
  ASSUME FilesTypeOK, FilesNext
  PROVE  Done
BY TeeDone, RedirectDone, TouchDone, MkdirDone, RMDone, RmdirDone, CPDone, MVDone, ChmodDone, ChownDone,
   CDDone, UseraddDone, UsermodDone, Zenon DEF FilesNext

LEMMA StartDone ==
  ASSUME FilesInit
  PROVE  FilesTypeOK /\ Kept(fs)
<1>1. /\ fs \in [DOMAIN fs -> Entry] /\ DOMAIN fs \subseteq Paths
      /\ <<>> \in DOMAIN fs /\ fs[<<>>].dir
  BY FilesAssumption DEF FilesInit
<1>2. Kept(fs)
  BY FilesAssumption DEF FilesInit, Kept, Closed
<1>3. /\ users \in [DOMAIN users -> Seq(STRING)]
      /\ {User, Root} \subseteq DOMAIN users /\ DOMAIN users \subseteq {User, Root, NewUser}
  <2>1. PICK a \in Accounts : users = [v \in {User, Root} |-> IF v = User THEN a.groups ELSE <<Root>>]
    BY DEF FilesInit
  <2>2. a.groups \in Seq(STRING)
    BY FilesAssumption
  <2>3. <<Root>> \in Seq(STRING)
    BY NameFacts, OneGroup
  <2>4. QED
    BY <2>1, <2>2, <2>3
<1>4. cwd \in Paths
  BY <1>1 DEF FilesInit
<1>5. last.n \in 0 .. MaxCommands
  <2>1. last = [n |-> 0, verb |-> "", user |-> User, args |-> <<>>, ok |-> TRUE]
    BY DEF FilesInit
  <2>2. last.n = 0
    BY ONLY <2>1
  <2>3. QED
    BY <2>2, FilesAssumption
<1>6. QED
  BY <1>1, <1>2, <1>3, <1>4, <1>5 DEF FilesTypeOK

-----------------------------------------------------------------------------
\* What holds of every run

\* Whatever commands are run, by whomever: entries, accounts and the working
\* directory keep their shape, and "/" stays (state.go:318-721, 475 for "/").
THEOREM FilesTypesKept == FilesSpec => []FilesTypeOK
<1>1. FilesInit => FilesTypeOK
  BY StartDone
<1>2. FilesTypeOK /\ [FilesNext]_filesVars => FilesTypeOK'
  <2>1. ASSUME FilesTypeOK, FilesNext PROVE FilesTypeOK'
    BY <2>1, StepDone DEF Done
  <2>2. ASSUME FilesTypeOK, UNCHANGED filesVars PROVE FilesTypeOK'
    BY <2>2 DEF filesVars, FilesTypeOK
  <2>3. QED
    BY <2>1, <2>2
<1>3. QED
  BY <1>1, <1>2, PTL DEF FilesSpec

\* What only root may read the participant cannot bring out without sudo: no
\* sequence of reads, writes, copies, moves and mode changes puts the secret in
\* a file he can read (state.go:318-721).
THEOREM SecretAlwaysKept == FilesSpec => []SecretKept
<1> DEFINE Inv == FilesTypeOK /\ (~sudoed => Kept(fs))
<1>1. FilesInit => Inv
  BY StartDone
<1>2. Inv /\ [FilesNext]_filesVars => Inv'
  <2>1. ASSUME Inv, FilesNext PROVE Inv'
    <3>1. FilesTypeOK' /\ Quiet
      BY <2>1, StepDone DEF Done
    <3>2. QED
      BY <2>1, <3>1 DEF Quiet
  <2>2. ASSUME Inv, UNCHANGED filesVars PROVE Inv'
    <3>1. fs' = fs /\ users' = users /\ cwd' = cwd /\ last' = last /\ sudoed' = sudoed
      BY <2>2 DEF filesVars
    <3>2. QED
      BY <2>2, <3>1 DEF FilesTypeOK, Kept
  <2>3. QED
    BY <2>1, <2>2
<1>3. Inv => SecretKept
  <2>1. SUFFICES ASSUME Inv, ~sudoed, NEW p \in DOMAIN fs, Secret \in fs[p].content PROVE ~CanRead(fs[p], User)
    BY DEF SecretKept
  <2> DEFINE e == fs[p]
  <2>2. Closed(e) /\ Secret \in e.content
    BY <2>1 DEF Kept
  <2> HIDE DEF e
  <2>3. ~CanRead(e, User)
    BY <2>2, ClosedIsUnread
  <2>4. QED
    BY <2>3 DEF e
<1> HIDE DEF Inv
<1>4. QED
  BY <1>1, <1>2, <1>3, PTL DEF FilesSpec

\* The participant's commands change only what is his, what lies in or under
\* something he could write, and the new parent directories; mv also takes
\* what he could read (state.go:318-721).
THEOREM AlwaysConfined == FilesSpec => Confined
<1> DEFINE Limits == (last'.n > last.n /\ last'.user = User) =>
             \A p \in DOMAIN fs \union DOMAIN fs' :
               EntryAt(fs, p) # EntryAt(fs', p) =>
                 \/ p \notin DOMAIN fs /\ fs'[p] = NewDir(Root, Root)
                 \/ EntryAt(fs, p).owner = User
                 \/ \E q \in DOMAIN fs : Under(p, q) /\ CanWrite(fs[q], User)
                 \/ last'.verb = "mv" /\ Under(p, last'.args[1]) /\ CanRead(fs[last'.args[1]], User)
<1>1. ASSUME FilesTypeOK, FilesNext PROVE Limits
  <2>1. SUFFICES ASSUME last'.user = User, NEW p \in DOMAIN fs \union DOMAIN fs',
                        EntryAt(fs, p) # EntryAt(fs', p)
                 PROVE  \/ p \notin DOMAIN fs /\ fs'[p] = NewDir(Root, Root)
                        \/ EntryAt(fs, p).owner = User
                        \/ \E q \in DOMAIN fs : Under(p, q) /\ CanWrite(fs[q], User)
                        \/ last'.verb = "mv" /\ Under(p, last'.args[1]) /\ CanRead(fs[last'.args[1]], User)
    OBVIOUS
  <2>2. Held
    BY <1>1, StepDone DEF Done
  <2>3. ~Same(fs, fs', p)
    BY <2>1 DEF Same, EntryAt
  <2>4. CASE Within(fs, fs')
    BY <2>3, <2>4 DEF Within, Reach
  <2>5. CASE Owned(fs, fs')
    BY <2>3, <2>5 DEF Owned, Same, EntryAt
  <2>6. CASE last'.verb = "mv" /\ Moves(fs, fs', last'.args[1], TRUE)
    BY <2>3, <2>6 DEF Moves, Reach
  <2>7. QED
    BY <2>1, <2>2, <2>4, <2>5, <2>6 DEF Held
<1>3. FilesTypeOK /\ [FilesNext]_filesVars => [Limits]_filesVars
  BY <1>1
<1>4. QED
  BY <1>3, FilesTypesKept, PTL DEF FilesSpec, Confined

\* A transfer between unrelated places brings everything below the source as it
\* was, leaves it there or takes it away, and touches nothing else
\* (state.go:493-568).
THEOREM TransfersAlwaysExact == FilesSpec => TransferExact
<1> DEFINE Brought == (last'.n > last.n /\ last'.verb \in {"cp", "mv"} /\ last'.ok) =>
             LET src == last'.args[1]
                 dst == Target(fs, src, last'.args[2])
             IN (~Under(src, dst) /\ ~Under(dst, src) /\ (fs[src].dir \/ Subtree(fs, src) = {src})) =>
                  /\ \A p \in Subtree(fs, src) :
                       /\ EntryAt(fs', Rebase(p, src, dst)) = fs[p]
                       /\ IF last'.verb = "cp" THEN EntryAt(fs', p) = fs[p] ELSE p \notin DOMAIN fs'
                  /\ \A p \in DOMAIN fs \union DOMAIN fs' :
                       ~Under(p, src) /\ ~Under(p, dst) /\ EntryAt(fs, p) # EntryAt(fs', p) =>
                         p \notin DOMAIN fs /\ fs'[p] = NewDir(Root, Root)
<1>1. ASSUME FilesTypeOK, FilesNext PROVE Brought
  <2> DEFINE src == last'.args[1]
             dst == Target(fs, src, last'.args[2])
  <2>1. Carried
    BY <1>1, StepDone DEF Done
  <2>2. SUFFICES ASSUME last'.verb \in {"cp", "mv"}, last'.ok, ~Under(src, dst), ~Under(dst, src),
                        fs[src].dir \/ Subtree(fs, src) = {src}
                 PROVE  /\ \A p \in Subtree(fs, src) :
                             /\ EntryAt(fs', Rebase(p, src, dst)) = fs[p]
                             /\ IF last'.verb = "cp" THEN EntryAt(fs', p) = fs[p] ELSE p \notin DOMAIN fs'
                        /\ \A p \in DOMAIN fs \union DOMAIN fs' :
                             ~Under(p, src) /\ ~Under(p, dst) /\ EntryAt(fs, p) # EntryAt(fs', p) =>
                               p \notin DOMAIN fs /\ fs'[p] = NewDir(Root, Root)
    OBVIOUS
  <2>3. Exact(fs, fs', src, dst, last'.verb = "mv")
    BY <2>1, <2>2 DEF Carried, Apart
  <2> HIDE DEF src, dst
  <2>4. ASSUME NEW p \in Subtree(fs, src)
        PROVE  /\ EntryAt(fs', Rebase(p, src, dst)) = fs[p]
               /\ IF last'.verb = "cp" THEN EntryAt(fs', p) = fs[p] ELSE p \notin DOMAIN fs'
    <3>1. /\ Arrived(fs, fs', src, dst, p)
          /\ IF last'.verb = "mv" THEN p \notin DOMAIN fs' ELSE Same(fs, fs', p)
      BY <2>3 DEF Exact
    <3>2. p \in DOMAIN fs
      BY DEF Subtree
    <3>3. EntryAt(fs', Rebase(p, src, dst)) = fs[p]
      BY <3>1 DEF Arrived, EntryAt
    <3>4. CASE last'.verb = "cp"
      BY <3>1, <3>2, <3>3, <3>4 DEF Same, EntryAt
    <3>5. CASE last'.verb = "mv"
      BY <3>1, <3>3, <3>5
    <3>6. QED
      BY <2>2, <3>4, <3>5
  <2>5. ASSUME NEW p \in DOMAIN fs \union DOMAIN fs', ~Under(p, src), ~Under(p, dst),
               EntryAt(fs, p) # EntryAt(fs', p)
        PROVE  p \notin DOMAIN fs /\ fs'[p] = NewDir(Root, Root)
    BY <2>3, <2>5 DEF Exact, Same, EntryAt
  <2>6. QED
    BY <2>4, <2>5
<1>2. FilesTypeOK /\ [FilesNext]_filesVars => [Brought]_filesVars
  BY <1>1
<1>3. QED
  BY <1>2, FilesTypesKept, PTL DEF FilesSpec, TransferExact
=============================================================================
