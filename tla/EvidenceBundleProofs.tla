------------------------ MODULE EvidenceBundleProofs ------------------------
(***************************************************************************)
(* Proofs about the Evidence Bundle.                                       *)
(*                                                                         *)
(* What a signature says cannot be made up: an entry that carries one      *)
(* carries a manifest that was signed with that key for that session,      *)
(* whatever was lost, changed, repeated, added or moved around it.  From   *)
(* this alone it follows what VerifyReader accepts: the manifest is the    *)
(* signed one, every entry it names is there with the content it names,    *)
(* and there is nothing else.                                              *)
(***************************************************************************)
EXTENDS EvidenceBundle, LoopProofs, SequenceTheorems, TLAPS

Keys     == {"none", "own", "foreign"}
Entries  == [name : AnyName, data : SUBSET (AnyName \X Nat), key : Keys]
Archives == Seq(Entries)
Length   == Len(Payload) + 2

\* The signature of this entry, if it has one, was made for this session.
Made(s, e) ==
  /\ e.key = "own" => \E v \in 1 .. version[s] : e.data = Hashes(v)
  /\ e.key = "foreign" => e.data \in resealed[s]

\* What may stand in an archive of the session.
EntriesTo(k) == [name : AnyName, data : SUBSET (AnyName \X (0 .. k)), key : Keys]
Honest(s)    == {e \in EntriesTo(version[s]) : (e.key # "none" => e.name = Sig) /\ Made(s, e)}
Bundles(s)   == {Bundle(v) : v \in 1 .. version[s]}

\* An archive that was sealed as it is.
Whole(s, a) == a \in Seq(Honest(s)) /\ Range(a) \in Sealed(s)

Commands == [pc : {"idle", "open", "create", "copy"}, todo : SUBSET DOMAIN Sessions,
             input : Archives]
Judges   == [pc : {"idle", "again", "read", "done"}, session : SessionIds, began : Nat,
             verified : BOOLEAN]

PartsInv ==
  /\ store \in [SessionIds -> Archives] /\ temp \in [SessionIds -> Archives]
  /\ dest \in [SessionIds -> Archives]
  /\ version \in [SessionIds -> Nat] /\ damages \in Nat /\ exports \in Nat
  /\ resealed \in [SessionIds -> SUBSET SUBSET (AnyName \X Nat)]
  /\ export \in Commands /\ judge \in Judges

StoreInv ==
  \A s \in SessionIds :
    /\ store[s] \in Seq(Honest(s))
    /\ damages = 0 /\ store[s] # <<>> => store[s] \in Bundles(s)
    /\ temp[s] # <<>> => temp[s] \in Bundles(s)

ExportInv ==
  /\ export.pc \in {"create", "copy"} => export.todo # {} /\ Whole(Turn, export.input)
  /\ \A s \in SessionIds : dest[s] \in {<<>>, Partial} \/ Whole(s, dest[s])

JudgeInv ==
  /\ judge.began <= damages
  /\ damages = judge.began =>
       /\ judge.verified
       /\ judge.pc \in {"again", "read"} => VerifyReader(store[judge.session])

BundleInv == PartsInv /\ StoreInv /\ ExportInv /\ JudgeInv

-----------------------------------------------------------------------------
\* Sequences and sets of naturals

LEMMA MinFacts ==
  ASSUME NEW T \in SUBSET Nat, T # {}
  PROVE  Min(T) \in T
BY Smallest DEF Min

LEMMA LenFacts ==
  ASSUME NEW S, NEW s \in Seq(S)
  PROVE  /\ Len(s) \in Nat /\ DOMAIN s = 1 .. Len(s) /\ \A i \in 1 .. Len(s) : s[i] \in S
         /\ s = <<>> <=> Len(s) = 0
         /\ Range(s) = {s[i] : i \in 1 .. Len(s)}
BY DEF Range

LEMMA AppendFacts ==
  ASSUME NEW S, NEW s \in Seq(S), NEW e \in S
  PROVE  /\ Len(s) \in Nat
         /\ Append(s, e) \in Seq(S) /\ Len(Append(s, e)) = Len(s) + 1
         /\ Append(s, e)[Len(s) + 1] = e
         /\ \A i \in 1 .. Len(s) : Append(s, e)[i] = s[i]
OBVIOUS

LEMMA ConcatFacts ==
  ASSUME NEW S, NEW s \in Seq(S), NEW r \in Seq(S)
  PROVE  /\ Len(s) \in Nat /\ Len(r) \in Nat
         /\ s \o r \in Seq(S) /\ Len(s \o r) = Len(s) + Len(r)
         /\ \A i \in 1 .. Len(s) : (s \o r)[i] = s[i]
         /\ \A i \in 1 .. Len(r) : (s \o r)[Len(s) + i] = r[i]
OBVIOUS

LEMMA SubSeqFacts ==
  ASSUME NEW S, NEW s \in Seq(S), NEW m \in 1 .. Len(s) + 1, NEW n \in 0 .. Len(s), m <= n + 1
  PROVE  /\ SubSeq(s, m, n) \in Seq(S) /\ Len(SubSeq(s, m, n)) = n - m + 1
         /\ \A i \in 1 .. n - m + 1 : SubSeq(s, m, n)[i] = s[m + i - 1]
BY SubSeqProperties

LEMMA RemoveFacts ==
  ASSUME NEW S, NEW s \in Seq(S), NEW i \in 1 .. Len(s)
  PROVE  /\ RemoveAt(s, i) \in Seq(S) /\ Len(RemoveAt(s, i)) = Len(s) - 1
         /\ \A k \in 1 .. Len(s) - 1 : RemoveAt(s, i)[k] = IF k < i THEN s[k] ELSE s[k + 1]
<1> DEFINE l == SubSeq(s, 1, i - 1)
           r == SubSeq(s, i + 1, Len(s))
<1>0. Len(s) \in Nat /\ i \in Nat /\ i >= 1 /\ i <= Len(s)
  OBVIOUS
<1>1. l \in Seq(S) /\ Len(l) = i - 1 /\ \A k \in 1 .. i - 1 : l[k] = s[k]
  <2>1. 1 \in 1 .. Len(s) + 1 /\ i - 1 \in 0 .. Len(s) /\ 1 <= (i - 1) + 1
    BY <1>0
  <2>2. /\ l \in Seq(S) /\ Len(l) = (i - 1) - 1 + 1
        /\ \A k \in 1 .. (i - 1) - 1 + 1 : l[k] = s[1 + k - 1]
    BY <2>1, SubSeqFacts
  <2> QED  BY <1>0, <2>2
<1>2. r \in Seq(S) /\ Len(r) = Len(s) - i /\ \A k \in 1 .. Len(s) - i : r[k] = s[i + k]
  <2>1. i + 1 \in 1 .. Len(s) + 1 /\ Len(s) \in 0 .. Len(s) /\ i + 1 <= Len(s) + 1
    BY <1>0
  <2>2. /\ r \in Seq(S) /\ Len(r) = Len(s) - (i + 1) + 1
        /\ \A k \in 1 .. Len(s) - (i + 1) + 1 : r[k] = s[(i + 1) + k - 1]
    BY <2>1, SubSeqFacts
  <2> QED  BY <1>0, <2>2
<1>3. RemoveAt(s, i) = l \o r
  BY DEF RemoveAt
<1> HIDE DEF l, r
<1>4. /\ l \o r \in Seq(S) /\ Len(l \o r) = Len(l) + Len(r)
      /\ \A k \in 1 .. Len(l) : (l \o r)[k] = l[k]
      /\ \A k \in 1 .. Len(r) : (l \o r)[Len(l) + k] = r[k]
  <2>1. l \in Seq(S) /\ r \in Seq(S)
    BY <1>1, <1>2
  <2> QED  BY ONLY <2>1, ConcatFacts
<1>5. ASSUME NEW k \in 1 .. Len(s) - 1
      PROVE  (l \o r)[k] = IF k < i THEN s[k] ELSE s[k + 1]
  <2>1. CASE k < i
    <3>1. k \in 1 .. i - 1
      BY <1>0, <2>1
    <3> QED  BY <1>1, <1>4, <2>1, <3>1
  <2>2. CASE ~(k < i)
    <3>1. k - i + 1 \in 1 .. Len(s) - i
      BY <1>0, <2>2
    <3>2. (l \o r)[Len(l) + (k - i + 1)] = r[k - i + 1] /\ r[k - i + 1] = s[i + (k - i + 1)]
      BY <1>1, <1>2, <1>4, <3>1
    <3>3. Len(l) + (k - i + 1) = k /\ i + (k - i + 1) = k + 1
      BY <1>0, <1>1
    <3> QED  BY <2>2, <3>2, <3>3
  <2> QED  BY <2>1, <2>2
<1> QED
  BY <1>0, <1>1, <1>2, <1>3, <1>4, <1>5

-----------------------------------------------------------------------------
\* What a bundle holds

LEMMA EntryFacts ==
  ASSUME NEW name, NEW data
  PROVE  /\ Entry(name, data).name = name /\ Entry(name, data).data = data
         /\ Entry(name, data).key = "none"
BY DEF Entry

LEMMA SealFacts ==
  ASSUME NEW data, NEW key
  PROVE  Seal(data, key).name = Sig /\ Seal(data, key).data = data /\ Seal(data, key).key = key
BY DEF Seal

LEMMA FunctionFacts ==
  ASSUME NEW S, NEW n \in Nat, NEW f, f = [i \in 1 .. n |-> f[i]], \A i \in 1 .. n : f[i] \in S
  PROVE  f \in Seq(S) /\ Len(f) = n
OBVIOUS

LEMMA PayloadFacts ==
  /\ Len(Payload) \in Nat /\ Len(Payload) >= 1 /\ DOMAIN Payload = 1 .. Len(Payload)
  /\ Payload \in Seq(Names) /\ Names = {Payload[i] : i \in 1 .. Len(Payload)}
  /\ \A i, j \in 1 .. Len(Payload) : Payload[i] = Payload[j] => i = j
  /\ Manifest # Sig /\ Manifest \notin Names /\ Sig \notin Names
  /\ Names \subseteq AnyName /\ Manifest \in AnyName /\ Sig \in AnyName /\ Extra \in AnyName
<1>1. Payload \in Seq(Names) /\ Payload # <<>> /\ IsInjective(Payload)
  BY BundleAssumption
<1>2. /\ Len(Payload) \in Nat /\ Len(Payload) >= 1 /\ DOMAIN Payload = 1 .. Len(Payload)
  BY <1>1
<1>3. Names = {Payload[i] : i \in 1 .. Len(Payload)}
  BY <1>2 DEF Names, Range
<1>4. \A i, j \in 1 .. Len(Payload) : Payload[i] = Payload[j] => i = j
  BY <1>1, <1>2 DEF IsInjective
<1>5. Manifest # Sig /\ Manifest \notin Names /\ Sig \notin Names
  BY BundleAssumption DEF Manifest, Sig
<1>6. Names \subseteq AnyName /\ Manifest \in AnyName /\ Sig \in AnyName /\ Extra \in AnyName
  BY DEF AnyName
<1> QED
  BY <1>1, <1>2, <1>3, <1>4, <1>5, <1>6

\* What the entry of this name is in version v.
Part(name, v) ==
  IF name \in Names THEN Entry(name, {<<name, v>>})
  ELSE IF name = Manifest THEN Entry(Manifest, Hashes(v)) ELSE Seal(Hashes(v), "own")

LEMMA HashesFacts ==
  ASSUME NEW k \in Nat, NEW v \in 0 .. k
  PROVE  Hashes(v) \in SUBSET (AnyName \X (0 .. k))
BY PayloadFacts DEF Hashes

LEMMA PartFacts ==
  ASSUME NEW k \in Nat, NEW v \in 0 .. k, NEW name \in Names \union {Manifest, Sig}
  PROVE  /\ Part(name, v) \in EntriesTo(k) /\ Part(name, v).name = name
         /\ Part(name, v).key # "none" =>
              name = Sig /\ Part(name, v).key = "own" /\ Part(name, v).data = Hashes(v)
<1>1. CASE name \in Names
  <2>1. Part(name, v) = Entry(name, {<<name, v>>})
    BY <1>1 DEF Part
  <2>2. {<<name, v>>} \in SUBSET (AnyName \X (0 .. k)) /\ name \in AnyName
    BY <1>1, PayloadFacts
  <2> QED  BY <2>1, <2>2 DEF Entry, EntriesTo, Keys
<1>2. CASE name = Manifest
  <2>1. Part(name, v) = Entry(Manifest, Hashes(v))
    BY <1>2, PayloadFacts DEF Part
  <2> QED  BY <1>2, <2>1, HashesFacts, PayloadFacts DEF Entry, EntriesTo, Keys
<1>3. CASE name = Sig
  <2>1. Part(name, v) = Seal(Hashes(v), "own")
    BY <1>3, PayloadFacts DEF Part
  <2> QED  BY <1>3, <2>1, HashesFacts, PayloadFacts DEF Seal, EntriesTo, Keys
<1> QED
  BY <1>1, <1>2, <1>3

\* A bundle has one entry for each name, and it holds what the manifest says.
LEMMA BundleFacts ==
  ASSUME NEW v \in Nat
  PROVE  /\ Bundle(v) \in Seq(EntriesTo(v)) /\ Len(Bundle(v)) = Length /\ Length \in Nat
         /\ \A i \in 1 .. Length : /\ Bundle(v)[i].name \in Names \union {Manifest, Sig}
                                   /\ Bundle(v)[i] = Part(Bundle(v)[i].name, v)
         /\ \A i, j \in 1 .. Length : Bundle(v)[i].name = Bundle(v)[j].name => i = j
         /\ \A name \in Names \union {Manifest, Sig} : \E i \in 1 .. Length : Bundle(v)[i].name = name
<1> DEFINE n == Len(Payload)
           l == [i \in 1 .. n |-> Part(Payload[i], v)]
           r == <<Part(Manifest, v), Part(Sig, v)>>
           b == l \o r
<1>0. n \in Nat /\ n >= 1 /\ Length = n + 2 /\ Length \in Nat /\ v \in 0 .. v
  BY PayloadFacts DEF Length
<1>2. \A i \in 1 .. n : Payload[i] \in Names
  BY PayloadFacts
<1>1. b = Bundle(v)
  <2>1. l = [i \in DOMAIN Payload |-> Entry(Payload[i], {<<Payload[i], v>>})]
    BY <1>2, PayloadFacts DEF Part
  <2>2. r = <<Entry(Manifest, Hashes(v)), Seal(Hashes(v), "own")>>
    BY PayloadFacts DEF Part
  <2> QED  BY <2>1, <2>2 DEF Bundle
<1>3. \A name \in Names \union {Manifest, Sig} : Part(name, v) \in EntriesTo(v) /\ Part(name, v).name = name
  BY <1>0, PartFacts
<1>4. l \in Seq(EntriesTo(v)) /\ Len(l) = n /\ \A i \in 1 .. n : l[i] = Part(Payload[i], v)
  <2>2. l = [i \in 1 .. n |-> l[i]] /\ \A i \in 1 .. n : l[i] \in EntriesTo(v)
    BY <1>2, <1>3
  <2>3. \A i \in 1 .. n : l[i] = Part(Payload[i], v)
    OBVIOUS
  <2> HIDE DEF l, n
  <2>4. l \in Seq(EntriesTo(v)) /\ Len(l) = n
    BY ONLY <1>0, <2>2, FunctionFacts
  <2> QED  BY <2>3, <2>4
<1>5. r \in Seq(EntriesTo(v)) /\ Len(r) = 2 /\ r[1] = Part(Manifest, v) /\ r[2] = Part(Sig, v)
  BY <1>3
<1> HIDE DEF l, r
<1>6. /\ b \in Seq(EntriesTo(v)) /\ Len(b) = Len(l) + Len(r)
      /\ \A i \in 1 .. Len(l) : b[i] = l[i]
      /\ \A i \in 1 .. Len(r) : b[Len(l) + i] = r[i]
  <2>1. l \in Seq(EntriesTo(v)) /\ r \in Seq(EntriesTo(v))
    BY <1>4, <1>5
  <2> HIDE DEF n
  <2>2. /\ l \o r \in Seq(EntriesTo(v)) /\ Len(l \o r) = Len(l) + Len(r)
        /\ \A i \in 1 .. Len(l) : (l \o r)[i] = l[i]
        /\ \A i \in 1 .. Len(r) : (l \o r)[Len(l) + i] = r[i]
    BY ONLY <2>1, ConcatFacts
  <2> QED  BY <2>2
<1> HIDE DEF b
<1>7. \A i \in 1 .. n : b[i] = Part(Payload[i], v)
  BY <1>4, <1>6
<1>8. b[n + 1] = Part(Manifest, v) /\ b[n + 2] = Part(Sig, v)
  <2>1. 1 \in 1 .. Len(r) /\ 2 \in 1 .. Len(r)
    BY <1>5
  <2> QED  BY <1>4, <1>5, <1>6, <2>1
<1> HIDE DEF n
<1>9. \A i \in 1 .. Length : i \in 1 .. n \/ i = n + 1 \/ i = n + 2
  BY <1>0
<1>a. /\ \A i \in 1 .. n : b[i].name = Payload[i] /\ Payload[i] \in Names
      /\ b[n + 1].name = Manifest /\ b[n + 2].name = Sig
  BY <1>2, <1>3, <1>7, <1>8
<1>10. ASSUME NEW i \in 1 .. Length
       PROVE  b[i].name \in Names \union {Manifest, Sig} /\ b[i] = Part(b[i].name, v)
  <2>1. CASE i \in 1 .. n
    BY <1>7, <1>a, <2>1
  <2>2. CASE i = n + 1
    BY <1>8, <1>a, <2>2
  <2>3. CASE i = n + 2
    BY <1>8, <1>a, <2>3
  <2> QED  BY <1>9, <2>1, <2>2, <2>3
<1>11. ASSUME NEW i \in 1 .. Length, NEW j \in 1 .. Length, b[i].name = b[j].name
       PROVE  i = j
  <2>3. CASE i \in 1 .. n /\ j \in 1 .. n
    <3>1. Payload[i] = Payload[j]
      BY <1>11, <1>a, <2>3
    <3> QED  BY <2>3, <3>1, PayloadFacts DEF n
  <2>4. CASE i \in 1 .. n /\ j \notin 1 .. n
    BY <1>9, <1>11, <1>a, <2>4, PayloadFacts
  <2>5. CASE i \notin 1 .. n /\ j \in 1 .. n
    BY <1>9, <1>11, <1>a, <2>5, PayloadFacts
  <2>6. CASE i \notin 1 .. n /\ j \notin 1 .. n
    BY <1>9, <1>11, <1>a, <2>6, PayloadFacts
  <2> QED  BY <2>3, <2>4, <2>5, <2>6
<1>12. ASSUME NEW name \in Names \union {Manifest, Sig}
       PROVE  \E i \in 1 .. Length : b[i].name = name
  <2>0. n + 1 \in 1 .. Length /\ n + 2 \in 1 .. Length /\ \A i \in 1 .. n : i \in 1 .. Length
    BY <1>0
  <2>1. CASE name \in Names
    <3>1. PICK i \in 1 .. n : name = Payload[i]
      BY <2>1, PayloadFacts DEF n
    <3> QED  BY <1>a, <2>0, <3>1
  <2>2. CASE name = Manifest
    BY <1>a, <2>0, <2>2
  <2>3. CASE name = Sig
    BY <1>a, <2>0, <2>3
  <2> QED  BY <2>1, <2>2, <2>3
<1>13. Len(b) = Length
  BY <1>0, <1>4, <1>5, <1>6
<1> QED
  BY <1>0, <1>1, <1>6, <1>10, <1>11, <1>12, <1>13, Zenon

-----------------------------------------------------------------------------
\* What VerifyReader accepts

\* The entry found under a name is the only one of that name.
LEMMA FoundIs ==
  ASSUME NEW S, NEW a \in Seq(S), \A i, j \in DOMAIN a : a[i].name = a[j].name => i = j,
         NEW e \in Range(a)
  PROVE  Found(a, e.name) = e
<1>1. Range(a) = {a[j] : j \in 1 .. Len(a)} /\ DOMAIN a = 1 .. Len(a)
  BY LenFacts
<1>2. Found(a, e.name) \in Range(a) /\ Found(a, e.name).name = e.name
  BY DEF Found
<1>3. PICK i \in 1 .. Len(a), j \in 1 .. Len(a) : e = a[i] /\ Found(a, e.name) = a[j]
  BY <1>1, <1>2
<1> QED
  BY <1>1, <1>2, <1>3

LEMMA HasFacts ==
  ASSUME NEW S, NEW a \in Seq(S), NEW name, Has(a, name)
  PROVE  Found(a, name) \in Range(a) /\ Found(a, name).name = name
<1>1. Range(a) = {a[j] : j \in 1 .. Len(a)} /\ DOMAIN a = 1 .. Len(a)
  BY LenFacts
<1>2. \E e \in Range(a) : e.name = name
  BY <1>1 DEF Has
<1> QED
  BY <1>2 DEF Found

\* What is accepted is the content of its own manifest.
LEMMA AcceptedHolds ==
  ASSUME NEW s \in SessionIds, NEW a \in Seq(Honest(s)), VerifyReader(a)
  PROVE  /\ Range(a) = Contents(Found(a, Manifest).data, Found(a, Sig).key)
         /\ Found(a, Sig).data = Found(a, Manifest).data /\ Found(a, Sig).key # "none"
         /\ Found(a, Sig) \in Honest(s)
<1> DEFINE m == Found(a, Manifest).data
           g == Found(a, Sig)
<1>1. /\ \A i, j \in DOMAIN a : a[i].name = a[j].name => i = j
      /\ Has(a, Manifest) /\ Has(a, Sig)
      /\ g.key # "none" /\ g.data = m
      /\ \A x \in m : x[1] \notin {Manifest, Sig} /\ Has(a, x[1]) /\ Found(a, x[1]).data = {x}
      /\ \A i \in DOMAIN a : a[i].name \in {x[1] : x \in m} \union {Manifest, Sig}
  BY DEF VerifyReader, VerifyManifest
<1>2. \A name : Has(a, name) => Found(a, name) \in Range(a) /\ Found(a, name).name = name
  BY HasFacts
<1>3. \A e \in Range(a) : Found(a, e.name) = e
  BY <1>1, FoundIs
<1>4. \A e \in Range(a) : e \in Honest(s) /\ \E i \in DOMAIN a : a[i] = e
  BY LenFacts
<1>5. \A e \in Range(a) : e = [name |-> e.name, data |-> e.data, key |-> e.key]
                          /\ (e.name # Sig => e.key = "none")
  BY <1>4 DEF Honest, EntriesTo
<1>6. Manifest # Sig
  BY PayloadFacts
<1> HIDE DEF m, g
<1>7. Found(a, Manifest) = Entry(Manifest, m) /\ Found(a, Manifest) \in Range(a)
  <2>1. Found(a, Manifest) \in Range(a) /\ Found(a, Manifest).name = Manifest
    BY <1>1, <1>2
  <2> QED  BY <1>5, <1>6, <2>1 DEF Entry, m
<1>8. g = Seal(m, g.key) /\ g \in Range(a) /\ g.name = Sig
  <2>1. g \in Range(a) /\ g.name = Sig
    BY <1>1, <1>2 DEF g
  <2> QED  BY <1>1, <1>5, <2>1 DEF Seal
<1>9. ASSUME NEW x \in m
      PROVE  Found(a, x[1]) = Entry(x[1], {x}) /\ Found(a, x[1]) \in Range(a)
  <2>1. /\ Found(a, x[1]) \in Range(a) /\ Found(a, x[1]).name = x[1]
        /\ Found(a, x[1]).data = {x} /\ x[1] # Sig
    BY <1>1, <1>2
  <2> QED  BY <1>5, <2>1 DEF Entry
<1>10. Range(a) = Contents(m, g.key)
  <2>1. ASSUME NEW e \in Range(a) PROVE e \in Contents(m, g.key)
    <3>1. e.name \in {x[1] : x \in m} \union {Manifest, Sig} /\ Found(a, e.name) = e
      BY <1>1, <1>3, <1>4
    <3>2. CASE e.name = Manifest
      BY <1>7, <3>1, <3>2 DEF Contents
    <3>3. CASE e.name = Sig
      BY <1>8, <3>1, <3>3 DEF Contents, g
    <3>4. CASE \E x \in m : e.name = x[1]
      BY <1>9, <3>1, <3>4 DEF Contents
    <3> QED  BY <3>1, <3>2, <3>3, <3>4
  <2>2. ASSUME NEW e \in Contents(m, g.key) PROVE e \in Range(a)
    BY <1>7, <1>8, <1>9, <2>2 DEF Contents
  <2> QED  BY <2>1, <2>2
<1> QED
  BY <1>1, <1>4, <1>8, <1>10 DEF m, g

\* ... which was signed.
LEMMA AcceptedIsWhole ==
  ASSUME NEW s \in SessionIds, NEW a \in Seq(Honest(s)), VerifyReader(a)
  PROVE  Whole(s, a)
<1> DEFINE m == Found(a, Manifest).data
           g == Found(a, Sig)
<1>1. Range(a) = Contents(m, g.key) /\ g.data = m /\ g.key # "none" /\ g \in Honest(s)
  BY AcceptedHolds
<1> HIDE DEF m, g
<1>11. Made(s, g) /\ g.key \in Keys
  BY <1>1 DEF Honest, EntriesTo
<1>12. CASE g.key = "own"
  <2>1. PICK v \in 1 .. version[s] : m = Hashes(v)
    BY <1>1, <1>11, <1>12 DEF Made
  <2> QED  BY <1>1, <1>12, <2>1 DEF Whole, Sealed, Written
<1>13. CASE g.key = "foreign"
  <2>1. m \in resealed[s]
    BY <1>1, <1>11, <1>13 DEF Made
  <2> QED  BY <1>1, <1>13, <2>1 DEF Whole, Sealed
<1> QED
  BY <1>1, <1>11, <1>12, <1>13 DEF Keys

\* What the server wrote is accepted.
LEMMA BundleVerifies ==
  ASSUME NEW v \in Nat
  PROVE  /\ VerifyReader(Bundle(v))
         /\ Found(Bundle(v), Manifest).data = Hashes(v) /\ Found(Bundle(v), Sig).key = "own"
<1> DEFINE b == Bundle(v)
<1>1. /\ b \in Seq(EntriesTo(v)) /\ Len(b) = Length
      /\ \A i \in 1 .. Length : b[i].name \in Names \union {Manifest, Sig}
      /\ \A i \in 1 .. Length : b[i] = Part(b[i].name, v)
      /\ \A i, j \in 1 .. Length : b[i].name = b[j].name => i = j
      /\ \A name \in Names \union {Manifest, Sig} : \E i \in 1 .. Length : b[i].name = name
  BY BundleFacts
<1> HIDE DEF b
<1>2. DOMAIN b = 1 .. Length /\ Range(b) = {b[i] : i \in 1 .. Length}
  BY <1>1, LenFacts
<1>3. ASSUME NEW name \in Names \union {Manifest, Sig}
      PROVE  Has(b, name) /\ Found(b, name) = Part(name, v)
  <2>1. PICK i \in 1 .. Length : b[i].name = name
    BY <1>1
  <2>2. b[i] \in Range(b) /\ b[i] = Part(name, v)
    BY <1>1, <1>2, <2>1
  <2>3. Found(b, b[i].name) = b[i]
    BY <1>1, <1>2, <2>2, FoundIs
  <2> QED  BY <1>2, <2>1, <2>2, <2>3 DEF Has
<1>4. /\ Has(b, Manifest) /\ Found(b, Manifest).data = Hashes(v)
      /\ Has(b, Sig) /\ Found(b, Sig).data = Hashes(v) /\ Found(b, Sig).key = "own"
  <2>1. Part(Manifest, v) = Entry(Manifest, Hashes(v)) /\ Part(Sig, v) = Seal(Hashes(v), "own")
    BY PayloadFacts DEF Part
  <2> QED  BY <1>3, <2>1, EntryFacts, SealFacts
<1>5. /\ \A x \in Hashes(v) : x[1] \in Names /\ x = <<x[1], v>>
      /\ \A p \in Names : <<p, v>> \in Hashes(v) /\ <<p, v>>[1] = p
  BY DEF Hashes
<1>6. ASSUME NEW x \in Hashes(v)
      PROVE  x[1] \notin {Manifest, Sig} /\ Has(b, x[1]) /\ Found(b, x[1]).data = {x}
  <2>1. x[1] \in Names /\ x = <<x[1], v>>
    BY <1>5
  <2>2. Has(b, x[1]) /\ Found(b, x[1]) = Entry(x[1], {<<x[1], v>>})
    BY <1>3, <2>1 DEF Part
  <2>3. Found(b, x[1]).data = {<<x[1], v>>}
    BY <2>2, EntryFacts
  <2> QED  BY <2>1, <2>2, <2>3, PayloadFacts
<1>7. \A i \in DOMAIN b : b[i].name \in {x[1] : x \in Hashes(v)} \union {Manifest, Sig}
  <2>1. \A p \in Names : p \in {x[1] : x \in Hashes(v)}
    BY <1>5
  <2> QED  BY <1>1, <1>2, <2>1
<1>8. \A i, j \in DOMAIN b : b[i].name = b[j].name => i = j
  BY <1>1, <1>2
<1> QED
  BY <1>4, <1>6, <1>7, <1>8 DEF VerifyReader, VerifyManifest, b

-----------------------------------------------------------------------------
\* What happens to a stored bundle

LEMMA SeqGrows ==
  ASSUME NEW S, NEW T, S \subseteq T, NEW a \in Seq(S)
  PROVE  a \in Seq(T)
OBVIOUS

LEMMA HonestFacts ==
  ASSUME NEW s \in SessionIds, version[s] \in Nat
  PROVE  /\ Honest(s) \subseteq Entries /\ Seq(Honest(s)) \subseteq Archives
         /\ \A name \in AnyName : Changed(name) \in Honest(s)
         /\ Partial \in Seq(Honest(s)) /\ <<>> \in Seq(Honest(s))
<1>1. Honest(s) \subseteq Entries
  BY DEF Honest, EntriesTo, Entries
<1>2. Seq(Honest(s)) \subseteq Archives
  BY <1>1, SeqGrows DEF Archives
<1>3. ASSUME NEW name \in AnyName PROVE Changed(name) \in Honest(s)
  <2>1. {<<name, 0>>} \in SUBSET (AnyName \X (0 .. version[s]))
    OBVIOUS
  <2> QED  BY <2>1 DEF Changed, Entry, Honest, EntriesTo, Keys, Made
<1>4. Extra \in AnyName
  BY PayloadFacts
<1> QED
  BY <1>1, <1>2, <1>3, <1>4 DEF Partial

\* What the server wrote for the session is whole and accepted.
LEMMA WrittenFacts ==
  ASSUME NEW s \in SessionIds, version[s] \in Nat, NEW a \in Bundles(s)
  PROVE  /\ a \in Seq(Honest(s)) /\ VerifyReader(a) /\ Whole(s, a) /\ a # <<>>
         /\ Range(a) \in Written(s)
<1>1. PICK v \in 1 .. version[s] : a = Bundle(v)
  BY DEF Bundles
<1>2. v \in Nat /\ v \in 0 .. version[s]
  OBVIOUS
<1>3. a \in Seq(EntriesTo(v)) /\ Len(a) = Length /\ Length \in Nat /\ Length # 0
  BY <1>1, <1>2, BundleFacts, PayloadFacts DEF Length
<1>4. \A i \in 1 .. Len(a) : a[i] \in Honest(s)
  <2>1. SUFFICES ASSUME NEW i \in 1 .. Length PROVE a[i] \in Honest(s)
    BY <1>3
  <2>2. a[i].name \in Names \union {Manifest, Sig} /\ a[i] = Part(a[i].name, v)
    BY <1>1, <1>2, BundleFacts
  <2>3. /\ a[i] \in EntriesTo(version[s])
        /\ a[i].key # "none" => a[i].name = Sig /\ a[i].key = "own" /\ a[i].data = Hashes(v)
    BY <1>2, <2>2, PartFacts
  <2> QED  BY <2>3 DEF Honest, Made
<1>5. a \in Seq(Honest(s))
  <2>1. a = [i \in 1 .. Len(a) |-> a[i]] /\ Len(a) \in Nat
    BY <1>3
  <2> QED  BY <1>4, <2>1, FunctionFacts
<1>6. VerifyReader(a)
  BY <1>1, <1>2, BundleVerifies
<1>7. Whole(s, a)
  BY <1>5, <1>6, AcceptedIsWhole
<1>8. a # <<>>
  BY <1>3
<1>9. Range(a) \in Written(s)
  <2>1. Found(a, Manifest).data = Hashes(v) /\ Found(a, Sig).key = "own"
    BY <1>1, <1>2, BundleVerifies
  <2>2. Range(a) = Contents(Hashes(v), "own")
    BY <1>5, <1>6, <2>1, AcceptedHolds
  <2> QED  BY <2>2 DEF Written
<1> QED
  BY <1>5, <1>6, <1>7, <1>8, <1>9

\* Nothing that was true of an archive is lost when another version is
\* written or another manifest signed.
LEMMA More ==
  ASSUME NEW s \in SessionIds, version[s] \in Nat, version'[s] \in Nat,
         version[s] <= version'[s], resealed[s] \subseteq resealed'[s]
  PROVE  /\ Honest(s) \subseteq Honest(s)' /\ Bundles(s) \subseteq Bundles(s)'
         /\ \A a \in Seq(Honest(s)) : a \in Seq(Honest(s)')
         /\ \A a : Whole(s, a) => Whole(s, a)'
<1>1. 1 .. version[s] \subseteq 1 .. version'[s] /\ 0 .. version[s] \subseteq 0 .. version'[s]
  OBVIOUS
<1>2. Honest(s) \subseteq Honest(s)'
  <2>1. \A e \in Honest(s) : e \in EntriesTo(version'[s])
    BY <1>1 DEF Honest, EntriesTo
  <2>2. \A e : Made(s, e) => Made(s, e)'
    BY <1>1 DEF Made
  <2> QED  BY <2>1, <2>2 DEF Honest
<1>3. Bundles(s) \subseteq Bundles(s)'
  BY <1>1 DEF Bundles
<1>4. \A a \in Seq(Honest(s)) : a \in Seq(Honest(s)')
  BY <1>2, SeqGrows
<1>5. Sealed(s) \subseteq Sealed(s)'
  BY <1>1 DEF Sealed, Written
<1> QED
  BY <1>2, <1>3, <1>4, <1>5 DEF Whole

LEMMA TailFacts ==
  ASSUME NEW S, NEW s \in Seq(S), s # <<>>
  PROVE  Append(Tail(s), Head(s)) \in Seq(S)
OBVIOUS

\* Whatever happens to an archive, its signature stays one that was made.
LEMMA DamagedFacts ==
  ASSUME NEW s \in SessionIds, version[s] \in Nat,
         NEW a \in Seq(Honest(s)), a # <<>>, NEW b \in Damaged(a)
  PROVE  b \in Seq(Honest(s))
<1>1. DOMAIN a = 1 .. Len(a) /\ \A i \in DOMAIN a : a[i] \in Honest(s) /\ a[i].name \in AnyName
  BY LenFacts DEF Honest, EntriesTo
<1>2. \A i \in DOMAIN a : Changed(a[i].name) \in Honest(s)
  BY <1>1, HonestFacts
<1>3. ASSUME NEW i \in DOMAIN a, b = RemoveAt(a, i) PROVE b \in Seq(Honest(s))
  BY <1>1, <1>3, RemoveFacts
<1>4. ASSUME NEW i \in DOMAIN a, b = [a EXCEPT ![i] = Changed(a[i].name)]
      PROVE  b \in Seq(Honest(s))
  BY <1>1, <1>2, <1>4
<1>5. ASSUME NEW i \in DOMAIN a, b = Append(a, Changed(a[i].name)) PROVE b \in Seq(Honest(s))
  BY <1>2, <1>5, AppendFacts
<1>6. ASSUME b = Append(a, Changed(Extra)) PROVE b \in Seq(Honest(s))
  BY <1>6, HonestFacts, AppendFacts, PayloadFacts
<1>7. ASSUME b = Append(Tail(a), Head(a)) PROVE b \in Seq(Honest(s))
  BY <1>7, TailFacts
<1> QED
  BY <1>3, <1>4, <1>5, <1>6, <1>7 DEF Damaged

LEMMA ResealedFacts ==
  ASSUME NEW s \in SessionIds, version[s] \in Nat, version'[s] = version[s],
         NEW a \in Seq(Honest(s)), resealed'[s] = resealed[s] \union {Listed(a)}
  PROVE  /\ Listed(a) \in SUBSET (AnyName \X (0 .. version[s]))
         /\ Resealed(a) \in Seq(Honest(s)')
<1>1. Range(a) \subseteq Honest(s) /\ DOMAIN a = 1 .. Len(a) /\ Len(a) \in Nat
      /\ \A i \in DOMAIN a : a[i] \in Honest(s)
  BY LenFacts
<1>2. Listed(a) \in SUBSET (AnyName \X (0 .. version[s]))
  BY <1>1 DEF Listed, Honest, EntriesTo
<1> DEFINE m == Listed(a)
           b == Resealed(a)
<1> HIDE DEF m
<1>3. Entry(Manifest, m) \in Honest(s)' /\ Seal(m, "foreign") \in Honest(s)'
  <2>1. m \in SUBSET (AnyName \X (0 .. version'[s])) /\ m \in resealed'[s]
    BY <1>2 DEF m
  <2>2. Entry(Manifest, m) \in Honest(s)'
    BY <2>1, PayloadFacts DEF Entry, Honest, EntriesTo, Keys, Made
  <2>3. Seal(m, "foreign") \in Honest(s)'
    BY <2>1, PayloadFacts DEF Seal, Honest, EntriesTo, Keys, Made
  <2> QED  BY <2>2, <2>3
<1>4. Honest(s) \subseteq Honest(s)'
  BY More
<1>5. b = [i \in 1 .. Len(a) |-> b[i]] /\ \A i \in 1 .. Len(a) : b[i] \in Honest(s)'
  BY <1>1, <1>3, <1>4 DEF Resealed, m
<1> HIDE DEF b
<1>6. b \in Seq(Honest(s)')
  BY <1>1, <1>5, FunctionFacts
<1> QED
  BY <1>2, <1>6 DEF b

-----------------------------------------------------------------------------
\* The invariant

LEMMA SessionFacts ==
  /\ Sessions[1] \in SessionIds
  /\ DOMAIN Sessions \in SUBSET Nat /\ \A i \in DOMAIN Sessions : Sessions[i] \in SessionIds
<1>1. Sessions \in Seq(SessionIds) /\ Sessions # <<>>
  BY BundleAssumption
<1>2. /\ Len(Sessions) \in Nat /\ Len(Sessions) # 0 /\ DOMAIN Sessions = 1 .. Len(Sessions)
      /\ \A i \in 1 .. Len(Sessions) : Sessions[i] \in SessionIds
  BY <1>1, LenFacts
<1> QED
  BY <1>2

\* The file the command is at is one it found.
LEMMA TurnFacts ==
  ASSUME PartsInv, export.todo # {}
  PROVE  Turn \in SessionIds /\ export.todo \ {Min(export.todo)} \in SUBSET DOMAIN Sessions
<1>1. export.todo \in SUBSET DOMAIN Sessions
  BY DEF PartsInv, Commands
<1>2. Min(export.todo) \in export.todo
  BY <1>1, MinFacts, SessionFacts
<1> QED
  BY <1>1, <1>2, SessionFacts DEF Turn

\* Both commands when they are not running.
LEMMA NoCommand ==
  /\ NoExport \in Commands /\ NoExport.pc = "idle"
  /\ NoJudge \in Judges /\ NoJudge.began = 0 /\ NoJudge.verified /\ NoJudge.pc = "idle"
BY SessionFacts DEF NoExport, NoJudge, Commands, Judges, Archives

LEMMA BundleInitially == BundleInit => BundleInv
<1> SUFFICES ASSUME BundleInit PROVE BundleInv
  OBVIOUS
<1>1. /\ store = [s \in SessionIds |-> <<>>] /\ temp = [s \in SessionIds |-> <<>>]
      /\ dest = [s \in SessionIds |-> <<>>] /\ version = [s \in SessionIds |-> 0]
      /\ resealed = [s \in SessionIds |-> {}]
      /\ damages = 0 /\ exports = 0 /\ export = NoExport /\ judge = NoJudge
  BY DEF BundleInit
<1>2. PartsInv
  BY <1>1, NoCommand DEF PartsInv, Archives
<1>3. StoreInv
  BY <1>1 DEF StoreInv
<1>4. ExportInv
  BY <1>1, NoCommand DEF ExportInv
<1>5. JudgeInv
  BY <1>1, NoCommand DEF JudgeInv
<1> QED
  BY <1>2, <1>3, <1>4, <1>5 DEF BundleInv

\* The files of the sessions are as they were.
Same == UNCHANGED <<store, temp, version, resealed, damages>>

LEMMA SameStore ==
  ASSUME BundleInv, Same
  PROVE  StoreInv' /\ \A s \in SessionIds : \A a : Whole(s, a)' = Whole(s, a)
<1>1. \A s \in SessionIds : Honest(s)' = Honest(s) /\ Bundles(s)' = Bundles(s) /\ Sealed(s)' = Sealed(s)
  BY DEF Same, Honest, Bundles, Sealed, Written, Made
<1> QED
  BY <1>1 DEF BundleInv, StoreInv, Same, Whole

\* What the export command holds is whole as long as nothing is lost.
LEMMA SameExport ==
  ASSUME BundleInv, UNCHANGED <<dest, export>>,
         \A s \in SessionIds : \A a : Whole(s, a) => Whole(s, a)'
  PROVE  ExportInv'
<1>1. Turn' = Turn
  BY DEF Turn
<1>2. ASSUME NEW s \in SessionIds
      PROVE  (dest[s] \in {<<>>, Partial} \/ Whole(s, dest[s]))'
  <2>1. dest[s] \in {<<>>, Partial} \/ Whole(s, dest[s])
    BY DEF BundleInv, ExportInv
  <2>2. PICK a : a = dest[s]
    OBVIOUS
  <2>3. Whole(s, a) => Whole(s, a)'
    OBVIOUS
  <2>4. a = dest'[s]
    BY <2>2
  <2> QED  BY <2>1, <2>2, <2>3, <2>4 DEF Whole
<1>3. ASSUME export'.pc \in {"create", "copy"}
      PROVE  export'.todo # {} /\ Whole(Turn, export.input)'
  <2>1. export.pc \in {"create", "copy"} /\ export.todo # {} /\ Whole(Turn, export.input)
    BY <1>3 DEF BundleInv, ExportInv
  <2>2. Turn \in SessionIds
    BY <2>1, TurnFacts DEF BundleInv
  <2>3. \E t \in SessionIds : \E a : t = Turn /\ a = export.input /\ Whole(t, a)
    BY <2>1, <2>2
  <2>a. PICK t \in SessionIds : \E a : t = Turn /\ a = export.input /\ Whole(t, a)
    BY <2>3
  <2>b. PICK a : t = Turn /\ a = export.input /\ Whole(t, a)
    BY <2>a
  <2>4. Whole(t, a)'
    BY <2>b
  <2>5. t = Turn' /\ a = export'.input
    BY <1>1, <2>b
  <2>6. Whole(Turn, export.input)'
    BY <2>4, <2>5, Zenon DEF Whole, Honest, Sealed, Written, Made
  <2> QED  BY <2>1, <2>6
<1> QED
  BY <1>2, <1>3 DEF ExportInv

-----------------------------------------------------------------------------
\* Each action keeps it

\* For a step on the files of one session.
LEMMA FileKeeps ==
  ASSUME BundleInv, NEW s \in SessionIds,
         store' \in [SessionIds -> Archives], temp' \in [SessionIds -> Archives],
         version' \in [SessionIds -> Nat],
         resealed' \in [SessionIds -> SUBSET SUBSET (AnyName \X Nat)],
         damages' = damages \/ damages' = damages + 1,
         UNCHANGED <<dest, export, exports, judge>>,
         \A u \in SessionIds : version[u] <= version'[u] /\ resealed[u] \subseteq resealed'[u],
         \A u \in SessionIds : u # s => store'[u] = store[u] /\ temp'[u] = temp[u],
         store'[s] \in Seq(Honest(s)'),
         damages' = 0 /\ store'[s] # <<>> => store'[s] \in Bundles(s)',
         temp'[s] # <<>> => temp'[s] \in Bundles(s)',
         damages' = damages => store'[s] = store[s] \/ VerifyReader(store'[s])
  PROVE  BundleInv'
<1>0. PartsInv /\ StoreInv /\ JudgeInv
  BY DEF BundleInv
<1>1. damages \in Nat /\ judge \in Judges /\ judge.began \in Nat /\ judge.session \in SessionIds
  BY <1>0 DEF PartsInv, Judges
<1>2. PartsInv'
  BY <1>0, <1>1 DEF PartsInv
<1>3. ASSUME NEW u \in SessionIds
      PROVE  /\ Bundles(u) \subseteq Bundles(u)'
             /\ \A a \in Seq(Honest(u)) : a \in Seq(Honest(u)')
             /\ \A a : Whole(u, a) => Whole(u, a)'
  <2>1. version[u] \in Nat /\ version'[u] \in Nat
    BY <1>0 DEF PartsInv
  <2> QED  BY <2>1, More
<1>4. StoreInv'
  <2>1. ASSUME NEW u \in SessionIds
        PROVE  /\ store'[u] \in Seq(Honest(u)')
               /\ damages' = 0 /\ store'[u] # <<>> => store'[u] \in Bundles(u)'
               /\ temp'[u] # <<>> => temp'[u] \in Bundles(u)'
    <3>1. CASE u = s
      BY <3>1
    <3>2. CASE u # s
      <4>1. store'[u] = store[u] /\ temp'[u] = temp[u] /\ (damages' = 0 => damages = 0)
        BY <1>1, <3>2
      <4>2. /\ store[u] \in Seq(Honest(u))
            /\ damages = 0 /\ store[u] # <<>> => store[u] \in Bundles(u)
            /\ temp[u] # <<>> => temp[u] \in Bundles(u)
        BY <1>0 DEF StoreInv
      <4> QED  BY <1>3, <4>1, <4>2
    <3> QED  BY <3>1, <3>2
  <2> QED  BY <2>1 DEF StoreInv
<1>5. ExportInv'
  <2>1. UNCHANGED <<dest, export>>
    OBVIOUS
  <2> QED  BY <1>3, <2>1, SameExport
<1>6. JudgeInv'
  <2>1. judge' = judge
    OBVIOUS
  <2>2. CASE damages' = damages + 1
    BY <1>0, <1>1, <2>1, <2>2 DEF JudgeInv
  <2>3. CASE damages' = damages
    <3>1. VerifyReader(store[judge.session]) => VerifyReader(store'[judge.session])
      <4>1. store'[judge.session] = store[judge.session] \/ VerifyReader(store'[judge.session])
        BY <1>1, <2>3
      <4> QED  BY <4>1
    <3> QED  BY <1>0, <1>1, <2>1, <2>3, <3>1 DEF JudgeInv
  <2> QED  BY <2>2, <2>3
<1> QED
  BY <1>2, <1>4, <1>5, <1>6 DEF BundleInv

LEMMA WriteKeeps ==
  ASSUME BundleInv, NEW s \in SessionIds, Write(s)
  PROVE  BundleInv'
<1>0. PartsInv /\ StoreInv
  BY DEF BundleInv
<1> DEFINE k == version[s] + 1
<1>1. /\ version[s] \in Nat /\ k \in Nat /\ k >= 1
      /\ temp' = [temp EXCEPT ![s] = Bundle(k)] /\ version' = [version EXCEPT ![s] = k]
      /\ UNCHANGED <<store, resealed, damages, dest, export, exports, judge>>
  BY <1>0 DEF Write, PartsInv
<1> HIDE DEF k
<1>2. version' \in [SessionIds -> Nat] /\ version'[s] = k
      /\ \A u \in SessionIds : version[u] \in Nat /\ version'[u] \in Nat /\ version[u] <= version'[u]
  BY <1>0, <1>1 DEF PartsInv, k
<1>3. Bundle(k) \in Bundles(s)'
  BY <1>1, <1>2 DEF Bundles
<1>4. Bundle(k) \in Archives
  <2>1. Bundle(k) \in Seq(EntriesTo(k)) /\ EntriesTo(k) \subseteq Entries
    BY <1>1, BundleFacts DEF EntriesTo, Entries
  <2> QED  BY <2>1, SeqGrows DEF Archives
<1>5. /\ temp' \in [SessionIds -> Archives] /\ temp'[s] = Bundle(k)
      /\ \A u \in SessionIds : u # s => temp'[u] = temp[u]
      /\ store' = store /\ store' \in [SessionIds -> Archives]
      /\ resealed' = resealed /\ resealed' \in [SessionIds -> SUBSET SUBSET (AnyName \X Nat)]
      /\ damages' = damages
  BY <1>0, <1>1, <1>4 DEF PartsInv
<1>6. /\ store'[s] \in Seq(Honest(s)')
      /\ damages' = 0 /\ store'[s] # <<>> => store'[s] \in Bundles(s)'
  <2>1. Bundles(s) \subseteq Bundles(s)' /\ \A a \in Seq(Honest(s)) : a \in Seq(Honest(s)')
    BY <1>2, <1>5, More
  <2> QED  BY <1>0, <1>5, <2>1 DEF StoreInv
<1> QED
  BY <1>1, <1>2, <1>3, <1>5, <1>6, FileKeeps

\* For a step that leaves versions and signatures as they are.
LEMMA SameFacts ==
  ASSUME BundleInv, UNCHANGED <<version, resealed>>
  PROVE  /\ version' \in [SessionIds -> Nat]
         /\ resealed' \in [SessionIds -> SUBSET SUBSET (AnyName \X Nat)]
         /\ \A u \in SessionIds : version[u] <= version'[u] /\ resealed[u] \subseteq resealed'[u]
         /\ \A u \in SessionIds : Honest(u)' = Honest(u) /\ Bundles(u)' = Bundles(u)
<1>1. /\ version' \in [SessionIds -> Nat] /\ version' = version
      /\ resealed' \in [SessionIds -> SUBSET SUBSET (AnyName \X Nat)]
      /\ \A u \in SessionIds : version[u] \in Nat
  BY DEF BundleInv, PartsInv
<1>2. \A u \in SessionIds : Honest(u)' = Honest(u) /\ Bundles(u)' = Bundles(u)
  BY DEF Honest, Bundles, Made
<1> QED
  BY <1>1, <1>2

LEMMA WriteFailsKeeps ==
  ASSUME BundleInv, NEW s \in SessionIds, WriteBundleFails(s)
  PROVE  BundleInv'
<1>0. PartsInv /\ StoreInv
  BY DEF BundleInv
<1>1. /\ temp' = [temp EXCEPT ![s] = <<>>]
      /\ UNCHANGED <<store, version, resealed, damages, dest, export, exports, judge>>
  BY DEF WriteBundleFails
<1>2. /\ temp' \in [SessionIds -> Archives] /\ temp'[s] = <<>>
      /\ \A u \in SessionIds : u # s => temp'[u] = temp[u]
  BY <1>0, <1>1 DEF PartsInv, Archives
<1>3. store' \in [SessionIds -> Archives] /\ damages' = damages /\ store' = store
  BY <1>0, <1>1 DEF PartsInv
<1>4. UNCHANGED <<version, resealed>>
  BY <1>1
<1>5. /\ store'[s] \in Seq(Honest(s)')
      /\ damages' = 0 /\ store'[s] # <<>> => store'[s] \in Bundles(s)'
  BY <1>0, <1>3, <1>4, SameFacts DEF StoreInv
<1> QED
  BY <1>1, <1>2, <1>3, <1>4, <1>5, SameFacts, FileKeeps

LEMMA RenameKeeps ==
  ASSUME BundleInv, NEW s \in SessionIds, RenameBundle(s)
  PROVE  BundleInv'
<1>0. PartsInv /\ StoreInv
  BY DEF BundleInv
<1>1. /\ temp[s] # <<>> /\ store' = [store EXCEPT ![s] = temp[s]] /\ temp' = [temp EXCEPT ![s] = <<>>]
      /\ UNCHANGED <<version, resealed, damages, dest, export, exports, judge>>
  BY DEF RenameBundle
<1>2. /\ store' \in [SessionIds -> Archives] /\ store'[s] = temp[s]
      /\ temp' \in [SessionIds -> Archives] /\ temp'[s] = <<>>
      /\ \A u \in SessionIds : u # s => store'[u] = store[u] /\ temp'[u] = temp[u]
      /\ damages' = damages
  BY <1>0, <1>1 DEF PartsInv, Archives
<1>3. UNCHANGED <<version, resealed>>
  BY <1>1
<1>4. /\ store'[s] \in Bundles(s)' /\ store'[s] \in Seq(Honest(s)')
      /\ VerifyReader(store'[s])
  <2>1. temp[s] \in Bundles(s) /\ version[s] \in Nat
    BY <1>0, <1>1 DEF StoreInv, PartsInv
  <2> QED  BY <1>2, <1>3, <2>1, SameFacts, WrittenFacts
<1> QED
  BY <1>1, <1>2, <1>3, <1>4, SameFacts, FileKeeps

LEMMA DamageKeeps ==
  ASSUME BundleInv, NEW s \in SessionIds, Damage(s)
  PROVE  BundleInv'
<1>0. PartsInv /\ StoreInv
  BY DEF BundleInv
<1>1. PICK a \in Damaged(store[s]) : store' = [store EXCEPT ![s] = a]
  BY DEF Damage
<1>2. /\ store[s] # <<>> /\ damages' = damages + 1
      /\ UNCHANGED <<temp, version, resealed, dest, export, exports, judge>>
  BY DEF Damage
<1>3. UNCHANGED <<version, resealed>>
  BY <1>2
<1>4. version[s] \in Nat /\ store[s] \in Seq(Honest(s)) /\ damages \in Nat
  BY <1>0 DEF PartsInv, StoreInv
<1>5. a \in Seq(Honest(s)) /\ a \in Archives
  BY <1>1, <1>2, <1>4, DamagedFacts, HonestFacts
<1>6. /\ store' \in [SessionIds -> Archives] /\ store'[s] = a
      /\ temp' \in [SessionIds -> Archives] /\ temp' = temp
      /\ \A u \in SessionIds : u # s => store'[u] = store[u] /\ temp'[u] = temp[u]
      /\ damages' # 0 /\ damages' # damages
  BY <1>0, <1>1, <1>2, <1>4, <1>5 DEF PartsInv
<1>7. temp'[s] # <<>> => temp'[s] \in Bundles(s)'
  BY <1>0, <1>3, <1>6, SameFacts DEF StoreInv
<1>8. store'[s] \in Seq(Honest(s)')
  BY <1>3, <1>5, <1>6, SameFacts
<1> QED
  BY <1>2, <1>3, <1>6, <1>7, <1>8, SameFacts, FileKeeps

LEMMA ResealKeeps ==
  ASSUME BundleInv, NEW s \in SessionIds, Reseal(s)
  PROVE  BundleInv'
<1>0. PartsInv /\ StoreInv
  BY DEF BundleInv
<1> DEFINE a == store[s]
           m == Listed(a)
<1>1. /\ store' = [store EXCEPT ![s] = Resealed(a)]
      /\ resealed' = [resealed EXCEPT ![s] = resealed[s] \union {m}]
      /\ damages' = damages + 1
      /\ UNCHANGED <<temp, version, dest, export, exports, judge>>
  BY DEF Reseal
<1>2. version[s] \in Nat /\ version' = version /\ a \in Seq(Honest(s)) /\ damages \in Nat
  BY <1>0, <1>1 DEF PartsInv, StoreInv
<1>3. resealed'[s] = resealed[s] \union {m}
  BY <1>0, <1>1 DEF PartsInv
<1> HIDE DEF a
<1>4. m \in SUBSET (AnyName \X (0 .. version[s])) /\ Resealed(a) \in Seq(Honest(s)')
  BY <1>2, <1>3, ResealedFacts
<1> HIDE DEF m
<1>5. m \in SUBSET (AnyName \X Nat)
  <2>1. 0 .. version[s] \subseteq Nat
    BY <1>2
  <2> QED  BY <1>4, <2>1
<1>6. /\ resealed' \in [SessionIds -> SUBSET SUBSET (AnyName \X Nat)]
      /\ \A u \in SessionIds : resealed[u] \subseteq resealed'[u]
  BY <1>0, <1>1, <1>5 DEF PartsInv
<1>7. version' \in [SessionIds -> Nat] /\ \A u \in SessionIds : version'[u] \in Nat /\ version[u] <= version'[u]
  BY <1>0, <1>2 DEF PartsInv
<1>8. Resealed(a) \in Archives
  <2>1. Honest(s)' \subseteq Entries
    BY <1>7 DEF Honest, EntriesTo, Entries
  <2> QED  BY <1>4, <2>1, SeqGrows DEF Archives
<1>9. /\ store' \in [SessionIds -> Archives] /\ store'[s] = Resealed(a)
      /\ temp' \in [SessionIds -> Archives] /\ temp' = temp
      /\ \A u \in SessionIds : u # s => store'[u] = store[u] /\ temp'[u] = temp[u]
      /\ damages' # 0 /\ damages' # damages
  BY <1>0, <1>1, <1>2, <1>8 DEF PartsInv
<1>10. temp'[s] # <<>> => temp'[s] \in Bundles(s)'
  <2>1. Bundles(s) \subseteq Bundles(s)'
    BY <1>2, <1>6, <1>7, More
  <2> QED  BY <1>0, <1>9, <2>1 DEF StoreInv
<1>11. UNCHANGED <<dest, export, exports, judge>>
  BY <1>1
<1> QED
  BY <1>1, <1>4, <1>6, <1>7, <1>9, <1>10, <1>11, FileKeeps

\* For a step of the command submissions export.
LEMMA ExportKeeps ==
  ASSUME BundleInv, Same, judge' = judge, exports' \in Nat,
         dest' \in [SessionIds -> Archives], export' \in Commands,
         \A s \in SessionIds : dest'[s] \in {<<>>, Partial} \/ Whole(s, dest'[s]),
         export'.pc \in {"create", "copy"} =>
           export'.todo = export.todo /\ export.todo # {} /\ Whole(Turn, export'.input)
  PROVE  BundleInv'
<1>1. PartsInv'
  BY DEF BundleInv, PartsInv, Same
<1>2. StoreInv' /\ \A s \in SessionIds : \A a : Whole(s, a)' = Whole(s, a)
  BY SameStore
<1>3. ExportInv'
  <2>1. ASSUME NEW s \in SessionIds
        PROVE  (dest[s] \in {<<>>, Partial} \/ Whole(s, dest[s]))'
    <3>1. PICK a : a = dest'[s]
      OBVIOUS
    <3>2. a \in {<<>>, Partial} \/ Whole(s, a)'
      BY <1>2, <3>1
    <3> QED  BY <3>1, <3>2 DEF Whole
  <2>2. ASSUME export'.pc \in {"create", "copy"}
        PROVE  export'.todo # {} /\ Whole(Turn, export.input)'
    <3>1. export'.todo = export.todo /\ export.todo # {} /\ Whole(Turn, export'.input)
      BY <2>2
    <3>2. Turn \in SessionIds /\ Turn' = Turn
      BY <3>1, TurnFacts DEF BundleInv, Turn
    <3>3. PICK t \in SessionIds : t = Turn
      BY <3>2
    <3>4. PICK a : a = export'.input
      OBVIOUS
    <3>5. Whole(t, a)'
      BY <1>2, <3>1, <3>3, <3>4
    <3>6. t = Turn' /\ a = export'.input
      BY <3>2, <3>3, <3>4
    <3>7. Whole(Turn, export.input)'
      BY <3>5, <3>6, Zenon DEF Whole, Honest, Sealed, Written, Made
    <3> QED  BY <3>1, <3>7
  <2> QED  BY <2>1, <2>2 DEF ExportInv
<1>4. JudgeInv'
  BY DEF BundleInv, JudgeInv, Same
<1> QED
  BY <1>1, <1>2, <1>3, <1>4 DEF BundleInv

\* The command as it is.
LEMMA CommandFacts ==
  ASSUME BundleInv
  PROVE  /\ export \in Commands /\ dest \in [SessionIds -> Archives] /\ exports \in Nat
         /\ \A s \in SessionIds : dest[s] \in {<<>>, Partial} \/ Whole(s, dest[s])
BY DEF BundleInv, PartsInv, ExportInv

LEMMA StartKeeps ==
  ASSUME BundleInv, ExportStart
  PROVE  BundleInv'
<1>1. /\ exports' = exports + 1 /\ judge' = judge /\ dest' = dest /\ Same
      /\ export' = [NoExport EXCEPT !.pc = "open",
                                    !.todo = {i \in DOMAIN Sessions : store[Sessions[i]] # <<>>}]
  BY DEF ExportStart, Same
<1>2. export' \in Commands /\ export'.pc = "open"
  BY <1>1, NoCommand DEF Commands
<1>3. exports' \in Nat
  BY <1>1, CommandFacts
<1> QED
  BY <1>1, <1>2, <1>3, CommandFacts, ExportKeeps

LEMMA OpenKeeps ==
  ASSUME BundleInv, ExportOpen
  PROVE  BundleInv'
<1>0. PartsInv /\ StoreInv
  BY DEF BundleInv
<1>1. exports' = exports /\ judge' = judge /\ dest' = dest /\ Same
  BY DEF ExportOpen, Same
<1>2. CASE export.todo # {} /\ VerifyReader(store[Turn])
  <2>1. export' = [export EXCEPT !.pc = "create", !.input = store[Turn]]
    BY <1>2 DEF ExportOpen
  <2>2. Turn \in SessionIds /\ store[Turn] \in Archives
    BY <1>0, <1>2, TurnFacts DEF PartsInv
  <2>3. Whole(Turn, store[Turn])
    BY <1>0, <1>2, <2>2, AcceptedIsWhole DEF StoreInv
  <2>4. export' \in Commands /\ export'.todo = export.todo /\ export'.input = store[Turn]
    BY <2>1, <2>2, CommandFacts DEF Commands
  <2> QED  BY <1>1, <1>2, <2>3, <2>4, CommandFacts, ExportKeeps
<1>3. CASE ~(export.todo # {} /\ VerifyReader(store[Turn]))
  <2>1. export' = NoExport
    BY <1>3 DEF ExportOpen
  <2> QED  BY <1>1, <2>1, NoCommand, CommandFacts, ExportKeeps
<1> QED
  BY <1>2, <1>3

LEMMA CreateKeeps ==
  ASSUME BundleInv, ExportCreate
  PROVE  BundleInv'
<1>0. PartsInv /\ ExportInv
  BY DEF BundleInv
<1>1. exports' = exports /\ judge' = judge /\ Same
  BY DEF ExportCreate, Same
<1>2. CASE dest[Turn] # <<>>
  <2>1. export' = NoExport /\ dest' = dest
    BY <1>2 DEF ExportCreate
  <2> QED  BY <1>1, <2>1, NoCommand, CommandFacts, ExportKeeps
<1>3. CASE dest[Turn] = <<>>
  <2>1. export' = [export EXCEPT !.pc = "copy"] /\ dest' = [dest EXCEPT ![Turn] = Partial]
    BY <1>3 DEF ExportCreate
  <2>2. export.todo # {} /\ Whole(Turn, export.input)
    BY <1>0 DEF ExportCreate, ExportInv
  <2>3. export' \in Commands /\ export'.todo = export.todo /\ export'.input = export.input
    BY <2>1, CommandFacts DEF Commands
  <2>4. Partial \in Archives
    <3>1. Changed(Extra) \in Entries
      BY PayloadFacts DEF Changed, Entry, Entries, Keys
    <3> QED  BY <3>1 DEF Partial, Archives
  <2>5. /\ dest' \in [SessionIds -> Archives]
        /\ \A s \in SessionIds : dest'[s] = Partial \/ dest'[s] = dest[s]
    BY <2>1, <2>4, CommandFacts
  <2>6. \A s \in SessionIds : dest'[s] \in {<<>>, Partial} \/ Whole(s, dest'[s])
    BY <2>5, CommandFacts
  <2> QED  BY <1>1, <2>2, <2>3, <2>5, <2>6, ExportKeeps, CommandFacts
<1> QED
  BY <1>2, <1>3

LEMMA CopyKeeps ==
  ASSUME BundleInv, ExportCopy
  PROVE  BundleInv'
<1>0. PartsInv /\ ExportInv
  BY DEF BundleInv
<1>1. exports' = exports /\ judge' = judge /\ Same
  BY DEF ExportCopy, Copied, Same
<1>2. export.todo # {} /\ Whole(Turn, export.input)
  BY <1>0 DEF ExportCopy, ExportInv
<1>3. /\ dest' = [dest EXCEPT ![Turn] = export.input]
      /\ export' = [export EXCEPT !.pc = "open", !.todo = export.todo \ {Min(export.todo)},
                                  !.input = <<>>]
  BY DEF ExportCopy, Copied
<1>4. Turn \in SessionIds /\ export.todo \ {Min(export.todo)} \in SUBSET DOMAIN Sessions
  BY <1>0, <1>2, TurnFacts
<1>5. export.input \in Archives /\ <<>> \in Archives
  BY <1>0 DEF PartsInv, Commands, Archives
<1>6. export' \in Commands /\ export'.pc = "open"
  BY <1>3, <1>4, <1>5, CommandFacts DEF Commands
<1>7. /\ dest' \in [SessionIds -> Archives] /\ dest'[Turn] = export.input
      /\ \A s \in SessionIds : s # Turn => dest'[s] = dest[s]
  BY <1>3, <1>4, <1>5, CommandFacts
<1>8. \A s \in SessionIds : dest'[s] \in {<<>>, Partial} \/ Whole(s, dest'[s])
  BY <1>2, <1>7, CommandFacts
<1> QED
  BY <1>1, <1>6, <1>7, <1>8, CommandFacts, ExportKeeps

LEMMA CopyFailsKeeps ==
  ASSUME BundleInv, ExportCopyFails
  PROVE  BundleInv'
<1>1. /\ exports' = exports /\ judge' = judge /\ Same
      /\ dest' = [dest EXCEPT ![Turn] = <<>>] /\ export' = NoExport
  BY DEF ExportCopyFails, Same
<1>0. <<>> \in Archives
  BY DEF Archives
<1>2. /\ dest' \in [SessionIds -> Archives]
      /\ \A s \in SessionIds : dest'[s] = <<>> \/ dest'[s] = dest[s]
  BY <1>0, <1>1, CommandFacts
<1>3. \A s \in SessionIds : dest'[s] \in {<<>>, Partial} \/ Whole(s, dest'[s])
  BY <1>2, CommandFacts
<1> QED
  BY <1>1, <1>2, <1>3, NoCommand, CommandFacts, ExportKeeps

LEMMA KilledKeeps ==
  ASSUME BundleInv, ExportKilled
  PROVE  BundleInv'
<1>1. exports' = exports /\ judge' = judge /\ Same /\ dest' = dest /\ export' = NoExport
  BY DEF ExportKilled, Same
<1> QED
  BY <1>1, NoCommand, CommandFacts, ExportKeeps

\* For a step of the command judge.
LEMMA JudgeKeeps ==
  ASSUME BundleInv, Same, UNCHANGED <<dest, export, exports>>, judge' \in Judges,
         judge'.began <= damages,
         damages = judge'.began =>
           judge'.verified /\ (judge'.pc \in {"again", "read"} => VerifyReader(store[judge'.session]))
  PROVE  BundleInv'
<1>1. PartsInv'
  BY DEF BundleInv, PartsInv, Same
<1>2. StoreInv' /\ \A s \in SessionIds : \A a : Whole(s, a)' = Whole(s, a)
  BY SameStore
<1>3. ExportInv'
  <2>1. UNCHANGED <<dest, export>> /\ \A s \in SessionIds : \A a : Whole(s, a) => Whole(s, a)'
    BY <1>2
  <2> QED  BY <2>1, SameExport
<1>4. JudgeInv'
  BY DEF JudgeInv, Same
<1> QED
  BY <1>1, <1>2, <1>3, <1>4 DEF BundleInv

LEMMA ReportKeeps ==
  ASSUME BundleInv,
         \/ \E s \in SessionIds : JudgeVerify(s)
         \/ JudgeAgain \/ JudgeRead \/ JudgeEnds
  PROVE  BundleInv'
<1>0. JudgeInv /\ judge \in Judges /\ damages \in Nat
  BY DEF BundleInv, PartsInv
<1>1. Same /\ UNCHANGED <<dest, export, exports>>
  BY DEF JudgeVerify, JudgeAgain, JudgeRead, JudgeEnds, Same
<1>2. ASSUME judge' = NoJudge PROVE BundleInv'
  BY <1>0, <1>1, <1>2, NoCommand, JudgeKeeps
<1>3. ASSUME NEW s \in SessionIds, JudgeVerify(s) PROVE BundleInv'
  <2>1. judge' = [NoJudge EXCEPT !.pc = "again", !.session = s, !.began = damages]
    BY <1>3 DEF JudgeVerify
  <2>2. /\ judge' \in Judges /\ judge'.began = damages /\ judge'.verified
        /\ judge'.session = s /\ VerifyReader(store[s])
    BY <1>0, <1>3, <2>1, NoCommand DEF Judges, JudgeVerify
  <2> QED  BY <1>0, <1>1, <2>2, JudgeKeeps
<1>4. ASSUME JudgeAgain PROVE BundleInv'
  <2>1. CASE VerifyReader(store[judge.session])
    <3>1. judge' = [judge EXCEPT !.pc = "read"]
      BY <1>4, <2>1 DEF JudgeAgain
    <3>2. /\ judge' \in Judges /\ judge'.began = judge.began /\ judge'.verified = judge.verified
          /\ judge'.session = judge.session
      BY <1>0, <3>1 DEF Judges
    <3> QED  BY <1>0, <1>1, <2>1, <3>2, JudgeKeeps DEF JudgeInv
  <2>2. CASE ~VerifyReader(store[judge.session])
    BY <1>2, <1>4, <2>2 DEF JudgeAgain
  <2> QED  BY <2>1, <2>2
<1>5. ASSUME JudgeRead PROVE BundleInv'
  <2>1. CASE judge' = [judge EXCEPT !.pc = "done", !.verified = VerifyReader(store[judge.session])]
    <3>1. VerifyReader(store[judge.session]) \in BOOLEAN
      BY DEF VerifyReader
    <3>2. /\ judge' \in Judges /\ judge'.began = judge.began /\ judge'.pc = "done"
          /\ judge'.verified = VerifyReader(store[judge.session])
      BY <1>0, <2>1, <3>1 DEF Judges
    <3>3. damages = judge.began => VerifyReader(store[judge.session])
      BY <1>0, <1>5 DEF JudgeInv, JudgeRead
    <3> QED  BY <1>0, <1>1, <3>2, <3>3, JudgeKeeps DEF JudgeInv
  <2>2. CASE judge' = NoJudge
    BY <1>2, <2>2
  <2> QED  BY <1>5, <2>1, <2>2 DEF JudgeRead
<1>6. ASSUME JudgeEnds PROVE BundleInv'
  BY <1>2, <1>6 DEF JudgeEnds
<1> QED
  BY <1>3, <1>4, <1>5, <1>6

-----------------------------------------------------------------------------
\* The theorems

LEMMA BundleStep ==
  ASSUME BundleInv, BundleNext
  PROVE  BundleInv'
<1>1. ASSUME NEW s \in SessionIds, Write(s) PROVE BundleInv'
  BY <1>1, WriteKeeps
<1>2. ASSUME NEW s \in SessionIds, WriteBundleFails(s) PROVE BundleInv'
  BY <1>2, WriteFailsKeeps
<1>3. ASSUME NEW s \in SessionIds, RenameBundle(s) PROVE BundleInv'
  BY <1>3, RenameKeeps
<1>4. ASSUME NEW s \in SessionIds, Damage(s) PROVE BundleInv'
  BY <1>4, DamageKeeps
<1>5. ASSUME NEW s \in SessionIds, Reseal(s) PROVE BundleInv'
  BY <1>5, ResealKeeps
<1>6. ASSUME NEW s \in SessionIds, JudgeVerify(s) PROVE BundleInv'
  BY <1>6, ReportKeeps
<1>7. CASE ExportStart
  BY <1>7, StartKeeps
<1>8. CASE ExportOpen
  BY <1>8, OpenKeeps
<1>9. CASE ExportCreate
  BY <1>9, CreateKeeps
<1>10. CASE ExportCopy
  BY <1>10, CopyKeeps
<1>11. CASE ExportCopyFails
  BY <1>11, CopyFailsKeeps
<1>12. CASE ExportKilled
  BY <1>12, KilledKeeps
<1>13. CASE JudgeAgain \/ JudgeRead \/ JudgeEnds
  BY <1>13, ReportKeeps
<1> QED
  BY <1>1, <1>2, <1>3, <1>4, <1>5, <1>6, <1>7, <1>8, <1>9, <1>10, <1>11, <1>12, <1>13 DEF BundleNext

\* The same when nothing happens.
LEMMA BundleStutters ==
  ASSUME BundleInv, UNCHANGED bundleVars
  PROVE  BundleInv'
<1>1. Same /\ UNCHANGED <<dest, export, exports>> /\ judge' = judge
  BY DEF bundleVars, Same
<1>2. /\ judge' \in Judges /\ judge'.began <= damages
      /\ damages = judge'.began =>
           judge'.verified /\ (judge'.pc \in {"again", "read"} => VerifyReader(store[judge'.session]))
  BY <1>1 DEF BundleInv, PartsInv, JudgeInv
<1> QED
  BY <1>1, <1>2, JudgeKeeps

\* In every reachable state each signature in an archive was made for that
\* manifest of that session, and the commands are where they may be.
THEOREM SignaturesAreMade == BundleSpec => []BundleInv
<1>1. BundleInit => BundleInv
  BY BundleInitially
<1>2. BundleInv /\ [BundleNext]_bundleVars => BundleInv'
  BY BundleStep, BundleStutters
<1> QED
  BY <1>1, <1>2, PTL DEF BundleSpec

\* Archives consist of entries of the versions written so far.
THEOREM BundleTypesKept == BundleSpec => []BundleTypeOK
<1>1. BundleInv => BundleTypeOK
  <2> SUFFICES ASSUME BundleInv PROVE BundleTypeOK
    OBVIOUS
  <2>0. PartsInv /\ StoreInv /\ ExportInv
    BY DEF BundleInv
  <2>1. ASSUME NEW s \in SessionIds
        PROVE  \A a \in Seq(Honest(s)) : a \in Seq(EntriesTo(version[s]))
    <3>1. Honest(s) \subseteq EntriesTo(version[s])
      BY DEF Honest
    <3> QED  BY <3>1, SeqGrows
  <2>2. ASSUME NEW s \in SessionIds
        PROVE  /\ store[s] \in Seq(EntriesTo(version[s]))
               /\ temp[s] \in Seq(EntriesTo(version[s]))
               /\ dest[s] \in Seq(EntriesTo(version[s]))
    <3>0. version[s] \in Nat
      BY <2>0 DEF PartsInv
    <3>1. store[s] \in Seq(Honest(s))
      BY <2>0 DEF StoreInv
    <3>2. temp[s] \in Seq(Honest(s))
      BY <2>0, <3>0, WrittenFacts, HonestFacts DEF StoreInv
    <3>3. dest[s] \in Seq(Honest(s))
      BY <2>0, <3>0, HonestFacts DEF ExportInv, Whole
    <3> QED  BY <2>1, <3>1, <3>2, <3>3
  <2>3. DOMAIN store = SessionIds /\ DOMAIN temp = SessionIds /\ DOMAIN dest = SessionIds
    BY <2>0 DEF PartsInv
  <2>4. \A f \in {store, temp, dest} : DOMAIN f = SessionIds /\ \A s \in SessionIds :
          f[s] \in Seq(EntriesTo(version[s]))
    BY <2>2, <2>3
  <2>5. /\ export.pc \in {"idle", "open", "create", "copy"} /\ export.todo \subseteq DOMAIN Sessions
        /\ judge.pc \in {"idle", "again", "read", "done"} /\ judge.session \in SessionIds
    BY <2>0 DEF PartsInv, Commands, Judges
  <2> QED  BY <2>4, <2>5 DEF BundleTypeOK, EntriesTo, Keys
<1> QED
  BY <1>1, SignaturesAreMade, PTL

\* For all sessions and names of entries, and for any number of versions,
\* changes to stored files, manifests signed anew and runs of the commands:
\* what VerifyReader accepts was put under its signature as it is, by the
\* server if the key is the session's; what nobody changed it accepts; what is
\* exported is as it was sealed; and judge prints the report of an archive
\* that verifies unless somebody else changed a bundle since it began.
THEOREM BundlesAlwaysSound == BundleSpec => []BundlesAreSound
<1>1. BundleInv => BundlesAreSound
  <2> SUFFICES ASSUME BundleInv PROVE BundlesAreSound
    OBVIOUS
  <2>0. PartsInv /\ StoreInv /\ ExportInv /\ JudgeInv
    BY DEF BundleInv
  <2>1. ASSUME NEW s \in SessionIds, VerifyReader(store[s])
        PROVE  Range(store[s]) \in Sealed(s)
    BY <2>0, <2>1, AcceptedIsWhole DEF StoreInv, Whole
  <2>2. ASSUME NEW s \in SessionIds, damages = 0, store[s] # <<>>
        PROVE  VerifyReader(store[s]) /\ Range(store[s]) \in Written(s)
    <3>1. store[s] \in Bundles(s) /\ version[s] \in Nat
      BY <2>0, <2>2 DEF StoreInv, PartsInv
    <3> QED  BY <3>1, WrittenFacts
  <2>3. AcceptedIsSealed
    BY <2>1, <2>2 DEF AcceptedIsSealed
  <2>4. VerifiedIsUsed
    BY <2>0 DEF VerifiedIsUsed, ExportInv, JudgeInv, Whole
  <2> QED  BY <2>3, <2>4 DEF BundlesAreSound
<1> QED
  BY <1>1, SignaturesAreMade, PTL

=============================================================================
