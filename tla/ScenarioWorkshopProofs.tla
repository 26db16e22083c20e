----------------------- MODULE ScenarioWorkshopProofs -----------------------
(***************************************************************************)
(* Proofs about the Scenario Workshop.                                     *)
(*                                                                         *)
(* The invariant WorkshopInv has six parts.  TypeInv: every slice lies in  *)
(* its array.  ArchiveInv: every reference there is, in an array, in the   *)
(* text a request is about to write or in the event file, has its archive. *)
(* DisabledInv: a disabled reference is never taken for a served package,  *)
(* so that a save enables what it takes over.  ListInv: while no write     *)
(* fails no list anywhere names or serves a scenario twice, and the event  *)
(* is the whole of the array made last.  SyncInv: while requests follow    *)
(* one another, memory and files differ only by what is left to do.        *)
(* SessionInv: a calm session finds its package in the files.              *)
(*                                                                         *)
(* The first sections are about the operators: the loop of removeScenario, *)
(* which reference serves a scenario, and what append and the rename in    *)
(* place do to an array that other slices share.                           *)
(***************************************************************************)
EXTENDS ScenarioWorkshop, LoopProofs, FiniteSetTheorems, FunctionTheorems,
        SequenceTheorems, TLAPS

-----------------------------------------------------------------------------
\* The list without the references to a package

\* "w" is the first n references but those to path, in their order: f tells
\* where each was.
Kept(refs, path, n, w, f) ==
  /\ w \in Seq(Ref) /\ Len(w) <= n
  /\ f \in [1 .. Len(w) -> 1 .. n]
  /\ \A i, j \in 1 .. Len(w) : i < j => f[i] < f[j]
  /\ \A i \in 1 .. Len(w) : w[i] = refs[f[i]] /\ w[i].package # path
  /\ \A m \in 1 .. n : refs[m].package # path => \E i \in 1 .. Len(w) : f[i] = m

\* One turn of the loop: a reference is skipped or appended.
LEMMA KeptStep ==
  ASSUME NEW refs \in Seq(Ref), NEW path, NEW n \in Nat, n + 1 <= Len(refs),
         NEW w, NEW f, Kept(refs, path, n, w, f)
  PROVE  \E g : Kept(refs, path, n + 1,
                     IF refs[n + 1].package = path THEN w ELSE Append(w, refs[n + 1]), g)
<1>0. /\ w \in Seq(Ref) /\ Len(w) \in Nat /\ Len(w) <= n
      /\ f \in [1 .. Len(w) -> 1 .. n] /\ \A i \in 1 .. Len(w) : f[i] \in 1 .. n
      /\ n + 1 \in Nat /\ Len(refs) \in Nat
  <2>1. w \in Seq(Ref) /\ Len(w) <= n /\ f \in [1 .. Len(w) -> 1 .. n]
    BY DEF Kept
  <2>2. Len(w) \in Nat /\ n + 1 \in Nat /\ Len(refs) \in Nat
    BY <2>1
  <2>3. \A i \in 1 .. Len(w) : f[i] \in 1 .. n
    BY <2>1
  <2> QED  BY <2>1, <2>2, <2>3
<1>1. CASE refs[n + 1].package = path
  <2>1. f \in [1 .. Len(w) -> 1 .. n + 1]
    BY <1>0
  <2>2. \A m \in 1 .. n + 1 : refs[m].package # path => \E i \in 1 .. Len(w) : f[i] = m
    <3> SUFFICES ASSUME NEW m \in 1 .. n + 1, refs[m].package # path
                 PROVE  m \in 1 .. n
      BY DEF Kept
    <3> QED  BY <1>1
  <2>3. Len(w) <= n + 1
    BY <1>0
  <2>4. Kept(refs, path, n + 1, w, f)
    BY <2>1, <2>2, <2>3 DEF Kept
  <2> QED  BY <1>1, <2>4
<1>2. CASE refs[n + 1].package # path
  <2> DEFINE v == Append(w, refs[n + 1])
             g == [i \in 1 .. Len(w) + 1 |-> IF i <= Len(w) THEN f[i] ELSE n + 1]
  <2>1. refs[n + 1] \in Ref /\ \A m \in 1 .. n + 1 : m \in 1 .. n \/ m = n + 1
    BY <1>0
  <2>2. /\ v \in Seq(Ref) /\ Len(v) = Len(w) + 1
        /\ \A i \in 1 .. Len(w) : v[i] = w[i]
        /\ v[Len(w) + 1] = refs[n + 1]
        /\ \A i \in 1 .. Len(v) : i \in 1 .. Len(w) \/ i = Len(w) + 1
    BY <1>0, <2>1
  <2>3. /\ g \in [1 .. Len(w) + 1 -> 1 .. n + 1]
        /\ \A i \in 1 .. Len(w) : g[i] = f[i]
        /\ g[Len(w) + 1] = n + 1
    BY <1>0
  <2> HIDE DEF v, g
  <2>4. \A i, j \in 1 .. Len(v) : i < j => g[i] < g[j]
    <3> SUFFICES ASSUME NEW i \in 1 .. Len(v), NEW j \in 1 .. Len(v), i < j
                 PROVE  g[i] < g[j]
      OBVIOUS
    <3>1. i \in 1 .. Len(w)
      BY <1>0, <2>2
    <3>2. CASE j \in 1 .. Len(w)
      BY <2>3, <3>1, <3>2 DEF Kept
    <3>3. CASE j = Len(w) + 1
      BY <1>0, <2>3, <3>1, <3>3
    <3> QED  BY <2>2, <3>2, <3>3
  <2>5. \A i \in 1 .. Len(v) : v[i] = refs[g[i]] /\ v[i].package # path
    <3>1. \A i \in 1 .. Len(w) : w[i] = refs[f[i]] /\ w[i].package # path
      BY DEF Kept
    <3> QED  BY <1>2, <2>2, <2>3, <3>1
  <2>6. \A m \in 1 .. n + 1 : refs[m].package # path => \E i \in 1 .. Len(v) : g[i] = m
    <3>1. \A m \in 1 .. n : refs[m].package # path => \E i \in 1 .. Len(w) : f[i] = m
      BY DEF Kept
    <3>2. Len(w) + 1 \in 1 .. Len(v) /\ \A i \in 1 .. Len(w) : i \in 1 .. Len(v)
      BY <1>0, <2>2
    <3> QED  BY <2>1, <2>3, <3>1, <3>2
  <2>7. Kept(refs, path, n + 1, v, g)
    BY <1>0, <2>2, <2>3, <2>4, <2>5, <2>6 DEF Kept
  <2> QED  BY <1>2, <2>7 DEF v
<1> QED  BY <1>1, <1>2

\* The loop of removeScenario keeps exactly the references to other packages.
LEMMA WithoutKeeps ==
  ASSUME NEW refs \in Seq(Ref), NEW path
  PROVE  \E f : Kept(refs, path, Len(refs), Without(refs, path), f)
<1> DEFINE Turn(K, i) == IF i = 0 THEN <<>>
                         ELSE IF refs[i].package = path THEN K[i - 1]
                         ELSE Append(K[i - 1], refs[i])
           Loop(n, K) == K = [i \in 0 .. n |-> Turn(K, i)]
<1>1. \A n \in Nat : \E K : Loop(n, K)
  <2> DEFINE T == {n \in Nat : ~\E K : Loop(n, K)}
  <2> SUFFICES ASSUME T # {} PROVE FALSE
    OBVIOUS
  <2>1. PICK n \in T : \A k \in T : n <= k
    BY Smallest
  <2>2. \E K : Loop(0, K)
    <3> WITNESS [i \in 0 .. 0 |-> <<>>]
    <3> QED  OBVIOUS
  <2> HIDE DEF Loop
  <2>3. n \in Nat /\ n # 0
    BY <2>1, <2>2
  <2>31. n - 1 \in Nat /\ ~(n <= n - 1)
    BY <2>3
  <2>4. PICK K : Loop(n - 1, K)
    BY <2>1, <2>31
  <2> DEFINE L == [i \in 0 .. n |-> IF i = n THEN Turn(K, n) ELSE K[i]]
  <2>5. \A i \in 0 .. n - 1 : L[i] = K[i] /\ Turn(L, i) = Turn(K, i)
    BY <2>3
  <2>6. Turn(L, n) = Turn(K, n)
    BY <2>3
  <2>61. \A i \in 0 .. n - 1 : K[i] = Turn(K, i)
    <3>1. K = [i \in 0 .. n - 1 |-> Turn(K, i)]
      BY <2>4 DEF Loop
    <3> HIDE DEF Turn
    <3> QED  BY <3>1
  <2>62. L[n] = Turn(K, n)
    BY <2>3
  <2>63. \A i \in 0 .. n : i \in 0 .. n - 1 \/ i = n
    BY <2>3
  <2>64. L = [i \in 0 .. n |-> L[i]]
    OBVIOUS
  <2> HIDE DEF L, Turn
  <2>7. \A i \in 0 .. n : L[i] = Turn(L, i)
    BY <2>5, <2>6, <2>61, <2>62, <2>63
  <2>8. Loop(n, L)
    BY <2>7, <2>64 DEF Loop
  <2> QED  BY <2>1, <2>8
<1>2. Len(refs) \in Nat
  OBVIOUS
<1> DEFINE kept == CHOOSE K : Loop(Len(refs), K)
<1>3. Loop(Len(refs), kept)
  <2>1. \E K : Loop(Len(refs), K)
    BY <1>1, <1>2
  <2> HIDE DEF Loop
  <2> QED  BY <2>1
<1>4. Without(refs, path) = kept[Len(refs)]
  BY DEF Without
<1> HIDE DEF kept
<1>5. /\ kept[0] = <<>>
      /\ \A i \in 1 .. Len(refs) : kept[i] = Turn(kept, i)
  <2>1. kept = [i \in 0 .. Len(refs) |-> Turn(kept, i)]
    BY <1>3
  <2>2. Turn(kept, 0) = <<>>
    OBVIOUS
  <2> HIDE DEF Turn
  <2> QED  BY <1>2, <2>1, <2>2
<1>6. \A n \in 0 .. Len(refs) : \E f : Kept(refs, path, n, kept[n], f)
  <2> DEFINE T == {n \in 0 .. Len(refs) : ~\E f : Kept(refs, path, n, kept[n], f)}
  <2> SUFFICES ASSUME T # {} PROVE FALSE
    OBVIOUS
  <2>0. T \in SUBSET Nat
    BY <1>2
  <2>1. PICK n \in T : \A k \in T : n <= k
    <3> HIDE DEF T
    <3> QED  BY <2>0, Smallest
  <2>2. Kept(refs, path, 0, kept[0], [i \in 1 .. 0 |-> 0])
    BY <1>5 DEF Kept
  <2>3. n \in Nat /\ n # 0 /\ n <= Len(refs)
    BY <1>2, <2>1, <2>2
  <2>4. PICK f : Kept(refs, path, n - 1, kept[n - 1], f)
    BY <1>2, <2>1, <2>3
  <2>5. kept[n] = IF refs[n].package = path THEN kept[n - 1] ELSE Append(kept[n - 1], refs[n])
    BY <1>2, <1>5, <2>3
  <2> DEFINE m == n - 1
  <2>6. m \in Nat /\ m + 1 = n
    BY <2>3
  <2> HIDE DEF m
  <2>7. \E g : Kept(refs, path, m + 1,
                    IF refs[m + 1].package = path THEN kept[m] ELSE Append(kept[m], refs[m + 1]), g)
    BY <1>2, <2>3, <2>4, <2>6, KeptStep DEF m
  <2> QED  BY <2>1, <2>5, <2>6, <2>7 DEF m
<1> QED  BY <1>2, <1>4, <1>6
-----------------------------------------------------------------------------
\* Types, and the shape of the heap

Slice == [array : Nat, len : Nat]
Job == [op : {"none", "create", "edit", "remove"}, pc : Labels, id : Ids \union {None},
        content : Content \union {None}, oldPackage : Content \union {None},
        oldSource : Paths \union {None}, oldEvent : Slice, event : Slice, data : Seq(Ref)]

\* A slice lies in its array.
Within(slice, heap) == /\ slice.array \in 1 .. Len(heap)
                       /\ slice.len \in 0 .. Len(heap[slice.array].cells)

\* A request knows its scenario, and a save its content.
Shape(j) == /\ j.pc = "idle" => j = Idle
            /\ j.pc # "idle" => j.id \in Ids
            /\ j.pc = "window" => j.op # "none"
            /\ j.op \in {"create", "edit"} => j.content \in Content
            /\ j.pc \in {"exists", "window2", "archive", "install"} => j.content \in Content
            /\ j.pc \in {"exists", "window2"} => j.op \in {"create", "edit"}

Session == [scenario : Ids, made : Content, runs : Content, calm : BOOLEAN]

HeapInv ==
  /\ arrays \in Seq([cells : Seq(Ref), cap : Nat])
  /\ \A a \in 1 .. Len(arrays) : Len(arrays[a].cells) <= arrays[a].cap
  /\ event \in Slice /\ Within(event, arrays)

JobInv ==
  /\ job \in [Handlers -> Job]
  /\ \A h \in Handlers : Shape(job[h])
  /\ \A h \in Handlers : Within(job[h].event, arrays) /\ Within(job[h].oldEvent, arrays)
  /\ ~up => \A h \in Handlers : job[h].pc = "idle"

PartsInv ==
  /\ up \in BOOLEAN
  /\ packages \in [Ids -> Content \union {None}]
  /\ source \in [Ids -> Paths \union {None}]
  /\ archives \in [Paths -> Content \union {None}]
  /\ eventFile \in Seq(Ref)
  /\ sessions \subseteq Session
  /\ overlap \in BOOLEAN /\ failed \in BOOLEAN
  /\ requests \in 0 .. MaxRequests /\ crashes \in 0 .. MaxCrashes

TypeInv == HeapInv /\ JobInv /\ PartsInv

-----------------------------------------------------------------------------
\* The references there are, and what they name

CellRefs == {r \in Ref : \E a \in 1 .. Len(arrays) :
                           \E i \in 1 .. Len(arrays[a].cells) : arrays[a].cells[i] = r}
DataRefs == {r \in Ref : \E h \in Handlers :
                           \E i \in 1 .. Len(job[h].data) : job[h].data[i] = r}
FileRefs == {r \in Ref : \E i \in 1 .. Len(eventFile) : eventFile[i] = r}
Refs == CellRefs \union DataRefs \union FileRefs

\* Every reference, in memory, on its way to the file or in it, has its archive.
ArchiveInv ==
  /\ \A r \in Refs : archives[r.package] # None
  /\ \A h \in Handlers : job[h].pc = "install" => archives[Managed(job[h].id)] # None

\* The paths the server takes for those of served packages.
Named == {source[id] : id \in Ids} \union {job[h].oldSource : h \in Handlers}
           \union {Managed(id) : id \in Ids} \union {r.package : r \in {q \in Refs : q.enabled}}

\* What an author has disabled is never taken for a served package.
DisabledInv == \A r \in Refs : ~r.enabled => r.package \notin Named

\* While no write fails no list names a package or serves a scenario twice, and
\* the memory is the one list that was made last.
Good(refs) == ValidEvent(refs) /\ OneEach(refs)
ListInv ==
  ~failed =>
    /\ Good(eventFile)
    /\ \A a \in 1 .. Len(arrays) : Good(arrays[a].cells)
    /\ \A h \in Handlers : Good(job[h].data) /\ job[h].pc # "rollback"
    /\ event = [array |-> Len(arrays), len |-> Len(arrays[Len(arrays)].cells)]
    /\ \A id \in Ids : source[id] = LastOf(Read(event), id)

\* While requests follow one another, memory and files differ only by what the
\* one under way still has to do.
Stored(id) == IF source[id] = None THEN None ELSE archives[source[id]]
Writing == {h \in Handlers : job[h].pc \in {"marshal", "rename"}}
SyncInv ==
  up /\ ~overlap /\ ~failed =>
    /\ \A g, h \in Busy : g = h
    /\ Writing = {} => eventFile = Read(event)
    /\ \A h \in Writing : job[h].event = event /\ (job[h].pc = "rename" => job[h].data = Read(event))
    /\ \A h \in Handlers : job[h].pc = "install" => archives[Managed(job[h].id)] = job[h].content
    /\ \A id \in Ids : \/ packages[id] = Stored(id)
                       \/ \E h \in Handlers : job[h].pc = "install" /\ job[h].id = id

\* A calm session finds its package in the files, and they no longer change.
SessionInv ==
  \A s \in sessions : s.calm =>
    /\ s.runs = s.made
    /\ Loaded(eventFile)[s.scenario] = s.made
    /\ Committed = {}
    /\ ValidEvent(eventFile)

WorkshopInv == TypeInv /\ ArchiveInv /\ DisabledInv /\ ListInv /\ SyncInv /\ SessionInv
-----------------------------------------------------------------------------
\* Paths, lists and what is served of them

LEMMA Constants ==
  /\ None \notin Content /\ None \notin Paths /\ None \notin Ids
  /\ FirstDoc \in Docs
  /\ MaxRequests \in Nat /\ MaxSessions \in Nat /\ MaxCrashes \in Nat
  BY WorkshopAssumption, NoneAssumption

LEMMA PathFacts ==
  /\ \A id \in Ids : /\ Managed(id) \in Paths /\ Original(id) \in Paths
                      /\ IdOf(Managed(id)) = id /\ IdOf(Original(id)) = id
  /\ \A x, y \in Ids : Managed(x) # Original(y) /\ (Managed(x) = Managed(y) => x = y)
                        /\ (Original(x) = Original(y) => x = y)
  /\ \A p \in Paths : IdOf(p) \in Ids
  BY DEF Paths, Managed, Original, IdOf

\* A set of indices that is not empty has a last one.
LEMMA Largest ==
  ASSUME NEW n \in Nat, NEW S \in SUBSET (1 .. n), S # {}
  PROVE  \E i \in S : \A j \in S : j <= i
<1> DEFINE T == {n - i : i \in S}
<1>1. T \in SUBSET Nat /\ T # {}
  <2>1. \A i \in S : n - i \in Nat
    OBVIOUS
  <2> QED  BY <2>1
<1>2. PICK m \in T : \A k \in T : m <= k
  <2> HIDE DEF T
  <2> QED  BY <1>1, Smallest
<1>3. PICK i \in S : m = n - i
  OBVIOUS
<1>4. ASSUME NEW j \in S PROVE n - i <= n - j /\ j \in Nat
  <2>1. n - j \in T /\ j \in Nat
    OBVIOUS
  <2> HIDE DEF T
  <2> QED  BY <1>2, <1>3, <2>1
<1>5. \A j \in S : j <= i
  BY <1>4
<1> QED  BY <1>5

\* A list has a reference that serves scenario x from p.
Serves(refs, x, p) ==
  \E i \in 1 .. Len(refs) : refs[i].enabled /\ refs[i].package = p /\ IdOf(p) = x

\* What is served of a scenario is one of its enabled references, if it has any.
LEMMA LastOfServes ==
  ASSUME NEW refs \in Seq(Ref), NEW x
  PROVE  /\ LastOf(refs, x) # None => Serves(refs, x, LastOf(refs, x))
         /\ LastOf(refs, x) = None => \A p : ~Serves(refs, x, p)
         /\ LastOf(refs, x) \in Paths \union {None}
<1> DEFINE at == {i \in Enabled(refs) : IdOf(refs[i].package) = x}
<1>1. /\ Len(refs) \in Nat /\ DOMAIN refs = 1 .. Len(refs)
      /\ \A i \in 1 .. Len(refs) : refs[i] \in Ref /\ refs[i].package \in Paths
  <2>1. \A r \in Ref : r.package \in Paths
    BY DEF Ref
  <2> QED  BY <2>1
<1>2. at \in SUBSET (1 .. Len(refs))
  BY <1>1 DEF Enabled
<1>3. \A i : i \in at <=> i \in 1 .. Len(refs) /\ refs[i].enabled /\ IdOf(refs[i].package) = x
  BY <1>1 DEF Enabled
<1>4. LastOf(refs, x) = IF at = {} THEN None ELSE refs[CHOOSE i \in at : \A j \in at : j <= i].package
  BY DEF LastOf
<1> HIDE DEF at
<1>5. CASE at = {}
  BY <1>3, <1>4, <1>5 DEF Serves
<1>6. CASE at # {}
  <2>1. \E i \in at : \A j \in at : j <= i
    BY <1>1, <1>2, <1>6, Largest
  <2> DEFINE i == CHOOSE i \in at : \A j \in at : j <= i
  <2>2. i \in at
    BY <2>1
  <2>3. LastOf(refs, x) = refs[i].package
    BY <1>4, <1>6
  <2> HIDE DEF i
  <2>4. LastOf(refs, x) \in Paths /\ Serves(refs, x, LastOf(refs, x))
    BY <1>1, <1>3, <2>2, <2>3 DEF Serves
  <2> QED  BY <2>4, Constants
<1> QED  BY <1>5, <1>6

\* If a list serves each scenario once it serves it from its only reference.
LEMMA OneServes ==
  ASSUME NEW refs \in Seq(Ref), OneEach(refs), NEW x, NEW p, Serves(refs, x, p)
  PROVE  LastOf(refs, x) = p
<1>1. LastOf(refs, x) # None /\ Serves(refs, x, LastOf(refs, x))
  BY LastOfServes
<1>2. PICK i \in 1 .. Len(refs) : refs[i].enabled /\ refs[i].package = p /\ IdOf(p) = x
  BY DEF Serves
<1>3. PICK j \in 1 .. Len(refs) : /\ refs[j].enabled /\ refs[j].package = LastOf(refs, x)
                                  /\ IdOf(LastOf(refs, x)) = x
  BY <1>1 DEF Serves
<1>4. i \in Enabled(refs) /\ j \in Enabled(refs)
  BY <1>2, <1>3 DEF Enabled
<1> QED  BY <1>2, <1>3, <1>4 DEF OneEach

\* Two lists with the same references to a scenario serve the same of it.
LEMMA SameServed ==
  ASSUME NEW refs \in Seq(Ref), NEW others \in Seq(Ref), OneEach(refs), NEW x,
         \A p : Serves(refs, x, p) <=> Serves(others, x, p)
  PROVE  LastOf(others, x) = LastOf(refs, x)
<1>1. CASE LastOf(others, x) = None
  BY <1>1, LastOfServes
<1>2. CASE LastOf(others, x) # None
  <2>1. Serves(refs, x, LastOf(others, x))
    BY <1>2, LastOfServes
  <2> QED  BY <2>1, OneServes
<1> QED  BY <1>1, <1>2

\* What is loaded of a list depends on the archives it names only.
LEMMA LoadedFacts ==
  ASSUME NEW refs \in Seq(Ref), archives \in [Paths -> Content \union {None}]
  PROVE  /\ Loaded(refs) \in [Ids -> Content \union {None}]
         /\ \A x \in Ids : Loaded(refs)[x] = IF LastOf(refs, x) = None THEN None
                                             ELSE archives[LastOf(refs, x)]
<1>1. \A x \in Ids : LastOf(refs, x) \in Paths \union {None}
  BY LastOfServes
<1>2. \A x \in Ids : (IF LastOf(refs, x) = None THEN None ELSE archives[LastOf(refs, x)])
                     \in Content \union {None}
  BY <1>1
<1> QED  BY <1>2 DEF Loaded
-----------------------------------------------------------------------------
\* What a request does to the arrays

\* Arrays are only added, and no array gets shorter.
Grown == /\ Len(arrays) \in Nat /\ Len(arrays') \in Nat /\ Len(arrays) <= Len(arrays')
         /\ \A a \in 1 .. Len(arrays) :
              /\ Len(arrays[a].cells) \in Nat /\ Len(arrays'[a].cells) \in Nat
              /\ Len(arrays[a].cells) <= Len(arrays'[a].cells)

LEMMA WithinGrown ==
  ASSUME Grown, NEW slice \in Slice, Within(slice, arrays)
  PROVE  Within(slice, arrays')
  BY DEF Grown, Within, Slice

LEMMA HeapTypes ==
  ASSUME HeapInv
  PROVE  /\ Len(arrays) \in Nat /\ event.array \in 1 .. Len(arrays) /\ event.len \in Nat
         /\ \A a \in 1 .. Len(arrays) :
              /\ arrays[a] \in [cells : Seq(Ref), cap : Nat]
              /\ arrays[a].cells \in Seq(Ref) /\ arrays[a].cap \in Nat
              /\ Len(arrays[a].cells) \in Nat
         /\ event.len <= Len(arrays[event.array].cells)
<1>1. /\ Len(arrays) \in Nat /\ event \in Slice /\ Within(event, arrays)
      /\ \A a \in 1 .. Len(arrays) : arrays[a] \in [cells : Seq(Ref), cap : Nat]
  <2>1. arrays \in Seq([cells : Seq(Ref), cap : Nat]) /\ event \in Slice /\ Within(event, arrays)
    BY DEF HeapInv
  <2> DEFINE R == [cells : Seq(Ref), cap : Nat]
  <2>2. arrays \in Seq(R)
    BY <2>1
  <2> HIDE DEF R
  <2>3. Len(arrays) \in Nat /\ \A a \in 1 .. Len(arrays) : arrays[a] \in R
    BY <2>2
  <2> QED  BY <2>1, <2>3 DEF R
<1>2. \A a \in 1 .. Len(arrays) : arrays[a].cells \in Seq(Ref) /\ arrays[a].cap \in Nat
  BY <1>1
<1>3. \A a \in 1 .. Len(arrays) : Len(arrays[a].cells) \in Nat
  BY <1>2
<1>4. event.array \in 1 .. Len(arrays) /\ event.len \in Nat
      /\ event.len <= Len(arrays[event.array].cells)
  BY <1>1 DEF Within, Slice
<1> QED  BY <1>1, <1>2, <1>3, <1>4

\* A slice is read as the first references of its array.
LEMMA ReadFacts ==
  ASSUME HeapInv, NEW slice \in Slice, Within(slice, arrays)
  PROVE  /\ Read(slice) \in Seq(Ref) /\ Len(Read(slice)) = slice.len
         /\ \A i \in 1 .. slice.len : Read(slice)[i] = arrays[slice.array].cells[i]
         /\ slice.len = Len(arrays[slice.array].cells) => Read(slice) = arrays[slice.array].cells
<1>1. /\ slice.array \in 1 .. Len(arrays) /\ slice.len \in Nat
      /\ slice.len <= Len(arrays[slice.array].cells)
      /\ arrays[slice.array].cells \in Seq(Ref) /\ Len(arrays[slice.array].cells) \in Nat
  BY HeapTypes DEF Within, Slice
<1> DEFINE c == arrays[slice.array].cells
<1>2. Read(slice) = SubSeq(c, 1, slice.len)
  BY DEF Read
<1>3. c \in Seq(Ref) /\ slice.len \in 0 .. Len(c)
  BY <1>1
<1> HIDE DEF c
<1>4. /\ SubSeq(c, 1, slice.len) \in Seq(Ref) /\ Len(SubSeq(c, 1, slice.len)) = slice.len
      /\ \A i \in 1 .. slice.len : SubSeq(c, 1, slice.len)[i] = c[i]
  BY <1>1, <1>3
<1>5. slice.len = Len(c) => SubSeq(c, 1, slice.len) = c
  BY <1>3
<1> QED  BY <1>2, <1>4, <1>5 DEF c

\* append into spare room: the cell behind the slice is overwritten.
Overwritten(c, n, ref) == SubSeq(c, 1, n) \o <<ref>> \o SubSeq(c, n + 2, Len(c))

LEMMA OverwriteFacts ==
  ASSUME NEW c \in Seq(Ref), NEW n \in Nat, n <= Len(c), NEW ref \in Ref
  PROVE  LET d == Overwritten(c, n, ref)
         IN  /\ d \in Seq(Ref)
             /\ Len(d) = IF n < Len(c) THEN Len(c) ELSE n + 1
             /\ d[n + 1] = ref
             /\ \A i \in 1 .. Len(d) : i # n + 1 => i \in 1 .. Len(c) /\ d[i] = c[i]
             /\ n = Len(c) => d = Append(c, ref)
<1> DEFINE one == SubSeq(c, 1, n)
           two == SubSeq(c, n + 2, Len(c))
<1>1. Len(c) \in Nat
  OBVIOUS
<1>2. one \in Seq(Ref) /\ Len(one) = n /\ \A i \in 1 .. n : one[i] = c[i]
  BY <1>1
<1>3. /\ two \in Seq(Ref) /\ Len(two) \in Nat
      /\ Len(two) = IF n + 2 <= Len(c) THEN Len(c) - n - 1 ELSE 0
      /\ \A i \in 1 .. Len(two) : two[i] = c[n + 1 + i]
  BY <1>1
<1> HIDE DEF one, two
<1> DEFINE front == one \o <<ref>>
<1>4. /\ front \in Seq(Ref) /\ Len(front) = n + 1 /\ front[n + 1] = ref
      /\ \A i \in 1 .. n : front[i] = c[i]
  BY <1>2
<1> HIDE DEF front
<1> DEFINE d == front \o two
<1>5. /\ d \in Seq(Ref) /\ Len(d) = n + 1 + Len(two)
      /\ \A i \in 1 .. n + 1 : d[i] = front[i]
      /\ \A i \in 1 .. Len(two) : d[n + 1 + i] = two[i]
  <2>1. front \in Seq(Ref) /\ two \in Seq(Ref) /\ Len(front) = n + 1
    BY <1>3, <1>4
  <2>2. /\ d \in Seq(Ref) /\ Len(d) = Len(front) + Len(two)
        /\ \A i \in 1 .. Len(front) + Len(two) :
             d[i] = IF i <= Len(front) THEN front[i] ELSE two[i - Len(front)]
    BY <2>1, ConcatProperties
  <2>3. \A i \in 1 .. n + 1 : d[i] = front[i]
    BY <1>3, <2>1, <2>2
  <2>4. ASSUME NEW i \in 1 .. Len(two) PROVE d[n + 1 + i] = two[i]
    <3>1. n + 1 + i \in 1 .. Len(front) + Len(two) /\ ~(n + 1 + i <= Len(front))
          /\ n + 1 + i - Len(front) = i
      BY <1>3, <2>1
    <3> QED  BY <2>2, <3>1
  <2> QED  BY <2>1, <2>2, <2>3, <2>4
<1>6. d = Overwritten(c, n, ref)
  BY DEF Overwritten, front, one, two
<1> HIDE DEF d
<1>7. Len(d) = IF n < Len(c) THEN Len(c) ELSE n + 1
  <2>1. CASE n + 2 <= Len(c)
    BY <1>1, <1>3, <1>5, <2>1
  <2>2. CASE ~(n + 2 <= Len(c))
    BY <1>1, <1>3, <1>5, <2>2
  <2> QED  BY <2>1, <2>2
<1>8. d[n + 1] = ref
  BY <1>4, <1>5
<1>9. ASSUME NEW i \in 1 .. Len(d), i # n + 1
      PROVE  i \in 1 .. Len(c) /\ d[i] = c[i]
  <2>1. CASE i <= n
    BY <1>1, <1>4, <1>5, <2>1
  <2>2. CASE i > n + 1
    <3>00. Len(d) \in Nat /\ i \in Nat /\ i <= Len(d) /\ Len(d) = n + 1 + Len(two)
      BY <1>5, <1>9
    <3>01. Len(two) # 0
      BY <3>00, <2>2
    <3>0. i \in Nat /\ i <= n + 1 + Len(two) /\ n + 2 <= Len(c)
      BY <1>1, <1>3, <3>00, <3>01
    <3>1. i - (n + 1) \in 1 .. Len(two) /\ i = n + 1 + (i - (n + 1)) /\ i <= Len(c)
      BY <1>1, <1>3, <3>0, <2>2
    <3>2. d[n + 1 + (i - (n + 1))] = two[i - (n + 1)]
      BY <1>5, <3>1
    <3>3. two[i - (n + 1)] = c[n + 1 + (i - (n + 1))]
      BY <1>3, <3>1
    <3> QED  BY <1>1, <1>9, <2>2, <3>1, <3>2, <3>3
  <2> QED  BY <1>5, <1>7, <1>9, <1>1, <2>1, <2>2
<1>10. ASSUME n = Len(c) PROVE d = Append(c, ref)
  <2>1. Len(d) = Len(c) + 1
    BY <1>1, <1>7, <1>10
  <2>2. \A i \in 1 .. Len(c) + 1 : d[i] = Append(c, ref)[i]
    BY <1>1, <1>8, <1>9, <1>10, <2>1
  <2>3. Append(c, ref) \in Seq(Ref) /\ Len(Append(c, ref)) = Len(c) + 1
    BY <1>1
  <2> QED  BY <1>5, <2>1, <2>2, <2>3, SeqEqual
<1> QED  BY <1>5, <1>6, <1>7, <1>8, <1>9, <1>10
\* Every cell after a step was a cell before it, or holds ref.
NewCells(ref) ==
  \A a \in 1 .. Len(arrays') : \A i \in 1 .. Len(arrays'[a].cells) :
    \/ arrays'[a].cells[i] = ref
    \/ /\ a \in 1 .. Len(arrays) /\ i \in 1 .. Len(arrays[a].cells)
       /\ arrays'[a].cells[i] = arrays[a].cells[i]
    \/ /\ a = Len(arrays) + 1
       /\ \E j \in 1 .. event.len : arrays'[a].cells[i] = arrays[event.array].cells[j]

\* One array gets other cells.
LEMMA CellsChanged ==
  ASSUME HeapInv, NEW a \in 1 .. Len(arrays), NEW d \in Seq(Ref),
         Len(arrays[a].cells) <= Len(d), Len(d) <= arrays[a].cap,
         arrays' = [arrays EXCEPT ![a].cells = d]
  PROVE  /\ Grown
         /\ Len(arrays') = Len(arrays) /\ arrays'[a].cells = d
         /\ \A b \in 1 .. Len(arrays) : b # a => arrays'[b] = arrays[b]
         /\ arrays' \in Seq([cells : Seq(Ref), cap : Nat])
         /\ \A b \in 1 .. Len(arrays') : Len(arrays'[b].cells) <= arrays'[b].cap
<1> DEFINE R == [cells : Seq(Ref), cap : Nat]
<1>1. arrays \in Seq(R) /\ Len(arrays) \in Nat
      /\ \A b \in 1 .. Len(arrays) : arrays[b] \in R /\ Len(arrays[b].cells) \in Nat
                                    /\ Len(arrays[b].cells) <= arrays[b].cap
  BY HeapTypes DEF HeapInv
<1>2. [arrays[a] EXCEPT !.cells = d] \in R
  BY <1>1
<1>3. arrays' = [arrays EXCEPT ![a] = [arrays[a] EXCEPT !.cells = d]]
  OBVIOUS
<1>4. [arrays[a] EXCEPT !.cells = d].cells = d /\ [arrays[a] EXCEPT !.cells = d].cap = arrays[a].cap
  BY <1>1
<1> HIDE DEF R
<1>5. /\ arrays' \in Seq(R) /\ Len(arrays') = Len(arrays)
      /\ arrays'[a] = [arrays[a] EXCEPT !.cells = d]
      /\ \A b \in 1 .. Len(arrays) : b # a => arrays'[b] = arrays[b]
  BY <1>1, <1>2, <1>3
<1>6. Len(d) \in Nat
  OBVIOUS
<1>7. \A b \in 1 .. Len(arrays') : Len(arrays'[b].cells) <= arrays'[b].cap
  BY <1>1, <1>4, <1>5
<1>8. Grown
  BY <1>1, <1>4, <1>5, <1>6 DEF Grown
<1> QED  BY <1>4, <1>5, <1>7, <1>8 DEF R

\* One array is added.
LEMMA ArrayAdded ==
  ASSUME HeapInv, NEW d \in Seq(Ref), NEW n \in Nat, Len(d) <= n,
         arrays' = Append(arrays, [cells |-> d, cap |-> n])
  PROVE  /\ Grown
         /\ Len(arrays') = Len(arrays) + 1 /\ arrays'[Len(arrays) + 1].cells = d
         /\ \A b \in 1 .. Len(arrays) : arrays'[b] = arrays[b]
         /\ arrays' \in Seq([cells : Seq(Ref), cap : Nat])
         /\ \A b \in 1 .. Len(arrays') : Len(arrays'[b].cells) <= arrays'[b].cap
<1> DEFINE R == [cells : Seq(Ref), cap : Nat]
           new == [cells |-> d, cap |-> n]
<1>1. arrays \in Seq(R) /\ Len(arrays) \in Nat
      /\ \A b \in 1 .. Len(arrays) : arrays[b] \in R /\ Len(arrays[b].cells) \in Nat
                                    /\ Len(arrays[b].cells) <= arrays[b].cap
  BY HeapTypes DEF HeapInv
<1>2. new \in R /\ new.cells = d /\ new.cap = n
  OBVIOUS
<1>3. arrays' = Append(arrays, new)
  OBVIOUS
<1> HIDE DEF R, new
<1>4. /\ arrays' \in Seq(R) /\ Len(arrays') = Len(arrays) + 1
      /\ arrays'[Len(arrays) + 1] = new
      /\ \A b \in 1 .. Len(arrays) : arrays'[b] = arrays[b]
  BY <1>1, <1>2, <1>3
<1>5. \A b \in 1 .. Len(arrays') : b \in 1 .. Len(arrays) \/ b = Len(arrays) + 1
  BY <1>1, <1>4
<1>6. \A b \in 1 .. Len(arrays') : Len(arrays'[b].cells) <= arrays'[b].cap
  BY <1>1, <1>2, <1>4, <1>5
<1>7. Grown
  BY <1>1, <1>4 DEF Grown
<1> QED  BY <1>2, <1>4, <1>6, <1>7 DEF R

\* append: the new list is the old one and ref.
LEMMA AppendRefFacts ==
  ASSUME HeapInv, NEW ref \in Ref, AppendRef(ref)
  PROVE  /\ HeapInv' /\ Grown /\ NewCells(ref)
         /\ event.len = Len(arrays[event.array].cells) /\ event.array = Len(arrays) =>
              /\ Read(event)' = Append(Read(event), ref)
              /\ event' = [array |-> Len(arrays'), len |-> Len(arrays'[Len(arrays')].cells)]
              /\ \A a \in 1 .. Len(arrays') : \/ arrays'[a].cells = Append(Read(event), ref)
                                              \/ a \in 1 .. Len(arrays) /\ arrays'[a] = arrays[a]
<1> DEFINE a == event.array
           c == arrays[a].cells
           n == event.len
           list == Read(event)
<1>1. /\ a \in 1 .. Len(arrays) /\ Len(arrays) \in Nat /\ n \in Nat
      /\ c \in Seq(Ref) /\ Len(c) \in Nat /\ n <= Len(c) /\ arrays[a].cap \in Nat
      /\ Len(c) <= arrays[a].cap
  BY HeapTypes DEF HeapInv
<1>2. event \in Slice /\ Within(event, arrays) /\ event = [array |-> a, len |-> n]
  BY DEF HeapInv, Slice
<1>3. /\ list \in Seq(Ref) /\ Len(list) = n
      /\ \A i \in 1 .. n : list[i] = c[i] /\ i \in 1 .. Len(c)
      /\ n = Len(c) => list = c
  BY <1>1, <1>2, ReadFacts
<1>0. ref \in Ref
  OBVIOUS
<1> HIDE DEF a, c, n, list
<1>4. CASE n < arrays[a].cap
  <2> DEFINE d == Overwritten(c, n, ref)
  <2>1. arrays' = [arrays EXCEPT ![a].cells = d] /\ event' = [event EXCEPT !.len = @ + 1]
    BY <1>4 DEF AppendRef, Overwritten, a, c, n
  <2>2. /\ d \in Seq(Ref) /\ Len(d) = IF n < Len(c) THEN Len(c) ELSE n + 1
        /\ d[n + 1] = ref
        /\ \A i \in 1 .. Len(d) : i # n + 1 => i \in 1 .. Len(c) /\ d[i] = c[i]
        /\ n = Len(c) => d = Append(c, ref)
    BY <1>0, <1>1, OverwriteFacts
  <2> HIDE DEF d
  <2>3. Len(c) <= Len(d) /\ Len(d) <= arrays[a].cap /\ n + 1 <= Len(d) /\ Len(d) \in Nat
    BY <1>1, <1>4, <2>2
  <2>4. /\ Grown /\ Len(arrays') = Len(arrays) /\ arrays'[a].cells = d
        /\ \A b \in 1 .. Len(arrays) : b # a => arrays'[b] = arrays[b]
        /\ arrays' \in Seq([cells : Seq(Ref), cap : Nat])
        /\ \A b \in 1 .. Len(arrays') : Len(arrays'[b].cells) <= arrays'[b].cap
    BY <1>1, <2>1, <2>2, <2>3, CellsChanged DEF c
  <2>5. event' = [array |-> a, len |-> n + 1]
    BY <1>2, <2>1
  <2>61. event' \in Slice /\ event'.array = a /\ event'.len = n + 1
    BY <1>1, <2>5 DEF Slice
  <2>62. Within(event', arrays')
    BY <1>1, <2>3, <2>4, <2>61 DEF Within
  <2>6. HeapInv'
    BY <2>4, <2>61, <2>62 DEF HeapInv
  <2>7. NewCells(ref)
    <3> SUFFICES ASSUME NEW b \in 1 .. Len(arrays'), NEW i \in 1 .. Len(arrays'[b].cells)
                 PROVE  \/ arrays'[b].cells[i] = ref
                        \/ /\ b \in 1 .. Len(arrays) /\ i \in 1 .. Len(arrays[b].cells)
                           /\ arrays'[b].cells[i] = arrays[b].cells[i]
      BY DEF NewCells
    <3>1. CASE b = a
      BY <1>1, <2>2, <2>4, <3>1 DEF c
    <3>2. CASE b # a
      BY <2>4, <3>2
    <3> QED  BY <3>1, <3>2
  <2>8. ASSUME n = Len(c), a = Len(arrays)
        PROVE  /\ Read(event)' = Append(list, ref)
               /\ event' = [array |-> Len(arrays'), len |-> Len(arrays'[Len(arrays')].cells)]
               /\ \A b \in 1 .. Len(arrays') : \/ arrays'[b].cells = Append(list, ref)
                                               \/ b \in 1 .. Len(arrays) /\ arrays'[b] = arrays[b]
    <3>a. n = Len(c) /\ n \in Nat
      BY <1>1, <2>8
    <3>b. ~(n < Len(c))
      BY <3>a
    <3>0. list = c /\ d = Append(c, ref) /\ ~(n < Len(c))
      BY <1>3, <2>2, <3>a, <3>b
    <3>1. d = Append(list, ref) /\ Len(d) = n + 1
      BY <2>2, <3>0
    <3>2. Read(event)' = SubSeq(d, 1, n + 1)
      BY <2>4, <2>5 DEF Read
    <3>3. SubSeq(d, 1, n + 1) = d
      BY <2>2, <3>1
    <3>4. \A b \in 1 .. Len(arrays') : \/ arrays'[b].cells = Append(list, ref)
                                       \/ b \in 1 .. Len(arrays) /\ arrays'[b] = arrays[b]
      BY <2>4, <3>1
    <3> QED  BY <2>4, <2>5, <2>8, <3>1, <3>2, <3>3, <3>4
  <2> QED  BY <2>4, <2>6, <2>7, <2>8 DEF a, c, n, list
<1>5. CASE ~(n < arrays[a].cap)
  <2> DEFINE d == Append(list, ref)
             k == IF arrays[a].cap = 0 THEN 1 ELSE 2 * arrays[a].cap
  <2>1. arrays' = Append(arrays, [cells |-> d, cap |-> k])
        /\ event' = [array |-> Len(arrays) + 1, len |-> n + 1]
    BY <1>5 DEF AppendRef, a, c, n, list
  <2>2. /\ d \in Seq(Ref) /\ Len(d) = n + 1 /\ d[n + 1] = ref
        /\ \A i \in 1 .. n : d[i] = list[i]
        /\ \A i \in 1 .. Len(d) : i \in 1 .. n \/ i = n + 1
    BY <1>0, <1>1, <1>3
  <2>3. k \in Nat /\ n + 1 <= k
    BY <1>1, <1>5
  <2> HIDE DEF d, k
  <2>4. /\ Grown /\ Len(arrays') = Len(arrays) + 1 /\ arrays'[Len(arrays) + 1].cells = d
        /\ \A b \in 1 .. Len(arrays) : arrays'[b] = arrays[b]
        /\ arrays' \in Seq([cells : Seq(Ref), cap : Nat])
        /\ \A b \in 1 .. Len(arrays') : Len(arrays'[b].cells) <= arrays'[b].cap
    BY <2>1, <2>2, <2>3, ArrayAdded
  <2>5. \A b \in 1 .. Len(arrays') : b \in 1 .. Len(arrays) \/ b = Len(arrays) + 1
    <3>1. Len(arrays) \in Nat /\ Len(arrays') = Len(arrays) + 1
      BY <1>1, <2>4
    <3> QED  BY <3>1
  <2>61. event' \in Slice /\ event'.array = Len(arrays) + 1 /\ event'.len = n + 1
    BY <1>1, <2>1 DEF Slice
  <2>62. Within(event', arrays')
    <3>1. Len(arrays) + 1 \in 1 .. Len(arrays')
      BY <1>1, <2>4
    <3>2. n + 1 \in 0 .. Len(arrays'[Len(arrays) + 1].cells)
      BY <1>1, <2>2, <2>4
    <3> QED  BY <2>61, <3>1, <3>2 DEF Within
  <2>6. HeapInv'
    BY <2>4, <2>61, <2>62 DEF HeapInv
  <2>7. NewCells(ref)
    <3> SUFFICES ASSUME NEW b \in 1 .. Len(arrays'), NEW i \in 1 .. Len(arrays'[b].cells)
                 PROVE  \/ arrays'[b].cells[i] = ref
                        \/ /\ b \in 1 .. Len(arrays) /\ i \in 1 .. Len(arrays[b].cells)
                           /\ arrays'[b].cells[i] = arrays[b].cells[i]
                        \/ /\ b = Len(arrays) + 1
                           /\ \E j \in 1 .. n : arrays'[b].cells[i] = c[j]
      BY DEF NewCells, a, c, n
    <3>1. CASE b \in 1 .. Len(arrays)
      BY <2>4, <3>1
    <3>2. CASE b = Len(arrays) + 1
      <4>1. i \in 1 .. n \/ i = n + 1
        BY <2>2, <2>4, <3>2
      <4> QED  BY <1>3, <2>2, <2>4, <3>2, <4>1
    <3> QED  BY <2>5, <3>1, <3>2
  <2>8. Read(event)' = d
    <3>1. Read(event)' = SubSeq(d, 1, n + 1)
      BY <2>1, <2>4 DEF Read
    <3> QED  BY <2>2, <3>1
  <2>9. /\ event' = [array |-> Len(arrays'), len |-> Len(arrays'[Len(arrays')].cells)]
        /\ \A b \in 1 .. Len(arrays') : \/ arrays'[b].cells = d
                                        \/ b \in 1 .. Len(arrays) /\ arrays'[b] = arrays[b]
    BY <2>1, <2>2, <2>4, <2>5
  <2> QED  BY <2>4, <2>6, <2>7, <2>8, <2>9 DEF d, list
<1> QED  BY <1>4, <1>5
LEMMA TakenIs ==
  ASSUME HeapInv, NEW id
  PROVE  /\ Taken(id) \in SUBSET Nat
         /\ \A i : i \in Taken(id) <=> i \in 1 .. event.len /\ Read(event)[i].package = source[id]
<1>1. event.len \in Nat
  BY HeapTypes
<1>2. 1 .. event.len \subseteq Nat
  BY <1>1
<1>3. \A i : i \in Taken(id) <=> i \in 1 .. event.len /\ Read(event)[i].package = source[id]
  BY DEF Taken
<1> QED  BY <1>2, <1>3

\* The rename in place: the first reference whose path was the source.
LEMMA TakenFacts ==
  ASSUME HeapInv, NEW id \in Ids, Taken(id) # {},
         arrays' = [arrays EXCEPT ![event.array].cells[
                      CHOOSE i \in Taken(id) : \A j \in Taken(id) : i <= j].package = Managed(id)],
         event' = event
  PROVE  /\ HeapInv' /\ Grown /\ Len(arrays') = Len(arrays)
         /\ \A a \in 1 .. Len(arrays) : a # event.array => arrays'[a] = arrays[a]
         /\ \E k \in 1 .. event.len :
              LET c == arrays[event.array].cells
                  d == arrays'[event.array].cells
              IN  /\ c[k].package = source[id] /\ Len(d) = Len(c)
                  /\ d[k] = [package |-> Managed(id), enabled |-> c[k].enabled]
                  /\ \A i \in 1 .. Len(c) : i # k => d[i] = c[i]
<1> DEFINE a == event.array
           c == arrays[a].cells
           n == event.len
           k == CHOOSE i \in Taken(id) : \A j \in Taken(id) : i <= j
           r == [package |-> Managed(id), enabled |-> c[k].enabled]
           d == [c EXCEPT ![k] = r]
<1>1. /\ a \in 1 .. Len(arrays) /\ Len(arrays) \in Nat /\ n \in Nat
      /\ c \in Seq(Ref) /\ Len(c) \in Nat /\ n <= Len(c)
      /\ Len(c) <= arrays[a].cap
  BY HeapTypes DEF HeapInv
<1>2. event \in Slice /\ Within(event, arrays)
  BY DEF HeapInv
<1>3. \A i \in 1 .. n : Read(event)[i] = c[i] /\ i \in 1 .. Len(c)
  BY <1>1, <1>2, ReadFacts
<1>4. \E i \in Taken(id) : \A j \in Taken(id) : i <= j
  BY TakenIs, Smallest
<1>5. k \in Taken(id)
  BY <1>4
<1>6. arrays' = [arrays EXCEPT ![a].cells[k].package = Managed(id)]
  OBVIOUS
<1> HIDE DEF k
<1>7. k \in 1 .. n /\ k \in 1 .. Len(c) /\ c[k].package = source[id] /\ c[k] \in Ref
  <2>1. k \in 1 .. n /\ Read(event)[k].package = source[id]
    BY <1>5, TakenIs
  <2>2. k \in 1 .. Len(c) /\ Read(event)[k] = c[k]
    BY <1>3, <2>1
  <2>3. \A i \in 1 .. Len(c) : c[i] \in Ref
    <3> HIDE DEF c
    <3> QED  BY <1>1
  <2> HIDE DEF c, n
  <2> QED  BY <2>1, <2>2, <2>3
<1>8. r \in Ref /\ [c[k] EXCEPT !.package = Managed(id)] = r
  BY <1>7, PathFacts DEF Ref
<1>9. arrays' = [arrays EXCEPT ![a].cells = d]
  BY <1>1, <1>6, <1>7, <1>8
<1> HIDE DEF r
<1>10. /\ d \in Seq(Ref) /\ Len(d) = Len(c) /\ d[k] = r
       /\ \A i \in 1 .. Len(c) : i # k => d[i] = c[i]
  BY <1>1, <1>7, <1>8
<1> HIDE DEF d
<1>11. Len(arrays[a].cells) <= Len(d) /\ Len(d) <= arrays[a].cap
  BY <1>1, <1>10
<1>12. /\ Grown /\ Len(arrays') = Len(arrays) /\ arrays'[a].cells = d
       /\ \A b \in 1 .. Len(arrays) : b # a => arrays'[b] = arrays[b]
       /\ arrays' \in Seq([cells : Seq(Ref), cap : Nat])
       /\ \A b \in 1 .. Len(arrays') : Len(arrays'[b].cells) <= arrays'[b].cap
  BY <1>1, <1>9, <1>10, <1>11, CellsChanged
<1>13. Within(event', arrays')
  BY <1>2, <1>12, WithinGrown
<1>14. HeapInv'
  BY <1>2, <1>12, <1>13 DEF HeapInv
<1> QED  BY <1>7, <1>10, <1>12, <1>14 DEF r
\* A removal makes a new array of the references it keeps.
LEMMA DetachHeap ==
  ASSUME HeapInv, NEW path, NEW kept, kept = Without(Read(event), path),
         arrays' = Append(arrays, [cells |-> kept, cap |-> event.len]),
         event' = [array |-> Len(arrays) + 1, len |-> Len(kept)]
  PROVE  /\ HeapInv' /\ Grown /\ kept \in Seq(Ref) /\ Read(event)' = kept
         /\ Len(arrays') = Len(arrays) + 1 /\ arrays'[Len(arrays) + 1].cells = kept
         /\ \A b \in 1 .. Len(arrays) : arrays'[b] = arrays[b]
         /\ \E f : Kept(Read(event), path, event.len, kept, f)
<1>1. event \in Slice /\ Within(event, arrays) /\ Len(arrays) \in Nat /\ event.len \in Nat
  BY HeapTypes DEF HeapInv
<1>2. Read(event) \in Seq(Ref) /\ Len(Read(event)) = event.len
  BY <1>1, ReadFacts
<1>3. \E f : Kept(Read(event), path, event.len, kept, f)
  BY <1>2, WithoutKeeps
<1>4. kept \in Seq(Ref) /\ Len(kept) <= event.len
  BY <1>3 DEF Kept
<1>5. Len(kept) \in Nat
  BY <1>4
<1>6. /\ Grown /\ Len(arrays') = Len(arrays) + 1 /\ arrays'[Len(arrays) + 1].cells = kept
      /\ \A b \in 1 .. Len(arrays) : arrays'[b] = arrays[b]
      /\ arrays' \in Seq([cells : Seq(Ref), cap : Nat])
      /\ \A b \in 1 .. Len(arrays') : Len(arrays'[b].cells) <= arrays'[b].cap
  BY <1>1, <1>4, ArrayAdded
<1>7. event' \in Slice /\ event'.array = Len(arrays) + 1 /\ event'.len = Len(kept)
  BY <1>1, <1>5 DEF Slice
<1>8. Within(event', arrays')
  BY <1>1, <1>5, <1>6, <1>7 DEF Within
<1>9. HeapInv'
  BY <1>6, <1>7, <1>8 DEF HeapInv
<1>10. Read(event)' = SubSeq(kept, 1, Len(kept))
  BY <1>6, <1>7 DEF Read
<1>11. SubSeq(kept, 1, Len(kept)) = kept
  BY <1>4
<1> QED  BY <1>3, <1>4, <1>6, <1>9, <1>10, <1>11

-----------------------------------------------------------------------------
\* Types

LEMMA GrownSame ==
  ASSUME HeapInv, arrays' = arrays
  PROVE  Grown
  BY HeapTypes DEF Grown

LEMMA HeapSame ==
  ASSUME HeapInv, UNCHANGED <<arrays, event>>
  PROVE  HeapInv'
  BY DEF HeapInv, Within

LEMMA IdleFacts ==
  /\ Idle \in Job /\ Shape(Idle) /\ Idle.pc = "idle" /\ Idle.data = <<>>
  /\ Idle.event = NoSlice /\ Idle.oldEvent = NoSlice /\ NoSlice \in Slice /\ Idle.oldSource = None
<1>1. NoSlice \in Slice
  BY DEF NoSlice, Slice
<1>2. "idle" \in Labels /\ <<>> \in Seq(Ref)
  BY DEF Labels
<1> QED  BY <1>1, <1>2 DEF Idle, Job, Shape

LEMMA NoSliceWithin ==
  ASSUME HeapInv
  PROVE  Within(NoSlice, arrays)
<1>1. 1 \in 1 .. Len(arrays)
  BY HeapTypes
<1>2. Len(arrays[1].cells) \in Nat
  BY <1>1, HeapTypes
<1> QED  BY <1>1, <1>2 DEF Within, NoSlice

\* One handler's request gets another record.
LEMMA JobStep ==
  ASSUME TypeInv, up, up' = up, Grown, NEW h \in Handlers, NEW r \in Job, Shape(r),
         job' = [job EXCEPT ![h] = r], Within(r.event, arrays'), Within(r.oldEvent, arrays')
  PROVE  JobInv'
<1>1. /\ job' \in [Handlers -> Job] /\ job'[h] = r
      /\ \A g \in Handlers : g # h => job'[g] = job[g]
  BY DEF TypeInv, JobInv
<1>2. \A g \in Handlers : Shape(job'[g])
  BY <1>1 DEF TypeInv, JobInv
<1>3. \A g \in Handlers : /\ job[g].event \in Slice /\ job[g].oldEvent \in Slice
                          /\ Within(job[g].event, arrays) /\ Within(job[g].oldEvent, arrays)
  BY DEF TypeInv, JobInv, Job
<1>4. \A g \in Handlers : Within(job[g].event, arrays') /\ Within(job[g].oldEvent, arrays')
  BY <1>3, WithinGrown
<1>5. \A g \in Handlers : Within(job'[g].event, arrays') /\ Within(job'[g].oldEvent, arrays')
  BY <1>1, <1>4
<1> QED  BY <1>1, <1>2, <1>5 DEF JobInv

LEMMA DoneStep ==
  ASSUME TypeInv, up, up' = up, Grown, HeapInv', NEW h \in Handlers, Done(h)
  PROVE  JobInv'
<1>1. 1 \in 1 .. Len(arrays') /\ Len(arrays'[1].cells) \in Nat
  <2>1. 1 \in 1 .. Len(arrays) /\ Len(arrays) \in Nat
    BY HeapTypes DEF TypeInv
  <2> QED  BY <2>1 DEF Grown
<1>2. Within(NoSlice, arrays')
  BY <1>1 DEF Within, NoSlice
<1>3. Within(Idle.event, arrays') /\ Within(Idle.oldEvent, arrays')
  BY <1>2, IdleFacts DEF Within, Idle, NoSlice
<1> QED  BY <1>3, IdleFacts, JobStep DEF Done

LEMMA GotoStep ==
  ASSUME TypeInv, up, up' = up, arrays' = arrays, NEW h \in Handlers,
         NEW pc \in Labels, pc # "idle", pc # "window", job[h].pc # "idle", Goto(h, pc),
         pc \in {"exists", "window2", "archive", "install"} => job[h].content \in Content,
         pc \in {"exists", "window2"} => job[h].op \in {"create", "edit"}
  PROVE  JobInv'
<1>0. PICK r : r = [job[h] EXCEPT !.pc = pc]
  OBVIOUS
<1>1. job[h] \in Job /\ Shape(job[h]) /\ Within(job[h].event, arrays) /\ Within(job[h].oldEvent, arrays)
  BY DEF TypeInv, JobInv
<1>2. /\ r \in Job /\ r.pc = pc /\ r.op = job[h].op /\ r.id = job[h].id
      /\ r.content = job[h].content /\ r.event = job[h].event /\ r.oldEvent = job[h].oldEvent
  BY <1>0, <1>1 DEF Job
<1>3. job' = [job EXCEPT ![h] = r]
  BY <1>0 DEF Goto
<1>4. Shape(r)
  BY <1>1, <1>2 DEF Shape
<1>5. Within(r.event, arrays') /\ Within(r.oldEvent, arrays')
  BY <1>1, <1>2
<1>6. Grown
  BY GrownSame DEF TypeInv
<1> QED  BY <1>2, <1>3, <1>4, <1>5, <1>6, JobStep
\* What is kept for a rollback, and the copy that is written, are of the event.
LEMMA PersistType ==
  ASSUME TypeInv, HeapInv', Grown, up, up' = up, NEW h \in Handlers, job[h].id \in Ids, Persist(h)
  PROVE  JobInv'
<1>1. PICK r : r = [job[h] EXCEPT !.pc = "marshal", !.event = event',
                      !.oldPackage = packages[job[h].id], !.oldSource = source[job[h].id],
                      !.oldEvent = event]
  OBVIOUS
<1>2. job' = [job EXCEPT ![h] = r]
  BY <1>1 DEF Persist
<1>3. job[h] \in Job /\ Shape(job[h])
  BY DEF TypeInv, JobInv
<1>4. packages[job[h].id] \in Content \union {None} /\ source[job[h].id] \in Paths \union {None}
  BY DEF TypeInv, PartsInv
<1>5. /\ event \in Slice /\ Within(event, arrays) /\ event' \in Slice /\ Within(event', arrays')
  BY DEF TypeInv, HeapInv
<1>6. "marshal" \in Labels
  BY DEF Labels
<1>7. /\ r \in Job /\ r.pc = "marshal" /\ r.id = job[h].id /\ r.op = job[h].op
      /\ r.content = job[h].content /\ r.event = event' /\ r.oldEvent = event
  BY <1>1, <1>3, <1>4, <1>5, <1>6 DEF Job
<1>8. Shape(r)
  BY <1>3, <1>7 DEF Shape
<1>9. Within(r.event, arrays') /\ Within(r.oldEvent, arrays')
  <2>1. PICK e : e = event
    OBVIOUS
  <2>2. e \in Slice /\ Within(e, arrays)
    BY <1>5, <2>1
  <2>3. Within(e, arrays')
    BY <2>2, WithinGrown
  <2> QED  BY <1>5, <1>7, <2>1, <2>3
<1> QED  BY <1>2, <1>7, <1>8, <1>9, JobStep

\* The slice of an event file that was read fills its array.
LEMMA FileHeap ==
  ASSUME NEW refs \in Seq(Ref), arrays' = <<[cells |-> refs, cap |-> Len(refs)]>>,
         event' = [array |-> 1, len |-> Len(refs)]
  PROVE  /\ HeapInv' /\ arrays'[1].cells = refs /\ Len(arrays') = 1
         /\ Read(event)' = refs
<1> DEFINE R == [cells : Seq(Ref), cap : Nat]
           new == [cells |-> refs, cap |-> Len(refs)]
<1>1. Len(refs) \in Nat
  OBVIOUS
<1>2. new \in R /\ new.cells = refs /\ new.cap = Len(refs)
  BY <1>1
<1> HIDE DEF R, new
<1>3. arrays' \in Seq(R) /\ Len(arrays') = 1 /\ arrays'[1] = new
  BY <1>2 DEF new
<1>4. event' \in Slice /\ event'.array = 1 /\ event'.len = Len(refs)
  BY <1>1 DEF Slice
<1>5. Within(event', arrays')
  BY <1>1, <1>2, <1>3, <1>4 DEF Within
<1>6. \A a \in 1 .. Len(arrays') : Len(arrays'[a].cells) <= arrays'[a].cap
  BY <1>1, <1>2, <1>3
<1>7. HeapInv'
  BY <1>3, <1>4, <1>5, <1>6 DEF HeapInv, R
<1>8. Read(event)' = SubSeq(refs, 1, Len(refs))
  BY <1>2, <1>3, <1>4 DEF Read
<1>9. SubSeq(refs, 1, Len(refs)) = refs
  OBVIOUS
<1> QED  BY <1>2, <1>3, <1>7, <1>8, <1>9

\* The event an author wrote: listed are the scenarios it names, chosen those
\* that are enabled.
Opening(chosen, listed, refs) ==
  /\ {refs[i].package : i \in DOMAIN refs} = {Original(id) : id \in listed}
  /\ \A i \in DOMAIN refs : refs[i].enabled <=> IdOf(refs[i].package) \in chosen
  /\ chosen # {} /\ chosen \subseteq listed
  /\ archives = [p \in Paths |-> IF \E id \in Ids : p = Original(id) THEN Fresh ELSE None]
  /\ eventFile = refs
  /\ packages = [id \in Ids |-> IF id \in chosen THEN Fresh ELSE None]
  /\ source = [id \in Ids |-> IF id \in chosen THEN Original(id) ELSE None]
  /\ arrays = <<[cells |-> refs, cap |-> Len(refs)]>>
  /\ event = [array |-> 1, len |-> Len(refs)]
  /\ up = TRUE /\ sessions = {} /\ job = [h \in Handlers |-> Idle]
  /\ overlap = FALSE /\ failed = FALSE
  /\ requests = 0 /\ crashes = 0

LEMMA TypeStart == Init => TypeInv
<1> SUFFICES ASSUME Init PROVE TypeInv
  OBVIOUS
<1>0. PICK chosen \in SUBSET Ids, listed \in SUBSET Ids :
        \E refs \in [1 .. Cardinality(listed) -> Ref] : Opening(chosen, listed, refs)
  BY Zenon DEF Init, Opening
<1>1. PICK refs \in [1 .. Cardinality(listed) -> Ref] : Opening(chosen, listed, refs)
  BY <1>0
<1>2. /\ archives = [p \in Paths |-> IF \E id \in Ids : p = Original(id) THEN Fresh ELSE None]
      /\ eventFile = refs
      /\ packages = [id \in Ids |-> IF id \in chosen THEN Fresh ELSE None]
      /\ source = [id \in Ids |-> IF id \in chosen THEN Original(id) ELSE None]
      /\ arrays = <<[cells |-> refs, cap |-> Len(refs)]>>
      /\ event = [array |-> 1, len |-> Len(refs)]
  BY <1>1 DEF Opening
<1>3. /\ up = TRUE /\ sessions = {} /\ job = [h \in Handlers |-> Idle]
      /\ overlap = FALSE /\ failed = FALSE /\ requests = 0 /\ crashes = 0
  BY <1>1 DEF Opening
<1>4. Cardinality(listed) \in Nat
  BY WorkshopAssumption, FS_Subset, FS_CardinalityType
<1>5. refs \in Seq(Ref) /\ Len(refs) \in Nat
  BY <1>4
<1>6. Fresh \in Content
  BY Constants DEF Fresh, Content
<1>7. HeapInv
  <2> DEFINE R == [cells : Seq(Ref), cap : Nat]
             new == [cells |-> refs, cap |-> Len(refs)]
  <2>1. new \in R /\ new.cells = refs /\ new.cap = Len(refs)
    BY <1>5
  <2> HIDE DEF R, new
  <2>2. arrays \in Seq(R) /\ Len(arrays) = 1 /\ arrays[1] = new
    BY <1>2, <2>1 DEF new
  <2>3. event \in Slice /\ event.array = 1 /\ event.len = Len(refs)
    BY <1>2, <1>5 DEF Slice
  <2>4. Within(event, arrays)
    BY <1>5, <2>1, <2>2, <2>3 DEF Within
  <2>5. \A a \in 1 .. Len(arrays) : Len(arrays[a].cells) <= arrays[a].cap
    BY <1>5, <2>1, <2>2
  <2> QED  BY <2>2, <2>3, <2>4, <2>5 DEF HeapInv, R
<1>8. JobInv
  <2>1. \A h \in Handlers : job[h] = Idle
    BY <1>3
  <2>2. Within(NoSlice, arrays)
    BY <1>7, NoSliceWithin
  <2> QED  BY <1>3, <2>1, <2>2, IdleFacts DEF JobInv
<1>9. PartsInv
  <2>1. packages \in [Ids -> Content \union {None}] /\ source \in [Ids -> Paths \union {None}]
    BY <1>2, <1>6, PathFacts
  <2>2. archives \in [Paths -> Content \union {None}]
    BY <1>2, <1>6
  <2>3. requests \in 0 .. MaxRequests /\ crashes \in 0 .. MaxCrashes
    BY <1>3, Constants
  <2>4. up \in BOOLEAN /\ overlap \in BOOLEAN /\ failed \in BOOLEAN /\ sessions \subseteq Session
    BY <1>3
  <2>5. eventFile \in Seq(Ref)
    BY <1>2, <1>5
  <2> QED  BY <2>1, <2>2, <2>3, <2>4, <2>5 DEF PartsInv
<1> QED  BY <1>7, <1>8, <1>9 DEF TypeInv

\* A handler takes a request.
LEMMA BeginType ==
  ASSUME TypeInv, NEW h \in Handlers, NEW op \in {"create", "edit", "remove"}, NEW id \in Ids,
         NEW content \in Content \union {None}, op \in {"create", "edit"} => content \in Content,
         Begin(h, op, id, content, "window")
  PROVE  TypeInv'
<1>1. PICK r : r = [Idle EXCEPT !.op = op, !.pc = "window", !.id = id, !.content = content]
  OBVIOUS
<1>2. "window" \in Labels
  BY DEF Labels
<1>3. /\ r \in Job /\ r.op = op /\ r.pc = "window" /\ r.id = id /\ r.content = content
      /\ r.event = NoSlice /\ r.oldEvent = NoSlice
  BY <1>1, <1>2, IdleFacts DEF Idle, Job
<1>4. Shape(r)
  BY <1>3 DEF Shape
<1>5. /\ up /\ requests < MaxRequests /\ job' = [job EXCEPT ![h] = r]
      /\ overlap' = (overlap \/ Busy # {}) /\ requests' = requests + 1
      /\ UNCHANGED <<up, packages, source, event, arrays, archives, eventFile, sessions, failed, crashes>>
  BY <1>1 DEF Begin, At, memory, disk
<1>6. HeapInv' /\ Grown
  BY <1>5, HeapSame, GrownSame DEF TypeInv
<1>7. Within(NoSlice, arrays')
  BY <1>5, NoSliceWithin DEF TypeInv
<1>8. JobInv'
  BY <1>3, <1>4, <1>5, <1>6, <1>7, JobStep
<1>9. overlap' \in BOOLEAN
  BY <1>5 DEF TypeInv, PartsInv
<1>10. requests' \in 0 .. MaxRequests
  BY <1>5, Constants DEF TypeInv, PartsInv
<1>11. PartsInv'
  BY <1>5, <1>9, <1>10 DEF TypeInv, PartsInv
<1> QED  BY <1>6, <1>8, <1>11 DEF TypeInv

LEMMA TypeStep == TypeInv /\ [Next]_vars => TypeInv'
<1> SUFFICES ASSUME TypeInv, [Next]_vars PROVE TypeInv'
  OBVIOUS
<1>0. HeapInv /\ JobInv /\ PartsInv
  BY DEF TypeInv
<1>a. \A h \in Handlers : job[h] \in Job /\ Shape(job[h])
  BY <1>0 DEF JobInv
<1>b. /\ packages \in [Ids -> Content \union {None}] /\ source \in [Ids -> Paths \union {None}]
      /\ archives \in [Paths -> Content \union {None}] /\ eventFile \in Seq(Ref)
      /\ sessions \subseteq Session
  BY <1>0 DEF PartsInv
<1>1. ASSUME NEW h \in Handlers, NEW id \in Ids, CreateScenario(h, id) PROVE TypeInv'
  <2>1. PICK content \in Content : Begin(h, "create", id, content, "window")
    BY <1>1 DEF CreateScenario
  <2> QED  BY <2>1, BeginType
<1>2. ASSUME NEW h \in Handlers, NEW id \in Ids, EditSource(h, id) PROVE TypeInv'
  <2>1. PICK doc \in Docs :
          /\ packages[id] # None
          /\ Begin(h, "edit", id, [packages[id] EXCEPT !.doc = doc], "window")
    BY <1>2 DEF EditSource
  <2>2. packages[id] \in Content
    BY <1>b, <2>1
  <2>3. [packages[id] EXCEPT !.doc = doc] \in Content
    BY <2>1, <2>2 DEF Content
  <2> QED  BY <2>1, <2>3, BeginType
<1>3. ASSUME NEW h \in Handlers, NEW id \in Ids, EditFiles(h, id) PROVE TypeInv'
  <2>1. PICK f \in Files, put \in BOOLEAN :
          /\ packages[id] # None
          /\ Begin(h, "edit", id,
                   [packages[id] EXCEPT !.files = IF put THEN @ \union {f} ELSE @ \ {f}], "window")
    BY <1>3 DEF EditFiles
  <2>2. packages[id] \in Content
    BY <1>b, <2>1
  <2>3. [packages[id] EXCEPT !.files = IF put THEN @ \union {f} ELSE @ \ {f}] \in Content
    BY <2>1, <2>2 DEF Content
  <2> QED  BY <2>1, <2>3, BeginType
<1>4. ASSUME NEW h \in Handlers, NEW id \in Ids, RemoveScenario(h, id) PROVE TypeInv'
  BY <1>4, BeginType DEF RemoveScenario
<1>5. ASSUME NEW h \in Handlers, Window(h) PROVE TypeInv'
  <2>1. /\ up /\ job[h].pc \in {"window", "window2"}
        /\ Done(h) \/ Goto(h, AfterWindow(h))
        /\ UNCHANGED <<up, packages, source, event, arrays, archives, eventFile, sessions,
                       overlap, failed, requests, crashes>>
    BY <1>5 DEF Window, At, memory, disk
  <2>2. HeapInv' /\ Grown
    BY <1>0, <2>1, HeapSame, GrownSame
  <2>3. PartsInv'
    BY <1>0, <2>1 DEF PartsInv
  <2>4. JobInv'
    <3>1. CASE Done(h)
      BY <2>1, <2>2, <3>1, DoneStep
    <3>2. CASE Goto(h, AfterWindow(h))
      <4>1. job[h].op \in {"none", "create", "edit", "remove"} /\ Shape(job[h])
        BY <1>a DEF Job
      <4>2. CASE job[h].pc = "window2"
        <5>1. AfterWindow(h) = "archive" /\ "archive" \in Labels /\ job[h].content \in Content
          BY <4>1, <4>2 DEF AfterWindow, Labels, Shape
        <5> QED  BY <2>1, <3>2, <4>2, <5>1, GotoStep
      <4>3. CASE job[h].pc = "window" /\ job[h].op = "create"
        <5>1. AfterWindow(h) = "exists" /\ "exists" \in Labels /\ job[h].content \in Content
          BY <4>1, <4>3 DEF AfterWindow, Labels, Shape
        <5> QED  BY <2>1, <3>2, <4>3, <5>1, GotoStep
      <4>4. CASE job[h].pc = "window" /\ job[h].op = "edit"
        <5>1. AfterWindow(h) = "window2" /\ "window2" \in Labels /\ job[h].content \in Content
          BY <4>1, <4>4 DEF AfterWindow, Labels, Shape
        <5> QED  BY <2>1, <3>2, <4>4, <5>1, GotoStep
      <4>5. CASE job[h].pc = "window" /\ job[h].op = "remove"
        <5>1. AfterWindow(h) = "detach" /\ "detach" \in Labels
          BY <4>5 DEF AfterWindow, Labels
        <5> QED  BY <2>1, <3>2, <4>5, <5>1, GotoStep
      <4> QED  BY <2>1, <4>1, <4>2, <4>3, <4>4, <4>5 DEF Shape
    <3> QED  BY <2>1, <3>1, <3>2
  <2> QED  BY <2>2, <2>3, <2>4 DEF TypeInv
<1>6. ASSUME NEW h \in Handlers, Exists(h) PROVE TypeInv'
  <2>1. /\ up /\ job[h].pc = "exists" /\ (Done(h) \/ Goto(h, "window2"))
        /\ UNCHANGED <<up, packages, source, event, arrays, archives, eventFile, sessions,
                       overlap, failed, requests, crashes>>
    BY <1>6 DEF Exists, At, memory, disk
  <2>2. HeapInv' /\ Grown
    BY <1>0, <2>1, HeapSame, GrownSame
  <2>3. PartsInv'
    BY <1>0, <2>1 DEF PartsInv
  <2>4. JobInv'
    <3>1. CASE Done(h)
      BY <2>1, <2>2, <3>1, DoneStep
    <3>2. CASE Goto(h, "window2")
      <4>1. "window2" \in Labels /\ job[h].content \in Content /\ job[h].op \in {"create", "edit"}
        BY <1>a, <2>1 DEF Labels, Shape
      <4> QED  BY <2>1, <3>2, <4>1, GotoStep
    <3> QED  BY <2>1, <3>1, <3>2
  <2> QED  BY <2>2, <2>3, <2>4 DEF TypeInv
<1>7. ASSUME NEW h \in Handlers, WriteArchive(h) PROVE TypeInv'
  <2>1. /\ up /\ job[h].pc = "archive" /\ Goto(h, "install")
        /\ archives' = [archives EXCEPT ![Managed(job[h].id)] = job[h].content]
        /\ UNCHANGED <<up, packages, source, event, arrays, eventFile, sessions,
                       overlap, failed, requests, crashes>>
    BY <1>7 DEF WriteArchive, At, memory
  <2>2. HeapInv'
    BY <1>0, <2>1, HeapSame
  <2>3. "install" \in Labels /\ job[h].content \in Content
    BY <1>a, <2>1 DEF Labels, Shape
  <2>4. JobInv'
    BY <2>1, <2>3, GotoStep
  <2>5. PartsInv'
    BY <1>0, <2>1, <2>3 DEF PartsInv
  <2> QED  BY <2>2, <2>4, <2>5 DEF TypeInv
<1>8. ASSUME NEW h \in Handlers, Install(h) PROVE TypeInv'
  <2>1. PICK id : id = job[h].id
    OBVIOUS
  <2>2. /\ up /\ job[h].pc = "install"
        /\ packages' = [packages EXCEPT ![id] = job[h].content]
        /\ source' = [source EXCEPT ![id] = Managed(id)]
        /\ Persist(h)
        /\ UNCHANGED <<up, archives, eventFile, sessions, overlap, failed, requests, crashes>>
    BY <1>8, <2>1 DEF Install, At, disk
  <2>3. id \in Ids /\ job[h].content \in Content
    BY <1>a, <2>1, <2>2 DEF Shape
  <2>4. HeapInv' /\ Grown
    <3>1. CASE Taken(id) # {}
      BY <1>0, <1>8, <2>1, <2>3, <3>1, TakenFacts DEF Install
    <3>2. CASE Taken(id) = {}
      <4>1. PICK ref : ref = [package |-> Managed(id), enabled |-> TRUE]
        OBVIOUS
      <4>2. ref \in Ref
        BY <2>3, <4>1, PathFacts DEF Ref
      <4>3. AppendRef(ref)
        BY <1>8, <2>1, <3>2, <4>1 DEF Install
      <4> QED  BY <1>0, <4>2, <4>3, AppendRefFacts
    <3> QED  BY <3>1, <3>2
  <2>5. PartsInv'
    BY <1>0, <2>2, <2>3, PathFacts DEF PartsInv
  <2>6. JobInv'
    BY <1>0, <2>1, <2>2, <2>3, <2>4, PersistType
  <2> QED  BY <2>4, <2>5, <2>6 DEF TypeInv
<1>9. ASSUME NEW h \in Handlers, Detach(h) PROVE TypeInv'
  <2>1. PICK id, kept : id = job[h].id /\ kept = Without(Read(event), source[id])
    OBVIOUS
  <2>2. /\ up /\ job[h].pc = "detach"
        /\ UNCHANGED <<up, archives, eventFile, sessions, overlap, failed, requests, crashes>>
    BY <1>9 DEF Detach, At, disk
  <2>3. id \in Ids
    BY <1>a, <2>1, <2>2 DEF Shape
  <2>4. CASE Done(h) /\ UNCHANGED memory
    <3>1. UNCHANGED <<packages, source, event, arrays>>
      BY <2>4 DEF memory
    <3>2. HeapInv' /\ Grown
      BY <1>0, <3>1, HeapSame, GrownSame
    <3>3. PartsInv'
      BY <1>0, <2>2, <3>1 DEF PartsInv
    <3>4. JobInv'
      BY <2>2, <2>4, <3>2, DoneStep
    <3> QED  BY <3>2, <3>3, <3>4 DEF TypeInv
  <2>5. CASE /\ packages' = [packages EXCEPT ![id] = None]
             /\ source' = [source EXCEPT ![id] = None]
             /\ arrays' = Append(arrays, [cells |-> kept, cap |-> event.len])
             /\ event' = [array |-> Len(arrays) + 1, len |-> Len(kept)]
             /\ Persist(h)
    <3>1. HeapInv' /\ Grown
      BY <1>0, <2>1, <2>5, DetachHeap
    <3>2. PartsInv'
      BY <1>0, <2>2, <2>3, <2>5 DEF PartsInv
    <3>3. JobInv'
      BY <1>0, <2>1, <2>2, <2>3, <2>5, <3>1, PersistType
    <3> QED  BY <3>1, <3>2, <3>3 DEF TypeInv
  <2> QED  BY <1>9, <2>1, <2>4, <2>5 DEF Detach
<1>10. ASSUME NEW h \in Handlers, Marshal(h) PROVE TypeInv'
  <2>1. PICK r : r = [job[h] EXCEPT !.pc = "rename", !.data = Read(job[h].event)]
    OBVIOUS
  <2>2. /\ up /\ job[h].pc = "marshal" /\ job' = [job EXCEPT ![h] = r]
        /\ UNCHANGED <<up, packages, source, event, arrays, archives, eventFile, sessions,
                       overlap, failed, requests, crashes>>
    BY <1>10, <2>1 DEF Marshal, At, memory, disk
  <2>3. HeapInv' /\ Grown
    BY <1>0, <2>2, HeapSame, GrownSame
  <2>4. job[h].event \in Slice /\ Within(job[h].event, arrays) /\ Within(job[h].oldEvent, arrays)
    BY <1>0 DEF JobInv, Job
  <2>5. Read(job[h].event) \in Seq(Ref)
    BY <1>0, <2>4, ReadFacts
  <2>6. "rename" \in Labels
    BY DEF Labels
  <2>7. /\ r \in Job /\ r.pc = "rename" /\ r.id = job[h].id /\ r.op = job[h].op
        /\ r.content = job[h].content /\ r.event = job[h].event /\ r.oldEvent = job[h].oldEvent
    BY <1>a, <2>1, <2>5, <2>6 DEF Job
  <2>8. Shape(r)
    BY <1>a, <2>2, <2>7 DEF Shape
  <2>9. Within(r.event, arrays') /\ Within(r.oldEvent, arrays')
    BY <2>2, <2>4, <2>7
  <2>10. JobInv'
    BY <2>2, <2>3, <2>7, <2>8, <2>9, JobStep
  <2>11. PartsInv'
    BY <1>0, <2>2 DEF PartsInv
  <2> QED  BY <2>3, <2>10, <2>11 DEF TypeInv
<1>11. ASSUME NEW h \in Handlers, Rename(h) PROVE TypeInv'
  <2>1. /\ up /\ Done(h) /\ eventFile' = job[h].data
        /\ UNCHANGED <<up, packages, source, event, arrays, archives, sessions,
                       overlap, failed, requests, crashes>>
    BY <1>11 DEF Rename, At, memory
  <2>2. HeapInv' /\ Grown
    BY <1>0, <2>1, HeapSame, GrownSame
  <2>3. JobInv'
    BY <2>1, <2>2, DoneStep
  <2>4. job[h].data \in Seq(Ref)
    BY <1>a DEF Job
  <2>5. PartsInv'
    BY <1>0, <2>1, <2>4 DEF PartsInv
  <2> QED  BY <2>2, <2>3, <2>5 DEF TypeInv
<1>12. ASSUME NEW h \in Handlers, WriteFails(h) PROVE TypeInv'
  <2>1. /\ up /\ (Done(h) \/ (job[h].pc = "rename" /\ Goto(h, "rollback"))) /\ failed' = TRUE
        /\ UNCHANGED <<up, packages, source, event, arrays, archives, eventFile, sessions,
                       overlap, requests, crashes>>
    BY <1>12 DEF WriteFails, At, memory, disk
  <2>2. HeapInv' /\ Grown
    BY <1>0, <2>1, HeapSame, GrownSame
  <2>3. "rollback" \in Labels
    BY DEF Labels
  <2>4. CASE Done(h)
    <3>1. JobInv'
      BY <2>1, <2>2, <2>4, DoneStep
    <3> QED  BY <1>0, <2>1, <2>2, <3>1 DEF TypeInv, PartsInv
  <2>5. CASE job[h].pc = "rename" /\ Goto(h, "rollback")
    <3>1. JobInv'
      BY <2>1, <2>3, <2>5, GotoStep
    <3> QED  BY <1>0, <2>1, <2>2, <3>1 DEF TypeInv, PartsInv
  <2> QED  BY <2>1, <2>4, <2>5
<1>18. ASSUME NEW h \in Handlers, ArchiveModeFails(h) PROVE TypeInv'
  <2>1. /\ up /\ job[h].pc = "archive" /\ Done(h) /\ failed' = TRUE
        /\ archives' = [archives EXCEPT ![Managed(job[h].id)] = job[h].content]
        /\ UNCHANGED <<up, packages, source, event, arrays, eventFile, sessions,
                       overlap, requests, crashes>>
    BY <1>18 DEF ArchiveModeFails, At, memory
  <2>2. HeapInv' /\ Grown
    BY <1>0, <2>1, HeapSame, GrownSame
  <2>3. JobInv'
    BY <2>1, <2>2, DoneStep
  <2>4. job[h].content \in Content
    BY <1>a, <2>1 DEF Shape
  <2>5. PartsInv'
    BY <1>0, <2>1, <2>4 DEF PartsInv
  <2> QED  BY <2>2, <2>3, <2>5 DEF TypeInv
<1>19. ASSUME NEW h \in Handlers, EventModeFails(h) PROVE TypeInv'
  <2>1. /\ up /\ job[h].pc = "rename" /\ Goto(h, "rollback") /\ failed' = TRUE
        /\ eventFile' = job[h].data
        /\ UNCHANGED <<up, packages, source, event, arrays, archives, sessions,
                       overlap, requests, crashes>>
    BY <1>19 DEF EventModeFails, At, memory
  <2>2. HeapInv' /\ Grown
    BY <1>0, <2>1, HeapSame, GrownSame
  <2>3. "rollback" \in Labels
    BY DEF Labels
  <2>4. JobInv'
    BY <2>1, <2>3, GotoStep
  <2>5. job[h].data \in Seq(Ref)
    BY <1>a DEF Job
  <2>6. PartsInv'
    BY <1>0, <2>1, <2>5 DEF PartsInv
  <2> QED  BY <2>2, <2>4, <2>6 DEF TypeInv
<1>13. ASSUME NEW h \in Handlers, Rollback(h) PROVE TypeInv'
  <2>1. /\ up /\ job[h].pc = "rollback" /\ Done(h) /\ event' = job[h].oldEvent
        /\ packages' = [packages EXCEPT ![job[h].id] = job[h].oldPackage]
        /\ source' = [source EXCEPT ![job[h].id] = job[h].oldSource]
        /\ UNCHANGED <<up, arrays, archives, eventFile, sessions, overlap, failed, requests, crashes>>
    BY <1>13 DEF Rollback, At, disk
  <2>2. /\ job[h].oldEvent \in Slice /\ Within(job[h].oldEvent, arrays)
        /\ job[h].oldPackage \in Content \union {None} /\ job[h].oldSource \in Paths \union {None}
    BY <1>0 DEF JobInv, Job
  <2>3. HeapInv' /\ Grown
    BY <1>0, <2>1, <2>2, GrownSame DEF HeapInv
  <2>4. JobInv'
    BY <2>1, <2>3, DoneStep
  <2>5. PartsInv'
    BY <1>0, <2>1, <2>2 DEF PartsInv
  <2> QED  BY <2>3, <2>4, <2>5 DEF TypeInv
<1>14. ASSUME NEW id \in Ids, CreateSession(id) PROVE TypeInv'
  <2>1. PICK calm \in BOOLEAN :
          /\ packages[id] # None
          /\ sessions' = sessions \union
               {[scenario |-> id, made |-> packages[id], runs |-> packages[id], calm |-> calm]}
          /\ UNCHANGED <<up, packages, source, event, arrays, archives, eventFile, job,
                         overlap, failed, requests, crashes>>
    BY <1>14, Zenon DEF CreateSession, memory, disk
  <2>2. packages[id] \in Content
    BY <1>b, <2>1
  <2>3. [scenario |-> id, made |-> packages[id], runs |-> packages[id], calm |-> calm] \in Session
    BY <2>2 DEF Session
  <2>4. PartsInv'
    BY <1>0, <1>b, <2>1, <2>3 DEF PartsInv
  <2>5. HeapInv' /\ JobInv'
    BY <1>0, <2>1 DEF HeapInv, JobInv, Within
  <2> QED  BY <2>4, <2>5 DEF TypeInv
<1>15. CASE Crash
  <2>1. /\ crashes < MaxCrashes /\ up' = FALSE /\ crashes' = crashes + 1
        /\ job' = [h \in Handlers |-> Idle]
        /\ UNCHANGED <<packages, source, event, arrays, archives, eventFile, sessions,
                       overlap, failed, requests>>
    BY <1>15 DEF Crash, memory, disk
  <2>2. HeapInv'
    BY <1>0, <2>1, HeapSame
  <2>3. Within(NoSlice, arrays')
    BY <1>0, <2>1, NoSliceWithin
  <2>4. JobInv'
    <3>1. \A h \in Handlers : job'[h] = Idle
      BY <2>1
    <3> QED  BY <2>1, <2>3, <3>1, IdleFacts DEF JobInv
  <2>5. crashes' \in 0 .. MaxCrashes
    BY <1>0, <2>1, Constants DEF PartsInv
  <2>6. PartsInv'
    BY <1>0, <2>1, <2>5 DEF PartsInv
  <2> QED  BY <2>2, <2>4, <2>6 DEF TypeInv
<1>16. CASE Serve
  <2>1. PICK twice \in BOOLEAN :
        /\ ~up /\ Startable /\ up' = TRUE /\ packages' = Loaded(eventFile)
        /\ source' = [id \in Ids |-> LastOf(eventFile, id)]
        /\ arrays' = <<[cells |-> eventFile, cap |-> Len(eventFile)]>>
        /\ event' = [array |-> 1, len |-> Len(eventFile)]
        /\ sessions' = {[s EXCEPT !.runs = packages'[s.scenario]] : s \in sessions}
        /\ overlap' = FALSE /\ failed' = twice
        /\ UNCHANGED <<archives, eventFile, job, requests, crashes>>
    BY <1>16, Zenon DEF Serve, disk
  <2>2. HeapInv' /\ arrays'[1].cells = eventFile /\ Len(arrays') = 1
    BY <1>b, <2>1, FileHeap
  <2>3. packages' \in [Ids -> Content \union {None}]
    BY <1>b, <2>1, LoadedFacts
  <2>4. source' \in [Ids -> Paths \union {None}]
    BY <1>b, <2>1, LastOfServes
  <2>5. sessions' \subseteq Session
    <3> SUFFICES ASSUME NEW s \in sessions PROVE [s EXCEPT !.runs = packages'[s.scenario]] \in Session
      BY <2>1
    <3>1. s \in Session /\ s.scenario \in Ids
      BY <1>b DEF Session
    <3>2. packages'[s.scenario] # None
      BY <2>1 DEF Startable
    <3>3. packages'[s.scenario] \in Content
      BY <2>3, <3>1, <3>2
    <3> QED  BY <3>1, <3>3 DEF Session
  <2>6. PartsInv'
    BY <1>0, <1>b, <2>1, <2>3, <2>4, <2>5 DEF PartsInv
  <2>7. JobInv'
    <3>1. \A h \in Handlers : job'[h] = Idle
      BY <1>0, <1>a, <2>1 DEF JobInv, Shape
    <3>2. 1 \in 1 .. Len(arrays') /\ 0 \in 0 .. Len(arrays'[1].cells)
      BY <1>b, <2>2
    <3>3. Within(NoSlice, arrays')
      BY <3>2 DEF Within, NoSlice
    <3>4. job' \in [Handlers -> Job] /\ up'
      BY <1>0, <2>1 DEF JobInv
    <3> QED  BY <3>1, <3>3, <3>4, IdleFacts DEF JobInv
  <2> QED  BY <2>2, <2>6, <2>7 DEF TypeInv
<1>17. CASE UNCHANGED vars
  <2>1. UNCHANGED <<up, packages, source, event, arrays, archives, eventFile, sessions, job,
                   overlap, failed, requests, crashes>>
    BY <1>17 DEF vars, memory, disk
  <2>2. HeapInv' /\ JobInv' /\ PartsInv'
    BY <1>0, <2>1 DEF HeapInv, JobInv, PartsInv, Within
  <2> QED  BY <2>2 DEF TypeInv
<1> QED  BY <1>1, <1>2, <1>3, <1>4, <1>5, <1>6, <1>7, <1>8, <1>9, <1>10, <1>11, <1>12, <1>13,
            <1>14, <1>15, <1>16, <1>17, <1>18, <1>19 DEF Next
-----------------------------------------------------------------------------
\* What a step does to the requests, the lists and the archives

\* A request goes to another label.
LEMMA GotoFields ==
  ASSUME TypeInv, NEW h \in Handlers, NEW pc, Goto(h, pc)
  PROVE  /\ \A g \in Handlers : g # h => job'[g] = job[g]
         /\ job'[h].pc = pc
         /\ \A g \in Handlers : /\ job'[g].op = job[g].op /\ job'[g].id = job[g].id
                                /\ job'[g].content = job[g].content /\ job'[g].event = job[g].event
                                /\ job'[g].oldSource = job[g].oldSource /\ job'[g].data = job[g].data
<1>0. PICK r : r = [job[h] EXCEPT !.pc = pc]
  OBVIOUS
<1>1. job \in [Handlers -> Job] /\ job[h] \in Job
  BY DEF TypeInv, JobInv
<1>2. /\ r.pc = pc /\ r.op = job[h].op /\ r.id = job[h].id /\ r.content = job[h].content
      /\ r.event = job[h].event /\ r.oldSource = job[h].oldSource /\ r.data = job[h].data
  BY <1>0, <1>1 DEF Job
<1>3. job' = [job EXCEPT ![h] = r]
  BY <1>0 DEF Goto
<1> QED  BY <1>1, <1>2, <1>3

\* A request ends.
LEMMA DoneFields ==
  ASSUME TypeInv, NEW h \in Handlers, Done(h)
  PROVE  job'[h] = Idle /\ \A g \in Handlers : g # h => job'[g] = job[g]
  BY DEF TypeInv, JobInv, Done

\* A request keeps what it found, and the event it has to write.
LEMMA PersistFields ==
  ASSUME TypeInv, NEW h \in Handlers, Persist(h)
  PROVE  /\ \A g \in Handlers : g # h => job'[g] = job[g]
         /\ job'[h].pc = "marshal" /\ job'[h].id = job[h].id /\ job'[h].content = job[h].content
         /\ job'[h].event = event' /\ job'[h].oldSource = source[job[h].id]
         /\ job'[h].data = job[h].data
<1>1. PICK r : r = [job[h] EXCEPT !.pc = "marshal", !.event = event',
                      !.oldPackage = packages[job[h].id], !.oldSource = source[job[h].id],
                      !.oldEvent = event]
  OBVIOUS
<1>2. job' = [job EXCEPT ![h] = r]
  BY <1>1 DEF Persist
<1>3. job \in [Handlers -> Job] /\ job[h] \in Job
  BY DEF TypeInv, JobInv
<1>4. /\ r.pc = "marshal" /\ r.id = job[h].id /\ r.content = job[h].content
      /\ r.event = event' /\ r.oldSource = source[job[h].id] /\ r.data = job[h].data
  BY <1>1, <1>3 DEF Job
<1> QED  BY <1>2, <1>3, <1>4

\* A request has the text of the event file.
LEMMA MarshalFields ==
  ASSUME TypeInv, NEW h \in Handlers, Marshal(h)
  PROVE  /\ \A g \in Handlers : g # h => job'[g] = job[g]
         /\ job'[h].pc = "rename" /\ job'[h].id = job[h].id /\ job'[h].event = job[h].event
         /\ job'[h].oldSource = job[h].oldSource /\ job'[h].data = Read(job[h].event)
<1>1. PICK r : r = [job[h] EXCEPT !.pc = "rename", !.data = Read(job[h].event)]
  OBVIOUS
<1>2. job' = [job EXCEPT ![h] = r]
  BY <1>1 DEF Marshal
<1>3. job \in [Handlers -> Job] /\ job[h] \in Job
  BY DEF TypeInv, JobInv
<1>4. /\ r.pc = "rename" /\ r.id = job[h].id /\ r.event = job[h].event
      /\ r.oldSource = job[h].oldSource /\ r.data = Read(job[h].event)
  BY <1>1, <1>3 DEF Job
<1> QED  BY <1>2, <1>3, <1>4

\* A handler has a new request.
LEMMA BeginFields ==
  ASSUME TypeInv, NEW h \in Handlers, NEW op, NEW id, NEW content, Begin(h, op, id, content, "window")
  PROVE  /\ \A g \in Handlers : g # h => job'[g] = job[g]
         /\ job'[h].pc = "window" /\ job'[h].op = op /\ job'[h].id = id
         /\ job'[h].oldSource = None /\ job'[h].data = <<>>
<1>1. PICK r : r = [Idle EXCEPT !.op = op, !.pc = "window", !.id = id, !.content = content]
  OBVIOUS
<1>2. job' = [job EXCEPT ![h] = r]
  BY <1>1 DEF Begin
<1>3. job \in [Handlers -> Job]
  BY DEF TypeInv, JobInv
<1>4. r.pc = "window" /\ r.op = op /\ r.id = id /\ r.oldSource = None /\ r.data = <<>>
  BY <1>1 DEF Idle
<1> QED  BY <1>2, <1>3, <1>4

\* Most steps leave the lists as they are.
Plain ==
  /\ UNCHANGED <<source, event, arrays, eventFile>>
  /\ failed => failed'
  /\ \A h \in Handlers :
       /\ job'[h].data \in {job[h].data, <<>>}
       /\ job'[h].oldSource \in {job[h].oldSource, None}
       /\ job'[h].pc = "install" => \/ job[h].pc = "install" /\ job'[h].id = job[h].id
                                    \/ archives'[Managed(job'[h].id)] # None
       /\ job'[h].pc = "rollback" => job[h].pc = "rollback" \/ failed'

\* No step removes an archive.
LEMMA ArchivesStay ==
  ASSUME TypeInv, [Next]_vars
  PROVE  \A p \in Paths : archives[p] # None => archives'[p] # None
<1>1. ASSUME NEW h \in Handlers, WriteArchive(h) \/ ArchiveModeFails(h)
      PROVE  \A p \in Paths : archives[p] # None => archives'[p] # None
  <2>1. job[h].content \in Content /\ job[h].content # None
    BY <1>1, Constants DEF TypeInv, JobInv, Shape, WriteArchive, ArchiveModeFails, At
  <2>2. archives \in [Paths -> Content \union {None}]
    BY DEF TypeInv, PartsInv
  <2>3. archives' = [archives EXCEPT ![Managed(job[h].id)] = job[h].content]
    BY <1>1 DEF WriteArchive, ArchiveModeFails
  <2> QED  BY <2>1, <2>2, <2>3
<1>2. ASSUME ~\E h \in Handlers : WriteArchive(h) \/ ArchiveModeFails(h)
      PROVE  archives' = archives
  <2>1. CASE \E h \in Handlers, id \in Ids : \/ CreateScenario(h, id) \/ EditSource(h, id)
                                             \/ EditFiles(h, id) \/ RemoveScenario(h, id)
    BY <2>1 DEF CreateScenario, EditSource, EditFiles, RemoveScenario, Begin, disk
  <2>2. CASE \E h \in Handlers : \/ Window(h) \/ Exists(h) \/ Install(h) \/ Detach(h)
                                 \/ Marshal(h) \/ Rename(h) \/ WriteFails(h) \/ Rollback(h)
                                 \/ EventModeFails(h)
    BY <2>2 DEF Window, Exists, Install, Detach, Marshal, Rename, WriteFails, Rollback, EventModeFails, disk
  <2>3. CASE (\E id \in Ids : CreateSession(id)) \/ Crash \/ Serve \/ UNCHANGED vars
    BY <2>3 DEF CreateSession, Crash, Serve, vars, disk
  <2> QED  BY <1>2, <2>1, <2>2, <2>3 DEF Next
<1> QED  BY <1>1, <1>2

\* The other steps change a list, or the source of a package.
LEMMA StepKinds ==
  ASSUME TypeInv, [Next]_vars
  PROVE  \/ Plain
         \/ \E h \in Handlers : \/ Install(h) \/ Detach(h) \/ Marshal(h) \/ Rename(h)
                                \/ Rollback(h) \/ EventModeFails(h)
         \/ Serve
<1>0. \A h \in Handlers : job[h] \in Job /\ Shape(job[h])
  BY DEF TypeInv, JobInv
<1>1. ASSUME NEW h \in Handlers, NEW id \in Ids,
             \/ CreateScenario(h, id) \/ EditSource(h, id)
             \/ EditFiles(h, id) \/ RemoveScenario(h, id)
      PROVE  Plain
  <2>1. PICK op, content : Begin(h, op, id, content, "window")
    BY <1>1 DEF CreateScenario, EditSource, EditFiles, RemoveScenario
  <2>2. UNCHANGED <<source, event, arrays, eventFile, failed>>
    BY <2>1 DEF Begin, memory, disk
  <2>3. /\ \A g \in Handlers : g # h => job'[g] = job[g]
        /\ job'[h].pc = "window" /\ job'[h].oldSource = None /\ job'[h].data = <<>>
    BY <2>1, BeginFields
  <2> QED  BY <2>2, <2>3 DEF Plain
<1>2. ASSUME NEW h \in Handlers, Window(h) PROVE Plain
  <2>1. UNCHANGED <<source, event, arrays, eventFile, failed>>
    BY <1>2 DEF Window, memory, disk
  <2>2. CASE Done(h)
    BY <2>1, <2>2, DoneFields, IdleFacts DEF Plain
  <2>3. CASE Goto(h, AfterWindow(h))
    <3>1. AfterWindow(h) \in {"archive", "exists", "window2", "detach"}
      <4>1. job[h].op \in {"create", "edit", "remove"} \/ job[h].pc = "window2"
        BY <1>0, <1>2 DEF Window, At, Shape, Job
      <4>2. job[h].pc \in {"window", "window2"}
        BY <1>2 DEF Window, At
      <4> QED  BY <4>1, <4>2 DEF AfterWindow
    <3>2. AfterWindow(h) # "install" /\ AfterWindow(h) # "rollback"
      BY <3>1
    <3> HIDE DEF AfterWindow
    <3> QED  BY <2>1, <2>3, <3>2, GotoFields DEF Plain
  <2> QED  BY <1>2, <2>2, <2>3 DEF Window
<1>3. ASSUME NEW h \in Handlers, Exists(h) PROVE Plain
  <2>1. UNCHANGED <<source, event, arrays, eventFile, failed>>
    BY <1>3 DEF Exists, memory, disk
  <2>2. CASE Done(h)
    BY <2>1, <2>2, DoneFields, IdleFacts DEF Plain
  <2>3. CASE Goto(h, "window2")
    BY <2>1, <2>3, GotoFields DEF Plain
  <2> QED  BY <1>3, <2>2, <2>3 DEF Exists
<1>4. ASSUME NEW h \in Handlers, WriteArchive(h) PROVE Plain
  <2>1. /\ UNCHANGED <<source, event, arrays, eventFile, failed>> /\ Goto(h, "install")
        /\ archives' = [archives EXCEPT ![Managed(job[h].id)] = job[h].content]
    BY <1>4 DEF WriteArchive, memory
  <2>2. job[h].id \in Ids /\ job[h].content # None
    BY <1>0, <1>4, Constants DEF WriteArchive, At, Shape
  <2>3. archives'[Managed(job[h].id)] # None
    BY <2>1, <2>2, PathFacts DEF TypeInv, PartsInv
  <2>4. /\ \A g \in Handlers : g # h => job'[g] = job[g]
        /\ job'[h].pc = "install" /\ job'[h].id = job[h].id
        /\ job'[h].oldSource = job[h].oldSource /\ job'[h].data = job[h].data
    BY <2>1, GotoFields
  <2> QED  BY <2>1, <2>3, <2>4 DEF Plain
<1>5. ASSUME NEW h \in Handlers, WriteFails(h) PROVE Plain
  <2>1. UNCHANGED <<source, event, arrays, eventFile>> /\ failed'
    BY <1>5 DEF WriteFails, memory, disk
  <2>2. CASE Done(h)
    BY <2>1, <2>2, DoneFields, IdleFacts DEF Plain
  <2>3. CASE Goto(h, "rollback")
    BY <2>1, <2>3, GotoFields DEF Plain
  <2> QED  BY <1>5, <2>2, <2>3 DEF WriteFails
<1>9. ASSUME NEW h \in Handlers, ArchiveModeFails(h) PROVE Plain
  <2>1. UNCHANGED <<source, event, arrays, eventFile>> /\ failed' /\ Done(h)
    BY <1>9 DEF ArchiveModeFails, memory
  <2> QED  BY <2>1, DoneFields, IdleFacts DEF Plain
<1>6. ASSUME NEW id \in Ids, CreateSession(id) PROVE Plain
  BY <1>6 DEF CreateSession, Plain, memory, disk
<1>7. CASE Crash
  <2>1. UNCHANGED <<source, event, arrays, eventFile, failed>> /\ job' = [h \in Handlers |-> Idle]
    BY <1>7 DEF Crash, memory, disk
  <2>2. \A h \in Handlers : job'[h] = Idle
    BY <2>1
  <2> QED  BY <2>1, <2>2, IdleFacts DEF Plain
<1>8. CASE UNCHANGED vars
  BY <1>8 DEF vars, Plain, memory, disk
<1> QED  BY <1>1, <1>2, <1>3, <1>4, <1>5, <1>6, <1>7, <1>8, <1>9 DEF Next
-----------------------------------------------------------------------------
\* Which references a step makes

Installed == {[package |-> Managed(job[h].id), enabled |-> TRUE] :
                h \in {g \in Handlers : job[g].pc = "install"}}

LEMMA RefsAre ==
  ASSUME TypeInv
  PROVE  /\ Refs \subseteq Ref
         /\ \A a \in 1 .. Len(arrays) : \A i \in 1 .. Len(arrays[a].cells) : arrays[a].cells[i] \in Refs
         /\ \A h \in Handlers : \A i \in 1 .. Len(job[h].data) : job[h].data[i] \in Refs
         /\ \A i \in 1 .. Len(eventFile) : eventFile[i] \in Refs
<1>1. \A a \in 1 .. Len(arrays) : \A i \in 1 .. Len(arrays[a].cells) : arrays[a].cells[i] \in Ref
  BY HeapTypes DEF TypeInv
<1>2. \A h \in Handlers : job[h].data \in Seq(Ref)
  BY DEF TypeInv, JobInv, Job
<1>3. \A h \in Handlers : \A i \in 1 .. Len(job[h].data) : job[h].data[i] \in Ref
  BY <1>2
<1>4. eventFile \in Seq(Ref)
  BY DEF TypeInv, PartsInv
<1>5. \A i \in 1 .. Len(eventFile) : eventFile[i] \in Ref
  BY <1>4
<1>6. Refs \subseteq Ref
  BY DEF Refs, CellRefs, DataRefs, FileRefs
<1> QED  BY <1>1, <1>3, <1>5, <1>6 DEF Refs, CellRefs, DataRefs, FileRefs

\* Only the install step makes a reference, and it enables the managed path.
LEMMA RefsStep ==
  ASSUME TypeInv, DisabledInv, [Next]_vars
  PROVE  Refs' \subseteq Refs \union Installed
<1>0. PICK Known : Known = Refs \union Installed
  OBVIOUS
<1> DEFINE CellsOld == \A a \in 1 .. Len(arrays') : \A i \in 1 .. Len(arrays'[a].cells) :
                         arrays'[a].cells[i] \in Known
           DataOld == \A h \in Handlers : \A i \in 1 .. Len(job'[h].data) : job'[h].data[i] \in Known
           FileOld == \A i \in 1 .. Len(eventFile') : eventFile'[i] \in Known
<1>1. CellsOld /\ DataOld /\ FileOld => Refs' \subseteq Known
  <2>1. CellsOld => CellRefs' \subseteq Known
    BY DEF CellRefs
  <2>2. DataOld => DataRefs' \subseteq Known
    BY DEF DataRefs
  <2>3. FileOld => FileRefs' \subseteq Known
    BY DEF FileRefs
  <2> HIDE DEF CellsOld, DataOld, FileOld
  <2>4. Refs' = CellRefs' \union DataRefs' \union FileRefs'
    BY DEF Refs
  <2> QED  BY <2>1, <2>2, <2>3, <2>4
<1>2. /\ HeapInv /\ Refs \subseteq Ref
      /\ \A a \in 1 .. Len(arrays) : \A i \in 1 .. Len(arrays[a].cells) : arrays[a].cells[i] \in Known
      /\ \A h \in Handlers : \A i \in 1 .. Len(job[h].data) : job[h].data[i] \in Known
      /\ \A i \in 1 .. Len(eventFile) : eventFile[i] \in Known
  BY <1>0, RefsAre DEF TypeInv
<1>3. /\ event.array \in 1 .. Len(arrays) /\ event.len \in Nat /\ event.len <= Len(arrays[event.array].cells)
      /\ Len(arrays[event.array].cells) \in Nat
  BY <1>2, HeapTypes
<1>4. \A i \in 1 .. event.len : i \in 1 .. Len(arrays[event.array].cells)
  BY <1>3
<1>5. arrays' = arrays => CellsOld
  BY <1>2
<1>6. (\A h \in Handlers : job'[h].data \in {job[h].data, <<>>}) => DataOld
  <2> SUFFICES ASSUME \A h \in Handlers : job'[h].data \in {job[h].data, <<>>},
                      NEW h \in Handlers, NEW i \in 1 .. Len(job'[h].data)
               PROVE  job'[h].data[i] \in Known
    OBVIOUS
  <2>1. Len(<<>>) = 0
    OBVIOUS
  <2>2. job'[h].data # <<>>
    BY <2>1
  <2> QED  BY <1>2, <2>2
<1>7. eventFile' = eventFile => FileOld
  BY <1>2
<1> HIDE DEF CellsOld, DataOld, FileOld
<1> SUFFICES CellsOld /\ DataOld /\ FileOld
  BY <1>0, <1>1
<1>8. CASE Plain
  BY <1>5, <1>6, <1>7, <1>8 DEF Plain
<1>9. ASSUME NEW h \in Handlers, Install(h) PROVE CellsOld /\ DataOld /\ FileOld
  <2>1. PICK id : id = job[h].id
    OBVIOUS
  <2>2. job[h].pc = "install" /\ eventFile' = eventFile /\ Persist(h)
    BY <1>9 DEF Install, At, disk
  <2>3. id \in Ids
    BY <2>1, <2>2 DEF TypeInv, JobInv, Shape
  <2>4. PICK ref : ref = [package |-> Managed(id), enabled |-> TRUE]
    OBVIOUS
  <2>5. ref \in Known /\ ref \in Ref
    BY <1>0, <2>1, <2>2, <2>3, <2>4, PathFacts DEF Installed, Ref
  <2>6. CASE Taken(id) # {}
    <3>1. /\ arrays' = [arrays EXCEPT ![event.array].cells[
                           CHOOSE i \in Taken(id) : \A j \in Taken(id) : i <= j].package = Managed(id)]
          /\ event' = event
      BY <1>9, <2>1, <2>6 DEF Install
    <3>2. /\ Len(arrays') = Len(arrays)
          /\ \A a \in 1 .. Len(arrays) : a # event.array => arrays'[a] = arrays[a]
      BY <1>2, <2>3, <2>6, <3>1, TakenFacts
    <3>3. PICK k \in 1 .. event.len :
            LET c == arrays[event.array].cells
                d == arrays'[event.array].cells
            IN  /\ c[k].package = source[id] /\ Len(d) = Len(c)
                /\ d[k] = [package |-> Managed(id), enabled |-> c[k].enabled]
                /\ \A i \in 1 .. Len(c) : i # k => d[i] = c[i]
      BY <1>2, <2>3, <2>6, <3>1, TakenFacts
    <3> DEFINE c == arrays[event.array].cells
    <3>4. c[k] \in Refs /\ c[k].package \in Named
      <4>1. c[k] \in Refs
        BY <1>3, <1>4, RefsAre
      <4>2. c[k].package = source[id]
        BY <3>3
      <4> QED  BY <2>3, <4>1, <4>2 DEF Named
    <3>5. c[k].enabled = TRUE
      <4>1. c[k].enabled \in BOOLEAN
        BY <1>2, <3>4 DEF Ref
      <4>2. c[k].enabled
        BY <3>4, Zenon DEF DisabledInv
      <4> QED  BY <4>1, <4>2
    <3>6. arrays'[event.array].cells[k] = ref
      BY <2>4, <3>3, <3>5
    <3>7. CellsOld
      <4> SUFFICES ASSUME NEW a \in 1 .. Len(arrays'), NEW i \in 1 .. Len(arrays'[a].cells)
                   PROVE  arrays'[a].cells[i] \in Known
        BY DEF CellsOld
      <4>1. CASE a = event.array /\ i = k
        BY <2>5, <3>6, <4>1
      <4>2. CASE a = event.array /\ i # k
        <5>1. i \in 1 .. Len(c) /\ arrays'[a].cells[i] = c[i]
          BY <3>3, <4>2
        <5> QED  BY <1>2, <1>3, <5>1
      <4>3. CASE a # event.array
        BY <1>2, <3>2, <4>3
      <4> QED  BY <4>1, <4>2, <4>3
    <3>8. \A g \in Handlers : job'[g].data = job[g].data
      BY <2>2, PersistFields
    <3> QED  BY <1>6, <1>7, <2>2, <3>7, <3>8
  <2>7. CASE Taken(id) = {}
    <3>1. AppendRef(ref)
      BY <1>9, <2>1, <2>4, <2>7 DEF Install
    <3>2. NewCells(ref)
      BY <1>2, <2>5, <3>1, AppendRefFacts
    <3>3. CellsOld
      <4> SUFFICES ASSUME NEW a \in 1 .. Len(arrays'), NEW i \in 1 .. Len(arrays'[a].cells)
                   PROVE  arrays'[a].cells[i] \in Known
        BY DEF CellsOld
      <4>1. CASE arrays'[a].cells[i] = ref
        BY <2>5, <4>1
      <4>2. CASE /\ a \in 1 .. Len(arrays) /\ i \in 1 .. Len(arrays[a].cells)
                 /\ arrays'[a].cells[i] = arrays[a].cells[i]
        BY <1>2, <4>2
      <4>3. CASE \E j \in 1 .. event.len : arrays'[a].cells[i] = arrays[event.array].cells[j]
        BY <1>2, <1>3, <1>4, <4>3
      <4> QED  BY <3>2, <4>1, <4>2, <4>3 DEF NewCells
    <3>4. \A g \in Handlers : job'[g].data = job[g].data
      BY <2>2, PersistFields
    <3> QED  BY <1>6, <1>7, <2>2, <3>3, <3>4
  <2> QED  BY <2>6, <2>7
<1>10. ASSUME NEW h \in Handlers, Detach(h) PROVE CellsOld /\ DataOld /\ FileOld
  <2>1. PICK id, kept : id = job[h].id /\ kept = Without(Read(event), source[id])
    OBVIOUS
  <2>2. eventFile' = eventFile
    BY <1>10 DEF Detach, disk
  <2>3. CASE Done(h) /\ arrays' = arrays
    <3>1. \A g \in Handlers : job'[g].data \in {job[g].data, <<>>}
      BY <2>3, DoneFields, IdleFacts
    <3> QED  BY <1>5, <1>6, <1>7, <2>2, <2>3, <3>1
  <2>4. CASE /\ arrays' = Append(arrays, [cells |-> kept, cap |-> event.len])
             /\ event' = [array |-> Len(arrays) + 1, len |-> Len(kept)]
             /\ Persist(h)
    <3>1. /\ Len(arrays') = Len(arrays) + 1 /\ arrays'[Len(arrays) + 1].cells = kept
          /\ \A b \in 1 .. Len(arrays) : arrays'[b] = arrays[b]
      BY <1>2, <2>1, <2>4, DetachHeap
    <3>2. PICK f : Kept(Read(event), source[id], event.len, kept, f)
      BY <1>2, <2>1, <2>4, DetachHeap
    <3>3. ASSUME NEW i \in 1 .. Len(kept) PROVE kept[i] \in Known
      <4>1. f[i] \in 1 .. event.len /\ kept[i] = Read(event)[f[i]]
        BY <3>2 DEF Kept
      <4>2. Read(event)[f[i]] = arrays[event.array].cells[f[i]]
        BY <1>2, <4>1, ReadFacts DEF HeapInv
      <4> QED  BY <1>2, <1>3, <1>4, <4>1, <4>2
    <3>4. CellsOld
      <4>1. \A a \in 1 .. Len(arrays') : a \in 1 .. Len(arrays) \/ a = Len(arrays) + 1
        <5>1. Len(arrays) \in Nat
          BY <1>2, HeapTypes
        <5> QED  BY <3>1, <5>1
      <4> QED  BY <1>2, <3>1, <3>3, <4>1 DEF CellsOld
    <3>5. \A g \in Handlers : job'[g].data = job[g].data
      BY <2>4, PersistFields
    <3> QED  BY <1>6, <1>7, <2>2, <3>4, <3>5
  <2> QED  BY <1>10, <2>1, <2>3, <2>4 DEF Detach, memory
<1>11. ASSUME NEW h \in Handlers, Marshal(h) PROVE CellsOld /\ DataOld /\ FileOld
  <2>1. arrays' = arrays /\ eventFile' = eventFile
    BY <1>11 DEF Marshal, memory, disk
  <2>2. /\ \A g \in Handlers : g # h => job'[g] = job[g]
        /\ job'[h].data = Read(job[h].event)
    BY <1>11, MarshalFields
  <2>3. job[h].event \in Slice /\ Within(job[h].event, arrays)
    BY DEF TypeInv, JobInv, Job
  <2>4. ASSUME NEW i \in 1 .. Len(job'[h].data) PROVE job'[h].data[i] \in Known
    <3> DEFINE s == job[h].event
    <3>1. s.array \in 1 .. Len(arrays) /\ s.len \in Nat /\ s.len <= Len(arrays[s.array].cells)
      BY <2>3 DEF Within, Slice
    <3>2. /\ Len(Read(s)) = s.len
          /\ \A j \in 1 .. s.len : Read(s)[j] = arrays[s.array].cells[j]
      BY <1>2, <2>3, ReadFacts
    <3>3. i \in 1 .. s.len
      BY <2>2, <2>4, <3>2
    <3>4. Len(arrays[s.array].cells) \in Nat
      BY <1>2, <3>1, HeapTypes
    <3>5. i \in 1 .. Len(arrays[s.array].cells)
      BY <3>1, <3>3, <3>4
    <3> QED  BY <1>2, <2>2, <3>1, <3>2, <3>3, <3>5
  <2>5. DataOld
    BY <1>2, <2>2, <2>4 DEF DataOld
  <2> QED  BY <1>5, <1>7, <2>1, <2>5
<1>12. ASSUME NEW h \in Handlers, Rename(h) PROVE CellsOld /\ DataOld /\ FileOld
  <2>1. arrays' = arrays /\ eventFile' = job[h].data /\ Done(h)
    BY <1>12 DEF Rename, memory
  <2>2. \A g \in Handlers : job'[g].data \in {job[g].data, <<>>}
    BY <2>1, DoneFields, IdleFacts
  <2>3. FileOld
    BY <1>2, <2>1 DEF FileOld
  <2> QED  BY <1>5, <1>6, <2>1, <2>2, <2>3
<1>15. ASSUME NEW h \in Handlers, EventModeFails(h) PROVE CellsOld /\ DataOld /\ FileOld
  <2>1. arrays' = arrays /\ eventFile' = job[h].data /\ Goto(h, "rollback")
    BY <1>15 DEF EventModeFails, memory
  <2>2. \A g \in Handlers : job'[g].data \in {job[g].data, <<>>}
    BY <2>1, GotoFields
  <2>3. FileOld
    BY <1>2, <2>1 DEF FileOld
  <2> QED  BY <1>5, <1>6, <2>1, <2>2, <2>3
<1>13. ASSUME NEW h \in Handlers, Rollback(h) PROVE CellsOld /\ DataOld /\ FileOld
  <2>1. arrays' = arrays /\ eventFile' = eventFile /\ Done(h)
    BY <1>13 DEF Rollback, disk
  <2>2. \A g \in Handlers : job'[g].data \in {job[g].data, <<>>}
    BY <2>1, DoneFields, IdleFacts
  <2> QED  BY <1>5, <1>6, <1>7, <2>1, <2>2
<1>14. CASE Serve
  <2>1. /\ arrays' = <<[cells |-> eventFile, cap |-> Len(eventFile)]>>
        /\ event' = [array |-> 1, len |-> Len(eventFile)]
        /\ eventFile' = eventFile /\ job' = job
    BY <1>14 DEF Serve, disk
  <2>2. eventFile \in Seq(Ref)
    BY DEF TypeInv, PartsInv
  <2>3. Len(arrays') = 1 /\ arrays'[1].cells = eventFile
    BY <2>1, <2>2, FileHeap
  <2>4. CellsOld
    BY <1>2, <2>3 DEF CellsOld
  <2> QED  BY <1>6, <1>7, <2>1, <2>4
<1> QED  BY <1>8, <1>9, <1>10, <1>11, <1>12, <1>13, <1>14, <1>15, StepKinds
\* An archive is written before a reference is made to it, and stays.
LEMMA ArchiveStep ==
  ASSUME TypeInv, ArchiveInv, DisabledInv, [Next]_vars
  PROVE  ArchiveInv'
<1>1. \A p \in Paths : archives[p] # None => archives'[p] # None
  BY ArchivesStay
<1>2. ASSUME NEW r \in Refs' PROVE archives'[r.package] # None
  <2>1. CASE r \in Refs
    <3>1. r.package \in Paths /\ archives[r.package] # None
      BY <2>1, RefsAre DEF ArchiveInv, Ref
    <3> QED  BY <1>1, <3>1
  <2>2. CASE r \in Installed
    <3>1. PICK h \in Handlers : job[h].pc = "install" /\ r.package = Managed(job[h].id)
      BY <2>2 DEF Installed
    <3>2. job[h].id \in Ids
      BY <3>1 DEF TypeInv, JobInv, Shape
    <3> QED  BY <1>1, <3>1, <3>2, PathFacts DEF ArchiveInv
  <2> QED  BY <1>2, <2>1, <2>2, RefsStep
<1>3. ASSUME NEW h \in Handlers, job'[h].pc = "install"
      PROVE  archives'[Managed(job'[h].id)] # None
  <2>1. \/ job[h].pc = "install" /\ job'[h].id = job[h].id
        \/ archives'[Managed(job'[h].id)] # None
    <3>1. CASE Plain
      BY <1>3, <3>1 DEF Plain
    <3>2. ASSUME NEW g \in Handlers, Done(g) PROVE job'[h] = job[h]
      BY <1>3, <3>2, DoneFields, IdleFacts
    <3>3. ASSUME NEW g \in Handlers, Install(g) \/ Detach(g) \/ Marshal(g) \/ Rename(g) \/ Rollback(g)
          PROVE  job'[h] = job[h]
      <4>1. CASE Done(g)
        BY <3>2, <4>1
      <4>2. CASE Persist(g)
        BY <1>3, <4>2, PersistFields
      <4>3. CASE Marshal(g)
        BY <1>3, <4>3, MarshalFields
      <4> QED  BY <3>3, <4>1, <4>2, <4>3 DEF Install, Detach, Rename, Rollback
    <3>5. ASSUME NEW g \in Handlers, EventModeFails(g)
          PROVE  job[h].pc = "install" /\ job'[h].id = job[h].id
      <4>1. Goto(g, "rollback")
        BY <3>5 DEF EventModeFails
      <4> QED  BY <1>3, <4>1, GotoFields
    <3>4. CASE Serve
      BY <1>3, <3>4 DEF Serve
    <3> QED  BY <1>3, <3>1, <3>3, <3>4, <3>5, StepKinds
  <2>2. CASE job[h].pc = "install" /\ job'[h].id = job[h].id
    <3>1. job[h].id \in Ids
      BY <2>2 DEF TypeInv, JobInv, Shape
    <3> QED  BY <1>1, <2>2, <3>1, PathFacts DEF ArchiveInv
  <2> QED  BY <2>1, <2>2
<1> QED  BY <1>2, <1>3 DEF ArchiveInv

\* A source is one of before, a managed path, or one an enabled reference names.
LEMMA SourceStep ==
  ASSUME TypeInv, [Next]_vars
  PROVE  /\ \A id \in Ids : source'[id] \in Named \union {None}
         /\ \A h \in Handlers : job'[h].oldSource \in Named \union {None}
<1>1. /\ \A id \in Ids : source[id] \in Named /\ Managed(id) \in Named
      /\ \A h \in Handlers : job[h].oldSource \in Named
  BY DEF Named
<1>2. source \in [Ids -> Paths \union {None}] /\ \A h \in Handlers : Shape(job[h])
  BY DEF TypeInv, PartsInv, JobInv
<1>3. CASE Plain
  BY <1>1, <1>3 DEF Plain
<1>4. ASSUME NEW h \in Handlers, Done(h)
      PROVE  \A g \in Handlers : job'[g].oldSource \in Named \union {None}
  BY <1>1, <1>4, DoneFields, IdleFacts
<1>5. ASSUME NEW h \in Handlers, Persist(h), job[h].id \in Ids
      PROVE  \A g \in Handlers : job'[g].oldSource \in Named \union {None}
  BY <1>1, <1>5, PersistFields
<1>6. ASSUME NEW h \in Handlers, Install(h)
      PROVE  /\ \A id \in Ids : source'[id] \in Named \union {None}
             /\ \A g \in Handlers : job'[g].oldSource \in Named \union {None}
  <2>1. /\ job[h].pc = "install" /\ Persist(h)
        /\ source' = [source EXCEPT ![job[h].id] = Managed(job[h].id)]
    BY <1>6 DEF Install, At
  <2>2. job[h].id \in Ids
    BY <1>2, <2>1 DEF Shape
  <2> QED  BY <1>1, <1>2, <1>5, <2>1, <2>2
<1>7. ASSUME NEW h \in Handlers, Detach(h)
      PROVE  /\ \A id \in Ids : source'[id] \in Named \union {None}
             /\ \A g \in Handlers : job'[g].oldSource \in Named \union {None}
  <2>1. job[h].pc = "detach"
    BY <1>7 DEF Detach, At
  <2>2. job[h].id \in Ids
    BY <1>2, <2>1 DEF Shape
  <2>3. \/ Done(h) /\ source' = source
        \/ Persist(h) /\ source' = [source EXCEPT ![job[h].id] = None]
    BY <1>7 DEF Detach, memory
  <2> QED  BY <1>1, <1>2, <1>4, <1>5, <2>2, <2>3
<1>8. ASSUME NEW h \in Handlers, Marshal(h)
      PROVE  /\ \A id \in Ids : source'[id] \in Named \union {None}
             /\ \A g \in Handlers : job'[g].oldSource \in Named \union {None}
  <2>1. source' = source
    BY <1>8 DEF Marshal, memory
  <2> QED  BY <1>1, <1>8, <2>1, MarshalFields
<1>9. ASSUME NEW h \in Handlers, Rename(h)
      PROVE  /\ \A id \in Ids : source'[id] \in Named \union {None}
             /\ \A g \in Handlers : job'[g].oldSource \in Named \union {None}
  <2>1. source' = source /\ Done(h)
    BY <1>9 DEF Rename, memory
  <2> QED  BY <1>1, <1>4, <2>1
<1>12. ASSUME NEW h \in Handlers, EventModeFails(h)
       PROVE  /\ \A id \in Ids : source'[id] \in Named \union {None}
              /\ \A g \in Handlers : job'[g].oldSource \in Named \union {None}
  <2>1. source' = source /\ Goto(h, "rollback")
    BY <1>12 DEF EventModeFails, memory
  <2>2. \A g \in Handlers : job'[g].oldSource = job[g].oldSource
    BY <2>1, GotoFields
  <2> QED  BY <1>1, <2>1, <2>2
<1>10. ASSUME NEW h \in Handlers, Rollback(h)
       PROVE  /\ \A id \in Ids : source'[id] \in Named \union {None}
              /\ \A g \in Handlers : job'[g].oldSource \in Named \union {None}
  <2>1. source' = [source EXCEPT ![job[h].id] = job[h].oldSource] /\ Done(h)
    BY <1>10 DEF Rollback
  <2> QED  BY <1>1, <1>2, <1>4, <2>1
<1>11. CASE Serve
  <2>1. source' = [id \in Ids |-> LastOf(eventFile, id)] /\ job' = job
    BY <1>11 DEF Serve
  <2>2. eventFile \in Seq(Ref)
    BY DEF TypeInv, PartsInv
  <2>3. ASSUME NEW id \in Ids PROVE LastOf(eventFile, id) \in Named \union {None}
    <3>1. CASE LastOf(eventFile, id) = None
      BY <3>1
    <3>2. CASE LastOf(eventFile, id) # None
      <4>1. PICK i \in 1 .. Len(eventFile) :
              eventFile[i].enabled /\ eventFile[i].package = LastOf(eventFile, id)
        BY <2>2, <3>2, LastOfServes DEF Serves
      <4>2. eventFile[i] \in Refs
        BY RefsAre
      <4> QED  BY <4>1, <4>2 DEF Named
    <3> QED  BY <3>1, <3>2
  <2> QED  BY <1>1, <2>1, <2>3
<1> QED  BY <1>3, <1>6, <1>7, <1>8, <1>9, <1>10, <1>11, <1>12, StepKinds

LEMMA DisabledStep ==
  ASSUME TypeInv, DisabledInv, [Next]_vars
  PROVE  DisabledInv'
<1>1. Refs' \subseteq Refs \union Installed /\ Refs \subseteq Ref
  BY RefsStep, RefsAre
<1>2. \A r \in Installed : r.enabled /\ \E id \in Ids : r.package = Managed(id)
  <2>1. \A h \in Handlers : job[h].pc = "install" => job[h].id \in Ids
    BY DEF TypeInv, JobInv, Shape
  <2> QED  BY <2>1 DEF Installed
<1>3. Named' \subseteq Named \union {None}
  <2>1. {source[id] : id \in Ids}' \subseteq Named \union {None}
    BY SourceStep
  <2>2. {job[h].oldSource : h \in Handlers}' \subseteq Named \union {None}
    BY SourceStep
  <2>3. {Managed(id) : id \in Ids} \subseteq Named
    BY DEF Named
  <2>4. {r.package : r \in {q \in Refs : q.enabled}}' \subseteq Named
    <3>1. ASSUME NEW r \in Refs', r.enabled PROVE r.package \in Named
      <4>1. CASE r \in Refs
        BY <3>1, <4>1 DEF Named
      <4>2. CASE r \in Installed
        BY <1>2, <2>3, <4>2
      <4> QED  BY <1>1, <4>1, <4>2
    <3> QED  BY <3>1
  <2>5. Named' = {source[id] : id \in Ids}' \union {job[h].oldSource : h \in Handlers}'
                   \union {Managed(id) : id \in Ids} \union {r.package : r \in {q \in Refs : q.enabled}}'
    BY DEF Named
  <2> QED  BY <2>1, <2>2, <2>3, <2>4, <2>5
<1>4. ASSUME NEW r \in Refs', ~r.enabled PROVE r.package \notin Named'
  <2>1. r \in Refs
    BY <1>1, <1>2, <1>4
  <2>2. r.package \notin Named /\ r.package \in Paths
    BY <1>1, <1>4, <2>1 DEF DisabledInv, Ref
  <2> QED  BY <1>3, <2>2, Constants
<1> QED  BY <1>4 DEF DisabledInv
-----------------------------------------------------------------------------
\* The first state

LEMMA ListFacts ==
  ASSUME NEW refs \in Seq(Ref)
  PROVE  /\ Len(refs) \in Nat /\ DOMAIN refs = 1 .. Len(refs)
         /\ \A i \in 1 .. Len(refs) : refs[i] \in Ref
  OBVIOUS

\* An author lists no scenario twice: n references name n scenarios.
LEMMA OpeningGood ==
  ASSUME NEW chosen \in SUBSET Ids, NEW listed \in SUBSET Ids,
         NEW refs \in [1 .. Cardinality(listed) -> Ref], Opening(chosen, listed, refs)
  PROVE  /\ refs \in Seq(Ref) /\ Good(refs)
         /\ \A i \in 1 .. Len(refs) : refs[i].package = Original(IdOf(refs[i].package))
         /\ \A id \in Ids : LastOf(refs, id) = IF id \in chosen THEN Original(id) ELSE None
<1> DEFINE n == Cardinality(listed)
           ids == [i \in 1 .. n |-> IdOf(refs[i].package)]
<1>1. IsFiniteSet(listed) /\ n \in Nat
  BY WorkshopAssumption, FS_Subset, FS_CardinalityType
<1>2. refs \in Seq(Ref) /\ Len(refs) = n /\ DOMAIN refs = 1 .. n
  BY <1>1
<1>3. /\ {refs[i].package : i \in 1 .. n} = {Original(id) : id \in listed}
      /\ \A i \in 1 .. n : refs[i].enabled <=> IdOf(refs[i].package) \in chosen
      /\ chosen \subseteq listed
  BY <1>2 DEF Opening
<1> HIDE DEF n
<1>4. \A i \in 1 .. n : /\ IdOf(refs[i].package) \in listed
                        /\ refs[i].package = Original(IdOf(refs[i].package))
  <2> TAKE i \in 1 .. n
  <2>1. PICK id \in listed : refs[i].package = Original(id)
    BY <1>3
  <2> QED  BY <2>1, PathFacts
<1>5. \A id \in listed : \E i \in 1 .. n : refs[i].package = Original(id)
  BY <1>3
<1>6. ids \in Surjection(1 .. n, listed)
  <2>1. ids \in [1 .. n -> listed]
    BY <1>4
  <2>2. \A id \in listed : \E i \in 1 .. n : ids[i] = id
    <3> TAKE id \in listed
    <3>1. PICK i \in 1 .. n : refs[i].package = Original(id)
      BY <1>5
    <3>2. ids[i] = id
      BY <3>1, PathFacts
    <3> QED  BY <3>2
  <2> HIDE DEF ids
  <2> QED  BY <2>1, <2>2, Fun_IsSurj
<1>7. \A i, j \in 1 .. n : ids[i] = ids[j] => i = j
  <2>1. IsFiniteSet(1 .. n) /\ Cardinality(1 .. n) = n
    <3>1. 1 \in Int /\ n \in Int /\ (IF 1 > n THEN 0 ELSE n - 1 + 1) = n
      BY <1>1
    <3> QED  BY <3>1, FS_Interval
  <2>2. Cardinality(1 .. n) = Cardinality(listed)
    BY <2>1 DEF n
  <2>3. ids \in Injection(1 .. n, listed)
    <3> HIDE DEF ids
    <3> QED  BY <1>6, <2>1, <2>2, FS_SurjSameCardinalityImpliesInj
  <2> HIDE DEF ids
  <2> QED  BY <2>3, Fun_InjectionProperties
<1>8. \A i, j \in 1 .. n : IdOf(refs[i].package) = IdOf(refs[j].package) => i = j
  BY <1>7
<1>9. Good(refs)
  <2>1. ValidEvent(refs)
    BY <1>2, <1>8 DEF ValidEvent
  <2>2. OneEach(refs)
    BY <1>2, <1>8 DEF OneEach, Enabled
  <2> QED  BY <2>1, <2>2 DEF Good
<1>10. ASSUME NEW id \in Ids
       PROVE  LastOf(refs, id) = IF id \in chosen THEN Original(id) ELSE None
  <2>1. CASE id \in chosen
    <3>1. PICK i \in 1 .. n : refs[i].package = Original(id)
      BY <1>3, <1>5, <2>1
    <3>2. refs[i].enabled /\ IdOf(Original(id)) = id
      BY <1>3, <2>1, <3>1, PathFacts
    <3>3. Serves(refs, id, Original(id))
      BY <1>2, <3>1, <3>2 DEF Serves
    <3> QED  BY <1>2, <1>9, <2>1, <3>3, OneServes DEF Good
  <2>2. CASE id \notin chosen
    <3>1. \A p : ~Serves(refs, id, p)
      BY <1>2, <1>3, <2>2 DEF Serves
    <3>2. LastOf(refs, id) = None
      BY <1>2, <3>1, LastOfServes
    <3> QED  BY <2>2, <3>2
  <2> QED  BY <2>1, <2>2
<1> QED  BY <1>2, <1>4, <1>9, <1>10

\* Memory and files agree at the start, and every listed package is there.
LEMMA InvStart ==
  ASSUME Init
  PROVE  /\ ArchiveInv /\ DisabledInv /\ ListInv
         /\ eventFile = Read(event) /\ Good(eventFile) /\ sessions = {} /\ up
         /\ \A id \in Ids : packages[id] = Loaded(Read(event))[id]
         /\ \A h \in Handlers : job[h] = Idle
<1>0. PICK chosen \in SUBSET Ids, listed \in SUBSET Ids :
        \E refs \in [1 .. Cardinality(listed) -> Ref] : Opening(chosen, listed, refs)
  BY Zenon DEF Init, Opening
<1>1. PICK refs \in [1 .. Cardinality(listed) -> Ref] : Opening(chosen, listed, refs)
  BY <1>0
<1>2. /\ refs \in Seq(Ref) /\ Good(refs)
      /\ \A i \in 1 .. Len(refs) : refs[i].package = Original(IdOf(refs[i].package))
      /\ \A id \in Ids : LastOf(refs, id) = IF id \in chosen THEN Original(id) ELSE None
  BY <1>1, OpeningGood
<1>3. /\ archives = [p \in Paths |-> IF \E id \in Ids : p = Original(id) THEN Fresh ELSE None]
      /\ eventFile = refs
      /\ packages = [id \in Ids |-> IF id \in chosen THEN Fresh ELSE None]
      /\ source = [id \in Ids |-> IF id \in chosen THEN Original(id) ELSE None]
      /\ arrays = <<[cells |-> refs, cap |-> Len(refs)]>>
      /\ event = [array |-> 1, len |-> Len(refs)]
      /\ chosen \subseteq listed
  BY <1>1 DEF Opening
<1>4. /\ up = TRUE /\ sessions = {} /\ job = [h \in Handlers |-> Idle]
  BY <1>1 DEF Opening
<1>5. TypeInv
  BY TypeStart
<1>6. /\ Len(refs) \in Nat /\ DOMAIN refs = 1 .. Len(refs)
      /\ \A i \in 1 .. Len(refs) : refs[i] \in Ref
  BY <1>2, ListFacts
<1>7. Len(arrays) = 1 /\ arrays[1].cells = refs /\ Read(event) = refs
  <2> DEFINE new == [cells |-> refs, cap |-> Len(refs)]
  <2>1. new.cells = refs
    OBVIOUS
  <2> HIDE DEF new
  <2>2. arrays = <<new>>
    BY <1>3 DEF new
  <2>3. Len(arrays) = 1 /\ arrays[1].cells = refs
    BY <2>1, <2>2
  <2>4. Read(event) = SubSeq(refs, 1, Len(refs))
    BY <1>3, <2>3 DEF Read
  <2>5. SubSeq(refs, 1, Len(refs)) = refs
    BY <1>2
  <2> QED  BY <2>3, <2>4, <2>5
<1>8. \A h \in Handlers : job[h] = Idle
  BY <1>4
<1>9. \A r \in Refs : r \in Ref /\ \E i \in 1 .. Len(refs) : refs[i] = r
  <2>1. \A r \in CellRefs : r \in Ref /\ \E i \in 1 .. Len(refs) : refs[i] = r
    <3>1. \A a \in 1 .. Len(arrays) : a = 1
      BY <1>7
    <3> QED  BY <1>7, <3>1 DEF CellRefs
  <2>2. \A r \in FileRefs : r \in Ref /\ \E i \in 1 .. Len(refs) : refs[i] = r
    BY <1>3 DEF FileRefs
  <2>3. DataRefs = {}
    <3>1. \A h \in Handlers : Len(job[h].data) = 0
      BY <1>8, IdleFacts
    <3> QED  BY <3>1 DEF DataRefs
  <2> QED  BY <2>1, <2>2, <2>3 DEF Refs
<1>10. \A r \in Refs : IdOf(r.package) \in Ids /\ r.package = Original(IdOf(r.package))
  BY <1>2, <1>9, PathFacts DEF Ref
<1>11. Fresh \in Content /\ Fresh # None
  BY Constants DEF Fresh, Content
<1>12. ArchiveInv
  <2>1. \A r \in Refs : archives[r.package] # None
    BY <1>3, <1>10, <1>11, PathFacts
  <2> QED  BY <1>8, <2>1, IdleFacts DEF ArchiveInv
<1>13. DisabledInv
  <2>1. ASSUME NEW r \in Refs, ~r.enabled PROVE r.package \notin Named
    <3>1. PICK x \in Ids : x = IdOf(r.package) /\ r.package = Original(x)
      BY <1>10
    <3>2. PICK i \in 1 .. Len(refs) : refs[i] = r
      BY <1>9
    <3>3. x \notin chosen
      BY <1>1, <1>6, <2>1, <3>1, <3>2 DEF Opening
    <3>4. \A id \in Ids : source[id] # r.package
      BY <1>3, <3>1, <3>3, PathFacts, Constants
    <3>5. \A h \in Handlers : job[h].oldSource # r.package
      BY <1>8, <3>1, IdleFacts, PathFacts, Constants
    <3>6. \A id \in Ids : Managed(id) # r.package
      BY <3>1, PathFacts
    <3>7. ASSUME NEW q \in Refs, q.enabled PROVE q.package # r.package
      <4>1. PICK j \in 1 .. Len(refs) : refs[j] = q
        BY <1>9
      <4>2. IdOf(q.package) \in chosen
        BY <1>1, <1>6, <3>7, <4>1 DEF Opening
      <4> QED  BY <3>1, <3>3, <4>2
    <3> QED  BY <3>4, <3>5, <3>6, <3>7 DEF Named
  <2> QED  BY <2>1 DEF DisabledInv
<1>14. ListInv
  <2>1. \A h \in Handlers : Good(job[h].data) /\ job[h].pc # "rollback"
    <3>1. Good(<<>>)
      BY DEF Good, ValidEvent, OneEach, Enabled
    <3> QED  BY <1>8, <3>1, IdleFacts
  <2>2. event = [array |-> Len(arrays), len |-> Len(arrays[Len(arrays)].cells)]
    BY <1>3, <1>7
  <2>3. \A id \in Ids : source[id] = LastOf(Read(event), id)
    BY <1>2, <1>3, <1>7
  <2> QED  BY <1>2, <1>3, <1>7, <2>1, <2>2, <2>3 DEF ListInv
<1>15. ASSUME NEW id \in Ids PROVE packages[id] = Loaded(Read(event))[id]
  <2>1. Loaded(refs)[id] = IF LastOf(refs, id) = None THEN None ELSE archives[LastOf(refs, id)]
    BY <1>2, <1>5, LoadedFacts DEF TypeInv, PartsInv
  <2>2. id \in chosen => archives[Original(id)] = Fresh /\ Original(id) # None
    BY <1>3, PathFacts, Constants
  <2> QED  BY <1>2, <1>3, <1>7, <2>1, <2>2
<1> QED  BY <1>2, <1>3, <1>4, <1>7, <1>8, <1>12, <1>13, <1>14, <1>15
-----------------------------------------------------------------------------
\* No list names or serves twice

LEMMA GoodFacts ==
  ASSUME NEW refs \in Seq(Ref)
  PROVE  Good(refs) <=> \A i, j \in 1 .. Len(refs) :
           \/ refs[i].package = refs[j].package
           \/ /\ refs[i].enabled /\ refs[j].enabled
              /\ IdOf(refs[i].package) = IdOf(refs[j].package)
           => i = j
<1>1. DOMAIN refs = 1 .. Len(refs)
  BY ListFacts
<1> QED  BY <1>1 DEF Good, ValidEvent, OneEach, Enabled

LEMMA GoodEmpty == Good(<<>>)
  BY DEF Good, ValidEvent, OneEach, Enabled

\* A list with one reference of a scenario more, or another one in its place,
\* is good if this is its only one, and serves the scenario from there.
LEMMA OneMore ==
  ASSUME NEW refs \in Seq(Ref), Good(refs), NEW d \in Seq(Ref), NEW k \in 1 .. Len(d), NEW id \in Ids,
         d[k].enabled, d[k].package = Managed(id),
         \A i \in 1 .. Len(d) : i # k => i \in 1 .. Len(refs) /\ d[i] = refs[i],
         \A i \in 1 .. Len(refs) : i # k => i \in 1 .. Len(d),
         k \in 1 .. Len(refs) => IdOf(refs[k].package) = id,
         \A i \in 1 .. Len(refs) : i # k /\ IdOf(refs[i].package) = id =>
           ~refs[i].enabled /\ refs[i].package # Managed(id)
  PROVE  /\ Good(d) /\ LastOf(d, id) = Managed(id)
         /\ \A x \in Ids : x # id => LastOf(d, x) = LastOf(refs, x)
<1>0. IdOf(Managed(id)) = id
  BY PathFacts
<1>1. Good(d)
  <2>1. \A i, j \in 1 .. Len(refs) :
           \/ refs[i].package = refs[j].package
           \/ /\ refs[i].enabled /\ refs[j].enabled
              /\ IdOf(refs[i].package) = IdOf(refs[j].package)
           => i = j
    BY GoodFacts
  <2>2. SUFFICES ASSUME NEW i \in 1 .. Len(d), NEW j \in 1 .. Len(d),
                        \/ d[i].package = d[j].package
                        \/ /\ d[i].enabled /\ d[j].enabled
                           /\ IdOf(d[i].package) = IdOf(d[j].package)
                 PROVE  i = j
    BY GoodFacts
  <2>3. CASE i # k /\ j # k
    <3>1. i \in 1 .. Len(refs) /\ j \in 1 .. Len(refs) /\ d[i] = refs[i] /\ d[j] = refs[j]
      BY <2>3
    <3> QED  BY <2>1, <2>2, <3>1
  <2>4. CASE i = k /\ j # k
    <3>1. j \in 1 .. Len(refs) /\ d[j] = refs[j]
      BY <2>4
    <3>2. IdOf(refs[j].package) = id
      BY <1>0, <2>2, <2>4, <3>1
    <3> QED  BY <2>2, <2>4, <3>1, <3>2
  <2>5. CASE i # k /\ j = k
    <3>1. i \in 1 .. Len(refs) /\ d[i] = refs[i]
      BY <2>5
    <3>2. IdOf(refs[i].package) = id
      BY <1>0, <2>2, <2>5, <3>1
    <3> QED  BY <2>2, <2>5, <3>1, <3>2
  <2> QED  BY <2>3, <2>4, <2>5
<1>2. LastOf(d, id) = Managed(id)
  <2>1. Serves(d, id, Managed(id))
    BY <1>0 DEF Serves
  <2> QED  BY <1>1, <2>1, OneServes DEF Good
<1>3. ASSUME NEW x \in Ids, x # id PROVE LastOf(d, x) = LastOf(refs, x)
  <2>1. ASSUME NEW p, Serves(refs, x, p) PROVE Serves(d, x, p)
    <3>1. PICK i \in 1 .. Len(refs) : refs[i].enabled /\ refs[i].package = p /\ IdOf(p) = x
      BY <2>1 DEF Serves
    <3>2. i # k
      BY <1>3, <3>1
    <3> QED  BY <3>1, <3>2 DEF Serves
  <2>2. ASSUME NEW p, Serves(d, x, p) PROVE Serves(refs, x, p)
    <3>1. PICK i \in 1 .. Len(d) : d[i].enabled /\ d[i].package = p /\ IdOf(p) = x
      BY <2>2 DEF Serves
    <3>2. i # k
      BY <1>0, <1>3, <3>1
    <3> QED  BY <3>1, <3>2 DEF Serves
  <2>3. \A p : Serves(refs, x, p) <=> Serves(d, x, p)
    BY <2>1, <2>2
  <2> QED  BY <2>3, SameServed DEF Good
<1> QED  BY <1>1, <1>2, <1>3

\* A list without the references to what serves a scenario no longer serves it.
LEMMA OneLess ==
  ASSUME NEW refs \in Seq(Ref), Good(refs), NEW id \in Ids, NEW kept, NEW f,
         Kept(refs, LastOf(refs, id), Len(refs), kept, f)
  PROVE  /\ kept \in Seq(Ref) /\ Good(kept) /\ LastOf(kept, id) = None
         /\ \A x \in Ids : x # id => LastOf(kept, x) = LastOf(refs, x)
<1>1. kept \in Seq(Ref) /\ Len(kept) \in Nat
  BY DEF Kept
<1>2. \A i \in 1 .. Len(kept) : /\ f[i] \in 1 .. Len(refs) /\ kept[i] = refs[f[i]]
                                /\ kept[i].package # LastOf(refs, id)
  BY DEF Kept
<1>3. \A i, j \in 1 .. Len(kept) : f[i] = f[j] => i = j
  <2> SUFFICES ASSUME NEW i \in 1 .. Len(kept), NEW j \in 1 .. Len(kept), i < j
               PROVE  f[i] # f[j]
    OBVIOUS
  <2>1. f[i] < f[j]
    BY DEF Kept
  <2> QED  BY <1>2, <2>1
<1>4. Good(kept)
  <2>1. \A i, j \in 1 .. Len(refs) :
           \/ refs[i].package = refs[j].package
           \/ /\ refs[i].enabled /\ refs[j].enabled
              /\ IdOf(refs[i].package) = IdOf(refs[j].package)
           => i = j
    BY GoodFacts
  <2>2. SUFFICES ASSUME NEW i \in 1 .. Len(kept), NEW j \in 1 .. Len(kept),
                        \/ kept[i].package = kept[j].package
                        \/ /\ kept[i].enabled /\ kept[j].enabled
                           /\ IdOf(kept[i].package) = IdOf(kept[j].package)
                 PROVE  i = j
    BY <1>1, GoodFacts
  <2>3. /\ f[i] \in 1 .. Len(refs) /\ kept[i] = refs[f[i]]
        /\ f[j] \in 1 .. Len(refs) /\ kept[j] = refs[f[j]]
    BY <1>2
  <2>4. f[i] = f[j]
    BY <2>1, <2>2, <2>3
  <2> QED  BY <1>3, <2>4
<1>5. ASSUME NEW x, NEW p, Serves(kept, x, p)
      PROVE  Serves(refs, x, p) /\ p # LastOf(refs, id)
  <2>1. PICK i \in 1 .. Len(kept) : kept[i].enabled /\ kept[i].package = p /\ IdOf(p) = x
    BY <1>5 DEF Serves
  <2> QED  BY <1>2, <2>1 DEF Serves
<1>6. LastOf(kept, id) = None
  <2>1. ASSUME LastOf(kept, id) # None PROVE FALSE
    <3>1. Serves(kept, id, LastOf(kept, id))
      BY <1>1, <2>1, LastOfServes
    <3>2. Serves(refs, id, LastOf(kept, id)) /\ LastOf(kept, id) # LastOf(refs, id)
      BY <1>5, <3>1
    <3> QED  BY <3>2, OneServes DEF Good
  <2> QED  BY <2>1
<1>7. ASSUME NEW x \in Ids, x # id PROVE LastOf(kept, x) = LastOf(refs, x)
  <2>1. ASSUME NEW p, Serves(refs, x, p) PROVE Serves(kept, x, p)
    <3>1. PICK m \in 1 .. Len(refs) : refs[m].enabled /\ refs[m].package = p /\ IdOf(p) = x
      BY <2>1 DEF Serves
    <3>2. p \in Paths
      BY <3>1, ListFacts DEF Ref
    <3>3. p # LastOf(refs, id)
      <4>1. CASE LastOf(refs, id) = None
        BY <3>2, <4>1, Constants
      <4>2. CASE LastOf(refs, id) # None
        <5>1. IdOf(LastOf(refs, id)) = id
          BY <4>2, LastOfServes DEF Serves
        <5> QED  BY <1>7, <3>1, <5>1
      <4> QED  BY <4>1, <4>2
    <3>4. PICK i \in 1 .. Len(kept) : f[i] = m
      BY <3>1, <3>3 DEF Kept
    <3> QED  BY <1>2, <3>1, <3>4 DEF Serves
  <2>2. \A p : Serves(refs, x, p) <=> Serves(kept, x, p)
    BY <1>5, <2>1
  <2> QED  BY <1>1, <2>2, SameServed DEF Good
<1> QED  BY <1>1, <1>4, <1>6, <1>7

\* What a slice of a good array reads is good.
LEMMA GoodPrefix ==
  ASSUME HeapInv, NEW slice \in Slice, Within(slice, arrays), Good(arrays[slice.array].cells)
  PROVE  Good(Read(slice))
<1>1. /\ slice.array \in 1 .. Len(arrays) /\ slice.len \in Nat
      /\ slice.len <= Len(arrays[slice.array].cells)
      /\ arrays[slice.array].cells \in Seq(Ref) /\ Len(arrays[slice.array].cells) \in Nat
  BY HeapTypes DEF Within, Slice
<1>2. PICK c : c = arrays[slice.array].cells
  OBVIOUS
<1>3. /\ Read(slice) \in Seq(Ref) /\ Len(Read(slice)) = slice.len
      /\ \A i \in 1 .. slice.len : Read(slice)[i] = c[i]
  BY <1>2, ReadFacts
<1>4. \A i \in 1 .. slice.len : i \in 1 .. Len(c)
  BY <1>1, <1>2
<1>5. c \in Seq(Ref) /\ Good(c)
  BY <1>1, <1>2
<1>6. \A i, j \in 1 .. Len(c) :
           \/ c[i].package = c[j].package
           \/ /\ c[i].enabled /\ c[j].enabled
              /\ IdOf(c[i].package) = IdOf(c[j].package)
           => i = j
  BY <1>5, GoodFacts
<1>7. \A i, j \in 1 .. slice.len :
           \/ Read(slice)[i].package = Read(slice)[j].package
           \/ /\ Read(slice)[i].enabled /\ Read(slice)[j].enabled
              /\ IdOf(Read(slice)[i].package) = IdOf(Read(slice)[j].package)
           => i = j
  BY <1>3, <1>4, <1>6
<1> QED  BY <1>3, <1>7, GoodFacts
\* While no write fails, the slice of the event fills the last array.
LEMMA TopFacts ==
  ASSUME TypeInv, ListInv, ~failed
  PROVE  /\ event.array = Len(arrays) /\ event.len = Len(arrays[event.array].cells)
         /\ Read(event) = arrays[event.array].cells /\ Good(Read(event))
         /\ Read(event) \in Seq(Ref) /\ Len(Read(event)) = event.len
         /\ \A i \in 1 .. Len(Read(event)) : Read(event)[i] \in Refs
<1>1. HeapInv /\ event \in Slice /\ Within(event, arrays)
  BY DEF TypeInv, HeapInv
<1>2. /\ event.array \in 1 .. Len(arrays)
      /\ event = [array |-> Len(arrays), len |-> Len(arrays[Len(arrays)].cells)]
      /\ Good(arrays[event.array].cells)
  BY <1>1, HeapTypes DEF ListInv
<1>3. event.array = Len(arrays) /\ event.len = Len(arrays[event.array].cells)
  BY <1>2
<1>4. /\ Read(event) \in Seq(Ref) /\ Len(Read(event)) = event.len
      /\ Read(event) = arrays[event.array].cells
  BY <1>1, <1>3, ReadFacts
<1>5. \A i \in 1 .. Len(arrays[event.array].cells) : arrays[event.array].cells[i] \in Refs
  BY <1>2, RefsAre
<1> QED  BY <1>2, <1>3, <1>4, <1>5

LEMMA CellsNext ==
  ASSUME HeapInv'
  PROVE  \A a \in 1 .. Len(arrays') : arrays'[a].cells \in Seq(Ref)
<1> DEFINE R == [cells : Seq(Ref), cap : Nat]
<1>1. PICK heap : heap = arrays'
  OBVIOUS
<1>2. heap \in Seq(R)
  BY <1>1 DEF HeapInv
<1> HIDE DEF R
<1>3. \A a \in 1 .. Len(heap) : heap[a] \in R
  BY <1>2
<1> QED  BY <1>1, <1>3 DEF R

\* A save leaves the list with one reference to its scenario, the managed path.
LEMMA InstallList ==
  ASSUME TypeInv, DisabledInv, ListInv, ~failed, NEW h \in Handlers, Install(h),
         NEW id \in Ids, id = job[h].id
  PROVE  /\ LastOf(Read(event)', id) = Managed(id)
         /\ \A x \in Ids : x # id => LastOf(Read(event)', x) = LastOf(Read(event), x)
         /\ Read(event)' \in Seq(Ref)
         /\ \A a \in 1 .. Len(arrays') : Good(arrays'[a].cells)
         /\ event' = [array |-> Len(arrays'), len |-> Len(arrays'[Len(arrays')].cells)]
<1>1. /\ HeapInv /\ event.array = Len(arrays) /\ event.len = Len(arrays[event.array].cells)
      /\ Read(event) = arrays[event.array].cells
      /\ \A i \in 1 .. Len(Read(event)) : Read(event)[i] \in Refs
  BY TopFacts DEF TypeInv
<1>2. PICK list : list = Read(event)
  OBVIOUS
<1>3. list \in Seq(Ref) /\ Len(list) = event.len /\ Good(list) /\ Len(list) \in Nat
  BY <1>2, TopFacts, ListFacts
<1>4. /\ source[id] = LastOf(list, id) /\ \A a \in 1 .. Len(arrays) : Good(arrays[a].cells)
  BY <1>2 DEF ListInv
<1>5. \A i \in 1 .. Len(list) : list[i].package = Managed(id) => list[i].enabled
  <2>1. Managed(id) \in Named
    BY DEF Named
  <2>2. \A i \in 1 .. Len(list) : list[i] \in Refs
    BY <1>1, <1>2
  <2> QED  BY <2>1, <2>2 DEF DisabledInv
<1>6. \A i \in 1 .. Len(list) : list[i].enabled /\ IdOf(list[i].package) = id => list[i].package = source[id]
  <2> SUFFICES ASSUME NEW i \in 1 .. Len(list), list[i].enabled, IdOf(list[i].package) = id
               PROVE  list[i].package = source[id]
    OBVIOUS
  <2>1. Serves(list, id, list[i].package)
    BY DEF Serves
  <2> QED  BY <1>3, <1>4, <2>1, OneServes DEF Good
<1>7. \A i : i \in Taken(id) <=> i \in 1 .. Len(list) /\ list[i].package = source[id]
  BY <1>2, <1>3 DEF Taken
<1>8. IdOf(Managed(id)) = id /\ Managed(id) \in Paths
  BY PathFacts
<1>9. CASE Taken(id) # {}
  <2>1. /\ arrays' = [arrays EXCEPT ![event.array].cells[
                         CHOOSE i \in Taken(id) : \A j \in Taken(id) : i <= j].package = Managed(id)]
        /\ event' = event
    BY <1>9 DEF Install
  <2>2. /\ HeapInv' /\ Len(arrays') = Len(arrays)
        /\ \A a \in 1 .. Len(arrays) : a # event.array => arrays'[a] = arrays[a]
    BY <1>1, <1>9, <2>1, TakenFacts
  <2>3. PICK d : d = arrays'[event.array].cells
    OBVIOUS
  <2>4. PICK k \in 1 .. event.len :
          /\ list[k].package = source[id] /\ Len(d) = Len(list)
          /\ d[k] = [package |-> Managed(id), enabled |-> list[k].enabled]
          /\ \A i \in 1 .. Len(list) : i # k => d[i] = list[i]
    <3>1. \E k \in 1 .. event.len :
            LET c == arrays[event.array].cells
                e == arrays'[event.array].cells
            IN  /\ c[k].package = source[id] /\ Len(e) = Len(c)
                /\ e[k] = [package |-> Managed(id), enabled |-> c[k].enabled]
                /\ \A i \in 1 .. Len(c) : i # k => e[i] = c[i]
      BY <1>1, <1>9, <2>1, TakenFacts
    <3> QED  BY <1>1, <1>2, <2>3, <3>1
  <2>5. d \in Seq(Ref)
    <3>1. \A a \in 1 .. Len(arrays') : arrays'[a].cells \in Seq(Ref)
      BY <2>2, CellsNext
    <3>2. event.array \in 1 .. Len(arrays')
      BY <1>1, <2>2, HeapTypes
    <3> QED  BY <2>3, <3>1, <3>2
  <2>6. k \in 1 .. Len(list) /\ k \in 1 .. Len(d)
    BY <1>3, <2>4
  <2>7. source[id] \in Paths /\ source[id] # None
    <3>1. list[k] \in Ref
      BY <1>3, <2>6, ListFacts
    <3> QED  BY <2>4, <3>1, Constants DEF Ref
  <2>8. IdOf(source[id]) = id /\ source[id] \in Named
    <3>1. Serves(list, id, source[id])
      BY <1>3, <1>4, <2>7, LastOfServes
    <3> QED  BY <3>1 DEF Serves, Named
  <2>9. list[k].enabled
    BY <1>1, <1>2, <2>4, <2>6, <2>8, Zenon DEF DisabledInv
  <2>10. d[k].enabled /\ d[k].package = Managed(id) /\ IdOf(list[k].package) = id
    BY <2>4, <2>8, <2>9
  <2>11. ASSUME NEW i \in 1 .. Len(list), i # k, IdOf(list[i].package) = id
         PROVE  ~list[i].enabled /\ list[i].package # Managed(id)
    <3>1. ~list[i].enabled
      <4>1. \A m, n \in 1 .. Len(list) : list[m].package = list[n].package => m = n
        BY <1>3, GoodFacts
      <4> QED  BY <1>6, <2>4, <2>6, <2>11, <4>1
    <3> QED  BY <1>5, <3>1
  <2>12. \A i \in 1 .. Len(d) : i # k => i \in 1 .. Len(list) /\ d[i] = list[i]
    BY <2>4
  <2>13. \A i \in 1 .. Len(list) : i # k => i \in 1 .. Len(d)
    BY <2>4
  <2>14. /\ Good(d) /\ LastOf(d, id) = Managed(id)
         /\ \A x \in Ids : x # id => LastOf(d, x) = LastOf(list, x)
    BY <1>3, <2>5, <2>6, <2>10, <2>11, <2>12, <2>13, OneMore
  <2>15. Read(event)' = d
    <3>1. Read(event)' = SubSeq(d, 1, event.len)
      BY <2>1, <2>3 DEF Read
    <3>2. SubSeq(d, 1, Len(d)) = d
      BY <2>5
    <3> QED  BY <1>3, <2>4, <3>1, <3>2
  <2>16. \A a \in 1 .. Len(arrays') : Good(arrays'[a].cells)
    BY <1>4, <2>2, <2>3, <2>14
  <2>17. event' = [array |-> Len(arrays'), len |-> Len(arrays'[Len(arrays')].cells)]
    <3>1. event = [array |-> Len(arrays), len |-> Len(arrays[Len(arrays)].cells)]
      BY DEF ListInv
    <3> QED  BY <1>1, <1>2, <2>1, <2>2, <2>3, <2>4, <3>1
  <2> QED  BY <1>2, <2>5, <2>14, <2>15, <2>16, <2>17
<1>10. CASE Taken(id) = {}
  <2>1. PICK ref : ref = [package |-> Managed(id), enabled |-> TRUE]
    OBVIOUS
  <2>2. ref \in Ref
    BY <1>8, <2>1 DEF Ref
  <2>3. AppendRef(ref)
    BY <1>10, <2>1 DEF Install
  <2>4. PICK d : d = Append(list, ref)
    OBVIOUS
  <2>5. /\ Read(event)' = d
        /\ event' = [array |-> Len(arrays'), len |-> Len(arrays'[Len(arrays')].cells)]
        /\ \A a \in 1 .. Len(arrays') : \/ arrays'[a].cells = d
                                        \/ a \in 1 .. Len(arrays) /\ arrays'[a] = arrays[a]
    BY <1>1, <1>2, <2>2, <2>3, <2>4, AppendRefFacts
  <2>6. /\ d \in Seq(Ref) /\ Len(d) = Len(list) + 1 /\ d[Len(list) + 1] = ref
        /\ \A i \in 1 .. Len(list) : d[i] = list[i]
    BY <1>3, <2>2, <2>4
  <2> DEFINE k == Len(list) + 1
  <2>7. /\ k \in 1 .. Len(d) /\ k \notin 1 .. Len(list)
        /\ \A i \in 1 .. Len(d) : i # k => i \in 1 .. Len(list)
        /\ \A i \in 1 .. Len(list) : i # k => i \in 1 .. Len(d)
    BY <1>3, <2>6
  <2>8. ASSUME NEW i \in 1 .. Len(list), IdOf(list[i].package) = id
        PROVE  ~list[i].enabled /\ list[i].package # Managed(id)
    BY <1>5, <1>6, <1>7, <1>10, <2>8
  <2>9. d[k].enabled /\ d[k].package = Managed(id)
    BY <2>1, <2>6
  <2> HIDE DEF k
  <2>71. \A i \in 1 .. Len(d) : i # k => i \in 1 .. Len(list) /\ d[i] = list[i]
    BY <2>6, <2>7
  <2>72. k \in 1 .. Len(list) => IdOf(list[k].package) = id
    BY <2>7
  <2>73. \A i \in 1 .. Len(list) : i # k /\ IdOf(list[i].package) = id =>
           ~list[i].enabled /\ list[i].package # Managed(id)
    BY <2>8
  <2>74. k \in 1 .. Len(d) /\ d \in Seq(Ref) /\ list \in Seq(Ref) /\ Good(list)
    BY <1>3, <2>6, <2>7
  <2>10. /\ Good(d) /\ LastOf(d, id) = Managed(id)
         /\ \A x \in Ids : x # id => LastOf(d, x) = LastOf(list, x)
    BY <2>7, <2>71, <2>72, <2>73, <2>74, <2>9, OneMore
  <2> QED  BY <1>2, <1>4, <2>5, <2>6, <2>10
<1> QED  BY <1>9, <1>10

\* A removal leaves the list without its scenario.
LEMMA DetachList ==
  ASSUME TypeInv, ListInv, ~failed, NEW id \in Ids, NEW kept,
         kept = Without(Read(event), source[id]),
         arrays' = Append(arrays, [cells |-> kept, cap |-> event.len]),
         event' = [array |-> Len(arrays) + 1, len |-> Len(kept)]
  PROVE  /\ LastOf(Read(event)', id) = None
         /\ \A x \in Ids : x # id => LastOf(Read(event)', x) = LastOf(Read(event), x)
         /\ Read(event)' \in Seq(Ref)
         /\ \A a \in 1 .. Len(arrays') : Good(arrays'[a].cells)
         /\ event' = [array |-> Len(arrays'), len |-> Len(arrays'[Len(arrays')].cells)]
<1>1. HeapInv /\ Len(arrays) \in Nat
  BY HeapTypes DEF TypeInv
<1>2. PICK list : list = Read(event)
  OBVIOUS
<1>3. list \in Seq(Ref) /\ Good(list) /\ Len(list) = event.len /\ source[id] = LastOf(list, id)
  BY <1>2, TopFacts DEF ListInv
<1>4. /\ Read(event)' = kept /\ Len(arrays') = Len(arrays) + 1 /\ arrays'[Len(arrays) + 1].cells = kept
      /\ \A b \in 1 .. Len(arrays) : arrays'[b] = arrays[b]
  BY <1>1, DetachHeap
<1>5. PICK f : Kept(list, source[id], Len(list), kept, f)
  <2>1. \E f : Kept(Read(event), source[id], event.len, kept, f)
    BY <1>1, DetachHeap
  <2> QED  BY <1>2, <1>3, <2>1
<1>6. /\ kept \in Seq(Ref) /\ Good(kept) /\ LastOf(kept, id) = None
      /\ \A x \in Ids : x # id => LastOf(kept, x) = LastOf(list, x)
  BY <1>3, <1>5, OneLess
<1>7. \A a \in 1 .. Len(arrays') : a \in 1 .. Len(arrays) \/ a = Len(arrays) + 1
  BY <1>1, <1>4
<1>8. \A a \in 1 .. Len(arrays') : Good(arrays'[a].cells)
  BY <1>4, <1>6, <1>7 DEF ListInv
<1> QED  BY <1>2, <1>4, <1>6, <1>8
LEMMA ListStep ==
  ASSUME TypeInv, DisabledInv, ListInv, [Next]_vars
  PROVE  ListInv'
<1> SUFFICES ASSUME ~failed'
             PROVE  /\ Good(eventFile')
                    /\ \A a \in 1 .. Len(arrays') : Good(arrays'[a].cells)
                    /\ \A h \in Handlers : Good(job'[h].data) /\ job'[h].pc # "rollback"
                    /\ event' = [array |-> Len(arrays'), len |-> Len(arrays'[Len(arrays')].cells)]
                    /\ \A id \in Ids : source'[id] = LastOf(Read(event)', id)
  BY DEF ListInv
<1>1. HeapInv /\ \A h \in Handlers : job[h] \in Job /\ Shape(job[h])
  BY DEF TypeInv, JobInv
<1>2. source \in [Ids -> Paths \union {None}] /\ eventFile \in Seq(Ref)
  BY DEF TypeInv, PartsInv
<1>3. ~failed =>
        /\ Good(eventFile)
        /\ \A a \in 1 .. Len(arrays) : Good(arrays[a].cells)
        /\ \A h \in Handlers : Good(job[h].data) /\ job[h].pc # "rollback"
        /\ event = [array |-> Len(arrays), len |-> Len(arrays[Len(arrays)].cells)]
        /\ \A id \in Ids : source[id] = LastOf(Read(event), id)
  BY DEF ListInv
<1>4. arrays' = arrays /\ event' = event => Read(event)' = Read(event)
  BY DEF Read
<1>5. Idle.data = <<>> /\ Good(Idle.data) /\ Idle.pc = "idle"
  BY GoodEmpty, IdleFacts
<1>6. CASE Plain
  <2>1. /\ UNCHANGED <<source, event, arrays, eventFile>> /\ ~failed
        /\ \A h \in Handlers : /\ job'[h].data \in {job[h].data, <<>>}
                               /\ job'[h].pc = "rollback" => job[h].pc = "rollback"
    BY <1>6 DEF Plain
  <2>2. Read(event)' = Read(event)
    BY <1>4, <2>1
  <2>3. \A h \in Handlers : Good(job'[h].data) /\ job'[h].pc # "rollback"
    BY <1>3, <2>1, GoodEmpty
  <2> QED  BY <1>3, <2>1, <2>2, <2>3
<1>7. ASSUME NEW h \in Handlers, Install(h)
      PROVE  /\ Good(eventFile')
             /\ \A a \in 1 .. Len(arrays') : Good(arrays'[a].cells)
             /\ \A g \in Handlers : Good(job'[g].data) /\ job'[g].pc # "rollback"
             /\ event' = [array |-> Len(arrays'), len |-> Len(arrays'[Len(arrays')].cells)]
             /\ \A id \in Ids : source'[id] = LastOf(Read(event)', id)
  <2>1. PICK id : id = job[h].id
    OBVIOUS
  <2>2. /\ job[h].pc = "install" /\ Persist(h) /\ eventFile' = eventFile /\ ~failed
        /\ source' = [source EXCEPT ![id] = Managed(id)]
    BY <1>7, <2>1 DEF Install, At, disk
  <2>3. id \in Ids
    BY <1>1, <2>1, <2>2 DEF Shape
  <2>4. /\ LastOf(Read(event)', id) = Managed(id)
        /\ \A x \in Ids : x # id => LastOf(Read(event)', x) = LastOf(Read(event), x)
        /\ \A a \in 1 .. Len(arrays') : Good(arrays'[a].cells)
        /\ event' = [array |-> Len(arrays'), len |-> Len(arrays'[Len(arrays')].cells)]
    BY <1>7, <2>1, <2>2, <2>3, InstallList
  <2>5. \A g \in Handlers : Good(job'[g].data) /\ job'[g].pc # "rollback"
    BY <1>3, <2>2, PersistFields
  <2>6. \A x \in Ids : source'[x] = LastOf(Read(event)', x)
    BY <1>2, <1>3, <2>2, <2>3, <2>4
  <2> QED  BY <1>3, <2>2, <2>4, <2>5, <2>6
<1>8. ASSUME NEW h \in Handlers, Detach(h)
      PROVE  /\ Good(eventFile')
             /\ \A a \in 1 .. Len(arrays') : Good(arrays'[a].cells)
             /\ \A g \in Handlers : Good(job'[g].data) /\ job'[g].pc # "rollback"
             /\ event' = [array |-> Len(arrays'), len |-> Len(arrays'[Len(arrays')].cells)]
             /\ \A id \in Ids : source'[id] = LastOf(Read(event)', id)
  <2>1. PICK id, kept : id = job[h].id /\ kept = Without(Read(event), source[id])
    OBVIOUS
  <2>2. /\ job[h].pc = "detach" /\ eventFile' = eventFile /\ ~failed
    BY <1>8 DEF Detach, At, disk
  <2>3. id \in Ids
    BY <1>1, <2>1, <2>2 DEF Shape
  <2>4. CASE Done(h) /\ UNCHANGED <<source, event, arrays>>
    <3>1. Read(event)' = Read(event)
      BY <1>4, <2>4
    <3>2. \A g \in Handlers : Good(job'[g].data) /\ job'[g].pc # "rollback"
      BY <1>3, <1>5, <2>2, <2>4, DoneFields
    <3> QED  BY <1>3, <2>2, <2>4, <3>1, <3>2
  <2>5. CASE /\ source' = [source EXCEPT ![id] = None]
             /\ arrays' = Append(arrays, [cells |-> kept, cap |-> event.len])
             /\ event' = [array |-> Len(arrays) + 1, len |-> Len(kept)]
             /\ Persist(h)
    <3>1. /\ LastOf(Read(event)', id) = None
          /\ \A x \in Ids : x # id => LastOf(Read(event)', x) = LastOf(Read(event), x)
          /\ \A a \in 1 .. Len(arrays') : Good(arrays'[a].cells)
          /\ event' = [array |-> Len(arrays'), len |-> Len(arrays'[Len(arrays')].cells)]
      BY <2>1, <2>2, <2>3, <2>5, DetachList
    <3>2. \A g \in Handlers : Good(job'[g].data) /\ job'[g].pc # "rollback"
      BY <1>3, <2>2, <2>5, PersistFields
    <3>3. \A x \in Ids : source'[x] = LastOf(Read(event)', x)
      BY <1>2, <1>3, <2>2, <2>3, <2>5, <3>1
    <3> QED  BY <1>3, <2>2, <3>1, <3>2, <3>3
  <2> QED  BY <1>8, <2>1, <2>4, <2>5 DEF Detach, memory
<1>9. ASSUME NEW h \in Handlers, Marshal(h)
      PROVE  /\ Good(eventFile')
             /\ \A a \in 1 .. Len(arrays') : Good(arrays'[a].cells)
             /\ \A g \in Handlers : Good(job'[g].data) /\ job'[g].pc # "rollback"
             /\ event' = [array |-> Len(arrays'), len |-> Len(arrays'[Len(arrays')].cells)]
             /\ \A id \in Ids : source'[id] = LastOf(Read(event)', id)
  <2>1. UNCHANGED <<source, event, arrays, eventFile, failed>>
    BY <1>9 DEF Marshal, memory, disk
  <2>2. job[h].event \in Slice /\ Within(job[h].event, arrays)
    BY DEF TypeInv, JobInv, Job
  <2>3. Good(Read(job[h].event))
    <3>1. Good(arrays[job[h].event.array].cells)
      BY <1>3, <2>1, <2>2 DEF Within
    <3> QED  BY <1>1, <2>2, <3>1, GoodPrefix
  <2>4. \A g \in Handlers : Good(job'[g].data) /\ job'[g].pc # "rollback"
    BY <1>3, <1>9, <2>1, <2>3, MarshalFields
  <2>5. Read(event)' = Read(event)
    BY <1>4, <2>1
  <2> QED  BY <1>3, <2>1, <2>4, <2>5
<1>10. ASSUME NEW h \in Handlers, Rename(h)
       PROVE /\ Good(eventFile')
             /\ \A a \in 1 .. Len(arrays') : Good(arrays'[a].cells)
             /\ \A g \in Handlers : Good(job'[g].data) /\ job'[g].pc # "rollback"
             /\ event' = [array |-> Len(arrays'), len |-> Len(arrays'[Len(arrays')].cells)]
             /\ \A id \in Ids : source'[id] = LastOf(Read(event)', id)
  <2>1. UNCHANGED <<source, event, arrays, failed>> /\ Done(h) /\ eventFile' = job[h].data
    BY <1>10 DEF Rename, memory
  <2>2. Read(event)' = Read(event)
    BY <1>4, <2>1
  <2>3. \A g \in Handlers : Good(job'[g].data) /\ job'[g].pc # "rollback"
    BY <1>3, <1>5, <2>1, DoneFields
  <2> QED  BY <1>3, <2>1, <2>2, <2>3
<1>11. ASSUME NEW h \in Handlers, Rollback(h)
       PROVE FALSE
  BY <1>3, <1>11 DEF Rollback, At
<1>13. ASSUME NEW h \in Handlers, EventModeFails(h)
       PROVE FALSE
  BY <1>13 DEF EventModeFails
<1>12. CASE Serve
  <2>1. /\ ~up /\ Startable /\ source' = [id \in Ids |-> LastOf(eventFile, id)]
        /\ arrays' = <<[cells |-> eventFile, cap |-> Len(eventFile)]>>
        /\ event' = [array |-> 1, len |-> Len(eventFile)]
        /\ eventFile' = eventFile /\ job' = job /\ OneEach(eventFile)
    BY <1>12 DEF Serve, disk
  <2>2. Good(eventFile)
    BY <2>1 DEF Startable, Loads, Good
  <2>3. arrays'[1].cells = eventFile /\ Len(arrays') = 1 /\ Read(event)' = eventFile
    BY <1>2, <2>1, FileHeap
  <2>4. \A h \in Handlers : job'[h] = Idle
    BY <1>1, <2>1 DEF TypeInv, JobInv, Shape
  <2>5. \A h \in Handlers : Good(job'[h].data) /\ job'[h].pc # "rollback"
    BY <1>5, <2>4
  <2>6. \A a \in 1 .. Len(arrays') : Good(arrays'[a].cells)
    BY <2>2, <2>3
  <2> QED  BY <2>1, <2>2, <2>3, <2>5, <2>6
<1> QED  BY <1>6, <1>7, <1>8, <1>9, <1>10, <1>11, <1>12, <1>13, StepKinds
-----------------------------------------------------------------------------
\* Packages are locked once there is a session

\* A request is let through the window before there is a session, or never; and
\* without a request past the window only a start changes anything of a package.
LEMMA LockedStep ==
  ASSUME TypeInv, [Next]_vars, sessions # {}
  PROVE  /\ Committed' \subseteq Committed
         /\ Committed = {} => UNCHANGED disk /\ (up => UNCHANGED memory)
<1>0. \A h \in Handlers : h \in Committed <=>
        job[h].pc \in {"archive", "install", "detach", "marshal", "rename", "rollback"}
  BY DEF Committed
<1>1. \A h \in Handlers : h \in Committed' <=>
        job'[h].pc \in {"archive", "install", "detach", "marshal", "rename", "rollback"}
  BY DEF Committed
<1>2. Committed' \subseteq Handlers
  BY DEF Committed
<1>3. ASSUME NEW h \in Handlers, Done(h) PROVE Committed' \subseteq Committed
  <2>1. job'[h].pc = "idle" /\ \A g \in Handlers : g # h => job'[g] = job[g]
    BY <1>3, DoneFields, IdleFacts
  <2> QED  BY <1>0, <1>1, <1>2, <2>1
<1>4. ASSUME NEW h \in Handlers, h \in Committed, \A g \in Handlers : g # h => job'[g] = job[g]
      PROVE  Committed' \subseteq Committed /\ Committed # {}
  BY <1>0, <1>1, <1>2, <1>4
<1>5. ASSUME NEW h \in Handlers, NEW id \in Ids,
             \/ CreateScenario(h, id) \/ EditSource(h, id)
             \/ EditFiles(h, id) \/ RemoveScenario(h, id)
      PROVE  Committed' \subseteq Committed /\ UNCHANGED disk /\ UNCHANGED memory
  <2>1. PICK op, content : Begin(h, op, id, content, "window")
    BY <1>5 DEF CreateScenario, EditSource, EditFiles, RemoveScenario
  <2>2. job'[h].pc = "window" /\ \A g \in Handlers : g # h => job'[g] = job[g]
    BY <2>1, BeginFields
  <2> QED  BY <1>0, <1>1, <1>2, <2>1, <2>2 DEF Begin
<1>6. ASSUME NEW h \in Handlers, Window(h)
      PROVE  Committed' \subseteq Committed /\ UNCHANGED disk /\ UNCHANGED memory
  <2>1. Done(h) /\ UNCHANGED disk /\ UNCHANGED memory
    BY <1>6 DEF Window
  <2> QED  BY <1>3, <2>1
<1>7. ASSUME NEW h \in Handlers, Exists(h)
      PROVE  Committed' \subseteq Committed /\ UNCHANGED disk /\ UNCHANGED memory
  <2>1. (Done(h) \/ Goto(h, "window2")) /\ UNCHANGED disk /\ UNCHANGED memory
    BY <1>7 DEF Exists
  <2>2. CASE Goto(h, "window2")
    <3>1. job'[h].pc = "window2" /\ \A g \in Handlers : g # h => job'[g] = job[g]
      BY <2>2, GotoFields
    <3> QED  BY <1>0, <1>1, <1>2, <2>1, <3>1
  <2> QED  BY <1>3, <2>1, <2>2
<1>8. ASSUME NEW h \in Handlers,
             \/ WriteArchive(h) \/ Install(h) \/ Detach(h) \/ Marshal(h)
             \/ Rename(h) \/ WriteFails(h) \/ Rollback(h)
             \/ ArchiveModeFails(h) \/ EventModeFails(h)
      PROVE  Committed' \subseteq Committed /\ Committed # {}
  <2>1. h \in Committed
    BY <1>0, <1>8 DEF WriteArchive, Install, Detach, Marshal, Rename, WriteFails, Rollback,
                      ArchiveModeFails, EventModeFails, At
  <2>2. \A g \in Handlers : g # h => job'[g] = job[g]
    <3>1. (\E pc : Goto(h, pc)) \/ Done(h) \/ Persist(h) \/ Marshal(h)
      BY <1>8 DEF WriteArchive, Install, Detach, Rename, WriteFails, Rollback,
                  ArchiveModeFails, EventModeFails
    <3> QED  BY <3>1, GotoFields, DoneFields, PersistFields, MarshalFields
  <2> QED  BY <1>4, <2>1, <2>2
<1>9. ASSUME NEW id \in Ids, CreateSession(id)
      PROVE  Committed' \subseteq Committed /\ UNCHANGED disk /\ UNCHANGED memory
  BY <1>9 DEF CreateSession, Committed
<1>10. CASE Crash
  <2>1. UNCHANGED disk /\ UNCHANGED memory /\ job' = [h \in Handlers |-> Idle]
    BY <1>10 DEF Crash
  <2>2. \A h \in Handlers : job'[h].pc = "idle"
    BY <2>1, IdleFacts
  <2> QED  BY <1>1, <1>2, <2>1, <2>2
<1>11. CASE Serve
  BY <1>11 DEF Serve, Committed
<1>12. CASE UNCHANGED vars
  BY <1>12 DEF vars, Committed
<1> QED  BY <1>5, <1>6, <1>7, <1>8, <1>9, <1>10, <1>11, <1>12 DEF Next
-----------------------------------------------------------------------------
\* Memory and files

\* While no write fails, the source of a package is a path of its own.
LEMMA SourceOwn ==
  ASSUME TypeInv, ListInv, ~failed, NEW id \in Ids, source[id] # None
  PROVE  IdOf(source[id]) = id /\ source[id] \in Paths
<1>1. Read(event) \in Seq(Ref) /\ source[id] = LastOf(Read(event), id)
  BY TopFacts DEF ListInv
<1>2. Serves(Read(event), id, source[id])
  BY <1>1, LastOfServes
<1> QED  BY <1>1, <1>2, LastOfServes DEF Serves

LEMMA SyncStep ==
  ASSUME TypeInv, ListInv, SyncInv, [Next]_vars
  PROVE  SyncInv'
<1> SUFFICES ASSUME up', ~overlap', ~failed'
             PROVE  SyncInv'
  BY DEF SyncInv
<1>0. /\ HeapInv /\ \A h \in Handlers : job[h] \in Job /\ Shape(job[h])
      /\ packages \in [Ids -> Content \union {None}] /\ source \in [Ids -> Paths \union {None}]
      /\ archives \in [Paths -> Content \union {None}] /\ eventFile \in Seq(Ref)
  BY DEF TypeInv, JobInv, PartsInv
<1>1. up /\ ~overlap /\ ~failed =>
        /\ \A g, h \in Handlers : job[g].pc # "idle" /\ job[h].pc # "idle" => g = h
        /\ (\A h \in Handlers : job[h].pc \notin {"marshal", "rename"})
             => eventFile = Read(event)
        /\ \A h \in Handlers :
             /\ job[h].pc \in {"marshal", "rename"} => job[h].event = event
             /\ job[h].pc = "rename" => job[h].data = Read(event)
             /\ job[h].pc = "install" => archives[Managed(job[h].id)] = job[h].content
        /\ \A id \in Ids : \/ packages[id] = Stored(id)
                           \/ \E h \in Handlers : job[h].pc = "install" /\ job[h].id = id
  BY DEF SyncInv, Busy, Writing
<1>2. arrays' = arrays /\ event' = event => Read(event)' = Read(event)
  BY DEF Read
<1>3. UNCHANGED <<source, archives>> => \A id \in Ids : Stored(id)' = Stored(id)
  BY DEF Stored
\* One request is under way, and memory and files agree before it is past them.
<1>4. ASSUME NEW h \in Handlers, up, ~overlap, ~failed, job[h].pc # "idle"
      PROVE  /\ \A g \in Handlers : g # h => job[g].pc = "idle"
             /\ job[h].pc \notin {"marshal", "rename"} => eventFile = Read(event)
             /\ \A id \in Ids : \/ packages[id] = Stored(id)
                                \/ job[h].pc = "install" /\ job[h].id = id
  BY <1>1, <1>4
<1>5. ASSUME NEW h \in Handlers, up, ~overlap, ~failed, job[h].pc # "idle",
             job[h].pc \notin {"install", "marshal", "rename"},
             UNCHANGED <<packages, source, event, arrays, archives, eventFile>>,
             \A g \in Handlers : g # h => job'[g] = job[g],
             job'[h].pc \notin {"install", "marshal", "rename"}
      PROVE  SyncInv'
  <2>1. /\ \A g \in Handlers : g # h => job'[g].pc = "idle"
        /\ eventFile' = Read(event)'
        /\ \A id \in Ids : packages'[id] = Stored(id)'
    BY <1>2, <1>3, <1>4, <1>5
  <2> QED  BY <1>5, <2>1 DEF SyncInv, Busy, Writing
<1>6. ASSUME NEW h \in Handlers, NEW id \in Ids,
             \/ CreateScenario(h, id) \/ EditSource(h, id)
             \/ EditFiles(h, id) \/ RemoveScenario(h, id)
      PROVE  SyncInv'
  <2>1. PICK op, content : Begin(h, op, id, content, "window")
    BY <1>6 DEF CreateScenario, EditSource, EditFiles, RemoveScenario
  <2>2. /\ up /\ ~overlap /\ ~failed /\ Busy = {}
        /\ UNCHANGED <<packages, source, event, arrays, archives, eventFile>>
    BY <2>1 DEF Begin, At, memory, disk
  <2>3. job'[h].pc = "window" /\ \A g \in Handlers : g # h => job'[g] = job[g]
    BY <2>1, BeginFields
  <2>4. \A g \in Handlers : job[g].pc = "idle"
    BY <2>2 DEF Busy
  <2>5. /\ eventFile' = Read(event)'
        /\ \A x \in Ids : packages'[x] = Stored(x)'
    BY <1>1, <1>2, <1>3, <2>2, <2>4
  <2> QED  BY <2>3, <2>4, <2>5 DEF SyncInv, Busy, Writing
<1>7. ASSUME NEW h \in Handlers, Window(h) PROVE SyncInv'
  <2>1. /\ up /\ ~overlap /\ ~failed /\ job[h].pc \in {"window", "window2"}
        /\ UNCHANGED <<packages, source, event, arrays, archives, eventFile>>
    BY <1>7 DEF Window, At, memory, disk
  <2>2. CASE Done(h)
    BY <1>5, <2>1, <2>2, DoneFields, IdleFacts
  <2>3. CASE Goto(h, AfterWindow(h))
    <3>1. AfterWindow(h) \in {"archive", "exists", "window2", "detach"}
      <4>1. job[h].op \in {"create", "edit", "remove"} \/ job[h].pc = "window2"
        BY <1>0, <2>1 DEF Shape, Job
      <4> QED  BY <2>1, <4>1 DEF AfterWindow
    <3>2. job'[h].pc = AfterWindow(h) /\ \A g \in Handlers : g # h => job'[g] = job[g]
      BY <2>3, GotoFields
    <3> QED  BY <1>5, <2>1, <3>1, <3>2
  <2> QED  BY <1>7, <2>2, <2>3 DEF Window
<1>8. ASSUME NEW h \in Handlers, Exists(h) PROVE SyncInv'
  <2>1. /\ up /\ ~overlap /\ ~failed /\ job[h].pc = "exists"
        /\ UNCHANGED <<packages, source, event, arrays, archives, eventFile>>
    BY <1>8 DEF Exists, At, memory, disk
  <2>2. CASE Done(h)
    BY <1>5, <2>1, <2>2, DoneFields, IdleFacts
  <2>3. CASE Goto(h, "window2")
    BY <1>5, <2>1, <2>3, GotoFields
  <2> QED  BY <1>8, <2>2, <2>3 DEF Exists
<1>9. ASSUME NEW h \in Handlers, WriteArchive(h) PROVE SyncInv'
  <2>1. PICK id : id = job[h].id
    OBVIOUS
  <2>2. /\ up /\ ~overlap /\ ~failed /\ job[h].pc = "archive" /\ Goto(h, "install")
        /\ archives' = [archives EXCEPT ![Managed(id)] = job[h].content]
        /\ UNCHANGED <<packages, source, event, arrays, eventFile>>
    BY <1>9, <2>1 DEF WriteArchive, At, memory
  <2>3. id \in Ids
    BY <1>0, <2>1, <2>2 DEF Shape
  <2>4. /\ \A g \in Handlers : g # h => job'[g] = job[g]
        /\ job'[h].pc = "install" /\ job'[h].id = id /\ job'[h].content = job[h].content
    BY <2>1, <2>2, GotoFields
  <2>5. archives'[Managed(id)] = job[h].content
    BY <1>0, <2>2, <2>3, PathFacts
  <2>6. ASSUME NEW x \in Ids, x # id PROVE packages'[x] = Stored(x)'
    <3>1. packages[x] = Stored(x)
      BY <1>4, <2>2
    <3>2. source[x] # Managed(id)
      <4>1. source[x] # None => IdOf(source[x]) = x
        BY <2>2, SourceOwn
      <4> QED  BY <2>3, <2>6, <4>1, PathFacts, Constants
    <3> QED  BY <1>0, <2>2, <3>1, <3>2 DEF Stored
  <2>7. \A g \in Handlers : g # h => job'[g].pc = "idle"
    BY <1>4, <2>2, <2>4
  <2>8. eventFile' = Read(event)'
    BY <1>2, <1>4, <2>2
  <2> QED  BY <2>4, <2>5, <2>6, <2>7, <2>8 DEF SyncInv, Busy, Writing
<1>10. ASSUME NEW h \in Handlers, Install(h) PROVE SyncInv'
  <2>1. PICK id : id = job[h].id
    OBVIOUS
  <2>2. /\ up /\ ~overlap /\ ~failed /\ job[h].pc = "install" /\ Persist(h)
        /\ packages' = [packages EXCEPT ![id] = job[h].content]
        /\ source' = [source EXCEPT ![id] = Managed(id)]
        /\ archives' = archives
    BY <1>10, <2>1 DEF Install, At, disk
  <2>3. id \in Ids
    BY <1>0, <2>1, <2>2 DEF Shape
  <2>4. /\ \A g \in Handlers : g # h => job'[g] = job[g]
        /\ job'[h].pc = "marshal" /\ job'[h].event = event'
    BY <2>2, PersistFields
  <2>5. archives[Managed(id)] = job[h].content
    BY <1>1, <2>1, <2>2
  <2>6. \A x \in Ids : packages'[x] = Stored(x)'
    <3>1. packages'[id] = Stored(id)'
      BY <1>0, <2>2, <2>3, <2>5, PathFacts, Constants DEF Stored
    <3>2. ASSUME NEW x \in Ids, x # id PROVE packages'[x] = Stored(x)'
      <4>1. packages[x] = Stored(x)
        BY <1>4, <2>1, <2>2, <3>2
      <4> QED  BY <1>0, <2>2, <3>2, <4>1 DEF Stored
    <3> QED  BY <3>1, <3>2
  <2>7. \A g \in Handlers : g # h => job'[g].pc = "idle"
    BY <1>4, <2>2, <2>4
  <2> QED  BY <2>4, <2>6, <2>7 DEF SyncInv, Busy, Writing
<1>11. ASSUME NEW h \in Handlers, Detach(h) PROVE SyncInv'
  <2>1. PICK id : id = job[h].id
    OBVIOUS
  <2>2. /\ up /\ ~overlap /\ ~failed /\ job[h].pc = "detach" /\ UNCHANGED <<archives, eventFile>>
    BY <1>11 DEF Detach, At, disk
  <2>3. id \in Ids
    BY <1>0, <2>1, <2>2 DEF Shape
  <2>4. CASE Done(h) /\ UNCHANGED <<packages, source, event, arrays>>
    BY <1>5, <2>2, <2>4, DoneFields, IdleFacts
  <2>5. CASE /\ packages' = [packages EXCEPT ![id] = None]
             /\ source' = [source EXCEPT ![id] = None]
             /\ Persist(h)
    <3>1. /\ \A g \in Handlers : g # h => job'[g] = job[g]
          /\ job'[h].pc = "marshal" /\ job'[h].event = event'
      BY <2>5, PersistFields
    <3>2. \A x \in Ids : packages'[x] = Stored(x)'
      <4>1. \A x \in Ids : packages[x] = Stored(x)
        BY <1>4, <2>2
      <4> QED  BY <1>0, <2>2, <2>3, <2>5, <4>1 DEF Stored
    <3>3. \A g \in Handlers : g # h => job'[g].pc = "idle"
      BY <1>4, <2>2, <3>1
    <3> QED  BY <3>1, <3>2, <3>3 DEF SyncInv, Busy, Writing
  <2> QED  BY <1>11, <2>1, <2>4, <2>5 DEF Detach, memory
<1>12. ASSUME NEW h \in Handlers, Marshal(h) PROVE SyncInv'
  <2>1. /\ up /\ ~overlap /\ ~failed /\ job[h].pc = "marshal"
        /\ UNCHANGED <<packages, source, event, arrays, archives, eventFile>>
    BY <1>12 DEF Marshal, At, memory, disk
  <2>2. /\ \A g \in Handlers : g # h => job'[g] = job[g]
        /\ job'[h].pc = "rename" /\ job'[h].event = job[h].event
        /\ job'[h].data = Read(job[h].event)
    BY <1>12, MarshalFields
  <2>3. job[h].event = event
    BY <1>1, <2>1
  <2>4. job'[h].event = event' /\ job'[h].data = Read(event)'
    BY <1>2, <2>1, <2>2, <2>3
  <2>5. \A x \in Ids : packages'[x] = Stored(x)'
    BY <1>3, <1>4, <2>1
  <2>6. \A g \in Handlers : g # h => job'[g].pc = "idle"
    BY <1>4, <2>1, <2>2
  <2> QED  BY <2>2, <2>4, <2>5, <2>6 DEF SyncInv, Busy, Writing
<1>13. ASSUME NEW h \in Handlers, Rename(h) PROVE SyncInv'
  <2>1. /\ up /\ ~overlap /\ ~failed /\ job[h].pc = "rename" /\ Done(h) /\ eventFile' = job[h].data
        /\ UNCHANGED <<packages, source, event, arrays, archives>>
    BY <1>13 DEF Rename, At, memory
  <2>2. job'[h].pc = "idle" /\ \A g \in Handlers : g # h => job'[g] = job[g]
    BY <2>1, DoneFields, IdleFacts
  <2>3. eventFile' = Read(event)'
    BY <1>1, <1>2, <2>1
  <2>4. \A x \in Ids : packages'[x] = Stored(x)'
    BY <1>3, <1>4, <2>1
  <2>5. \A g \in Handlers : g # h => job'[g].pc = "idle"
    BY <1>4, <2>1, <2>2
  <2> QED  BY <2>2, <2>3, <2>4, <2>5 DEF SyncInv, Busy, Writing
<1>14. ASSUME NEW h \in Handlers,
              WriteFails(h) \/ ArchiveModeFails(h) \/ EventModeFails(h) \/ Rollback(h)
       PROVE  SyncInv'
  BY <1>14 DEF WriteFails, ArchiveModeFails, EventModeFails, Rollback, At, ListInv
<1>15. ASSUME NEW id \in Ids, CreateSession(id) PROVE SyncInv'
  <2>1. UNCHANGED <<up, packages, source, event, arrays, archives, eventFile, job, overlap, failed>>
    BY <1>15 DEF CreateSession, memory, disk
  <2> QED  BY <2>1 DEF SyncInv, Busy, Writing, Read, Stored
<1>16. CASE Crash
  BY <1>16 DEF Crash
<1>17. CASE Serve
  <2>1. /\ ~up /\ packages' = Loaded(eventFile)
        /\ source' = [id \in Ids |-> LastOf(eventFile, id)]
        /\ arrays' = <<[cells |-> eventFile, cap |-> Len(eventFile)]>>
        /\ event' = [array |-> 1, len |-> Len(eventFile)]
        /\ UNCHANGED <<archives, eventFile, job>>
    BY <1>17 DEF Serve, disk
  <2>2. Read(event)' = eventFile
    BY <1>0, <2>1, FileHeap
  <2>3. \A h \in Handlers : job'[h].pc = "idle"
    BY <2>1 DEF TypeInv, JobInv
  <2>4. \A x \in Ids : packages'[x] = Stored(x)'
    BY <1>0, <2>1, LoadedFacts DEF Stored
  <2> QED  BY <2>1, <2>2, <2>3, <2>4 DEF SyncInv, Busy, Writing
<1>18. CASE UNCHANGED vars
  <2>1. UNCHANGED <<up, packages, source, event, arrays, archives, eventFile, job, overlap, failed>>
    BY <1>18 DEF vars, memory, disk
  <2> QED  BY <2>1 DEF SyncInv, Busy, Writing, Read, Stored
<1> QED  BY <1>6, <1>7, <1>8, <1>9, <1>10, <1>11, <1>12, <1>13, <1>14, <1>15, <1>16, <1>17,
            <1>18 DEF Next
-----------------------------------------------------------------------------
\* Sessions

\* Memory and files agree in a calm moment.
LEMMA CalmFacts ==
  ASSUME TypeInv, ListInv, SyncInv, up, ~overlap, ~failed, Busy = {}
  PROVE  packages = Loaded(eventFile)
<1>1. \A h \in Handlers : job[h].pc = "idle"
  BY DEF Busy
<1>2. eventFile = Read(event) /\ \A id \in Ids : packages[id] = Stored(id)
  BY <1>1 DEF SyncInv, Writing
<1>3. \A id \in Ids : source[id] = LastOf(eventFile, id)
  BY <1>2 DEF ListInv
<1>4. /\ packages \in [Ids -> Content \union {None}] /\ eventFile \in Seq(Ref)
      /\ archives \in [Paths -> Content \union {None}]
  BY DEF TypeInv, PartsInv
<1>5. /\ Loaded(eventFile) \in [Ids -> Content \union {None}]
      /\ \A x \in Ids : Loaded(eventFile)[x] = IF LastOf(eventFile, x) = None THEN None
                                               ELSE archives[LastOf(eventFile, x)]
  BY <1>4, LoadedFacts
<1>6. \A x \in Ids : packages[x] = Loaded(eventFile)[x]
  BY <1>2, <1>3, <1>5 DEF Stored
<1> QED  BY <1>4, <1>5, <1>6

LEMMA SessionStep ==
  ASSUME TypeInv, ListInv, SyncInv, SessionInv, [Next]_vars
  PROVE  SessionInv'
<1>1. sessions \subseteq Session
  BY DEF TypeInv, PartsInv
<1>2. UNCHANGED <<archives, eventFile>> => Loaded(eventFile)' = Loaded(eventFile)
  BY DEF Loaded
<1>3. (\E s \in sessions : s.calm) => Committed' = {} /\ UNCHANGED <<archives, eventFile>>
  <2>1. (\E s \in sessions : s.calm) => sessions # {} /\ Committed = {}
    BY DEF SessionInv
  <2> QED  BY <2>1, LockedStep DEF disk
\* A session of before is as well off as it was.
<1>4. ASSUME NEW s \in sessions, s.calm
      PROVE  /\ s.runs = s.made /\ Loaded(eventFile)'[s.scenario] = s.made
             /\ Committed' = {} /\ ValidEvent(eventFile')
  BY <1>2, <1>3, <1>4 DEF SessionInv
<1>5. ASSUME sessions' = sessions PROVE SessionInv'
  BY <1>4, <1>5 DEF SessionInv
<1>6. ASSUME NEW id \in Ids, CreateSession(id) PROVE SessionInv'
  <2>1. PICK calm : calm = (Busy = {} /\ ~overlap /\ ~failed)
    OBVIOUS
  <2>2. PICK new : new = [scenario |-> id, made |-> packages[id], runs |-> packages[id], calm |-> calm]
    OBVIOUS
  <2>3. sessions' = sessions \union {new} /\ up /\ UNCHANGED <<archives, eventFile, job>>
    BY <1>6, <2>1, <2>2 DEF CreateSession, disk
  <2>4. ASSUME new.calm
        PROVE  /\ new.runs = new.made /\ Loaded(eventFile)'[new.scenario] = new.made
               /\ Committed' = {} /\ ValidEvent(eventFile')
    <3>1. Busy = {} /\ ~overlap /\ ~failed
      BY <2>1, <2>2, <2>4
    <3>2. packages = Loaded(eventFile)
      BY <2>3, <3>1, CalmFacts
    <3>3. Committed' = {}
      BY <2>3, <3>1 DEF Busy, Committed
    <3>4. ValidEvent(eventFile')
      BY <2>3, <3>1 DEF ListInv, Good
    <3>5. new.runs = packages[id] /\ new.made = packages[id] /\ new.scenario = id
      BY <2>2
    <3> QED  BY <1>2, <2>3, <3>2, <3>3, <3>4, <3>5
  <2> QED  BY <1>4, <2>3, <2>4 DEF SessionInv
<1>7. CASE Serve
  <2>1. /\ packages' = Loaded(eventFile) /\ UNCHANGED <<archives, eventFile>>
        /\ sessions' = {[s EXCEPT !.runs = packages'[s.scenario]] : s \in sessions}
    BY <1>7 DEF Serve, disk
  <2>2. ASSUME NEW s \in sessions, [s EXCEPT !.runs = packages'[s.scenario]].calm
        PROVE  LET t == [s EXCEPT !.runs = packages'[s.scenario]]
               IN  /\ t.runs = t.made /\ Loaded(eventFile)'[t.scenario] = t.made
                   /\ Committed' = {} /\ ValidEvent(eventFile')
    <3>1. PICK t : t = [s EXCEPT !.runs = packages'[s.scenario]]
      OBVIOUS
    <3>2. /\ t.calm = s.calm /\ t.made = s.made /\ t.scenario = s.scenario
          /\ t.runs = packages'[s.scenario]
      BY <1>1, <3>1 DEF Session
    <3>3. s.calm
      BY <2>2, <3>1, <3>2
    <3>4. Loaded(eventFile)[s.scenario] = s.made
      BY <3>3 DEF SessionInv
    <3>5. t.runs = t.made /\ Loaded(eventFile)'[t.scenario] = t.made
      BY <1>4, <2>1, <3>2, <3>3, <3>4
    <3> QED  BY <1>4, <3>1, <3>3, <3>5
  <2> QED  BY <2>1, <2>2 DEF SessionInv
<1>8. ASSUME ~Serve, ~\E id \in Ids : CreateSession(id) PROVE sessions' = sessions
  <2>1. CASE \E h \in Handlers, id \in Ids : \/ CreateScenario(h, id) \/ EditSource(h, id)
                                             \/ EditFiles(h, id) \/ RemoveScenario(h, id)
    BY <2>1 DEF CreateScenario, EditSource, EditFiles, RemoveScenario, Begin
  <2>2. CASE \E h \in Handlers : \/ Window(h) \/ Exists(h) \/ WriteArchive(h) \/ Install(h) \/ Detach(h)
                                 \/ Marshal(h) \/ Rename(h) \/ WriteFails(h) \/ Rollback(h)
                                 \/ ArchiveModeFails(h) \/ EventModeFails(h)
    BY <2>2 DEF Window, Exists, WriteArchive, Install, Detach, Marshal, Rename, WriteFails, Rollback,
                ArchiveModeFails, EventModeFails
  <2>3. CASE Crash \/ UNCHANGED vars
    BY <2>3 DEF Crash, vars
  <2> QED  BY <1>8, <2>1, <2>2, <2>3 DEF Next
<1> QED  BY <1>5, <1>6, <1>7, <1>8

-----------------------------------------------------------------------------
\* The theorems

LEMMA WorkshopStart == Init => WorkshopInv
<1> SUFFICES ASSUME Init PROVE WorkshopInv
  OBVIOUS
<1>1. /\ ArchiveInv /\ DisabledInv /\ ListInv
      /\ eventFile = Read(event) /\ sessions = {}
      /\ \A id \in Ids : packages[id] = Loaded(Read(event))[id]
      /\ \A h \in Handlers : job[h] = Idle
  BY InvStart
<1>2. TypeInv
  BY TypeStart
<1>3. \A h \in Handlers : job[h].pc = "idle"
  BY <1>1, IdleFacts
<1>4. eventFile \in Seq(Ref) /\ archives \in [Paths -> Content \union {None}]
  BY <1>2 DEF TypeInv, PartsInv
<1>5. \A id \in Ids : source[id] = LastOf(eventFile, id)
  <2>1. ~failed
    BY Zenon DEF Init
  <2> QED  BY <1>1, <2>1 DEF ListInv
<1>6. \A id \in Ids : packages[id] = Stored(id)
  BY <1>1, <1>4, <1>5, LoadedFacts DEF Stored
<1>7. SyncInv
  BY <1>1, <1>3, <1>6 DEF SyncInv, Busy, Writing
<1>8. SessionInv
  BY <1>1 DEF SessionInv
<1> QED  BY <1>1, <1>2, <1>7, <1>8 DEF WorkshopInv

LEMMA WorkshopStep == WorkshopInv /\ [Next]_vars => WorkshopInv'
  BY TypeStep, ArchiveStep, DisabledStep, ListStep, SyncStep, SessionStep DEF WorkshopInv

LEMMA WorkshopAlways == Spec => []WorkshopInv
<1>1. Init => WorkshopInv
  BY WorkshopStart
<1>2. WorkshopInv /\ [Next]_vars => WorkshopInv'
  BY WorkshopStep
<1> QED  BY <1>1, <1>2, PTL DEF Spec

\* Every variable keeps its type, and every slice lies in its array, whatever
\* the two requests, the failed writes and the crashes do to the heap.
THEOREM TypesKept == Spec => []TypeOK
<1>1. WorkshopInv => TypeOK
  <2> SUFFICES ASSUME TypeInv PROVE TypeOK
    BY DEF WorkshopInv
  <2>1. HeapInv /\ JobInv /\ PartsInv
    BY DEF TypeInv
  <2>2. /\ Len(arrays) \in Nat /\ DOMAIN arrays = 1 .. Len(arrays)
        /\ event.array \in 1 .. Len(arrays)
        /\ event.len \in 0 .. Len(arrays[event.array].cells)
        /\ \A a \in 1 .. Len(arrays) : arrays[a].cells \in Seq(Ref)
        /\ \A a \in 1 .. Len(arrays) : Len(arrays[a].cells) <= arrays[a].cap
    <3>1. arrays \in Seq([cells : Seq(Ref), cap : Nat])
      BY <2>1 DEF HeapInv
    <3>2. DOMAIN arrays = 1 .. Len(arrays)
      BY <3>1
    <3> QED  BY <2>1, <3>2, HeapTypes DEF HeapInv, Within
  <2>3. \A h \in Handlers : /\ job[h].pc \in Labels /\ job[h].id \in Ids \union {None}
                            /\ job[h].content \in Content \union {None}
                            /\ job[h].data \in Seq(Ref)
    BY <2>1 DEF JobInv, Job
  <2>4. \A s \in sessions : /\ s.scenario \in Ids /\ s.made \in Content /\ s.runs \in Content
                            /\ s.calm \in BOOLEAN
    BY <2>1 DEF PartsInv, Session
  <2> QED  BY <2>1, <2>2, <2>3, <2>4 DEF TypeOK, PartsInv
<1> QED  BY <1>1, WorkshopAlways, PTL

\* Whenever the server is quiet a restart would serve exactly what it serves:
\* saveManagedScenario and removeScenario leave memory, archives and event file
\* in agreement, for any number of scenarios, requests and crashes.
THEOREM RestartAlwaysServesSame == Spec => []RestartServesSame
<1>1. WorkshopInv => RestartServesSame
  BY CalmFacts DEF WorkshopInv, RestartServesSame, Quiet
<1> QED  BY <1>1, WorkshopAlways, PTL

\* Every package the event file names is on disk, whatever races, fails or
\* crashes; and without a failed write LoadEvent accepts the file.
THEOREM EventFileAlwaysServes == Spec => []EventFileServes
<1>1. WorkshopInv => EventFileServes
  <2> SUFFICES ASSUME TypeInv, ArchiveInv, ListInv PROVE EventFileServes
    BY DEF WorkshopInv
  <2>1. eventFile \in Seq(Ref)
    BY DEF TypeInv, PartsInv
  <2>2. DOMAIN eventFile = 1 .. Len(eventFile)
    BY <2>1, ListFacts
  <2>3. \A i \in DOMAIN eventFile : archives[eventFile[i].package] # None
    BY <2>2, RefsAre DEF ArchiveInv
  <2> QED  BY <2>3 DEF EventFileServes, ListInv, Good
<1> QED  BY <1>1, WorkshopAlways, PTL

\* A session started in a calm moment has its package for as long as it lives,
\* over any number of restarts, and never keeps the server from starting.
THEOREM CalmSessionAlwaysRecovers == Spec => []CalmSessionRecovers
<1>1. WorkshopInv => CalmSessionRecovers
  <2> SUFFICES ASSUME TypeInv, ArchiveInv, SessionInv PROVE CalmSessionRecovers
    BY DEF WorkshopInv
  <2>1. \A s \in sessions : s.calm => s.runs = s.made
    BY DEF SessionInv
  <2>2. ASSUME sessions # {}, \A s \in sessions : s.calm PROVE Startable
    <3>1. /\ eventFile \in Seq(Ref) /\ archives \in [Paths -> Content \union {None}]
          /\ sessions \subseteq Session
      BY DEF TypeInv, PartsInv
    <3>2. ASSUME NEW s \in sessions
          PROVE  s.scenario \in Ids /\ Loaded(eventFile)[s.scenario] # None
      <4>1. s \in Session /\ s.scenario \in Ids /\ s.made \in Content
        BY <3>1 DEF Session
      <4>2. Loaded(eventFile)[s.scenario] = s.made
        BY <2>2 DEF SessionInv
      <4> QED  BY <4>1, <4>2, Constants
    <3>3. PICK s \in sessions : TRUE
      BY <2>2
    <3>4. LastOf(eventFile, s.scenario) # None
      BY <3>1, <3>2, LoadedFacts
    <3>5. PICK i \in 1 .. Len(eventFile) : eventFile[i].enabled
      BY <3>1, <3>4, LastOfServes DEF Serves
    <3>6. DOMAIN eventFile = 1 .. Len(eventFile)
      BY <3>1, ListFacts
    <3>7. Enabled(eventFile) # {}
      BY <3>5, <3>6 DEF Enabled
    <3>8. \A j \in Enabled(eventFile) : archives[eventFile[j].package] # None
      BY <3>6, RefsAre DEF Enabled, ArchiveInv
    <3>9. ValidEvent(eventFile)
      BY <2>2, <3>3 DEF SessionInv
    <3> QED  BY <3>2, <3>7, <3>8, <3>9 DEF Startable, Loads
  <2> QED  BY <2>1, <2>2 DEF CalmSessionRecovers
<1> QED  BY <1>1, WorkshopAlways, PTL

\* Once a session exists no request gets past its last window test, and without
\* one already past it nothing of a package changes.
THEOREM AlwaysLockedAfterSessions == Spec => LockedAfterSessions
<1>1. WorkshopInv /\ [Next]_vars =>
        [up /\ up' /\ sessions # {} =>
           /\ Committed' \subseteq Committed
           /\ Committed = {} => UNCHANGED <<memory, disk>>]_vars
  BY LockedStep DEF WorkshopInv
<1> QED  BY <1>1, WorkshopAlways, PTL DEF Spec, LockedAfterSessions
=============================================================================
