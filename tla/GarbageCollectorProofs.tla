----------------------- MODULE GarbageCollectorProofs -----------------------
(***************************************************************************)
(* Theorems about GarbageCollector, for any set of objects and any         *)
(* programs; those that need rules of the programs name them.              *)
(***************************************************************************)
EXTENDS GarbageCollector, DataLemmas

Listed == gray \cup grayagain \cup weak \cup ephemeron \cup allweak

\* What the collector has not given up.
Safe == {o \in All : marked[o] \notin {"free", "otherwhite"}}

\* The lists of gray objects, which count while objects are marked.
ListsMarked == Invariant =>
    /\ \A o \in Listed : marked[o] \in {"gray", "black"}
    /\ \A o \in allweak : kind[o] \in {"allweak", "ephemeron"}

\* The main thread is never black, as it is written without barrier.
MainMarked == /\ marked[Main] \in {"white", "gray"}
              /\ Invariant => marked[Main] = "gray"

\* A userdata is marked together with its metatable, which is a table.
MetatablesAre ==
    \A o \in All : kind[o] = "userdata" => \A v \in Refs(o) : kind[v] \in TableKinds

\* Of any programs.
AnyInv == TypeOK /\ ListsMarked /\ MainMarked /\ MetatablesAre

\* What is not given up refers to nothing that is.
SafeClosed == /\ Main \in Safe /\ Range(tobefnz) \subseteq Safe
              /\ \A o \in Safe : Refs(o) \subseteq Safe

\* What is freed refers to nothing.
FreeEmpty == \A o \in All : marked[o] = "free" => entries[o] = {}

\* Between a sweep and the next atomic step one white is used.
OneWhite == gcstate \in {"pause", "propagate"} => \A o \in All : marked[o] # "otherwhite"

\* After a sweep all objects that were swept are white.
PauseWhite == gcstate = "pause" =>
    \A o \in All : marked[o] \in {"white", "free"} \/ o \in Range(tobefnz)

\* The cursor is in the list that is swept.
CursorIn == /\ gcstate = "sweepudata" => sweepgc \in {"finobj"} \cup Range(finobj)
            /\ gcstate = "sweep"      => sweepgc \in {"allgc"} \cup Range(allgc)

\* The objects that are still to be swept.
Pending == Range(ToSweep) \cup (IF gcstate = "sweepudata" THEN Range(allgc) ELSE {})

\* The others are white.
SweptWhite == gcstate \in {"sweepudata", "sweep"} =>
    \A o \in (Range(finobj) \cup Range(allgc)) \ Pending : marked[o] = "white"

SweepInv == OneWhite /\ PauseWhite /\ CursorIn /\ SweptWhite

\* As long as nothing escapes a sweep.
IntactInv == NoneEscapes =>
    SafeClosed /\ FreeEmpty /\ SweepInv /\ MainInvariant

\* The values of a table with weak keys that is not traversed again.
SettledInv == NoneEscapes /\ "settled" \in rules /\ Invariant =>
    \A o \in allweak : kind[o] = "ephemeron" => \A e \in entries[o] : ~IsWhite(e[2])

GcInv == AnyInv /\ IntactInv /\ SettledInv

-----------------------------------------------------------------------------
(* Lists *)

\* x is somewhere after c in the list s.
Follows(s, c, x) == \E i, j \in DOMAIN s : i < j /\ s[i] = c /\ s[j] = x

\* The part of a list after one of its members.
LEMMA AfterIs ==
  ASSUME NEW T, NEW s \in Seq(T), IsInjective(s), NEW c \in Range(s)
  PROVE  /\ After(s, c) \in Seq(T)
         /\ Range(After(s, c)) = {x \in Range(s) : Follows(s, c, x)}
         /\ After(s, c) # <<>> =>
               /\ Follows(s, c, Head(After(s, c)))
               /\ \A x : Follows(s, c, x) =>
                     x = Head(After(s, c)) \/ Follows(s, Head(After(s, c)), x)
<1> DEFINE n == Len(s)
           a == After(s, c)
<1>1. PICK i \in DOMAIN s : s[i] = c BY DEF Range
<1>2. n \in Nat /\ DOMAIN s = 1..n /\ i \in 1..n /\ \A k \in 1..n : s[k] \in T
  OBVIOUS
<1>3. \A k \in DOMAIN s : s[k] = c <=> k = i BY <1>1 DEF IsInjective
<1>4. (CHOOSE k \in DOMAIN s : s[k] = c) = i BY <1>3
<1>5. a = SubSeq(s, i + 1, n) BY <1>4 DEF After
<1> HIDE DEF a, n
<1>6. /\ a \in Seq(T) /\ Len(a) = n - i /\ DOMAIN a = 1..n - i
      /\ \A k \in 1..n - i : a[k] = s[i + k]
  BY <1>2, <1>5, SubSeqProperties DEF n
<1>7. \A x : Follows(s, c, x) <=> \E j \in 1..n : i < j /\ s[j] = x
  BY <1>2, <1>3 DEF Follows
<1>8. \A x : Follows(s, c, x) <=> \E k \in 1..n - i : a[k] = x
  <2>1. ASSUME NEW j \in 1..n, i < j PROVE j - i \in 1..n - i /\ a[j - i] = s[j]
    <3>1. j - i \in 1..n - i /\ i + (j - i) = j BY <1>2, <2>1
    <3> QED BY <1>6, <3>1
  <2>2. ASSUME NEW k \in 1..n - i PROVE i + k \in 1..n /\ i < i + k BY <1>2
  <2> QED BY <1>6, <1>7, <2>1, <2>2
<1>9. Range(a) = {x \in Range(s) : Follows(s, c, x)}
  BY <1>2, <1>6, <1>7, <1>8 DEF Range
<1>10. ASSUME a # <<>>
       PROVE  /\ Follows(s, c, Head(a))
              /\ \A x : Follows(s, c, x) => x = Head(a) \/ Follows(s, Head(a), x)
  <2>1. Head(a) = a[1] /\ 1 \in 1..n - i /\ a[1] = s[i + 1] /\ i + 1 \in 1..n
    BY <1>2, <1>6, <1>10
  <2>2. ASSUME NEW x, Follows(s, c, x) PROVE x = Head(a) \/ Follows(s, Head(a), x)
    <3>1. PICK j \in 1..n : i < j /\ s[j] = x BY <1>7, <2>2
    <3>2. j = i + 1 \/ i + 1 < j BY <1>2, <3>1
    <3>3. CASE j = i + 1 BY <2>1, <3>1, <3>3
    <3>4. CASE i + 1 < j BY <1>2, <2>1, <3>1, <3>4 DEF Follows
    <3> QED BY <3>2, <3>3, <3>4
  <2> QED BY <1>8, <2>1, <2>2
<1> QED BY <1>6, <1>9, <1>10 DEF a

\* The members after the first one.
LEMMA AfterHead ==
  ASSUME NEW T, NEW s \in Seq(T), s # <<>>
  PROVE  /\ Head(s) \in Range(s)
         /\ \A x \in Range(s) : x = Head(s) \/ Follows(s, Head(s), x)
<1>1. Head(s) = s[1] /\ 1 \in DOMAIN s /\ DOMAIN s = 1..Len(s) /\ Len(s) \in Nat
  OBVIOUS
<1>2. \A j \in 1..Len(s) : j = 1 \/ 1 < j BY <1>1
<1> QED BY <1>1, <1>2 DEF Follows, Range

\* A member is taken out.
LEMMA FollowsWithout ==
  ASSUME NEW T, NEW s \in Seq(T), NEW o, NEW c, NEW x,
         c # o, x # o, Follows(s, c, x)
  PROVE  Follows(Without(s, {o}), c, x)
<1>1. PICK i, j \in DOMAIN s : i < j /\ s[i] = c /\ s[j] = x BY DEF Follows
<1>2. PICK S : S = {o} OBVIOUS
<1>3. PICK w : w = Without(s, S) OBVIOUS
<1>4. \A k, l \in DOMAIN s : k < l /\ s[k] \notin S /\ s[l] \notin S =>
         \E a, b \in DOMAIN w : a < b /\ w[a] = s[k] /\ w[b] = s[l]
  BY <1>3, WithoutMembers
<1>5. s[i] \notin S /\ s[j] \notin S BY <1>1, <1>2
<1>6. \E a, b \in DOMAIN w : a < b /\ w[a] = s[i] /\ w[b] = s[j]
  BY <1>1, <1>4, <1>5
<1> QED BY <1>1, <1>2, <1>3, <1>6 DEF Follows

\* A member is put before all others.
LEMMA FollowsCons ==
  ASSUME NEW T, NEW s \in Seq(T), NEW o \in T, NEW c, NEW x,
         Follows(s, c, x)
  PROVE  Follows(<<o>> \o s, c, x)
<1>1. PICK i, j \in DOMAIN s : i < j /\ s[i] = c /\ s[j] = x BY DEF Follows
<1>2. Len(s) \in Nat /\ DOMAIN s = 1..Len(s) OBVIOUS
<1>3. /\ Len(<<o>> \o s) = Len(s) + 1 /\ DOMAIN (<<o>> \o s) = 1..Len(s) + 1
      /\ (<<o>> \o s)[i + 1] = c /\ (<<o>> \o s)[j + 1] = x
  BY <1>1, <1>2, ConsMembers
<1>4. i + 1 \in 1..Len(s) + 1 /\ j + 1 \in 1..Len(s) + 1 /\ i + 1 < j + 1
  BY <1>1, <1>2
<1> QED BY <1>3, <1>4 DEF Follows

-----------------------------------------------------------------------------
(* References *)

\* The types of what the definitions below are made from.
RefTypes == program \in Programs /\ entries \in [All -> SUBSET (Keys \X Objects)]

\* An object refers to the values of its entries and to those keys that are
\* objects.
LEMMA RefsAre ==
  ASSUME RefTypes, NEW o \in All
  PROVE  /\ Refs(o) \subseteq Objects
         /\ \A e \in entries[o] : /\ e = <<e[1], e[2]>> /\ e[1] \in Keys
                                  /\ e[2] \in Objects /\ e[2] \in Refs(o)
                                  /\ e[1] # NoKey => e[1] \in Refs(o)
         /\ \A v \in Refs(o) : \E e \in entries[o] : v = e[2] \/ (v = e[1] /\ v # NoKey)
<1>1. entries[o] \subseteq Keys \X Objects BY DEF RefTypes
<1>2. \A e \in entries[o] : e = <<e[1], e[2]>> /\ e[1] \in Keys /\ e[2] \in Objects
  BY <1>1
<1>3. \A x \in Keys : x # NoKey => x \in Objects BY DEF Keys
<1> QED BY <1>2, <1>3 DEF Refs

\* After a step as well.
LEMMA RefsInAll ==
  ASSUME RefTypes', NEW o \in All
  PROVE  Refs(o)' \subseteq Objects /\ Refs(o)' \subseteq All
<1>1. entries'[o] \subseteq Keys \X Objects BY DEF RefTypes
<1>2. \A e \in entries'[o] : e[1] \in Keys /\ e[2] \in Objects BY <1>1
<1> QED BY <1>2 DEF Refs, Keys, All

\* An object with fewer entries refers to no other objects.
LEMMA FewerRefs ==
  ASSUME RefTypes, RefTypes', NEW o \in All, entries'[o] \subseteq entries[o]
  PROVE  Refs(o)' \subseteq Refs(o)
BY DEF Refs

\* Every program's objects have kinds.
LEMMA KindsAre ==
  ASSUME RefTypes
  PROVE  /\ \A o \in All : kind[o] \in Kinds
         /\ kind[Main] = "thread" /\ Main \in All /\ Main \notin Objects
         /\ NoKey \notin All /\ Objects \subseteq All
  BY GcProgramsAssumption, GcNamesAssumption DEF RefTypes, ProgramType, kind, All

\* What references lead to: the smallest set that they do not lead out of.
LEMMA ReachIs ==
  ASSUME RefTypes, NEW S, S \subseteq All
  PROVE  /\ S \subseteq Reach(S) /\ Reach(S) \subseteq All
         /\ \A x \in Reach(S) : Refs(x) \subseteq Reach(S)
         /\ \A N : S \subseteq N /\ (\A x \in N \cap All : Refs(x) \subseteq N) =>
                      Reach(S) \subseteq N
<1> DEFINE refs == UNION {{o} \X Refs(o) : o \in All}
           LeadsOut(N) == \E r \in refs : r[1] \in N /\ r[2] \notin N
<1>1. Reach(S) = {o \in All : \A N \in SUBSET (All \ {o}) : S \subseteq N => LeadsOut(N)}
  BY DEF Reach
<1>2. \A N \in SUBSET All : LeadsOut(N) <=> \E x \in N : ~ (Refs(x) \subseteq N)
  <2>1. \A r \in refs : r[1] \in All /\ r[2] \in Refs(r[1]) OBVIOUS
  <2>2. \A x \in All : \A v \in Refs(x) : <<x, v>> \in refs OBVIOUS
  <2> QED BY <2>1, <2>2
<1> HIDE DEF LeadsOut
<1>3. Refs(Main) \subseteq All /\ \A x \in All : Refs(x) \subseteq All
  BY RefsAre, KindsAre
<1>4. S \subseteq Reach(S) /\ Reach(S) \subseteq All BY <1>1
<1>5. ASSUME NEW x \in Reach(S), NEW v \in Refs(x) PROVE v \in Reach(S)
  <2>1. x \in All /\ v \in All BY <1>1, <1>3
  <2>2. ASSUME NEW N \in SUBSET (All \ {v}), S \subseteq N PROVE LeadsOut(N)
    <3>1. CASE x \in N BY <1>2, <3>1
    <3>2. CASE x \notin N
      <4>1. N \in SUBSET (All \ {x}) BY <3>2
      <4> QED BY <1>1, <2>2, <4>1
    <3> QED BY <3>1, <3>2
  <2> QED BY <1>1, <2>1, <2>2
<1>6. ASSUME NEW N, S \subseteq N, \A x \in N \cap All : Refs(x) \subseteq N,
             NEW o \in Reach(S)
      PROVE  o \in N
  <2>1. SUFFICES ASSUME o \notin N PROVE FALSE OBVIOUS
  <2>2. N \cap All \in SUBSET (All \ {o}) /\ S \subseteq N \cap All BY <1>6, <2>1
  <2>3. LeadsOut(N \cap All) BY <1>1, <2>2
  <2>4. \A x \in N \cap All : Refs(x) \subseteq N \cap All BY <1>3, <1>6
  <2> QED BY <1>2, <2>3, <2>4
<1> QED BY <1>4, <1>5, <1>6

\* What the traversal of an object marks, by its kind.
LEMMA TraversedIs ==
  ASSUME RefTypes, NEW o \in All, NEW M
  PROVE  /\ Traversed(o, M) \subseteq Refs(o)
         /\ kind[o] \notin WeakKinds => Traversed(o, M) = Refs(o)
         /\ kind[o] = "weakvalue" =>
               \A e \in entries[o] : e[1] # NoKey => e[1] \in Traversed(o, M)
         /\ kind[o] = "weakvalue" =>
               \A x \in Traversed(o, M) : \E e \in entries[o] : x = e[1] /\ e[1] # NoKey
         /\ kind[o] = "ephemeron" =>
               \A x : x \in Traversed(o, M) <=>
                         \E e \in entries[o] : e[1] \in M \cup {NoKey} /\ x = e[2]
         /\ kind[o] = "allweak" => Traversed(o, M) = {}
<1>1. CASE kind[o] = "weakvalue"
  <2>1. Traversed(o, M) = {e[1] : e \in entries[o]} \ {NoKey}
    BY <1>1 DEF Traversed
  <2>2. Traversed(o, M) \subseteq Refs(o) BY <2>1 DEF Refs
  <2> QED BY <1>1, <2>1, <2>2 DEF WeakKinds
<1>2. CASE kind[o] = "ephemeron"
  <2>1. Traversed(o, M) = {e[2] : e \in {f \in entries[o] : f[1] \in M \cup {NoKey}}}
    BY <1>2 DEF Traversed
  <2>2. Traversed(o, M) \subseteq Refs(o) BY <2>1 DEF Refs
  <2> QED BY <1>2, <2>1, <2>2 DEF WeakKinds
<1>3. CASE kind[o] = "allweak"
  <2>1. Traversed(o, M) = {} BY <1>3 DEF Traversed
  <2> QED BY <1>3, <2>1 DEF WeakKinds
<1>4. CASE kind[o] \notin WeakKinds
  <2>1. Traversed(o, M) = Refs(o) BY <1>4 DEF Traversed, WeakKinds
  <2> QED BY <1>4, <2>1 DEF WeakKinds
<1> QED BY <1>1, <1>2, <1>3, <1>4 DEF WeakKinds

\* More is marked when more is.
LEMMA TraversedMore ==
  ASSUME RefTypes, NEW o \in All, NEW M, NEW N, M \subseteq N
  PROVE  Traversed(o, M) \subseteq Traversed(o, N)
<1>1. CASE kind[o] = "ephemeron" BY <1>1, TraversedIs
<1>2. CASE kind[o] # "ephemeron" BY <1>2 DEF Traversed
<1> QED BY <1>1, <1>2

\* What is marked in the end: the smallest set that has M and what the objects
\* of T and all others but those of M mark.
LEMMA PropagatedIs ==
  ASSUME RefTypes, NEW T, NEW M, T \subseteq All, M \subseteq All
  PROVE  /\ M \subseteq Propagated(T, M) /\ Propagated(T, M) \subseteq All
         /\ \A x \in T \cup (Propagated(T, M) \ M) :
               Traversed(x, Propagated(T, M)) \subseteq Propagated(T, M)
         /\ \A N : (/\ M \subseteq N
                    /\ \A x \in (T \cup (N \ M)) \cap All : Traversed(x, N) \subseteq N)
                   => Propagated(T, M) \subseteq N
<1> DEFINE closed == {N \in SUBSET All :
              M \subseteq N /\ \A x \in T \cup (N \ M) : Traversed(x, N) \subseteq N}
           P == Propagated(T, M)
<1>1. P = {o \in All : \A N \in closed : o \in N} BY DEF Propagated
<1> HIDE DEF P
<1>2. \A x \in All : \A N : Traversed(x, N) \subseteq All
  BY RefsAre, KindsAre, TraversedIs
<1>3. M \subseteq P /\ P \subseteq All BY <1>1
<1>4. ASSUME NEW x \in T \cup (P \ M), NEW v \in Traversed(x, P) PROVE v \in P
  <2>1. x \in All /\ v \in All BY <1>2, <1>3
  <2>2. ASSUME NEW N \in closed PROVE v \in N
    <3>1. P \subseteq N BY <1>1
    <3>2. Traversed(x, P) \subseteq Traversed(x, N) BY <2>1, <3>1, TraversedMore
    <3>3. Traversed(x, N) \subseteq N BY <3>1
    <3> QED BY <1>4, <3>2, <3>3
  <2> QED BY <1>1, <2>1, <2>2
<1>5. ASSUME NEW N, M \subseteq N,
             \A x \in (T \cup (N \ M)) \cap All : Traversed(x, N) \subseteq N
      PROVE  P \subseteq N
  <2> DEFINE L == N \cap All
  <2>1. L \in SUBSET All /\ M \subseteq L BY <1>5
  <2>2. ASSUME NEW x \in T \cup (L \ M) PROVE Traversed(x, L) \subseteq L
    <3>1. x \in All /\ Traversed(x, N) \subseteq N BY <1>5
    <3>2. Traversed(x, L) \subseteq Traversed(x, N) BY <3>1, TraversedMore
    <3>3. Traversed(x, L) \subseteq All BY <1>2, <3>1
    <3> QED BY <3>1, <3>2, <3>3
  <2>3. L \in closed BY <2>1, <2>2
  <2> QED BY <1>1, <2>3
<1> QED BY <1>3, <1>4, <1>5 DEF P

-----------------------------------------------------------------------------
(* Types and lists *)

Colours == Whites \cup {"free", "gray", "black"}

Types ==
    /\ RefTypes
    /\ marked \in [All -> Colours]
    /\ finalized \subseteq Objects
    /\ gcstate \in {"pause", "propagate", "sweepstring", "sweepudata", "sweep", "relinked"}
    /\ fullgc \in {"no", "finish", "run"}
    /\ Listed \subseteq All
    /\ sweepgc \in Objects \cup {"allgc", "finobj"}

\* Each object is linked once, in one of the three lists.
LinkedOnce ==
    /\ allgc \in Seq(Objects) /\ finobj \in Seq(Objects) /\ tobefnz \in Seq(Objects)
    /\ IsInjective(allgc) /\ IsInjective(finobj) /\ IsInjective(tobefnz)
    /\ Range(allgc) \cap Range(finobj) = {} /\ Range(allgc) \cap Range(tobefnz) = {}
    /\ Range(finobj) \cap Range(tobefnz) = {}
    /\ Range(allgc) \cup Range(finobj) \cup Range(tobefnz) = Allocated \ {Main}

\* The type invariant consists of these two.
LEMMA TypeOKIs == TypeOK <=> Types /\ LinkedOnce
<1>1. ASSUME allgc \in Seq(Objects), finobj \in Seq(Objects), tobefnz \in Seq(Objects)
      PROVE  /\ Range(allgc \o finobj \o tobefnz) =
                   Range(allgc) \cup Range(finobj) \cup Range(tobefnz)
             /\ IsInjective(allgc \o finobj \o tobefnz) <=>
                   /\ IsInjective(allgc) /\ IsInjective(finobj) /\ IsInjective(tobefnz)
                   /\ Range(allgc) \cap Range(finobj) = {}
                   /\ Range(allgc) \cap Range(tobefnz) = {}
                   /\ Range(finobj) \cap Range(tobefnz) = {}
  <2> DEFINE two == allgc \o finobj
  <2>1. /\ two \in Seq(Objects) /\ Range(two) = Range(allgc) \cup Range(finobj)
        /\ IsInjective(two) <=> /\ IsInjective(allgc) /\ IsInjective(finobj)
                                /\ Range(allgc) \cap Range(finobj) = {}
    BY <1>1, ConcatMembers
  <2> HIDE DEF two
  <2>2. /\ Range(two \o tobefnz) = Range(two) \cup Range(tobefnz)
        /\ IsInjective(two \o tobefnz) <=> /\ IsInjective(two) /\ IsInjective(tobefnz)
                                           /\ Range(two) \cap Range(tobefnz) = {}
    BY <1>1, <2>1, ConcatMembers
  <2>3. Range(two) \cap Range(tobefnz) = {} <=>
           /\ Range(allgc) \cap Range(tobefnz) = {}
           /\ Range(finobj) \cap Range(tobefnz) = {}
    BY <2>1
  <2> QED BY <2>1, <2>2, <2>3 DEF two
<1>2. TypeOK => Types /\ LinkedOnce
  BY <1>1 DEF TypeOK, Types, LinkedOnce, RefTypes, Colours, Listed
<1>3. Types /\ LinkedOnce => TypeOK
  BY <1>1 DEF TypeOK, Types, LinkedOnce, RefTypes, Colours, Listed
<1> QED BY <1>2, <1>3

\* The objects in the lists are allocated, and none is the main thread.
LEMMA LinkedAre ==
  ASSUME LinkedOnce
  PROVE  \A o \in Range(allgc) \cup Range(finobj) \cup Range(tobefnz) :
            o \in Objects /\ o \in All /\ o # Main /\ marked[o] # "free"
BY GcNamesAssumption DEF LinkedOnce, Allocated, All

\* A step that only recolours objects leaves the lists right.
LEMMA Recoloured ==
  ASSUME LinkedOnce, UNCHANGED <<allgc, finobj, tobefnz>>,
         \A o \in All : marked'[o] = "free" <=> marked[o] = "free"
  PROVE  LinkedOnce'
<1>1. Allocated' = Allocated BY DEF Allocated
<1> QED BY <1>1 DEF LinkedOnce

\* What the program can get hold of is not given up.
LEMMA LiveIsSafe ==
  ASSUME RefTypes, LinkedOnce, SafeClosed
  PROVE  /\ Live \subseteq Safe /\ Accessible \subseteq Safe
         /\ Accessible \subseteq All /\ Main \in Accessible
<1>1. Range(tobefnz) \subseteq All /\ Main \in All BY LinkedAre, KindsAre
<1>2. Live \subseteq Safe BY <1>1, ReachIs DEF Live, SafeClosed
<1>3. Accessible \subseteq Safe BY <1>1, ReachIs DEF Accessible, SafeClosed
<1>4. Accessible \subseteq All /\ Main \in Accessible BY <1>1, ReachIs DEF Accessible
<1> QED BY <1>2, <1>3, <1>4

\* reallymarkobject.
LEMMA MarksAre ==
  ASSUME RefTypes, MetatablesAre, NEW m, NEW S, S \subseteq All
  PROVE  /\ DOMAIN Marks(m, S) = All
         /\ \A o \in All : m[o] \notin Whites => Marks(m, S)[o] = m[o]
         /\ \A o \in All : Marks(m, S)[o] \in {m[o], "gray", "black"}
         /\ \A o \in S : Marks(m, S)[o] \notin Whites
         /\ \A o \in All : m[o] \in Whites /\ Marks(m, S)[o] = "black" =>
               /\ kind[o] = "userdata"
               /\ \A v \in Refs(o) : Marks(m, S)[v] \notin Whites
         /\ \A o \in All : m[o] \in Whites /\ Marks(m, S)[o] # m[o] =>
               \/ o \in S
               \/ \E u \in S : kind[u] = "userdata" /\ o \in Refs(u)
<1> DEFINE W == {o \in S : m[o] \in Whites}
           U == {u \in W : kind[u] = "userdata"}
           N == W \cup {t \in UNION {Refs(u) : u \in U} : m[t] \in Whites}
           n == Marks(m, S)
<1>1. n = [o \in All |-> IF o \notin N THEN m[o]
                         ELSE IF kind[o] = "userdata" THEN "black" ELSE "gray"]
  BY DEF Marks
<1>2. \A o \in All : o \in N =>
         /\ m[o] \in Whites
         /\ o \in S \/ \E u \in S : kind[u] = "userdata" /\ o \in Refs(u)
  OBVIOUS
<1>3. \A o \in S : m[o] \in Whites => o \in N OBVIOUS
<1>4. \A u \in S : m[u] \in Whites /\ kind[u] = "userdata" =>
         \A v \in Refs(u) : m[v] \in Whites => v \in N
  OBVIOUS
<1>5. \A o \in All : o \in N /\ kind[o] = "userdata" => o \in S
  <2>1. ASSUME NEW o \in All, o \in N, kind[o] = "userdata", o \notin S PROVE FALSE
    <3>1. PICK u \in S : kind[u] = "userdata" /\ o \in Refs(u) BY <1>2, <2>1
    <3>2. kind[o] \in TableKinds BY <3>1 DEF MetatablesAre
    <3> QED BY <2>1, <3>2 DEF TableKinds, WeakKinds
  <2> QED BY <2>1
<1>6. \A o \in All : Refs(o) \subseteq All BY RefsAre, KindsAre
<1> HIDE DEF N, n
<1>7. \A o \in All : n[o] \notin Whites \/ (n[o] = m[o] /\ o \notin N)
  BY <1>1 DEF Whites
<1>8. ASSUME NEW o \in All, m[o] \in Whites, n[o] = "black"
      PROVE  kind[o] = "userdata" /\ \A v \in Refs(o) : n[v] \notin Whites
  <2>1. o \in N /\ kind[o] = "userdata" BY <1>1, <1>8 DEF Whites
  <2>2. o \in S BY <1>5, <2>1
  <2>3. ASSUME NEW v \in Refs(o), n[v] \in Whites PROVE FALSE
    <3>1. v \in All BY <1>6
    <3>2. n[v] = m[v] /\ v \notin N BY <1>7, <2>3, <3>1
    <3>3. v \in N BY <1>4, <1>8, <2>1, <2>2, <2>3, <3>2
    <3> QED BY <3>2, <3>3
  <2> QED BY <2>1, <2>3
<1>9. \A o \in S : n[o] \notin Whites BY <1>3, <1>7
<1>10. /\ DOMAIN n = All
       /\ \A o \in All : m[o] \notin Whites => n[o] = m[o]
       /\ \A o \in All : n[o] \in {m[o], "gray", "black"}
       /\ \A o \in All : m[o] \in Whites /\ n[o] # m[o] => o \in N
  BY <1>1, <1>2
<1> QED BY <1>2, <1>8, <1>9, <1>10 DEF n

-----------------------------------------------------------------------------
(* The sweep *)

\* What the cursor leads to.
CursorLeads ==
    /\ ToSweep \in Seq(Objects)
    /\ Range(ToSweep) \subseteq Range(finobj) \cup Range(allgc)
    /\ sweepgc = "finobj" => ToSweep = finobj
    /\ sweepgc = "allgc" => ToSweep = allgc
    /\ sweepgc \in Range(finobj) =>
          /\ Range(ToSweep) = {x \in Range(finobj) : Follows(finobj, sweepgc, x)}
          /\ ToSweep = After(finobj, sweepgc)
    /\ sweepgc \in Range(allgc) =>
          /\ Range(ToSweep) = {x \in Range(allgc) : Follows(allgc, sweepgc, x)}
          /\ ToSweep = After(allgc, sweepgc)

\* It leads to these.
LEMMA ToSweepIs == Types /\ LinkedOnce => CursorLeads
<1> SUFFICES ASSUME Types, LinkedOnce PROVE CursorLeads OBVIOUS
<1>1. \A x \in Range(finobj) \cup Range(allgc) : x \in Objects /\ x \notin {"finobj", "allgc"}
  BY GcNamesAssumption, LinkedAre
<1>2. CASE sweepgc = "finobj"
  <2>1. ToSweep = finobj BY <1>1, <1>2 DEF ToSweep
  <2> QED BY <1>1, <1>2, <2>1 DEF LinkedOnce, CursorLeads
<1>3. CASE sweepgc = "allgc"
  <2>1. ToSweep = allgc BY <1>1, <1>3 DEF ToSweep
  <2> QED BY <1>1, <1>3, <2>1 DEF LinkedOnce, CursorLeads
<1>4. CASE sweepgc \in Range(finobj)
  <2>0. sweepgc \notin Range(allgc) BY <1>4 DEF LinkedOnce
  <2>1. ToSweep = After(finobj, sweepgc) BY <1>1, <1>4, <2>0 DEF ToSweep
  <2>2. /\ After(finobj, sweepgc) \in Seq(Objects)
        /\ Range(After(finobj, sweepgc)) = {x \in Range(finobj) : Follows(finobj, sweepgc, x)}
    BY <1>4, AfterIs DEF LinkedOnce
  <2> QED BY <1>1, <1>4, <2>0, <2>1, <2>2 DEF CursorLeads
<1>5. CASE sweepgc \in Range(allgc)
  <2>1. sweepgc \notin Range(finobj) BY <1>5 DEF LinkedOnce
  <2>2. ToSweep = After(allgc, sweepgc) BY <1>1, <1>5, <2>1 DEF ToSweep
  <2>3. /\ After(allgc, sweepgc) \in Seq(Objects)
        /\ Range(After(allgc, sweepgc)) = {x \in Range(allgc) : Follows(allgc, sweepgc, x)}
    BY <1>5, AfterIs DEF LinkedOnce
  <2> QED BY <1>1, <1>5, <2>1, <2>2, <2>3 DEF CursorLeads
<1>6. CASE sweepgc \notin {"finobj", "allgc"} \cup Range(finobj) \cup Range(allgc)
  <2>1. ToSweep = <<>> BY <1>6 DEF ToSweep
  <2> QED BY <1>6, <2>1 DEF Range, CursorLeads
<1> QED BY <1>2, <1>3, <1>4, <1>5, <1>6

\* What is put before the others in a list leaves them as they were.
LEMMA PendingCons ==
  ASSUME Types, LinkedOnce, Types', LinkedOnce', CursorIn, NEW o \in Objects,
         gcstate' = gcstate, sweepgc' = sweepgc, gcstate \in {"sweepudata", "sweep"},
         \/ allgc' = <<o>> \o allgc /\ finobj' = finobj
         \/ finobj' = <<o>> \o finobj /\ allgc' = allgc
  PROVE  Pending \subseteq Pending'
<1>1. /\ Range(allgc) \subseteq Range(allgc') /\ Range(finobj) \subseteq Range(finobj')
      /\ \A c, x : Follows(allgc, c, x) => Follows(allgc', c, x)
      /\ \A c, x : Follows(finobj, c, x) => Follows(finobj', c, x)
  <2>1. allgc \in Seq(Objects) /\ finobj \in Seq(Objects) BY DEF LinkedOnce
  <2>2. CASE allgc' = <<o>> \o allgc /\ finobj' = finobj
    BY <2>1, <2>2, ConsMembers, FollowsCons
  <2>3. CASE finobj' = <<o>> \o finobj /\ allgc' = allgc
    BY <2>1, <2>3, ConsMembers, FollowsCons
  <2> QED BY <2>2, <2>3
<1>3. CursorLeads BY ToSweepIs
<1>4. CursorLeads'
  <2>1. (Types /\ LinkedOnce => CursorLeads)' BY ToSweepIs, PTL
  <2> QED BY <2>1
<1>5. Range(ToSweep) \subseteq Range(ToSweep')
  <2>1. CASE sweepgc = "finobj" BY <1>1, <1>3, <1>4, <2>1 DEF CursorLeads
  <2>2. CASE sweepgc = "allgc" BY <1>1, <1>3, <1>4, <2>2 DEF CursorLeads
  <2>3. CASE sweepgc \in Range(finobj)
    <3>1. Range(ToSweep) = {x \in Range(finobj) : Follows(finobj, sweepgc, x)}
      BY <1>3, <2>3 DEF CursorLeads
    <3>2. Range(ToSweep)' = {x \in Range(finobj') : Follows(finobj', sweepgc, x)}
      BY <1>1, <1>4, <2>3 DEF CursorLeads
    <3> QED BY <1>1, <3>1, <3>2
  <2>4. CASE sweepgc \in Range(allgc)
    <3>1. Range(ToSweep) = {x \in Range(allgc) : Follows(allgc, sweepgc, x)}
      BY <1>3, <2>4 DEF CursorLeads
    <3>2. Range(ToSweep)' = {x \in Range(allgc') : Follows(allgc', sweepgc, x)}
      BY <1>1, <1>4, <2>4 DEF CursorLeads
    <3> QED BY <1>1, <3>1, <3>2
  <2> QED BY <2>1, <2>2, <2>3, <2>4 DEF CursorIn
<1> QED BY <1>1, <1>5 DEF Pending

-----------------------------------------------------------------------------
(* Steps of the program *)

\* The parts of the invariant.
LEMMA InvIs ==
  ASSUME GcInv
  PROVE  /\ Types /\ RefTypes /\ LinkedOnce /\ ListsMarked /\ MainMarked /\ MetatablesAre
         /\ NoneEscapes =>
               SafeClosed /\ FreeEmpty /\ SweepInv /\ MainInvariant
BY TypeOKIs DEF GcInv, AnyInv, IntactInv, Types

\* They make it up.
LEMMA InvMade ==
  ASSUME Types', LinkedOnce', ListsMarked', MainMarked', MetatablesAre', SettledInv',
         NoneEscapes' => SafeClosed' /\ FreeEmpty' /\ SweepInv' /\ MainInvariant'
  PROVE  GcInv'
<1>1. (Types /\ LinkedOnce => TypeOK)' BY TypeOKIs, PTL
<1> QED BY <1>1 DEF GcInv, AnyInv, IntactInv

\* What is gray or black stays so.
NoneWhitened == \A x \in All : marked[x] \in {"gray", "black"} => marked'[x] \in {"gray", "black"}

\* Tables with weak keys that are not traversed again have marked values still.
LEMMA SettledKept ==
  ASSUME GcInv, program' = program, Listed' \subseteq All,
         (Invariant)' => Invariant /\ NoneWhitened /\ allweak' = allweak,
         \A x \in allweak : /\ kind[x] = "ephemeron" /\ Invariant
                            /\ NoneEscapes /\ "settled" \in rules
             => \A e \in entries'[x] :
                  e \in entries[x] \/ (e[2] \in All /\ marked[e[2]] \in {"gray", "black"})
  PROVE  SettledInv'
<1>1. kind' = kind /\ rules' = rules /\ NoneEscapes' = NoneEscapes BY DEF kind, rules, NoneEscapes
<1> SUFFICES ASSUME NoneEscapes /\ "settled" \in rules, Invariant',
                    NEW x \in allweak', kind[x] = "ephemeron",
                    NEW e \in entries'[x]
             PROVE  marked'[e[2]] \notin Whites
  BY <1>1 DEF SettledInv, IsWhite
<1>2. Invariant /\ NoneWhitened /\ allweak' = allweak OBVIOUS
<1>3. x \in All BY DEF Listed
<1>4. e \in entries[x] \/ (e[2] \in All /\ marked[e[2]] \in {"gray", "black"}) BY <1>1, <1>2
<1>5. RefTypes /\ ListsMarked /\ SafeClosed BY InvIs
<1>6. CASE e \in entries[x]
  <2>1. x \in Safe BY <1>2, <1>3, <1>5 DEF ListsMarked, Listed, Safe
  <2>2. e[2] \in Refs(x) BY <1>3, <1>5, <1>6, RefsAre
  <2>3. e[2] \in Safe BY <1>5, <2>1, <2>2 DEF SafeClosed
  <2>4. ~IsWhite(e[2]) BY <1>1, <1>2, <1>6 DEF GcInv, SettledInv
  <2>5. marked \in [All -> Colours] BY InvIs DEF Types
  <2>6. e[2] \in All /\ marked[e[2]] \in {"gray", "black"}
    BY <2>3, <2>4, <2>5 DEF Safe, IsWhite, Whites, Colours
  <2> QED BY <1>2, <2>6 DEF NoneWhitened, Whites
<1>7. CASE e[2] \in All /\ marked[e[2]] \in {"gray", "black"}
  BY <1>2, <1>7 DEF NoneWhitened, Whites
<1> QED BY <1>4, <1>6, <1>7

\* What a step of the program may do to the references.
LEMMA StoreKeepsTypes ==
  ASSUME RefTypes, program' = program, NEW o \in All, NEW e \in Keys \X Objects,
         entries' \in {[entries EXCEPT ![o] = new] : new \in SUBSET (entries[o] \cup {e})}
  PROVE  /\ RefTypes'
         /\ \A x \in All : x # o => entries'[x] = entries[x] /\ Refs(x)' = Refs(x)
         /\ entries'[o] \subseteq entries[o] \cup {e}
         /\ Refs(o)' \subseteq Refs(o) \cup ({e[1], e[2]} \ {NoKey})
<1>1. PICK new \in SUBSET (entries[o] \cup {e}) : entries' = [entries EXCEPT ![o] = new]
  OBVIOUS
<1>2. entries \in [All -> SUBSET (Keys \X Objects)] BY DEF RefTypes
<1>3. new \in SUBSET (Keys \X Objects) BY <1>2
<1>4. entries' \in [All -> SUBSET (Keys \X Objects)] BY <1>1, <1>2, <1>3
<1>5. RefTypes' BY <1>4 DEF RefTypes
<1>6. \A x \in All : x # o => entries'[x] = entries[x] BY <1>1, <1>2
<1>7. entries'[o] = new BY <1>1, <1>2
<1>8. \A x \in All : x # o => Refs(x)' = Refs(x) BY <1>6 DEF Refs
<1>9. e[2] # NoKey
  <2>1. e[2] \in Objects OBVIOUS
  <2> QED BY <2>1, KindsAre
<1>10. ASSUME NEW v \in Refs(o)' PROVE v \in Refs(o) \cup ({e[1], e[2]} \ {NoKey})
  <2>1. PICK f \in entries'[o] : v = f[2] \/ (v = f[1] /\ v # NoKey)
    BY <1>10 DEF Refs
  <2>2. f \in entries[o] \/ f = e BY <1>7, <2>1
  <2>3. CASE f \in entries[o] BY <2>1, <2>3 DEF Refs
  <2>4. CASE f = e BY <1>9, <2>1, <2>4
  <2> QED BY <2>2, <2>3, <2>4
<1> QED BY <1>5, <1>6, <1>7, <1>8, <1>10

\* luaC_newobj.
LEMMA CreateStep ==
  ASSUME GcInv, NEW o \in Objects, program' = program,
         marked[o] = "free", marked' = [marked EXCEPT ![o] = "white"],
         \/ allgc' = <<o>> \o allgc /\ finobj' = finobj
         \/ finobj' = <<o>> \o finobj /\ allgc' = allgc,
         entries' = [entries EXCEPT ![Main] = @ \cup {<<NoKey, o>>}],
         UNCHANGED <<finalized, tobefnz, grays, phase>>
  PROVE  GcInv'
<1>0. /\ marked[o] = "free" /\ marked' = [marked EXCEPT ![o] = "white"]
      /\ entries' = [entries EXCEPT ![Main] = @ \cup {<<NoKey, o>>}]
      /\ UNCHANGED <<finalized, tobefnz, grays, phase>>
  OBVIOUS
<1>1. /\ Types /\ RefTypes /\ LinkedOnce /\ ListsMarked /\ MainMarked /\ MetatablesAre
      /\ NoneEscapes => SafeClosed /\ FreeEmpty /\ SweepInv /\ MainInvariant
  BY InvIs
<1>2. /\ kind' = kind /\ rules' = rules /\ NoneEscapes' = NoneEscapes /\ kind[Main] = "thread"
      /\ Main \in All /\ o \in All /\ o # Main
  BY KindsAre, <1>1 DEF kind, rules, NoneEscapes
<1>3. /\ gray' = gray /\ grayagain' = grayagain /\ weak' = weak /\ ephemeron' = ephemeron
      /\ allweak' = allweak /\ Listed' = Listed
      /\ gcstate' = gcstate /\ sweepgc' = sweepgc /\ fullgc' = fullgc
      /\ finalized' = finalized /\ Invariant' = Invariant
  BY <1>0 DEF grays, phase, Listed, Invariant
<1>4. /\ RefTypes'
      /\ \A x \in All : x # Main => entries'[x] = entries[x] /\ Refs(x)' = Refs(x)
      /\ Refs(Main)' \subseteq Refs(Main) \cup {o}
  <2> DEFINE e == <<NoKey, o>>
  <2>1. e \in Keys \X Objects BY DEF Keys
  <2>2. entries' \in {[entries EXCEPT ![Main] = new] : new \in SUBSET (entries[Main] \cup {e})}
    BY <1>0
  <2>3. e[1] = NoKey /\ e[2] = o OBVIOUS
  <2> HIDE DEF e
  <2>4. /\ RefTypes'
        /\ \A x \in All : x # Main => entries'[x] = entries[x] /\ Refs(x)' = Refs(x)
        /\ Refs(Main)' \subseteq Refs(Main) \cup ({e[1], e[2]} \ {NoKey})
    BY <1>1, <1>2, <2>1, <2>2, StoreKeepsTypes
  <2> QED BY <2>3, <2>4
<1>5. /\ marked' \in [All -> Colours] /\ marked'[o] = "white"
      /\ \A x \in All : x # o => marked'[x] = marked[x]
  BY <1>0, <1>1, <1>2 DEF Types, Colours, Whites
<1>6. Types' BY <1>1, <1>3, <1>4, <1>5 DEF Types
<1>7. /\ allgc' \in Seq(Objects) /\ IsInjective(allgc')
      /\ finobj' \in Seq(Objects) /\ IsInjective(finobj')
      /\ \/ Range(allgc') = Range(allgc) \cup {o} /\ finobj' = finobj
         \/ Range(finobj') = Range(finobj) \cup {o} /\ allgc' = allgc
      /\ o \notin Range(allgc) \cup Range(finobj) \cup Range(tobefnz)
  <2>1. o \notin Range(allgc) \cup Range(finobj) \cup Range(tobefnz)
    BY <1>0, <1>1, LinkedAre
  <2>2. /\ allgc \in Seq(Objects) /\ IsInjective(allgc)
        /\ finobj \in Seq(Objects) /\ IsInjective(finobj)
    BY <1>1 DEF LinkedOnce
  <2>3. CASE allgc' = <<o>> \o allgc /\ finobj' = finobj BY <2>1, <2>2, <2>3, ConsMembers
  <2>4. CASE finobj' = <<o>> \o finobj /\ allgc' = allgc BY <2>1, <2>2, <2>4, ConsMembers
  <2> QED BY <2>3, <2>4
<1>8. LinkedOnce'
  <2>1. tobefnz' = tobefnz BY <1>0
  <2>2. Allocated' = Allocated \cup {o} BY <1>2, <1>5 DEF Allocated
  <2> QED BY <1>1, <1>2, <1>7, <2>1, <2>2 DEF LinkedOnce
<1>9. ListsMarked' /\ MainMarked'
  BY <1>0, <1>1, <1>2, <1>3, <1>5 DEF ListsMarked, MainMarked, Types, Listed
<1>10. MetatablesAre' BY <1>1, <1>2, <1>4 DEF MetatablesAre
<1>11. ASSUME NoneEscapes PROVE SafeClosed' /\ FreeEmpty' /\ SweepInv' /\ MainInvariant'
  <2>1. SafeClosed /\ FreeEmpty /\ SweepInv /\ MainInvariant BY <1>1, <1>11
  <2>2. Safe' = Safe \cup {o} BY <1>2, <1>5 DEF Safe
  <2>3. Refs(o)' = {} BY <1>0, <1>2, <1>4, <2>1 DEF FreeEmpty, Refs
  <2>4. SafeClosed'
    <3>1. Main \in Safe' /\ Range(tobefnz)' \subseteq Safe'
      BY <1>0, <2>1, <2>2 DEF SafeClosed
    <3>2. ASSUME NEW x \in Safe' PROVE Refs(x)' \subseteq Safe'
      BY <1>2, <1>4, <2>1, <2>2, <2>3 DEF SafeClosed, Safe
    <3> QED BY <3>1, <3>2 DEF SafeClosed
  <2>5. FreeEmpty' BY <1>1, <1>2, <1>4, <1>5, <2>1 DEF FreeEmpty, MainMarked
  <2>6. OneWhite' BY <1>3, <1>5, <2>1 DEF SweepInv, OneWhite
  <2>7. PauseWhite' BY <1>0, <1>3, <1>5, <2>1 DEF SweepInv, PauseWhite
  <2>8. CursorIn' BY <1>0, <1>3, <1>7, <2>1 DEF SweepInv, CursorIn
  <2>9. SweptWhite'
    <3> SUFFICES ASSUME gcstate \in {"sweepudata", "sweep"},
                        NEW x \in Range(finobj)' \cup Range(allgc)',
                        x \notin Pending', marked'[x] # "white"
                 PROVE  FALSE
      BY <1>3 DEF SweptWhite
    <3>1. x # o /\ x \in Range(finobj) \cup Range(allgc) BY <1>0, <1>5, <1>7
    <3>2. x \in All BY <1>1, <3>1, LinkedAre
    <3>3. x \in Pending BY <1>5, <2>1, <3>1, <3>2 DEF SweepInv, SweptWhite
    <3>4. CursorIn BY <2>1 DEF SweepInv
    <3>5. gcstate' = gcstate /\ sweepgc' = sweepgc BY <1>3
    <3>6. Pending \subseteq Pending' BY <1>1, <1>6, <1>8, <3>4, <3>5, PendingCons
    <3> QED BY <3>3, <3>6
  <2>10. MainInvariant'
    <3> SUFFICES ASSUME Invariant PROVE MainInvariant'
      BY <1>3 DEF MainInvariant
    <3>1. ASSUME NEW x \in All, marked'[x] = "black", NEW v \in Refs(x)'
          PROVE  marked'[v] \notin Whites
      <4>1. x # o /\ x # Main /\ marked[x] = "black" BY <1>1, <1>5, <3>1 DEF MainMarked
      <4>2. v \in Refs(x) BY <1>4, <3>1, <4>1
      <4>3. x \in Safe BY <4>1 DEF Safe
      <4>4. v \in Safe BY <2>1, <4>2, <4>3 DEF SafeClosed
      <4>5. v # o /\ v \in All BY <1>0, <4>4 DEF Safe
      <4>6. marked[v] \notin Whites BY <1>11, <2>1, <4>1, <4>2 DEF MainInvariant, IsWhite
      <4> QED BY <1>5, <4>5, <4>6
    <3>2. ASSUME NEW x \in All, marked'[x] = "gray" PROVE x \in Listed'
      <4>1. marked[x] = "gray" BY <1>5, <3>2
      <4> QED BY <1>3, <1>11, <2>1, <4>1 DEF MainInvariant, Listed
    <3> QED BY <3>1, <3>2 DEF MainInvariant, IsWhite, Listed
  <2> QED BY <2>4, <2>5, <2>6, <2>7, <2>8, <2>9, <2>10 DEF SweepInv
<1>12. SettledInv'
  <2>1. NoneWhitened BY <1>0, <1>5 DEF NoneWhitened
  <2>2. ASSUME NEW x \in allweak, kind[x] = "ephemeron" PROVE entries'[x] \subseteq entries[x]
    BY <1>1, <1>2, <1>4, <2>2 DEF Types, Listed
  <2> QED BY <1>1, <1>3, <1>6, <2>1, <2>2, SettledKept DEF Types
<1> QED BY <1>2, <1>6, <1>8, <1>9, <1>10, <1>11, <1>12, InvMade

\* luaC_newobj.
LEMMA NewStep ==
  ASSUME GcInv, NEW o \in Objects, New(o), program' = program
  PROVE  GcInv'
BY CreateStep DEF New

\* lua_newuserdata and luaL_setmetatable.
LEMMA NewFinalizableStep ==
  ASSUME GcInv, NEW o \in Objects, NewFinalizable(o), program' = program
  PROVE  GcInv'
BY CreateStep DEF NewFinalizable

\* What a store does: the references, and the colours by the barrier.
LEMMA StoreIs ==
  ASSUME Types, MainMarked, MetatablesAre, NEW o \in All, NEW k \in Keys, NEW v \in Objects,
         Store(o, k, v), program' = program
  PROVE  /\ RefTypes'
         /\ \A x \in All : x # o => entries'[x] = entries[x] /\ Refs(x)' = Refs(x)
         /\ Refs(o)' \subseteq Refs(o) \cup ({k, v} \ {NoKey})
         /\ kind[o] \notin WeakKinds => k = NoKey
         /\ kind[o] = "userdata" => kind[v] \in TableKinds
         /\ entries'[o] \subseteq entries[o] \cup {<<k, v>>}
         /\ "settled" \in rules => ~Misses(o, v)
         /\ UNCHANGED <<finalized, allgc, finobj, tobefnz, phase>>
         /\ weak' = weak /\ ephemeron' = ephemeron /\ allweak' = allweak
         /\ marked' \in [All -> Colours]
         /\ \/ /\ marked' = marked /\ gray' = gray /\ grayagain' = grayagain
               /\ marked[o] = "black" => \A x \in {k, v} \ {NoKey} : ~IsWhite(x)
            \/ /\ marked[o] = "black"
               /\ marked' = [marked EXCEPT ![o] = "gray"]
               /\ gray' = gray /\ grayagain' = grayagain \cup {o}
            \/ /\ marked[o] = "black" /\ kind[o] \notin TableKinds
               /\ Invariant
               /\ marked' = Marks(marked, {v})
               /\ gray' = gray \cup NewlyGray(marked, marked') /\ grayagain' = grayagain
            \/ /\ marked[o] = "black"
               /\ ~Invariant
               /\ marked' = [marked EXCEPT ![o] = "white"]
               /\ gray' = gray /\ grayagain' = grayagain
<1> DEFINE e == <<k, v>>
<1>1. RefTypes /\ marked \in [All -> Colours] BY DEF Types
<1>2. e \in Keys \X Objects /\ e[1] = k /\ e[2] = v /\ v # NoKey BY <1>1, KindsAre
<1>3. entries' \in {[entries EXCEPT ![o] = new] : new \in SUBSET (entries[o] \cup {e})}
  BY DEF Store
<1> HIDE DEF e
<1>4. /\ RefTypes'
      /\ \A x \in All : x # o => entries'[x] = entries[x] /\ Refs(x)' = Refs(x)
      /\ Refs(o)' \subseteq Refs(o) \cup ({k, v} \ {NoKey})
      /\ entries'[o] \subseteq entries[o] \cup {<<k, v>>}
  <2>1. Refs(o)' \subseteq Refs(o) \cup ({e[1], e[2]} \ {NoKey})
    BY <1>1, <1>2, <1>3, StoreKeepsTypes
  <2>2. /\ RefTypes'
        /\ \A x \in All : x # o => entries'[x] = entries[x] /\ Refs(x)' = Refs(x)
    BY <1>1, <1>2, <1>3, StoreKeepsTypes
  <2>3. entries'[o] \subseteq entries[o] \cup {e} BY <1>1, <1>3 DEF RefTypes
  <2> QED BY <1>2, <2>1, <2>2, <2>3 DEF e
<1>5. /\ kind[o] \notin WeakKinds => k = NoKey
      /\ kind[o] = "userdata" => kind[v] \in TableKinds
      /\ "settled" \in rules => ~Misses(o, v)
      /\ UNCHANGED <<finalized, allgc, finobj, tobefnz, phase>>
  BY DEF Store
<1>6. CASE ~NeedsBarrier(o, {k, v} \ {NoKey})
  <2>1. UNCHANGED <<marked, grays>> BY <1>6 DEF Store
  <2>2. marked[o] = "black" => \A x \in {k, v} \ {NoKey} : ~IsWhite(x)
    BY <1>6 DEF NeedsBarrier
  <2> QED BY <1>1, <1>4, <1>5, <2>1, <2>2 DEF grays
<1>7. CASE NeedsBarrier(o, {k, v} \ {NoKey}) /\ kind[o] \in TableKinds
  <2>1. BarrierBack(o) /\ marked[o] = "black" BY <1>7 DEF Store, NeedsBarrier
  <2>2. marked' \in [All -> Colours] BY <1>1, <2>1 DEF BarrierBack, Colours
  <2> QED BY <1>4, <1>5, <2>1, <2>2 DEF BarrierBack
<1>8. CASE NeedsBarrier(o, {k, v} \ {NoKey}) /\ kind[o] \notin TableKinds
  <2>1. Barrier(o, v) /\ marked[o] = "black" BY <1>8 DEF Store, NeedsBarrier
  <2>2. CASE Invariant /\ Mark({v}) /\ UNCHANGED <<grayagain, weak, ephemeron, allweak>>
    <3>1. /\ marked' = Marks(marked, {v})
          /\ gray' = gray \cup NewlyGray(marked, marked')
          /\ UNCHANGED <<grayagain, weak, ephemeron, allweak>>
      BY <2>2 DEF Mark
    <3>2. marked' \in [All -> Colours]
      <4>1. {v} \subseteq All BY <1>1, KindsAre
      <4>2. /\ DOMAIN Marks(marked, {v}) = All
            /\ \A x \in All : Marks(marked, {v})[x] \in {marked[x], "gray", "black"}
        BY <1>1, <4>1, MarksAre
      <4>3. \A x \in All : marked[x] \in Colours BY <1>1
      <4>4. Marks(marked, {v}) = [x \in All |-> Marks(marked, {v})[x]] BY <4>2 DEF Marks
      <4> QED BY <3>1, <4>2, <4>3, <4>4 DEF Colours
    <3> QED BY <1>4, <1>5, <1>8, <2>1, <2>2, <3>1, <3>2
  <2>3. CASE ~Invariant /\ marked' = [marked EXCEPT ![o] = "white"] /\ UNCHANGED grays
    <3>1. marked' \in [All -> Colours] BY <1>1, <2>3 DEF Colours, Whites
    <3> QED BY <1>4, <1>5, <2>1, <2>3, <3>1 DEF grays
  <2> QED BY <2>1, <2>2, <2>3 DEF Barrier
<1> QED BY <1>6, <1>7, <1>8

\* What it keeps of the colours.
LEMMA StoreColours ==
  ASSUME Types, MainMarked, MetatablesAre, NEW o \in All, NEW k \in Keys, NEW v \in Objects,
         Store(o, k, v), program' = program
  PROVE  /\ \A x \in All : marked'[x] = "free" <=> marked[x] = "free"
         /\ \A x \in All : marked'[x] = "otherwhite" => marked[x] = "otherwhite"
         /\ \A x \in All : marked[x] = "otherwhite" => Invariant \/ marked'[x] = "otherwhite"
         /\ \A x \in All : marked[x] = "white" => Invariant \/ marked'[x] = "white"
         /\ \A x \in All : marked'[x] = "black" => Invariant \/ marked[x] = "black"
         /\ \A x \in All : marked'[x] = "gray" /\ marked[x] # "gray" =>
               marked[x] = "black" \/ Invariant
         /\ Invariant => NoneWhitened
         /\ marked'[Main] \in {"white", "gray"}
         /\ Invariant => marked'[Main] = "gray"
<1>1. RefTypes /\ marked \in [All -> Colours] /\ marked' \in [All -> Colours]
  BY StoreIs DEF Types
<1>2. Main \in All /\ v \in All BY <1>1, KindsAre
<1>3. CASE marked' = marked BY <1>1, <1>3 DEF NoneWhitened, MainMarked
<1>4. CASE marked[o] = "black" /\ marked' = [marked EXCEPT ![o] = "gray"]
  BY <1>1, <1>2, <1>4 DEF NoneWhitened, MainMarked
<1>5. CASE Invariant /\ marked' = Marks(marked, {v})
  <2>1. /\ \A x \in All : marked[x] \notin Whites => marked'[x] = marked[x]
        /\ \A x \in All : marked'[x] \in {marked[x], "gray", "black"}
    BY <1>1, <1>2, <1>5, MarksAre
  <2>2. marked[Main] = "gray" BY <1>5 DEF MainMarked
  <2> QED BY <1>1, <1>2, <1>5, <2>1, <2>2 DEF NoneWhitened, Whites
<1>6. CASE marked[o] = "black" /\ ~Invariant /\ marked' = [marked EXCEPT ![o] = "white"]
  BY <1>1, <1>2, <1>6 DEF NoneWhitened, MainMarked
<1> QED BY <1>3, <1>4, <1>5, <1>6, StoreIs

\* A store.
LEMMA StoreStep ==
  ASSUME GcInv, NEW o \in Accessible, NEW v \in Accessible \ {Main},
         NEW k \in {NoKey} \cup (Accessible \ {Main}), Store(o, k, v), program' = program
  PROVE  GcInv'
<1>1. /\ Types /\ RefTypes /\ LinkedOnce /\ ListsMarked /\ MainMarked /\ MetatablesAre
      /\ NoneEscapes => SafeClosed /\ FreeEmpty /\ SweepInv /\ MainInvariant
  BY InvIs
<1>2. /\ kind' = kind /\ rules' = rules /\ NoneEscapes' = NoneEscapes /\ kind[Main] = "thread" /\ Main \in All
      /\ NoKey \notin All
  BY <1>1, KindsAre DEF kind, rules, NoneEscapes
<1>3. o \in All /\ v \in Objects /\ k \in Keys /\ v \in All
  <2>1. Accessible \subseteq All
    <3>1. {Main} \subseteq All BY <1>2
    <3> QED BY <1>1, <3>1, ReachIs DEF Accessible
  <2> QED BY <2>1 DEF All, Keys
<1>4. /\ RefTypes'
      /\ \A x \in All : x # o => entries'[x] = entries[x] /\ Refs(x)' = Refs(x)
      /\ Refs(o)' \subseteq Refs(o) \cup ({k, v} \ {NoKey})
      /\ kind[o] \notin WeakKinds => k = NoKey
      /\ kind[o] = "userdata" => kind[v] \in TableKinds
      /\ entries'[o] \subseteq entries[o] \cup {<<k, v>>}
      /\ "settled" \in rules => ~Misses(o, v)
      /\ UNCHANGED <<finalized, allgc, finobj, tobefnz, phase>>
      /\ weak' = weak /\ ephemeron' = ephemeron /\ allweak' = allweak
      /\ marked' \in [All -> Colours]
  BY <1>1, <1>3, StoreIs
<1>5. /\ \A x \in All : marked'[x] = "free" <=> marked[x] = "free"
      /\ \A x \in All : marked'[x] = "otherwhite" => marked[x] = "otherwhite"
      /\ \A x \in All : marked[x] = "otherwhite" => Invariant \/ marked'[x] = "otherwhite"
      /\ \A x \in All : marked[x] = "white" => Invariant \/ marked'[x] = "white"
      /\ \A x \in All : marked'[x] = "gray" /\ marked[x] # "gray" =>
            marked[x] = "black" \/ Invariant
      /\ Invariant => NoneWhitened
      /\ marked'[Main] \in {"white", "gray"}
      /\ Invariant => marked'[Main] = "gray"
  BY <1>1, <1>3, StoreColours
<1>6. /\ gcstate' = gcstate /\ fullgc' = fullgc /\ sweepgc' = sweepgc
      /\ Invariant' = Invariant /\ ToSweep' = ToSweep /\ Pending' = Pending
  BY <1>4 DEF phase, Invariant, ToSweep, Pending
<1>7. /\ Listed \subseteq Listed' /\ Listed' \subseteq All
      /\ \A x \in Listed' \ Listed : marked'[x] = "gray"
      /\ \A x \in All : Invariant /\ marked'[x] = "gray" /\ marked[x] # "gray" => x \in Listed'
  <2>1. CASE marked' = marked /\ gray' = gray /\ grayagain' = grayagain
    BY <1>1, <1>4, <2>1 DEF Listed, Types
  <2>2. CASE /\ marked' = [marked EXCEPT ![o] = "gray"]
             /\ gray' = gray /\ grayagain' = grayagain \cup {o}
    BY <1>1, <1>3, <1>4, <2>2 DEF Listed, Types
  <2>3. CASE /\ marked' = Marks(marked, {v})
             /\ gray' = gray \cup NewlyGray(marked, marked') /\ grayagain' = grayagain
    <3>1. \A x \in All : marked[x] \notin Whites => marked'[x] = marked[x]
      BY <1>1, <1>3, <2>3, MarksAre
    <3> QED BY <1>1, <1>4, <2>3, <3>1 DEF Listed, Types, NewlyGray
  <2>4. CASE /\ ~Invariant /\ marked' = [marked EXCEPT ![o] = "white"]
             /\ gray' = gray /\ grayagain' = grayagain
    BY <1>1, <1>4, <2>4 DEF Listed, Types
  <2> QED BY <1>1, <1>3, <2>1, <2>2, <2>3, <2>4, StoreIs
<1>8. Types' BY <1>1, <1>4, <1>6, <1>7 DEF Types
<1>9. LinkedOnce' BY <1>1, <1>4, <1>5, Recoloured
<1>10. ListsMarked'
  <2> SUFFICES ASSUME Invariant PROVE ListsMarked' BY <1>6 DEF ListsMarked
  <2>1. \A x \in Listed : marked'[x] \in {"gray", "black"}
    BY <1>1, <1>5 DEF ListsMarked, NoneWhitened, Types
  <2>2. \A x \in allweak' : kind[x] \in {"allweak", "ephemeron"}
    BY <1>1, <1>4 DEF ListsMarked
  <2> QED BY <1>2, <1>7, <2>1, <2>2 DEF ListsMarked
<1>11. MainMarked' BY <1>5, <1>6 DEF MainMarked
<1>12. MetatablesAre'
  <2>1. ASSUME NEW x \in All, kind[x] = "userdata", NEW u \in Refs(x)'
        PROVE  kind[u] \in TableKinds
    <3>1. CASE x # o BY <1>1, <1>4, <2>1, <3>1 DEF MetatablesAre
    <3>2. CASE x = o
      <4>1. k = NoKey /\ kind[v] \in TableKinds BY <1>4, <2>1, <3>2 DEF WeakKinds
      <4>2. u \in Refs(o) \/ u = v BY <1>4, <2>1, <3>2, <4>1
      <4> QED BY <1>1, <1>3, <2>1, <3>2, <4>1, <4>2 DEF MetatablesAre
    <3> QED BY <3>1, <3>2
  <2> QED BY <1>2, <2>1 DEF MetatablesAre
<1>13. SettledInv'
  <2>1. ASSUME NEW x \in allweak, kind[x] = "ephemeron", Invariant,
               NoneEscapes /\ "settled" \in rules, NEW e \in entries'[x]
        PROVE  e \in entries[x] \/ (e[2] \in All /\ marked[e[2]] \in {"gray", "black"})
    <3>1. x \in All BY <1>1 DEF Types, Listed
    <3>2. CASE x # o BY <1>4, <2>1, <3>1, <3>2
    <3>3. CASE x = o
      <4>1. ~IsWhite(v) BY <1>4, <2>1, <3>3 DEF Misses
      <4>2. v \in Safe BY <1>1, <2>1, LiveIsSafe
      <4>3. v \in All /\ marked[v] \in {"gray", "black"}
        BY <1>1, <1>3, <4>1, <4>2 DEF Safe, IsWhite, Whites, Types, Colours
      <4> QED BY <1>4, <2>1, <3>3, <4>3
    <3> QED BY <3>2, <3>3
  <2> QED BY <1>4, <1>5, <1>6, <1>7, <2>1, SettledKept
<1>14. ASSUME NoneEscapes PROVE SafeClosed' /\ FreeEmpty' /\ SweepInv'
  <2>1. SafeClosed /\ FreeEmpty /\ SweepInv BY <1>1, <1>14
  <2>2. Safe' = Safe
    <3>1. \A x \in All : marked'[x] = "otherwhite" <=> marked[x] = "otherwhite"
      BY <1>5, <2>1 DEF SweepInv, OneWhite, Invariant
    <3> QED BY <1>5, <3>1 DEF Safe
  <2>3. o \in Safe /\ v \in Safe /\ (k # NoKey => k \in Safe) BY <1>1, <2>1, LiveIsSafe
  <2>4. SafeClosed'
    <3>1. \A x \in Safe : Refs(x)' \subseteq Safe
      <4>1. Refs(o)' \subseteq Safe BY <1>4, <2>1, <2>3 DEF SafeClosed
      <4> QED BY <1>4, <2>1, <4>1 DEF SafeClosed, Safe
    <3> QED BY <1>4, <2>1, <2>2, <3>1 DEF SafeClosed
  <2>5. FreeEmpty'
    <3>1. marked[o] # "free" BY <2>3 DEF Safe
    <3> QED BY <1>4, <1>5, <2>1, <3>1 DEF FreeEmpty
  <2>6. OneWhite' BY <1>5, <1>6, <2>1 DEF SweepInv, OneWhite
  <2>7. PauseWhite'
    <3> SUFFICES ASSUME gcstate = "pause", NEW x \in All
                 PROVE  marked'[x] \in {"white", "free"} \/ x \in Range(tobefnz)
      BY <1>4, <1>6 DEF PauseWhite
    <3>1. ~Invariant BY DEF Invariant
    <3>2. marked[x] \in {"white", "free"} \/ x \in Range(tobefnz)
      BY <2>1 DEF SweepInv, PauseWhite
    <3> QED BY <1>5, <3>1, <3>2
  <2>8. CursorIn' BY <1>4, <1>6, <2>1 DEF SweepInv, CursorIn
  <2>9. SweptWhite'
    <3> SUFFICES ASSUME gcstate \in {"sweepudata", "sweep"},
                        NEW x \in (Range(finobj) \cup Range(allgc)) \ Pending
                 PROVE  marked'[x] = "white"
      BY <1>4, <1>6 DEF SweptWhite
    <3>1. ~Invariant BY DEF Invariant
    <3>2. marked[x] = "white" BY <2>1 DEF SweepInv, SweptWhite
    <3>3. x \in All BY <1>1, LinkedAre
    <3> QED BY <1>5, <3>1, <3>2, <3>3
  <2> QED BY <2>4, <2>5, <2>6, <2>7, <2>8, <2>9 DEF SweepInv
<1>15. ASSUME NoneEscapes PROVE MainInvariant'
  <2> SUFFICES ASSUME Invariant PROVE MainInvariant' BY <1>6 DEF MainInvariant
  <2>0. MainInvariant BY <1>1, <1>15
  <2>1. ASSUME NEW x \in All, marked'[x] = "gray" PROVE x \in Listed'
    <3>1. CASE marked[x] = "gray" BY <1>7, <1>15, <2>0, <3>1 DEF MainInvariant, Listed
    <3>2. CASE marked[x] # "gray" BY <1>7, <2>1, <3>2
    <3> QED BY <3>1, <3>2
  <2>2. ASSUME NEW x \in All, marked'[x] = "black", NEW u \in Refs(x)'
        PROVE  marked'[u] \notin Whites
    <3>0. u \in All
      <4>1. Refs(x)' \subseteq All BY <1>4, RefsInAll
      <4> QED BY <2>2, <4>1
    <3>1. ASSUME marked[x] = "black", u \in Refs(x) PROVE marked'[u] \notin Whites
      <4>1. marked[u] \notin Whites BY <1>15, <2>0, <3>1 DEF MainInvariant, IsWhite
      <4> QED BY <1>1, <1>4, <1>5, <3>0, <4>1 DEF NoneWhitened, Whites, Colours, Types
    <3>2. CASE /\ marked' = marked
               /\ marked[o] = "black" => \A y \in {k, v} \ {NoKey} : ~IsWhite(y)
      <4>1. CASE u \in Refs(x) BY <2>2, <3>1, <3>2, <4>1
      <4>2. CASE u \notin Refs(x)
        <5>1. x = o /\ u \in {k, v} \ {NoKey} BY <1>4, <2>2, <4>2
        <5> QED BY <2>2, <3>2, <5>1 DEF IsWhite
      <4> QED BY <4>1, <4>2
    <3>3. CASE marked' = [marked EXCEPT ![o] = "gray"]
      <4>1. x # o /\ marked[x] = "black" BY <1>1, <1>3, <2>2, <3>3 DEF Types
      <4> QED BY <1>4, <2>2, <3>1, <4>1
    <3>4. CASE /\ marked[o] = "black" /\ kind[o] \notin TableKinds
               /\ marked' = Marks(marked, {v})
      <4>1. marked'[v] \notin Whites
        <5>1. {v} \subseteq All /\ v \in {v} BY <1>3
        <5> QED BY <1>1, <3>4, <5>1, MarksAre
      <4>2. CASE marked[x] = "black"
        <5>1. kind[o] \notin WeakKinds BY <3>4 DEF TableKinds
        <5>2. u \in Refs(x) \/ u = v BY <1>4, <2>2, <5>1
        <5> QED BY <3>1, <4>1, <4>2, <5>2
      <4>3. CASE marked[x] # "black"
        <5>1. x # o BY <3>4, <4>3
        <5>2. u \in Refs(x) BY <1>4, <2>2, <5>1
        <5>3. {v} \subseteq All BY <1>3
        <5>4. marked[x] \in Whites BY <1>1, <2>2, <3>4, <4>3, <5>3, MarksAre
        <5> QED BY <1>1, <2>2, <3>4, <5>2, <5>3, <5>4, MarksAre
      <4> QED BY <4>2, <4>3
    <3> QED BY <1>1, <1>3, <3>2, <3>3, <3>4, StoreIs
  <2> QED BY <2>1, <2>2 DEF MainInvariant, IsWhite, Listed
<1> QED BY <1>2, <1>8, <1>9, <1>10, <1>11, <1>12, <1>13, <1>14, <1>15, InvMade

\* A reference is dropped.
LEMMA DropStep ==
  ASSUME GcInv, NEW o \in All, NEW e, Drop(o, e), program' = program
  PROVE  GcInv'
<1>1. /\ Types /\ RefTypes /\ LinkedOnce /\ ListsMarked /\ MainMarked /\ MetatablesAre
      /\ NoneEscapes => SafeClosed /\ FreeEmpty /\ SweepInv /\ MainInvariant
  BY InvIs
<1>2. kind' = kind /\ rules' = rules /\ NoneEscapes' = NoneEscapes BY DEF kind, rules, NoneEscapes
<1>3. /\ entries' = [entries EXCEPT ![o] = @ \ {e}]
      /\ UNCHANGED <<marked, finalized, allgc, finobj, tobefnz, gcstate, fullgc, sweepgc>>
      /\ UNCHANGED <<gray, grayagain, weak, ephemeron, allweak>>
  BY DEF Drop, grays, phase
<1>4. /\ \A x \in All : entries'[x] \subseteq entries[x]
      /\ RefTypes'
  BY <1>1, <1>3 DEF RefTypes
<1>5. \A x \in All : Refs(x)' \subseteq Refs(x) BY <1>1, <1>4, FewerRefs
<1>6. /\ Listed' = Listed /\ Invariant' = Invariant /\ ToSweep' = ToSweep
      /\ Pending' = Pending /\ Safe' = Safe
  BY <1>3 DEF Listed, Invariant, ToSweep, Pending, Safe
<1>7. Types' BY <1>1, <1>3, <1>4, <1>6 DEF Types
<1>8. LinkedOnce' BY <1>1, <1>3, Recoloured
<1>9. ListsMarked' /\ MainMarked'
  BY <1>1, <1>2, <1>3, <1>6 DEF ListsMarked, MainMarked
<1>10. MetatablesAre' BY <1>1, <1>2, <1>5 DEF MetatablesAre
<1>11. SettledInv'
  <2>1. NoneWhitened BY <1>3 DEF NoneWhitened
  <2> QED BY <1>1, <1>3, <1>4, <1>6, <2>1, SettledKept DEF Types
<1>12. ASSUME NoneEscapes PROVE SafeClosed' /\ FreeEmpty' /\ SweepInv' /\ MainInvariant'
  <2>1. SafeClosed /\ FreeEmpty /\ SweepInv /\ MainInvariant BY <1>1, <1>12
  <2>2. SafeClosed' BY <1>3, <1>5, <1>6, <2>1 DEF SafeClosed, Safe
  <2>3. FreeEmpty' BY <1>3, <1>4, <2>1 DEF FreeEmpty
  <2>4. SweepInv'
    BY <1>3, <1>6, <2>1 DEF SweepInv, OneWhite, PauseWhite, CursorIn, SweptWhite
  <2>5. MainInvariant'
    BY <1>2, <1>3, <1>5, <1>6, <2>1 DEF MainInvariant, IsWhite
  <2> QED BY <2>2, <2>3, <2>4, <2>5
<1> QED BY <1>2, <1>7, <1>8, <1>9, <1>10, <1>11, <1>12, InvMade

\* An object that moves to finobj and does not escape leaves the sweep as it was.
LEMMA SweepGoesOn ==
  ASSUME Types, LinkedOnce, Types', LinkedOnce', CursorIn, SweptWhite, NEW o \in Range(allgc),
         allgc' = Without(allgc, {o}), finobj' = <<o>> \o finobj, ~Escapes(o),
         marked' = marked, gcstate' = gcstate, sweepgc' = sweepgc,
         gcstate \in {"sweepudata", "sweep"}
  PROVE  CursorIn' /\ SweptWhite'
<1>1. /\ allgc \in Seq(Objects) /\ finobj \in Seq(Objects) /\ o \in Objects
      /\ sweepgc # o /\ (sweepgc # "finobj" => marked[o] = "white")
  BY LinkedAre DEF LinkedOnce, Escapes
<1>2. Range(allgc)' = Range(allgc) \ {o} /\ Range(finobj)' = Range(finobj) \cup {o}
  BY <1>1, WithoutMembers, ConsMembers
<1>3. CursorIn' BY <1>1, <1>2 DEF CursorIn
<1>4. CursorLeads BY ToSweepIs
<1>5. CursorLeads'
  <2>1. (Types /\ LinkedOnce => CursorLeads)' BY ToSweepIs, PTL
  <2> QED BY <2>1
<1>6. \A x \in Pending : x = o \/ x \in Pending'
  <2>1. CASE gcstate = "sweepudata" /\ sweepgc = "finobj"
    <3>1. Range(ToSweep) = Range(finobj) /\ Range(ToSweep)' = Range(finobj)'
      BY <1>4, <1>5, <2>1 DEF CursorLeads
    <3> QED BY <1>2, <2>1, <3>1 DEF Pending
  <2>2. CASE gcstate = "sweepudata" /\ sweepgc \in Range(finobj)
    <3>1. Range(ToSweep) = {x \in Range(finobj) : Follows(finobj, sweepgc, x)}
      BY <1>4, <2>2 DEF CursorLeads
    <3>2. Range(ToSweep)' = {x \in Range(finobj)' : Follows(finobj', sweepgc, x)}
      BY <1>2, <1>5, <2>2 DEF CursorLeads
    <3>3. \A x : Follows(finobj, sweepgc, x) => Follows(finobj', sweepgc, x)
      BY <1>1, FollowsCons
    <3> QED BY <1>2, <2>2, <3>1, <3>2, <3>3 DEF Pending
  <2>3. CASE gcstate = "sweep" /\ sweepgc = "allgc"
    <3>1. Range(ToSweep) = Range(allgc) /\ Range(ToSweep)' = Range(allgc)'
      BY <1>4, <1>5, <2>3 DEF CursorLeads
    <3> QED BY <1>2, <2>3, <3>1 DEF Pending
  <2>4. CASE gcstate = "sweep" /\ sweepgc \in Range(allgc)
    <3>1. Range(ToSweep) = {x \in Range(allgc) : Follows(allgc, sweepgc, x)}
      BY <1>4, <2>4 DEF CursorLeads
    <3>2. Range(ToSweep)' = {x \in Range(allgc)' : Follows(allgc', sweepgc, x)}
      BY <1>1, <1>2, <1>5, <2>4 DEF CursorLeads
    <3>3. \A x : x # o /\ Follows(allgc, sweepgc, x) => Follows(allgc', sweepgc, x)
      BY <1>1, FollowsWithout
    <3> QED BY <1>2, <2>4, <3>1, <3>2, <3>3 DEF Pending
  <2> QED BY <2>1, <2>2, <2>3, <2>4 DEF CursorIn
<1>7. sweepgc = "finobj" => o \in Pending'
  <2> SUFFICES ASSUME sweepgc = "finobj" PROVE o \in Pending' OBVIOUS
  <2>1. ToSweep' = finobj' BY <1>5 DEF CursorLeads
  <2> QED BY <1>2, <2>1 DEF Pending
<1>8. SweptWhite'
  <2> SUFFICES ASSUME NEW x \in (Range(finobj)' \cup Range(allgc)') \ Pending'
               PROVE  marked[x] = "white"
    BY DEF SweptWhite
  <2>1. CASE x = o BY <1>1, <1>7, <2>1
  <2>2. CASE x # o
    <3>1. x \in (Range(finobj) \cup Range(allgc)) \ Pending BY <1>2, <1>6, <2>2
    <3> QED BY <3>1 DEF SweptWhite
  <2> QED BY <2>1, <2>2
<1> QED BY <1>3, <1>8

\* luaC_checkfinalizer.
LEMMA CheckFinalizerStep ==
  ASSUME GcInv, NEW o \in All, CheckFinalizer(o), program' = program
  PROVE  GcInv'
<1>1. /\ Types /\ RefTypes /\ LinkedOnce /\ ListsMarked /\ MainMarked /\ MetatablesAre
      /\ NoneEscapes => SafeClosed /\ FreeEmpty /\ SweepInv /\ MainInvariant
  BY InvIs
<1>2. kind' = kind /\ rules' = rules /\ NoneEscapes' = NoneEscapes BY DEF kind, rules, NoneEscapes
<1>3. /\ allgc' = Without(allgc, {o}) /\ finobj' = <<o>> \o finobj /\ o \in Range(allgc)
      /\ NoneEscapes => ~Escapes(o)
      /\ UNCHANGED <<entries, marked, finalized, tobefnz, gcstate, fullgc, sweepgc>>
      /\ UNCHANGED <<gray, grayagain, weak, ephemeron, allweak>>
  BY DEF CheckFinalizer, grays, phase, NoneEscapes
<1>4. \A x \in All : Refs(x)' = Refs(x) BY <1>3 DEF Refs
<1>5. /\ Listed' = Listed /\ Invariant' = Invariant /\ Safe' = Safe
  BY <1>3 DEF Listed, Invariant, Safe
<1>6. Types' BY <1>1, <1>3, <1>5 DEF Types, RefTypes
<1>7. LinkedOnce'
  <2>1. /\ allgc \in Seq(Objects) /\ finobj \in Seq(Objects) /\ o \in Objects
        /\ IsInjective(allgc) /\ IsInjective(finobj) /\ o \notin Range(finobj)
        /\ o \notin Range(tobefnz)
    BY <1>1, <1>3, LinkedAre DEF LinkedOnce
  <2>2. /\ allgc' \in Seq(Objects) /\ Range(allgc)' = Range(allgc) \ {o}
        /\ IsInjective(allgc)'
    BY <1>3, <2>1, WithoutMembers
  <2>3. /\ finobj' \in Seq(Objects) /\ Range(finobj)' = Range(finobj) \cup {o}
        /\ IsInjective(finobj)'
    BY <1>3, <2>1, ConsMembers
  <2>4. Allocated' = Allocated BY <1>3 DEF Allocated
  <2> QED BY <1>1, <1>3, <2>1, <2>2, <2>3, <2>4 DEF LinkedOnce
<1>8. ListsMarked' /\ MainMarked'
  BY <1>1, <1>2, <1>3, <1>5 DEF ListsMarked, MainMarked
<1>9. MetatablesAre' BY <1>1, <1>2, <1>4 DEF MetatablesAre
<1>10. SettledInv'
  <2>1. NoneWhitened BY <1>3 DEF NoneWhitened
  <2> QED BY <1>1, <1>3, <1>5, <2>1, SettledKept DEF Types
<1>11. ASSUME NoneEscapes PROVE SafeClosed' /\ FreeEmpty' /\ SweepInv' /\ MainInvariant'
  <2>1. SafeClosed /\ FreeEmpty /\ SweepInv /\ MainInvariant BY <1>1, <1>11
  <2>2. SafeClosed' BY <1>3, <1>4, <1>5, <2>1 DEF SafeClosed, Safe
  <2>3. FreeEmpty' BY <1>3, <2>1 DEF FreeEmpty
  <2>4. OneWhite' /\ PauseWhite' BY <1>3, <2>1 DEF SweepInv, OneWhite, PauseWhite
  <2>5. CursorIn' /\ SweptWhite'
    <3>1. CASE gcstate \notin {"sweepudata", "sweep"} BY <1>3, <3>1 DEF CursorIn, SweptWhite
    <3>2. CASE gcstate \in {"sweepudata", "sweep"}
      BY <1>1, <1>3, <1>6, <1>7, <1>11, <2>1, <3>2, SweepGoesOn DEF SweepInv
    <3> QED BY <3>1, <3>2
  <2>6. MainInvariant'
    BY <1>2, <1>3, <1>4, <1>5, <2>1 DEF MainInvariant, IsWhite
  <2> QED BY <2>2, <2>3, <2>4, <2>5, <2>6 DEF SweepInv
<1> QED BY <1>2, <1>6, <1>7, <1>8, <1>9, <1>10, <1>11, InvMade

\* GCTM.
LEMMA FinalizeStep ==
  ASSUME GcInv, Finalize, program' = program
  PROVE  GcInv'
<1> DEFINE o == Head(tobefnz)
<1>0. /\ tobefnz # <<>> /\ tobefnz' = Tail(tobefnz)
      /\ allgc' = <<o>> \o allgc
      /\ marked' = IF Invariant THEN marked ELSE [marked EXCEPT ![o] = "white"]
      /\ entries' = [entries EXCEPT ![Main] = @ \cup {<<NoKey, o>>}]
      /\ UNCHANGED <<finalized, finobj, grays, phase>>
  BY DEF Finalize
<1>1. /\ Types /\ RefTypes /\ LinkedOnce /\ ListsMarked /\ MainMarked /\ MetatablesAre
      /\ NoneEscapes => SafeClosed /\ FreeEmpty /\ SweepInv /\ MainInvariant
  BY InvIs
<1>2. /\ kind' = kind /\ rules' = rules /\ NoneEscapes' = NoneEscapes /\ kind[Main] = "thread" /\ Main \in All
  BY KindsAre, <1>1 DEF kind, rules, NoneEscapes
<1>3. /\ gray' = gray /\ grayagain' = grayagain /\ weak' = weak /\ ephemeron' = ephemeron
      /\ allweak' = allweak /\ Listed' = Listed
      /\ gcstate' = gcstate /\ sweepgc' = sweepgc /\ fullgc' = fullgc
      /\ finalized' = finalized /\ Invariant' = Invariant /\ finobj' = finobj
  BY <1>0 DEF grays, phase, Listed, Invariant
<1>4. /\ o \in Objects /\ o \in Range(tobefnz) /\ tobefnz' \in Seq(Objects)
      /\ Range(tobefnz) = Range(tobefnz') \cup {o}
      /\ IsInjective(tobefnz') /\ o \notin Range(tobefnz')
  <2>1. tobefnz \in Seq(Objects) /\ IsInjective(tobefnz) BY <1>1 DEF LinkedOnce
  <2> QED BY <1>0, <2>1, TailMembers
<1> HIDE DEF o
<1>5. o \in All /\ o # Main /\ marked[o] # "free" BY <1>1, <1>4, LinkedAre
<1>6. /\ RefTypes'
      /\ \A x \in All : x # Main => entries'[x] = entries[x] /\ Refs(x)' = Refs(x)
      /\ Refs(Main)' \subseteq Refs(Main) \cup {o}
  <2> DEFINE e == <<NoKey, o>>
  <2>1. e \in Keys \X Objects BY <1>4 DEF Keys
  <2>2. entries' \in {[entries EXCEPT ![Main] = new] : new \in SUBSET (entries[Main] \cup {e})}
    BY <1>0
  <2>3. e[1] = NoKey /\ e[2] = o OBVIOUS
  <2> HIDE DEF e
  <2>4. /\ RefTypes'
        /\ \A x \in All : x # Main => entries'[x] = entries[x] /\ Refs(x)' = Refs(x)
        /\ Refs(Main)' \subseteq Refs(Main) \cup ({e[1], e[2]} \ {NoKey})
    BY <1>1, <1>2, <2>1, <2>2, StoreKeepsTypes
  <2> QED BY <2>3, <2>4
<1>7. /\ marked' \in [All -> Colours]
      /\ \A x \in All : x # o => marked'[x] = marked[x]
      /\ Invariant => marked' = marked
      /\ ~Invariant => marked'[o] = "white"
      /\ marked'[o] = marked[o] \/ marked'[o] = "white"
  BY <1>0, <1>1, <1>5 DEF Types, Colours, Whites
<1>8. Types' BY <1>1, <1>3, <1>6, <1>7 DEF Types
<1>9. /\ allgc' \in Seq(Objects) /\ Range(allgc') = Range(allgc) \cup {o}
      /\ IsInjective(allgc') /\ o \notin Range(allgc) \cup Range(finobj)
  <2>1. o \notin Range(allgc) \cup Range(finobj) BY <1>1, <1>4 DEF LinkedOnce
  <2> QED BY <1>0, <1>1, <1>4, <2>1, ConsMembers DEF LinkedOnce
<1>10. LinkedOnce'
  <2>1. Allocated' = Allocated
    <3>1. \A x \in All : marked'[x] = "free" <=> marked[x] = "free" BY <1>5, <1>7
    <3> QED BY <3>1 DEF Allocated
  <2> QED BY <1>1, <1>3, <1>4, <1>9, <2>1 DEF LinkedOnce
<1>11. ListsMarked' /\ MainMarked'
  BY <1>1, <1>2, <1>3, <1>5, <1>7 DEF ListsMarked, MainMarked, Types, Listed
<1>12. MetatablesAre' BY <1>1, <1>2, <1>6 DEF MetatablesAre
<1>13. SettledInv'
  <2>1. Invariant => NoneWhitened BY <1>7 DEF NoneWhitened
  <2>2. ASSUME NEW x \in allweak, kind[x] = "ephemeron" PROVE entries'[x] \subseteq entries[x]
    BY <1>1, <1>2, <1>6, <2>2 DEF Types, Listed
  <2> QED BY <1>1, <1>3, <1>8, <2>1, <2>2, SettledKept DEF Types
<1>14. ASSUME NoneEscapes PROVE SafeClosed' /\ FreeEmpty' /\ SweepInv' /\ MainInvariant'
  <2>1. SafeClosed /\ FreeEmpty /\ SweepInv /\ MainInvariant BY <1>1, <1>14
  <2>2. Safe' = Safe
    <3>1. o \in Safe BY <1>4, <2>1 DEF SafeClosed
    <3> QED BY <1>5, <1>7, <3>1 DEF Safe
  <2>3. SafeClosed'
    <3>1. o \in Safe BY <1>4, <2>1 DEF SafeClosed
    <3>2. \A x \in Safe : Refs(x)' \subseteq Safe
      BY <1>2, <1>6, <2>1, <3>1 DEF SafeClosed, Safe
    <3>3. Range(tobefnz') \subseteq Safe BY <1>4, <2>1 DEF SafeClosed
    <3> QED BY <2>1, <2>2, <3>2, <3>3 DEF SafeClosed
  <2>4. FreeEmpty' BY <1>1, <1>5, <1>6, <1>7, <2>1 DEF FreeEmpty, MainMarked
  <2>5. OneWhite' BY <1>3, <1>7, <2>1 DEF SweepInv, OneWhite
  <2>6. PauseWhite'
    <3> SUFFICES ASSUME gcstate = "pause", NEW x \in All
                 PROVE  marked'[x] \in {"white", "free"} \/ x \in Range(tobefnz')
      BY <1>3 DEF PauseWhite
    <3>1. ~Invariant BY DEF Invariant
    <3>2. marked[x] \in {"white", "free"} \/ x \in Range(tobefnz)
      BY <2>1 DEF SweepInv, PauseWhite
    <3> QED BY <1>4, <1>7, <3>1, <3>2
  <2>7. CursorIn' BY <1>3, <1>9, <2>1 DEF SweepInv, CursorIn
  <2>8. SweptWhite'
    <3> SUFFICES ASSUME gcstate \in {"sweepudata", "sweep"},
                        NEW x \in Range(finobj)' \cup Range(allgc)', x \notin Pending'
                 PROVE  marked'[x] = "white"
      BY <1>3 DEF SweptWhite
    <3>1. ~Invariant BY DEF Invariant
    <3>2. CASE x = o BY <1>7, <3>1, <3>2
    <3>3. CASE x # o
      <4>1. x \in Range(finobj) \cup Range(allgc) BY <1>3, <1>9, <3>3
      <4>2. x \in All BY <1>1, <4>1, LinkedAre
      <4>3. CursorIn BY <2>1 DEF SweepInv
      <4>4. Pending \subseteq Pending' BY <1>0, <1>1, <1>3, <1>4, <1>8, <1>10, <4>3, PendingCons
      <4>5. marked[x] = "white" BY <2>1, <4>1, <4>4 DEF SweepInv, SweptWhite
      <4> QED BY <1>7, <3>3, <4>2, <4>5
    <3> QED BY <3>2, <3>3
  <2>9. MainInvariant'
    <3> SUFFICES ASSUME Invariant PROVE MainInvariant' BY <1>3 DEF MainInvariant
    <3>1. marked[Main] # "black" /\ marked' = marked BY <1>1, <1>7 DEF MainMarked
    <3>2. \A x \in All : marked[x] = "black" => Refs(x)' = Refs(x) BY <1>6, <3>1
    <3> QED BY <1>2, <1>3, <2>1, <3>1, <3>2 DEF MainInvariant, IsWhite
  <2> QED BY <2>3, <2>4, <2>5, <2>6, <2>7, <2>8, <2>9 DEF SweepInv
<1> QED BY <1>2, <1>8, <1>10, <1>11, <1>12, <1>13, <1>14, InvMade

\* luaC_fullgc begins.
LEMMA BeginFullGCStep ==
  ASSUME GcInv, BeginFullGC, program' = program
  PROVE  GcInv'
<1>1. /\ Types /\ RefTypes /\ LinkedOnce /\ ListsMarked /\ MainMarked /\ MetatablesAre
      /\ NoneEscapes => SafeClosed /\ FreeEmpty /\ SweepInv /\ MainInvariant
  BY InvIs
<1>2. kind' = kind /\ rules' = rules /\ NoneEscapes' = NoneEscapes BY DEF kind, rules, NoneEscapes
<1>3. /\ UNCHANGED <<entries, marked, finalized, allgc, finobj, tobefnz, sweepgc>>
      /\ UNCHANGED <<gray, grayagain, weak, ephemeron, allweak>>
      /\ fullgc' \in {"run", "finish"}
      /\ gcstate' = IF Invariant THEN "sweepstring" ELSE gcstate
  BY DEF BeginFullGC, heap, grays
<1>4. \A x \in All : Refs(x)' = Refs(x) BY <1>3 DEF Refs
<1>5. /\ Listed' = Listed /\ Safe' = Safe /\ ~Invariant'
      /\ gcstate' = "sweepstring" \/ gcstate' = gcstate
  BY <1>3 DEF Listed, Invariant, Safe
<1>6. Types' BY <1>1, <1>3, <1>5 DEF Types, RefTypes
<1>7. LinkedOnce' BY <1>1, <1>3, Recoloured
<1>8. ListsMarked' /\ MainMarked' /\ SettledInv'
  BY <1>1, <1>3, <1>5 DEF ListsMarked, MainMarked, SettledInv
<1>9. MetatablesAre' BY <1>1, <1>2, <1>4 DEF MetatablesAre
<1>10. ASSUME NoneEscapes PROVE SafeClosed' /\ FreeEmpty' /\ SweepInv' /\ MainInvariant'
  <2>1. SafeClosed /\ FreeEmpty /\ SweepInv /\ MainInvariant BY <1>1, <1>10
  <2>2. SafeClosed' BY <1>3, <1>4, <1>5, <2>1 DEF SafeClosed, Safe
  <2>3. FreeEmpty' BY <1>3, <2>1 DEF FreeEmpty
  <2>4. gcstate' \in {"sweepudata", "sweep"} => Pending' = Pending
    BY <1>3, <1>5 DEF Pending, ToSweep
  <2>5. SweepInv'
    BY <1>3, <1>5, <2>1, <2>4 DEF SweepInv, OneWhite, PauseWhite, CursorIn, SweptWhite
  <2>6. MainInvariant' BY <1>5 DEF MainInvariant
  <2> QED BY <2>2, <2>3, <2>5, <2>6
<1> QED BY <1>2, <1>6, <1>7, <1>8, <1>9, <1>10, InvMade

-----------------------------------------------------------------------------
(* Steps of the collector: marking *)

\* Marking changes colours to colours.
LEMMA MarksTypes ==
  ASSUME RefTypes, MetatablesAre, NEW m \in [All -> Colours], NEW S, S \subseteq All
  PROVE  Marks(m, S) \in [All -> Colours]
<1>1. /\ DOMAIN Marks(m, S) = All
      /\ \A x \in All : Marks(m, S)[x] \in {m[x], "gray", "black"}
  BY MarksAre
<1>2. \A x \in All : m[x] \in Colours OBVIOUS
<1>3. Marks(m, S) = [x \in All |-> Marks(m, S)[x]] BY <1>1 DEF Marks
<1> QED BY <1>1, <1>2, <1>3 DEF Colours

\* markroot.
LEMMA MarkRootStep ==
  ASSUME GcInv, MarkRoot, program' = program
  PROVE  GcInv'
<1> DEFINE m == [o \in All |-> IF o \in Range(tobefnz) THEN "white" ELSE marked[o]]
           S == {Main} \cup Range(tobefnz)
<1>1. /\ Types /\ RefTypes /\ LinkedOnce /\ ListsMarked /\ MainMarked /\ MetatablesAre
      /\ NoneEscapes => SafeClosed /\ FreeEmpty /\ SweepInv /\ MainInvariant
  BY InvIs
<1>2. /\ kind' = kind /\ rules' = rules /\ NoneEscapes' = NoneEscapes /\ kind[Main] = "thread" /\ Main \in All
  BY <1>1, KindsAre DEF kind, rules, NoneEscapes
<1>3. /\ gcstate = "pause" /\ gcstate' = "propagate"
      /\ marked' = Marks(m, S)
      /\ gray' = NewlyGray(m, marked')
      /\ grayagain' = {} /\ weak' = {} /\ ephemeron' = {} /\ allweak' = {}
      /\ UNCHANGED <<entries, finalized, allgc, finobj, tobefnz, fullgc, sweepgc>>
  BY DEF MarkRoot
<1>4. /\ S \subseteq All /\ m \in [All -> Colours]
      /\ \A x \in All : x \in Range(tobefnz) => m[x] = "white" /\ marked[x] # "free"
      /\ \A x \in All : x \notin Range(tobefnz) => m[x] = marked[x]
      /\ Main \notin Range(tobefnz)
  BY <1>1, <1>2, LinkedAre DEF Types, Colours, Whites
<1> HIDE DEF m, S
<1>5. /\ marked' \in [All -> Colours]
      /\ \A x \in All : m[x] \notin Whites => marked'[x] = m[x]
      /\ \A x \in All : marked'[x] \in {m[x], "gray", "black"}
      /\ \A x \in All : m[x] \in Whites /\ marked'[x] = "black" =>
            /\ kind[x] = "userdata"
            /\ \A v \in Refs(x) : marked'[v] \notin Whites
      /\ marked'[Main] \notin Whites
  <2>1. Main \in S BY DEF S
  <2> QED BY <1>1, <1>3, <1>4, <2>1, MarksAre, MarksTypes
<1>6. \A x \in All : Refs(x)' = Refs(x) BY <1>3 DEF Refs
<1>7. /\ Listed' = NewlyGray(m, marked') /\ Invariant'
      /\ Listed' \subseteq All
  BY <1>3 DEF Listed, Invariant, NewlyGray
<1>8. Types' BY <1>1, <1>3, <1>5, <1>7 DEF Types, RefTypes
<1>9. \A x \in All : marked'[x] = "free" <=> marked[x] = "free"
  BY <1>4, <1>5 DEF Whites
<1>10. LinkedOnce' BY <1>1, <1>3, <1>9, Recoloured
<1>11. ListsMarked' BY <1>3, <1>7 DEF ListsMarked, NewlyGray
<1>12. MainMarked'
  BY <1>1, <1>2, <1>4, <1>5 DEF MainMarked, Whites
<1>13. MetatablesAre' BY <1>1, <1>2, <1>6 DEF MetatablesAre
<1>14. SettledInv' BY <1>3 DEF SettledInv
<1>15. ASSUME NoneEscapes PROVE SafeClosed' /\ FreeEmpty' /\ SweepInv' /\ MainInvariant'
  <2>1. SafeClosed /\ FreeEmpty /\ SweepInv BY <1>1, <1>15
  <2>2. \A x \in All : m[x] \in {"white", "free"}
    BY <1>3, <1>4, <2>1 DEF SweepInv, PauseWhite
  <2>3. \A x \in All : marked'[x] # "otherwhite" /\ marked[x] # "otherwhite"
    BY <1>3, <1>5, <2>1, <2>2 DEF SweepInv, OneWhite
  <2>4. Safe' = Safe BY <1>9, <2>3 DEF Safe
  <2>5. SafeClosed' BY <1>3, <1>6, <2>1, <2>4 DEF SafeClosed, Safe
  <2>6. FreeEmpty' BY <1>3, <1>9, <2>1 DEF FreeEmpty
  <2>7. SweepInv'
    BY <1>3, <2>3 DEF SweepInv, OneWhite, PauseWhite, CursorIn, SweptWhite
  <2>8. ASSUME NEW x \in All, marked'[x] = "black", NEW v \in Refs(x)'
        PROVE  marked'[v] \notin Whites
    BY <1>5, <1>6, <2>2, <2>8 DEF Whites
  <2>9. ASSUME NEW x \in All, marked'[x] = "gray" PROVE x \in Listed'
    BY <1>5, <1>7, <2>2, <2>9 DEF Whites, NewlyGray
  <2>10. MainInvariant' BY <2>8, <2>9 DEF MainInvariant, IsWhite, Listed
  <2> QED BY <2>5, <2>6, <2>7, <2>10
<1> QED BY <1>2, <1>8, <1>10, <1>11, <1>12, <1>13, <1>14, <1>15, InvMade

\* What the traversal of one object does to the colours and the lists.
LEMMA PropagateMarkIs ==
  ASSUME Types, MetatablesAre, NEW o \in All, PropagateMark(o)
  PROVE  /\ gcstate = "propagate" /\ o \in gray
         /\ UNCHANGED <<entries, finalized, allgc, finobj, tobefnz, gcstate, fullgc, sweepgc>>
         /\ marked' \in [All -> Colours]
         /\ marked'[o] = Done(o)
         /\ \A x \in All : x # o /\ marked[x] \notin Whites => marked'[x] = marked[x]
         /\ \A x \in All : x # o => marked'[x] \in {marked[x], "gray", "black"}
         /\ \A x \in All : x # o /\ marked[x] \in Whites /\ marked'[x] = "black" =>
               \A v \in Refs(x) : marked'[v] \notin Whites
         /\ \A x \in All : x # o /\ marked[x] \in Whites /\ marked'[x] = "gray" => x \in gray'
         /\ Done(o) = "black" => \A v \in Refs(o) : marked'[v] \notin Whites
         /\ Done(o) = "gray" => o \in Listed'
         /\ \A x \in Listed' \ Listed : x = o \/ (x \in All /\ marked'[x] = "gray")
         /\ Listed \subseteq Listed' \cup {o}
         /\ allweak' \subseteq allweak \cup {o}
         /\ o \in allweak' \ allweak =>
               /\ kind[o] \in {"allweak", "ephemeron"}
               /\ kind[o] = "ephemeron" => \A e \in entries[o] : marked'[e[2]] \notin Whites
<1> DEFINE M == {x \in All : ~IsWhite(x)}
           m == [marked EXCEPT ![o] = Done(o)]
           T == Traversed(o, M)
           n == Marks(m, T)
           whitekeys == {e \in entries[o] : e[1] \notin M \cup {NoKey}}
           to == CASE kind[o] = "thread" -> "grayagain"
                   [] kind[o] = "allweak" -> "allweak"
                   [] kind[o] = "weakvalue" ->
                        IF \E e \in entries[o] : n[e[2]] \in Whites
                        THEN "weak" ELSE "grayagain"
                   [] kind[o] = "ephemeron" ->
                        IF \E e \in whitekeys : n[e[2]] \in Whites
                        THEN "ephemeron"
                        ELSE IF whitekeys # {} THEN "allweak" ELSE "grayagain"
                   [] OTHER -> "none"
<1>1. /\ RefTypes /\ marked \in [All -> Colours] /\ kind[o] \in Kinds
      /\ Refs(o) \subseteq All
  BY RefsAre, KindsAre DEF Types
<1>2. /\ gcstate = "propagate" /\ o \in gray /\ marked' = n
      /\ gray' = (gray \ {o}) \cup NewlyGray(m, n)
      /\ grayagain' = IF to = "grayagain" THEN grayagain \cup {o} ELSE grayagain
      /\ weak' = IF to = "weak" THEN weak \cup {o} ELSE weak
      /\ ephemeron' = IF to = "ephemeron" THEN ephemeron \cup {o} ELSE ephemeron
      /\ allweak' = IF to = "allweak" THEN allweak \cup {o} ELSE allweak
      /\ UNCHANGED <<entries, finalized, allgc, finobj, tobefnz, gcstate, fullgc, sweepgc>>
  BY DEF PropagateMark, phase
<1>3. /\ kind[o] \in WeakKinds \cup {"thread"} =>
            to \in {"grayagain", "weak", "ephemeron", "allweak"}
      /\ to = "allweak" => kind[o] \in {"allweak", "ephemeron"}
      /\ to = "allweak" /\ kind[o] = "ephemeron" =>
            \A e \in whitekeys : n[e[2]] \notin Whites
  BY DEF WeakKinds
<1>4. /\ T \subseteq Refs(o) /\ T \subseteq All
      /\ kind[o] \notin WeakKinds => T = Refs(o)
      /\ kind[o] = "ephemeron" =>
            \A e \in entries[o] : e[1] \in M \cup {NoKey} => e[2] \in T
  BY <1>1, TraversedIs
<1>5. whitekeys = {e \in entries[o] : e[1] \notin M \cup {NoKey}} OBVIOUS
<1>6. /\ Done(o) \in {"gray", "black"}
      /\ Done(o) = "gray" <=> kind[o] \in WeakKinds \cup {"thread"}
  BY DEF Done
<1>7. /\ m \in [All -> Colours] /\ m[o] = Done(o)
      /\ \A x \in All : x # o => m[x] = marked[x]
  BY <1>1, <1>6 DEF Colours
<1> HIDE DEF m, T, M, whitekeys, to
<1>8. /\ n \in [All -> Colours]
      /\ \A x \in All : m[x] \notin Whites => n[x] = m[x]
      /\ \A x \in All : n[x] \in {m[x], "gray", "black"}
      /\ \A x \in T : n[x] \notin Whites
      /\ \A x \in All : m[x] \in Whites /\ n[x] = "black" =>
            \A v \in Refs(x) : n[v] \notin Whites
  BY <1>1, <1>4, <1>7, MarksAre, MarksTypes
<1>9. /\ n[o] = Done(o)
      /\ Done(o) = "black" => \A v \in Refs(o) : n[v] \notin Whites
  BY <1>4, <1>6, <1>7, <1>8 DEF Whites
<1>10. to = "allweak" /\ kind[o] = "ephemeron" => \A e \in entries[o] : n[e[2]] \notin Whites
  BY <1>3, <1>4, <1>5, <1>8
<1>11. \A x \in All : x # o /\ marked[x] \in Whites /\ n[x] = "gray" => x \in NewlyGray(m, n)
  BY <1>7 DEF NewlyGray
<1>12. \A x \in NewlyGray(m, n) : x \in All /\ n[x] = "gray" BY DEF NewlyGray
<1> HIDE DEF n
<1>13. /\ Done(o) = "gray" => o \in Listed'
       /\ \A x \in Listed' \ Listed : x = o \/ (x \in All /\ marked'[x] = "gray")
       /\ Listed \subseteq Listed' \cup {o}
       /\ allweak' \subseteq allweak \cup {o}
       /\ o \in allweak' \ allweak => to = "allweak"
  BY <1>2, <1>3, <1>6, <1>12 DEF Listed
<1> QED BY <1>2, <1>3, <1>7, <1>8, <1>9, <1>10, <1>11, <1>13

\* propagatemark.
LEMMA PropagateMarkStep ==
  ASSUME GcInv, NEW o \in All, PropagateMark(o), program' = program
  PROVE  GcInv'
<1>1. /\ Types /\ RefTypes /\ LinkedOnce /\ ListsMarked /\ MainMarked /\ MetatablesAre
      /\ NoneEscapes => SafeClosed /\ FreeEmpty /\ SweepInv /\ MainInvariant
  BY InvIs
<1>2. /\ kind' = kind /\ rules' = rules /\ NoneEscapes' = NoneEscapes /\ kind[Main] = "thread" /\ Main \in All
  BY <1>1, KindsAre DEF kind, rules, NoneEscapes
<1>3. /\ gcstate = "propagate" /\ o \in gray
      /\ UNCHANGED <<entries, finalized, allgc, finobj, tobefnz, gcstate, fullgc, sweepgc>>
      /\ marked' \in [All -> Colours]
      /\ marked'[o] = Done(o)
      /\ \A x \in All : x # o /\ marked[x] \notin Whites => marked'[x] = marked[x]
      /\ \A x \in All : x # o => marked'[x] \in {marked[x], "gray", "black"}
  BY <1>1, PropagateMarkIs
<1>4. /\ \A x \in Listed' \ Listed : x = o \/ (x \in All /\ marked'[x] = "gray")
      /\ Listed \subseteq Listed' \cup {o}
      /\ allweak' \subseteq allweak \cup {o}
      /\ o \in allweak' \ allweak =>
            /\ kind[o] \in {"allweak", "ephemeron"}
            /\ kind[o] = "ephemeron" => \A e \in entries[o] : marked'[e[2]] \notin Whites
  BY <1>1, PropagateMarkIs
<1>5. Invariant /\ Invariant' /\ marked[o] \in {"gray", "black"} /\ Done(o) \in {"gray", "black"}
  BY <1>1, <1>3 DEF Invariant, ListsMarked, Listed, Done
<1>6. /\ \A x \in All : marked[x] \notin Whites => marked'[x] \notin Whites
      /\ \A x \in All : marked'[x] = "free" <=> marked[x] = "free"
      /\ NoneWhitened
  BY <1>1, <1>3, <1>5 DEF Whites, NoneWhitened
<1>7. \A x \in All : Refs(x)' = Refs(x) BY <1>3 DEF Refs
<1>8. Types' BY <1>1, <1>3, <1>4 DEF Types, RefTypes
<1>9. LinkedOnce' BY <1>1, <1>3, <1>6, Recoloured
<1>10. ListsMarked'
  <2>1. \A x \in Listed' : marked'[x] \in {"gray", "black"}
    BY <1>1, <1>3, <1>4, <1>5, <1>6 DEF ListsMarked, NoneWhitened, Types
  <2>2. \A x \in allweak' : kind[x] \in {"allweak", "ephemeron"}
    BY <1>1, <1>4, <1>5 DEF ListsMarked
  <2> QED BY <1>2, <2>1, <2>2 DEF ListsMarked
<1>11. MainMarked'
  <2>1. o = Main => Done(o) = "gray" BY <1>2 DEF Done
  <2> QED BY <1>1, <1>2, <1>3, <1>5, <2>1 DEF MainMarked, Whites
<1>12. MetatablesAre' BY <1>1, <1>2, <1>7 DEF MetatablesAre
<1>13. SettledInv'
  <2> SUFFICES ASSUME NoneEscapes /\ "settled" \in rules, NEW x \in allweak',
                      kind[x] = "ephemeron", NEW e \in entries[x]
               PROVE  marked'[e[2]] \notin Whites
    BY <1>2, <1>3 DEF SettledInv, IsWhite
  <2>1. CASE x \in allweak
    <3>1. x \in All BY <1>1, <2>1 DEF Types, Listed
    <3>2. e[2] \in All BY <1>1, <3>1, RefsAre, KindsAre
    <3>3. ~IsWhite(e[2]) BY <1>5, <2>1 DEF GcInv, SettledInv
    <3> QED BY <1>6, <3>2, <3>3 DEF IsWhite
  <2>2. CASE x \notin allweak BY <1>4, <2>2
  <2> QED BY <2>1, <2>2
<1>14. ASSUME NoneEscapes PROVE SafeClosed' /\ FreeEmpty' /\ SweepInv' /\ MainInvariant'
  <2>1. SafeClosed /\ FreeEmpty /\ SweepInv /\ MainInvariant BY <1>1, <1>14
  <2>2. \A x \in All : marked'[x] # "otherwhite" /\ marked[x] # "otherwhite"
    BY <1>3, <1>5, <2>1 DEF SweepInv, OneWhite
  <2>3. Safe' = Safe BY <1>6, <2>2 DEF Safe
  <2>4. SafeClosed' BY <1>3, <1>7, <2>1, <2>3 DEF SafeClosed, Safe
  <2>5. FreeEmpty' BY <1>3, <1>6, <2>1 DEF FreeEmpty
  <2>6. SweepInv'
    BY <1>3, <2>2 DEF SweepInv, OneWhite, PauseWhite, CursorIn, SweptWhite
  <2>7. ASSUME NEW x \in All, marked'[x] = "black", NEW v \in Refs(x)
        PROVE  marked'[v] \notin Whites
    <3>1. CASE x = o BY <1>1, <1>3, <2>7, <3>1, PropagateMarkIs
    <3>2. CASE x # o /\ marked[x] \in Whites BY <1>1, <2>7, <3>2, PropagateMarkIs
    <3>3. CASE x # o /\ marked[x] \notin Whites
      <4>1. marked[x] = "black" BY <1>3, <2>7, <3>3
      <4>2. marked[v] \notin Whites BY <1>5, <1>14, <2>1, <2>7, <4>1 DEF MainInvariant, IsWhite
      <4>3. v \in All BY <1>1, <2>7, RefsAre, KindsAre
      <4> QED BY <1>6, <4>2, <4>3
    <3> QED BY <3>1, <3>2, <3>3
  <2>8. ASSUME NEW x \in All, marked'[x] = "gray" PROVE x \in Listed'
    <3>1. CASE x = o BY <1>1, <1>3, <2>8, <3>1, PropagateMarkIs
    <3>2. CASE x # o /\ marked[x] \in Whites
      <4>1. x \in gray' BY <1>1, <2>8, <3>2, PropagateMarkIs
      <4> QED BY <4>1 DEF Listed
    <3>3. CASE x # o /\ marked[x] \notin Whites
      <4>1. marked[x] = "gray" BY <1>3, <2>8, <3>3
      <4>2. x \in Listed BY <1>5, <1>14, <2>1, <4>1 DEF MainInvariant, Listed
      <4> QED BY <1>4, <3>3, <4>2
    <3> QED BY <3>1, <3>2, <3>3
  <2>9. MainInvariant' BY <1>7, <2>7, <2>8 DEF MainInvariant, IsWhite, Listed
  <2> QED BY <2>4, <2>5, <2>6, <2>9
<1> QED BY <1>2, <1>8, <1>9, <1>10, <1>11, <1>12, <1>13, <1>14, InvMade

-----------------------------------------------------------------------------
(* Steps of the collector: the sweep *)

\* The list that is swept.
SweepList == IF gcstate = "sweepudata" THEN finobj ELSE allgc

\* What the cursor leads to in that list: all of it, or what comes after an object.
LEMMA CursorIs ==
  ASSUME Types, LinkedOnce, CursorIn, gcstate \in {"sweepudata", "sweep"}
  PROVE  /\ SweepList \in Seq(Objects) /\ IsInjective(SweepList)
         /\ \/ sweepgc \notin Objects /\ ToSweep = SweepList
            \/ /\ sweepgc \in Range(SweepList)
               /\ ToSweep = After(SweepList, sweepgc)
               /\ Range(ToSweep) = {x \in Range(SweepList) : Follows(SweepList, sweepgc, x)}
<1>1. CursorLeads BY ToSweepIs
<1>2. CASE gcstate = "sweepudata"
  <2>1. SweepList = finobj BY <1>2 DEF SweepList
  <2> QED BY <1>1, <1>2, <2>1, GcNamesAssumption DEF CursorLeads, CursorIn, LinkedOnce
<1>3. CASE gcstate = "sweep"
  <2>1. SweepList = allgc BY <1>3 DEF SweepList
  <2> QED BY <1>1, <1>3, <2>1, GcNamesAssumption DEF CursorLeads, CursorIn, LinkedOnce
<1> QED BY <1>2, <1>3

\* The next object to sweep, and those that come after it.
LEMMA NextSwept ==
  ASSUME Types, LinkedOnce, CursorIn, gcstate \in {"sweepudata", "sweep"},
         ToSweep # <<>>
  PROVE  /\ Head(ToSweep) \in Range(SweepList) /\ Head(ToSweep) # sweepgc
         /\ Range(ToSweep) \subseteq Range(SweepList)
         /\ \A x \in Range(ToSweep) : x = Head(ToSweep) \/ Follows(SweepList, Head(ToSweep), x)
<1> DEFINE L == SweepList
<1>1. /\ L \in Seq(Objects) /\ IsInjective(L)
      /\ \/ sweepgc \notin Objects /\ ToSweep = L
         \/ /\ sweepgc \in Range(L)
            /\ ToSweep = After(L, sweepgc)
            /\ Range(ToSweep) = {x \in Range(L) : Follows(L, sweepgc, x)}
  BY CursorIs
<1> HIDE DEF L
<1>2. CASE sweepgc \notin Objects /\ ToSweep = L
  <2>1. /\ Head(L) \in Range(L)
        /\ \A x \in Range(L) : x = Head(L) \/ Follows(L, Head(L), x)
    BY <1>1, <1>2, AfterHead
  <2>2. Head(L) \in Objects BY <1>1, <1>2
  <2> QED BY <1>2, <2>1, <2>2 DEF L
<1>3. CASE /\ sweepgc \in Range(L) /\ ToSweep = After(L, sweepgc)
           /\ Range(ToSweep) = {x \in Range(L) : Follows(L, sweepgc, x)}
  <2> DEFINE h == Head(ToSweep)
  <2>1. /\ Follows(L, sweepgc, h)
        /\ \A x : Follows(L, sweepgc, x) => x = h \/ Follows(L, h, x)
    BY <1>1, <1>3, AfterIs
  <2> HIDE DEF h
  <2>2. PICK i, j \in DOMAIN L : i < j /\ L[i] = sweepgc /\ L[j] = h BY <2>1 DEF Follows
  <2>3. h \in Range(L) BY <2>2 DEF Range
  <2>4. h # sweepgc
    <3>1. i # j
      <4>1. i \in Nat /\ j \in Nat BY <1>1
      <4> QED BY <2>2, <4>1
    <3> QED BY <1>1, <2>2, <3>1 DEF IsInjective
  <2> QED BY <1>3, <2>1, <2>3, <2>4 DEF h, L
<1> QED BY <1>1, <1>2, <1>3

\* A step that only moves the cursor to the head of a list.
LEMMA SweepBegins ==
  ASSUME GcInv, program' = program,
         UNCHANGED <<entries, marked, finalized, allgc, finobj, tobefnz, fullgc>>,
         UNCHANGED <<gray, grayagain, weak, ephemeron, allweak>>,
         \/ gcstate' = "sweepudata" /\ sweepgc' = "finobj"
         \/ gcstate' = "sweep" /\ sweepgc' = "allgc" /\ Pending = Range(allgc)
            /\ gcstate = "sweepudata"
  PROVE  GcInv'
<1>1. /\ Types /\ RefTypes /\ LinkedOnce /\ ListsMarked /\ MainMarked /\ MetatablesAre
      /\ NoneEscapes => SafeClosed /\ FreeEmpty /\ SweepInv /\ MainInvariant
  BY InvIs
<1>2. kind' = kind /\ rules' = rules /\ NoneEscapes' = NoneEscapes BY DEF kind, rules, NoneEscapes
<1>3. \A x \in All : Refs(x)' = Refs(x) BY DEF Refs
<1>4. Listed' = Listed /\ Safe' = Safe /\ ~Invariant' BY DEF Listed, Invariant, Safe
<1>5. Types' BY <1>1, <1>4 DEF Types, RefTypes
<1>6. LinkedOnce' BY <1>1, Recoloured
<1>7. ListsMarked' /\ MainMarked' /\ SettledInv'
  BY <1>1, <1>4 DEF ListsMarked, MainMarked, SettledInv
<1>8. MetatablesAre' BY <1>1, <1>2, <1>3 DEF MetatablesAre
<1>9. ASSUME NoneEscapes PROVE SafeClosed' /\ FreeEmpty' /\ SweepInv' /\ MainInvariant'
  <2>1. SafeClosed /\ FreeEmpty /\ SweepInv BY <1>1, <1>9
  <2>2. SafeClosed' BY <1>3, <1>4, <2>1 DEF SafeClosed, Safe
  <2>3. FreeEmpty' BY <2>1 DEF FreeEmpty
  <2>4. CursorLeads'
    <3>1. (Types /\ LinkedOnce => CursorLeads)' BY ToSweepIs, PTL
    <3> QED BY <1>5, <1>6, <3>1
  <2>5. CursorIn' BY DEF CursorIn
  <2>6. SweptWhite'
    <3>1. CASE gcstate' = "sweepudata" /\ sweepgc' = "finobj"
      <4>1. Pending' = Range(finobj) \cup Range(allgc)
        BY <2>4, <3>1 DEF CursorLeads, Pending
      <4> QED BY <4>1 DEF SweptWhite
    <3>2. CASE /\ gcstate' = "sweep" /\ sweepgc' = "allgc" /\ Pending = Range(allgc)
               /\ gcstate = "sweepudata"
      <4>1. Pending' = Range(allgc) BY <2>4, <3>2 DEF CursorLeads, Pending
      <4> QED BY <2>1, <3>2, <4>1 DEF SweepInv, SweptWhite
    <3> QED BY <3>1, <3>2
  <2>7. SweepInv' BY <2>5, <2>6 DEF SweepInv, OneWhite, PauseWhite
  <2>8. MainInvariant' BY <1>4 DEF MainInvariant
  <2> QED BY <2>2, <2>3, <2>7, <2>8
<1> QED BY <1>2, <1>5, <1>6, <1>7, <1>8, <1>9, InvMade

\* GCSsweepstring.
LEMMA SweepStringsStep ==
  ASSUME GcInv, SweepStrings, program' = program
  PROVE  GcInv'
BY SweepBegins DEF SweepStrings, heap, grays

\* The end of finobj.
LEMMA SweepNextListStep ==
  ASSUME GcInv, SweepNextList, program' = program
  PROVE  GcInv'
<1>1. /\ gcstate = "sweepudata" /\ ToSweep = <<>>
      /\ gcstate' = "sweep" /\ sweepgc' = "allgc"
      /\ UNCHANGED <<entries, marked, finalized, allgc, finobj, tobefnz, fullgc>>
      /\ UNCHANGED <<gray, grayagain, weak, ephemeron, allweak>>
  BY DEF SweepNextList, heap, grays
<1>2. Pending = Range(allgc) BY <1>1 DEF Pending, Range
<1> QED BY <1>1, <1>2, SweepBegins

\* The end of allgc.
LEMMA EndCycleStep ==
  ASSUME GcInv, EndCycle, program' = program
  PROVE  GcInv'
<1>1. /\ Types /\ RefTypes /\ LinkedOnce /\ ListsMarked /\ MainMarked /\ MetatablesAre
      /\ NoneEscapes => SafeClosed /\ FreeEmpty /\ SweepInv /\ MainInvariant
  BY InvIs
<1>2. kind' = kind /\ rules' = rules /\ NoneEscapes' = NoneEscapes /\ Main \in All
  BY <1>1, KindsAre DEF kind, rules, NoneEscapes
<1>3. /\ gcstate = "sweep" /\ ToSweep = <<>> /\ gcstate' = "pause" /\ sweepgc' = "allgc"
      /\ marked' = [marked EXCEPT ![Main] = "white"]
      /\ fullgc' \in {"run", "no"}
      /\ UNCHANGED <<entries, finalized, allgc, finobj, tobefnz>>
      /\ UNCHANGED <<gray, grayagain, weak, ephemeron, allweak>>
  BY DEF EndCycle, grays
<1>4. \A x \in All : Refs(x)' = Refs(x) BY <1>3 DEF Refs
<1>5. Listed' = Listed /\ ~Invariant' BY <1>3 DEF Listed, Invariant
<1>6. /\ marked' \in [All -> Colours] /\ marked'[Main] = "white"
      /\ \A x \in All : x # Main => marked'[x] = marked[x]
      /\ \A x \in All : marked'[x] = "free" <=> marked[x] = "free"
  BY <1>1, <1>2, <1>3 DEF Types, Colours, Whites, MainMarked
<1>7. Types' BY <1>1, <1>3, <1>5, <1>6 DEF Types, RefTypes
<1>8. LinkedOnce' BY <1>1, <1>3, <1>6, Recoloured
<1>9. ListsMarked' /\ MainMarked' /\ SettledInv'
  BY <1>5, <1>6 DEF ListsMarked, MainMarked, SettledInv
<1>10. MetatablesAre' BY <1>1, <1>2, <1>4 DEF MetatablesAre
<1>11. ASSUME NoneEscapes PROVE SafeClosed' /\ FreeEmpty' /\ SweepInv' /\ MainInvariant'
  <2>1. SafeClosed /\ FreeEmpty /\ SweepInv BY <1>1, <1>11
  <2>2. Safe' = Safe
    <3>1. Main \in Safe BY <2>1 DEF SafeClosed
    <3> QED BY <1>6, <3>1 DEF Safe
  <2>3. SafeClosed' BY <1>3, <1>4, <2>1, <2>2 DEF SafeClosed, Safe
  <2>4. FreeEmpty' BY <1>3, <1>6, <2>1 DEF FreeEmpty
  <2>5. \A x \in Range(finobj) \cup Range(allgc) : marked[x] = "white"
    BY <1>3, <2>1 DEF SweepInv, SweptWhite, Pending, Range
  <2>6. ASSUME NEW x \in All
        PROVE  /\ marked'[x] \in {"white", "free"} \/ x \in Range(tobefnz)
               /\ marked'[x] # "otherwhite"
    <3>1. CASE x = Main BY <1>6, <3>1
    <3>2. CASE x # Main /\ marked[x] = "free" BY <1>6, <3>2
    <3>3. CASE x # Main /\ marked[x] # "free"
      <4>1. x \in Range(finobj) \cup Range(allgc) \cup Range(tobefnz)
        BY <1>1, <3>3 DEF LinkedOnce, Allocated
      <4>2. x \in Range(tobefnz) => marked[x] # "otherwhite"
        BY <2>1 DEF SafeClosed, Safe
      <4> QED BY <1>6, <2>5, <3>3, <4>1, <4>2
    <3> QED BY <3>1, <3>2, <3>3
  <2>7. SweepInv'
    BY <1>3, <2>6 DEF SweepInv, OneWhite, PauseWhite, CursorIn, SweptWhite
  <2>8. MainInvariant' BY <1>5 DEF MainInvariant
  <2> QED BY <2>3, <2>4, <2>7, <2>8
<1> QED BY <1>2, <1>7, <1>8, <1>9, <1>10, <1>11, InvMade

\* A dead object is freed.
LEMMA FreeStep ==
  ASSUME GcInv, SweepObject, marked[Head(ToSweep)] = "otherwhite", program' = program
  PROVE  GcInv'
<1> DEFINE o == Head(ToSweep)
<1>1. /\ Types /\ RefTypes /\ LinkedOnce /\ ListsMarked /\ MainMarked /\ MetatablesAre
      /\ NoneEscapes => SafeClosed /\ FreeEmpty /\ SweepInv /\ MainInvariant
  BY InvIs
<1>2. kind' = kind /\ rules' = rules /\ NoneEscapes' = NoneEscapes BY DEF kind, rules, NoneEscapes
<1>3. /\ gcstate \in {"sweepudata", "sweep"} /\ ToSweep # <<>> /\ marked[o] = "otherwhite"
      /\ marked' = [marked EXCEPT ![o] = "free"]
      /\ entries' = [entries EXCEPT ![o] = {}]
      /\ finalized' = finalized \ {o}
      /\ finobj' = Without(finobj, {o}) /\ allgc' = Without(allgc, {o})
      /\ UNCHANGED <<tobefnz, gcstate, fullgc, sweepgc>>
      /\ UNCHANGED <<gray, grayagain, weak, ephemeron, allweak>>
  BY DEF SweepObject, grays
<1>4. o \in Range(finobj) \cup Range(allgc)
  <2>1. CursorLeads BY <1>1, ToSweepIs
  <2>2. o \in Range(ToSweep) BY <1>3, <2>1, AfterHead DEF CursorLeads
  <2> QED BY <2>1, <2>2 DEF CursorLeads
<1> HIDE DEF o
<1>5. o \in All /\ o \in Objects /\ o # Main /\ o \notin Range(tobefnz)
  BY <1>1, <1>4, LinkedAre DEF LinkedOnce
<1>6. /\ RefTypes' /\ entries'[o] = {}
      /\ \A x \in All : x # o => entries'[x] = entries[x]
  BY <1>1, <1>3, <1>5 DEF RefTypes
<1>7. /\ \A x \in All : x # o => Refs(x)' = Refs(x)
      /\ \A x \in All : Refs(x)' \subseteq Refs(x)
  BY <1>6 DEF Refs
<1>8. /\ marked' \in [All -> Colours] /\ marked'[o] = "free"
      /\ \A x \in All : x # o => marked'[x] = marked[x]
  BY <1>1, <1>3, <1>5 DEF Types, Colours
<1>9. Listed' = Listed /\ ~Invariant' BY <1>3 DEF Listed, Invariant
<1>10. Types' BY <1>1, <1>3, <1>6, <1>8, <1>9 DEF Types
<1>11. /\ finobj' \in Seq(Objects) /\ Range(finobj)' = Range(finobj) \ {o}
       /\ IsInjective(finobj)'
       /\ allgc' \in Seq(Objects) /\ Range(allgc)' = Range(allgc) \ {o}
       /\ IsInjective(allgc)'
  BY <1>1, <1>3, WithoutMembers DEF LinkedOnce
<1>12. LinkedOnce'
  <2>1. Allocated' = Allocated \ {o} BY <1>5, <1>8 DEF Allocated
  <2> QED BY <1>1, <1>3, <1>5, <1>11, <2>1 DEF LinkedOnce
<1>13. ListsMarked' /\ MainMarked' /\ SettledInv'
  <2>1. Main \in All BY <1>1, KindsAre
  <2> QED BY <1>1, <1>5, <1>8, <1>9, <2>1 DEF ListsMarked, MainMarked, SettledInv
<1>14. MetatablesAre' BY <1>1, <1>2, <1>7 DEF MetatablesAre
<1>15. ASSUME NoneEscapes PROVE SafeClosed' /\ FreeEmpty' /\ SweepInv' /\ MainInvariant'
  <2>1. SafeClosed /\ FreeEmpty /\ SweepInv BY <1>1, <1>15
  <2>2. Safe' = Safe BY <1>3, <1>8 DEF Safe
  <2>3. o \notin Safe BY <1>3 DEF Safe
  <2>4. SafeClosed' BY <1>3, <1>7, <2>1, <2>2, <2>3 DEF SafeClosed, Safe
  <2>5. FreeEmpty' BY <1>6, <1>8, <2>1 DEF FreeEmpty
  <2>6. CursorIn BY <2>1 DEF SweepInv
  <2>7. sweepgc # o BY <1>1, <1>3, <2>6, NextSwept DEF o
  <2>8. CursorIn' BY <1>3, <1>11, <2>6, <2>7 DEF CursorIn
  <2>9. /\ SweepList \in Seq(Objects)
        /\ SweepList' = Without(SweepList, {o})
        /\ Range(SweepList') = Range(SweepList) \ {o}
    BY <1>1, <1>3, <1>11, <2>6, CursorIs DEF SweepList
  <2>10. \/ ToSweep = SweepList /\ ToSweep' = SweepList'
         \/ /\ sweepgc \in Range(SweepList)
            /\ Range(ToSweep) = {x \in Range(SweepList) : Follows(SweepList, sweepgc, x)}
            /\ Range(ToSweep)' =
                  {x \in Range(SweepList)' : Follows(SweepList, sweepgc, x)'}
    <3>1. (Types /\ LinkedOnce => CursorLeads)' BY ToSweepIs, PTL
    <3>2. CursorLeads' BY <1>10, <1>12, <3>1
    <3>3. CursorLeads BY <1>1, ToSweepIs
    <3>4. CASE gcstate = "sweepudata"
      <4>1. SweepList = finobj /\ SweepList' = finobj' BY <1>3, <3>4 DEF SweepList
      <4>2. sweepgc = "finobj" \/ (sweepgc \in Range(finobj) /\ sweepgc \in Range(finobj)')
        BY <1>11, <2>6, <2>7, <3>4 DEF CursorIn
      <4> QED BY <1>3, <3>2, <3>3, <4>1, <4>2 DEF CursorLeads
    <3>5. CASE gcstate = "sweep"
      <4>1. SweepList = allgc /\ SweepList' = allgc' BY <1>3, <3>5 DEF SweepList
      <4>2. sweepgc = "allgc" \/ (sweepgc \in Range(allgc) /\ sweepgc \in Range(allgc)')
        BY <1>11, <2>6, <2>7, <3>5 DEF CursorIn
      <4> QED BY <1>3, <3>2, <3>3, <4>1, <4>2 DEF CursorLeads
    <3> QED BY <1>3, <3>4, <3>5
  <2>11. Range(ToSweep) \ {o} \subseteq Range(ToSweep)'
    <3>1. CASE ToSweep = SweepList /\ ToSweep' = SweepList' BY <2>9, <3>1
    <3>2. CASE /\ sweepgc \in Range(SweepList)
               /\ Range(ToSweep) = {x \in Range(SweepList) : Follows(SweepList, sweepgc, x)}
               /\ Range(ToSweep)' =
                     {x \in Range(SweepList)' : Follows(SweepList, sweepgc, x)'}
      <4> SUFFICES ASSUME NEW x \in Range(ToSweep), x # o PROVE x \in Range(ToSweep)'
        OBVIOUS
      <4>1. x \in Range(SweepList)' /\ Follows(SweepList, sweepgc, x) BY <2>9, <3>2
      <4>2. Follows(Without(SweepList, {o}), sweepgc, x)
        BY <2>7, <2>9, <4>1, FollowsWithout
      <4>3. Follows(SweepList', sweepgc, x) BY <2>9, <4>2
      <4> QED BY <1>3, <3>2, <4>1, <4>3
    <3> QED BY <2>10, <3>1, <3>2
  <2>12. Pending \ {o} \subseteq Pending' BY <1>3, <1>11, <2>11 DEF Pending
  <2>13. SweptWhite'
    <3> SUFFICES ASSUME NEW x \in Range(finobj)' \cup Range(allgc)', x \notin Pending'
                 PROVE  marked'[x] = "white"
      BY DEF SweptWhite
    <3>1. x # o /\ x \in Range(finobj) \cup Range(allgc) BY <1>11
    <3>2. marked[x] = "white" BY <1>3, <2>1, <2>12, <3>1 DEF SweepInv, SweptWhite
    <3> QED BY <1>1, <1>8, <3>1, <3>2, LinkedAre
  <2>14. SweepInv' BY <1>3, <2>8, <2>13 DEF SweepInv, OneWhite, PauseWhite
  <2>15. MainInvariant' BY <1>9 DEF MainInvariant
  <2> QED BY <2>4, <2>5, <2>14, <2>15
<1> QED BY <1>2, <1>10, <1>12, <1>13, <1>14, <1>15, InvMade

\* Any other gets the current white.
LEMMA WhitenStep ==
  ASSUME GcInv, SweepObject, marked[Head(ToSweep)] # "otherwhite", program' = program
  PROVE  GcInv'
<1> DEFINE o == Head(ToSweep)
<1>1. /\ Types /\ RefTypes /\ LinkedOnce /\ ListsMarked /\ MainMarked /\ MetatablesAre
      /\ NoneEscapes => SafeClosed /\ FreeEmpty /\ SweepInv /\ MainInvariant
  BY InvIs
<1>2. kind' = kind /\ rules' = rules /\ NoneEscapes' = NoneEscapes BY DEF kind, rules, NoneEscapes
<1>3. /\ gcstate \in {"sweepudata", "sweep"} /\ ToSweep # <<>> /\ marked[o] # "otherwhite"
      /\ marked' = [marked EXCEPT ![o] = "white"]
      /\ sweepgc' = o
      /\ UNCHANGED <<entries, finalized, finobj, allgc, tobefnz, gcstate, fullgc>>
      /\ UNCHANGED <<gray, grayagain, weak, ephemeron, allweak>>
  BY DEF SweepObject, grays
<1>4. o \in Range(finobj) \cup Range(allgc)
  <2>1. CursorLeads BY <1>1, ToSweepIs
  <2>2. o \in Range(ToSweep) BY <1>3, <2>1, AfterHead DEF CursorLeads
  <2> QED BY <2>1, <2>2 DEF CursorLeads
<1> HIDE DEF o
<1>5. o \in All /\ o \in Objects /\ o # Main /\ marked[o] # "free"
  BY <1>1, <1>4, LinkedAre DEF LinkedOnce
<1>6. \A x \in All : Refs(x)' = Refs(x) BY <1>3 DEF Refs
<1>7. /\ marked' \in [All -> Colours] /\ marked'[o] = "white"
      /\ \A x \in All : x # o => marked'[x] = marked[x]
  BY <1>1, <1>3, <1>5 DEF Types, Colours, Whites
<1>8. Listed' = Listed /\ ~Invariant' BY <1>3 DEF Listed, Invariant
<1>9. Types' BY <1>1, <1>3, <1>5, <1>7, <1>8 DEF Types, RefTypes
<1>10. LinkedOnce' BY <1>1, <1>3, <1>5, <1>7, Recoloured
<1>11. ListsMarked' /\ MainMarked' /\ SettledInv'
  <2>1. Main \in All BY <1>1, KindsAre
  <2> QED BY <1>1, <1>5, <1>7, <1>8, <2>1 DEF ListsMarked, MainMarked, SettledInv
<1>12. MetatablesAre' BY <1>1, <1>2, <1>6 DEF MetatablesAre
<1>13. ASSUME NoneEscapes PROVE SafeClosed' /\ FreeEmpty' /\ SweepInv' /\ MainInvariant'
  <2>1. SafeClosed /\ FreeEmpty /\ SweepInv BY <1>1, <1>13
  <2>2. Safe' = Safe BY <1>3, <1>5, <1>7 DEF Safe
  <2>3. SafeClosed' BY <1>3, <1>6, <2>1, <2>2 DEF SafeClosed, Safe
  <2>4. FreeEmpty' BY <1>3, <1>5, <1>7, <2>1 DEF FreeEmpty
  <2>5. CursorIn BY <2>1 DEF SweepInv
  <2>6. /\ o \in Range(SweepList) /\ Range(ToSweep) \subseteq Range(SweepList)
        /\ \A x \in Range(ToSweep) : x = o \/ Follows(SweepList, o, x)
    BY <1>1, <1>3, <2>5, NextSwept DEF o
  <2>7. CursorIn' BY <1>3, <2>6 DEF CursorIn, SweepList
  <2>8. Range(ToSweep)' = {x \in Range(SweepList) : Follows(SweepList, o, x)}
    <3>1. (Types /\ LinkedOnce => CursorLeads)' BY ToSweepIs, PTL
    <3>2. CursorLeads' BY <1>9, <1>10, <3>1
    <3> QED BY <1>3, <2>6, <3>2 DEF CursorLeads, SweepList
  <2>9. Pending \ {o} \subseteq Pending' BY <1>3, <2>6, <2>8 DEF Pending
  <2>10. SweptWhite'
    <3> SUFFICES ASSUME NEW x \in Range(finobj) \cup Range(allgc), x \notin Pending'
                 PROVE  marked'[x] = "white"
      BY <1>3 DEF SweptWhite
    <3>1. CASE x = o BY <1>7, <3>1
    <3>2. CASE x # o
      <4>1. marked[x] = "white" BY <1>3, <2>1, <2>9, <3>2 DEF SweepInv, SweptWhite
      <4> QED BY <1>1, <1>7, <3>2, <4>1, LinkedAre
    <3> QED BY <3>1, <3>2
  <2>11. SweepInv' BY <1>3, <2>7, <2>10 DEF SweepInv, OneWhite, PauseWhite
  <2>12. MainInvariant' BY <1>8 DEF MainInvariant
  <2> QED BY <2>3, <2>4, <2>11, <2>12
<1> QED BY <1>2, <1>9, <1>10, <1>11, <1>12, <1>13, InvMade

-----------------------------------------------------------------------------
(* Steps of the collector: the atomic step *)

\* The sets that the atomic step computes, named as there.
atM0    == {o \in All : ~IsWhite(o)}
atT1    == grayagain \cup weak \cup ephemeron
atM1    == Propagated(atT1, atM0)
atV1    == atT1 \cup (atM1 \ atM0)
atDue   == Without(finobj, atM1)
atFnz   == Range(tobefnz) \cup Range(atDue)
atT2    == atFnz \cup {o \in atV1 : kind[o] = "ephemeron"}
atM2    == Propagated(atT2, atM1 \cup atFnz)
atV2    == atFnz \cup (atM2 \ atM1)
atStale == allweak \ atV1
atWeak  == atV1 \cup atV2 \cup atStale

\* What the sets are.
LEMMA AtomicSets ==
  ASSUME Types, LinkedOnce, ListsMarked, Invariant
  PROVE  /\ atM0 \subseteq atM1 /\ atM1 \subseteq atM2 /\ atM2 \subseteq All
         /\ atT1 \subseteq atM0 /\ atFnz \subseteq atM2 /\ atFnz \subseteq All
         /\ atV1 \subseteq atM1 /\ atV2 \subseteq atM2
         /\ \A x \in atM2 : x \in atM0 \/ x \in atV1 \/ x \in atV2
         /\ \A x \in atV1 \cup atV2 : x \in All /\ marked[x] # "free"
         /\ \A x \in atV1 : Traversed(x, atM1) \subseteq atM1
         /\ \A x \in atV2 : Traversed(x, atM2) \subseteq atM2
         /\ \A x \in atV1 : kind[x] = "ephemeron" => Traversed(x, atM2) \subseteq atM2
         /\ atDue \in Seq(Objects) /\ Range(atDue) = Range(finobj) \ atM1
         /\ IsInjective(atDue)
<1>1. RefTypes /\ Listed \subseteq All /\ marked \in [All -> Colours] BY DEF Types
<1>2. atM0 \subseteq All /\ atT1 \subseteq All /\ atT1 \subseteq atM0
  BY <1>1 DEF atM0, atT1, Listed, ListsMarked, IsWhite, Whites
<1>3. /\ atM0 \subseteq atM1 /\ atM1 \subseteq All
      /\ \A x \in atT1 \cup (atM1 \ atM0) : Traversed(x, atM1) \subseteq atM1
  BY <1>1, <1>2, PropagatedIs DEF atM1
<1>4. atDue \in Seq(Objects) /\ Range(atDue) = Range(finobj) \ atM1 /\ IsInjective(atDue)
  BY WithoutMembers DEF LinkedOnce, atDue
<1>5. \A x \in atFnz : x \in All /\ marked[x] # "free" BY <1>4, LinkedAre DEF atFnz
<1>6. atT2 \subseteq All /\ atM1 \cup atFnz \subseteq All
  BY <1>2, <1>3, <1>5 DEF atT2, atV1
<1>7. /\ atM1 \cup atFnz \subseteq atM2 /\ atM2 \subseteq All
      /\ \A x \in atT2 \cup (atM2 \ (atM1 \cup atFnz)) : Traversed(x, atM2) \subseteq atM2
  BY <1>1, <1>6, PropagatedIs DEF atM2
<1>8. \A x \in All : x \notin atM0 => marked[x] # "free" BY DEF atM0, IsWhite, Whites
<1>9. \A x \in atT1 : marked[x] # "free" BY DEF atT1, ListsMarked, Listed
<1>10. \A x \in atV1 \cup atV2 : x \in All /\ marked[x] # "free"
  BY <1>2, <1>3, <1>5, <1>7, <1>8, <1>9 DEF atV1, atV2
<1> QED BY <1>2, <1>3, <1>4, <1>5, <1>7, <1>10 DEF atV1, atV2, atT2

\* The atomic step in terms of them.
LEMMA AtomicIs ==
  ASSUME Types, Atomic
  PROVE  /\ Invariant /\ gray = {}
         /\ DOMAIN entries' = All
         /\ \A x \in All : x \notin atWeak \/ kind[x] \notin WeakKinds => entries'[x] = entries[x]
         /\ \A x \in atWeak \cap All :
               /\ kind[x] = "weakvalue" =>
                     entries'[x] = MarkedValues(x, IF x \in atV1 THEN atM1 ELSE atM2)
               /\ kind[x] = "allweak" =>
                     entries'[x] = MarkedValues(x, IF x \in atV1 \cup atStale THEN atM1 ELSE atM2)
                                       \cap MarkedKeys(x, atM2)
               /\ kind[x] = "ephemeron" =>
                     entries'[x] = (IF x \in atStale THEN MarkedValues(x, atM1) ELSE entries[x])
                                       \cap MarkedKeys(x, atM2)
         /\ marked' = [x \in All |-> IF x \in atV1 \cup atV2 THEN Done(x)
                                     ELSE Flipped(marked[x])]
         /\ finalized' = finalized \cup Range(atDue)
         /\ finobj' = Keep(finobj, atM1)
         /\ tobefnz' = tobefnz \o atDue
         /\ gcstate' \in {"sweepstring", "relinked"}
         /\ grayagain' = {} /\ weak' = {} /\ ephemeron' = {} /\ allweak' = {}
         /\ UNCHANGED <<gray, allgc, fullgc, sweepgc>>
<1> DEFINE W(x, k) == kind[x] = k /\ x \in atV1 \cup atV2 \cup atStale
           E(x) == CASE W(x, "weakvalue") ->
                          MarkedValues(x, IF x \in atV1 THEN atM1 ELSE atM2)
                     [] W(x, "allweak") ->
                          MarkedValues(x, IF x \in atV1 \cup atStale THEN atM1 ELSE atM2)
                             \cap MarkedKeys(x, atM2)
                     [] W(x, "ephemeron") ->
                          (IF x \in atStale THEN MarkedValues(x, atM1) ELSE entries[x])
                             \cap MarkedKeys(x, atM2)
                     [] OTHER -> entries[x]
<1>1. entries' = [x \in All |-> E(x)]
  BY DEF Atomic, atM0, atT1, atM1, atV1, atDue, atFnz, atT2, atM2, atV2, atStale
<1>2. /\ marked' = [x \in All |-> IF x \in atV1 \cup atV2 THEN Done(x)
                                  ELSE Flipped(marked[x])]
      /\ finalized' = finalized \cup Range(atDue)
      /\ finobj' = Keep(finobj, atM1)
      /\ tobefnz' = tobefnz \o atDue
  BY DEF Atomic, atM0, atT1, atM1, atV1, atDue, atFnz, atT2, atM2, atV2, atStale
<1>3. /\ gcstate = "propagate" /\ gray = {}
      /\ gcstate' \in {"sweepstring", "relinked"}
      /\ grayagain' = {} /\ weak' = {} /\ ephemeron' = {} /\ allweak' = {}
      /\ UNCHANGED <<gray, allgc, fullgc, sweepgc>>
  BY DEF Atomic
<1>4. \A x \in All : x \notin atWeak \/ kind[x] \notin WeakKinds => E(x) = entries[x]
  BY DEF WeakKinds, atWeak
<1>5. ASSUME NEW x \in atWeak
      PROVE  /\ kind[x] = "weakvalue" =>
                   E(x) = MarkedValues(x, IF x \in atV1 THEN atM1 ELSE atM2)
             /\ kind[x] = "allweak" =>
                   E(x) = MarkedValues(x, IF x \in atV1 \cup atStale THEN atM1 ELSE atM2)
                             \cap MarkedKeys(x, atM2)
             /\ kind[x] = "ephemeron" =>
                   E(x) = (IF x \in atStale THEN MarkedValues(x, atM1) ELSE entries[x])
                             \cap MarkedKeys(x, atM2)
  <2>1. x \in atV1 \cup atV2 \cup atStale BY <1>5 DEF atWeak
  <2>2. CASE kind[x] = "weakvalue" BY <2>1, <2>2
  <2>3. CASE kind[x] = "allweak" BY <2>1, <2>3
  <2>4. CASE kind[x] = "ephemeron" BY <2>1, <2>4
  <2> QED BY <2>2, <2>3, <2>4
<1> HIDE DEF E
<1> QED BY <1>1, <1>2, <1>3, <1>4, <1>5 DEF Invariant

\* What the marked objects still refer to is marked.
LEMMA AtomicKeepsMarked ==
  ASSUME Types, LinkedOnce, ListsMarked, MainInvariant, NoneEscapes, Atomic,
         NEW x \in atM2, marked[x] # "free", NEW e \in entries'[x]
  PROVE  /\ e \in entries[x]
         /\ e[2] \in atM2
         /\ e[1] # NoKey => e[1] \in atM2
<1>1. RefTypes /\ marked \in [All -> Colours] BY DEF Types
<1>2. /\ Invariant /\ gray = {}
      /\ x \notin atWeak \/ kind[x] \notin WeakKinds => entries'[x] = entries[x]
      /\ x \in atWeak /\ kind[x] = "weakvalue" =>
            entries'[x] = MarkedValues(x, IF x \in atV1 THEN atM1 ELSE atM2)
      /\ x \in atWeak /\ kind[x] = "allweak" =>
            entries'[x] = MarkedValues(x, IF x \in atV1 \cup atStale THEN atM1 ELSE atM2)
                              \cap MarkedKeys(x, atM2)
      /\ x \in atWeak /\ kind[x] = "ephemeron" =>
            entries'[x] = (IF x \in atStale THEN MarkedValues(x, atM1) ELSE entries[x])
                              \cap MarkedKeys(x, atM2)
  <2>1. Invariant BY AtomicIs
  <2>2. x \in All BY <2>1, AtomicSets
  <2> QED BY <2>2, AtomicIs
<1>3. /\ atM0 \subseteq atM1 /\ atM1 \subseteq atM2 /\ atM2 \subseteq All
      /\ x \in atM0 \/ x \in atV1 \/ x \in atV2
      /\ x \in atV1 => Traversed(x, atM1) \subseteq atM1
      /\ x \in atV2 => Traversed(x, atM2) \subseteq atM2
      /\ x \in atV1 /\ kind[x] = "ephemeron" => Traversed(x, atM2) \subseteq atM2
  BY <1>2, AtomicSets
<1>4. x \in All /\ kind[x] \in Kinds BY <1>1, <1>3, KindsAre
<1>5. e \in entries[x]
  <2>1. CASE x \notin atWeak \/ kind[x] \notin WeakKinds BY <1>2, <2>1
  <2>2. CASE x \in atWeak /\ kind[x] \in WeakKinds
    BY <1>2, <2>2 DEF WeakKinds, MarkedValues, MarkedKeys
  <2> QED BY <2>1, <2>2
<1>6. e[2] \in Refs(x) /\ (e[1] # NoKey => e[1] \in Refs(x)) /\ Refs(x) \subseteq All
  BY <1>1, <1>4, <1>5, RefsAre, KindsAre
<1>7. SUFFICES e[2] \in atM2 /\ (e[1] # NoKey => e[1] \in atM2) BY <1>5
<1>8. CASE marked[x] = "black" /\ x \notin atV1 \cup atV2
  <2>1. \A v \in Refs(x) : ~IsWhite(v) BY <1>2, <1>4, <1>8 DEF MainInvariant
  <2>2. Refs(x) \subseteq atM0 BY <1>6, <2>1 DEF atM0
  <2> QED BY <1>3, <1>6, <2>2
<1>9. CASE marked[x] # "black" /\ x \notin atV1 \cup atV2
  <2>1. marked[x] = "gray"
    BY <1>1, <1>3, <1>4, <1>9 DEF atM0, IsWhite, Colours
  <2>2. x \in Listed BY <1>2, <1>4, <2>1 DEF MainInvariant, Listed
  <2>3. x \in atStale /\ x \in allweak
    BY <1>2, <1>9, <2>2 DEF Listed, atStale, atV1, atT1
  <2>4. kind[x] \in {"allweak", "ephemeron"} BY <1>2, <2>3 DEF ListsMarked
  <2>5. x \in atWeak BY <2>3 DEF atWeak
  <2>6. e \in MarkedValues(x, atM1) /\ e \in MarkedKeys(x, atM2)
    BY <1>2, <2>3, <2>4, <2>5
  <2> QED BY <1>3, <2>6 DEF MarkedValues, MarkedKeys
<1>10. CASE x \in atV1 \cup atV2
  <2>1. x \in atWeak BY <1>10 DEF atWeak
  <2>2. CASE kind[x] \notin WeakKinds
    <3>1. Traversed(x, atM1) = Refs(x) /\ Traversed(x, atM2) = Refs(x)
      BY <1>1, <1>4, <2>2, TraversedIs
    <3> QED BY <1>3, <1>6, <1>10, <3>1
  <2>3. CASE kind[x] = "weakvalue"
    <3>1. CASE x \in atV1
      <4>1. e \in MarkedValues(x, atM1) BY <1>2, <2>1, <2>3, <3>1
      <4>2. e[1] # NoKey => e[1] \in Traversed(x, atM1)
        BY <1>1, <1>4, <1>5, <2>3, TraversedIs
      <4> QED BY <1>3, <3>1, <4>1, <4>2 DEF MarkedValues
    <3>2. CASE x \notin atV1
      <4>1. e \in MarkedValues(x, atM2) BY <1>2, <2>1, <2>3, <3>2
      <4>2. e[1] # NoKey => e[1] \in Traversed(x, atM2)
        BY <1>1, <1>4, <1>5, <2>3, TraversedIs
      <4> QED BY <1>3, <1>10, <3>2, <4>1, <4>2 DEF MarkedValues
    <3> QED BY <3>1, <3>2
  <2>4. CASE kind[x] = "allweak"
    <3>1. e \in MarkedValues(x, atM1) \cup MarkedValues(x, atM2) /\ e \in MarkedKeys(x, atM2)
      BY <1>2, <2>1, <2>4
    <3> QED BY <1>3, <3>1 DEF MarkedValues, MarkedKeys
  <2>5. CASE kind[x] = "ephemeron"
    <3>1. e \in MarkedKeys(x, atM2) BY <1>2, <2>1, <2>5
    <3>2. e[1] \in atM2 \cup {NoKey} BY <3>1 DEF MarkedKeys
    <3>3. e[2] \in Traversed(x, atM2) BY <1>1, <1>4, <1>5, <2>5, <3>2, TraversedIs
    <3> QED BY <1>3, <1>10, <2>5, <3>2, <3>3
  <2> QED BY <2>2, <2>3, <2>4, <2>5 DEF WeakKinds
<1> QED BY <1>8, <1>9, <1>10

\* The colours after the step.
LEMMA AtomicColours ==
  ASSUME Types, LinkedOnce, ListsMarked, MainMarked, Atomic
  PROVE  /\ marked' \in [All -> Colours]
         /\ \A x \in All : marked'[x] = "free" <=> marked[x] = "free"
         /\ marked'[Main] = "gray"
         /\ (\A x \in All : marked[x] # "otherwhite") =>
               \A x \in All : x \in Safe' <=> x \in atM2 /\ marked[x] # "free"
<1>1. RefTypes /\ marked \in [All -> Colours] BY DEF Types
<1>2. Main \in All /\ kind[Main] = "thread" BY <1>1, KindsAre
<1>3. /\ Invariant
      /\ \A x \in All : x \in atV1 \cup atV2 => marked'[x] = Done(x)
      /\ \A x \in All : x \notin atV1 \cup atV2 => marked'[x] = Flipped(marked[x])
      /\ marked' = [x \in All |-> marked'[x]]
  BY AtomicIs
<1>4. \A x : Done(x) \in {"gray", "black"} BY DEF Done
<1>5. /\ Flipped("white") = "otherwhite" /\ Flipped("otherwhite") = "white"
      /\ \A c \in {"free", "gray", "black"} : Flipped(c) = c
  BY DEF Flipped
<1>6. \A x \in All : marked'[x] \in Colours
  BY <1>1, <1>3, <1>4, <1>5 DEF Colours, Whites
<1>7. \A x \in atV1 \cup atV2 : marked[x] # "free" BY <1>3, AtomicSets
<1>8. \A x \in All : marked'[x] = "free" <=> marked[x] = "free"
  BY <1>1, <1>3, <1>4, <1>5, <1>7 DEF Colours, Whites
<1>9. marked'[Main] = "gray"
  <2>1. marked[Main] = "gray" BY <1>3 DEF MainMarked
  <2>2. Done(Main) = "gray" BY <1>2 DEF Done
  <2> QED BY <1>2, <1>3, <1>5, <2>1, <2>2
<1>10. ASSUME \A x \in All : marked[x] # "otherwhite", NEW x \in All
       PROVE  x \in Safe' <=> x \in atM2 /\ marked[x] # "free"
  <2>1. x \in Safe' <=> marked'[x] \notin {"free", "otherwhite"} BY DEF Safe
  <2>2. CASE x \in atV1 \cup atV2
    <3>1. x \in atM2 BY <1>3, <2>2, AtomicSets
    <3> QED BY <1>3, <1>4, <1>7, <2>1, <2>2, <3>1
  <2>3. CASE x \notin atV1 \cup atV2 /\ x \in atM0
    <3>1. x \in atM2 BY <1>3, <2>3, AtomicSets
    <3>2. marked[x] \in {"free", "gray", "black"}
      BY <1>1, <2>3 DEF atM0, IsWhite, Colours
    <3> QED BY <1>3, <1>5, <2>1, <2>3, <3>1, <3>2
  <2>4. CASE x \notin atV1 \cup atV2 /\ x \notin atM0
    <3>1. x \notin atM2 BY <1>3, <2>4, AtomicSets
    <3>2. marked[x] = "white" BY <1>1, <1>10, <2>4 DEF atM0, IsWhite, Whites
    <3> QED BY <1>3, <1>5, <2>1, <2>4, <3>1, <3>2
  <2> QED BY <2>2, <2>3, <2>4
<1> QED BY <1>3, <1>6, <1>8, <1>9, <1>10

\* atomic.
LEMMA AtomicStep ==
  ASSUME GcInv, Atomic, program' = program
  PROVE  GcInv'
<1>1. /\ Types /\ RefTypes /\ LinkedOnce /\ ListsMarked /\ MainMarked /\ MetatablesAre
      /\ NoneEscapes => SafeClosed /\ FreeEmpty /\ SweepInv /\ MainInvariant
  BY InvIs
<1>2. kind' = kind /\ rules' = rules /\ NoneEscapes' = NoneEscapes /\ Main \in All
  BY <1>1, KindsAre DEF kind, rules, NoneEscapes
<1>3. /\ Invariant /\ gray = {} /\ DOMAIN entries' = All
      /\ finalized' = finalized \cup Range(atDue)
      /\ finobj' = Keep(finobj, atM1)
      /\ tobefnz' = tobefnz \o atDue
      /\ gcstate' \in {"sweepstring", "relinked"}
      /\ grayagain' = {} /\ weak' = {} /\ ephemeron' = {} /\ allweak' = {}
      /\ UNCHANGED <<gray, allgc, fullgc, sweepgc>>
      /\ DOMAIN marked' = All
  BY <1>1, AtomicIs
<1>4. \A x \in All : entries'[x] \subseteq entries[x]
  <2> SUFFICES ASSUME NEW x \in All PROVE entries'[x] \subseteq entries[x] OBVIOUS
  <2>1. CASE x \notin atWeak \/ kind[x] \notin WeakKinds BY <1>1, <2>1, AtomicIs
  <2>2. CASE x \in atWeak /\ kind[x] = "weakvalue"
    BY <1>1, <2>2, AtomicIs DEF MarkedValues
  <2>3. CASE x \in atWeak /\ kind[x] = "allweak"
    BY <1>1, <2>3, AtomicIs DEF MarkedKeys
  <2>4. CASE x \in atWeak /\ kind[x] = "ephemeron"
    BY <1>1, <2>4, AtomicIs DEF MarkedKeys
  <2> QED BY <2>1, <2>2, <2>3, <2>4 DEF WeakKinds
<1>5. RefTypes'
  <2>1. entries' = [x \in All |-> entries'[x]] BY <1>1, AtomicIs DEF Atomic
  <2>2. \A x \in All : entries'[x] \in SUBSET (Keys \X Objects) BY <1>1, <1>4 DEF RefTypes
  <2>3. entries' \in [All -> SUBSET (Keys \X Objects)] BY <2>1, <2>2
  <2> QED BY <1>1, <2>3 DEF RefTypes
<1>6. \A x \in All : Refs(x)' \subseteq Refs(x) BY <1>1, <1>4, <1>5, FewerRefs
<1>7. /\ atDue \in Seq(Objects) /\ Range(atDue) = Range(finobj) \ atM1 /\ IsInjective(atDue)
      /\ atFnz \subseteq atM2 /\ atM2 \subseteq All
  BY <1>1, <1>3, AtomicSets
<1>8. /\ marked' \in [All -> Colours]
      /\ \A x \in All : marked'[x] = "free" <=> marked[x] = "free"
      /\ marked'[Main] = "gray"
  BY <1>1, AtomicColours
<1>9. Types'
  <2>1. Range(atDue) \subseteq Objects BY <1>1, <1>7, LinkedAre
  <2>2. Listed' = {} BY <1>3 DEF Listed
  <2> QED BY <1>1, <1>3, <1>5, <1>8, <2>1, <2>2 DEF Types
<1>10. /\ finobj' \in Seq(Objects) /\ Range(finobj)' = Range(finobj) \cap atM1
       /\ IsInjective(finobj)'
  BY <1>1, <1>3, KeepMembers DEF LinkedOnce
<1>11. /\ tobefnz' \in Seq(Objects) /\ Range(tobefnz)' = Range(tobefnz) \cup Range(atDue)
       /\ IsInjective(tobefnz)'
  <2>1. Range(tobefnz) \cap Range(atDue) = {} BY <1>1, <1>7 DEF LinkedOnce
  <2> QED BY <1>1, <1>3, <1>7, <2>1, ConcatMembers DEF LinkedOnce
<1>12. LinkedOnce'
  <2>1. Allocated' = Allocated BY <1>8 DEF Allocated
  <2> QED BY <1>1, <1>3, <1>7, <1>10, <1>11, <2>1 DEF LinkedOnce
<1>13. ~Invariant' BY <1>3 DEF Invariant
<1>14. ListsMarked' /\ MainMarked' /\ SettledInv'
  BY <1>8, <1>13 DEF ListsMarked, MainMarked, SettledInv
<1>15. MetatablesAre' BY <1>1, <1>2, <1>6 DEF MetatablesAre
<1>16. ASSUME NoneEscapes PROVE SafeClosed' /\ FreeEmpty' /\ SweepInv' /\ MainInvariant'
  <2>1. SafeClosed /\ FreeEmpty /\ SweepInv /\ MainInvariant BY <1>1, <1>16
  <2>2. \A x \in All : marked[x] # "otherwhite"
    BY <1>3, <2>1 DEF SweepInv, OneWhite, Invariant
  <2>3. \A x \in All : x \in Safe' <=> x \in atM2 /\ marked[x] # "free"
    BY <1>1, <2>2, AtomicColours
  <2>4. SafeClosed'
    <3>1. Main \in Safe' BY <1>2, <1>8 DEF Safe
    <3>2. Range(tobefnz)' \subseteq Safe'
      <4>1. Range(tobefnz)' \subseteq atFnz BY <1>11 DEF atFnz
      <4>2. \A x \in Range(tobefnz)' : x \in All /\ marked[x] # "free"
        BY <1>1, <1>7, <1>11, LinkedAre
      <4> QED BY <1>7, <2>3, <4>1, <4>2
    <3>3. ASSUME NEW x \in Safe', NEW v \in Refs(x)' PROVE v \in Safe'
      <4>1. x \in All BY DEF Safe
      <4>2. x \in atM2 /\ marked[x] # "free" BY <2>3, <4>1
      <4>3. PICK e \in entries'[x] : v = e[2] \/ (v = e[1] /\ v # NoKey)
        BY DEF Refs
      <4>4. v \in atM2 BY <1>1, <1>16, <2>1, <4>2, <4>3, AtomicKeepsMarked
      <4>5. v \in Refs(x) BY <1>6, <4>1
      <4>6. x \in Safe BY <2>2, <4>1, <4>2 DEF Safe
      <4>7. v \in Safe BY <2>1, <4>5, <4>6 DEF SafeClosed
      <4> QED BY <1>7, <2>3, <4>4, <4>7 DEF Safe
    <3> QED BY <3>1, <3>2, <3>3 DEF SafeClosed
  <2>5. FreeEmpty' BY <1>4, <1>8, <2>1 DEF FreeEmpty
  <2>6. SweepInv'
    BY <1>3 DEF SweepInv, OneWhite, PauseWhite, CursorIn, SweptWhite
  <2>7. MainInvariant' BY <1>13 DEF MainInvariant
  <2> QED BY <2>4, <2>5, <2>6, <2>7
<1> QED BY <1>2, <1>9, <1>12, <1>14, <1>15, <1>16, InvMade

-----------------------------------------------------------------------------
(* The invariant holds *)

\* It holds at the beginning.
LEMMA GcInit == Init => GcInv
<1> SUFFICES ASSUME Init PROVE GcInv OBVIOUS
<1>1. /\ program \in Programs
      /\ entries = [o \in All |-> {}]
      /\ marked = [o \in All |-> IF o = Main THEN "white" ELSE "free"]
      /\ finalized = {} /\ gcstate = "pause" /\ fullgc = "no"
      /\ gray = {} /\ grayagain = {} /\ weak = {} /\ ephemeron = {} /\ allweak = {}
      /\ allgc = <<>> /\ finobj = <<>> /\ tobefnz = <<>> /\ sweepgc = "allgc"
  BY DEF Init
<1>2. RefTypes BY <1>1 DEF RefTypes
<1>3. \A o \in All : Refs(o) = {} BY <1>1 DEF Refs
<1>4. Types BY <1>1, <1>2 DEF Types, Listed, Colours, Whites
<1>5. Main \in All BY <1>2, KindsAre
<1>6. LinkedOnce
  <2>1. Allocated = {Main} BY <1>1, <1>5 DEF Allocated
  <2>2. <<>> \in Seq(Objects) /\ IsInjective(<<>>) /\ Range(<<>>) = {}
    BY DEF IsInjective, Range
  <2> QED BY <1>1, <2>1, <2>2 DEF LinkedOnce
<1>7. ListsMarked /\ MainMarked /\ MetatablesAre /\ SettledInv
  BY <1>1, <1>3, <1>5 DEF ListsMarked, MainMarked, MetatablesAre, SettledInv, Invariant
<1>8. SafeClosed
  <2>1. Range(tobefnz) = {} BY <1>1 DEF Range
  <2> QED BY <1>1, <1>3, <1>5, <2>1 DEF SafeClosed, Safe
<1>9. FreeEmpty /\ SweepInv /\ MainInvariant
  BY <1>1 DEF FreeEmpty, SweepInv, OneWhite, PauseWhite, CursorIn, SweptWhite,
              MainInvariant, Invariant
<1> QED BY <1>4, <1>6, <1>7, <1>8, <1>9, TypeOKIs DEF GcInv, AnyInv, IntactInv

\* Every step of the program keeps it.
LEMMA UseStep ==
  ASSUME GcInv, Use, program' = program
  PROVE  GcInv'
<1>1. RefTypes BY InvIs
<1>2. Accessible \subseteq All
  <2>1. {Main} \subseteq All BY <1>1, KindsAre
  <2> QED BY <1>1, <2>1, ReachIs DEF Accessible
<1>3. PICK o \in Accessible :
         \/ \E v \in Accessible \ {Main}, k \in {NoKey} \cup (Accessible \ {Main}) :
               Store(o, k, v)
         \/ \E e \in entries[o] : Drop(o, e)
         \/ o # Main /\ CheckFinalizer(o)
  BY DEF Use
<1>4. CASE \E v \in Accessible \ {Main}, k \in {NoKey} \cup (Accessible \ {Main}) :
              Store(o, k, v)
  BY <1>4, StoreStep
<1>5. CASE \E e \in entries[o] : Drop(o, e) BY <1>2, <1>5, DropStep
<1>6. CASE CheckFinalizer(o) BY <1>2, <1>6, CheckFinalizerStep
<1> QED BY <1>3, <1>4, <1>5, <1>6

\* Every step keeps it.
LEMMA GcStep == GcInv /\ [Next]_vars => GcInv'
<1> SUFFICES ASSUME GcInv, [Next]_vars PROVE GcInv' OBVIOUS
<1>1. CASE UNCHANGED vars
  <2>1. /\ UNCHANGED <<program, entries, marked, finalized, allgc, finobj, tobefnz>>
        /\ UNCHANGED <<gray, grayagain, weak, ephemeron, allweak>>
        /\ UNCHANGED <<gcstate, fullgc, sweepgc>>
    BY <1>1 DEF vars, moving, heap, grays, phase
  <2>2. kind' = kind /\ rules' = rules /\ NoneEscapes' = NoneEscapes BY <2>1 DEF kind, rules, NoneEscapes
  <2>3. /\ Types /\ LinkedOnce /\ ListsMarked /\ MainMarked /\ MetatablesAre
        /\ NoneEscapes => SafeClosed /\ FreeEmpty /\ SweepInv /\ MainInvariant
    BY InvIs
  <2>4. /\ Listed' = Listed /\ Safe' = Safe /\ Invariant' = Invariant
        /\ ToSweep' = ToSweep /\ Pending' = Pending
    BY <2>1 DEF Listed, Safe, Invariant, ToSweep, Pending
  <2>5. \A x \in All : Refs(x)' = Refs(x) BY <2>1 DEF Refs
  <2>6. Types' BY <2>1, <2>3, <2>4 DEF Types, RefTypes
  <2>7. LinkedOnce' BY <2>1, <2>3, Recoloured
  <2>8. ListsMarked' /\ MainMarked' /\ MetatablesAre'
    BY <2>1, <2>2, <2>3, <2>4, <2>5 DEF ListsMarked, MainMarked, MetatablesAre
  <2>9. SettledInv' BY <2>1, <2>2, <2>4 DEF GcInv, SettledInv, IsWhite
  <2>10. ASSUME NoneEscapes PROVE SafeClosed' /\ FreeEmpty' /\ SweepInv' /\ MainInvariant'
    <3>1. SafeClosed /\ FreeEmpty /\ SweepInv /\ MainInvariant BY <2>3, <2>10
    <3>2. SafeClosed' BY <2>1, <2>4, <2>5, <3>1 DEF SafeClosed, Safe
    <3>3. FreeEmpty' BY <2>1, <3>1 DEF FreeEmpty
    <3>4. SweepInv'
      BY <2>1, <2>4, <3>1 DEF SweepInv, OneWhite, PauseWhite, CursorIn, SweptWhite
    <3>5. MainInvariant' BY <2>1, <2>2, <2>4, <2>5, <3>1 DEF MainInvariant, IsWhite
    <3> QED BY <3>2, <3>3, <3>4, <3>5
  <2> QED BY <2>2, <2>6, <2>7, <2>8, <2>9, <2>10, InvMade
<1>2. CASE Next
  <2>1. program' = program BY <1>2 DEF Next
  <2>2. CASE \E o \in Objects : New(o) BY <2>1, <2>2, NewStep
  <2>13. CASE \E o \in Objects : NewFinalizable(o) BY <2>1, <2>13, NewFinalizableStep
  <2>3. CASE Use BY <2>1, <2>3, UseStep
  <2>4. CASE Finalize BY <2>1, <2>4, FinalizeStep
  <2>5. CASE MarkRoot BY <2>1, <2>5, MarkRootStep
  <2>6. CASE \E o \in All : PropagateMark(o) BY <2>1, <2>6, PropagateMarkStep
  <2>7. CASE Atomic BY <2>1, <2>7, AtomicStep
  <2>8. CASE SweepStrings BY <2>1, <2>8, SweepStringsStep
  <2>9. CASE SweepObject BY <2>1, <2>9, FreeStep, WhitenStep
  <2>10. CASE SweepNextList BY <2>1, <2>10, SweepNextListStep
  <2>11. CASE EndCycle BY <2>1, <2>11, EndCycleStep
  <2>12. CASE BeginFullGC BY <2>1, <2>12, BeginFullGCStep
  <2> QED BY <1>2, <2>2, <2>3, <2>4, <2>5, <2>6, <2>7, <2>8, <2>9, <2>10, <2>11, <2>12, <2>13
          DEF Next, Step, SingleStep
<1> QED BY <1>1, <1>2

\* It always holds.
LEMMA GcAlways == Spec => []GcInv
BY GcInit, GcStep, PTL DEF Spec

\* Whatever programs do, every object is linked once, in one of the three
\* lists of objects, and every variable keeps its type.
THEOREM TypesCorrect == Spec => []TypeOK
<1>1. GcInv => TypeOK BY DEF GcInv, AnyInv
<1> QED BY <1>1, GcAlways, PTL

\* In programs whose objects get their finalizers when they are created, as the
\* files of liolib.c do, or never, and in any others as long as no object escapes
\* a sweep by getting its finalizer later: no black object points to a white one
\* while objects are marked, and every gray object is in a gray list.
THEOREM BlackPointsToNoWhite == Spec => []MainInvariant
<1>1. GcInv => MainInvariant
  <2>1. ~NoneEscapes => MainInvariant BY DEF MainInvariant
  <2> QED BY <2>1 DEF GcInv, IntactInv
<1> QED BY <1>1, GcAlways, PTL

\* Under the same condition nothing that the program or a due finalizer can get
\* hold of is freed, or is found dead by the sweep.
THEOREM NothingDangles == Spec => []NoDangling
<1>1. GcInv => NoDangling
  <2> SUFFICES ASSUME GcInv, NoneEscapes PROVE NeverDead BY DEF NoDangling
  <2>1. RefTypes /\ LinkedOnce /\ SafeClosed BY InvIs
  <2>2. Live \subseteq Safe BY <2>1, LiveIsSafe
  <2> QED BY <2>2 DEF NeverDead, Safe
<1> QED BY <1>1, GcAlways, PTL

-----------------------------------------------------------------------------
(* What is cleared *)

\* What is accessible without weak references is marked before tables are
\* cleared.
LEMMA StrongIsMarked ==
  ASSUME GcInv, NoneEscapes /\ "settled" \in rules, Atomic
  PROVE  Strong \subseteq {x \in atM1 : marked[x] # "free"}
<1> DEFINE N == {x \in atM1 : marked[x] # "free"}
<1>1. /\ Types /\ RefTypes /\ LinkedOnce /\ ListsMarked /\ MainMarked
      /\ SafeClosed /\ SweepInv /\ MainInvariant /\ SettledInv
  BY InvIs DEF GcInv
<1>2. Invariant /\ gray = {} BY <1>1, AtomicIs
<1>3. /\ atM0 \subseteq atM1 /\ atM1 \subseteq All
      /\ \A x \in atV1 : Traversed(x, atM1) \subseteq atM1
  BY <1>1, <1>2, AtomicSets
<1>4. Main \in All BY <1>1, KindsAre
<1>5. Main \in N
  <2>1. marked[Main] = "gray" BY <1>1, <1>2 DEF MainMarked
  <2> QED BY <1>3, <1>4, <2>1 DEF atM0, IsWhite, Whites
<1>6. \A x \in All : marked[x] # "free" <=> x \in Safe
  BY <1>1, <1>2 DEF SweepInv, OneWhite, Safe, Invariant
<1>7. ASSUME NEW x \in N PROVE Traversed(x, N) \subseteq N
  <2>1. x \in All /\ x \in Safe /\ kind[x] \in Kinds BY <1>1, <1>3, <1>6, KindsAre
  <2>2. /\ Traversed(x, N) \subseteq Refs(x) /\ Refs(x) \subseteq Safe
        /\ Traversed(x, N) \subseteq Traversed(x, atM1)
    <3>1. Traversed(x, N) \subseteq Refs(x) BY <1>1, <2>1, TraversedIs
    <3>2. N \subseteq atM1 OBVIOUS
    <3>3. Traversed(x, N) \subseteq Traversed(x, atM1) BY <1>1, <2>1, <3>2, TraversedMore
    <3> QED BY <1>1, <2>1, <3>1, <3>3 DEF SafeClosed
  <2>3. SUFFICES Traversed(x, N) \subseteq atM1
    <3>1. \A v \in Safe : v \in All BY DEF Safe
    <3> QED BY <1>6, <2>2, <2>3, <3>1
  <2>4. CASE x \in atV1 BY <1>3, <2>2, <2>4
  <2>5. CASE x \notin atV1 /\ marked[x] = "black"
    <3>1. Refs(x) \subseteq atM0
      <4>1. \A v \in Refs(x) : ~IsWhite(v) BY <1>1, <1>2, <2>1, <2>5 DEF MainInvariant
      <4>2. Refs(x) \subseteq All BY <1>1, <2>1, RefsAre, KindsAre
      <4> QED BY <4>1, <4>2 DEF atM0
    <3> QED BY <1>3, <2>2, <3>1
  <2>6. CASE x \notin atV1 /\ marked[x] # "black"
    <3>1. x \in atM0 BY <2>6 DEF atV1
    <3>2. marked[x] = "gray" BY <1>1, <2>1, <2>6, <3>1 DEF atM0, IsWhite, Types, Colours
    <3>3. x \in allweak
      BY <1>1, <1>2, <2>1, <2>6, <3>2 DEF MainInvariant, atV1, atT1
    <3>4. CASE kind[x] = "allweak"
      <4>1. Traversed(x, N) = {} BY <1>1, <2>1, <3>4, TraversedIs
      <4> QED BY <4>1
    <3>5. CASE kind[x] = "ephemeron"
      <4> SUFFICES ASSUME NEW v \in Traversed(x, N) PROVE v \in atM1 OBVIOUS
      <4>1. PICK e \in entries[x] : v = e[2] BY <1>1, <2>1, <3>5, TraversedIs
      <4>2. ~IsWhite(e[2]) BY <1>1, <1>2, <3>3, <3>5, <4>1 DEF SettledInv
      <4>3. v \in All
        <5>1. Refs(x) \subseteq All BY <1>1, <2>1, RefsAre, KindsAre
        <5> QED BY <2>2, <5>1
      <4> QED BY <1>3, <4>1, <4>2, <4>3 DEF atM0
    <3> QED BY <1>1, <1>2, <3>3, <3>4, <3>5 DEF ListsMarked
  <2> QED BY <2>4, <2>5, <2>6
<1> HIDE DEF N
<1>8. Propagated({Main}, {Main}) \subseteq N
  <2>1. {Main} \subseteq All /\ {Main} \subseteq N BY <1>4, <1>5
  <2>2. \A x \in ({Main} \cup (N \ {Main})) \cap All : Traversed(x, N) \subseteq N
    BY <1>5, <1>7
  <2> QED BY <1>1, <2>1, <2>2, PropagatedIs
<1> QED BY <1>8 DEF Strong, N

\* What the atomic step clears of a table that is accessible without weak
\* references.
LEMMA AtomicClears ==
  ASSUME GcInv, NoneEscapes /\ "settled" \in rules, Atomic,
         NEW o \in Strong, NEW e \in entries[o] \ entries'[o]
  PROVE  \/ kind[o] \in {"ephemeron", "allweak"} /\ e[1] \notin Strong \cup {NoKey}
         \/ kind[o] \in {"weakvalue", "allweak"} /\ e[2] \notin Strong
<1>1. Types /\ RefTypes /\ LinkedOnce /\ ListsMarked /\ SettledInv BY InvIs DEF GcInv
<1>2. Invariant BY <1>1, AtomicIs
<1>3. Strong \subseteq atM1 BY StrongIsMarked
<1>4. atM0 \subseteq atM1 /\ atM1 \subseteq atM2 /\ atM2 \subseteq All
  BY <1>1, <1>2, AtomicSets
<1>5. o \in All BY <1>3, <1>4
<1>6. o \in atWeak /\ kind[o] \in WeakKinds BY <1>1, <1>5, AtomicIs
<1>7. CASE kind[o] = "weakvalue"
  <2>1. e \notin MarkedValues(o, atM1) \/ e \notin MarkedValues(o, atM2)
    BY <1>1, <1>5, <1>6, <1>7, AtomicIs
  <2>2. e[2] \notin atM1 BY <1>4, <2>1 DEF MarkedValues
  <2> QED BY <1>3, <1>7, <2>2
<1>8. CASE kind[o] = "allweak"
  <2>1. \/ e \notin MarkedValues(o, atM1) \/ e \notin MarkedValues(o, atM2)
        \/ e \notin MarkedKeys(o, atM2)
    BY <1>1, <1>5, <1>6, <1>8, AtomicIs
  <2>2. e[2] \notin atM1 \/ e[1] \notin atM1 \cup {NoKey}
    BY <1>4, <2>1 DEF MarkedValues, MarkedKeys
  <2> QED BY <1>3, <1>8, <2>2
<1>9. CASE kind[o] = "ephemeron"
  <2>1. (o \in atStale /\ e \notin MarkedValues(o, atM1)) \/ e \notin MarkedKeys(o, atM2)
    BY <1>1, <1>5, <1>6, <1>9, AtomicIs
  <2>2. CASE o \in atStale /\ e \notin MarkedValues(o, atM1)
    <3>1. ~IsWhite(e[2]) BY <1>1, <1>2, <1>9, <2>2 DEF SettledInv, atStale
    <3>2. e[2] \in All BY <1>1, <1>5, RefsAre, KindsAre
    <3> QED BY <1>4, <2>2, <3>1, <3>2 DEF atM0, MarkedValues
  <2>3. CASE e \notin MarkedKeys(o, atM2) BY <1>3, <1>4, <1>9, <2>3 DEF MarkedKeys
  <2> QED BY <2>1, <2>2, <2>3
<1> QED BY <1>6, <1>7, <1>8, <1>9 DEF WeakKinds

\* The phase of the collector changes while objects are marked only in the
\* atomic step, and when a luaC_fullgc gives the marking up.
LEMMA LeavesPropagate ==
  ASSUME Next, Invariant, gcstate' # gcstate
  PROVE  Atomic \/ entries' = entries
<1>1. gcstate = "propagate" BY DEF Invariant
<1>2. ASSUME NEW o \in Objects PROVE ~New(o) /\ ~NewFinalizable(o)
  BY DEF New, NewFinalizable, phase
<1>3. ~Use BY DEF Use, Store, Drop, CheckFinalizer, phase
<1>4. ~Finalize BY DEF Finalize, phase
<1>5. ASSUME NEW o \in All PROVE ~PropagateMark(o) BY DEF PropagateMark, phase
<1>6. ~MarkRoot /\ ~SweepStrings /\ ~SweepObject /\ ~SweepNextList /\ ~EndCycle
  BY <1>1 DEF MarkRoot, SweepStrings, SweepObject, SweepNextList, EndCycle
<1>7. BeginFullGC => entries' = entries BY DEF BeginFullGC, heap
<1> QED BY <1>2, <1>3, <1>4, <1>5, <1>6, <1>7 DEF Next, Step, SingleStep

\* Under the same condition, and where a table with weak keys that the collector
\* has in allweak is given no unmarked value ("settled", without which it does lose
\* an entry that lives), a table that is accessible without weak references loses an entry to the collector only for a weak key or a
\* weak value that is not.
THEOREM OnlyDeadEntriesCleared == Spec => EntriesKept
<1> DEFINE A == NoneEscapes /\ "settled" \in rules /\ Invariant /\ gcstate' # gcstate =>
                  \A o \in Strong : \A e \in entries[o] \ entries'[o] :
                     \/ kind[o] \in {"ephemeron", "allweak"} /\ e[1] \notin Strong \cup {NoKey}
                     \/ kind[o] \in {"weakvalue", "allweak"} /\ e[2] \notin Strong
<1>1. GcInv /\ [Next]_vars => [A]_vars
  <2> SUFFICES ASSUME GcInv, Next, NoneEscapes /\ "settled" \in rules, Invariant,
                      gcstate' # gcstate, NEW o \in Strong,
                      NEW e \in entries[o] \ entries'[o]
               PROVE  \/ kind[o] \in {"ephemeron", "allweak"} /\ e[1] \notin Strong \cup {NoKey}
                      \/ kind[o] \in {"weakvalue", "allweak"} /\ e[2] \notin Strong
    OBVIOUS
  <2>1. Atomic BY LeavesPropagate
  <2> QED BY <2>1, AtomicClears
<1>2. Spec => [][A]_vars BY <1>1, GcAlways, PTL DEF Spec
<1> QED BY <1>2 DEF EntriesKept

-----------------------------------------------------------------------------
(* What a full collection frees *)

\* What the traversals mark from the main thread and the objects that wait for
\* their finalizers.
PropagatedLive == Propagated({Main} \cup Range(tobefnz), {Main} \cup Range(tobefnz))

\* A luaC_fullgc marks only that, and what it does not give up can be reached.
RunInv == NoneEscapes /\ "plain" \in rules /\ fullgc = "run" =>
    /\ Invariant =>
          /\ \A o \in All : marked[o] \in {"gray", "black"} => o \in PropagatedLive
          /\ \A o \in allweak : kind[o] = "ephemeron" =>
                \A e \in entries[o] : ~IsWhite(e[2])
    /\ Sweeping => Safe \subseteq Live

\* The keys of tables with weak values are no objects.
PlainInv == "plain" \in rules =>
    \A o \in All : kind[o] = "weakvalue" => \A e \in entries[o] : e[1] = NoKey

CollectInv == GcInv /\ PlainInv /\ RunInv

\* What Live is: the smallest set with these.
LiveLeads ==
    /\ {Main} \cup Range(tobefnz) \subseteq Live /\ Live \subseteq All
    /\ \A x \in Live : Refs(x) \subseteq Live
    /\ \A N : {Main} \cup Range(tobefnz) \subseteq N
              /\ (\A x \in N \cap All : Refs(x) \subseteq N) => Live \subseteq N

\* It is.
LEMMA LiveIs == Types /\ LinkedOnce => LiveLeads
<1> SUFFICES ASSUME Types, LinkedOnce PROVE LiveLeads OBVIOUS
<1>1. RefTypes BY DEF Types
<1>2. {Main} \cup Range(tobefnz) \subseteq All BY <1>1, KindsAre, LinkedAre
<1> QED BY <1>1, <1>2, ReachIs DEF Live, LiveLeads

\* The same of what the traversals mark.
LEMMA PropagatedLiveIs ==
  ASSUME Types, LinkedOnce
  PROVE  /\ {Main} \cup Range(tobefnz) \subseteq PropagatedLive
         /\ PropagatedLive \subseteq All
         /\ \A x \in PropagatedLive : Traversed(x, PropagatedLive) \subseteq PropagatedLive
         /\ \A N : /\ {Main} \cup Range(tobefnz) \subseteq N
                   /\ \A x \in N \cap All : Traversed(x, N) \subseteq N
                   => PropagatedLive \subseteq N
<1> DEFINE T == {Main} \cup Range(tobefnz)
<1>1. RefTypes BY DEF Types
<1>2. T \subseteq All BY <1>1, KindsAre, LinkedAre
<1> HIDE DEF T
<1>3. /\ T \subseteq Propagated(T, T) /\ Propagated(T, T) \subseteq All
      /\ \A x \in T \cup (Propagated(T, T) \ T) :
            Traversed(x, Propagated(T, T)) \subseteq Propagated(T, T)
      /\ \A N : (/\ T \subseteq N
                 /\ \A x \in (T \cup (N \ T)) \cap All : Traversed(x, N) \subseteq N)
                => Propagated(T, T) \subseteq N
  BY <1>1, <1>2, PropagatedIs
<1>4. PropagatedLive = Propagated(T, T) BY DEF PropagatedLive, T
<1> QED BY <1>3, <1>4 DEF T

\* A step that leaves the references leaves both.
LEMMA LiveKept ==
  ASSUME program' = program, entries' = entries, tobefnz' = tobefnz
  PROVE  Live' = Live /\ PropagatedLive' = PropagatedLive
<1>1. kind' = kind BY DEF kind
<1>2. \A x : Refs(x)' = Refs(x) BY DEF Refs
<1>3. Live' = Live BY <1>2 DEF Live, Reach
<1>4. \A x, N : Traversed(x, N)' = Traversed(x, N) BY <1>1, <1>2 DEF Traversed
<1>5. PropagatedLive' = PropagatedLive BY <1>4 DEF PropagatedLive, Propagated
<1> QED BY <1>3, <1>5

\* A step of the program is none of a luaC_fullgc that runs.
LEMMA NoRunNow ==
  ASSUME fullgc' # "run" \/ (~Invariant' /\ ~Sweeping')
  PROVE  RunInv'
BY DEF RunInv

\* The roots are marked.
LEMMA RunMarkRoot ==
  ASSUME CollectInv, MarkRoot, program' = program
  PROVE  RunInv'
<1> DEFINE m == [o \in All |-> IF o \in Range(tobefnz) THEN "white" ELSE marked[o]]
           S == {Main} \cup Range(tobefnz)
<1> SUFFICES ASSUME NoneEscapes' /\ "plain" \in rules' PROVE RunInv' BY DEF RunInv
<1>0. kind' = kind /\ rules' = rules /\ NoneEscapes' = NoneEscapes BY DEF kind, rules, NoneEscapes
<1>1. /\ Types /\ RefTypes /\ LinkedOnce /\ MainMarked /\ MetatablesAre /\ SweepInv
  BY <1>0, InvIs DEF CollectInv
<1>2. /\ gcstate = "pause" /\ gcstate' = "propagate" /\ marked' = Marks(m, S)
      /\ allweak' = {} /\ UNCHANGED <<entries, tobefnz>>
  BY DEF MarkRoot
<1>3. PropagatedLive' = PropagatedLive BY <1>2, LiveKept
<1>4. \A x \in All : m[x] \in {"white", "free"}
  BY <1>1, <1>2 DEF SweepInv, PauseWhite
<1>5. S \subseteq PropagatedLive /\ S \subseteq All
  BY <1>1, PropagatedLiveIs
<1> HIDE DEF m, S
<1>6. ASSUME NEW x \in All, marked'[x] \in {"gray", "black"} PROVE x \in PropagatedLive
  <2>1. m[x] \in Whites /\ marked'[x] # m[x] BY <1>1, <1>2, <1>4, <1>5, <1>6, MarksAre DEF Whites
  <2>2. x \in S \/ \E u \in S : kind[u] = "userdata" /\ x \in Refs(u)
    BY <1>1, <1>2, <1>5, <2>1, MarksAre
  <2>3. ASSUME NEW u \in S, kind[u] = "userdata" PROVE Refs(u) \subseteq PropagatedLive
    <3>1. u \in All /\ u \in PropagatedLive BY <1>5
    <3>2. Traversed(u, PropagatedLive) \subseteq PropagatedLive
      BY <1>1, <3>1, PropagatedLiveIs
    <3>3. Traversed(u, PropagatedLive) = Refs(u)
      BY <1>1, <2>3, <3>1, TraversedIs DEF WeakKinds
    <3> QED BY <3>2, <3>3
  <2> QED BY <1>5, <2>2, <2>3
<1> QED BY <1>2, <1>3, <1>6 DEF RunInv, Sweeping

\* The objects that a traversal changes the colour of.
LEMMA PropagateMarks ==
  ASSUME Types, MetatablesAre, NEW o \in All, PropagateMark(o),
         NEW x \in All, x # o, marked'[x] # marked[x]
  PROVE  \/ x \in Traversed(o, atM0)
         \/ \E u \in Traversed(o, atM0) : kind[u] = "userdata" /\ x \in Refs(u)
<1> DEFINE m == [marked EXCEPT ![o] = Done(o)]
           T == Traversed(o, atM0)
<1>1. RefTypes /\ marked \in [All -> Colours] BY DEF Types
<1>2. marked' = Marks(m, T) BY DEF PropagateMark, atM0
<1>3. m[x] = marked[x] BY <1>1
<1>4. T \subseteq All
  <2>1. T \subseteq Refs(o) BY <1>1, TraversedIs
  <2>2. Refs(o) \subseteq All BY <1>1, RefsAre, KindsAre
  <2> QED BY <2>1, <2>2
<1> HIDE DEF m, T
<1>5. m[x] \in Whites BY <1>1, <1>2, <1>3, <1>4, MarksAre
<1>6. x \in T \/ \E u \in T : kind[u] = "userdata" /\ x \in Refs(u)
  BY <1>1, <1>2, <1>3, <1>4, <1>5, MarksAre
<1> QED BY <1>6 DEF T

\* An object is traversed.
LEMMA RunPropagateMark ==
  ASSUME CollectInv, NEW o \in All, PropagateMark(o), program' = program
  PROVE  RunInv'
<1> DEFINE P == PropagatedLive
<1> SUFFICES ASSUME NoneEscapes' /\ "plain" \in rules', fullgc' = "run" PROVE RunInv'
  BY DEF RunInv
<1>0. kind' = kind /\ rules' = rules /\ NoneEscapes' = NoneEscapes BY DEF kind, rules, NoneEscapes
<1>1. /\ Types /\ RefTypes /\ LinkedOnce /\ ListsMarked /\ MetatablesAre
      /\ SafeClosed /\ SweepInv
  BY <1>0, InvIs DEF CollectInv
<1>2. /\ gcstate = "propagate" /\ o \in gray
      /\ UNCHANGED <<entries, tobefnz, gcstate, fullgc>>
      /\ \A x \in All : x # o /\ marked[x] \notin Whites => marked'[x] = marked[x]
      /\ marked'[o] = Done(o)
      /\ allweak' \subseteq allweak \cup {o}
      /\ (o \in allweak' \ allweak /\ kind[o] = "ephemeron") =>
            \A e \in entries[o] : marked'[e[2]] \notin Whites
  BY <1>1, PropagateMarkIs
<1>3. Invariant /\ marked[o] \in {"gray", "black"}
  BY <1>1, <1>2 DEF Invariant, ListsMarked, Listed
<1>4. /\ \A x \in All : marked[x] \in {"gray", "black"} => x \in P
      /\ \A x \in allweak : kind[x] = "ephemeron" => \A e \in entries[x] : ~IsWhite(e[2])
  BY <1>0, <1>2, <1>3 DEF CollectInv, RunInv
<1>5. PropagatedLive' = P BY <1>2, LiveKept
<1>6. /\ o \in P /\ P \subseteq All
      /\ \A x \in P : Traversed(x, P) \subseteq P
  BY <1>1, <1>3, <1>4, PropagatedLiveIs
<1> HIDE DEF P
<1>7. Traversed(o, atM0) \subseteq P
  <2>1. CASE kind[o] # "ephemeron"
    <3>1. Traversed(o, atM0) = Traversed(o, P) BY <2>1 DEF Traversed
    <3> QED BY <1>6, <3>1
  <2>2. CASE kind[o] = "ephemeron"
    <3> SUFFICES ASSUME NEW v \in Traversed(o, atM0) PROVE v \in P OBVIOUS
    <3>1. PICK e \in entries[o] : e[1] \in atM0 \cup {NoKey} /\ v = e[2]
      BY <1>1, <2>2, TraversedIs
    <3>2. e[1] \in P \cup {NoKey}
      <4> SUFFICES ASSUME e[1] # NoKey PROVE e[1] \in P OBVIOUS
      <4>1. e[1] \in Refs(o) BY <1>1, <3>1, RefsAre
      <4>2. e[1] \in Safe
        <5>1. o \in Safe BY <1>3 DEF Safe
        <5> QED BY <1>1, <4>1, <5>1 DEF SafeClosed
      <4>3. e[1] \in All /\ marked[e[1]] \notin Whites /\ marked[e[1]] # "free"
        BY <3>1, <4>2 DEF Safe, atM0, IsWhite
      <4>4. marked[e[1]] \in {"gray", "black"} BY <1>1, <4>3 DEF Types, Colours
      <4> QED BY <1>4, <4>3, <4>4
    <3>3. v \in Traversed(o, P) BY <1>1, <2>2, <3>1, <3>2, TraversedIs
    <3> QED BY <1>6, <3>3
  <2> QED BY <2>1, <2>2
<1>8. ASSUME NEW x \in All, marked'[x] \in {"gray", "black"} PROVE x \in P
  <2>1. CASE x = o BY <1>6, <2>1
  <2>2. CASE marked'[x] = marked[x] BY <1>4, <1>8, <2>2
  <2>3. CASE x # o /\ marked'[x] # marked[x]
    <3>1. \/ x \in Traversed(o, atM0)
          \/ \E u \in Traversed(o, atM0) : kind[u] = "userdata" /\ x \in Refs(u)
      BY <1>1, <2>3, PropagateMarks
    <3>2. ASSUME NEW u \in P, kind[u] = "userdata" PROVE Refs(u) \subseteq P
      <4>1. u \in All BY <1>6
      <4>2. Traversed(u, P) = Refs(u) BY <1>1, <3>2, <4>1, TraversedIs DEF WeakKinds
      <4> QED BY <1>6, <4>2
    <3> QED BY <1>7, <3>1, <3>2
  <2> QED BY <2>1, <2>2, <2>3
<1>9. ASSUME NEW x \in allweak', kind[x] = "ephemeron", NEW e \in entries[x]
      PROVE  marked'[e[2]] \notin Whites
  <2>1. CASE x \in allweak
    <3>1. x \in All BY <1>1, <2>1 DEF Types, Listed
    <3>2. e[2] \in All /\ ~IsWhite(e[2]) BY <1>1, <1>4, <1>9, <2>1, <3>1, RefsAre, KindsAre
    <3>3. Done(o) \notin Whites BY DEF Done, Whites
    <3> QED BY <1>2, <3>2, <3>3 DEF IsWhite
  <2>2. CASE x \notin allweak BY <1>2, <1>9, <2>2
  <2> QED BY <2>1, <2>2
<1>10. ~Sweeping' BY <1>2 DEF Sweeping
<1> QED BY <1>0, <1>2, <1>5, <1>8, <1>9, <1>10 DEF RunInv, IsWhite

\* The atomic step keeps every reference that a traversal has followed.
LEMMA RunKeepsEdges ==
  ASSUME CollectInv, NoneEscapes /\ "plain" \in rules, fullgc = "run", Atomic,
         NEW x \in All, NEW N, N \subseteq atM2
  PROVE  Traversed(x, N) \subseteq Refs(x)'
<1>1. Types /\ RefTypes /\ LinkedOnce /\ ListsMarked BY InvIs DEF CollectInv
<1>2. Invariant BY <1>1, AtomicIs
<1>3. /\ \A o \in allweak : kind[o] = "ephemeron" => \A e \in entries[o] : ~IsWhite(e[2])
      /\ \A o \in All : kind[o] = "weakvalue" => \A e \in entries[o] : e[1] = NoKey
  BY <1>2 DEF CollectInv, RunInv, PlainInv
<1>4. atM0 \subseteq atM1 /\ kind[x] \in Kinds BY <1>1, <1>2, AtomicSets, KindsAre
<1>5. CASE kind[x] \notin WeakKinds
  <2>1. entries'[x] = entries[x] BY <1>1, <1>5, AtomicIs
  <2>2. Traversed(x, N) = Refs(x) BY <1>1, <1>5, TraversedIs
  <2> QED BY <2>1, <2>2 DEF Refs
<1>6. CASE kind[x] = "weakvalue"
  <2>1. Traversed(x, N) = {} BY <1>3, <1>6 DEF Traversed
  <2> QED BY <2>1
<1>7. CASE kind[x] = "allweak"
  <2>1. Traversed(x, N) = {} BY <1>1, <1>7, TraversedIs
  <2> QED BY <2>1
<1>8. CASE kind[x] = "ephemeron"
  <2> SUFFICES ASSUME NEW v \in Traversed(x, N) PROVE v \in Refs(x)' OBVIOUS
  <2>1. PICK e \in entries[x] : e[1] \in N \cup {NoKey} /\ v = e[2]
    BY <1>1, <1>8, TraversedIs
  <2>2. e \in MarkedKeys(x, atM2) BY <2>1 DEF MarkedKeys
  <2>3. x \in atStale => e \in MarkedValues(x, atM1)
    <3> SUFFICES ASSUME x \in atStale PROVE e \in MarkedValues(x, atM1) OBVIOUS
    <3>1. ~IsWhite(e[2]) BY <1>3, <1>8, <2>1 DEF atStale
    <3>2. e[2] \in All BY <1>1, <2>1, RefsAre, KindsAre
    <3> QED BY <1>4, <2>1, <3>1, <3>2 DEF atM0, MarkedValues
  <2>4. e \in entries'[x]
    <3>1. CASE x \in atWeak
      <4>1. entries'[x] = (IF x \in atStale THEN MarkedValues(x, atM1) ELSE entries[x])
                             \cap MarkedKeys(x, atM2)
        BY <1>1, <1>8, <3>1, AtomicIs
      <4> QED BY <2>1, <2>2, <2>3, <4>1
    <3>2. CASE x \notin atWeak
      <4>1. entries'[x] = entries[x] BY <1>1, <3>2, AtomicIs
      <4> QED BY <2>1, <4>1
    <3> QED BY <3>1, <3>2
  <2> QED BY <2>1, <2>4 DEF Refs
<1> QED BY <1>4, <1>5, <1>6, <1>7, <1>8 DEF WeakKinds

\* The atomic step.
LEMMA RunAtomic ==
  ASSUME CollectInv, Atomic, program' = program
  PROVE  RunInv'
<1> DEFINE L == Live'
           Free == {x \in All : marked[x] = "free"}
<1> SUFFICES ASSUME NoneEscapes' /\ "plain" \in rules', fullgc' = "run" PROVE RunInv'
  BY DEF RunInv
<1>0. kind' = kind /\ rules' = rules /\ NoneEscapes' = NoneEscapes BY DEF kind, rules, NoneEscapes
<1>1. /\ Types /\ RefTypes /\ LinkedOnce /\ ListsMarked /\ MainMarked /\ MetatablesAre
      /\ SafeClosed /\ SweepInv /\ MainInvariant
  BY <1>0, InvIs DEF CollectInv
<1>2. /\ Invariant /\ ~Invariant' /\ fullgc = "run"
      /\ tobefnz' = tobefnz \o atDue
  <2>1. gcstate' \in {"sweepstring", "relinked"} BY <1>1, AtomicIs
  <2> QED BY <1>1, <2>1, AtomicIs DEF Invariant
<1>3. /\ \A x \in All : marked[x] \in {"gray", "black"} => x \in PropagatedLive
  BY <1>0, <1>2 DEF CollectInv, RunInv
<1>4. \A x \in All : marked[x] # "otherwhite"
  BY <1>1, <1>2 DEF SweepInv, OneWhite, Invariant
<1>5. \A x \in All : x \in Safe' <=> x \in atM2 /\ marked[x] # "free"
  BY <1>1, <1>4, AtomicColours
<1>6. /\ atM0 \subseteq atM1 /\ atM1 \subseteq atM2 /\ atM2 \subseteq All
      /\ atV1 \subseteq atM1 /\ atFnz \subseteq All
      /\ \A x \in atV1 \cup atV2 : marked[x] # "free"
      /\ atDue \in Seq(Objects)
  BY <1>1, <1>2, AtomicSets
<1>7. GcInv' BY AtomicStep DEF CollectInv
<1>8. Types' /\ LinkedOnce' /\ SafeClosed'
  <2>1. (TypeOK <=> Types /\ LinkedOnce)' BY TypeOKIs, PTL
  <2> QED BY <1>0, <1>7, <2>1 DEF GcInv, AnyInv, IntactInv
<1>9. LiveLeads'
  <2>1. (Types /\ LinkedOnce => LiveLeads)' BY LiveIs, PTL
  <2> QED BY <1>8, <2>1
<1>10. /\ Main \in L /\ atFnz \subseteq L /\ Range(tobefnz) \subseteq L
       /\ L \subseteq All /\ \A x \in L : Refs(x)' \subseteq L
  <2>1. Range(tobefnz)' = Range(tobefnz) \cup Range(atDue)
    BY <1>1, <1>2, <1>6, ConcatMembers DEF LinkedOnce
  <2> QED BY <1>9, <2>1 DEF LiveLeads, atFnz
<1>11. L \subseteq Safe'
  <2>1. {Main} \cup Range(tobefnz)' \subseteq Safe' BY <1>8 DEF SafeClosed
  <2>2. \A x \in Safe' \cap All : Refs(x)' \subseteq Safe' BY <1>8 DEF SafeClosed
  <2> QED BY <1>9, <2>1, <2>2 DEF LiveLeads
<1> HIDE DEF L
<1>12. L \subseteq atM2 /\ \A x \in L : marked[x] # "free" BY <1>5, <1>10, <1>11
<1>13. ASSUME NEW x \in L PROVE Traversed(x, L) \subseteq L
  <2>1. Traversed(x, L) \subseteq Refs(x)' BY <1>0, <1>2, <1>10, <1>12, RunKeepsEdges
  <2> QED BY <1>10, <2>1
<1>14. PropagatedLive \subseteq L
  <2>1. {Main} \cup Range(tobefnz) \subseteq L BY <1>10
  <2> QED BY <1>1, <1>13, <2>1, PropagatedLiveIs
<1>15. ASSUME NEW x \in L PROVE Traversed(x, L \cup Free) \subseteq L
  <2>1. x \in All /\ x \in Safe BY <1>4, <1>10, <1>12 DEF Safe
  <2>2. CASE kind[x] # "ephemeron"
    <3>1. Traversed(x, L \cup Free) = Traversed(x, L) BY <2>2 DEF Traversed
    <3> QED BY <1>13, <3>1
  <2>3. CASE kind[x] = "ephemeron"
    <3> SUFFICES ASSUME NEW v \in Traversed(x, L \cup Free) PROVE v \in L OBVIOUS
    <3>1. PICK e \in entries[x] : e[1] \in L \cup Free \cup {NoKey} /\ v = e[2]
      BY <1>1, <2>1, <2>3, TraversedIs
    <3>2. e[1] \notin Free
      <4>1. e[1] # NoKey => e[1] \in Refs(x) BY <1>1, <2>1, <3>1, RefsAre
      <4>2. e[1] # NoKey => e[1] \in Safe BY <1>1, <2>1, <4>1 DEF SafeClosed
      <4>3. NoKey \notin All BY <1>1, KindsAre
      <4> QED BY <4>2, <4>3 DEF Safe
    <3>3. e[1] \in L \cup {NoKey} BY <3>1, <3>2
    <3>4. v \in Traversed(x, L) BY <1>1, <2>1, <2>3, <3>1, <3>3, TraversedIs
    <3> QED BY <1>13, <3>4
  <2> QED BY <2>2, <2>3
<1>16. \A x \in atM0 : x \in L \cup Free
  BY <1>1, <1>3, <1>14 DEF atM0, IsWhite, Types, Colours
<1>17. \A x \in Free : x \in atM0 BY DEF atM0, IsWhite, Whites
<1> HIDE DEF Free
<1>18. atM1 \subseteq L \cup Free
  <2>1. atM0 \subseteq All /\ atT1 \subseteq All BY <1>1 DEF atM0, atT1, Types, Listed
  <2>2. \A x \in atT1 : x \in L
    <3>1. \A x \in atT1 : marked[x] \in {"gray", "black"}
      BY <1>1, <1>2 DEF atT1, ListsMarked, Listed
    <3> QED BY <1>3, <1>14, <2>1, <3>1
  <2>3. \A x \in (L \cup Free) \ atM0 : x \in L BY <1>17
  <2>4. \A x \in (atT1 \cup ((L \cup Free) \ atM0)) \cap All :
           Traversed(x, L \cup Free) \subseteq L \cup Free
    BY <1>15, <2>2, <2>3
  <2>5. atM0 \subseteq L \cup Free BY <1>16
  <2>6. \A N : (/\ atM0 \subseteq N
                /\ \A x \in (atT1 \cup (N \ atM0)) \cap All : Traversed(x, N) \subseteq N)
               => Propagated(atT1, atM0) \subseteq N
    BY <1>1, <2>1, PropagatedIs
  <2> QED BY <2>4, <2>5, <2>6 DEF atM1
<1>19. atM2 \subseteq L \cup Free
  <2>1. atT2 \subseteq All /\ atM1 \cup atFnz \subseteq All BY <1>6 DEF atT2
  <2>2. atM1 \cup atFnz \subseteq L \cup Free BY <1>10, <1>18
  <2>3. \A x \in atT2 : x \in L
    <3>1. \A x \in atV1 : x \in L
      <4>1. \A x \in atV1 : x \in L \cup Free BY <1>6, <1>18
      <4>2. \A x \in atV1 : x \notin Free BY <1>6 DEF Free
      <4> QED BY <4>1, <4>2
    <3> QED BY <1>10, <3>1 DEF atT2
  <2>4. \A x \in (L \cup Free) \ (atM1 \cup atFnz) : x \in L BY <1>6, <1>17
  <2>5. \A x \in (atT2 \cup ((L \cup Free) \ (atM1 \cup atFnz))) \cap All :
           Traversed(x, L \cup Free) \subseteq L \cup Free
    BY <1>15, <2>3, <2>4
  <2> DEFINE M == atM1 \cup atFnz
  <2>6. \A N : (/\ M \subseteq N
                /\ \A x \in (atT2 \cup (N \ M)) \cap All : Traversed(x, N) \subseteq N)
               => Propagated(atT2, M) \subseteq N
    <3> HIDE DEF M
    <3>1. M \subseteq All BY <2>1 DEF M
    <3> QED BY <1>1, <2>1, <3>1, PropagatedIs
  <2> QED BY <2>2, <2>5, <2>6 DEF atM2
<1>20. Safe' \subseteq Live'
  <2>1. \A x \in Safe' : x \in All BY DEF Safe
  <2> QED BY <1>5, <1>19, <2>1 DEF Free, L
<1> QED BY <1>2, <1>20 DEF RunInv

\* The sweep.
LEMMA RunSweep ==
  ASSUME CollectInv, SweepStrings \/ SweepObject \/ SweepNextList, program' = program
  PROVE  RunInv'
<1> SUFFICES ASSUME NoneEscapes' /\ "plain" \in rules', fullgc' = "run" PROVE RunInv'
  BY DEF RunInv
<1>0. kind' = kind /\ rules' = rules /\ NoneEscapes' = NoneEscapes BY DEF kind, rules, NoneEscapes
<1>1. /\ Types /\ RefTypes /\ LinkedOnce /\ SafeClosed
  BY <1>0, InvIs DEF CollectInv
<1>2. Sweeping /\ ~Invariant' /\ fullgc' = fullgc /\ tobefnz' = tobefnz
  BY DEF SweepStrings, SweepObject, SweepNextList, Sweeping, Invariant, heap
<1>3. Safe \subseteq Live BY <1>0, <1>2 DEF CollectInv, RunInv
<1>4. LiveLeads BY <1>1, LiveIs
<1>5. CASE SweepStrings \/ SweepNextList
  <2>1. entries' = entries /\ marked' = marked
    BY <1>5 DEF SweepStrings, SweepNextList, heap
  <2>2. Live' = Live /\ Safe' = Safe BY <1>2, <2>1, LiveKept DEF Safe
  <2> QED BY <1>2, <1>3, <2>2 DEF RunInv
<1>6. CASE SweepObject
  <2> DEFINE o == Head(ToSweep)
  <2>1. o \in Range(finobj) \cup Range(allgc)
    <3>1. CursorLeads BY <1>1, ToSweepIs
    <3>2. o \in Range(ToSweep) BY <1>6, <3>1, AfterHead DEF CursorLeads, SweepObject
    <3> QED BY <3>1, <3>2 DEF CursorLeads
  <2>2. \/ /\ marked[o] = "otherwhite" /\ marked' = [marked EXCEPT ![o] = "free"]
           /\ entries' = [entries EXCEPT ![o] = {}]
        \/ /\ marked[o] # "otherwhite" /\ marked' = [marked EXCEPT ![o] = "white"]
           /\ entries' = entries
    BY <1>6 DEF SweepObject
  <2> HIDE DEF o
  <2>3. o \in All /\ marked[o] # "free" BY <1>1, <2>1, LinkedAre
  <2>4. CASE entries' = entries /\ marked' = [marked EXCEPT ![o] = "white"]
             /\ marked[o] # "otherwhite"
    <3>1. Safe' = Safe BY <1>1, <2>3, <2>4 DEF Safe, Types
    <3>2. Live' = Live BY <1>2, <2>4, LiveKept
    <3> QED BY <1>2, <1>3, <3>1, <3>2 DEF RunInv
  <2>5. CASE /\ marked[o] = "otherwhite" /\ marked' = [marked EXCEPT ![o] = "free"]
             /\ entries' = [entries EXCEPT ![o] = {}]
    <3>1. Safe' = Safe /\ o \notin Safe BY <1>1, <2>3, <2>5 DEF Safe, Types
    <3>2. \A x \in All : x # o => Refs(x)' = Refs(x)
      <4>1. \A x \in All : x # o => entries'[x] = entries[x] BY <1>1, <2>5 DEF RefTypes
      <4> QED BY <4>1 DEF Refs
    <3>3. LiveLeads'
      <4>1. GcInv' BY <1>6, FreeStep, WhitenStep DEF CollectInv
      <4>2. (TypeOK <=> Types /\ LinkedOnce)' BY TypeOKIs, PTL
      <4>3. (Types /\ LinkedOnce => LiveLeads)' BY LiveIs, PTL
      <4> QED BY <4>1, <4>2, <4>3 DEF GcInv, AnyInv
    <3>4. Live \subseteq Live'
      <4> DEFINE N == Live' \cap Safe
      <4>1. {Main} \cup Range(tobefnz) \subseteq N
        BY <1>1, <1>2, <3>3 DEF LiveLeads, SafeClosed
      <4>2. \A x \in N \cap All : Refs(x) \subseteq N
        BY <1>1, <3>1, <3>2, <3>3 DEF LiveLeads, SafeClosed
      <4> HIDE DEF N
      <4>3. Live \subseteq N BY <1>4, <4>1, <4>2 DEF LiveLeads
      <4> QED BY <4>3 DEF N
    <3> QED BY <1>2, <1>3, <3>1, <3>4 DEF RunInv
  <2> QED BY <2>2, <2>4, <2>5
<1> QED BY <1>5, <1>6

\* Entries of tables with weak values are written with plain keys only.
LEMMA PlainStep ==
  ASSUME GcInv, PlainInv, Next
  PROVE  PlainInv'
<1>0. /\ RefTypes /\ Types /\ LinkedOnce /\ kind' = kind /\ rules' = rules /\ NoneEscapes' = NoneEscapes
      /\ program' = program
  BY InvIs DEF Next, kind, rules, NoneEscapes
<1> SUFFICES ASSUME "plain" \in rules, NEW x \in All, kind[x] = "weakvalue",
                    NEW e \in entries'[x]
             PROVE  e[1] = NoKey
  BY <1>0 DEF PlainInv
<1>1. \A f \in entries[x] : f[1] = NoKey BY DEF PlainInv
<1>2. x # Main BY <1>0, KindsAre
<1>3. ASSUME NEW o \in Objects, New(o) \/ NewFinalizable(o) PROVE e[1] = NoKey
  <2>1. entries'[x] = entries[x] BY <1>0, <1>2, <1>3 DEF New, NewFinalizable, RefTypes
  <2> QED BY <1>1, <2>1
<1>4. CASE Use
  <2>1. PICK o \in Accessible :
           \/ \E v \in Accessible \ {Main}, k \in {NoKey} \cup (Accessible \ {Main}) :
                 Store(o, k, v)
           \/ \E f \in entries[o] : Drop(o, f)
           \/ CheckFinalizer(o)
    BY <1>4 DEF Use
  <2>2. ASSUME NEW v, NEW k, Store(o, k, v) PROVE e[1] = NoKey
    <3>1. PICK new \in SUBSET (entries[o] \cup {<<k, v>>}) :
             entries' = [entries EXCEPT ![o] = new]
      BY <2>2 DEF Store
    <3>2. kind[o] = "weakvalue" => k = NoKey BY <2>2 DEF Store
    <3>3. e \in entries[x] \/ (x = o /\ e = <<k, v>>) BY <1>0, <3>1 DEF RefTypes
    <3> QED BY <1>1, <3>2, <3>3
  <2>3. ASSUME NEW f, Drop(o, f) PROVE e[1] = NoKey
    <3>1. entries' = [entries EXCEPT ![o] = @ \ {f}] BY <2>3 DEF Drop
    <3>2. e \in entries[x] BY <1>0, <3>1 DEF RefTypes
    <3> QED BY <1>1, <3>2
  <2>4. CheckFinalizer(o) => entries' = entries BY DEF CheckFinalizer
  <2> QED BY <1>1, <2>1, <2>2, <2>3, <2>4
<1>5. CASE Finalize
  <2>1. entries'[x] = entries[x] BY <1>0, <1>2, <1>5 DEF Finalize, RefTypes
  <2> QED BY <1>1, <2>1
<1>6. MarkRoot => entries' = entries BY DEF MarkRoot
<1>7. \A o \in All : PropagateMark(o) => entries' = entries BY DEF PropagateMark
<1>8. CASE Atomic
  <2>1. entries'[x] \subseteq entries[x]
    <3>1. CASE x \in atWeak BY <1>0, <1>8, <3>1, AtomicIs DEF MarkedValues
    <3>2. CASE x \notin atWeak BY <1>0, <1>8, <3>2, AtomicIs
    <3> QED BY <3>1, <3>2
  <2> QED BY <1>1, <2>1
<1>9. SweepStrings \/ SweepNextList => entries' = entries
  BY DEF SweepStrings, SweepNextList, heap
<1>10. CASE SweepObject
  <2>1. entries' = entries \/ \E o : entries' = [entries EXCEPT ![o] = {}]
    BY <1>10 DEF SweepObject
  <2>2. e \in entries[x] BY <1>0, <2>1 DEF RefTypes
  <2> QED BY <1>1, <2>2
<1>11. EndCycle => entries' = entries BY DEF EndCycle
<1>12. BeginFullGC => entries' = entries BY DEF BeginFullGC, heap
<1> QED BY <1>1, <1>3, <1>4, <1>5, <1>6, <1>7, <1>8, <1>9, <1>10, <1>11, <1>12
        DEF Next, Step, SingleStep

\* Every step keeps what is claimed of a luaC_fullgc.
LEMMA RunStep ==
  ASSUME CollectInv, Next
  PROVE  RunInv'
<1>0. program' = program BY DEF Next
<1>1. \A o \in Objects : New(o) \/ NewFinalizable(o) => fullgc' # "run"
  BY DEF New, NewFinalizable, Program, phase
<1>2. Use => fullgc' # "run" BY DEF Use, Store, Drop, CheckFinalizer, Program, phase
<1>3. Finalize => fullgc' # "run" BY DEF Finalize, Program, phase
<1>4. EndCycle => ~Invariant' /\ ~Sweeping' BY DEF EndCycle, Invariant, Sweeping
<1>5. BeginFullGC => fullgc' # "run" \/ (~Invariant' /\ ~Sweeping')
  BY DEF BeginFullGC, Invariant, Sweeping
<1>6. MarkRoot => RunInv' BY <1>0, RunMarkRoot
<1>7. \A o \in All : PropagateMark(o) => RunInv' BY <1>0, RunPropagateMark
<1>8. Atomic => RunInv' BY <1>0, RunAtomic
<1>9. SweepStrings \/ SweepObject \/ SweepNextList => RunInv' BY <1>0, RunSweep
<1> QED BY <1>1, <1>2, <1>3, <1>4, <1>5, <1>6, <1>7, <1>8, <1>9, NoRunNow
        DEF Next, Step, SingleStep

\* It always holds.
LEMMA CollectAlways == Spec => []CollectInv
<1>1. Init => CollectInv
  <2> SUFFICES ASSUME Init PROVE CollectInv OBVIOUS
  <2>1. fullgc = "no" /\ \A o \in All : entries[o] = {} BY DEF Init
  <2> QED BY <2>1, GcInit DEF CollectInv, PlainInv, RunInv
<1>2. CollectInv /\ [Next]_vars => CollectInv'
  <2> SUFFICES ASSUME CollectInv, [Next]_vars PROVE CollectInv' OBVIOUS
  <2>1. GcInv' BY GcStep DEF CollectInv
  <2>2. CASE Next BY <2>1, <2>2, PlainStep, RunStep DEF CollectInv
  <2>3. CASE UNCHANGED vars
    <3>1. /\ UNCHANGED <<program, entries, marked, tobefnz, gcstate, fullgc, allweak>>
      BY <2>3 DEF vars, moving, heap, grays, phase
    <3>2. kind' = kind /\ rules' = rules /\ NoneEscapes' = NoneEscapes BY <3>1 DEF kind, rules, NoneEscapes
    <3>3. Live' = Live /\ PropagatedLive' = PropagatedLive BY <3>1, LiveKept
    <3>4. PlainInv' BY <3>1, <3>2 DEF CollectInv, PlainInv
    <3>5. Safe' = Safe /\ Sweeping' = Sweeping /\ Invariant' = Invariant
      BY <3>1 DEF Safe, Sweeping, Invariant
    <3>6. RunInv' BY <3>1, <3>2, <3>3, <3>5 DEF CollectInv, RunInv, IsWhite
    <3> QED BY <2>1, <3>4, <3>6 DEF CollectInv
  <2> QED BY <2>2, <2>3
<1> QED BY <1>1, <1>2, PTL DEF Spec

\* What is allocated when a luaC_fullgc ends was not given up.
LEMMA EndsCollected ==
  ASSUME CollectInv, EndCycle, program' = program,
         NoneEscapes /\ "plain" \in rules, fullgc = "run"
  PROVE  Allocated' \subseteq Live'
<1>1. /\ Types /\ LinkedOnce /\ SafeClosed /\ SweepInv
  BY InvIs DEF CollectInv
<1>2. /\ gcstate = "sweep" /\ ToSweep = <<>>
      /\ marked' = [marked EXCEPT ![Main] = "white"]
      /\ entries' = entries /\ tobefnz' = tobefnz
  BY DEF EndCycle
<1>3. Safe \subseteq Live BY <1>2 DEF CollectInv, RunInv, Sweeping
<1>4. Live' = Live BY <1>2, LiveKept
<1>5. \A x \in Range(finobj) \cup Range(allgc) : marked[x] = "white"
  BY <1>1, <1>2 DEF SweepInv, SweptWhite, Pending, Range
<1>6. ASSUME NEW x \in Allocated' PROVE x \in Safe
  <2>1. x \in All /\ marked'[x] # "free" BY DEF Allocated
  <2>2. CASE x = Main BY <1>1, <2>2 DEF SafeClosed
  <2>3. CASE x # Main
    <3>1. marked[x] # "free" BY <1>1, <1>2, <2>1, <2>3 DEF Types
    <3>2. x \in Range(allgc) \cup Range(finobj) \cup Range(tobefnz)
      BY <1>1, <2>1, <2>3, <3>1 DEF LinkedOnce, Allocated
    <3>3. CASE x \in Range(finobj) \cup Range(allgc) BY <1>5, <2>1, <3>3 DEF Safe
    <3>4. CASE x \in Range(tobefnz) BY <1>1, <3>4 DEF SafeClosed
    <3> QED BY <3>2, <3>3, <3>4
  <2> QED BY <2>2, <2>3
<1> QED BY <1>3, <1>4, <1>6

\* Under the same condition, and where the keys of tables with weak values are no
\* objects ("plain", without which it leaves some), what a luaC_fullgc leaves can be
\* reached or waits for its finalizer, in whatever phase it found the collector.
THEOREM FullGCLeavesLive == Spec => FullGCCollects
<1> DEFINE A == NoneEscapes /\ "plain" \in rules /\ fullgc = "run" /\ fullgc' = "no" =>
                  Allocated' \subseteq Live'
<1>1. CollectInv /\ [Next]_vars => [A]_vars
  <2> SUFFICES ASSUME CollectInv, Next, NoneEscapes /\ "plain" \in rules,
                      fullgc = "run", fullgc' = "no"
               PROVE  Allocated' \subseteq Live'
    OBVIOUS
  <2>1. \A o \in Objects : ~New(o) /\ ~NewFinalizable(o) BY DEF New, NewFinalizable, Program
  <2>2. ~Use BY DEF Use, Store, Drop, CheckFinalizer, Program
  <2>3. ~Finalize /\ ~BeginFullGC BY DEF Finalize, Program, BeginFullGC
  <2>4. ~MarkRoot BY DEF MarkRoot
  <2>5. \A o \in All : ~PropagateMark(o) BY DEF PropagateMark, phase
  <2>6. ~Atomic /\ ~SweepStrings /\ ~SweepObject /\ ~SweepNextList
    BY DEF Atomic, SweepStrings, SweepObject, SweepNextList
  <2>7. EndCycle /\ program' = program
    BY <2>1, <2>2, <2>3, <2>4, <2>5, <2>6 DEF Next, Step, SingleStep
  <2> QED BY <2>7, EndsCollected
<1>2. Spec => [][A]_vars BY <1>1, CollectAlways, PTL DEF Spec
<1> QED BY <1>2 DEF FullGCCollects

=============================================================================
