-------------------------- MODULE CoroutinesProofs --------------------------
(***************************************************************************)
(* Theorems about Coroutines, for any set of coroutines, any limits and    *)
(* the rules each theorem names.                                           *)
(*                                                                         *)
(* The predicates on which the proofs rest take the C stack, the CallInfos *)
(* and the statuses as arguments: cs, q and st.  What pushing an entry or  *)
(* cutting the C stack does to them is stated for such arguments, and the  *)
(* steps of the specification are put together from that.                  *)
(***************************************************************************)
EXTENDS Coroutines, DataLemmas

CFunctions == {"ccall", "pcallk", "pcallc"}
CallInfos  == {"lua", "java", "resume"} \cup CFunctions
Statuses   == {"new", "suspended", "running", "dead"}
Shorts     == 0..Width - 1

Entry == [kind: {"call", "raw", "res", "java"}, thread: LuaThreads,
          ny: Shorts, cc: Shorts, depth: Nat]

CiLists == [LuaThreads -> Seq(CallInfos)]

TypeOK ==
    /\ rules \subseteq AllRules
    /\ cstack \in Seq(Entry) /\ Len(cstack) <= MaxDepth
    /\ ci \in CiLists
    /\ status \in [Coroutines -> Statuses]
    /\ nny \in [LuaThreads -> Shorts]
    /\ nCcalls \in [LuaThreads -> Shorts]

\* What may stand on what: the thread changes where a coroutine is resumed, and
\* where a Java function calls luaPcall, which works on the main thread.
Stacked(cs) ==
    /\ cs # <<>> => cs[1].kind = "raw" /\ cs[1].thread = Main
    /\ \A k \in DOMAIN cs :
          /\ cs[k].kind = "call" => cs[k].ny \in {0, 1}
          /\ cs[k].kind = "res" => /\ cs[k].thread \in Coroutines
                                   /\ cs[k] = Res(cs[k].thread, cs[k].cc)
    /\ \A k \in 2..Len(cs) :
          /\ cs[k].kind = "call" => /\ cs[k].thread = cs[k - 1].thread
                                    /\ cs[k - 1].kind # "java"
          /\ cs[k].kind = "java" => /\ cs[k].thread = cs[k - 1].thread
                                    /\ cs[k - 1].kind \in {"call", "res"}
          /\ cs[k].kind = "raw"  => IF cs[k - 1].kind = "java"
                                    THEN cs[k].thread = Main
                                    ELSE /\ cs[k].thread = cs[k - 1].thread
                                         /\ cs[k - 1].kind # "raw"
          /\ cs[k].kind = "res"  => /\ cs[k].thread # cs[k - 1].thread
                                    /\ cs[k - 1].kind \in {"call", "res"}

\* luaD_pcall has always called something.
TopCalled(cs) == cs # <<>> => Last(cs).kind # "raw"

\* A coroutine is resumed once at a time; its entries follow its lua_resume,
\* with no other between them.
Blocks(cs, st) ==
    /\ \A i, k \in DOMAIN cs : cs[i].kind = "res" /\ cs[k].kind = "res"
                                 /\ cs[i].thread = cs[k].thread => i = k
    /\ \A i \in DOMAIN cs : cs[i].kind = "res" => st[cs[i].thread] = "running"
    /\ \A i \in DOMAIN cs : cs[i].thread \in Coroutines =>
          \E k \in 1..i : cs[k].kind = "res" /\ cs[k].thread = cs[i].thread
    /\ \A i, m, k \in DOMAIN cs :
          /\ i <= m /\ m <= k
          /\ cs[i].thread = cs[k].thread /\ cs[i].thread \in Coroutines
          => cs[m].thread = cs[i].thread

-----------------------------------------------------------------------------
\* Entry e of the C stack and the first n CallInfos s of its thread, those that
\* there are when the entry after it of that thread comes, or now.  r: the
\* entry is a thread's that resumes a coroutine.
Shape(e, s, n, r) ==
    LET m == IF r THEN n - 1 ELSE n
    IN  /\ n \in 0..Len(s)
        /\ r => n > 0 /\ s[n] = "resume"
        /\ e.kind = "raw" => /\ n = e.depth
                             /\ n > 0 => s[n] \notin CFunctions
        /\ e.kind = "java" => m = e.depth + 1 /\ s[m] = "java"
        /\ e.kind = "res" => m > 0 /\ s[m] = "lua"
        /\ e.kind = "call" =>
              /\ m > 0 /\ s[m] = "lua"
              /\ \/ /\ m = e.depth + 1
                    /\ e.depth > 0 => s[e.depth] \notin CFunctions
                 \/ m = e.depth + 2 /\ s[e.depth + 1] \in CFunctions

\* The innermost entry of a thread, and all of its CallInfos.
Settled(e, s) == Shape(e, s, Len(s), FALSE)

Resuming(cs, p) == p < Len(cs) /\ cs[p + 1].kind = "res"

Consecutive(cs, p, k) ==
    /\ p < k /\ cs[p].thread = cs[k].thread
    /\ \A m \in p + 1..k - 1 : cs[m].thread # cs[p].thread

LastOfThread(cs, p) == \A m \in p + 1..Len(cs) : cs[m].thread # cs[p].thread

Between(cs, q) == \A p, k \in DOMAIN cs : Consecutive(cs, p, k) =>
    Shape(cs[p], q[cs[p].thread], cs[k].depth, Resuming(cs, p))

OnTop(cs, q) == \A p \in DOMAIN cs : LastOfThread(cs, p) =>
    Shape(cs[p], q[cs[p].thread], Len(q[cs[p].thread]), Resuming(cs, p))

Depths(cs, q) ==
    /\ \A p, k \in DOMAIN cs : p < k /\ cs[p].thread = cs[k].thread =>
          cs[p].depth <= cs[k].depth
    /\ \A p \in DOMAIN cs : cs[p].depth <= Len(q[cs[p].thread])
    /\ cs # <<>> => cs[1].depth = 0
    /\ cs = <<>> => q[Main] = <<>>

Layout(cs, q) == Between(cs, q) /\ OnTop(cs, q) /\ Depths(cs, q)

\* The CallInfos of a coroutine end in a Lua function when it has yielded, and
\* a pcall with a continuation was called by one.
Continuable(q, st) ==
    /\ \A c \in Coroutines : st[c] = "suspended" => q[c] # <<>> /\ Last(q[c]) = "lua"
    /\ \A t \in LuaThreads : \A i \in DOMAIN q[t] :
          q[t][i] = "pcallk" => i > 1 /\ q[t][i - 1] = "lua"

Frames(cs, q, st) ==
    /\ Stacked(cs) /\ TopCalled(cs) /\ Blocks(cs, st)
    /\ Layout(cs, q) /\ Continuable(q, st)

FramesInv == TypeOK /\ Frames(cstack, ci, status)

-----------------------------------------------------------------------------
(* Lists *)

\* The greatest of a set of naturals with a bound.
LEMMA MaxIs ==
  ASSUME NEW n \in Nat, NEW S, S \subseteq 0..n, S # {}
  PROVE  Max(S) \in S /\ \A y \in S : y <= Max(S)
<1> DEFINE T == {n - y : y \in S}
<1>1. T \subseteq Nat /\ T # {}
  <2>1. PICK y \in S : TRUE OBVIOUS
  <2>2. n - y \in T BY <2>1
  <2> QED BY <2>2
<1>2. PICK x \in T : \A y \in T : x <= y BY <1>1, LeastNatural
<1>3. PICK z \in S : x = n - z OBVIOUS
<1>4. \A y \in S : z >= y BY <1>2, <1>3
<1> HIDE DEF T
<1>5. \E z1 \in S : \A y \in S : z1 >= y BY <1>4
<1> QED BY <1>5 DEF Max

\* An entry is put at the end of a list.
LEMMA AppendIs ==
  ASSUME NEW T, NEW s \in Seq(T), NEW e \in T
  PROVE  /\ Append(s, e) \in Seq(T)
         /\ Len(s) \in Nat /\ Len(Append(s, e)) = Len(s) + 1
         /\ DOMAIN s = 1..Len(s) /\ DOMAIN Append(s, e) = 1..Len(s) + 1
         /\ \A i \in 1..Len(s) : Append(s, e)[i] = s[i]
         /\ Append(s, e)[Len(s) + 1] = e
  OBVIOUS

\* The shape of an entry depends on the first n CallInfos.
LEMMA ShapeOfPrefix ==
  ASSUME NEW e \in Entry, NEW s \in Seq(CallInfos), NEW u \in Seq(CallInfos),
         NEW n \in Nat, NEW r \in BOOLEAN, Shape(e, s, n, r),
         n <= Len(u), \A i \in 1..n : u[i] = s[i]
  PROVE  Shape(e, u, n, r)
<1>1. e.depth \in Nat /\ Len(s) \in Nat /\ Len(u) \in Nat
  BY DEF Entry
<1> QED BY <1>1 DEF Shape

\* A coroutine that a thread resumed is gone, and its CallInfo.
LEMMA ShapeResumed ==
  ASSUME NEW e \in Entry, NEW s \in Seq(CallInfos), NEW u \in Seq(CallInfos),
         Shape(e, s, Len(s), TRUE), e.kind \in {"call", "res"},
         u = Front(s)
  PROVE  Shape(e, u, Len(u), FALSE) /\ s # <<>> /\ Last(s) = "resume"
<1>1. /\ e.depth \in Nat /\ Len(s) \in Nat /\ Len(s) > 0
      /\ s[Len(s)] = "resume"
      /\ Len(u) = Len(s) - 1 /\ \A i \in 1..Len(u) : u[i] = s[i]
  BY DEF Entry, Shape, Front
<1> QED BY <1>1 DEF Shape, Last

\* A thread resumes a coroutine.
LEMMA ShapeResuming ==
  ASSUME NEW e \in Entry, NEW s \in Seq(CallInfos), NEW u \in Seq(CallInfos),
         Shape(e, s, Len(s), FALSE), e.kind \in {"call", "res"},
         u = Append(s, "resume")
  PROVE  Shape(e, u, Len(u), TRUE)
<1>1. /\ e.depth \in Nat /\ Len(s) \in Nat
      /\ Len(u) = Len(s) + 1 /\ \A i \in 1..Len(s) : u[i] = s[i]
      /\ u[Len(u)] = "resume"
  BY DEF Entry
<1> QED BY <1>1 DEF Shape

-----------------------------------------------------------------------------
(* What an entry stands on *)

\* Facts about lists of entries, for the leaves of the proofs.
LEMMA EntriesAre ==
  ASSUME NEW cs \in Seq(Entry)
  PROVE  /\ Len(cs) \in Nat /\ DOMAIN cs = 1..Len(cs)
         /\ cs = <<>> <=> Len(cs) = 0
         /\ cs # <<>> => Last(cs) = cs[Len(cs)]
         /\ \A i \in 1..Len(cs) :
               /\ cs[i] \in Entry
               /\ cs[i].thread \in LuaThreads /\ cs[i].depth \in Nat
               /\ cs[i].kind \in {"call", "raw", "res", "java"}
<1>1. \A i \in 1..Len(cs) : cs[i] \in Entry OBVIOUS
<1>2. \A e \in Entry : /\ e.thread \in LuaThreads /\ e.depth \in Nat
                       /\ e.kind \in {"call", "raw", "res", "java"}
  BY DEF Entry
<1> QED BY <1>1, <1>2 DEF Last

\* The coroutine that lua_resume has on the C stack at j has nothing below.
LEMMA ResIsFirst ==
  ASSUME NEW cs \in Seq(Entry), NEW st, Blocks(cs, st),
         NEW j \in DOMAIN cs, cs[j].kind = "res", cs[j].thread \in Coroutines
  PROVE  \A i \in 1..j - 1 : cs[i].thread # cs[j].thread
<1>1. SUFFICES ASSUME NEW i \in 1..j - 1, cs[i].thread = cs[j].thread
               PROVE  FALSE
  OBVIOUS
<1>2. Len(cs) \in Nat /\ DOMAIN cs = 1..Len(cs) BY EntriesAre
<1>3. PICK k \in 1..i : cs[k].kind = "res" /\ cs[k].thread = cs[i].thread
  BY <1>1, <1>2 DEF Blocks
<1>4. k = j BY <1>1, <1>2, <1>3 DEF Blocks
<1> QED BY <1>1, <1>2, <1>4

\* Where the thread changes, a coroutine was resumed or luaPcall called.
LEMMA ThreadChanges ==
  ASSUME NEW cs \in Seq(Entry), Stacked(cs), NEW k \in 2..Len(cs),
         cs[k].thread # cs[k - 1].thread
  PROVE  \/ cs[k].kind = "res"
         \/ cs[k].kind = "raw" /\ cs[k].thread = Main /\ cs[k - 1].kind = "java"
  BY EntriesAre DEF Stacked

\* An error in the innermost thread cuts off entries of this thread only, and
\* no lua_resume or luaD_pcall but the one that catches it.
LEMMA JumpIs ==
  ASSUME NEW cs \in Seq(Entry), Stacked(cs), cs # <<>>,
         NEW j \in Nat,
         j = Max({0} \cup {i \in DOMAIN cs : cs[i].kind \in {"raw", "res"}
                                         /\ cs[i].thread = Last(cs).thread}),
         j # 0
  PROVE  /\ j \in DOMAIN cs /\ cs[j].kind \in {"raw", "res"}
         /\ cs[j].thread = Last(cs).thread
         /\ \A i \in j + 1..Len(cs) : /\ cs[i].thread = Last(cs).thread
                                      /\ cs[i].kind \in {"call", "java"}
<1> DEFINE n == Len(cs)
           t == cs[n].thread
           S == {0} \cup {i \in DOMAIN cs : cs[i].kind \in {"raw", "res"}
                                               /\ cs[i].thread = t}
           Other(i) == cs[i].thread # t \/ cs[i].kind \in {"raw", "res"}
           U == {0} \cup {i \in 1..n : Other(i)}
<1>1. n \in Nat /\ DOMAIN cs = 1..n /\ n > 0 /\ Last(cs).thread = t
  BY EntriesAre
<1>2. S \subseteq 0..n /\ S # {} BY <1>1
<1>3. j = Max(S) BY <1>1
<1> HIDE DEF S
<1>4. j \in S /\ \A y \in S : y <= j BY <1>1, <1>2, <1>3, MaxIs
<1>5. j \in 1..n /\ cs[j].kind \in {"raw", "res"} /\ cs[j].thread = t
  BY <1>1, <1>4 DEF S
<1>6. U \subseteq 0..n /\ U # {} BY <1>1
<1> DEFINE m == Max(U)
<1>7. m \in U /\ \A y \in U : y <= m BY <1>1, <1>6, MaxIs
<1> HIDE DEF m
<1>8. j \in U BY <1>5
<1>9. m \in 1..n /\ Other(m) /\ m >= j BY <1>1, <1>5, <1>7, <1>8
<1>10. \A i \in m + 1..n : ~Other(i) BY <1>1, <1>7, <1>9
<1>11. cs[m].thread = t
  <2>1. CASE m = n BY <2>1
  <2>2. CASE m # n
    <3>0. m \in 1..n BY <1>9
    <3>1. m + 1 \in 2..n /\ (m + 1) - 1 = m
      <4> HIDE DEF n
      <4> QED BY <1>1, <2>2, <3>0
    <3>2. cs[m + 1].thread = t /\ cs[m + 1].kind \notin {"raw", "res"}
      BY <1>1, <1>9, <1>10, <3>1
    <3>3. cs[(m + 1) - 1].thread = cs[m + 1].thread
      BY <3>1, <3>2, ThreadChanges
    <3> QED BY <3>1, <3>2, <3>3
  <2> QED BY <2>1, <2>2
<1>12. m \in S BY <1>1, <1>9, <1>11 DEF S
<1>13. m = j BY <1>1, <1>4, <1>9, <1>12
<1>14. \A i \in 1..n : cs[i].kind \in {"call", "raw", "res", "java"}
  BY EntriesAre
<1>15. \A i \in j + 1..n : cs[i].thread = t /\ cs[i].kind \in {"call", "java"}
  <2>1. \A i \in j + 1..n : i \in 1..n /\ ~Other(i) BY <1>1, <1>5, <1>10, <1>13
  <2> QED BY <2>1, <1>14
<1> HIDE DEF Other
<1> QED BY <1>1, <1>5, <1>15

\* The same for an error in the main thread, which cuts off coroutines also.
LEMMA MainJumpIs ==
  ASSUME NEW cs \in Seq(Entry), Stacked(cs), NEW j \in Nat,
         j = Max({0} \cup {i \in DOMAIN cs : cs[i].kind \in {"raw", "res"}
                                         /\ cs[i].thread = Main}),
         j # 0
  PROVE  j \in DOMAIN cs /\ cs[j].kind = "raw" /\ cs[j].thread = Main
<1> DEFINE S == {0} \cup {i \in DOMAIN cs : cs[i].kind \in {"raw", "res"}
                                               /\ cs[i].thread = Main}
<1>1. Len(cs) \in Nat /\ DOMAIN cs = 1..Len(cs) BY EntriesAre
<1>2. S \subseteq 0..Len(cs) /\ S # {} BY <1>1
<1>3. j = Max(S) OBVIOUS
<1> HIDE DEF S
<1>4. j \in S BY <1>1, <1>2, <1>3, MaxIs
<1>5. j \in DOMAIN cs /\ cs[j].kind \in {"raw", "res"} /\ cs[j].thread = Main
  BY <1>4 DEF S
<1>6. cs[j].kind # "res" BY <1>5, ThreadsAssumption DEF Stacked
<1> QED BY <1>5, <1>6

\* No coroutine has entries below and above one of the main thread.
LEMMA NotAround ==
  ASSUME NEW cs \in Seq(Entry), NEW st, Blocks(cs, st), NEW j \in DOMAIN cs,
         cs[j].thread = Main
  PROVE  \A i, k \in DOMAIN cs : i < j /\ j <= k /\ cs[i].thread = cs[k].thread
            => cs[i].thread = Main
<1>1. SUFFICES ASSUME NEW i \in DOMAIN cs, NEW k \in DOMAIN cs, i < j, j <= k,
                      cs[i].thread = cs[k].thread, cs[i].thread # Main
               PROVE  FALSE
  OBVIOUS
<1>2. Len(cs) \in Nat /\ DOMAIN cs = 1..Len(cs) /\ cs[i].thread \in Coroutines
  BY <1>1, EntriesAre DEF LuaThreads
<1>3. cs[j].thread = cs[i].thread BY <1>1, <1>2 DEF Blocks
<1> QED BY <1>1, <1>3

-----------------------------------------------------------------------------
(* The C stack is cut *)

\* What is left stands on what it stood on.
LEMMA CutStacked ==
  ASSUME NEW cs \in Seq(Entry), NEW st, NEW st2, Stacked(cs), Blocks(cs, st),
         NEW m \in 0..Len(cs), m > 0 => cs[m].kind # "raw",
         \A i \in 1..m : cs[i].kind = "res" => st2[cs[i].thread] = st[cs[i].thread]
  PROVE  /\ Stacked(SubSeq(cs, 1, m)) /\ TopCalled(SubSeq(cs, 1, m))
         /\ Blocks(SubSeq(cs, 1, m), st2)
<1> DEFINE b == SubSeq(cs, 1, m)
<1>1. /\ b \in Seq(Entry) /\ Len(b) = m /\ DOMAIN b = 1..m
      /\ \A i \in 1..m : b[i] = cs[i] /\ i \in DOMAIN cs
  BY PrefixIs
<1>2. Len(cs) \in Nat /\ DOMAIN cs = 1..Len(cs) /\ (cs = <<>> <=> Len(cs) = 0)
  BY EntriesAre
<1>3. (b = <<>> <=> m = 0) /\ (b # <<>> => Last(b) = b[m])
  BY <1>1, EntriesAre
<1> HIDE DEF b
<1>4. Stacked(b)
  <2>1. b # <<>> => b[1].kind = "raw" /\ b[1].thread = Main
    BY <1>1, <1>2, <1>3 DEF Stacked
  <2>2. \A k \in DOMAIN b :
          /\ b[k].kind = "call" => b[k].ny \in {0, 1}
          /\ b[k].kind = "res" => /\ b[k].thread \in Coroutines
                                   /\ b[k] = Res(b[k].thread, b[k].cc)
    BY <1>1, <1>2 DEF Stacked
  <2>3. \A k \in 2..m : k \in 2..Len(cs) /\ b[k] = cs[k] /\ b[k - 1] = cs[k - 1]
    BY <1>1, <1>2
  <2> QED BY <1>1, <2>1, <2>2, <2>3 DEF Stacked
<1>5. TopCalled(b) BY <1>1, <1>3 DEF TopCalled
<1>6. Blocks(b, st2)
  <2>1. \A i, k \in 1..m : b[i].kind = "res" /\ b[k].kind = "res"
                                 /\ b[i].thread = b[k].thread => i = k
    BY <1>1 DEF Blocks
  <2>2. \A i \in 1..m : b[i].kind = "res" => st2[b[i].thread] = "running"
    BY <1>1 DEF Blocks
  <2>3. \A i \in 1..m : b[i].thread \in Coroutines =>
          \E k \in 1..i : b[k].kind = "res" /\ b[k].thread = b[i].thread
    <3>1. SUFFICES ASSUME NEW i \in 1..m, b[i].thread \in Coroutines
                   PROVE  \E k \in 1..i : b[k].kind = "res" /\ b[k].thread = b[i].thread
      OBVIOUS
    <3>2. PICK k \in 1..i : cs[k].kind = "res" /\ cs[k].thread = cs[i].thread
      BY <1>1, <3>1 DEF Blocks
    <3>3. k \in 1..m BY <1>2
    <3> QED BY <1>1, <3>2, <3>3
  <2>4. \A i, x, k \in 1..m :
          /\ i <= x /\ x <= k
          /\ b[i].thread = b[k].thread /\ b[i].thread \in Coroutines
          => b[x].thread = b[i].thread
    BY <1>1 DEF Blocks
  <2> QED BY <1>1, <2>1, <2>2, <2>3, <2>4 DEF Blocks
<1> QED BY <1>4, <1>5, <1>6 DEF b

\* The entries of one thread are cut off, and the CallInfos that it has got
\* since; entries of other threads only if all of them are.
LEMMA CutLayout ==
  ASSUME NEW cs \in Seq(Entry), NEW q \in CiLists, Stacked(cs), Layout(cs, q),
         NEW m \in 0..Len(cs) - 1, cs[m + 1].kind # "res",
         NEW t, t = cs[m + 1].thread,
         \A i, k \in DOMAIN cs : i <= m /\ m < k /\ cs[i].thread = cs[k].thread
            => cs[i].thread = t
  PROVE  Layout(SubSeq(cs, 1, m), [q EXCEPT ![t] = SubSeq(q[t], 1, cs[m + 1].depth)])
<1> DEFINE b == SubSeq(cs, 1, m)
           d == cs[m + 1].depth
           u == [q EXCEPT ![t] = SubSeq(q[t], 1, d)]
<1>1. /\ Len(cs) \in Nat /\ DOMAIN cs = 1..Len(cs) /\ (cs = <<>> <=> Len(cs) = 0)
      /\ m + 1 \in 1..Len(cs) /\ m \in Nat /\ d \in Nat /\ t \in LuaThreads
      /\ \A i \in 1..Len(cs) : /\ cs[i] \in Entry /\ cs[i].thread \in LuaThreads
                               /\ cs[i].depth \in Nat
  BY EntriesAre
<1>2. /\ b \in Seq(Entry) /\ Len(b) = m /\ DOMAIN b = 1..m
      /\ \A i \in 1..m : b[i] = cs[i] /\ i \in DOMAIN cs
  BY <1>1, PrefixIs
<1>3. b = <<>> <=> m = 0 BY <1>2, EntriesAre
<1>4. q[t] \in Seq(CallInfos) /\ d <= Len(q[t]) BY <1>1 DEF CiLists, Layout, Depths
<1>5. /\ u \in CiLists /\ Len(u[t]) = d /\ \A i \in 1..d : u[t][i] = q[t][i]
      /\ \A x \in LuaThreads : x # t => u[x] = q[x]
  <2>1. /\ SubSeq(q[t], 1, d) \in Seq(CallInfos) /\ Len(SubSeq(q[t], 1, d)) = d
        /\ \A i \in 1..d : SubSeq(q[t], 1, d)[i] = q[t][i]
    BY <1>1, <1>4, PrefixIs
  <2>2. u[t] = SubSeq(q[t], 1, d) BY <1>1 DEF CiLists
  <2>3. u \in CiLists BY <2>1 DEF CiLists
  <2>4. \A x \in LuaThreads : x # t => u[x] = q[x] BY DEF CiLists
  <2> QED BY <2>1, <2>2, <2>3, <2>4
<1>6. \A x \in LuaThreads : q[x] \in Seq(CallInfos) /\ u[x] \in Seq(CallInfos)
  BY <1>5 DEF CiLists
<1>7. \A p \in 1..m : Resuming(b, p) = Resuming(cs, p)
  BY <1>1, <1>2 DEF Resuming
<1>8. \A p \in 1..m : cs[p].thread = t => cs[p].depth <= d
  BY <1>1 DEF Layout, Depths
<1> HIDE DEF b, u, d
<1>9. Between(b, u)
  <2>1. SUFFICES ASSUME NEW p \in 1..m, NEW k \in 1..m, Consecutive(b, p, k)
                 PROVE  Shape(b[p], u[b[p].thread], b[k].depth, Resuming(b, p))
    BY <1>2 DEF Between
  <2>2. Consecutive(cs, p, k) BY <1>2, <2>1 DEF Consecutive
  <2>3. Shape(cs[p], q[cs[p].thread], cs[k].depth, Resuming(cs, p))
    BY <1>1, <2>2 DEF Layout, Between
  <2>4. cs[p].thread = cs[k].thread BY <2>2 DEF Consecutive
  <2>5. CASE cs[p].thread # t BY <1>1, <1>2, <1>5, <1>7, <2>3, <2>5
  <2>6. CASE cs[p].thread = t
    <3>1. p \in 1..Len(cs) /\ k \in 1..Len(cs) BY <1>1
    <3>2. cs[k].depth <= d BY <1>8, <2>4, <2>6
    <3>3. cs[p] \in Entry /\ cs[k].depth \in Nat /\ Resuming(cs, p) \in BOOLEAN
      BY <1>1, <3>1 DEF Resuming
    <3>4. cs[k].depth <= Len(u[t]) /\ \A i \in 1..cs[k].depth : u[t][i] = q[t][i]
      BY <1>1, <1>5, <3>2, <3>3
    <3>5. Shape(cs[p], u[t], cs[k].depth, Resuming(cs, p))
      <4>1. q[t] \in Seq(CallInfos) /\ u[t] \in Seq(CallInfos) BY <1>1, <1>6
      <4>2. Shape(cs[p], q[t], cs[k].depth, Resuming(cs, p)) BY <2>3, <2>6
      <4> DEFINE e == cs[p]  n == cs[k].depth  r == Resuming(cs, p)  x == q[t]  y == u[t]
      <4>3. e \in Entry /\ n \in Nat /\ r \in BOOLEAN /\ x \in Seq(CallInfos) /\ y \in Seq(CallInfos)
        BY <3>3, <4>1
      <4>4. Shape(e, x, n, r) /\ n <= Len(y) /\ \A i \in 1..n : y[i] = x[i] BY <3>4, <4>2
      <4> HIDE DEF e, n, r, x, y
      <4>5. Shape(e, y, n, r) BY <4>3, <4>4, ShapeOfPrefix
      <4> QED BY <4>5 DEF e, n, r, y
    <3> QED BY <1>2, <1>7, <2>6, <3>5
  <2> QED BY <2>5, <2>6
<1>10. OnTop(b, u)
  <2>1. SUFFICES ASSUME NEW p \in 1..m, LastOfThread(b, p)
                 PROVE  Shape(b[p], u[b[p].thread], Len(u[b[p].thread]), Resuming(b, p))
    BY <1>2 DEF OnTop
  <2>2. \A x \in p + 1..m : cs[x].thread # cs[p].thread
    BY <1>2, <2>1 DEF LastOfThread
  <2>3. CASE cs[p].thread # t
    <3>1. LastOfThread(cs, p)
      <4>1. \A x \in m + 1..Len(cs) : cs[x].thread # cs[p].thread
        BY <1>1, <2>3
      <4> QED BY <1>1, <2>2, <4>1 DEF LastOfThread
    <3>2. Shape(cs[p], q[cs[p].thread], Len(q[cs[p].thread]), Resuming(cs, p))
      BY <1>1, <3>1 DEF Layout, OnTop
    <3> QED BY <1>1, <1>2, <1>5, <1>7, <2>3, <3>2
  <2>4. CASE cs[p].thread = t
    <3>1. Consecutive(cs, p, m + 1)
      BY <1>1, <2>2, <2>4 DEF Consecutive
    <3>2. Shape(cs[p], q[t], d, Resuming(cs, p))
      BY <1>1, <2>4, <3>1 DEF Layout, Between, d
    <3>3. cs[p] \in Entry /\ Resuming(cs, p) \in BOOLEAN BY <1>1 DEF Resuming
    <3>4. Shape(cs[p], u[t], d, Resuming(cs, p))
      <4>1. q[t] \in Seq(CallInfos) /\ u[t] \in Seq(CallInfos) BY <1>1, <1>6
      <4>2. d <= Len(u[t]) /\ \A i \in 1..d : u[t][i] = q[t][i] BY <1>1, <1>5
      <4>3. d \in Nat BY <1>1
      <4> DEFINE e == cs[p]  r == Resuming(cs, p)  x == q[t]  y == u[t]
      <4>4. e \in Entry /\ r \in BOOLEAN /\ x \in Seq(CallInfos) /\ y \in Seq(CallInfos)
        BY <3>3, <4>1
      <4>5. Shape(e, x, d, r) /\ d <= Len(y) /\ \A i \in 1..d : y[i] = x[i] BY <3>2, <4>2
      <4> HIDE DEF e, r, x, y
      <4>6. Shape(e, y, d, r) BY <4>3, <4>4, <4>5, ShapeOfPrefix
      <4> QED BY <4>6 DEF e, r, y
    <3> QED BY <1>2, <1>5, <1>7, <2>4, <3>4
  <2> QED BY <2>3, <2>4
<1>11. Depths(b, u)
  <2>1. \A p, k \in 1..m : p < k /\ b[p].thread = b[k].thread => b[p].depth <= b[k].depth
    BY <1>2 DEF Layout, Depths
  <2>2. \A p \in 1..m : b[p].depth <= Len(u[b[p].thread])
    BY <1>1, <1>2, <1>5, <1>8 DEF Layout, Depths
  <2>3. b # <<>> => b[1].depth = 0
    BY <1>1, <1>2, <1>3 DEF Layout, Depths
  <2>4. b = <<>> => u[Main] = <<>>
    <3>1. SUFFICES ASSUME m = 0 PROVE u[Main] = <<>> BY <1>3
    <3>2. t = Main /\ d = 0 BY <1>1, <3>1 DEF Stacked, Layout, Depths, d
    <3> QED BY <1>1, <1>5, <1>6, <3>2
  <2> QED BY <1>2, <2>1, <2>2, <2>3, <2>4 DEF Depths
<1> QED BY <1>9, <1>10, <1>11 DEF Layout, b, u, d

\* A coroutine leaves the C stack; in the thread that resumed it
\* coroutine.resume returns.
LEMMA EndLayout ==
  ASSUME NEW cs \in Seq(Entry), NEW q \in CiLists, NEW st,
         Stacked(cs), Blocks(cs, st), Layout(cs, q),
         NEW j \in DOMAIN cs, cs[j].kind = "res",
         NEW c, c = cs[j].thread, \A i \in j..Len(cs) : cs[i].thread = c,
         NEW f, f = cs[j - 1].thread,
         NEW u \in CiLists, u[f] = Front(q[f]),
         \A x \in LuaThreads \ {c, f} : u[x] = q[x]
  PROVE  /\ Layout(SubSeq(cs, 1, j - 1), u)
         /\ j > 1 /\ j - 1 \in DOMAIN cs /\ f \in LuaThreads /\ c \in Coroutines /\ f # c
         /\ cs[j - 1].kind \in {"call", "res"}
         /\ q[f] # <<>> /\ Last(q[f]) = "resume"
         /\ \A i \in 1..j - 1 : cs[i].thread # c
         /\ \A i \in 1..j - 1 : cs[i].thread = f => cs[i].depth <= Len(u[f])
<1> DEFINE m == j - 1
           b == SubSeq(cs, 1, m)
<1>1. /\ Len(cs) \in Nat /\ DOMAIN cs = 1..Len(cs) /\ (cs = <<>> <=> Len(cs) = 0)
      /\ \A i \in 1..Len(cs) : /\ cs[i] \in Entry /\ cs[i].thread \in LuaThreads
                               /\ cs[i].depth \in Nat
  BY EntriesAre
<1>2. j # 1 /\ c \in Coroutines BY <1>1 DEF Stacked
<1>3. j \in 2..Len(cs) /\ m \in 1..Len(cs) /\ m + 1 = j /\ f \in LuaThreads
      /\ f = cs[m].thread
  BY <1>1, <1>2
<1>4. f # c /\ cs[m].kind \in {"call", "res"} BY <1>3 DEF Stacked
<1>5. \A i \in 1..m : cs[i].thread # c BY <1>2, ResIsFirst
<1>6. /\ b \in Seq(Entry) /\ Len(b) = m /\ DOMAIN b = 1..m
      /\ \A i \in 1..m : b[i] = cs[i] /\ i \in DOMAIN cs
  BY <1>1, <1>3, PrefixIs
<1>7. b # <<>>
  <2> HIDE DEF b, m
  <2> QED BY <1>3, <1>6, EntriesAre
<1>8. \A x \in LuaThreads : q[x] \in Seq(CallInfos) /\ u[x] \in Seq(CallInfos)
  BY DEF CiLists
<1>9. /\ \A p \in 1..m - 1 : Resuming(b, p) = Resuming(cs, p)
      /\ Resuming(cs, m) = TRUE /\ Resuming(b, m) = FALSE
  BY <1>1, <1>3, <1>6 DEF Resuming
<1>10. Shape(cs[m], q[f], Len(q[f]), TRUE)
  <2>1. LastOfThread(cs, m) BY <1>1, <1>3, <1>4 DEF LastOfThread
  <2>2. Shape(cs[m], q[f], Len(q[f]), Resuming(cs, m))
    BY <1>1, <1>3, <2>1 DEF Layout, OnTop
  <2> QED BY <1>9, <2>2
<1>11. /\ Shape(cs[m], u[f], Len(u[f]), FALSE)
       /\ q[f] # <<>> /\ Last(q[f]) = "resume"
  BY <1>1, <1>3, <1>4, <1>8, <1>10, ShapeResumed
<1>12. \A i \in 1..m : cs[i].thread = f => cs[i].depth <= Len(u[f])
  <2>1. SUFFICES ASSUME NEW i \in 1..m, cs[i].thread = f
                 PROVE  cs[i].depth <= Len(u[f])
    OBVIOUS
  <2>2. i \in 1..Len(cs) /\ cs[i].depth \in Nat /\ cs[m].depth \in Nat /\ Len(u[f]) \in Nat
    BY <1>1, <1>3, <1>8
  <2>3. cs[m].depth <= Len(u[f])
    <3>1. CASE cs[m].kind = "call" BY <1>11, <2>2, <3>1 DEF Shape
    <3>2. CASE cs[m].kind = "res"
      <4>1. cs[m].depth = 0 BY <1>1, <1>3, <3>2 DEF Stacked, Res
      <4> QED BY <2>2, <4>1
    <3> QED BY <1>4, <3>1, <3>2
  <2>4. CASE i = m BY <2>3, <2>4
  <2>5. CASE i < m
    <3>1. cs[i].depth <= cs[m].depth
      BY <1>1, <1>3, <2>1, <2>2, <2>5 DEF Layout, Depths
    <3> QED BY <2>2, <2>3, <3>1
  <2> QED BY <1>3, <2>4, <2>5
<1> HIDE DEF b, m
<1>13. Between(b, u)
  <2>1. SUFFICES ASSUME NEW p \in 1..m, NEW k \in 1..m, Consecutive(b, p, k)
                 PROVE  Shape(b[p], u[b[p].thread], b[k].depth, Resuming(b, p))
    BY <1>6 DEF Between
  <2>2. Consecutive(cs, p, k) /\ p < k BY <1>6, <2>1 DEF Consecutive
  <2>3. Shape(cs[p], q[cs[p].thread], cs[k].depth, Resuming(cs, p))
    BY <1>6, <2>2 DEF Layout, Between
  <2>4. p \in 1..m - 1 BY <1>3, <2>2
  <2>5. cs[p].thread = cs[k].thread /\ cs[p].thread \in LuaThreads \ {c}
    BY <1>1, <1>3, <1>5, <2>2 DEF Consecutive
  <2>6. CASE cs[p].thread # f
    <3>1. u[cs[p].thread] = q[cs[p].thread] BY <2>5, <2>6
    <3>2. Resuming(b, p) = Resuming(cs, p) BY <1>9, <2>4
    <3> QED BY <1>6, <2>3, <3>1, <3>2
  <2>7. CASE cs[p].thread = f
    <3>1. cs[p] \in Entry /\ cs[k].depth \in Nat /\ Resuming(cs, p) \in BOOLEAN
      BY <1>1, <1>6 DEF Resuming
    <3>2. cs[k].depth <= Len(u[f]) BY <1>12, <2>5, <2>7
    <3>3. q[f] \in Seq(CallInfos) /\ u[f] \in Seq(CallInfos) BY <1>3, <1>8
    <3>4. \A i \in 1..cs[k].depth : u[f][i] = q[f][i]
      BY <3>1, <3>2, <3>3 DEF Front
    <3>5. Shape(cs[p], q[f], cs[k].depth, Resuming(cs, p)) BY <2>3, <2>7
    <3>6. Shape(cs[p], u[f], cs[k].depth, Resuming(cs, p))
      <4> DEFINE r == Resuming(cs, p)
                 e == cs[p]
                 n == cs[k].depth
                 s == q[f]
                 v == u[f]
      <4>1. /\ e \in Entry /\ n \in Nat /\ r \in BOOLEAN
            /\ s \in Seq(CallInfos) /\ v \in Seq(CallInfos)
        BY <3>1, <3>3
      <4>2. n <= Len(v) /\ \A i \in 1..n : v[i] = s[i] BY <3>2, <3>4
      <4>3. Shape(e, s, n, r) BY <3>5
      <4> HIDE DEF r, e, n, s, v
      <4>4. Shape(e, v, n, r) BY <4>1, <4>2, <4>3, ShapeOfPrefix, SMT
      <4> QED BY <4>4 DEF r, e, n, s, v
    <3>7. Resuming(b, p) = Resuming(cs, p) BY <1>9, <2>4
    <3> QED BY <1>6, <2>7, <3>6, <3>7
  <2> QED BY <2>6, <2>7
<1>14. OnTop(b, u)
  <2>1. SUFFICES ASSUME NEW p \in 1..m, LastOfThread(b, p)
                 PROVE  Shape(b[p], u[b[p].thread], Len(u[b[p].thread]), Resuming(b, p))
    BY <1>6 DEF OnTop
  <2>2. \A x \in p + 1..m : cs[x].thread # cs[p].thread
    BY <1>3, <1>6, <2>1 DEF LastOfThread
  <2>3. CASE p = m BY <1>3, <1>6, <1>9, <1>11, <2>3
  <2>4. CASE p # m
    <3>1. m \in p + 1..m /\ p \in 1..m - 1 BY <1>3, <2>4
    <3>2. cs[p].thread \in LuaThreads \ {c, f} BY <1>1, <1>3, <1>5, <2>2, <3>1
    <3>3. LastOfThread(cs, p)
      BY <1>1, <1>3, <2>2, <3>2 DEF LastOfThread
    <3>4. Shape(cs[p], q[cs[p].thread], Len(q[cs[p].thread]), Resuming(cs, p))
      BY <1>6, <3>3 DEF Layout, OnTop
    <3>5. u[cs[p].thread] = q[cs[p].thread] /\ Resuming(b, p) = Resuming(cs, p)
      BY <1>9, <3>1, <3>2
    <3> QED BY <1>6, <3>4, <3>5
  <2> QED BY <2>3, <2>4
<1>15. Depths(b, u)
  <2>1. \A p, k \in 1..m : p < k /\ b[p].thread = b[k].thread => b[p].depth <= b[k].depth
    BY <1>6 DEF Layout, Depths
  <2>2. \A p \in 1..m : b[p].depth <= Len(u[b[p].thread])
    <3>1. SUFFICES ASSUME NEW p \in 1..m PROVE cs[p].depth <= Len(u[cs[p].thread])
      BY <1>6
    <3>2. cs[p].depth <= Len(q[cs[p].thread]) BY <1>6 DEF Layout, Depths
    <3>3. CASE cs[p].thread = f BY <1>12, <3>3
    <3>4. CASE cs[p].thread # f
      <4>1. cs[p].thread \in LuaThreads \ {c, f} BY <1>1, <1>5, <1>6, <3>4
      <4> QED BY <3>2, <4>1
    <3> QED BY <3>3, <3>4
  <2>3. b[1].depth = 0
    BY <1>1, <1>3, <1>6 DEF Layout, Depths
  <2> QED BY <1>6, <1>7, <2>1, <2>2, <2>3 DEF Depths
<1>16. Layout(b, u) BY <1>13, <1>14, <1>15 DEF Layout
<1> QED BY <1>2, <1>3, <1>4, <1>5, <1>11, <1>12, <1>16 DEF b, m

\* A coroutine goes on in lua_resume, with CallInfos that end in a Lua function.
LEMMA KeepResLayout ==
  ASSUME NEW cs \in Seq(Entry), NEW q \in CiLists, NEW st,
         Stacked(cs), Blocks(cs, st), Layout(cs, q),
         NEW j \in DOMAIN cs, cs[j].kind = "res",
         NEW c, c = cs[j].thread, \A i \in j..Len(cs) : cs[i].thread = c,
         NEW u \in CiLists, u[c] # <<>>, Last(u[c]) = "lua",
         \A x \in LuaThreads \ {c} : u[x] = q[x]
  PROVE  Layout(SubSeq(cs, 1, j), u)
<1> DEFINE b == SubSeq(cs, 1, j)
<1>1. /\ Len(cs) \in Nat /\ DOMAIN cs = 1..Len(cs) /\ (cs = <<>> <=> Len(cs) = 0)
      /\ \A i \in 1..Len(cs) : /\ cs[i] \in Entry /\ cs[i].thread \in LuaThreads
                               /\ cs[i].depth \in Nat
  BY EntriesAre
<1>2. j # 1 /\ c \in Coroutines /\ cs[j].depth = 0 BY <1>1 DEF Stacked, Res
<1>3. j \in 2..Len(cs) /\ j \in Nat BY <1>1, <1>2
<1>4. \A i \in 1..j - 1 : cs[i].thread # c BY <1>2, ResIsFirst
<1>5. /\ b \in Seq(Entry) /\ Len(b) = j /\ DOMAIN b = 1..j
      /\ \A i \in 1..j : b[i] = cs[i] /\ i \in DOMAIN cs
  BY <1>1, <1>3, PrefixIs
<1> HIDE DEF b
<1>6. b # <<>> BY <1>3, <1>5, EntriesAre
<1>7. (\A p \in 1..j - 1 : Resuming(b, p) = Resuming(cs, p)) /\ Resuming(b, j) = FALSE
  BY <1>1, <1>3, <1>5 DEF Resuming
<1>8. \A p \in 1..j - 1 : cs[p].thread # c /\ u[cs[p].thread] = q[cs[p].thread]
  BY <1>1, <1>3, <1>4
<1>9. Shape(cs[j], u[c], Len(u[c]), FALSE)
  <2>1. u[c] \in Seq(CallInfos) BY <1>2 DEF CiLists, LuaThreads
  <2>2. Len(u[c]) \in Nat /\ Len(u[c]) > 0 /\ u[c][Len(u[c])] = "lua"
    BY <2>1 DEF Last
  <2> QED BY <2>2 DEF Shape
<1>10. Between(b, u)
  <2>1. SUFFICES ASSUME NEW p \in 1..j, NEW k \in 1..j, Consecutive(b, p, k)
                 PROVE  Shape(b[p], u[b[p].thread], b[k].depth, Resuming(b, p))
    BY <1>5 DEF Between
  <2>2. Consecutive(cs, p, k) /\ p < k BY <1>5, <2>1 DEF Consecutive
  <2>3. Shape(cs[p], q[cs[p].thread], cs[k].depth, Resuming(cs, p))
    BY <1>5, <2>2 DEF Layout, Between
  <2>4. p \in 1..j - 1 BY <1>3, <2>2
  <2> QED BY <1>5, <1>7, <1>8, <2>3, <2>4
<1>11. OnTop(b, u)
  <2>1. SUFFICES ASSUME NEW p \in 1..j, LastOfThread(b, p)
                 PROVE  Shape(b[p], u[b[p].thread], Len(u[b[p].thread]), Resuming(b, p))
    BY <1>5 DEF OnTop
  <2>2. CASE p = j BY <1>5, <1>7, <1>9, <2>2
  <2>3. CASE p # j
    <3>1. p \in 1..j - 1 BY <1>3, <2>3
    <3>2. \A x \in p + 1..j : cs[x].thread # cs[p].thread
      BY <1>3, <1>5, <2>1 DEF LastOfThread
    <3>3. cs[p].thread # c BY <1>8, <3>1
    <3>4. LastOfThread(cs, p) BY <1>1, <1>3, <3>2, <3>3 DEF LastOfThread
    <3>5. Shape(cs[p], q[cs[p].thread], Len(q[cs[p].thread]), Resuming(cs, p))
      BY <1>5, <3>4 DEF Layout, OnTop
    <3> QED BY <1>5, <1>7, <1>8, <3>1, <3>5
  <2> QED BY <2>2, <2>3
<1>12. Depths(b, u)
  <2>1. \A p, k \in 1..j : p < k /\ b[p].thread = b[k].thread => b[p].depth <= b[k].depth
    BY <1>5 DEF Layout, Depths
  <2>2. \A p \in 1..j : b[p].depth <= Len(u[b[p].thread])
    <3>1. SUFFICES ASSUME NEW p \in 1..j PROVE cs[p].depth <= Len(u[cs[p].thread])
      BY <1>5
    <3>2. cs[p].depth <= Len(q[cs[p].thread]) BY <1>5 DEF Layout, Depths
    <3>3. CASE p = j
      <4>1. u[c] \in Seq(CallInfos) BY <1>2 DEF CiLists, LuaThreads
      <4> QED BY <1>2, <3>3, <4>1
    <3>4. CASE p # j
      <4>1. p \in 1..j - 1 BY <1>3, <3>4
      <4> QED BY <1>8, <3>2, <4>1
    <3> QED BY <3>3, <3>4
  <2>3. b[1].depth = 0 BY <1>1, <1>3, <1>5 DEF Layout, Depths
  <2> QED BY <1>5, <1>6, <2>1, <2>2, <2>3 DEF Depths
<1> QED BY <1>10, <1>11, <1>12 DEF Layout, b

-----------------------------------------------------------------------------
(* An entry is pushed *)

\* Any entry, on what it may stand on; a coroutine that is resumed was not there.
LEMMA PushStacked ==
  ASSUME NEW cs \in Seq(Entry), NEW st, NEW st2, Stacked(cs), Blocks(cs, st),
         NEW e \in Entry,
         cs = <<>> => e.kind = "raw" /\ e.thread = Main,
         e.kind = "call" => e.ny \in {0, 1},
         e.kind = "res" =>
            /\ e.thread \in Coroutines /\ e = Res(e.thread, e.cc)
            /\ st2[e.thread] = "running"
            /\ \A i \in DOMAIN cs : cs[i].thread # e.thread,
         cs # <<>> =>
            /\ e.kind = "call" => e.thread = Last(cs).thread /\ Last(cs).kind # "java"
            /\ e.kind = "java" => /\ e.thread = Last(cs).thread
                                  /\ Last(cs).kind \in {"call", "res"}
            /\ e.kind = "raw" => IF Last(cs).kind = "java" THEN e.thread = Main
                                 ELSE e.thread = Last(cs).thread /\ Last(cs).kind # "raw"
            /\ e.kind = "res" => Last(cs).kind \in {"call", "res"},
         \A i \in DOMAIN cs : cs[i].kind = "res" => st2[cs[i].thread] = st[cs[i].thread]
  PROVE  Stacked(Append(cs, e)) /\ Blocks(Append(cs, e), st2)
<1> DEFINE b == Append(cs, e)
           n == Len(cs)
<1>1. /\ b \in Seq(Entry) /\ n \in Nat /\ Len(b) = n + 1
      /\ DOMAIN cs = 1..n /\ DOMAIN b = 1..n + 1
      /\ \A i \in 1..n : b[i] = cs[i]
      /\ b[n + 1] = e
  BY AppendIs
<1>2. /\ cs = <<>> <=> n = 0
      /\ cs # <<>> => Last(cs) = cs[n]
      /\ \A i \in 1..n : cs[i].thread \in LuaThreads
  BY EntriesAre
<1>3. e.thread \in LuaThreads BY DEF Entry
<1> HIDE DEF b, n
<1>4. Stacked(b)
  <2>1. b[1].kind = "raw" /\ b[1].thread = Main
    BY <1>1, <1>2 DEF Stacked
  <2>2. \A k \in DOMAIN b :
          /\ b[k].kind = "call" => b[k].ny \in {0, 1}
          /\ b[k].kind = "res" => /\ b[k].thread \in Coroutines
                                   /\ b[k] = Res(b[k].thread, b[k].cc)
    <3>1. \A k \in 1..n :
          /\ b[k].kind = "call" => b[k].ny \in {0, 1}
          /\ b[k].kind = "res" => /\ b[k].thread \in Coroutines
                                   /\ b[k] = Res(b[k].thread, b[k].cc)
      BY <1>1 DEF Stacked
    <3> QED BY <1>1, <3>1
  <2>3. ASSUME NEW k \in 2..n + 1
        PROVE  /\ b[k].kind = "call" => /\ b[k].thread = b[k - 1].thread
                                        /\ b[k - 1].kind # "java"
               /\ b[k].kind = "java" => /\ b[k].thread = b[k - 1].thread
                                        /\ b[k - 1].kind \in {"call", "res"}
               /\ b[k].kind = "raw"  => IF b[k - 1].kind = "java"
                                        THEN b[k].thread = Main
                                        ELSE /\ b[k].thread = b[k - 1].thread
                                             /\ b[k - 1].kind # "raw"
               /\ b[k].kind = "res"  => /\ b[k].thread # b[k - 1].thread
                                        /\ b[k - 1].kind \in {"call", "res"}
    <3>1. CASE k = n + 1
      <4>1. n \in 1..n /\ b[k] = e /\ b[k - 1] = Last(cs) /\ cs # <<>>
        BY <1>1, <1>2, <3>1
      <4>2. e.kind = "res" => e.thread # Last(cs).thread BY <1>1, <1>2, <4>1
      <4> QED BY <4>1, <4>2
    <3>2. CASE k # n + 1
      <4>1. k \in 2..n /\ b[k] = cs[k] /\ b[k - 1] = cs[k - 1]
        BY <1>1, <3>2
      <4> QED BY <1>1, <4>1 DEF Stacked, n
    <3> QED BY <3>1, <3>2
  <2> QED BY <1>1, <2>1, <2>2, <2>3 DEF Stacked
<1>5. Blocks(b, st2)
  <2>1. \A i, k \in 1..n + 1 : b[i].kind = "res" /\ b[k].kind = "res"
                                 /\ b[i].thread = b[k].thread => i = k
    <3>1. \A i, k \in 1..n : b[i].kind = "res" /\ b[k].kind = "res"
                                 /\ b[i].thread = b[k].thread => i = k
      BY <1>1 DEF Blocks
    <3>2. \A i \in 1..n : b[n + 1].kind = "res" => b[i].thread # b[n + 1].thread
      BY <1>1
    <3> QED BY <1>1, <3>1, <3>2
  <2>2. \A i \in 1..n + 1 : b[i].kind = "res" => st2[b[i].thread] = "running"
    <3>1. \A i \in 1..n : b[i].kind = "res" => st2[b[i].thread] = "running"
      BY <1>1 DEF Blocks
    <3> QED BY <1>1, <3>1
  <2>3. \A i \in 1..n + 1 : b[i].thread \in Coroutines =>
          \E k \in 1..i : b[k].kind = "res" /\ b[k].thread = b[i].thread
    <3>1. SUFFICES ASSUME NEW i \in 1..n + 1, b[i].thread \in Coroutines
                   PROVE  \E k \in 1..i : b[k].kind = "res" /\ b[k].thread = b[i].thread
      OBVIOUS
    <3>2. CASE i \in 1..n
      <4>1. PICK k \in 1..i : cs[k].kind = "res" /\ cs[k].thread = cs[i].thread
        BY <1>1, <3>1, <3>2 DEF Blocks
      <4>2. k \in 1..n BY <1>1, <3>2
      <4>3. b[k] = cs[k] /\ b[i] = cs[i] BY <1>1, <3>2, <4>2
      <4>4. b[k].kind = "res" /\ b[k].thread = b[i].thread BY <4>1, <4>3
      <4> QED BY <4>4
    <3>3. CASE i = n + 1
      <4>1. CASE e.kind = "res"
        <5>1. i \in 1..i BY <1>1
        <5> QED BY <1>1, <3>3, <4>1, <5>1
      <4>2. CASE e.kind # "res"
        <5>1. e.thread \in Coroutines /\ e.thread # Main
          BY <1>1, <3>1, <3>3, ThreadsAssumption
        <5>2. e.kind \in {"call", "raw", "res", "java"} BY DEF Entry
        <5>3. n \in 1..n /\ cs[n].thread = e.thread
          BY <1>1, <1>2, <4>2, <5>1, <5>2
        <5>4. PICK k \in 1..n : cs[k].kind = "res" /\ cs[k].thread = cs[n].thread
          BY <1>1, <5>1, <5>3 DEF Blocks
        <5>5. k \in 1..i BY <1>1, <3>3
        <5> QED BY <1>1, <3>3, <5>3, <5>4, <5>5
      <4> QED BY <4>1, <4>2
    <3> QED BY <1>1, <3>2, <3>3
  <2>4. ASSUME NEW i \in 1..n + 1, NEW x \in 1..n + 1, NEW k \in 1..n + 1,
               i <= x, x <= k, b[i].thread = b[k].thread, b[i].thread \in Coroutines
        PROVE  b[x].thread = b[i].thread
    <3>1. CASE k \in 1..n
      <4>1. i \in 1..n /\ x \in 1..n BY <1>1, <2>4, <3>1
      <4> QED BY <1>1, <2>4, <3>1, <4>1 DEF Blocks
    <3>2. CASE k = n + 1 /\ (x = n + 1 \/ i = n + 1) BY <1>1, <2>4, <3>2
    <3>3. CASE k = n + 1 /\ x # n + 1 /\ i # n + 1
      <4>1. i \in 1..n /\ x \in 1..n /\ n \in 1..n BY <1>1, <3>3
      <4>2. e.thread = cs[i].thread /\ e.thread # Main /\ e.kind # "res"
        BY <1>1, <2>4, <3>3, <4>1, ThreadsAssumption
      <4>3. e.kind \in {"call", "raw", "java"} BY <4>2 DEF Entry
      <4>4. cs[n].thread = e.thread BY <1>1, <1>2, <4>1, <4>2, <4>3
      <4>5. cs[x].thread = cs[i].thread BY <1>1, <2>4, <4>1, <4>2, <4>4 DEF Blocks
      <4> QED BY <1>1, <4>1, <4>5
    <3> QED BY <1>1, <3>1, <3>2, <3>3
  <2> QED BY <1>1, <2>1, <2>2, <2>3, <2>4 DEF Blocks
<1> QED BY <1>4, <1>5 DEF b

\* A call, a Java function or a luaD_pcall begins.
LEMMA PushLayout ==
  ASSUME NEW cs \in Seq(Entry), NEW q \in CiLists, Stacked(cs), Layout(cs, q),
         NEW e \in Entry, e.kind # "res", NEW t, t = e.thread, e.depth = Len(q[t]),
         cs = <<>> => t = Main,
         NEW u \in CiLists, \A x \in LuaThreads \ {t} : u[x] = q[x],
         Len(q[t]) <= Len(u[t]), \A i \in 1..Len(q[t]) : u[t][i] = q[t][i],
         Settled(e, u[t])
  PROVE  Layout(Append(cs, e), u)
<1> DEFINE b == Append(cs, e)
           n == Len(cs)
<1>1. /\ b \in Seq(Entry) /\ n \in Nat /\ Len(b) = n + 1
      /\ DOMAIN cs = 1..n /\ DOMAIN b = 1..n + 1
      /\ \A i \in 1..n : b[i] = cs[i]
      /\ b[n + 1] = e
  BY AppendIs
<1>2. /\ cs = <<>> <=> n = 0
      /\ \A i \in 1..n : /\ cs[i] \in Entry /\ cs[i].thread \in LuaThreads
                         /\ cs[i].depth \in Nat
  BY EntriesAre
<1>3. /\ t \in LuaThreads /\ q[t] \in Seq(CallInfos) /\ u[t] \in Seq(CallInfos)
      /\ Len(q[t]) \in Nat /\ Len(u[t]) \in Nat
  BY DEF Entry, CiLists
<1>4. /\ \A p \in 1..n : Resuming(b, p) = Resuming(cs, p)
      /\ Resuming(b, n + 1) = FALSE
  <2>1. ASSUME NEW p \in 1..n PROVE Resuming(b, p) = Resuming(cs, p)
    <3>1. CASE p = n
      <4>1. b[p + 1] = e BY <1>1, <3>1
      <4> QED BY <1>1, <3>1, <4>1 DEF Resuming
    <3>2. CASE p # n
      <4>1. p + 1 \in 1..n /\ p < n
        <5> HIDE DEF n
        <5> QED BY <1>1, <3>2
      <4>2. b[p + 1] = cs[p + 1] /\ p < Len(b) BY <1>1, <4>1
      <4> QED BY <4>1, <4>2 DEF Resuming
    <3> QED BY <3>1, <3>2
  <2> QED BY <1>1, <2>1 DEF Resuming
<1> HIDE DEF b, n
<1>5. ASSUME NEW p \in 1..n, NEW h \in Nat, h <= Len(q[cs[p].thread]),
             Shape(cs[p], q[cs[p].thread], h, Resuming(cs, p))
      PROVE  Shape(b[p], u[b[p].thread], h, Resuming(b, p))
  <2>1. CASE cs[p].thread # t
    <3>1. u[cs[p].thread] = q[cs[p].thread] BY <1>2, <2>1
    <3> QED BY <1>1, <1>4, <1>5, <3>1
  <2>2. CASE cs[p].thread = t
    <3> DEFINE r == Resuming(cs, p)
               f == cs[p]
               s == q[t]
               v == u[t]
    <3>1. /\ f \in Entry /\ r \in BOOLEAN
          /\ s \in Seq(CallInfos) /\ v \in Seq(CallInfos)
      BY <1>2, <1>3 DEF Resuming
    <3>2. h <= Len(v) /\ \A i \in 1..h : v[i] = s[i] BY <1>3, <1>5, <2>2
    <3>3. Shape(f, s, h, r) BY <1>5, <2>2
    <3>4. Shape(f, v, h, r)
      <4> HIDE DEF r, f, s, v
      <4> QED BY <3>1, <3>2, <3>3, ShapeOfPrefix, SMT
    <3> QED BY <1>1, <1>4, <2>2, <3>4
  <2> QED BY <2>1, <2>2
<1>6. Between(b, u)
  <2>1. SUFFICES ASSUME NEW p \in 1..n + 1, NEW k \in 1..n + 1, Consecutive(b, p, k)
                 PROVE  Shape(b[p], u[b[p].thread], b[k].depth, Resuming(b, p))
    BY <1>1 DEF Between
  <2>2. p < k /\ p \in 1..n /\ b[p] = cs[p] BY <1>1, <2>1 DEF Consecutive
  <2>3. CASE k \in 1..n
    <3>1. Consecutive(cs, p, k) BY <1>1, <2>1, <2>2, <2>3 DEF Consecutive
    <3>2. Shape(cs[p], q[cs[p].thread], cs[k].depth, Resuming(cs, p))
      BY <1>1, <2>2, <2>3, <3>1 DEF Layout, Between
    <3>3. cs[k].depth <= Len(q[cs[p].thread])
      BY <1>1, <2>2, <2>3, <3>1 DEF Layout, Depths, Consecutive
    <3>4. b[k].depth = cs[k].depth /\ cs[k].depth \in Nat BY <1>1, <1>2, <2>3
    <3> QED BY <1>5, <2>2, <3>2, <3>3, <3>4
  <2>4. CASE k = n + 1
    <3>1. cs[p].thread = t BY <1>1, <2>1, <2>2, <2>4 DEF Consecutive
    <3>2. LastOfThread(cs, p)
      BY <1>1, <2>1, <2>2, <2>4 DEF Consecutive, LastOfThread, n
    <3>3. Shape(cs[p], q[t], Len(q[t]), Resuming(cs, p))
      BY <1>1, <2>2, <3>1, <3>2 DEF Layout, OnTop
    <3>4. b[k].depth = Len(q[t]) BY <1>1, <2>4
    <3> QED BY <1>3, <1>5, <2>2, <3>1, <3>3, <3>4
  <2> QED BY <1>1, <2>3, <2>4
<1>7. OnTop(b, u)
  <2>1. SUFFICES ASSUME NEW p \in 1..n + 1, LastOfThread(b, p)
                 PROVE  Shape(b[p], u[b[p].thread], Len(u[b[p].thread]), Resuming(b, p))
    BY <1>1 DEF OnTop
  <2>2. CASE p = n + 1 BY <1>1, <1>4, <2>2 DEF Settled
  <2>3. CASE p # n + 1
    <3>1. p \in 1..n /\ b[p] = cs[p] /\ n + 1 \in p + 1..n + 1 BY <1>1, <2>3
    <3>2. cs[p].thread # t BY <1>1, <2>1, <3>1 DEF LastOfThread
    <3>3. LastOfThread(cs, p) BY <1>1, <2>1, <3>1 DEF LastOfThread, n
    <3>4. Shape(cs[p], q[cs[p].thread], Len(q[cs[p].thread]), Resuming(cs, p))
      BY <1>1, <3>1, <3>3 DEF Layout, OnTop
    <3>5. u[cs[p].thread] = q[cs[p].thread] /\ Len(q[cs[p].thread]) \in Nat
      BY <1>2, <3>1, <3>2 DEF CiLists
    <3> QED BY <1>5, <3>1, <3>4, <3>5
  <2> QED BY <2>2, <2>3
<1>8. Depths(b, u)
  <2>1. \A p, k \in 1..n + 1 : p < k /\ b[p].thread = b[k].thread => b[p].depth <= b[k].depth
    <3>1. \A p, k \in 1..n : p < k /\ b[p].thread = b[k].thread => b[p].depth <= b[k].depth
      BY <1>1 DEF Layout, Depths
    <3>2. \A p \in 1..n : b[p].thread = t => b[p].depth <= b[n + 1].depth
      BY <1>1 DEF Layout, Depths
    <3>3. ASSUME NEW p \in 1..n + 1, NEW k \in 1..n + 1, p < k,
                 b[p].thread = b[k].thread
          PROVE  b[p].depth <= b[k].depth
      <4>1. p \in 1..n BY <1>1, <3>3
      <4>2. CASE k \in 1..n BY <3>1, <3>3, <4>1, <4>2
      <4>3. CASE k = n + 1 BY <1>1, <3>2, <3>3, <4>1, <4>3
      <4> QED BY <1>1, <4>2, <4>3
    <3> QED BY <3>3
  <2>2. \A p \in 1..n + 1 : b[p].depth <= Len(u[b[p].thread])
    <3>1. ASSUME NEW p \in 1..n PROVE cs[p].depth <= Len(u[cs[p].thread])
      <4>1. cs[p].depth <= Len(q[cs[p].thread]) BY <1>1 DEF Layout, Depths
      <4>2. CASE cs[p].thread = t BY <1>2, <1>3, <4>1, <4>2
      <4>3. CASE cs[p].thread # t BY <1>2, <4>1, <4>3
      <4> QED BY <4>2, <4>3
    <3> QED BY <1>1, <1>3, <3>1
  <2>3. b[1].depth = 0
    <3>1. CASE n = 0
      <4>1. q[Main] = <<>> /\ t = Main BY <1>2, <3>1 DEF Layout, Depths
      <4>2. b[1] = e BY <1>1, <3>1
      <4> QED BY <4>1, <4>2
    <3>2. CASE n # 0 BY <1>1, <1>2, <3>2 DEF Layout, Depths
    <3> QED BY <3>1, <3>2
  <2>4. b # <<>> BY <1>1, EntriesAre
  <2> QED BY <1>1, <2>1, <2>2, <2>3, <2>4 DEF Depths
<1> QED BY <1>6, <1>7, <1>8 DEF Layout, b

\* The CallInfos q of thread f, and of coroutine c, become u.
ResumeLists(q, u, f, c) ==
    /\ u[f] = Append(q[f], "resume")
    /\ u[c] # <<>> /\ Last(u[c]) = "lua"
    /\ \A x \in LuaThreads \ {c, f} : u[x] = q[x]

\* The innermost thread resumes a coroutine.
LEMMA PushResLayout ==
  ASSUME NEW cs \in Seq(Entry), NEW q \in CiLists, Stacked(cs), Layout(cs, q),
         cs # <<>>, Last(cs).kind \in {"call", "res"},
         NEW e \in Entry, e.kind = "res", e.depth = 0,
         Last(cs).thread # e.thread, \A i \in DOMAIN cs : cs[i].thread # e.thread,
         NEW u \in CiLists, ResumeLists(q, u, Last(cs).thread, e.thread)
  PROVE  Layout(Append(cs, e), u)
<1> SUFFICES ASSUME NEW f, f = Last(cs).thread, NEW c \in LuaThreads \ {f}, c = e.thread,
                    \A i \in DOMAIN cs : cs[i].thread # c,
                    u[f] = Append(q[f], "resume"), u[c] # <<>>, Last(u[c]) = "lua",
                    \A x \in LuaThreads \ {c, f} : u[x] = q[x]
             PROVE  Layout(Append(cs, e), u)
  <2>1. e.thread \in LuaThreads BY DEF Entry
  <2> QED BY <2>1 DEF ResumeLists
<1> DEFINE b == Append(cs, e)
           n == Len(cs)
<1>1. /\ b \in Seq(Entry) /\ n \in Nat /\ Len(b) = n + 1
      /\ DOMAIN cs = 1..n /\ DOMAIN b = 1..n + 1
      /\ \A i \in 1..n : b[i] = cs[i]
      /\ b[n + 1] = e
  BY AppendIs
<1>2. /\ n > 0 /\ Last(cs) = cs[n] /\ n \in 1..n
      /\ \A i \in 1..n : /\ cs[i] \in Entry /\ cs[i].thread \in LuaThreads
                         /\ cs[i].depth \in Nat
  BY EntriesAre
<1>3. f \in LuaThreads /\ \A x \in LuaThreads : /\ q[x] \in Seq(CallInfos)
                                                /\ u[x] \in Seq(CallInfos)
  BY <1>2 DEF CiLists
<1>4. /\ \A p \in 1..n - 1 : Resuming(b, p) = Resuming(cs, p)
      /\ Resuming(cs, n) = FALSE /\ Resuming(b, n) = TRUE
      /\ Resuming(b, n + 1) = FALSE
  <2>1. ASSUME NEW p \in 1..n - 1 PROVE Resuming(b, p) = Resuming(cs, p)
    <3>1. b[p + 1] = cs[p + 1] BY <1>1
    <3> QED BY <1>1, <3>1 DEF Resuming
  <2> QED BY <1>1, <1>2, <2>1 DEF Resuming
<1>5. LastOfThread(cs, n) BY <1>1 DEF LastOfThread
<1> HIDE DEF b, n
<1>6. Shape(cs[n], u[f], Len(u[f]), TRUE)
  <2>1. Shape(cs[n], q[f], Len(q[f]), Resuming(cs, n))
    BY <1>1, <1>2, <1>5 DEF Layout, OnTop
  <2>2. Shape(cs[n], q[f], Len(q[f]), FALSE) BY <1>4, <2>1
  <2> QED BY <1>2, <1>3, <2>2, ShapeResuming
<1>7. Shape(e, u[c], Len(u[c]), FALSE)
  <2>1. Len(u[c]) \in Nat /\ Len(u[c]) > 0 /\ u[c][Len(u[c])] = "lua"
    BY <1>3 DEF Last
  <2> QED BY <2>1 DEF Shape
<1>8. Len(u[f]) = Len(q[f]) + 1 /\ \A i \in 1..Len(q[f]) : u[f][i] = q[f][i]
  BY <1>3
<1>9. Between(b, u)
  <2>1. SUFFICES ASSUME NEW p \in 1..n + 1, NEW k \in 1..n + 1, Consecutive(b, p, k)
                 PROVE  Shape(b[p], u[b[p].thread], b[k].depth, Resuming(b, p))
    BY <1>1 DEF Between
  <2>2. p < k /\ p \in 1..n /\ b[p] = cs[p] BY <1>1, <2>1 DEF Consecutive
  <2>3. k \in 1..n
    <3>1. b[k].thread = cs[p].thread /\ p \in DOMAIN cs
      BY <1>1, <2>1, <2>2 DEF Consecutive
    <3>2. k # n + 1 BY <1>1, <3>1
    <3> QED BY <1>1, <3>2
  <2>4. p \in 1..n - 1 /\ Resuming(b, p) = Resuming(cs, p) BY <1>1, <1>4, <2>2, <2>3
  <2>5. Consecutive(cs, p, k) BY <1>1, <2>1, <2>2, <2>3 DEF Consecutive
  <2>6. Shape(cs[p], q[cs[p].thread], cs[k].depth, Resuming(cs, p))
    BY <1>1, <2>2, <2>3, <2>5 DEF Layout, Between
  <2>7. cs[k].depth <= Len(q[cs[p].thread]) /\ cs[k].depth \in Nat /\ b[k] = cs[k]
    BY <1>1, <1>2, <2>2, <2>3, <2>5 DEF Layout, Depths, Consecutive
  <2>8. CASE cs[p].thread # f
    <3>1. u[cs[p].thread] = q[cs[p].thread] BY <1>1, <1>2, <2>2, <2>8
    <3> QED BY <2>2, <2>4, <2>6, <2>7, <3>1
  <2>9. CASE cs[p].thread = f
    <3> DEFINE r == Resuming(cs, p)
               g == cs[p]
               s == q[f]
               v == u[f]
               h == cs[k].depth
    <3>1. /\ g \in Entry /\ r \in BOOLEAN /\ h \in Nat
          /\ s \in Seq(CallInfos) /\ v \in Seq(CallInfos)
      BY <1>2, <1>3, <2>2, <2>7 DEF Resuming
    <3>2. h <= Len(v) /\ \A i \in 1..h : v[i] = s[i] BY <1>3, <1>8, <2>7, <2>9
    <3>3. Shape(g, s, h, r) BY <2>6, <2>9
    <3>4. Shape(g, v, h, r)
      <4> HIDE DEF r, g, s, v, h
      <4> QED BY <3>1, <3>2, <3>3, ShapeOfPrefix, SMT
    <3> QED BY <2>2, <2>4, <2>7, <2>9, <3>4
  <2> QED BY <2>8, <2>9
<1>10. OnTop(b, u)
  <2>1. SUFFICES ASSUME NEW p \in 1..n + 1, LastOfThread(b, p)
                 PROVE  Shape(b[p], u[b[p].thread], Len(u[b[p].thread]), Resuming(b, p))
    BY <1>1 DEF OnTop
  <2>2. CASE p = n + 1 BY <1>1, <1>4, <1>7, <2>2
  <2>3. CASE p = n BY <1>1, <1>2, <1>4, <1>6, <2>3
  <2>4. CASE p # n + 1 /\ p # n
    <3>1. p \in 1..n - 1 /\ p \in 1..n /\ b[p] = cs[p] /\ n \in p + 1..n + 1
      BY <1>1, <2>4
    <3>2. cs[p].thread # f BY <1>1, <1>2, <2>1, <3>1 DEF LastOfThread
    <3>3. LastOfThread(cs, p) BY <1>1, <2>1, <3>1 DEF LastOfThread, n
    <3>4. Shape(cs[p], q[cs[p].thread], Len(q[cs[p].thread]), Resuming(cs, p))
      BY <1>1, <3>1, <3>3 DEF Layout, OnTop
    <3>5. u[cs[p].thread] = q[cs[p].thread] BY <1>1, <1>2, <3>1, <3>2
    <3> QED BY <1>4, <3>1, <3>4, <3>5
  <2> QED BY <2>2, <2>3, <2>4
<1>11. Depths(b, u)
  <2>1. \A p, k \in 1..n + 1 : p < k /\ b[p].thread = b[k].thread => b[p].depth <= b[k].depth
    <3>1. \A p, k \in 1..n : p < k /\ b[p].thread = b[k].thread => b[p].depth <= b[k].depth
      BY <1>1 DEF Layout, Depths
    <3>2. \A p \in 1..n : b[p].thread # b[n + 1].thread
      BY <1>1
    <3>3. ASSUME NEW p \in 1..n + 1, NEW k \in 1..n + 1, p < k,
                 b[p].thread = b[k].thread
          PROVE  b[p].depth <= b[k].depth
      <4>1. p \in 1..n BY <1>1, <3>3
      <4>2. k # n + 1 BY <3>2, <3>3, <4>1
      <4>3. k \in 1..n BY <1>1, <4>2
      <4> QED BY <3>1, <3>3, <4>1, <4>3
    <3> QED BY <3>3
  <2>2. \A p \in 1..n + 1 : b[p].depth <= Len(u[b[p].thread])
    <3>1. ASSUME NEW p \in 1..n PROVE cs[p].depth <= Len(u[cs[p].thread])
      <4>1. cs[p].depth <= Len(q[cs[p].thread]) BY <1>1 DEF Layout, Depths
      <4>2. CASE cs[p].thread = f
        <5>1. cs[p].depth \in Nat /\ Len(q[f]) \in Nat BY <1>2, <1>3
        <5> QED BY <1>8, <4>1, <4>2, <5>1
      <4>3. CASE cs[p].thread # f
        <5>1. u[cs[p].thread] = q[cs[p].thread] BY <1>1, <1>2, <4>3
        <5> QED BY <4>1, <5>1
      <4> QED BY <4>2, <4>3
    <3>2. b[n + 1].depth <= Len(u[b[n + 1].thread]) BY <1>1, <1>3
    <3> QED BY <1>1, <3>1, <3>2
  <2>3. b[1].depth = 0
    BY <1>1, <1>2 DEF Layout, Depths
  <2>4. b # <<>> BY <1>1, EntriesAre
  <2> QED BY <1>1, <2>1, <2>2, <2>3, <2>4 DEF Depths
<1> QED BY <1>9, <1>10, <1>11 DEF Layout, b

-----------------------------------------------------------------------------
(* Counters *)

\* An unsigned short stays one.
LEMMA WrappedIs ==
  ASSUME NEW n \in Int
  PROVE  /\ Wrapped(n) \in Shorts
         /\ n \in Shorts => Wrapped(n) = n
<1>1. Width \in Nat \ {0} BY LimitsAssumption
<1>2. n % Width \in 0..Width - 1 BY <1>1
<1>3. n \in 0..Width - 1 => n % Width = n BY <1>1
<1> QED BY <1>2, <1>3 DEF Wrapped, Shorts

\* Two of them.
LEMMA ShortsAre == 0 \in Shorts /\ 1 \in Shorts
<1>1. Width \in Nat /\ MaxCcalls \in Nat \ {0} /\ MaxCcalls \div 8 \in Nat
      /\ MaxCcalls + MaxCcalls \div 8 < Width
  BY LimitsAssumption
<1> QED BY <1>1 DEF Shorts

\* The entries that the steps push.
LEMMA EntriesPushed ==
  ASSUME NEW t \in LuaThreads, NEW ny \in {0, 1}, NEW cc \in Shorts, NEW n \in Shorts,
         NEW d \in Nat
  PROVE  /\ Call(t, ny, d) \in Entry
         /\ Call(t, ny, d).kind = "call" /\ Call(t, ny, d).thread = t
         /\ Call(t, ny, d).ny = ny /\ Call(t, ny, d).depth = d
         /\ Raw(t, cc, n, d) \in Entry
         /\ Raw(t, cc, n, d).kind = "raw" /\ Raw(t, cc, n, d).thread = t
         /\ Raw(t, cc, n, d).ny = n /\ Raw(t, cc, n, d).depth = d
         /\ Java(t, d) \in Entry
         /\ Java(t, d).kind = "java" /\ Java(t, d).thread = t
         /\ Java(t, d).depth = d
         /\ Res(t, cc) \in Entry
         /\ Res(t, cc).kind = "res" /\ Res(t, cc).thread = t /\ Res(t, cc).cc = cc
         /\ Res(t, cc).depth = 0
<1>1. 0 \in Shorts /\ 1 \in Shorts
  BY ShortsAre
<1> QED BY <1>1 DEF Call, Raw, Java, Res, Entry

-----------------------------------------------------------------------------
(* Calls *)

\* A function is called, by a C function that is called first or not.
LEMMA PushCallFrames ==
  ASSUME NEW cs \in Seq(Entry), NEW q \in CiLists, NEW st,
         Stacked(cs), Blocks(cs, st), Layout(cs, q), Continuable(q, st),
         cs # <<>>, Last(cs).kind # "java",
         NEW t, t = Last(cs).thread, NEW ny \in {0, 1},
         t \in Coroutines => st[t] = "running",
         NEW s, \/ /\ s = q[t]
                   /\ q[t] # <<>> => Last(q[t]) \notin CFunctions
                \/ \E x \in CFunctions :
                      /\ s = Append(q[t], x)
                      /\ x = "pcallk" => q[t] # <<>> /\ Last(q[t]) = "lua"
  PROVE  /\ [q EXCEPT ![t] = s \o <<"lua">>] \in CiLists
         /\ Frames(Append(cs, Call(t, ny, Len(q[t]))), [q EXCEPT ![t] = s \o <<"lua">>], st)
<1> DEFINE d == Len(q[t])
           e == Call(t, ny, d)
           b == Append(cs, e)
           u == [q EXCEPT ![t] = s \o <<"lua">>]
<1>1. /\ Len(cs) \in Nat \ {0} /\ Last(cs) = cs[Len(cs)] /\ t \in LuaThreads
      /\ DOMAIN cs = 1..Len(cs)
  BY EntriesAre
<1>2. q[t] \in Seq(CallInfos) /\ d \in Nat BY <1>1 DEF CiLists
<1>3. 0 \in Shorts BY ShortsAre
<1>4. e \in Entry /\ e.kind = "call" /\ e.thread = t /\ e.ny = ny /\ e.depth = d
  BY <1>1, <1>2, <1>3, EntriesPushed
<1>5. s \in Seq(CallInfos) /\ d <= Len(s) /\ \A i \in 1..d : s[i] = q[t][i]
  <2>1. CASE s = q[t] BY <1>2, <2>1
  <2>2. CASE \E x \in CFunctions : s = Append(q[t], x)
    <3>1. PICK x \in CFunctions : s = Append(q[t], x) BY <2>2
    <3>2. x \in CallInfos BY DEF CallInfos
    <3> QED BY <1>2, <3>1, <3>2
  <2> QED BY <2>1, <2>2
<1> DEFINE v == s \o <<"lua">>
<1>6. /\ v \in Seq(CallInfos) /\ Len(v) = Len(s) + 1 /\ v[Len(v)] = "lua"
      /\ \A i \in 1..Len(s) : v[i] = s[i]
  <2>1. "lua" \in CallInfos BY DEF CallInfos
  <2> QED BY <1>5, <2>1
<1> HIDE DEF v
<1>7. u \in CiLists /\ u[t] = v /\ \A x \in LuaThreads \ {t} : u[x] = q[x]
  BY <1>1, <1>6 DEF CiLists, v
<1>8. Settled(e, u[t])
  <2>1. CASE s = q[t] /\ (q[t] # <<>> => Last(q[t]) \notin CFunctions)
    <3>1. Len(v) = d + 1 /\ (d > 0 => v[d] \notin CFunctions)
      BY <1>2, <1>6, <2>1 DEF Last
    <3> QED BY <1>2, <1>4, <1>6, <1>7, <3>1 DEF Shape, Settled
  <2>2. CASE \E x \in CFunctions : s = Append(q[t], x)
    <3>1. PICK x \in CFunctions : s = Append(q[t], x) BY <2>2
    <3>2. Len(s) = d + 1 /\ s[d + 1] = x /\ d + 1 \in 1..Len(s) BY <1>2, <3>1
    <3>3. Len(v) = d + 2 /\ v[d + 1] = x BY <1>2, <1>6, <3>2
    <3> QED BY <1>2, <1>4, <1>6, <1>7, <3>1, <3>3 DEF Shape, Settled
  <2> QED BY <2>1, <2>2
<1> HIDE DEF u, e, d
<1>9. Stacked(b) /\ Blocks(b, st)
  BY <1>4, <1>1, PushStacked
<1>10. Layout(b, u)
  <2>1. /\ e.kind # "res" /\ e.depth = Len(q[t]) /\ Len(q[t]) <= Len(u[t])
        /\ \A i \in 1..Len(q[t]) : u[t][i] = q[t][i]
        /\ e \in Entry /\ t = e.thread /\ (cs = <<>> => t = Main)
        /\ u \in CiLists /\ \A x \in LuaThreads \ {t} : u[x] = q[x]
    BY <1>2, <1>4, <1>5, <1>6, <1>7 DEF d
  <2> QED BY <1>8, <2>1, PushLayout
<1>11. TopCalled(b)
  <2>1. Last(b) = e BY <1>1, <1>4 DEF Last
  <2> QED BY <1>4, <2>1 DEF TopCalled
<1>12. Continuable(u, st)
  <2>1. ASSUME NEW c \in Coroutines, st[c] = "suspended"
        PROVE  u[c] # <<>> /\ Last(u[c]) = "lua"
    <3>1. c \in LuaThreads \ {t} BY <2>1 DEF LuaThreads
    <3> QED BY <1>7, <2>1, <3>1 DEF Continuable
  <2>2. ASSUME NEW x \in LuaThreads, NEW i \in DOMAIN u[x], u[x][i] = "pcallk"
        PROVE  i > 1 /\ u[x][i - 1] = "lua"
    <3>1. CASE x # t BY <1>7, <2>2, <3>1 DEF Continuable
    <3>2. CASE x = t /\ i \in 1..d
      <4>1. i \in DOMAIN q[t] /\ q[t][i] = "pcallk"
        BY <1>2, <1>5, <1>6, <1>7, <2>2, <3>2 DEF d
      <4>2. i > 1 /\ q[t][i - 1] = "lua" BY <1>1, <4>1 DEF Continuable
      <4>3. i - 1 \in 1..d BY <1>2, <3>2, <4>2
      <4> QED BY <1>2, <1>5, <1>6, <1>7, <3>2, <4>2, <4>3
    <3>3. CASE x = t /\ i \notin 1..d
      <4>1. i \in 1..Len(v) /\ v[i] = "pcallk" BY <1>6, <1>7, <2>2, <3>3
      <4>2. i # Len(v) BY <1>6, <4>1
      <4>3. i \in 1..Len(s) /\ s[i] = "pcallk" BY <1>5, <1>6, <4>1, <4>2
      <4>4. s # q[t] BY <1>2, <3>3, <4>3 DEF d
      <4>5. PICK y \in CFunctions : /\ s = Append(q[t], y)
                                    /\ y = "pcallk" => q[t] # <<>> /\ Last(q[t]) = "lua"
        BY <4>4
      <4>6. i = d + 1 /\ y = "pcallk" BY <1>2, <3>3, <4>3, <4>5 DEF d
      <4>7. d > 0 /\ q[t][d] = "lua" BY <1>2, <4>5, <4>6 DEF Last, d
      <4> QED BY <1>2, <1>5, <1>6, <1>7, <3>3, <4>6, <4>7
    <3> QED BY <3>1, <3>2, <3>3
  <2> QED BY <2>1, <2>2 DEF Continuable
<1> QED BY <1>7, <1>9, <1>10, <1>11, <1>12 DEF Frames, u, e, d

\* luaD_pcall begins.
LEMMA PushRawFrames ==
  ASSUME NEW cs \in Seq(Entry), NEW q \in CiLists, NEW st,
         Stacked(cs), TopCalled(cs), Blocks(cs, st), Layout(cs, q),
         NEW t \in LuaThreads, NEW cc \in Shorts, NEW ny \in Shorts,
         \/ cs = <<>> /\ t = Main
         \/ cs # <<>> /\ Last(cs).kind = "java" /\ t = Main
         \/ cs # <<>> /\ Last(cs).kind \in {"call", "res"} /\ t = Last(cs).thread
  PROVE  /\ Stacked(Append(cs, Raw(t, cc, ny, Len(q[t]))))
         /\ Blocks(Append(cs, Raw(t, cc, ny, Len(q[t]))), st)
         /\ Layout(Append(cs, Raw(t, cc, ny, Len(q[t]))), q)
         /\ q[t] # <<>> => Last(q[t]) \notin CFunctions
<1> DEFINE d == Len(q[t])
           e == Raw(t, cc, ny, d)
           n == Len(cs)
<1>1. /\ n \in Nat /\ (cs = <<>> <=> n = 0) /\ (cs # <<>> => Last(cs) = cs[n])
      /\ DOMAIN cs = 1..n
      /\ \A i \in 1..n : /\ cs[i] \in Entry /\ cs[i].thread \in LuaThreads
                         /\ cs[i].kind \in {"call", "raw", "res", "java"}
  BY EntriesAre
<1>2. q[t] \in Seq(CallInfos) /\ d \in Nat BY DEF CiLists
<1>3. e \in Entry /\ e.kind = "raw" /\ e.thread = t /\ e.depth = d
  BY <1>2, EntriesPushed
<1> HIDE DEF e, n
<1>4. d > 0 => q[t][d] \notin CFunctions
  <2>1. SUFFICES ASSUME d > 0 PROVE q[t][d] \notin CFunctions
    OBVIOUS
  <2>2. cs # <<>>
    <3>1. SUFFICES ASSUME cs = <<>> PROVE FALSE OBVIOUS
    <3>2. q[Main] = <<>> /\ t = Main BY <3>1 DEF Layout, Depths
    <3> QED BY <2>1, <3>2
  <2>3. n \in 1..n BY <1>1, <2>2
  <2>4. \E p \in 1..n : cs[p].thread = t
    <3>1. CASE t = Main
      <4>1. 1 \in 1..n /\ cs[1].thread = Main BY <1>1, <2>2 DEF Stacked
      <4> QED BY <3>1, <4>1
    <3>2. CASE t # Main BY <1>1, <2>2, <2>3, <3>2
    <3> QED BY <3>1, <3>2
  <2> DEFINE S == {p \in 1..n : cs[p].thread = t}
             p == Max(S)
  <2>5. S \subseteq 0..n /\ S # {} BY <2>4
  <2>6. p \in S /\ \A y \in S : y <= p BY <1>1, <2>5, MaxIs
  <2> HIDE DEF p
  <2>7. p \in 1..n /\ cs[p].thread = t /\ LastOfThread(cs, p)
    BY <1>1, <2>6 DEF LastOfThread, n
  <2>8. Shape(cs[p], q[t], d, Resuming(cs, p))
    BY <1>1, <2>7 DEF Layout, OnTop
  <2>9. CASE p = n
    <3>1. cs[p].kind \in {"call", "res", "java"} /\ Resuming(cs, p) = FALSE
      BY <1>1, <2>2, <2>9 DEF TopCalled, Resuming, n
    <3>2. Shape(cs[p], q[t], d, FALSE) BY <2>8, <3>1
    <3>3. q[t][d] \in {"lua", "java"} BY <1>2, <3>1, <3>2 DEF Shape
    <3> QED BY <3>3 DEF CFunctions
  <2>10. CASE p # n
    <3>1. p + 1 \in 2..n /\ (p + 1) - 1 = p BY <1>1, <2>7, <2>10
    <3>2. cs[p + 1].thread # cs[(p + 1) - 1].thread
      BY <2>7, <3>1 DEF LastOfThread, n
    <3>3. cs[p + 1].kind = "res" \/ cs[p + 1].thread = Main
      BY <3>1, <3>2, ThreadChanges DEF n
    <3>4. t = Main
      <4>0. n \in p + 1..Len(cs)
        <5>1. n \in p + 1..n BY <1>1, <2>7, <2>10
        <5> QED BY <5>1 DEF n
      <4>1. cs[n].thread # t BY <2>7, <4>0 DEF LastOfThread
      <4> QED BY <1>1, <2>2, <4>1
    <3>5. Resuming(cs, p) = TRUE BY <1>1, <2>7, <3>1, <3>2, <3>3, <3>4 DEF Resuming, n
    <3>6. q[t][d] = "resume" BY <2>8, <3>5 DEF Shape
    <3> QED BY <3>6 DEF CFunctions
  <2> QED BY <2>9, <2>10
<1>5. Settled(e, q[t]) BY <1>2, <1>3, <1>4 DEF Shape, Settled
<1>6. Stacked(Append(cs, e)) /\ Blocks(Append(cs, e), st)
  <2>1. cs # <<>> => IF Last(cs).kind = "java" THEN e.thread = Main
                     ELSE e.thread = Last(cs).thread /\ Last(cs).kind # "raw"
    BY <1>3
  <2>2. cs = <<>> => e.kind = "raw" /\ e.thread = Main BY <1>3
  <2> QED BY <1>3, <2>1, <2>2, PushStacked
<1>7. Layout(Append(cs, e), q)
  <2>1. /\ e.kind # "res" /\ e.depth = Len(q[t]) /\ Len(q[t]) <= Len(q[t])
        /\ t = e.thread /\ (cs = <<>> => t = Main)
    BY <1>2, <1>3
  <2> QED BY <1>3, <1>5, <2>1, PushLayout
<1>8. q[t] # <<>> => Last(q[t]) \notin CFunctions
  BY <1>2, <1>4 DEF Last
<1> QED BY <1>6, <1>7, <1>8 DEF e

-----------------------------------------------------------------------------
(* The steps keep the C stack and the CallInfos together *)

\* The innermost entry, and the CallInfos of its thread.
LEMMA TopIs ==
  ASSUME FramesInv, cstack # <<>>
  PROVE  /\ Len(cstack) \in Nat \ {0} /\ Innermost = cstack[Len(cstack)]
         /\ Innermost \in Entry /\ Innermost.thread \in LuaThreads
         /\ Innermost.kind \in {"call", "res", "java"}
         /\ Innermost.thread \in Coroutines => status[Innermost.thread] = "running"
         /\ Innermost.depth \in Nat
         /\ Shape(Innermost, ci[Innermost.thread], Len(ci[Innermost.thread]), FALSE)
         /\ ci[Innermost.thread] \in Seq(CallInfos)
         /\ ci[Innermost.thread] # <<>>
         /\ Last(ci[Innermost.thread]) = IF Innermost.kind = "java" THEN "java" ELSE "lua"
<1> DEFINE n == Len(cstack)
           t == Innermost.thread
<1>1. cstack \in Seq(Entry) /\ ci \in CiLists BY DEF FramesInv, TypeOK
<1>2. /\ n \in Nat \ {0} /\ Innermost = cstack[n] /\ Innermost \in Entry
      /\ t \in LuaThreads /\ n \in DOMAIN cstack /\ Innermost.depth \in Nat
      /\ Innermost.kind \in {"call", "raw", "res", "java"}
  BY <1>1, EntriesAre DEF Innermost
<1>3. Innermost.kind \in {"call", "res", "java"}
  BY <1>2 DEF FramesInv, Frames, TopCalled, Innermost
<1>4. t \in Coroutines => status[t] = "running"
  <2>1. ASSUME t \in Coroutines PROVE status[t] = "running"
    <3>1. PICK k \in 1..n : cstack[k].kind = "res" /\ cstack[k].thread = t
      BY <1>2, <2>1 DEF FramesInv, Frames, Blocks
    <3>2. k \in DOMAIN cstack BY <1>1, <3>1, EntriesAre
    <3> QED BY <3>1, <3>2 DEF FramesInv, Frames, Blocks
  <2> QED BY <2>1
<1>5. Shape(Innermost, ci[t], Len(ci[t]), FALSE)
  <2>1. LastOfThread(cstack, n) BY <1>2 DEF LastOfThread
  <2>2. Shape(cstack[n], ci[t], Len(ci[t]), Resuming(cstack, n))
    BY <1>2, <2>1 DEF FramesInv, Frames, Layout, OnTop
  <2>3. Resuming(cstack, n) = FALSE BY <1>2 DEF Resuming
  <2> QED BY <1>2, <2>2, <2>3
<1>6. ci[t] \in Seq(CallInfos) BY <1>1, <1>2 DEF CiLists
<1>7. /\ Len(ci[t]) > 0
      /\ ci[t][Len(ci[t])] = IF Innermost.kind = "java" THEN "java" ELSE "lua"
  BY <1>2, <1>3, <1>5, <1>6 DEF Shape
<1>8. /\ ci[t] # <<>>
      /\ Last(ci[t]) = IF Innermost.kind = "java" THEN "java" ELSE "lua"
  BY <1>6, <1>7 DEF Last
<1> QED BY <1>2, <1>3, <1>4, <1>5, <1>6, <1>8

\* A function is called without luaD_pcall.
LEMMA DoCallFrames ==
  ASSUME FramesInv, NEW t \in LuaThreads, InLua(t), NEW ny \in {0, 1}, NEW s,
         s = ci[t] \/ \E x \in CFunctions : s = Append(ci[t], x),
         DoCall(t, s, <<>>, ny), UNCHANGED rules
  PROVE  /\ FramesInv'
         /\ cstack' = Append(cstack, Call(t, ny, Len(ci[t])))
<1> DEFINE e == Call(t, ny, Len(ci[t]))
<1>1. cstack \in Seq(Entry) /\ ci \in CiLists BY DEF FramesInv, TypeOK
<1>2. /\ cstack # <<>> /\ t = Last(cstack).thread /\ Last(cstack).kind # "java"
      /\ t = Innermost.thread /\ Innermost.kind # "java"
  BY DEF InLua, Innermost
<1>3. /\ ci[t] \in Seq(CallInfos) /\ ci[t] # <<>> /\ Last(ci[t]) = "lua"
      /\ t \in Coroutines => status[t] = "running"
  BY <1>2, TopIs
<1>4. e \in Entry
  <2>1. Len(ci[t]) \in Nat BY <1>3
  <2>2. 0 \in Shorts BY ShortsAre
  <2> QED BY <2>1, <2>2, EntriesPushed
<1>5. cstack' = Append(cstack, e) /\ Len(cstack) < MaxDepth
  <2>1. cstack' = cstack \o <<>> \o <<e>> /\ Len(cstack) + Len(<<>>) < MaxDepth
    BY DEF DoCall
  <2> HIDE DEF e
  <2> QED BY <1>1, <1>4, <2>1
<1>6. /\ ci' = [ci EXCEPT ![t] = s \o <<"lua">>]
      /\ status' = status
  BY DEF DoCall
<1>7. ci' \in CiLists /\ Frames(cstack', ci', status')
  <2>1. \/ /\ s = ci[t]
           /\ ci[t] # <<>> => Last(ci[t]) \notin CFunctions
        \/ \E x \in CFunctions :
              /\ s = Append(ci[t], x)
              /\ x = "pcallk" => ci[t] # <<>> /\ Last(ci[t]) = "lua"
    BY <1>3 DEF CFunctions
  <2>2. /\ Stacked(cstack) /\ Blocks(cstack, status) /\ Layout(cstack, ci)
        /\ Continuable(ci, status)
    BY DEF FramesInv, Frames
  <2> QED BY <1>1, <1>2, <1>3, <1>5, <1>6, <2>1, <2>2, PushCallFrames
<1>8. TypeOK'
  <2>1. cstack' \in Seq(Entry) /\ Len(cstack') <= MaxDepth
    <3> HIDE DEF e
    <3>1. MaxDepth \in Nat BY LimitsAssumption
    <3> QED BY <1>1, <1>4, <1>5, <3>1
  <2>2. nny' \in [LuaThreads -> Shorts] /\ nCcalls' \in [LuaThreads -> Shorts]
    <3>1. nny \in [LuaThreads -> Shorts] /\ nCcalls \in [LuaThreads -> Shorts]
      BY DEF FramesInv, TypeOK
    <3>2. nny[t] + ny \in Int /\ nCcalls[t] + 1 \in Int BY <3>1 DEF Shorts
    <3>3. Wrapped(nny[t] + ny) \in Shorts /\ Wrapped(nCcalls[t] + 1) \in Shorts
      BY <3>2, WrappedIs
    <3> QED BY <3>1, <3>3 DEF DoCall
  <2> QED BY <1>6, <1>7, <2>1, <2>2 DEF FramesInv, TypeOK
<1> QED BY <1>5, <1>7, <1>8 DEF FramesInv

\* A function is called through luaD_pcall.
LEMMA DoPcallFrames ==
  ASSUME FramesInv, NEW t \in LuaThreads, NEW s,
         \/ InLua(t) /\ s = Append(ci[t], "pcallc")
         \/ InJava /\ t = Main /\ s = ci[t],
         DoCall(t, s, <<Raw(t, nCcalls[t], nny[t], Len(ci[t]))>>, 1), UNCHANGED rules
  PROVE  /\ FramesInv'
         /\ cstack' = Append(Append(cstack, Raw(t, nCcalls[t], nny[t], Len(ci[t]))),
                             Call(t, 1, Len(ci[t])))
<1> DEFINE r == Raw(t, nCcalls[t], nny[t], Len(ci[t]))
           e == Call(t, 1, Len(ci[t]))
           b == Append(cstack, r)
<1>1. /\ cstack \in Seq(Entry) /\ ci \in CiLists
      /\ nny \in [LuaThreads -> Shorts] /\ nCcalls \in [LuaThreads -> Shorts]
      /\ Stacked(cstack) /\ TopCalled(cstack) /\ Blocks(cstack, status)
      /\ Layout(cstack, ci) /\ Continuable(ci, status)
  BY DEF FramesInv, Frames, TypeOK
<1>2. /\ nCcalls[t] \in Shorts /\ nny[t] \in Shorts
      /\ ci[t] \in Seq(CallInfos) /\ Len(ci[t]) \in Nat
  BY <1>1 DEF CiLists
<1>3. /\ e \in Entry /\ r \in Entry /\ r.kind = "raw" /\ r.thread = t
  BY <1>2, EntriesPushed
<1>4. cstack' = Append(b, e) /\ Len(cstack) + 1 < MaxDepth
  <2>1. cstack' = cstack \o <<r>> \o <<e>> /\ Len(cstack) + Len(<<r>>) < MaxDepth
    BY DEF DoCall
  <2> HIDE DEF e, r
  <2>2. cstack \o <<r>> = b /\ Len(<<r>>) = 1 BY <1>1, <1>3
  <2>3. b \in Seq(Entry) BY <1>1, <1>3
  <2> HIDE DEF b
  <2>4. b \o <<e>> = Append(b, e) BY <1>3, <2>3
  <2> QED BY <2>1, <2>2, <2>4
<1>5. /\ ci' = [ci EXCEPT ![t] = s \o <<"lua">>]
      /\ status' = status
  BY DEF DoCall
<1>6. \/ cstack = <<>> /\ t = Main
      \/ cstack # <<>> /\ Last(cstack).kind = "java" /\ t = Main
      \/ cstack # <<>> /\ Last(cstack).kind \in {"call", "res"} /\ t = Last(cstack).thread
  BY DEF InLua, InJava, Innermost
<1>7. /\ Stacked(b) /\ Blocks(b, status) /\ Layout(b, ci)
      /\ ci[t] # <<>> => Last(ci[t]) \notin CFunctions
  BY <1>1, <1>2, <1>6, PushRawFrames
<1>8. b \in Seq(Entry) /\ b # <<>> /\ Last(b) = r /\ Len(b) = Len(cstack) + 1
  <2> HIDE DEF r
  <2>1. /\ b \in Seq(Entry) /\ Len(b) = Len(cstack) + 1 /\ Len(cstack) \in Nat
        /\ b[Len(cstack) + 1] = r
    BY <1>1, <1>3
  <2> HIDE DEF b
  <2> QED BY <2>1, EntriesAre
<1>9. t \in Coroutines => status[t] = "running"
  BY <1>6, ThreadsAssumption, TopIs DEF Innermost
<1>10. \/ /\ s = ci[t]
          /\ ci[t] # <<>> => Last(ci[t]) \notin CFunctions
       \/ \E x \in CFunctions :
             /\ s = Append(ci[t], x)
             /\ x = "pcallk" => ci[t] # <<>> /\ Last(ci[t]) = "lua"
  BY <1>7 DEF CFunctions
<1>11. ci' \in CiLists /\ Frames(cstack', ci', status')
  <2> HIDE DEF b, r
  <2>1. Last(b).kind # "java" /\ t = Last(b).thread BY <1>3, <1>8
  <2> QED BY <1>1, <1>4, <1>5, <1>7, <1>8, <1>9, <1>10, <2>1, PushCallFrames
<1>12. TypeOK'
  <2>1. cstack' \in Seq(Entry) /\ Len(cstack') <= MaxDepth
    <3> HIDE DEF e, b
    <3>1. MaxDepth \in Nat BY LimitsAssumption
    <3>2. cstack' \in Seq(Entry) /\ Len(cstack') = Len(b) + 1 /\ Len(cstack) \in Nat
      BY <1>1, <1>3, <1>4, <1>8
    <3> QED BY <1>4, <1>8, <3>1, <3>2
  <2>2. nny' \in [LuaThreads -> Shorts] /\ nCcalls' \in [LuaThreads -> Shorts]
    <3>1. nny[t] + 1 \in Int /\ nCcalls[t] + 1 \in Int BY <1>2 DEF Shorts
    <3>2. Wrapped(nny[t] + 1) \in Shorts /\ Wrapped(nCcalls[t] + 1) \in Shorts
      BY <3>1, WrappedIs
    <3> QED BY <1>1, <3>2 DEF DoCall
  <2>3. rules' \subseteq AllRules /\ status' \in [Coroutines -> Statuses]
    BY <1>5 DEF FramesInv, TypeOK
  <2> QED BY <1>11, <2>1, <2>2, <2>3 DEF TypeOK
<1> QED BY <1>4, <1>11, <1>12 DEF FramesInv

\* CallInfos are only removed.
LEMMA ShortenedContinuable ==
  ASSUME NEW q \in CiLists, NEW u \in CiLists, NEW st, NEW st2, Continuable(q, st),
         \A x \in LuaThreads : \/ u[x] = q[x]
                               \/ /\ Len(u[x]) <= Len(q[x])
                                  /\ \A i \in 1..Len(u[x]) : u[x][i] = q[x][i],
         \A c \in Coroutines : st2[c] = "suspended" => u[c] # <<>> /\ Last(u[c]) = "lua"
  PROVE  Continuable(u, st2)
<1>1. ASSUME NEW t \in LuaThreads, NEW i \in DOMAIN u[t], u[t][i] = "pcallk"
      PROVE  i > 1 /\ u[t][i - 1] = "lua"
  <2>1. /\ q[t] \in Seq(CallInfos) /\ u[t] \in Seq(CallInfos)
        /\ Len(q[t]) \in Nat /\ Len(u[t]) \in Nat
    BY DEF CiLists
  <2>2. i \in DOMAIN q[t] /\ q[t][i] = "pcallk" BY <1>1, <2>1
  <2>3. i > 1 /\ q[t][i - 1] = "lua" BY <2>2 DEF Continuable
  <2>4. i - 1 \in 1..Len(u[t]) BY <2>1, <2>3
  <2> QED BY <2>3, <2>4
<1> QED BY <1>1 DEF Continuable

\* A function returns, or luaD_pcall with an error: entries after m go, those of
\* thread t only or all of other threads.
Cutting(m, t) ==
    /\ m \in 0..Len(cstack) - 1
    /\ t = cstack[m + 1].thread /\ cstack[m + 1].kind # "res"
    /\ m > 0 => cstack[m].kind # "raw"
    /\ \A i, k \in DOMAIN cstack :
          i <= m /\ m < k /\ cstack[i].thread = cstack[k].thread => cstack[i].thread = t
    /\ cstack' = SubSeq(cstack, 1, m)
    /\ ci' = [ci EXCEPT ![t] = SubSeq(ci[t], 1, cstack[m + 1].depth)]
    /\ nny' \in [LuaThreads -> Shorts] /\ nCcalls' \in [LuaThreads -> Shorts]
    /\ UNCHANGED <<status, rules>>

\* The C stack and the CallInfos stay together.
LEMMA CutFrames ==
  ASSUME FramesInv, NEW m, NEW t, Cutting(m, t)
  PROVE  FramesInv'
<1> DEFINE d == cstack[m + 1].depth
<1>0. /\ m \in 0..Len(cstack) - 1
      /\ t = cstack[m + 1].thread /\ cstack[m + 1].kind # "res"
      /\ m > 0 => cstack[m].kind # "raw"
      /\ \A i, k \in DOMAIN cstack :
            i <= m /\ m < k /\ cstack[i].thread = cstack[k].thread => cstack[i].thread = t
      /\ cstack' = SubSeq(cstack, 1, m)
      /\ ci' = [ci EXCEPT ![t] = SubSeq(ci[t], 1, d)]
      /\ nny' \in [LuaThreads -> Shorts] /\ nCcalls' \in [LuaThreads -> Shorts]
      /\ UNCHANGED <<status, rules>>
  BY DEF Cutting
<1>1. /\ cstack \in Seq(Entry) /\ ci \in CiLists /\ Len(cstack) <= MaxDepth
      /\ Stacked(cstack) /\ Blocks(cstack, status)
      /\ Layout(cstack, ci) /\ Continuable(ci, status)
  BY DEF FramesInv, Frames, TypeOK
<1>2. /\ Len(cstack) \in Nat /\ DOMAIN cstack = 1..Len(cstack) /\ m + 1 \in 1..Len(cstack)
      /\ t \in LuaThreads /\ d \in Nat /\ m \in 0..Len(cstack)
  BY <1>0, <1>1, EntriesAre
<1>3. ci[t] \in Seq(CallInfos) /\ d <= Len(ci[t])
  BY <1>0, <1>1, <1>2 DEF CiLists, Layout, Depths
<1> HIDE DEF d
<1>4. /\ ci' \in CiLists
      /\ \A x \in LuaThreads \ {t} : ci'[x] = ci[x]
      /\ Len(ci'[t]) = d /\ \A i \in 1..d : ci'[t][i] = ci[t][i]
  <2>1. ci' = [ci EXCEPT ![t] = SubSeq(ci[t], 1, d)] BY <1>0
  <2>2. /\ SubSeq(ci[t], 1, d) \in Seq(CallInfos)
        /\ Len(SubSeq(ci[t], 1, d)) = d
        /\ \A i \in 1..d : SubSeq(ci[t], 1, d)[i] = ci[t][i]
    BY <1>2, <1>3, PrefixIs
  <2>3. ci'[t] = SubSeq(ci[t], 1, d) BY <1>1, <1>2, <2>1 DEF CiLists
  <2> QED BY <1>1, <1>2, <2>1, <2>2, <2>3 DEF CiLists
<1>5. /\ Stacked(cstack') /\ TopCalled(cstack') /\ Blocks(cstack', status)
  BY <1>0, <1>1, <1>2, CutStacked
<1>6. Layout(cstack', ci') BY <1>0, <1>1, CutLayout DEF d
<1>7. Continuable(ci', status)
  <2>1. \A x \in LuaThreads : \/ ci'[x] = ci[x]
                              \/ /\ Len(ci'[x]) <= Len(ci[x])
                                 /\ \A i \in 1..Len(ci'[x]) : ci'[x][i] = ci[x][i]
    BY <1>3, <1>4
  <2>2. ASSUME NEW c \in Coroutines, status[c] = "suspended"
        PROVE  ci'[c] # <<>> /\ Last(ci'[c]) = "lua"
    <3>1. c # t
      <4>1. SUFFICES ASSUME c = t PROVE FALSE OBVIOUS
      <4>2. PICK k \in 1..m + 1 : cstack[k].kind = "res" /\ cstack[k].thread = t
        BY <1>0, <1>1, <1>2, <2>2, <4>1 DEF Blocks
      <4>3. k \in DOMAIN cstack BY <1>2, <4>2
      <4> QED BY <1>1, <2>2, <4>1, <4>2, <4>3 DEF Blocks
    <3>2. ci'[c] = ci[c] BY <1>4, <3>1 DEF LuaThreads
    <3> QED BY <1>1, <2>2, <3>2 DEF Continuable
  <2>3. ci \in CiLists /\ ci' \in CiLists /\ Continuable(ci, status) BY <1>1, <1>4
  <2> QED BY <2>1, <2>2, <2>3, ShortenedContinuable, SMT
<1>8. TypeOK'
  <2>1. cstack' \in Seq(Entry) /\ Len(cstack') <= MaxDepth
    <3>1. MaxDepth \in Nat BY LimitsAssumption
    <3>2. cstack' \in Seq(Entry) /\ Len(cstack') = m BY <1>0, <1>1, <1>2, PrefixIs
    <3> QED BY <1>1, <1>2, <3>1, <3>2
  <2> QED BY <1>0, <1>4, <2>1 DEF FramesInv, TypeOK
<1> QED BY <1>0, <1>5, <1>6, <1>7, <1>8 DEF FramesInv, Frames

\* A coroutine c, resumed by f, yields, returns or fails.
Ending(j, c, f, s, new) ==
    /\ j \in DOMAIN cstack /\ cstack[j].kind = "res"
    /\ c = cstack[j].thread /\ f = cstack[j - 1].thread
    /\ \A i \in j..Len(cstack) : cstack[i].thread = c
    /\ s \in Seq(CallInfos) /\ Len(s) <= Len(ci[c])
    /\ \A i \in 1..Len(s) : s[i] = ci[c][i]
    /\ new \in Statuses \ {"running"}
    /\ new = "suspended" => s # <<>> /\ Last(s) = "lua"
    /\ EndResume(c, j, s, new)
    /\ UNCHANGED rules

\* The C stack and the CallInfos stay together.
LEMMA EndFrames ==
  ASSUME FramesInv, NEW j, NEW c, NEW f, NEW s, NEW new, Ending(j, c, f, s, new)
  PROVE  /\ FramesInv'
         /\ j > 1 /\ c \in Coroutines
         /\ f \in LuaThreads \ {c}
         /\ cstack' = SubSeq(cstack, 1, j - 1)
         /\ ci'[c] = s
         /\ ci[f] # <<>> /\ Last(ci[f]) = "resume" /\ ci'[f] = Front(ci[f])
         /\ \A x \in LuaThreads \ {c, f} : ci'[x] = ci[x]
         /\ \A i \in 1..j - 1 : cstack[i].thread = f => cstack[i].depth <= Len(ci'[f])
         /\ \A i \in 1..j - 1 : cstack[i].thread # c
<1>0. /\ j \in DOMAIN cstack /\ cstack[j].kind = "res"
      /\ c = cstack[j].thread /\ f = cstack[j - 1].thread
      /\ \A i \in j..Len(cstack) : cstack[i].thread = c
      /\ s \in Seq(CallInfos) /\ Len(s) <= Len(ci[c])
      /\ \A i \in 1..Len(s) : s[i] = ci[c][i]
      /\ new \in Statuses \ {"running"}
      /\ new = "suspended" => s # <<>> /\ Last(s) = "lua"
      /\ EndResume(c, j, s, new)
      /\ rules' = rules
  BY DEF Ending
<1>1. /\ cstack \in Seq(Entry) /\ ci \in CiLists /\ Len(cstack) <= MaxDepth
      /\ status \in [Coroutines -> Statuses]
      /\ nny \in [LuaThreads -> Shorts] /\ nCcalls \in [LuaThreads -> Shorts]
      /\ Stacked(cstack) /\ Blocks(cstack, status)
      /\ Layout(cstack, ci) /\ Continuable(ci, status)
  BY DEF FramesInv, Frames, TypeOK
<1>2. /\ Len(cstack) \in Nat /\ DOMAIN cstack = 1..Len(cstack)
      /\ \A i \in 1..Len(cstack) : cstack[i].thread \in LuaThreads
  BY <1>0, <1>1, EntriesAre
<1>3. j # 1 /\ c \in Coroutines BY <1>0, <1>1, <1>2 DEF Stacked
<1>4. j \in 2..Len(cstack) /\ f \in LuaThreads /\ c \in LuaThreads
  BY <1>0, <1>2, <1>3 DEF LuaThreads
<1>5. f # c /\ cstack[j - 1].kind \in {"call", "res"} BY <1>0, <1>1, <1>4 DEF Stacked
<1>6. /\ cstack' = SubSeq(cstack, 1, j - 1)
      /\ ci' = [ci EXCEPT ![c] = s, ![f] = Front(@)]
      /\ status' = [status EXCEPT ![c] = new]
  BY <1>0 DEF EndResume
<1>7. ci[f] \in Seq(CallInfos) /\ ci[c] \in Seq(CallInfos) BY <1>0, <1>1, <1>4 DEF CiLists
<1>8. /\ ci'[c] = s /\ ci'[f] = Front(ci[f])
      /\ \A x \in LuaThreads \ {c, f} : ci'[x] = ci[x]
  BY <1>0, <1>1, <1>4, <1>5, <1>6 DEF CiLists
<1>9. ci' \in CiLists /\ Front(ci[f]) \in Seq(CallInfos)
  <2>1. Front(ci[f]) \in Seq(CallInfos) BY <1>7 DEF Front
  <2> QED BY <1>0, <1>1, <1>4, <1>6, <2>1 DEF CiLists
<1>10. /\ Layout(cstack', ci')
       /\ ci[f] # <<>> /\ Last(ci[f]) = "resume"
       /\ \A i \in 1..j - 1 : cstack[i].thread # c
       /\ \A i \in 1..j - 1 : cstack[i].thread = f => cstack[i].depth <= Len(ci'[f])
  <2>1. /\ cstack \in Seq(Entry) /\ ci \in CiLists
        /\ Stacked(cstack) /\ Blocks(cstack, status) /\ Layout(cstack, ci)
    BY <1>1
  <2>2. /\ j \in DOMAIN cstack /\ cstack[j].kind = "res" /\ c = cstack[j].thread
        /\ \A i \in j..Len(cstack) : cstack[i].thread = c
        /\ f = cstack[j - 1].thread
    BY <1>0
  <2>3. /\ ci' \in CiLists /\ ci'[f] = Front(ci[f])
        /\ \A x \in LuaThreads \ {c, f} : ci'[x] = ci[x]
    BY <1>8, <1>9
  <2>4. /\ Layout(SubSeq(cstack, 1, j - 1), ci')
        /\ ci[f] # <<>> /\ Last(ci[f]) = "resume"
        /\ \A i \in 1..j - 1 : cstack[i].thread # c
        /\ \A i \in 1..j - 1 : cstack[i].thread = f => cstack[i].depth <= Len(ci'[f])
    BY <2>1, <2>2, <2>3, EndLayout, SMT
  <2> QED BY <1>6, <2>4
<1>11. Stacked(cstack') /\ TopCalled(cstack') /\ Blocks(cstack', status')
  <2>1. j - 1 \in 0..Len(cstack) /\ (j - 1 > 0 => cstack[j - 1].kind # "raw")
    BY <1>0, <1>2, <1>4, <1>5
  <2>2. \A i \in 1..j - 1 : cstack[i].kind = "res" =>
           status'[cstack[i].thread] = status[cstack[i].thread]
    BY <1>0, <1>1, <1>2, <1>4, <1>6, <1>10 DEF Stacked
  <2> QED BY <1>0, <1>1, <1>6, <2>1, <2>2, CutStacked
<1>12. Continuable(ci', status')
  <2>1. \A x \in LuaThreads : \/ ci'[x] = ci[x]
                              \/ /\ Len(ci'[x]) <= Len(ci[x])
                                 /\ \A i \in 1..Len(ci'[x]) : ci'[x][i] = ci[x][i]
    <3>1. ci[f] # <<>> BY <1>0, <1>10
    <3>2. Len(Front(ci[f])) <= Len(ci[f])
          /\ \A i \in 1..Len(Front(ci[f])) : Front(ci[f])[i] = ci[f][i]
      BY <1>7, <3>1 DEF Front
    <3> QED BY <1>0, <1>8, <3>2
  <2>2. ASSUME NEW x \in Coroutines, status'[x] = "suspended"
        PROVE  ci'[x] # <<>> /\ Last(ci'[x]) = "lua"
    <3>1. CASE x = c
      <4>1. status'[c] = new BY <1>0, <1>1, <1>3, <1>6
      <4> QED BY <1>0, <1>8, <2>2, <3>1, <4>1
    <3>2. CASE x # c
      <4>1. status[x] = "suspended" BY <1>0, <1>1, <1>6, <2>2, <3>2
      <4>2. x # f
        <5>1. SUFFICES ASSUME x = f PROVE FALSE OBVIOUS
        <5>2. PICK k \in 1..j - 1 : cstack[k].kind = "res" /\ cstack[k].thread = f
          BY <1>0, <1>1, <1>2, <1>4, <5>1 DEF Blocks
        <5>3. k \in DOMAIN cstack BY <1>0, <1>2, <1>4
        <5> QED BY <1>0, <1>1, <4>1, <5>1, <5>2, <5>3 DEF Blocks
      <4>3. ci'[x] = ci[x] BY <1>0, <1>8, <3>2, <4>2 DEF LuaThreads
      <4> QED BY <1>0, <1>1, <4>1, <4>3 DEF Continuable
    <3> QED BY <3>1, <3>2
  <2>3. ci \in CiLists /\ ci' \in CiLists /\ Continuable(ci, status) BY <1>0, <1>1, <1>9
  <2> QED BY <2>1, <2>2, <2>3, ShortenedContinuable, SMT
<1>13. TypeOK'
  <2>1. cstack' \in Seq(Entry) /\ Len(cstack') <= MaxDepth
    <3>1. MaxDepth \in Nat BY LimitsAssumption
    <3>2. cstack' \in Seq(Entry) /\ Len(cstack') = j - 1
      BY <1>0, <1>1, <1>2, <1>4, <1>6, PrefixIs
    <3> QED BY <1>0, <1>1, <1>2, <1>4, <3>1, <3>2
  <2>2. status' \in [Coroutines -> Statuses] BY <1>0, <1>1, <1>6
  <2>3. nny' \in [LuaThreads -> Shorts] /\ nCcalls' \in [LuaThreads -> Shorts]
    <3>1. cstack[j] \in Entry BY <1>0, <1>1, <1>2, EntriesAre
    <3>2. cstack[j].cc - 1 \in Int BY <3>1 DEF Entry, Shorts
    <3>3. Wrapped(cstack[j].cc - 1) \in Shorts BY <3>2, WrappedIs
    <3>4. 1 \in Shorts BY ShortsAre
    <3> QED BY <1>0, <1>1, <3>3, <3>4 DEF EndResume
  <2>4. rules' \subseteq AllRules BY <1>0 DEF FramesInv, TypeOK
  <2> QED BY <1>9, <2>1, <2>2, <2>3, <2>4 DEF TypeOK
<1>14. FramesInv' BY <1>10, <1>11, <1>12, <1>13 DEF FramesInv, Frames
<1>15. j > 1 /\ f \in LuaThreads \ {c} BY <1>2, <1>4, <1>5
<1> QED BY <1>3, <1>6, <1>8, <1>10, <1>14, <1>15

\* A coroutine goes on in its lua_resume with the first CallInfos that it has.
Continuing(j, c, h) ==
    /\ j \in DOMAIN cstack /\ cstack[j].kind = "res" /\ c = cstack[j].thread
    /\ \A i \in j..Len(cstack) : cstack[i].thread = c
    /\ h \in 1..Len(ci[c]) /\ ci[c][h] = "lua"
    /\ cstack' = SubSeq(cstack, 1, j)
    /\ ci' = [ci EXCEPT ![c] = SubSeq(ci[c], 1, h)]
    /\ nny' \in [LuaThreads -> Shorts] /\ nCcalls' \in [LuaThreads -> Shorts]
    /\ UNCHANGED <<status, rules>>

\* The C stack and the CallInfos stay together.
LEMMA ContinueFrames ==
  ASSUME FramesInv, NEW j, NEW c, NEW h, Continuing(j, c, h)
  PROVE  /\ FramesInv'
         /\ c \in Coroutines /\ \A i \in 1..j - 1 : cstack[i].thread # c
         /\ ci[c] \in Seq(CallInfos) /\ ci' \in CiLists
         /\ Len(ci'[c]) = h /\ \A i \in 1..h : ci'[c][i] = ci[c][i]
         /\ \A x \in LuaThreads \ {c} : ci'[x] = ci[x]
<1>0. /\ j \in DOMAIN cstack /\ cstack[j].kind = "res" /\ c = cstack[j].thread
      /\ \A i \in j..Len(cstack) : cstack[i].thread = c
      /\ h \in 1..Len(ci[c]) /\ ci[c][h] = "lua"
      /\ cstack' = SubSeq(cstack, 1, j)
      /\ ci' = [ci EXCEPT ![c] = SubSeq(ci[c], 1, h)]
      /\ nny' \in [LuaThreads -> Shorts] /\ nCcalls' \in [LuaThreads -> Shorts]
      /\ UNCHANGED <<status, rules>>
  BY DEF Continuing
<1>1. /\ cstack \in Seq(Entry) /\ ci \in CiLists /\ Len(cstack) <= MaxDepth
      /\ Stacked(cstack) /\ Blocks(cstack, status)
      /\ Layout(cstack, ci) /\ Continuable(ci, status)
  BY DEF FramesInv, Frames, TypeOK
<1>2. /\ Len(cstack) \in Nat /\ DOMAIN cstack = 1..Len(cstack)
      /\ c \in Coroutines /\ c \in LuaThreads
  BY <1>0, <1>1, EntriesAre DEF Stacked, LuaThreads
<1>3. ci[c] \in Seq(CallInfos) /\ h \in Nat \ {0} BY <1>0, <1>1, <1>2 DEF CiLists
<1>4. /\ ci' \in CiLists /\ \A x \in LuaThreads \ {c} : ci'[x] = ci[x]
      /\ Len(ci'[c]) = h /\ \A i \in 1..h : ci'[c][i] = ci[c][i]
      /\ ci'[c] \in Seq(CallInfos)
  <2>1. /\ SubSeq(ci[c], 1, h) \in Seq(CallInfos)
        /\ Len(SubSeq(ci[c], 1, h)) = h
        /\ \A i \in 1..h : SubSeq(ci[c], 1, h)[i] = ci[c][i]
    BY <1>0, <1>3, PrefixIs
  <2>2. ci'[c] = SubSeq(ci[c], 1, h) BY <1>0, <1>1, <1>2 DEF CiLists
  <2> QED BY <1>0, <1>1, <1>2, <2>1, <2>2 DEF CiLists
<1>5. ci'[c] # <<>> /\ Last(ci'[c]) = "lua"
  <2>1. h \in 1..h BY <1>3
  <2>2. ci'[c][h] = "lua" BY <1>0, <1>4, <2>1
  <2>3. ci'[c] # <<>> BY <1>3, <1>4
  <2>4. Last(ci'[c]) = ci'[c][h] BY <1>4 DEF Last
  <2> QED BY <2>2, <2>3, <2>4
<1>6. Stacked(cstack') /\ TopCalled(cstack') /\ Blocks(cstack', status)
  <2>1. j \in 0..Len(cstack) /\ cstack[j].kind # "raw" BY <1>0, <1>2
  <2> QED BY <1>0, <1>1, <2>1, CutStacked
<1>7. Layout(cstack', ci')
  <2>1. /\ j \in DOMAIN cstack /\ cstack[j].kind = "res" /\ c = cstack[j].thread
        /\ \A i \in j..Len(cstack) : cstack[i].thread = c
    BY <1>0
  <2>2. Layout(SubSeq(cstack, 1, j), ci')
    BY <1>1, <1>4, <1>5, <2>1, KeepResLayout, SMT
  <2> QED BY <1>0, <2>2
<1>8. Continuable(ci', status)
  <2>1. \A x \in LuaThreads : \/ ci'[x] = ci[x]
                              \/ /\ Len(ci'[x]) <= Len(ci[x])
                                 /\ \A i \in 1..Len(ci'[x]) : ci'[x][i] = ci[x][i]
    BY <1>0, <1>3, <1>4
  <2>2. ASSUME NEW x \in Coroutines, status[x] = "suspended"
        PROVE  ci'[x] # <<>> /\ Last(ci'[x]) = "lua"
    <3>1. CASE x = c BY <1>5, <3>1
    <3>2. CASE x # c
      <4>1. ci'[x] = ci[x] BY <1>4, <3>2 DEF LuaThreads
      <4> QED BY <1>1, <2>2, <4>1 DEF Continuable
    <3> QED BY <3>1, <3>2
  <2>3. ci \in CiLists /\ ci' \in CiLists /\ Continuable(ci, status) BY <1>1, <1>4
  <2> QED BY <2>1, <2>2, <2>3, ShortenedContinuable, SMT
<1>9. TypeOK'
  <2>1. cstack' \in Seq(Entry) /\ Len(cstack') <= MaxDepth
    <3>1. MaxDepth \in Nat BY LimitsAssumption
    <3>2. cstack' \in Seq(Entry) /\ Len(cstack') = j BY <1>0, <1>1, <1>2, PrefixIs
    <3> QED BY <1>0, <1>1, <1>2, <3>1, <3>2
  <2> QED BY <1>0, <1>4, <2>1 DEF FramesInv, TypeOK
<1>10. \A i \in 1..j - 1 : cstack[i].thread # c
  BY <1>0, <1>1, <1>2, ResIsFirst
<1> QED BY <1>0, <1>2, <1>3, <1>4, <1>6, <1>7, <1>8, <1>9, <1>10 DEF FramesInv, Frames

\* A Java function gets its entry and its CallInfo.
LEMMA PushJavaLayout ==
  ASSUME NEW cs \in Seq(Entry), NEW q \in CiLists, Stacked(cs), Layout(cs, q), cs # <<>>,
         NEW t \in LuaThreads, NEW u \in CiLists, Len(u[t]) = Len(q[t]) + 1,
         u[t][Len(q[t]) + 1] = "java", \A i \in 1..Len(q[t]) : u[t][i] = q[t][i],
         \A x \in LuaThreads \ {t} : u[x] = q[x]
  PROVE  Layout(Append(cs, Java(t, Len(q[t]))), u)
<1> DEFINE d == Len(q[t])
           e == Java(t, d)
<1>1. q[t] \in Seq(CallInfos) /\ d \in Nat BY DEF CiLists
<1>2. e \in Entry /\ e.kind = "java" /\ e.thread = t /\ e.depth = d
  BY <1>1, ShortsAre, EntriesPushed
<1>3. /\ Len(u[t]) = d + 1 /\ u[t][d + 1] = "java"
      /\ \A i \in 1..d : u[t][i] = q[t][i]
  OBVIOUS
<1> HIDE DEF d, e
<1>4. Settled(e, u[t]) BY <1>1, <1>2, <1>3 DEF Shape, Settled
<1>5. Layout(Append(cs, e), u)
  <2>1. /\ e.kind # "res" /\ e.depth = Len(q[t]) /\ Len(q[t]) <= Len(u[t])
        /\ \A i \in 1..Len(q[t]) : u[t][i] = q[t][i]
        /\ e \in Entry /\ t = e.thread /\ (cs = <<>> => t = Main)
        /\ u \in CiLists /\ \A x \in LuaThreads \ {t} : u[x] = q[x]
    BY <1>1, <1>2, <1>3 DEF d
  <2> QED BY <1>4, <2>1, PushLayout
<1> QED BY <1>5 DEF e, d

\* A Java function is called.
LEMMA JavaCallFrames ==
  ASSUME FramesInv, NEW t \in LuaThreads, JavaCall(t), UNCHANGED rules
  PROVE  /\ FramesInv'
         /\ cstack' = Append(cstack, Java(t, Len(ci[t])))
<1> DEFINE d == Len(ci[t])
           e == Java(t, d)
<1>0. /\ InLua(t) /\ Len(cstack) < MaxDepth
      /\ cstack' = Append(cstack, e)
      /\ ci' = [ci EXCEPT ![t] = Append(ci[t], "java")]
      /\ UNCHANGED <<status, nny, nCcalls, rules>>
  BY DEF JavaCall
<1>1. /\ cstack \in Seq(Entry) /\ ci \in CiLists
      /\ Stacked(cstack) /\ Blocks(cstack, status)
      /\ Layout(cstack, ci) /\ Continuable(ci, status)
  BY DEF FramesInv, Frames, TypeOK
<1>2. /\ cstack # <<>> /\ t = Last(cstack).thread /\ Last(cstack).kind \in {"call", "res"}
      /\ t = Innermost.thread
  BY <1>0 DEF InLua, Innermost
<1>3. ci[t] \in Seq(CallInfos) /\ d \in Nat BY <1>1 DEF CiLists
<1>4. e \in Entry /\ e.kind = "java" /\ e.thread = t /\ e.depth = d
  BY <1>3, ShortsAre, EntriesPushed
<1>5. t \in Coroutines => status[t] = "running" BY <1>2, TopIs
<1> DEFINE u == Append(ci[t], "java")
<1>6. /\ u \in Seq(CallInfos) /\ Len(u) = d + 1 /\ u[d + 1] = "java"
      /\ \A i \in 1..d : u[i] = ci[t][i]
  <2>1. "java" \in CallInfos BY DEF CallInfos
  <2> QED BY <1>3, <2>1
<1> HIDE DEF u, e
<1>7. ci' \in CiLists /\ ci'[t] = u /\ \A x \in LuaThreads \ {t} : ci'[x] = ci[x]
  <2>1. ci' = [ci EXCEPT ![t] = u] BY <1>0 DEF u
  <2> QED BY <1>1, <1>6, <2>1 DEF CiLists
<1>8. Stacked(cstack') /\ Blocks(cstack', status)
  <2>1. Stacked(Append(cstack, e)) /\ Blocks(Append(cstack, e), status)
    BY <1>1, <1>2, <1>4, PushStacked
  <2> QED BY <1>0, <2>1
<1>9. Layout(cstack', ci')
  <2>1. /\ cstack \in Seq(Entry) /\ ci \in CiLists /\ ci' \in CiLists
        /\ Stacked(cstack) /\ Layout(cstack, ci) /\ cstack # <<>>
        /\ Len(ci'[t]) = Len(ci[t]) + 1 /\ ci'[t][Len(ci[t]) + 1] = "java"
        /\ \A i \in 1..Len(ci[t]) : ci'[t][i] = ci[t][i]
        /\ \A x \in LuaThreads \ {t} : ci'[x] = ci[x]
    BY <1>1, <1>2, <1>6, <1>7
  <2>2. Layout(Append(cstack, Java(t, Len(ci[t]))), ci')
    BY <2>1, PushJavaLayout
  <2> QED BY <1>0, <2>2 DEF e
<1>10. TopCalled(cstack')
  <2>1. Last(Append(cstack, e)) = e BY <1>1, <1>4 DEF Last
  <2> QED BY <1>0, <1>4, <2>1 DEF TopCalled
<1>11. Continuable(ci', status)
  <2>1. ASSUME NEW c \in Coroutines, status[c] = "suspended"
        PROVE  ci'[c] # <<>> /\ Last(ci'[c]) = "lua"
    <3>1. c \in LuaThreads \ {t} BY <1>5, <2>1 DEF LuaThreads
    <3> QED BY <1>1, <1>7, <2>1, <3>1 DEF Continuable
  <2>2. ASSUME NEW x \in LuaThreads, NEW i \in DOMAIN ci'[x], ci'[x][i] = "pcallk"
        PROVE  i > 1 /\ ci'[x][i - 1] = "lua"
    <3>1. CASE x # t BY <1>1, <1>7, <2>2, <3>1 DEF Continuable
    <3>2. CASE x = t
      <4>1. i \in 1..d /\ ci[t][i] = "pcallk" /\ i \in DOMAIN ci[t]
        BY <1>3, <1>6, <1>7, <2>2, <3>2
      <4>2. i > 1 /\ ci[t][i - 1] = "lua" BY <1>1, <4>1 DEF Continuable
      <4>3. i - 1 \in 1..d BY <1>3, <4>1, <4>2
      <4> QED BY <1>6, <1>7, <3>2, <4>2, <4>3
    <3> QED BY <3>1, <3>2
  <2> QED BY <2>1, <2>2 DEF Continuable
<1>12. TypeOK'
  <2>1. cstack' \in Seq(Entry) /\ Len(cstack') <= MaxDepth
    <3>1. MaxDepth \in Nat BY LimitsAssumption
    <3> QED BY <1>0, <1>1, <1>4, <3>1
  <2> QED BY <1>0, <1>7, <2>1 DEF FramesInv, TypeOK
<1> QED BY <1>0, <1>8, <1>9, <1>10, <1>11, <1>12 DEF FramesInv, Frames, e

\* A coroutine that is resumed has no entry on the C stack.
LEMMA NotOnStack ==
  ASSUME FramesInv, NEW c \in Coroutines, status[c] # "running"
  PROVE  \A i \in DOMAIN cstack : cstack[i].thread # c
<1>1. SUFFICES ASSUME NEW i \in DOMAIN cstack, cstack[i].thread = c PROVE FALSE
  OBVIOUS
<1>2. Blocks(cstack, status) /\ cstack \in Seq(Entry) BY DEF FramesInv, Frames, TypeOK
<1>3. PICK k \in 1..i : cstack[k].kind = "res" /\ cstack[k].thread = c
  BY <1>1, <1>2 DEF Blocks
<1>4. k \in DOMAIN cstack BY <1>1, <1>2, EntriesAre
<1> QED BY <1>2, <1>3, <1>4 DEF Blocks

\* coroutine.resume starts or continues a coroutine.
LEMMA ResumeFrames ==
  ASSUME FramesInv, NEW t \in LuaThreads, NEW c \in Coroutines, Resume(t, c), UNCHANGED rules
  PROVE  /\ FramesInv'
         /\ c # t /\ \A i \in DOMAIN cstack : cstack[i].thread # c
         /\ ci[t] \in Seq(CallInfos) /\ ci[c] \in Seq(CallInfos)
         /\ ci'[t] = Append(ci[t], "resume")
         /\ \/ status[c] = "new" /\ ci'[c] = <<"lua">>
            \/ status[c] = "suspended" /\ ci'[c] = ci[c]
         /\ \A x \in LuaThreads \ {c, t} : ci'[x] = ci[x]
<1> DEFINE n == Wrapped(nCcalls[t] + 1)
           e == Res(c, n)
<1>0. /\ InLua(t) /\ Len(cstack) < MaxDepth
      /\ \/ /\ status[c] = "new"
            /\ ci' = [ci EXCEPT ![t] = Append(@, "resume"), ![c] = <<"lua">>]
            /\ nCcalls' = [nCcalls EXCEPT ![c] = n]
         \/ /\ status[c] = "suspended"
            /\ ci' = [ci EXCEPT ![t] = Append(@, "resume")]
            /\ nCcalls' = [nCcalls EXCEPT ![c] = Wrapped(n - 1)]
      /\ status' = [status EXCEPT ![c] = "running"]
      /\ nny' = [nny EXCEPT ![c] = 0]
      /\ cstack' = Append(cstack, e)
      /\ rules' = rules
  BY DEF Resume
<1>1. /\ cstack \in Seq(Entry) /\ ci \in CiLists
      /\ status \in [Coroutines -> Statuses]
      /\ nny \in [LuaThreads -> Shorts] /\ nCcalls \in [LuaThreads -> Shorts]
      /\ rules \subseteq AllRules
      /\ Stacked(cstack) /\ Blocks(cstack, status)
      /\ Layout(cstack, ci) /\ Continuable(ci, status)
  BY DEF FramesInv, Frames, TypeOK
<1>2. /\ cstack # <<>> /\ t = Last(cstack).thread /\ Last(cstack).kind \in {"call", "res"}
      /\ t = Innermost.thread
  BY <1>0 DEF InLua, Innermost
<1>3. /\ \A i \in DOMAIN cstack : cstack[i].thread # c
      /\ c # t
  <2>1. status[c] # "running" BY <1>0
  <2>2. \A i \in DOMAIN cstack : cstack[i].thread # c BY <2>1, NotOnStack
  <2>3. t \in Coroutines => status[t] = "running" BY <1>2, TopIs
  <2> QED BY <2>1, <2>2, <2>3
<1>4. n \in Shorts /\ Wrapped(n - 1) \in Shorts
  <2>1. nCcalls[t] + 1 \in Int BY <1>1 DEF Shorts
  <2>2. n \in Shorts BY <2>1, WrappedIs
  <2>3. n - 1 \in Int BY <2>2 DEF Shorts
  <2> QED BY <2>2, <2>3, WrappedIs
<1>5. c \in LuaThreads BY DEF LuaThreads
<1> HIDE DEF n
<1>6. /\ e \in Entry /\ e.kind = "res" /\ e.thread = c /\ e.depth = 0 /\ e.cc = n
  BY <1>4, <1>5, ShortsAre, EntriesPushed
<1>7. ci[t] \in Seq(CallInfos) /\ ci[c] \in Seq(CallInfos) BY <1>1, <1>5 DEF CiLists
<1>8. /\ ci' \in CiLists /\ ci'[t] = Append(ci[t], "resume")
      /\ \A x \in LuaThreads \ {c, t} : ci'[x] = ci[x]
      /\ \/ status[c] = "new" /\ ci'[c] = <<"lua">>
         \/ status[c] = "suspended" /\ ci'[c] = ci[c]
  <2>1. "resume" \in CallInfos /\ "lua" \in CallInfos BY DEF CallInfos
  <2>2. Append(ci[t], "resume") \in Seq(CallInfos) BY <1>7, <2>1
  <2>3. <<"lua">> \in Seq(CallInfos) BY <2>1
  <2>4. CASE /\ status[c] = "new"
             /\ ci' = [ci EXCEPT ![t] = Append(@, "resume"), ![c] = <<"lua">>]
    BY <1>1, <1>3, <1>5, <2>2, <2>3, <2>4 DEF CiLists
  <2>5. CASE /\ status[c] = "suspended"
             /\ ci' = [ci EXCEPT ![t] = Append(@, "resume")]
    BY <1>1, <1>3, <1>5, <2>2, <2>5 DEF CiLists
  <2> QED BY <1>0, <2>4, <2>5
<1>9. ci'[c] # <<>> /\ Last(ci'[c]) = "lua"
  <2>1. CASE ci'[c] = <<"lua">> BY <2>1 DEF Last
  <2>2. CASE status[c] = "suspended" /\ ci'[c] = ci[c]
    BY <1>1, <2>2 DEF Continuable
  <2> QED BY <1>8, <2>1, <2>2
<1>10. Stacked(cstack') /\ Blocks(cstack', status')
  <2>1. /\ e.thread \in Coroutines /\ e = Res(e.thread, e.cc)
        /\ status'[e.thread] = "running"
        /\ \A i \in DOMAIN cstack : cstack[i].thread # e.thread
    BY <1>0, <1>1, <1>3, <1>6
  <2>2. \A i \in DOMAIN cstack : cstack[i].kind = "res" =>
           status'[cstack[i].thread] = status[cstack[i].thread]
    BY <1>0, <1>1, <1>3 DEF Stacked
  <2> HIDE DEF e
  <2>3. Stacked(Append(cstack, e)) /\ Blocks(Append(cstack, e), status')
    BY <1>1, <1>2, <1>6, <2>1, <2>2, PushStacked
  <2> QED BY <1>0, <2>3 DEF e
<1> HIDE DEF e
<1>11. Layout(cstack', ci')
  <2>1. /\ c \in LuaThreads \ {t} /\ cstack \in Seq(Entry) /\ ci \in CiLists
        /\ Stacked(cstack) /\ Layout(cstack, ci)
    BY <1>1, <1>3, <1>5
  <2>2. /\ cstack # <<>> /\ Last(cstack).kind \in {"call", "res"}
        /\ e \in Entry /\ e.kind = "res" /\ e.depth = 0
        /\ \A i \in DOMAIN cstack : cstack[i].thread # e.thread
        /\ ci' \in CiLists /\ Last(cstack).thread # e.thread
    BY <1>2, <1>3, <1>6, <1>8, <1>9
  <2>3. ResumeLists(ci, ci', Last(cstack).thread, e.thread)
    BY <1>2, <1>6, <1>8, <1>9 DEF ResumeLists
  <2>4. Layout(Append(cstack, e), ci')
    BY <2>1, <2>2, <2>3, PushResLayout
  <2> QED BY <1>0, <2>4 DEF e
<1>12. TopCalled(cstack')
  <2>1. Last(Append(cstack, e)) = e BY <1>1, <1>6 DEF Last
  <2>2. e.kind # "raw" BY <1>6
  <2> QED BY <1>0, <2>1, <2>2 DEF TopCalled, e
<1>13. Continuable(ci', status')
  <2>1. ASSUME NEW x \in Coroutines, status'[x] = "suspended"
        PROVE  ci'[x] # <<>> /\ Last(ci'[x]) = "lua"
    <3>1. x # c BY <1>0, <1>1, <2>1
    <3>2. status[x] = "suspended" BY <1>0, <1>1, <2>1, <3>1
    <3>3. t \in Coroutines => status[t] = "running" BY <1>2, TopIs
    <3>4. x \in LuaThreads \ {c, t} BY <3>1, <3>2, <3>3 DEF LuaThreads
    <3> QED BY <1>1, <1>8, <3>2, <3>4 DEF Continuable
  <2>2. ASSUME NEW x \in LuaThreads, NEW i \in DOMAIN ci'[x], ci'[x][i] = "pcallk"
        PROVE  i > 1 /\ ci'[x][i - 1] = "lua"
    <3>1. CASE ci'[x] = ci[x] BY <1>1, <2>2, <3>1 DEF Continuable
    <3>2. CASE x = t
      <4>1. /\ Len(ci[t]) \in Nat /\ Len(ci'[t]) = Len(ci[t]) + 1
            /\ ci'[t][Len(ci[t]) + 1] = "resume"
            /\ \A k \in 1..Len(ci[t]) : ci'[t][k] = ci[t][k]
            /\ DOMAIN ci[t] = 1..Len(ci[t]) /\ DOMAIN ci'[t] = 1..Len(ci[t]) + 1
        <5>1. "resume" \in CallInfos BY DEF CallInfos
        <5> QED BY <1>7, <1>8, <5>1
      <4>2. i \in 1..Len(ci[t]) /\ ci[t][i] = "pcallk" BY <2>2, <3>2, <4>1
      <4>3. i > 1 /\ ci[t][i - 1] = "lua" BY <1>1, <4>1, <4>2 DEF Continuable
      <4>4. i - 1 \in 1..Len(ci[t]) BY <4>1, <4>2, <4>3
      <4> QED BY <3>2, <4>1, <4>3, <4>4
    <3>3. CASE x = c /\ ci'[c] = <<"lua">> BY <2>2, <3>3
    <3> QED BY <1>8, <3>1, <3>2, <3>3
  <2> QED BY <2>1, <2>2 DEF Continuable
<1>14. TypeOK'
  <2>1. cstack' \in Seq(Entry) /\ Len(cstack') <= MaxDepth
    <3>1. MaxDepth \in Nat BY LimitsAssumption
    <3>2. cstack' = Append(cstack, e) BY <1>0 DEF e
    <3> QED BY <1>0, <1>1, <1>6, <3>1, <3>2
  <2>2. status' \in [Coroutines -> Statuses] BY <1>0, <1>1 DEF Statuses
  <2>3. nny' \in [LuaThreads -> Shorts] /\ nCcalls' \in [LuaThreads -> Shorts]
    BY <1>0, <1>1, <1>4, ShortsAre DEF n
  <2> QED BY <1>0, <1>1, <1>8, <2>1, <2>2, <2>3 DEF TypeOK
<1> QED BY <1>3, <1>7, <1>8, <1>10, <1>11, <1>12, <1>13, <1>14 DEF FramesInv, Frames

\* lua_resume fails before it resumes anything.
LEMMA ResumeErrorFrames ==
  ASSUME FramesInv, NEW t \in LuaThreads, NEW c \in Coroutines, ResumeError(t, c),
         UNCHANGED rules
  PROVE  FramesInv' /\ UNCHANGED <<cstack, ci, status>>
<1>1. /\ nny' = [nny EXCEPT ![c] = 1] /\ nCcalls' = [nCcalls EXCEPT ![c] = nCcalls[t]]
      /\ UNCHANGED <<ci, status, cstack>>
  BY DEF ResumeError
<1>2. nny' \in [LuaThreads -> Shorts] /\ nCcalls' \in [LuaThreads -> Shorts]
  BY <1>1, ShortsAre DEF FramesInv, TypeOK
<1> QED BY <1>1, <1>2 DEF FramesInv, TypeOK

-----------------------------------------------------------------------------
(* Errors *)

\* Where errorJmp of a thread points to.
LEMMA JumpTargetIs ==
  ASSUME FramesInv, NEW t \in LuaThreads, JumpTarget(t) # 0
  PROVE  /\ JumpTarget(t) \in DOMAIN cstack
         /\ cstack[JumpTarget(t)].kind \in {"raw", "res"}
         /\ cstack[JumpTarget(t)].thread = t
         /\ \A i \in DOMAIN cstack : cstack[i].kind \in {"raw", "res"} /\ cstack[i].thread = t
               => i <= JumpTarget(t)
<1> DEFINE S == {0} \cup {i \in DOMAIN cstack : cstack[i].kind \in {"raw", "res"}
                                                   /\ cstack[i].thread = t}
<1>1. cstack \in Seq(Entry) BY DEF FramesInv, TypeOK
<1>2. Len(cstack) \in Nat /\ DOMAIN cstack = 1..Len(cstack) BY <1>1, EntriesAre
<1>3. S \subseteq 0..Len(cstack) /\ S # {} BY <1>2
<1>4. JumpTarget(t) = Max(S) BY DEF JumpTarget
<1> HIDE DEF S
<1>5. JumpTarget(t) \in S /\ \A y \in S : y <= JumpTarget(t) BY <1>2, <1>3, <1>4, MaxIs
<1> QED BY <1>5 DEF S

\* An error is raised in the innermost thread, or by a Java function in the
\* main thread.
Raising(t, s) ==
    /\ cstack # <<>>
    /\ \/ /\ t = Innermost.thread
          /\ \/ s = ci[t]
             \/ s = Append(ci[t], "pcallk") /\ Innermost.kind # "java" /\ nny[t] = 0
       \/ t = Main /\ s = ci[Main]

\* luaD_pcall catches it, or coroutine.resume returns an error, or a pcall
\* that unroll finishes gets it.
LEMMA ThrowIs ==
  ASSUME FramesInv, NEW t \in LuaThreads, NEW s, Raising(t, s), Throw(t, s), UNCHANGED rules
  PROVE  LET j == JumpTarget(t)
         IN  /\ j \in DOMAIN cstack /\ cstack[j].thread = t
             /\ t = Innermost.thread => \A i \in j + 1..Len(cstack) :
                   cstack[i].thread = t /\ cstack[i].kind \in {"call", "java"}
             /\ \/ /\ cstack[j].kind = "raw" /\ EndPcall(t, j, s)
                   /\ Cutting(j - 1, t)
                \/ /\ cstack[j].kind = "res" /\ s = ci[t] /\ EndResume(t, j, s, "dead")
                   /\ Ending(j, t, cstack[j - 1].thread, s, "dead")
                \/ /\ cstack[j].kind = "res"
                   /\ \E k \in DOMAIN s : /\ s[k] = "pcallk" /\ Recover(t, j, s, k)
                                          /\ Continuing(j, t, k - 1)
<1> DEFINE j == JumpTarget(t)
           pcalls == {i \in DOMAIN s : s[i] = "pcallk"}
<1>1. /\ j # 0
      /\ \/ cstack[j].kind = "raw" /\ EndPcall(t, j, s)
         \/ cstack[j].kind = "res" /\ pcalls = {} /\ EndResume(t, j, s, "dead")
         \/ cstack[j].kind = "res" /\ pcalls # {} /\ Recover(t, j, s, Max(pcalls))
  BY DEF Throw
<1>2. /\ cstack \in Seq(Entry) /\ ci \in CiLists
      /\ nny \in [LuaThreads -> Shorts] /\ nCcalls \in [LuaThreads -> Shorts]
      /\ Stacked(cstack) /\ Blocks(cstack, status)
      /\ Layout(cstack, ci) /\ Continuable(ci, status) /\ rules' = rules
  BY DEF FramesInv, Frames, TypeOK
<1>3. Len(cstack) \in Nat /\ DOMAIN cstack = 1..Len(cstack) BY <1>2, EntriesAre
<1>4. /\ j \in DOMAIN cstack /\ cstack[j].kind \in {"raw", "res"} /\ cstack[j].thread = t
      /\ j \in Nat
  BY <1>1, <1>3, JumpTargetIs
<1>5. cstack[j] \in Entry /\ cstack[j].depth \in Nat /\ cstack[j].ny \in Shorts
      /\ cstack[j].cc \in Shorts
  <2> HIDE DEF j
  <2>1. cstack[j] \in Entry BY <1>2, <1>3, <1>4, EntriesAre
  <2> QED BY <2>1 DEF Entry
<1>6. t = Innermost.thread => \A i \in j + 1..Len(cstack) :
         cstack[i].thread = t /\ cstack[i].kind \in {"call", "java"}
  <2>1. SUFFICES ASSUME t = Innermost.thread
                 PROVE  \A i \in j + 1..Len(cstack) :
                           cstack[i].thread = t /\ cstack[i].kind \in {"call", "java"}
    OBVIOUS
  <2>2. j = Max({0} \cup {i \in DOMAIN cstack : cstack[i].kind \in {"raw", "res"}
                                         /\ cstack[i].thread = Last(cstack).thread})
    BY <2>1 DEF JumpTarget, Innermost
  <2>3. cstack # <<>> BY <1>3, <1>4, <1>2, EntriesAre
  <2> HIDE DEF j
  <2>4. \A i \in j + 1..Len(cstack) : /\ cstack[i].thread = Last(cstack).thread
                                       /\ cstack[i].kind \in {"call", "java"}
    BY <1>1, <1>2, <1>4, <2>2, <2>3, JumpIs
  <2> QED BY <2>1, <2>4 DEF Innermost
<1>7. ci[t] \in Seq(CallInfos) /\ Len(ci[t]) \in Nat BY <1>2 DEF CiLists
<1>8. \/ s = ci[t]
      \/ /\ s = Append(ci[t], "pcallk") /\ t = Innermost.thread
         /\ Len(ci[t]) > 0 /\ ci[t][Len(ci[t])] = "lua"
  <2>1. CASE s = ci[t] BY <2>1
  <2>2. CASE s = Append(ci[t], "pcallk") /\ t = Innermost.thread /\ Innermost.kind # "java"
    <3>1. cstack # <<>> BY DEF Raising
    <3>2. ci[t] # <<>> /\ Last(ci[t]) = "lua" BY <2>2, <3>1, TopIs
    <3> QED BY <1>7, <2>2, <3>2 DEF Last
  <2> QED BY <2>1, <2>2 DEF Raising
<1>9. /\ s \in Seq(CallInfos) /\ Len(s) \in Nat /\ Len(s) >= Len(ci[t])
      /\ Len(s) <= Len(ci[t]) + 1
      /\ \A i \in 1..Len(ci[t]) : s[i] = ci[t][i]
      /\ DOMAIN s = 1..Len(s)
  <2>1. "pcallk" \in CallInfos BY DEF CallInfos, CFunctions
  <2> QED BY <1>7, <1>8, <2>1
<1>10. \A d \in 0..Len(ci[t]) : SubSeq(s, 1, d) = SubSeq(ci[t], 1, d)
  BY <1>7, <1>9
<1> HIDE DEF j
<1>11. CASE cstack[j].kind = "raw" /\ EndPcall(t, j, s)
  <2>1. /\ j - 1 \in 0..Len(cstack) - 1 /\ (j - 1) + 1 = j
        /\ j - 1 > 0 => cstack[j - 1].kind # "raw"
    <3>1. j - 1 > 0 => j \in 2..Len(cstack) BY <1>3, <1>4
    <3>2. j - 1 > 0 => cstack[j - 1].kind # "raw" BY <1>2, <1>11, <3>1 DEF Stacked
    <3> QED BY <1>3, <1>4, <3>2
  <2>2. \A i, k \in DOMAIN cstack :
           i <= j - 1 /\ j - 1 < k /\ cstack[i].thread = cstack[k].thread
           => cstack[i].thread = t
    <3>1. ASSUME NEW i \in DOMAIN cstack, NEW k \in DOMAIN cstack,
                 i <= j - 1, j - 1 < k, cstack[i].thread = cstack[k].thread
          PROVE  cstack[i].thread = t
      <4>1. i < j /\ j <= k BY <1>3, <1>4, <3>1
      <4>2. CASE t = Innermost.thread
        <5>1. k = j \/ k \in j + 1..Len(cstack) BY <1>3, <1>4, <4>1
        <5> QED BY <1>4, <1>6, <3>1, <4>2, <5>1
      <4>3. CASE t = Main BY <1>2, <1>4, <3>1, <4>1, <4>3, NotAround
      <4> QED BY <4>2, <4>3 DEF Raising
    <3> QED BY <3>1
  <2>3. cstack[j].depth <= Len(ci[t]) BY <1>2, <1>4 DEF Layout, Depths
  <2>4. SubSeq(s, 1, cstack[j].depth) = SubSeq(ci[t], 1, cstack[j].depth)
    BY <1>5, <1>7, <1>10, <2>3
  <2>5. /\ cstack' = SubSeq(cstack, 1, j - 1)
        /\ ci' = [ci EXCEPT ![t] = SubSeq(ci[t], 1, cstack[j].depth)]
        /\ nny' \in [LuaThreads -> Shorts] /\ nCcalls' \in [LuaThreads -> Shorts]
        /\ UNCHANGED <<status, rules>>
    BY <1>2, <1>5, <1>11, <2>4 DEF EndPcall
  <2>6. Cutting(j - 1, t) BY <1>4, <1>11, <2>1, <2>2, <2>5 DEF Cutting
  <2> QED BY <1>6, <1>4, <1>11, <2>6 DEF j
<1>12. CASE cstack[j].kind = "res" /\ pcalls = {} /\ EndResume(t, j, s, "dead")
  <2>1. s = ci[t]
    <3>1. SUFFICES ASSUME s = Append(ci[t], "pcallk") PROVE FALSE BY <1>8
    <3>2. Len(s) \in DOMAIN s /\ s[Len(s)] = "pcallk" BY <1>7, <3>1
    <3> QED BY <1>12, <3>2
  <2>2. t # Main
    BY <1>2, <1>4, <1>12, ThreadsAssumption DEF Stacked
  <2>3. \A i \in j..Len(cstack) : cstack[i].thread = t
    <3>1. t = Innermost.thread BY <2>2 DEF Raising
    <3>2. ASSUME NEW i \in j..Len(cstack) PROVE cstack[i].thread = t
      <4>1. i = j \/ i \in j + 1..Len(cstack) BY <1>3, <1>4
      <4> QED BY <1>4, <1>6, <3>1, <4>1
    <3> QED BY <3>2
  <2>4. Ending(j, t, cstack[j - 1].thread, s, "dead")
    BY <1>2, <1>4, <1>7, <1>12, <2>1, <2>3 DEF Ending, Statuses
  <2> QED BY <1>6, <1>4, <1>12, <2>1, <2>4 DEF j
<1>13. CASE cstack[j].kind = "res" /\ pcalls # {} /\ Recover(t, j, s, Max(pcalls))
  <2> DEFINE k == Max(pcalls)
  <2>1. k \in DOMAIN s /\ s[k] = "pcallk"
    <3>1. pcalls \subseteq 0..Len(s) /\ pcalls # {} BY <1>9, <1>13
    <3> HIDE DEF pcalls
    <3>2. k \in pcalls BY <1>9, <3>1, MaxIs
    <3> QED BY <3>2 DEF pcalls
  <2>2. Recover(t, j, s, k) BY <1>13
  <2> HIDE DEF k
  <2>3. k - 1 \in 1..Len(ci[t]) /\ ci[t][k - 1] = "lua"
    <3>1. CASE k <= Len(ci[t])
      <4>1. k \in DOMAIN ci[t] /\ ci[t][k] = "pcallk" BY <1>7, <1>9, <2>1, <3>1
      <4>2. k > 1 /\ ci[t][k - 1] = "lua" BY <1>2, <4>1 DEF Continuable
      <4> QED BY <1>7, <4>1, <4>2
    <3>2. CASE k > Len(ci[t])
      <4>1. k = Len(ci[t]) + 1 /\ s # ci[t] BY <1>7, <1>9, <2>1, <3>2
      <4>2. Len(ci[t]) > 0 /\ ci[t][Len(ci[t])] = "lua" BY <1>8, <4>1
      <4>3. k - 1 = Len(ci[t]) BY <1>7, <4>1
      <4> QED BY <1>7, <4>2, <4>3
    <3> QED BY <1>7, <1>9, <2>1, <3>1, <3>2
  <2>4. t # Main
    BY <1>2, <1>4, <1>13, ThreadsAssumption DEF Stacked
  <2>5. \A i \in j..Len(cstack) : cstack[i].thread = t
    <3>1. t = Innermost.thread BY <2>4 DEF Raising
    <3>2. ASSUME NEW i \in j..Len(cstack) PROVE cstack[i].thread = t
      <4>1. i = j \/ i \in j + 1..Len(cstack) BY <1>3, <1>4
      <4> QED BY <1>4, <1>6, <3>1, <4>1
    <3> QED BY <3>2
  <2>6. SubSeq(s, 1, k - 1) = SubSeq(ci[t], 1, k - 1) BY <1>7, <1>10, <2>3
  <2>7. /\ cstack' = SubSeq(cstack, 1, j)
        /\ ci' = [ci EXCEPT ![t] = SubSeq(ci[t], 1, k - 1)]
        /\ nny' \in [LuaThreads -> Shorts] /\ nCcalls' \in [LuaThreads -> Shorts]
        /\ UNCHANGED <<status, rules>>
    <3>1. cstack[j].cc - 1 \in Int BY <1>5 DEF Shorts
    <3>2. Wrapped(cstack[j].cc - 1) \in Shorts BY <3>1, WrappedIs
    <3> QED BY <1>2, <2>2, <2>6, <3>2, ShortsAre DEF Recover
  <2>8. Continuing(j, t, k - 1)
    BY <1>4, <1>13, <2>3, <2>5, <2>7 DEF Continuing
  <2> QED BY <1>6, <1>4, <1>13, <2>1, <2>2, <2>8 DEF j
<1> QED BY <1>6, <1>1, <1>11, <1>12, <1>13 DEF j

\* What the innermost entry that goes away leaves.
Popping(m, t) ==
    /\ Cutting(m, t)
    /\ \/ m = Len(cstack) - 1
       \/ m = Len(cstack) - 2 /\ cstack[m + 1].kind = "raw"
    /\ \A i \in m + 1..Len(cstack) : cstack[i].thread = t

\* A function called by luaD_call returns; so does the C function that called
\* luaD_call, as what was there before it was not a C function's.
LEMMA ReturnIs ==
  ASSUME FramesInv, NEW t \in LuaThreads, Return(t), UNCHANGED rules
  PROVE  LET raw == Len(cstack) > 1 /\ cstack[Len(cstack) - 1].kind = "raw"
         IN  Popping(Len(cstack) - (IF raw THEN 2 ELSE 1), t)
<1> DEFINE n == Len(cstack)
           s == Front(ci[t])
           raw == n > 1 /\ cstack[n - 1].kind = "raw"
           m == n - (IF raw THEN 2 ELSE 1)
           d == cstack[m + 1].depth
<1>0. /\ InLua(t) /\ Innermost.kind = "call"
      /\ cstack' = SubSeq(cstack, 1, m)
      /\ ci' = [ci EXCEPT ![t] = IF s # <<>> /\ Last(s) \in {"ccall", "pcallk", "pcallc"}
                                 THEN Front(s) ELSE s]
      /\ nny' = [nny EXCEPT ![t] = Wrapped(@ - Innermost.ny)]
      /\ nCcalls' = [nCcalls EXCEPT ![t] = IF raw THEN cstack[m + 1].cc ELSE Wrapped(@ - 1)]
      /\ status' = status /\ rules' = rules
  BY DEF Return
<1>1. /\ cstack \in Seq(Entry) /\ ci \in CiLists
      /\ nny \in [LuaThreads -> Shorts] /\ nCcalls \in [LuaThreads -> Shorts]
      /\ Stacked(cstack) /\ Blocks(cstack, status)
      /\ Layout(cstack, ci)
  BY DEF FramesInv, Frames, TypeOK
<1>2. /\ cstack # <<>> /\ t = Innermost.thread BY <1>0 DEF InLua
<1>3. /\ n \in Nat /\ n > 0 /\ DOMAIN cstack = 1..n /\ Innermost = cstack[n]
      /\ \A i \in 1..n : cstack[i] \in Entry /\ cstack[i].depth \in Nat
  BY <1>1, <1>2, EntriesAre DEF Innermost
<1>4. /\ cstack[n].kind = "call" /\ cstack[n].thread = t
      /\ Shape(cstack[n], ci[t], Len(ci[t]), FALSE)
      /\ ci[t] \in Seq(CallInfos)
  BY <1>0, <1>2, <1>3, TopIs
<1> DEFINE p == cstack[n].depth
<1>5. /\ Len(ci[t]) \in Nat /\ p \in Nat /\ Len(ci[t]) > 0
      /\ \/ /\ Len(ci[t]) = p + 1
            /\ p > 0 => ci[t][p] \notin CFunctions
         \/ Len(ci[t]) = p + 2 /\ ci[t][p + 1] \in CFunctions
  BY <1>3, <1>4 DEF Shape
<1> HIDE DEF n, m, d, p
<1>6. (IF s # <<>> /\ Last(s) \in {"ccall", "pcallk", "pcallc"} THEN Front(s) ELSE s)
         = SubSeq(ci[t], 1, p)
  <2>1. s = SubSeq(ci[t], 1, Len(ci[t]) - 1) BY DEF Front
  <2>2. /\ s \in Seq(CallInfos) /\ Len(s) = Len(ci[t]) - 1
        /\ \A i \in 1..Len(s) : s[i] = ci[t][i]
    BY <1>4, <1>5, <2>1
  <2> HIDE DEF s
  <2>3. s # <<>> => Last(s) = ci[t][Len(s)] /\ Front(s) = SubSeq(s, 1, Len(s) - 1)
    BY <2>2 DEF Last, Front
  <2>4. CASE Len(ci[t]) = p + 1 /\ (p > 0 => ci[t][p] \notin CFunctions)
    <3>1. s # <<>> => Last(s) \notin CFunctions BY <1>5, <2>2, <2>3, <2>4
    <3>2. s = SubSeq(ci[t], 1, p) BY <1>5, <2>1, <2>4
    <3> QED BY <3>1, <3>2 DEF CFunctions
  <2>5. CASE Len(ci[t]) = p + 2 /\ ci[t][p + 1] \in CFunctions
    <3>1. Len(s) = p + 1 /\ s # <<>> BY <1>5, <2>2, <2>5
    <3>2. Last(s) \in CFunctions BY <2>3, <2>5, <3>1
    <3>3. Front(s) = SubSeq(s, 1, p) BY <1>5, <2>3, <3>1
    <3>4. SubSeq(s, 1, p) = SubSeq(ci[t], 1, p) BY <1>4, <1>5, <2>2, <3>1
    <3> QED BY <3>1, <3>2, <3>3, <3>4 DEF CFunctions
  <2> QED BY <1>5, <2>4, <2>5
<1>7. /\ \/ m = n - 1
         \/ m = n - 2 /\ cstack[m + 1].kind = "raw"
      /\ m \in 0..n - 1
      /\ m + 1 \in 1..n /\ t = cstack[m + 1].thread /\ cstack[m + 1].kind # "res"
      /\ m > 0 => cstack[m].kind # "raw"
      /\ d = p
  <2>1. CASE raw
    <3>1. n - 1 \in 1..n /\ n \in 2..n /\ m = n - 2 /\ m + 1 = n - 1
      BY <1>3, <2>1 DEF m
    <3>2. cstack[n - 1].thread = t BY <1>1, <1>4, <3>1 DEF Stacked, n
    <3>3. m > 0 => cstack[m].kind # "raw"
      <4>1. SUFFICES ASSUME m > 0 PROVE cstack[m].kind # "raw" OBVIOUS
      <4>2. n - 1 \in 2..n /\ (n - 1) - 1 = m BY <1>3, <3>1, <4>1
      <4>3. cstack[n - 1].kind = "raw" => cstack[(n - 1) - 1].kind # "raw"
        BY <1>1, <4>2 DEF Stacked, n
      <4> QED BY <2>1, <4>2, <4>3
    <3>4. cstack[n - 1].depth = p
      <4>1. Consecutive(cstack, n - 1, n) BY <1>3, <1>4, <3>1, <3>2 DEF Consecutive
      <4>2. Resuming(cstack, n - 1) = FALSE BY <1>3, <1>4, <3>1 DEF Resuming
      <4>3. Shape(cstack[n - 1], ci[t], p, FALSE)
        <5>1. n - 1 \in DOMAIN cstack /\ n \in DOMAIN cstack BY <1>3, <3>1
        <5>2. Shape(cstack[n - 1], ci[cstack[n - 1].thread], cstack[n].depth,
                    Resuming(cstack, n - 1))
          BY <1>1, <4>1, <5>1 DEF Layout, Between
        <5> QED BY <3>2, <4>2, <5>2 DEF p
      <4> QED BY <2>1, <4>3 DEF Shape
    <3> QED BY <1>3, <2>1, <3>1, <3>2, <3>3, <3>4 DEF d
  <2>2. CASE ~raw
    <3>1. m = n - 1 /\ m + 1 = n BY <1>3, <2>2 DEF m
    <3>2. m > 0 => cstack[m].kind # "raw" BY <1>3, <2>2, <3>1
    <3> QED BY <1>3, <1>4, <3>1, <3>2 DEF d, p
  <2> QED BY <2>1, <2>2
<1>8. \A k \in m + 1..n : cstack[k].thread = t
  <2>1. ASSUME NEW k \in m + 1..n PROVE cstack[k].thread = t
    <3>1. k = n \/ k = m + 1 BY <1>3, <1>7, <2>1
    <3> QED BY <1>4, <1>7, <3>1
  <2> QED BY <2>1
<1>11. \A i, k \in DOMAIN cstack :
         i <= m /\ m < k /\ cstack[i].thread = cstack[k].thread => cstack[i].thread = t
  BY <1>3, <1>7, <1>8
<1>9. nny' \in [LuaThreads -> Shorts] /\ nCcalls' \in [LuaThreads -> Shorts]
  <2>1. cstack[n] \in Entry /\ cstack[m + 1] \in Entry BY <1>3, <1>7
  <2>2. Innermost.ny \in Shorts /\ cstack[m + 1].cc \in Shorts BY <1>3, <2>1 DEF Entry
  <2>3. nny[t] - Innermost.ny \in Int /\ nCcalls[t] - 1 \in Int
    BY <1>1, <2>2 DEF Shorts
  <2>4. Wrapped(nny[t] - Innermost.ny) \in Shorts /\ Wrapped(nCcalls[t] - 1) \in Shorts
    BY <2>3, WrappedIs
  <2> QED BY <1>0, <1>1, <2>2, <2>4
<1>10. Cutting(m, t)
  <2>1. ci' = [ci EXCEPT ![t] = SubSeq(ci[t], 1, cstack[m + 1].depth)]
    BY <1>0, <1>6, <1>7 DEF d
  <2> QED BY <1>0, <1>7, <1>11, <1>9, <2>1 DEF Cutting, n
<1> QED BY <1>7, <1>8, <1>10 DEF Popping, m, n

\* A Java function returns.
LEMMA JavaReturnIs ==
  ASSUME FramesInv, JavaReturn, UNCHANGED rules
  PROVE  Popping(Len(cstack) - 1, Innermost.thread)
<1> DEFINE n == Len(cstack)
           m == n - 1
           t == Innermost.thread
<1>0. /\ cstack # <<>> /\ Innermost.kind = "java"
      /\ cstack' = Front(cstack)
      /\ ci' = [ci EXCEPT ![t] = Front(ci[t])]
      /\ UNCHANGED <<status, nny, nCcalls, rules>>
  BY DEF JavaReturn
<1>1. /\ cstack \in Seq(Entry) /\ ci \in CiLists
      /\ nny \in [LuaThreads -> Shorts] /\ nCcalls \in [LuaThreads -> Shorts]
      /\ Stacked(cstack)
  BY DEF FramesInv, Frames, TypeOK
<1>2. /\ n \in Nat /\ n > 0 /\ DOMAIN cstack = 1..n /\ Innermost = cstack[n]
      /\ \A i \in 1..n : cstack[i] \in Entry /\ cstack[i].depth \in Nat
  <2>1. cstack # <<>> BY <1>0
  <2> QED BY <1>1, <2>1, EntriesAre DEF Innermost
<1>3. /\ t \in LuaThreads /\ ci[t] \in Seq(CallInfos)
      /\ Shape(cstack[n], ci[t], Len(ci[t]), FALSE)
  BY <1>0, <1>2, TopIs
<1>4. Len(ci[t]) = cstack[n].depth + 1 BY <1>0, <1>2, <1>3 DEF Shape
<1> HIDE DEF n, t
<1>5. Front(ci[t]) = SubSeq(ci[t], 1, cstack[n].depth)
  BY <1>2, <1>3, <1>4 DEF Front
<1>6. /\ cstack' = SubSeq(cstack, 1, m) /\ m \in 0..n - 1 /\ m + 1 = n
      /\ m > 0 => cstack[m].kind # "raw"
  <2>1. m > 0 => n \in 2..n BY <1>2
  <2>2. m > 0 => cstack[n - 1].kind \in {"call", "res"}
    BY <1>0, <1>1, <1>2, <2>1 DEF Stacked, n
  <2> QED BY <1>0, <1>2, <2>2 DEF Front, n
<1>7. \A i, k \in DOMAIN cstack :
         i <= m /\ m < k /\ cstack[i].thread = cstack[k].thread => cstack[i].thread = t
  <2>1. ASSUME NEW k \in DOMAIN cstack, m < k PROVE k = n BY <1>2, <2>1
  <2> QED BY <1>2, <2>1 DEF t
<1>8. Cutting(m, t)
  <2>1. t = cstack[m + 1].thread /\ cstack[m + 1].kind # "res"
    BY <1>0, <1>2, <1>6 DEF t
  <2>2. ci' = [ci EXCEPT ![t] = SubSeq(ci[t], 1, cstack[m + 1].depth)]
    BY <1>0, <1>5, <1>6
  <2> HIDE DEF m
  <2> QED BY <1>0, <1>1, <1>6, <1>7, <2>1, <2>2 DEF Cutting, n
<1>9. \A i \in m + 1..n : cstack[i].thread = t
  <2>1. \A i \in n..n : i = n BY <1>2
  <2> QED BY <1>2, <1>6, <2>1 DEF t
<1> QED BY <1>8, <1>9 DEF Popping, n, t

-----------------------------------------------------------------------------
(* Coroutines end, go on and yield *)

\* unroll finishes a function: the coroutine ends, an interrupted instruction
\* goes on, or an interrupted pcall returns.
LEMMA UnrollIs ==
  ASSUME FramesInv, NEW c \in Coroutines, Unroll(c), UNCHANGED rules
  PROVE  LET n == Len(cstack)
         IN  \/ /\ EndResume(c, n, <<>>, "dead")
                /\ Ending(n, c, cstack[n - 1].thread, <<>>, "dead")
             \/ /\ cstack' = cstack /\ nny' = nny
                /\ \E h \in Nat : Continuing(n, c, h)
<1> DEFINE n == Len(cstack)
           s == Front(ci[c])
<1>0. /\ InLua(c) /\ Innermost.kind = "res"
      /\ \/ s = <<>> /\ EndResume(c, n, s, "dead")
         \/ /\ s # <<>> /\ Last(s) = "lua"
            /\ ci' = [ci EXCEPT ![c] = s]
            /\ UNCHANGED <<status, nny, nCcalls, cstack>>
         \/ /\ s # <<>> /\ Last(s) = "pcallk"
            /\ ci' = [ci EXCEPT ![c] = Front(s)]
            /\ nCcalls' = [nCcalls EXCEPT ![c] = Wrapped(@ - 1)]
            /\ UNCHANGED <<status, nny, cstack>>
  BY DEF Unroll
<1>1. /\ cstack \in Seq(Entry) /\ ci \in CiLists
      /\ nny \in [LuaThreads -> Shorts] /\ nCcalls \in [LuaThreads -> Shorts]
      /\ Continuable(ci, status) /\ rules' = rules
  BY DEF FramesInv, Frames, TypeOK
<1>2. cstack # <<>> /\ c = Innermost.thread BY <1>0 DEF InLua
<1>3. /\ n \in Nat /\ n > 0 /\ DOMAIN cstack = 1..n /\ Innermost = cstack[n]
  BY <1>1, <1>2, EntriesAre DEF Innermost
<1>4. c \in LuaThreads BY DEF LuaThreads
<1>5. ci[c] \in Seq(CallInfos) /\ Len(ci[c]) \in Nat /\ Len(ci[c]) > 0
  <2>1. ci[c] # <<>> BY <1>2, TopIs
  <2>2. ci[c] \in Seq(CallInfos) BY <1>1, <1>4 DEF CiLists
  <2> QED BY <2>1, <2>2
<1>6. /\ s = SubSeq(ci[c], 1, Len(ci[c]) - 1)
      /\ s \in Seq(CallInfos) /\ Len(s) = Len(ci[c]) - 1
      /\ \A i \in 1..Len(s) : s[i] = ci[c][i]
  BY <1>5 DEF Front
<1> HIDE DEF n, s
<1>7. \A i \in n..Len(cstack) : cstack[i].thread = c
  <2>1. \A i \in n..n : i = n BY <1>3
  <2>2. Len(cstack) = n BY DEF n
  <2> QED BY <1>2, <1>3, <2>1, <2>2
<1>8. n \in DOMAIN cstack /\ cstack[n].kind = "res" /\ cstack[n].thread = c
  BY <1>0, <1>2, <1>3
<1>9. cstack = SubSeq(cstack, 1, n) BY <1>1 DEF n
<1>10. CASE s = <<>> /\ EndResume(c, n, s, "dead")
  <2>1. Len(<<>>) <= Len(ci[c]) /\ \A i \in 1..Len(<<>>) : <<>>[i] = ci[c][i]
    BY <1>5
  <2>2. EndResume(c, n, <<>>, "dead") BY <1>10
  <2>3. <<>> \in Seq(CallInfos) /\ "dead" \in Statuses \ {"running"} BY DEF Statuses
  <2>4. Ending(n, c, cstack[n - 1].thread, <<>>, "dead")
    BY <1>1, <1>7, <1>8, <2>1, <2>2, <2>3 DEF Ending
  <2> QED BY <2>2, <2>4 DEF n
<1>11. CASE /\ s # <<>> /\ Last(s) = "lua"
            /\ ci' = [ci EXCEPT ![c] = s]
            /\ UNCHANGED <<status, nny, nCcalls, cstack>>
  <2> DEFINE h == Len(ci[c]) - 1
  <2>1. h \in 1..Len(ci[c]) /\ h \in Nat /\ ci[c][h] = "lua"
    <3>1. Len(s) > 0 BY <1>5, <1>6, <1>11
    <3>2. Last(s) = s[Len(s)] BY DEF Last
    <3> QED BY <1>5, <1>6, <1>11, <3>1, <3>2
  <2>2. ci' = [ci EXCEPT ![c] = SubSeq(ci[c], 1, h)] BY <1>6, <1>11
  <2> HIDE DEF h
  <2>3. Continuing(n, c, h) BY <1>1, <1>7, <1>8, <1>9, <1>11, <2>1, <2>2 DEF Continuing
  <2> QED BY <1>11, <2>1, <2>3 DEF n
<1>12. CASE /\ s # <<>> /\ Last(s) = "pcallk"
            /\ ci' = [ci EXCEPT ![c] = Front(s)]
            /\ nCcalls' = [nCcalls EXCEPT ![c] = Wrapped(@ - 1)]
            /\ UNCHANGED <<status, nny, cstack>>
  <2> DEFINE h == Len(ci[c]) - 2
  <2>1. h \in 1..Len(ci[c]) /\ h \in Nat /\ ci[c][h] = "lua"
    <3>1. Len(s) > 0 BY <1>5, <1>6, <1>12
    <3>2. Last(s) = s[Len(s)] BY DEF Last
    <3>3. Len(s) \in DOMAIN ci[c] /\ ci[c][Len(s)] = "pcallk"
      BY <1>5, <1>6, <1>12, <3>1, <3>2
    <3>4. Len(s) > 1 /\ ci[c][Len(s) - 1] = "lua"
      BY <1>1, <1>4, <3>3 DEF Continuable
    <3> QED BY <1>5, <1>6, <3>4
  <2>2. Front(s) = SubSeq(ci[c], 1, h)
    <3>1. Front(s) = SubSeq(s, 1, h) BY <1>5, <1>6 DEF Front
    <3> QED BY <1>5, <1>6, <2>1, <3>1
  <2>3. ci' = [ci EXCEPT ![c] = SubSeq(ci[c], 1, h)] BY <1>12, <2>2
  <2> HIDE DEF h
  <2>4. nny' \in [LuaThreads -> Shorts] /\ nCcalls' \in [LuaThreads -> Shorts]
    <3>1. nCcalls[c] - 1 \in Int BY <1>1, <1>4 DEF Shorts
    <3>2. Wrapped(nCcalls[c] - 1) \in Shorts BY <3>1, WrappedIs
    <3> QED BY <1>1, <1>12, <3>2
  <2>5. Continuing(n, c, h)
    BY <1>1, <1>7, <1>8, <1>9, <1>12, <2>1, <2>3, <2>4 DEF Continuing
  <2> QED BY <1>12, <2>1, <2>5 DEF n
<1> QED BY <1>0, <1>10, <1>11, <1>12

\* The part of the C stack that a coroutine has used is given up.
LEMMA YieldIs ==
  ASSUME FramesInv, NEW c \in Coroutines, Yield(c), UNCHANGED rules
  PROVE  LET j == JumpTarget(c)
         IN  /\ EndResume(c, j, ci[c], "suspended")
             /\ Ending(j, c, cstack[j - 1].thread, ci[c], "suspended")
             /\ Last(ci[c]) = "lua"
             /\ nny[c] = 0
<1> DEFINE j == JumpTarget(c)
<1>0. /\ InLua(c) /\ cstack[j].kind = "res" /\ EndResume(c, j, ci[c], "suspended")
      /\ nny[c] = 0
  BY DEF Yield
<1>1. /\ cstack \in Seq(Entry) /\ ci \in CiLists
      /\ Stacked(cstack) /\ Blocks(cstack, status) /\ rules' = rules
  BY DEF FramesInv, Frames, TypeOK
<1>2. cstack # <<>> /\ c = Innermost.thread /\ Innermost.kind # "java"
  BY <1>0 DEF InLua
<1>3. /\ Len(cstack) \in Nat /\ Len(cstack) > 0 /\ DOMAIN cstack = 1..Len(cstack)
      /\ Innermost = cstack[Len(cstack)]
  BY <1>1, <1>2, EntriesAre DEF Innermost
<1>4. c \in LuaThreads BY DEF LuaThreads
<1>5. j # 0
  <2>1. Len(cstack) \in DOMAIN cstack /\ cstack[Len(cstack)].thread \in Coroutines
    BY <1>2, <1>3
  <2>2. PICK k \in 1..Len(cstack) : cstack[k].kind = "res" /\ cstack[k].thread = c
    BY <1>1, <1>2, <1>3, <2>1 DEF Blocks
  <2> DEFINE S == {0} \cup {i \in DOMAIN cstack : cstack[i].kind \in {"raw", "res"}
                                                     /\ cstack[i].thread = c}
  <2>3. S \subseteq 0..Len(cstack) /\ S # {} /\ k \in S BY <1>3, <2>2
  <2>4. j = Max(S) BY DEF JumpTarget
  <2> HIDE DEF S, j
  <2>5. k <= j /\ j \in S BY <1>3, <2>3, <2>4, MaxIs
  <2> QED BY <1>3, <2>2, <2>3, <2>5
<1>6. j \in DOMAIN cstack /\ cstack[j].thread = c /\ j \in Nat
  BY <1>3, <1>4, <1>5, JumpTargetIs
<1>7. \A i \in j..Len(cstack) : cstack[i].thread = c
  <2>1. j = Max({0} \cup {i \in DOMAIN cstack : cstack[i].kind \in {"raw", "res"}
                                         /\ cstack[i].thread = Last(cstack).thread})
    BY <1>2 DEF JumpTarget, Innermost
  <2> HIDE DEF j
  <2>2. \A i \in j + 1..Len(cstack) : cstack[i].thread = Last(cstack).thread
    BY <1>1, <1>2, <1>5, <1>6, <2>1, JumpIs
  <2>3. ASSUME NEW i \in j..Len(cstack) PROVE cstack[i].thread = c
    <3>1. i = j \/ i \in j + 1..Len(cstack) BY <1>3, <1>6
    <3> QED BY <1>2, <1>6, <2>2, <3>1 DEF Innermost
  <2> QED BY <2>3
<1>8. /\ ci[c] \in Seq(CallInfos) /\ ci[c] # <<>> /\ Last(ci[c]) = "lua"
  BY <1>2, TopIs
<1>9. Ending(j, c, cstack[j - 1].thread, ci[c], "suspended")
  <2>1. "suspended" \in Statuses \ {"running"} BY DEF Statuses
  <2> QED BY <1>0, <1>1, <1>6, <1>7, <1>8, <2>1 DEF Ending
<1> QED BY <1>0, <1>8, <1>9

-----------------------------------------------------------------------------
(* The frames of the C stack *)

\* An error is raised.  Without "protected" a Java function may raise one in
\* the main thread though a coroutine called it.
Raises == \E t \in LuaThreads : \E s :
    /\ Raising(t, s) /\ Throw(t, s)
    /\ "protected" \in rules => t = Innermost.thread

\* Every step is one of these.
LEMMA NextIs ==
  ASSUME FramesInv, Step
  PROVE  \/ Raises \/ JavaPcall \/ JavaReturn
         \/ \E t \in LuaThreads : \/ JavaCall(t) \/ Pcall(t) \/ CallBack(t)
                                  \/ Metamethod(t) \/ Return(t)
                                  \/ \E c \in Coroutines : Resume(t, c) \/ ResumeError(t, c)
         \/ \E c \in Coroutines : Unroll(c) \/ Yield(c)
<1>1. CASE JavaThrow
  <2>1. cstack # <<>> /\ Throw(Innermost.thread, ci[Innermost.thread])
    BY <1>1 DEF JavaThrow
  <2>2. Innermost.thread \in LuaThreads BY <2>1, TopIs
  <2>3. Raising(Innermost.thread, ci[Innermost.thread]) BY <2>1 DEF Raising
  <2> QED BY <2>1, <2>2, <2>3 DEF Raises
<1>2. CASE JavaFail
  <2>1. cstack # <<>> /\ Throw(Main, ci[Main]) /\ "protected" \notin rules
    BY <1>2 DEF JavaFail
  <2>2. Main \in LuaThreads BY DEF LuaThreads
  <2>3. Raising(Main, ci[Main]) BY <2>1 DEF Raising
  <2> QED BY <2>1, <2>2, <2>3 DEF Raises
<1>3. ASSUME NEW t \in LuaThreads, CallTooDeep(t) PROVE Raises
  <2>1. /\ InLua(t)
        /\ \/ Throw(t, ci[t])
           \/ nny[t] = 0 /\ Throw(t, Append(ci[t], "pcallk"))
    BY <1>3 DEF CallTooDeep
  <2>2. /\ Raising(t, ci[t]) /\ t = Innermost.thread
        /\ nny[t] = 0 => Raising(t, Append(ci[t], "pcallk"))
    BY <2>1 DEF InLua, Raising
  <2> QED BY <2>1, <2>2 DEF Raises
<1>4. ASSUME NEW t \in LuaThreads, Error(t) PROVE Raises
  <2>1. InLua(t) /\ Throw(t, ci[t]) BY <1>4 DEF Error
  <2>2. Raising(t, ci[t]) /\ t = Innermost.thread BY <2>1 DEF InLua, Raising
  <2> QED BY <2>1, <2>2 DEF Raises
<1> QED BY <1>1, <1>2, <1>3, <1>4 DEF Step

\* Nothing is running yet.
LEMMA FramesInit == Init => FramesInv
<1> SUFFICES ASSUME Init PROVE FramesInv OBVIOUS
<1>1. /\ rules \subseteq AllRules /\ cstack = <<>>
      /\ ci = [t \in LuaThreads |-> <<>>]
      /\ status = [c \in Coroutines |-> "new"]
      /\ nny = [t \in LuaThreads |-> 1] /\ nCcalls = [t \in LuaThreads |-> 0]
  BY CoroutineRulesAssumption DEF Init
<1>2. TypeOK
  <2>1. cstack \in Seq(Entry) /\ Len(cstack) = 0 BY <1>1
  <2>2. MaxDepth \in Nat BY LimitsAssumption
  <2> QED BY <1>1, <2>1, <2>2, ShortsAre DEF TypeOK, CiLists, Statuses
<1>3. DOMAIN cstack = {} /\ 2..Len(cstack) = {} BY <1>1
<1>4. Stacked(cstack) /\ TopCalled(cstack) /\ Blocks(cstack, status)
  BY <1>1, <1>3 DEF Stacked, TopCalled, Blocks
<1>5. Layout(cstack, ci)
  <2>1. Main \in LuaThreads BY DEF LuaThreads
  <2> QED BY <1>1, <1>3, <2>1 DEF Layout, Between, OnTop, Depths
<1>6. Continuable(ci, status)
  <2>1. \A t \in LuaThreads : DOMAIN ci[t] = {} BY <1>1
  <2> QED BY <1>1, <2>1 DEF Continuable
<1> QED BY <1>2, <1>4, <1>5, <1>6 DEF FramesInv, Frames

\* Every step keeps the C stack and the CallInfos in step with each other.
LEMMA FramesStep == FramesInv /\ [Next]_vars => FramesInv'
<1> SUFFICES ASSUME FramesInv, [Next]_vars PROVE FramesInv' OBVIOUS
<1>1. CASE UNCHANGED vars
  BY <1>1 DEF vars, moving, FramesInv, TypeOK
<1>2. CASE Step /\ UNCHANGED rules
  <2>1. CASE Raises
    <3>1. PICK t \in LuaThreads : \E s : Raising(t, s) /\ Throw(t, s)
      BY <2>1 DEF Raises
    <3>2. PICK s : Raising(t, s) /\ Throw(t, s) BY <3>1
    <3> DEFINE j == JumpTarget(t)
    <3>3. \/ Cutting(j - 1, t)
          \/ Ending(j, t, cstack[j - 1].thread, s, "dead")
          \/ \E k \in DOMAIN s : Continuing(j, t, k - 1)
      BY <1>2, <3>2, ThrowIs
    <3> HIDE DEF j
    <3> QED BY <3>3, CutFrames, EndFrames, ContinueFrames
  <2>2. CASE JavaPcall
    <3>1. Main \in LuaThreads BY DEF LuaThreads
    <3> QED BY <1>2, <2>2, <3>1, DoPcallFrames DEF JavaPcall
  <2>3. CASE JavaReturn
    BY <1>2, <2>3, JavaReturnIs, CutFrames DEF Popping
  <2>4. ASSUME NEW t \in LuaThreads, JavaCall(t) PROVE FramesInv'
    BY <1>2, <2>4, JavaCallFrames
  <2>5. ASSUME NEW t \in LuaThreads, Pcall(t) PROVE FramesInv'
    <3>1. InLua(t) BY <2>5 DEF Pcall
    <3>2. CASE DoCall(t, Append(ci[t], "pcallk"), <<>>, 0)
      <4>1. "pcallk" \in CFunctions /\ 0 \in {0, 1} BY DEF CFunctions
      <4> QED BY <1>2, <3>1, <3>2, <4>1, DoCallFrames
    <3>3. CASE DoCall(t, Append(ci[t], "pcallc"),
                      <<Raw(t, nCcalls[t], nny[t], Len(ci[t]))>>, 1)
      BY <1>2, <3>1, <3>3, DoPcallFrames
    <3> QED BY <2>5, <3>2, <3>3 DEF Pcall
  <2>6. ASSUME NEW t \in LuaThreads, CallBack(t) PROVE FramesInv'
    <3>1. InLua(t) /\ DoCall(t, Append(ci[t], "ccall"), <<>>, 1) BY <2>6 DEF CallBack
    <3>2. "ccall" \in CFunctions /\ 1 \in {0, 1} BY DEF CFunctions
    <3> QED BY <1>2, <3>1, <3>2, DoCallFrames
  <2>7. ASSUME NEW t \in LuaThreads, Metamethod(t) PROVE FramesInv'
    <3>1. InLua(t) /\ DoCall(t, ci[t], <<>>, 0) BY <2>7 DEF Metamethod
    <3> QED BY <1>2, <3>1, DoCallFrames
  <2>8. ASSUME NEW t \in LuaThreads, Return(t) PROVE FramesInv'
    BY <1>2, <2>8, ReturnIs, CutFrames DEF Popping
  <2>9. ASSUME NEW t \in LuaThreads, NEW c \in Coroutines, Resume(t, c) PROVE FramesInv'
    BY <1>2, <2>9, ResumeFrames
  <2>10. ASSUME NEW t \in LuaThreads, NEW c \in Coroutines, ResumeError(t, c)
         PROVE  FramesInv'
    BY <1>2, <2>10, ResumeErrorFrames
  <2>11. ASSUME NEW c \in Coroutines, Unroll(c) PROVE FramesInv'
    <3> DEFINE n == Len(cstack)
    <3>1. \/ Ending(n, c, cstack[n - 1].thread, <<>>, "dead")
          \/ \E h \in Nat : Continuing(n, c, h)
      BY <1>2, <2>11, UnrollIs
    <3> HIDE DEF n
    <3> QED BY <3>1, EndFrames, ContinueFrames
  <2>12. ASSUME NEW c \in Coroutines, Yield(c) PROVE FramesInv'
    <3> DEFINE j == JumpTarget(c)
    <3>1. Ending(j, c, cstack[j - 1].thread, ci[c], "suspended")
      BY <1>2, <2>12, YieldIs
    <3> HIDE DEF j
    <3> QED BY <3>1, EndFrames
  <2> QED BY <1>2, <2>1, <2>2, <2>3, <2>4, <2>5, <2>6, <2>7, <2>8, <2>9, <2>10, <2>11,
             <2>12, NextIs
<1> QED BY <1>1, <1>2 DEF Next

\* In every state the threads' CallInfos and the C stack fit together: each
\* entry of the C stack has the CallInfos of what it runs where its depth says,
\* no coroutine is on the C stack twice, and what waits there waits for what is
\* above it.
THEOREM CStackFits == Spec => []FramesInv
BY FramesInit, FramesStep, PTL DEF Spec

-----------------------------------------------------------------------------
(***************************************************************************)
(* What the C stack and the CallInfos count: calls that do not allow a     *)
(* yield, and coroutines that are resumed.  From the frames above follow   *)
(* the invariants that the runs of Coroutines check.                       *)
(***************************************************************************)

Positive == Nat \ {0}

\* How many of the positions S there are up to n.
UpTo(S, n) == Cardinality({k \in S : k <= n})

\* The calls of thread t that do not allow a yield.
NyCalls(cs, t) ==
    {k \in DOMAIN cs : cs[k].kind = "call" /\ cs[k].thread = t /\ cs[k].ny = 1}

\* The coroutines that thread t has resumed and waits for.
ResOver(cs, t) == {k \in 2..Len(cs) : cs[k].kind = "res" /\ cs[k - 1].thread = t}

\* The same in its CallInfos.
Resumes(s) == {k \in DOMAIN s : s[k] = "resume"}

-----------------------------------------------------------------------------
(* Counting *)

\* There are at most n of them.
LEMMA CountIs ==
  ASSUME NEW S, S \subseteq Positive, NEW n \in Nat
  PROVE  /\ UpTo(S, n) \in Nat /\ UpTo(S, n) <= n
         /\ IsFiniteSet({k \in S : k <= n})
<1>0. \A k \in S : k \in Int /\ k >= 1 BY DEF Positive
<1>1. IsFiniteSet(1..n) /\ Cardinality(1..n) = n BY FS_Interval
<1>2. {k \in S : k <= n} \in SUBSET (1..n) BY <1>0
<1>3. /\ IsFiniteSet({k \in S : k <= n})
      /\ Cardinality({k \in S : k <= n}) <= n
  BY <1>1, <1>2, FS_Subset
<1>4. Cardinality({k \in S : k <= n}) \in Nat BY <1>3, FS_CardinalityType
<1> QED BY <1>3, <1>4 DEF UpTo

\* One position further.
LEMMA CountNext ==
  ASSUME NEW S, S \subseteq Positive, NEW n \in Nat
  PROVE  UpTo(S, n + 1) = UpTo(S, n) + (IF n + 1 \in S THEN 1 ELSE 0)
<1> DEFINE T == {k \in S : k <= n}
           U == {k \in S : k <= n + 1}
<1>0. \A k \in S : k \in Int /\ k >= 1 BY DEF Positive
<1>1. IsFiniteSet(T) BY CountIs
<1>2. CASE n + 1 \in S
  <2>1. U = T \cup {n + 1} BY <1>0, <1>2
  <2>2. n + 1 \notin T OBVIOUS
  <2> HIDE DEF T, U
  <2>3. Cardinality(T \cup {n + 1}) = Cardinality(T) + 1 BY <1>1, <2>2, FS_AddElement
  <2>4. Cardinality(U) = Cardinality(T) + 1 BY <2>1, <2>3
  <2> QED BY <1>2, <2>4 DEF UpTo, T, U
<1>3. CASE n + 1 \notin S
  <2>1. U = T BY <1>0, <1>3
  <2>2. Cardinality(T) \in Nat BY <1>1, FS_CardinalityType
  <2>3. Cardinality(U) = Cardinality(T) + 0 BY <2>1, <2>2
  <2> QED BY <1>3, <2>3 DEF UpTo
<1> QED BY <1>2, <1>3

\* The same positions up to n.
LEMMA CountAgrees ==
  ASSUME NEW S, S \subseteq Positive, NEW T, T \subseteq Positive, NEW n \in Nat,
         \A k \in 1..n : k \in S <=> k \in T
  PROVE  UpTo(S, n) = UpTo(T, n)
<1>0. \A k \in S : k \in Int /\ k >= 1 BY DEF Positive
<1>2. \A k \in T : k \in Int /\ k >= 1 BY DEF Positive
<1>1. {k \in S : k <= n} = {k \in T : k <= n} BY <1>0, <1>2
<1> QED BY <1>1 DEF UpTo

\* No position between m and n.
LEMMA CountStays ==
  ASSUME NEW S, S \subseteq Positive, NEW m \in Nat, NEW n \in Nat, m <= n,
         \A k \in m + 1..n : k \notin S
  PROVE  UpTo(S, n) = UpTo(S, m)
<1>0. \A k \in S : k \in Int /\ k >= 1 BY DEF Positive
<1>1. {k \in S : k <= n} = {k \in S : k <= m} BY <1>0
<1> QED BY <1>1 DEF UpTo

\* All of them, and none.
LEMMA CountAll ==
  ASSUME NEW S, NEW n \in Nat, S \subseteq 1..n
  PROVE  /\ S \subseteq Positive /\ UpTo(S, n) = Cardinality(S)
         /\ UpTo(S, n) = 0 => S = {}
<1>0. \A k \in S : k \in Int /\ k <= n OBVIOUS
<1>1. {k \in S : k <= n} = S BY <1>0
<1>2. IsFiniteSet(S)
  <2>1. IsFiniteSet(1..n) BY FS_Interval
  <2> QED BY <2>1, FS_Subset
<1> QED BY <1>1, <1>2, FS_EmptySet DEF UpTo, Positive

\* No position at all.
LEMMA CountNone ==
  ASSUME NEW S, NEW n \in Nat, S \subseteq Positive, \A k \in 1..n : k \notin S
  PROVE  UpTo(S, n) = 0
<1>0. \A k \in S : k \in Int /\ k >= 1 BY DEF Positive
<1>1. {k \in S : k <= n} = {} BY <1>0
<1> QED BY <1>1, FS_EmptySet DEF UpTo

-----------------------------------------------------------------------------
(* The counts of a C stack that grows or is cut *)

\* An entry is pushed.
LEMMA CountsPushed ==
  ASSUME NEW cs \in Seq(Entry), NEW e \in Entry, NEW t
  PROVE  /\ NyCalls(cs, t) \subseteq Positive /\ ResOver(cs, t) \subseteq Positive
         /\ \A i \in 0..Len(cs) :
               /\ UpTo(NyCalls(Append(cs, e), t), i) = UpTo(NyCalls(cs, t), i)
               /\ UpTo(ResOver(Append(cs, e), t), i) = UpTo(ResOver(cs, t), i)
         /\ UpTo(NyCalls(Append(cs, e), t), Len(cs) + 1)
               = UpTo(NyCalls(cs, t), Len(cs))
                 + (IF e.kind = "call" /\ e.thread = t /\ e.ny = 1 THEN 1 ELSE 0)
         /\ UpTo(ResOver(Append(cs, e), t), Len(cs) + 1)
               = UpTo(ResOver(cs, t), Len(cs))
                 + (IF e.kind = "res" /\ cs # <<>> /\ Last(cs).thread = t THEN 1 ELSE 0)
<1> DEFINE b == Append(cs, e)
           n == Len(cs)
           N == NyCalls(cs, t)
           N2 == NyCalls(b, t)
           R == ResOver(cs, t)
           R2 == ResOver(b, t)
<1>1. /\ b \in Seq(Entry) /\ n \in Nat /\ Len(b) = n + 1
      /\ DOMAIN cs = 1..n /\ DOMAIN b = 1..n + 1
      /\ \A i \in 1..n : b[i] = cs[i]
      /\ b[n + 1] = e
  BY AppendIs
<1>2. /\ cs = <<>> <=> n = 0
      /\ cs # <<>> => Last(cs) = cs[n]
  BY EntriesAre
<1> HIDE DEF b, n
<1>3. /\ N \subseteq Positive /\ N2 \subseteq Positive
      /\ \A k \in 1..n : k \in N <=> k \in N2
      /\ n + 1 \in N2 <=> e.kind = "call" /\ e.thread = t /\ e.ny = 1
  BY <1>1 DEF NyCalls, Positive
<1>4. /\ R \subseteq Positive /\ R2 \subseteq Positive
      /\ \A k \in 1..n : k \in R <=> k \in R2
      /\ n + 1 \in R2 <=> (e.kind = "res" /\ cs # <<>> /\ Last(cs).thread = t)
  <2>1. R \subseteq Positive /\ R2 \subseteq Positive
    BY <1>1 DEF ResOver, Positive, n
  <2>2. ASSUME NEW k \in 1..n PROVE k \in R <=> k \in R2
    <3>1. CASE k = 1 BY <1>1, <3>1 DEF ResOver
    <3>2. CASE k # 1
      <4>1. k \in 2..n /\ k \in 2..n + 1 /\ k - 1 \in 1..n BY <1>1, <2>2, <3>2
      <4>2. b[k] = cs[k] /\ b[k - 1] = cs[k - 1] BY <1>1, <2>2, <4>1
      <4>3. Len(cs) = n BY DEF n
      <4> QED BY <1>1, <4>1, <4>2, <4>3 DEF ResOver
    <3> QED BY <3>1, <3>2
  <2>3. n + 1 \in R2 <=> (e.kind = "res" /\ cs # <<>> /\ Last(cs).thread = t)
    <3>1. CASE n = 0 BY <1>1, <1>2, <3>1 DEF ResOver
    <3>2. CASE n # 0
      <4>1. n + 1 \in 2..n + 1 /\ (n + 1) - 1 = n /\ n \in 1..n BY <1>1, <3>2
      <4>2. b[n] = Last(cs) BY <1>1, <1>2, <3>2, <4>1
      <4> QED BY <1>1, <1>2, <3>2, <4>1, <4>2 DEF ResOver
    <3> QED BY <3>1, <3>2
  <2> QED BY <2>1, <2>2, <2>3
<1> HIDE DEF N, N2, R, R2
<1>5. ASSUME NEW i \in 0..n
      PROVE  UpTo(N2, i) = UpTo(N, i) /\ UpTo(R2, i) = UpTo(R, i)
  <2>1. i \in Nat /\ \A k \in 1..i : k \in 1..n BY <1>1
  <2>2. \A k \in 1..i : (k \in N2 <=> k \in N) /\ (k \in R2 <=> k \in R)
    BY <1>3, <1>4, <2>1
  <2> QED BY <1>3, <1>4, <2>1, <2>2, CountAgrees
<1>6. n \in 0..n BY <1>1
<1>7. UpTo(N2, n + 1) = UpTo(N, n)
         + (IF e.kind = "call" /\ e.thread = t /\ e.ny = 1 THEN 1 ELSE 0)
  <2>1. UpTo(N2, n + 1) = UpTo(N2, n) + (IF n + 1 \in N2 THEN 1 ELSE 0)
    BY <1>1, <1>3, CountNext
  <2>2. UpTo(N2, n) = UpTo(N, n) BY <1>5, <1>6
  <2> QED BY <1>3, <2>1, <2>2
<1>8. UpTo(R2, n + 1) = UpTo(R, n)
         + (IF e.kind = "res" /\ cs # <<>> /\ Last(cs).thread = t THEN 1 ELSE 0)
  <2>1. UpTo(R2, n + 1) = UpTo(R2, n) + (IF n + 1 \in R2 THEN 1 ELSE 0)
    BY <1>1, <1>4, CountNext
  <2>2. UpTo(R2, n) = UpTo(R, n) BY <1>5, <1>6
  <2> QED BY <1>4, <2>1, <2>2
<1> QED BY <1>3, <1>4, <1>5, <1>7, <1>8 DEF N, N2, R, R2, n, b

\* The C stack is cut.
LEMMA CountsCut ==
  ASSUME NEW cs \in Seq(Entry), NEW m \in 0..Len(cs), NEW t
  PROVE  /\ NyCalls(cs, t) \subseteq Positive /\ ResOver(cs, t) \subseteq Positive
         /\ \A i \in 0..m :
               /\ UpTo(NyCalls(SubSeq(cs, 1, m), t), i) = UpTo(NyCalls(cs, t), i)
               /\ UpTo(ResOver(SubSeq(cs, 1, m), t), i) = UpTo(ResOver(cs, t), i)
<1> DEFINE b == SubSeq(cs, 1, m)
           N == NyCalls(cs, t)
           N2 == NyCalls(b, t)
           R == ResOver(cs, t)
           R2 == ResOver(b, t)
<1>1. /\ b \in Seq(Entry) /\ Len(b) = m /\ DOMAIN b = 1..m
      /\ \A i \in 1..m : b[i] = cs[i] /\ i \in DOMAIN cs
  BY PrefixIs
<1>2. Len(cs) \in Nat /\ DOMAIN cs = 1..Len(cs) /\ m \in Nat /\ m <= Len(cs)
  BY EntriesAre
<1> HIDE DEF b
<1>3. /\ N \subseteq Positive /\ N2 \subseteq Positive
      /\ \A k \in 1..m : k \in N <=> k \in N2
  BY <1>1, <1>2 DEF NyCalls, Positive
<1>4. /\ R \subseteq Positive /\ R2 \subseteq Positive
      /\ \A k \in 1..m : k \in R <=> k \in R2
  <2>1. R \subseteq Positive /\ R2 \subseteq Positive
    BY <1>1, <1>2 DEF ResOver, Positive
  <2>2. ASSUME NEW k \in 1..m PROVE k \in R <=> k \in R2
    <3>1. CASE k = 1 BY <1>1, <3>1 DEF ResOver
    <3>2. CASE k # 1
      <4>1. k \in 2..m /\ k \in 2..Len(cs) /\ k - 1 \in 1..m BY <1>2, <2>2, <3>2
      <4>2. b[k] = cs[k] /\ b[k - 1] = cs[k - 1] BY <1>1, <2>2, <4>1
      <4> QED BY <1>1, <4>1, <4>2 DEF ResOver
    <3> QED BY <3>1, <3>2
  <2> QED BY <2>1, <2>2
<1> HIDE DEF N, N2, R, R2
<1>5. ASSUME NEW i \in 0..m
      PROVE  UpTo(N2, i) = UpTo(N, i) /\ UpTo(R2, i) = UpTo(R, i)
  <2>1. i \in Nat /\ \A k \in 1..i : k \in 1..m BY <1>2
  <2>2. \A k \in 1..i : (k \in N2 <=> k \in N) /\ (k \in R2 <=> k \in R)
    BY <1>3, <1>4, <2>1
  <2> QED BY <1>3, <1>4, <2>1, <2>2, CountAgrees
<1> QED BY <1>3, <1>4, <1>5 DEF N, N2, R, R2, b

-----------------------------------------------------------------------------
(* Calls that do not allow a yield *)

Base(t) == IF t = Main THEN 1 ELSE 0

\* n counts them, for every thread on the C stack and where luaD_pcall will
\* restore it.
NnyFits(cs, n, st) ==
    /\ \A t \in LuaThreads : t = Main \/ (\E i \in DOMAIN cs : cs[i].thread = t) =>
          n[t] = Base(t) + UpTo(NyCalls(cs, t), Len(cs))
    /\ \A c \in Coroutines : st[c] # "running" => n[c] = 1
    /\ \A i \in DOMAIN cs : cs[i].kind = "raw" =>
          cs[i].ny = Base(cs[i].thread) + UpTo(NyCalls(cs, cs[i].thread), i)

NnyInv == "nostray" \in rules => NnyFits(cstack, nny, status)

\* An entry is pushed, not a coroutine's lua_resume.
LEMMA NnyPushed ==
  ASSUME NEW cs \in Seq(Entry), NEW v \in [LuaThreads -> Shorts], NEW st, NnyFits(cs, v, st),
         NEW e \in Entry, e.kind # "res",
         e.thread = Main \/ \E i \in DOMAIN cs : cs[i].thread = e.thread,
         e.thread \in Coroutines => st[e.thread] = "running",
         e.kind = "raw" => e.ny = v[e.thread],
         NEW w, w = [v EXCEPT ![e.thread] = @ + (IF e.kind = "call" /\ e.ny = 1 THEN 1 ELSE 0)]
  PROVE  NnyFits(Append(cs, e), w, st)
<1> DEFINE n == Len(cs)
           b == Append(cs, e)
<1>2. /\ b \in Seq(Entry) /\ n \in Nat /\ Len(b) = n + 1
      /\ DOMAIN cs = 1..n /\ DOMAIN b = 1..n + 1
      /\ \A i \in 1..n : b[i] = cs[i]
      /\ b[n + 1] = e
  BY AppendIs
<1>3. \A t :
         /\ \A i \in 0..n : UpTo(NyCalls(b, t), i) = UpTo(NyCalls(cs, t), i)
         /\ UpTo(NyCalls(b, t), n + 1) = UpTo(NyCalls(cs, t), n)
               + (IF e.kind = "call" /\ e.thread = t /\ e.ny = 1 THEN 1 ELSE 0)
         /\ UpTo(NyCalls(cs, t), n) \in Nat
  <2>1. ASSUME NEW t
        PROVE  /\ NyCalls(cs, t) \subseteq Positive
               /\ \A i \in 0..n : UpTo(NyCalls(b, t), i) = UpTo(NyCalls(cs, t), i)
               /\ UpTo(NyCalls(b, t), n + 1) = UpTo(NyCalls(cs, t), n)
                     + (IF e.kind = "call" /\ e.thread = t /\ e.ny = 1 THEN 1 ELSE 0)
    BY CountsPushed
  <2>2. ASSUME NEW t PROVE UpTo(NyCalls(cs, t), n) \in Nat
    BY <1>2, <2>1, CountIs
  <2> QED BY <2>1, <2>2
<1>4. e.thread \in LuaThreads BY DEF Entry
<1> HIDE DEF b, n
<1>5. ASSUME NEW t \in LuaThreads, t = Main \/ \E i \in DOMAIN b : b[i].thread = t
      PROVE  w[t] = Base(t) + UpTo(NyCalls(b, t), n + 1)
  <2>1. t = Main \/ \E i \in DOMAIN cs : cs[i].thread = t
    <3>1. SUFFICES ASSUME t # Main, t # e.thread
                   PROVE  \E i \in DOMAIN cs : cs[i].thread = t
      OBVIOUS
    <3>2. PICK i \in DOMAIN b : b[i].thread = t BY <1>5, <3>1
    <3>3. i \in 1..n BY <1>2, <3>1, <3>2
    <3> QED BY <1>2, <3>2, <3>3
  <2>2. v[t] = Base(t) + UpTo(NyCalls(cs, t), n) BY <2>1 DEF NnyFits, n
  <2>3. v[t] \in Nat /\ Base(t) \in Nat BY DEF Shorts, Base
  <2>4. CASE t = e.thread
    <3>1. w[t] = v[t] + (IF e.kind = "call" /\ e.ny = 1 THEN 1 ELSE 0)
      BY <1>4, <2>4
    <3>2. UpTo(NyCalls(b, t), n + 1) = UpTo(NyCalls(cs, t), n)
            + (IF e.kind = "call" /\ e.ny = 1 THEN 1 ELSE 0)
      BY <1>3, <2>4
    <3> QED BY <1>3, <2>2, <2>3, <3>1, <3>2
  <2>5. CASE t # e.thread
    <3>1. w[t] = v[t] BY <1>4, <2>5
    <3>2. UpTo(NyCalls(b, t), n + 1) = UpTo(NyCalls(cs, t), n) + 0 BY <1>3, <2>5
    <3> QED BY <1>3, <2>2, <3>1, <3>2
  <2> QED BY <2>4, <2>5
<1>6. ASSUME NEW c \in Coroutines, st[c] # "running" PROVE w[c] = 1
  <2>1. v[c] = 1 BY <1>6 DEF NnyFits
  <2>2. c # e.thread /\ c \in LuaThreads BY <1>6 DEF LuaThreads
  <2> QED BY <1>4, <2>1, <2>2
<1>7. ASSUME NEW i \in DOMAIN b, b[i].kind = "raw"
      PROVE  b[i].ny = Base(b[i].thread) + UpTo(NyCalls(b, b[i].thread), i)
  <2>1. CASE i \in 1..n
    <3>1. cs[i].ny = Base(cs[i].thread) + UpTo(NyCalls(cs, cs[i].thread), i)
      BY <1>2, <1>7, <2>1 DEF NnyFits
    <3>2. i \in 0..n BY <1>2, <2>1
    <3> QED BY <1>2, <1>3, <2>1, <3>1, <3>2
  <2>2. CASE i = n + 1
    <3>1. e.ny = v[e.thread] BY <1>2, <1>7, <2>2
    <3>2. v[e.thread] = Base(e.thread) + UpTo(NyCalls(cs, e.thread), n)
      BY <1>4 DEF NnyFits, n
    <3>3. UpTo(NyCalls(b, e.thread), n + 1) = UpTo(NyCalls(cs, e.thread), n) + 0
      BY <1>2, <1>3, <1>7, <2>2
    <3> QED BY <1>2, <1>3, <2>2, <3>1, <3>2, <3>3
  <2> QED BY <1>2, <1>7, <2>1, <2>2
<1> QED BY <1>2, <1>5, <1>6, <1>7 DEF NnyFits, b

\* The C stack is cut.
LEMMA NnyCut ==
  ASSUME NEW cs \in Seq(Entry), NEW v, NEW st, NnyFits(cs, v, st),
         NEW m \in 0..Len(cs), NEW w, NEW st2,
         \A t \in LuaThreads : t = Main \/ (\E i \in 1..m : cs[i].thread = t) =>
            w[t] = Base(t) + UpTo(NyCalls(cs, t), m),
         \A c \in Coroutines : st2[c] # "running" => w[c] = 1
  PROVE  NnyFits(SubSeq(cs, 1, m), w, st2)
<1> DEFINE b == SubSeq(cs, 1, m)
<1>2. /\ b \in Seq(Entry) /\ Len(b) = m /\ DOMAIN b = 1..m
      /\ \A i \in 1..m : b[i] = cs[i] /\ i \in DOMAIN cs
  BY PrefixIs
<1>3. \A t : \A i \in 0..m : UpTo(NyCalls(b, t), i) = UpTo(NyCalls(cs, t), i)
  BY CountsCut
<1>4. m \in Nat /\ m \in 0..m BY EntriesAre
<1> HIDE DEF b
<1>6. ASSUME NEW t \in LuaThreads, t = Main \/ \E i \in DOMAIN b : b[i].thread = t
      PROVE  w[t] = Base(t) + UpTo(NyCalls(b, t), m)
  <2>1. t = Main \/ \E i \in 1..m : cs[i].thread = t
    BY <1>2, <1>6
  <2> QED BY <1>3, <1>4, <2>1
<1>7. ASSUME NEW i \in DOMAIN b, b[i].kind = "raw"
      PROVE  b[i].ny = Base(b[i].thread) + UpTo(NyCalls(b, b[i].thread), i)
  <2>1. cs[i].ny = Base(cs[i].thread) + UpTo(NyCalls(cs, cs[i].thread), i)
    BY <1>2, <1>7 DEF NnyFits
  <2>2. i \in 0..m BY <1>2, <1>4, <1>7
  <2> QED BY <1>2, <1>3, <1>7, <2>1, <2>2
<1> QED BY <1>2, <1>6, <1>7 DEF NnyFits, b

\* A call counts up nny: the unsigned short does not wrap.
LEMMA NnyOfCall ==
  ASSUME FramesInv, NnyFits(cstack, nny, status), NEW t \in LuaThreads,
         t = Main \/ \E i \in DOMAIN cstack : cstack[i].thread = t,
         NEW s, NEW before, NEW ny \in {0, 1}, DoCall(t, s, before, ny), Len(before) \in Nat
  PROVE  nny' = [nny EXCEPT ![t] = @ + ny]
<1>1. /\ cstack \in Seq(Entry) /\ nny \in [LuaThreads -> Shorts]
  BY DEF FramesInv, TypeOK
<1>2. Len(cstack) \in Nat BY <1>1, EntriesAre
<1>3. nny[t] = Base(t) + UpTo(NyCalls(cstack, t), Len(cstack)) BY DEF NnyFits
<1>4. NyCalls(cstack, t) \subseteq Positive
  <2>1. DOMAIN cstack = 1..Len(cstack) BY <1>1, EntriesAre
  <2> QED BY <1>2, <2>1 DEF NyCalls, Positive
<1>5. UpTo(NyCalls(cstack, t), Len(cstack)) \in Nat
      /\ UpTo(NyCalls(cstack, t), Len(cstack)) <= Len(cstack)
  BY <1>2, <1>4, CountIs
<1>6. Len(cstack) + Len(before) < MaxDepth /\ nny' = [nny EXCEPT ![t] = Wrapped(@ + ny)]
  BY DEF DoCall
<1>7. MaxDepth \in Nat /\ Width \in Nat BY LimitsAssumption
<1>8. nny[t] + ny \in Int /\ nny[t] + ny >= 0 /\ nny[t] + ny < Width
  BY <1>2, <1>3, <1>5, <1>6, <1>7, DepthAssumption DEF Base
<1>9. nny[t] + ny \in Shorts BY <1>7, <1>8 DEF Shorts
<1> HIDE DEF NnyFits
<1>10. Wrapped(nny[t] + ny) = nny[t] + ny BY <1>8, <1>9, WrappedIs
<1> QED BY <1>6, <1>10

\* Entries of thread t go, and nny of t counts those that stay.
LEMMA NnyCutting ==
  ASSUME FramesInv, NnyFits(cstack, nny, status), NEW m, NEW t, Cutting(m, t),
         NEW x, x = Base(t) + UpTo(NyCalls(cstack, t), m), nny' = [nny EXCEPT ![t] = x]
  PROVE  NnyFits(cstack', nny', status')
<1>0. /\ m \in 0..Len(cstack) - 1
      /\ t = cstack[m + 1].thread
      /\ \A i, k \in DOMAIN cstack :
            i <= m /\ m < k /\ cstack[i].thread = cstack[k].thread => cstack[i].thread = t
      /\ cstack' = SubSeq(cstack, 1, m)
      /\ status' = status
  BY DEF Cutting
<1>1. /\ cstack \in Seq(Entry) /\ nny \in [LuaThreads -> Shorts] /\ Stacked(cstack)
  BY DEF FramesInv, Frames, TypeOK
<1>2. /\ Len(cstack) \in Nat /\ DOMAIN cstack = 1..Len(cstack) /\ m + 1 \in 1..Len(cstack)
      /\ t \in LuaThreads /\ m \in 0..Len(cstack) /\ m \in Nat /\ m <= Len(cstack)
      /\ cstack # <<>>
  BY <1>0, <1>1, EntriesAre
<1>3. \A c \in Coroutines : status'[c] # "running" => nny'[c] = 1
  <2>1. ASSUME NEW c \in Coroutines, status'[c] # "running" PROVE nny'[c] = 1
    <3>1. nny[c] = 1 BY <1>0, <2>1 DEF NnyFits
    <3>2. c # t BY <1>0, <1>2, <2>1, NotOnStack
    <3>3. c \in LuaThreads BY DEF LuaThreads
    <3> QED BY <1>1, <3>1, <3>2, <3>3
  <2> QED BY <2>1
<1>4. ASSUME NEW y \in LuaThreads, y = Main \/ \E i \in 1..m : cstack[i].thread = y
      PROVE  nny'[y] = Base(y) + UpTo(NyCalls(cstack, y), m)
  <2>1. CASE y = t BY <1>1, <2>1
  <2>2. CASE y # t
    <3>1. PICK i \in 1..m : cstack[i].thread = y
      <4>1. CASE y = Main
        <5>1. cstack[1].thread = Main BY <1>1, <1>2 DEF Stacked
        <5>2. m # 0 BY <1>0, <2>2, <4>1, <5>1
        <5>3. 1 \in 1..m BY <1>2, <5>2
        <5> QED BY <4>1, <5>1, <5>3
      <4>2. CASE y # Main BY <1>4, <4>2
      <4> QED BY <4>1, <4>2
    <3>2. \A k \in m + 1..Len(cstack) : k \notin NyCalls(cstack, y)
      <4>1. ASSUME NEW k \in m + 1..Len(cstack) PROVE cstack[k].thread # y
        <5>1. k \in DOMAIN cstack /\ m < k /\ i \in DOMAIN cstack /\ i <= m
          BY <1>2, <3>1, <4>1
        <5> QED BY <1>0, <2>2, <3>1, <5>1
      <4> QED BY <4>1 DEF NyCalls
    <3>3. UpTo(NyCalls(cstack, y), Len(cstack)) = UpTo(NyCalls(cstack, y), m)
      <4>1. NyCalls(cstack, y) \subseteq Positive BY <1>2 DEF NyCalls, Positive
      <4> QED BY <1>2, <3>2, <4>1, CountStays
    <3>4. nny[y] = Base(y) + UpTo(NyCalls(cstack, y), Len(cstack))
      <4>1. i \in DOMAIN cstack BY <1>2, <3>1
      <4> QED BY <3>1, <4>1 DEF NnyFits
    <3> QED BY <1>1, <1>2, <2>2, <3>3, <3>4
  <2> QED BY <2>1, <2>2
<1>5. NnyFits(SubSeq(cstack, 1, m), nny', status')
  BY <1>1, <1>2, <1>3, <1>4, NnyCut
<1> QED BY <1>0, <1>5

\* A coroutine yields or ends.
LEMMA NnyEnding ==
  ASSUME FramesInv, NnyFits(cstack, nny, status),
         NEW j, NEW c, NEW f, NEW s, NEW new, Ending(j, c, f, s, new)
  PROVE  NnyFits(cstack', nny', status')
<1>0. /\ j \in DOMAIN cstack /\ \A i \in j..Len(cstack) : cstack[i].thread = c
      /\ EndResume(c, j, s, new)
  BY DEF Ending
<1>1. /\ cstack \in Seq(Entry) /\ nny \in [LuaThreads -> Shorts]
      /\ status \in [Coroutines -> Statuses]
  BY DEF FramesInv, Frames, TypeOK
<1>2. /\ Len(cstack) \in Nat /\ DOMAIN cstack = 1..Len(cstack)
      /\ j \in Nat /\ j - 1 \in 0..Len(cstack) /\ j - 1 \in Nat /\ j - 1 <= Len(cstack)
      /\ (j - 1) + 1 = j
  BY <1>0, <1>1, EntriesAre
<1>3. /\ c \in Coroutines /\ c \in LuaThreads /\ c # Main
      /\ cstack' = SubSeq(cstack, 1, j - 1)
      /\ \A i \in 1..j - 1 : cstack[i].thread # c
  BY EndFrames, ThreadsAssumption DEF LuaThreads
<1>4. nny' = [nny EXCEPT ![c] = 1] /\ status' = [status EXCEPT ![c] = new]
  BY <1>0 DEF EndResume
<1>5. \A x \in Coroutines : status'[x] # "running" => nny'[x] = 1
  <2>1. ASSUME NEW x \in Coroutines, status'[x] # "running" PROVE nny'[x] = 1
    <3>1. x \in LuaThreads BY DEF LuaThreads
    <3>2. CASE x = c BY <1>1, <1>4, <3>1, <3>2
    <3>3. CASE x # c
      <4>1. status[x] # "running" BY <1>1, <1>4, <2>1, <3>3
      <4> QED BY <1>1, <1>4, <3>1, <3>3, <4>1 DEF NnyFits
    <3> QED BY <3>2, <3>3
  <2> QED BY <2>1
<1>6. ASSUME NEW y \in LuaThreads, y = Main \/ \E i \in 1..j - 1 : cstack[i].thread = y
      PROVE  nny'[y] = Base(y) + UpTo(NyCalls(cstack, y), j - 1)
  <2>1. y # c BY <1>3, <1>6
  <2>2. \A k \in (j - 1) + 1..Len(cstack) : k \notin NyCalls(cstack, y)
    BY <1>0, <1>2, <2>1 DEF NyCalls
  <2>3. UpTo(NyCalls(cstack, y), Len(cstack)) = UpTo(NyCalls(cstack, y), j - 1)
    <3>1. NyCalls(cstack, y) \subseteq Positive BY <1>2 DEF NyCalls, Positive
    <3> QED BY <1>2, <2>2, <3>1, CountStays
  <2>4. y = Main \/ \E i \in DOMAIN cstack : cstack[i].thread = y
    <3>1. \A i \in 1..j - 1 : i \in DOMAIN cstack BY <1>2
    <3> QED BY <1>6, <3>1
  <2>5. nny[y] = Base(y) + UpTo(NyCalls(cstack, y), Len(cstack)) BY <2>4 DEF NnyFits
  <2> QED BY <1>1, <1>3, <1>4, <2>1, <2>3, <2>5
<1>7. NnyFits(SubSeq(cstack, 1, j - 1), nny', status')
  BY <1>1, <1>2, <1>5, <1>6, NnyCut
<1> QED BY <1>3, <1>7

\* A pcall of a coroutine gets an error, and unroll will finish it.
LEMMA NnyRecover ==
  ASSUME FramesInv, NnyFits(cstack, nny, status),
         NEW j, NEW c, NEW h, Continuing(j, c, h), nny' = [nny EXCEPT ![c] = 0]
  PROVE  NnyFits(cstack', nny', status')
<1>0. /\ j \in DOMAIN cstack /\ cstack[j].kind = "res" /\ cstack[j].thread = c
      /\ \A i \in j..Len(cstack) : cstack[i].thread = c
      /\ cstack' = SubSeq(cstack, 1, j) /\ status' = status
  BY DEF Continuing
<1>1. /\ cstack \in Seq(Entry) /\ nny \in [LuaThreads -> Shorts]
      /\ Blocks(cstack, status)
  BY DEF FramesInv, Frames, TypeOK
<1>2. /\ Len(cstack) \in Nat /\ DOMAIN cstack = 1..Len(cstack)
      /\ j \in Nat /\ j \in 0..Len(cstack) /\ j <= Len(cstack)
  BY <1>0, <1>1, EntriesAre
<1>3. c \in Coroutines /\ \A i \in 1..j - 1 : cstack[i].thread # c
  BY ContinueFrames
<1>4. c \in LuaThreads /\ c # Main BY <1>3, ThreadsAssumption DEF LuaThreads
<1>5. \A x \in Coroutines : status'[x] # "running" => nny'[x] = 1
  <2>1. status[c] = "running" BY <1>0, <1>1 DEF Blocks
  <2>2. ASSUME NEW x \in Coroutines, status'[x] # "running" PROVE nny'[x] = 1
    <3>1. x # c /\ status[x] # "running" BY <1>0, <2>1, <2>2
    <3>2. x \in LuaThreads BY DEF LuaThreads
    <3> QED BY <1>1, <3>1, <3>2 DEF NnyFits
  <2> QED BY <2>2
<1>6. ASSUME NEW y \in LuaThreads, y = Main \/ \E i \in 1..j : cstack[i].thread = y
      PROVE  nny'[y] = Base(y) + UpTo(NyCalls(cstack, y), j)
  <2>0. NyCalls(cstack, y) \subseteq Positive BY <1>2 DEF NyCalls, Positive
  <2>1. CASE y = c
    <3>1. \A k \in 1..j : k \notin NyCalls(cstack, c)
      <4>1. ASSUME NEW k \in 1..j PROVE k \notin NyCalls(cstack, c)
        <5>1. k = j \/ k \in 1..j - 1 BY <1>2, <4>1
        <5> QED BY <1>0, <1>3, <5>1 DEF NyCalls
      <4> QED BY <4>1
    <3>2. UpTo(NyCalls(cstack, c), j) = 0 BY <1>2, <2>0, <2>1, <3>1, CountNone
    <3> QED BY <1>1, <1>4, <2>1, <3>2 DEF Base
  <2>2. CASE y # c
    <3>1. \A k \in j + 1..Len(cstack) : k \notin NyCalls(cstack, y)
      BY <1>0, <1>2, <2>2 DEF NyCalls
    <3>2. UpTo(NyCalls(cstack, y), Len(cstack)) = UpTo(NyCalls(cstack, y), j)
      BY <1>2, <2>0, <3>1, CountStays
    <3>3. y = Main \/ \E i \in DOMAIN cstack : cstack[i].thread = y
      <4>1. \A i \in 1..j : i \in DOMAIN cstack BY <1>2
      <4> QED BY <1>6, <4>1
    <3>4. nny[y] = Base(y) + UpTo(NyCalls(cstack, y), Len(cstack)) BY <3>3 DEF NnyFits
    <3> QED BY <1>1, <1>4, <2>2, <3>2, <3>4
  <2> QED BY <2>1, <2>2
<1>7. NnyFits(SubSeq(cstack, 1, j), nny', status')
  BY <1>1, <1>2, <1>5, <1>6, NnyCut
<1> QED BY <1>0, <1>7

\* A coroutine is resumed.
LEMMA NnyResumed ==
  ASSUME FramesInv, NnyFits(cstack, nny, status),
         NEW t \in LuaThreads, NEW c \in Coroutines, Resume(t, c), UNCHANGED rules
  PROVE  NnyFits(cstack', nny', status')
<1> DEFINE n == Len(cstack)
           e == Res(c, Wrapped(nCcalls[t] + 1))
           b == Append(cstack, e)
<1>0. cstack' = b /\ nny' = [nny EXCEPT ![c] = 0]
      /\ status' = [status EXCEPT ![c] = "running"]
  BY DEF Resume
<1>1. /\ cstack \in Seq(Entry) /\ nny \in [LuaThreads -> Shorts]
      /\ status \in [Coroutines -> Statuses]
      /\ nCcalls \in [LuaThreads -> Shorts]
  BY DEF FramesInv, Frames, TypeOK
<1>2. c \in LuaThreads /\ c # Main BY ThreadsAssumption DEF LuaThreads
<1>3. e \in Entry /\ e.kind = "res" /\ e.thread = c
  <2>1. nCcalls[t] + 1 \in Int BY <1>1, LimitsAssumption DEF Shorts
  <2>2. Wrapped(nCcalls[t] + 1) \in Shorts BY <2>1, WrappedIs
  <2> HIDE DEF e
  <2>3. e = Res(c, Wrapped(nCcalls[t] + 1)) BY DEF e
  <2>4. 0 \in Nat /\ 0 \in {0, 1} /\ 0 \in Shorts BY ShortsAre
  <2> QED BY <1>2, <2>2, <2>3, <2>4, EntriesPushed
<1>4. \A i \in DOMAIN cstack : cstack[i].thread # c BY ResumeFrames
<1> HIDE DEF e
<1>5. /\ b \in Seq(Entry) /\ n \in Nat /\ Len(b) = n + 1
      /\ DOMAIN cstack = 1..n /\ DOMAIN b = 1..n + 1
      /\ \A i \in 1..n : b[i] = cstack[i]
      /\ b[n + 1] = e
  BY <1>1, <1>3, AppendIs
<1>6. ASSUME NEW y
      PROVE  /\ NyCalls(cstack, y) \subseteq Positive
             /\ \A i \in 0..n : UpTo(NyCalls(b, y), i) = UpTo(NyCalls(cstack, y), i)
             /\ UpTo(NyCalls(b, y), n + 1) = UpTo(NyCalls(cstack, y), n)
             /\ UpTo(NyCalls(cstack, y), n) \in Nat
  <2>1. /\ NyCalls(cstack, y) \subseteq Positive
        /\ \A i \in 0..n : UpTo(NyCalls(b, y), i) = UpTo(NyCalls(cstack, y), i)
        /\ UpTo(NyCalls(b, y), n + 1) = UpTo(NyCalls(cstack, y), n)
              + (IF e.kind = "call" /\ e.thread = y /\ e.ny = 1 THEN 1 ELSE 0)
    BY <1>1, <1>3, CountsPushed
  <2>2. UpTo(NyCalls(cstack, y), n) \in Nat BY <1>5, <2>1, CountIs
  <2>3. UpTo(NyCalls(b, y), n + 1) = UpTo(NyCalls(cstack, y), n) + 0 BY <1>3, <2>1
  <2> QED BY <2>1, <2>2, <2>3
<1> HIDE DEF b, n
<1>7. ASSUME NEW y \in LuaThreads, y = Main \/ \E i \in DOMAIN b : b[i].thread = y
      PROVE  nny'[y] = Base(y) + UpTo(NyCalls(b, y), n + 1)
  <2>1. CASE y = c
    <3>1. \A k \in 1..n : k \notin NyCalls(cstack, c) BY <1>4, <1>5 DEF NyCalls
    <3>2. UpTo(NyCalls(cstack, c), n) = 0 BY <1>5, <1>6, <3>1, CountNone
    <3> QED BY <1>0, <1>1, <1>2, <1>6, <2>1, <3>2 DEF Base
  <2>2. CASE y # c
    <3>1. y = Main \/ \E i \in DOMAIN cstack : cstack[i].thread = y
      BY <1>3, <1>5, <1>7, <2>2
    <3>2. nny[y] = Base(y) + UpTo(NyCalls(cstack, y), n) BY <3>1 DEF NnyFits, n
    <3> QED BY <1>0, <1>1, <1>2, <1>6, <2>2, <3>2
  <2> QED BY <2>1, <2>2
<1>8. ASSUME NEW x \in Coroutines, status'[x] # "running" PROVE nny'[x] = 1
  <2>1. x \in LuaThreads BY DEF LuaThreads
  <2>2. x # c /\ status[x] # "running" BY <1>0, <1>1, <1>8
  <2> QED BY <1>0, <1>1, <1>2, <2>1, <2>2 DEF NnyFits
<1>9. ASSUME NEW i \in DOMAIN b, b[i].kind = "raw"
      PROVE  b[i].ny = Base(b[i].thread) + UpTo(NyCalls(b, b[i].thread), i)
  <2>1. i \in 1..n BY <1>3, <1>5, <1>9
  <2>2. cstack[i].ny = Base(cstack[i].thread) + UpTo(NyCalls(cstack, cstack[i].thread), i)
    BY <1>5, <1>9, <2>1 DEF NnyFits
  <2>3. i \in 0..n BY <1>5, <2>1
  <2> QED BY <1>5, <1>6, <2>1, <2>2, <2>3
<1> QED BY <1>0, <1>5, <1>7, <1>8, <1>9 DEF NnyFits

\* luaD_pcall catches an error, and restores nny.
LEMMA NnyCaught ==
  ASSUME FramesInv, NnyFits(cstack, nny, status), NEW t, NEW s, NEW j, j \in DOMAIN cstack,
         cstack[j].kind = "raw", cstack[j].thread = t, EndPcall(t, j, s), Cutting(j - 1, t)
  PROVE  NnyFits(cstack', nny', status')
<1>1. cstack \in Seq(Entry) BY DEF FramesInv, TypeOK
<1>2. /\ Len(cstack) \in Nat /\ DOMAIN cstack = 1..Len(cstack)
      /\ j \in Nat /\ j - 1 \in Nat /\ (j - 1) + 1 = j
  BY <1>1, EntriesAre
<1>3. NyCalls(cstack, t) \subseteq Positive BY <1>2 DEF NyCalls, Positive
<1>4. UpTo(NyCalls(cstack, t), j) = UpTo(NyCalls(cstack, t), j - 1)
  <2>1. j \notin NyCalls(cstack, t) BY DEF NyCalls
  <2>2. UpTo(NyCalls(cstack, t), (j - 1) + 1)
           = UpTo(NyCalls(cstack, t), j - 1) + (IF (j - 1) + 1 \in NyCalls(cstack, t) THEN 1 ELSE 0)
    BY <1>2, <1>3, CountNext
  <2>3. UpTo(NyCalls(cstack, t), j - 1) \in Nat BY <1>2, <1>3, CountIs
  <2> QED BY <1>2, <2>1, <2>2, <2>3
<1>5. cstack[j].ny = Base(t) + UpTo(NyCalls(cstack, t), j) BY DEF NnyFits
<1>6. nny' = [nny EXCEPT ![t] = cstack[j].ny] BY DEF EndPcall
<1>7. cstack[j].ny = Base(t) + UpTo(NyCalls(cstack, t), j - 1) BY <1>4, <1>5
<1> QED BY <1>6, <1>7, NnyCutting

\* What luaD_call called returns.
LEMMA NnyReturned ==
  ASSUME FramesInv, NnyFits(cstack, nny, status), UNCHANGED rules,
         NEW t \in LuaThreads, Return(t)
  PROVE  NnyFits(cstack', nny', status')
<1> DEFINE n == Len(cstack)
           raw == Len(cstack) > 1 /\ cstack[Len(cstack) - 1].kind = "raw"
           m == Len(cstack) - (IF raw THEN 2 ELSE 1)
           N == NyCalls(cstack, t)
<1>1. cstack \in Seq(Entry) /\ nny \in [LuaThreads -> Shorts] /\ Stacked(cstack)
  BY DEF FramesInv, Frames, TypeOK
<1>2. Popping(m, t) BY ReturnIs
<1>3. /\ InLua(t) /\ Innermost.kind = "call" /\ Innermost.thread = t /\ cstack # <<>>
      /\ nny' = [nny EXCEPT ![t] = Wrapped(@ - Innermost.ny)]
  BY DEF Return, InLua
<1>4. /\ n \in Nat \ {0} /\ DOMAIN cstack = 1..n /\ n \in 1..n /\ Innermost = cstack[n]
      /\ n - 1 \in Nat /\ (n - 1) + 1 = n
  BY <1>1, <1>3, EntriesAre DEF Innermost
<1>5. Innermost.ny \in {0, 1} BY <1>1, <1>3, <1>4 DEF Stacked
<1>6. N \subseteq Positive BY <1>4 DEF NyCalls, Positive
<1>7. nny[t] = Base(t) + UpTo(N, n) BY <1>3, <1>4 DEF NnyFits
<1>8. UpTo(N, n) = UpTo(N, n - 1) + Innermost.ny
  <2>1. UpTo(N, (n - 1) + 1) = UpTo(N, n - 1) + (IF (n - 1) + 1 \in N THEN 1 ELSE 0)
    BY <1>4, <1>6, CountNext
  <2>2. n \in N <=> Innermost.ny = 1 BY <1>3, <1>4 DEF NyCalls
  <2> HIDE DEF n, N
  <2>3. UpTo(N, n - 1) \in Nat BY <1>4, <1>6, CountIs
  <2> QED BY <1>4, <1>5, <2>1, <2>2, <2>3
<1>9. UpTo(N, n - 1) \in Nat BY <1>4, <1>6, CountIs
<1>10. UpTo(N, m) = UpTo(N, n - 1)
  <2>1. CASE raw
    <3>1. m = n - 2 /\ m \in Nat /\ m + 1 = n - 1 /\ cstack[m + 1].kind = "raw"
      BY <1>4, <2>1
    <3>2. m + 1 \notin N BY <3>1 DEF NyCalls
    <3> HIDE DEF m, n, N
    <3>3. UpTo(N, m + 1) = UpTo(N, m) + (IF m + 1 \in N THEN 1 ELSE 0)
      BY <1>6, <3>1, CountNext
    <3>4. UpTo(N, m) \in Nat BY <1>6, <3>1, CountIs
    <3> QED BY <3>1, <3>2, <3>3, <3>4
  <2>2. CASE ~raw BY <2>2
  <2> QED BY <2>1, <2>2
<1>11. nny[t] \in Shorts BY <1>1
<1> HIDE DEF NnyFits, n, N, m
<1>12. Wrapped(nny[t] - Innermost.ny) = Base(t) + UpTo(N, m)
  <2>1. Base(t) \in Nat BY DEF Base
  <2>2. nny[t] - Innermost.ny = Base(t) + UpTo(N, n - 1)
    BY <1>5, <1>7, <1>8, <1>9, <2>1
  <2>3. nny[t] - Innermost.ny \in Int /\ nny[t] - Innermost.ny \in Shorts
    BY <1>5, <1>9, <1>11, <2>1, <2>2, LimitsAssumption DEF Shorts
  <2>4. Wrapped(nny[t] - Innermost.ny) = nny[t] - Innermost.ny BY <2>3, WrappedIs
  <2> QED BY <1>10, <2>2, <2>4
<1>13. Cutting(m, t) BY <1>2 DEF Popping
<1>14. nny' = [nny EXCEPT ![t] = Wrapped(nny[t] - Innermost.ny)] BY <1>3
<1> QED BY <1>12, <1>13, <1>14, NnyCutting DEF N

\* A Java function returns.
LEMMA NnyJavaReturned ==
  ASSUME FramesInv, NnyFits(cstack, nny, status), UNCHANGED rules, JavaReturn
  PROVE  NnyFits(cstack', nny', status')
<1> DEFINE n == Len(cstack)
           t == Innermost.thread
           N == NyCalls(cstack, t)
<1>1. cstack \in Seq(Entry) /\ nny \in [LuaThreads -> Shorts]
  BY DEF FramesInv, Frames, TypeOK
<1>2. Popping(n - 1, t) BY JavaReturnIs
<1>3. Innermost.kind = "java" /\ cstack # <<>> /\ nny' = nny BY DEF JavaReturn
<1>4. /\ n \in Nat \ {0} /\ DOMAIN cstack = 1..n /\ n \in 1..n /\ Innermost = cstack[n]
      /\ n - 1 \in Nat /\ (n - 1) + 1 = n /\ t \in LuaThreads
  BY <1>1, <1>3, EntriesAre DEF Innermost
<1>6. N \subseteq Positive BY <1>4 DEF NyCalls, Positive
<1>7. nny[t] = Base(t) + UpTo(N, n)
  <2>1. \E i \in DOMAIN cstack : cstack[i].thread = t BY <1>4
  <2> QED BY <1>4, <2>1 DEF NnyFits
<1>8. UpTo(N, n) = UpTo(N, n - 1)
  <2>1. n \notin N BY <1>3, <1>4 DEF NyCalls
  <2>2. UpTo(N, (n - 1) + 1) = UpTo(N, n - 1) + (IF (n - 1) + 1 \in N THEN 1 ELSE 0)
    BY <1>4, <1>6, CountNext
  <2>3. UpTo(N, n - 1) \in Nat BY <1>4, <1>6, CountIs
  <2> QED BY <1>4, <2>1, <2>2, <2>3
<1>9. nny[t] = Base(t) + UpTo(N, n - 1) BY <1>7, <1>8
<1>10. nny' = [nny EXCEPT ![t] = nny[t]] BY <1>1, <1>3
<1>11. Cutting(n - 1, t) BY <1>2 DEF Popping
<1> HIDE DEF NnyFits
<1> QED BY <1>9, <1>10, <1>11, NnyCutting

\* luaD_call.
LEMMA NnyCalled ==
  ASSUME FramesInv, NnyFits(cstack, nny, status), UNCHANGED rules,
         NEW t \in LuaThreads, InLua(t), NEW ny \in {0, 1}, NEW s,
         s = ci[t] \/ \E x \in CFunctions : s = Append(ci[t], x),
         DoCall(t, s, <<>>, ny)
  PROVE  NnyFits(cstack', nny', status')
<1> DEFINE e == Call(t, ny, Len(ci[t]))
<1>1. /\ cstack \in Seq(Entry) /\ nny \in [LuaThreads -> Shorts] /\ ci \in CiLists
  BY DEF FramesInv, Frames, TypeOK
<1>2. cstack' = Append(cstack, e) BY DoCallFrames
<1>3. cstack # <<>> /\ Innermost.thread = t BY DEF InLua
<1>4. /\ Len(cstack) \in DOMAIN cstack /\ cstack[Len(cstack)].thread = t
      /\ t \in Coroutines => status[t] = "running"
  <2>1. Len(cstack) \in DOMAIN cstack /\ Innermost = cstack[Len(cstack)]
    BY <1>1, <1>3, EntriesAre DEF Innermost
  <2> QED BY <1>3, <2>1, TopIs
<1>5. nny' = [nny EXCEPT ![t] = @ + ny]
  <2>1. Len(<<>>) \in Nat OBVIOUS
  <2>2. \E i \in DOMAIN cstack : cstack[i].thread = t BY <1>4
  <2> QED BY <2>1, <2>2, NnyOfCall
<1>6. status' = status BY DEF DoCall
<1>7. e \in Entry /\ e.kind = "call" /\ e.thread = t /\ e.ny = ny
  <2>1. Len(ci[t]) \in Nat BY <1>1 DEF CiLists
  <2> QED BY <2>1, ShortsAre, EntriesPushed
<1> HIDE DEF e
<1>8. nny' = [nny EXCEPT ![e.thread] = @ + (IF e.kind = "call" /\ e.ny = 1 THEN 1 ELSE 0)]
  <2>1. ny = IF e.kind = "call" /\ e.ny = 1 THEN 1 ELSE 0 BY <1>7
  <2> QED BY <1>5, <1>7, <2>1
<1>9. \E i \in DOMAIN cstack : cstack[i].thread = e.thread BY <1>4, <1>7
<1>10. NnyFits(Append(cstack, e), nny', status)
  BY <1>1, <1>4, <1>7, <1>8, <1>9, NnyPushed
<1> QED BY <1>2, <1>6, <1>10

\* luaD_pcall calls it, in a thread that runs or, for luaPcall, in the main one.
LEMMA NnyPcalled ==
  ASSUME FramesInv, NnyFits(cstack, nny, status), UNCHANGED rules,
         NEW t \in LuaThreads, NEW s,
         \/ InLua(t) /\ s = Append(ci[t], "pcallc")
         \/ InJava /\ t = Main /\ s = ci[t],
         DoCall(t, s, <<Raw(t, nCcalls[t], nny[t], Len(ci[t]))>>, 1)
  PROVE  NnyFits(cstack', nny', status')
<1> DEFINE r == Raw(t, nCcalls[t], nny[t], Len(ci[t]))
           e == Call(t, 1, Len(ci[t]))
           b == Append(cstack, r)
<1>1. /\ cstack \in Seq(Entry) /\ nny \in [LuaThreads -> Shorts] /\ ci \in CiLists
      /\ nCcalls \in [LuaThreads -> Shorts]
  BY DEF FramesInv, Frames, TypeOK
<1>2. cstack' = Append(b, e) BY DoPcallFrames
<1>4. /\ t = Main \/ \E i \in DOMAIN cstack : cstack[i].thread = t
      /\ t \in Coroutines => status[t] = "running"
  <2>1. CASE InLua(t)
    <3>1. cstack # <<>> /\ Innermost.thread = t BY <2>1 DEF InLua
    <3>2. Len(cstack) \in DOMAIN cstack /\ Innermost = cstack[Len(cstack)]
      BY <1>1, <3>1, EntriesAre DEF Innermost
    <3> QED BY <3>1, <3>2, TopIs
  <2>2. CASE t = Main BY <2>2, ThreadsAssumption
  <2> QED BY <2>1, <2>2
<1>5. nny' = [nny EXCEPT ![t] = @ + 1]
  <2>1. Len(<<r>>) \in Nat /\ 1 \in {0, 1} OBVIOUS
  <2> HIDE DEF r
  <2>2. DoCall(t, s, <<r>>, 1) BY DEF r
  <2> QED BY <1>4, <2>1, <2>2, NnyOfCall
<1>6. status' = status BY DEF DoCall
<1>7. /\ r \in Entry /\ r.kind = "raw" /\ r.thread = t /\ r.ny = nny[t]
      /\ e \in Entry /\ e.kind = "call" /\ e.thread = t /\ e.ny = 1
  <2>1. Len(ci[t]) \in Nat /\ nny[t] \in Shorts /\ nCcalls[t] \in Shorts BY <1>1 DEF CiLists
  <2>2. 1 \in {0, 1} OBVIOUS
  <2> QED BY <2>1, <2>2, EntriesPushed
<1> HIDE DEF e, r
<1>8. NnyFits(b, nny, status)
  <2>1. nny = [nny EXCEPT ![r.thread] = @ + (IF r.kind = "call" /\ r.ny = 1 THEN 1 ELSE 0)]
    <3>1. nny[t] + 0 = nny[t] BY <1>1 DEF Shorts
    <3>2. nny = [nny EXCEPT ![t] = @ + 0] BY <1>1, <3>1
    <3>3. (IF r.kind = "call" /\ r.ny = 1 THEN 1 ELSE 0) = 0 BY <1>7
    <3> QED BY <1>7, <3>2, <3>3
  <2>2. r.kind # "res" BY <1>7
  <2>3. r.thread = Main \/ \E i \in DOMAIN cstack : cstack[i].thread = r.thread
    BY <1>4, <1>7
  <2>4. r.thread \in Coroutines => status[r.thread] = "running" BY <1>4, <1>7
  <2>5. r.kind = "raw" => r.ny = nny[r.thread] BY <1>7
  <2> QED BY <1>1, <1>7, <2>1, <2>2, <2>3, <2>4, <2>5, NnyPushed
<1>9. /\ b \in Seq(Entry) /\ Len(cstack) + 1 \in DOMAIN b
      /\ b[Len(cstack) + 1] = r
  <2>1. /\ b \in Seq(Entry) /\ DOMAIN b = 1..Len(cstack) + 1 /\ Len(cstack) \in Nat
        /\ b[Len(cstack) + 1] = r
    BY <1>1, <1>7, AppendIs
  <2> QED BY <2>1
<1>10. NnyFits(Append(b, e), nny', status)
  <2> HIDE DEF b
  <2>1. nny' = [nny EXCEPT ![e.thread] = @ + (IF e.kind = "call" /\ e.ny = 1 THEN 1 ELSE 0)]
    <3>1. 1 = IF e.kind = "call" /\ e.ny = 1 THEN 1 ELSE 0 BY <1>7
    <3> QED BY <1>5, <1>7, <3>1
  <2>2. \E i \in DOMAIN b : b[i].thread = e.thread BY <1>7, <1>9
  <2>3. e.thread \in Coroutines => status[e.thread] = "running" BY <1>4, <1>7
  <2> QED BY <1>1, <1>7, <1>8, <1>9, <2>1, <2>2, <2>3, NnyPushed
<1> QED BY <1>2, <1>6, <1>10

\* A script calls a Java function.
LEMMA NnyJavaCalled ==
  ASSUME FramesInv, NnyFits(cstack, nny, status), UNCHANGED rules,
         NEW t \in LuaThreads, JavaCall(t)
  PROVE  NnyFits(cstack', nny', status')
<1> DEFINE e == Java(t, Len(ci[t]))
<1>1. /\ cstack \in Seq(Entry) /\ nny \in [LuaThreads -> Shorts] /\ ci \in CiLists
  BY DEF FramesInv, Frames, TypeOK
<1>2. /\ cstack' = Append(cstack, e) /\ status' = status /\ nny' = nny
      /\ cstack # <<>> /\ Innermost.thread = t
  BY DEF JavaCall, InLua
<1>4. /\ Len(cstack) \in DOMAIN cstack /\ cstack[Len(cstack)].thread = t
      /\ t \in Coroutines => status[t] = "running"
  <2>1. Len(cstack) \in DOMAIN cstack /\ Innermost = cstack[Len(cstack)]
    BY <1>1, <1>2, EntriesAre DEF Innermost
  <2> QED BY <1>2, <2>1, TopIs
<1>7. e \in Entry /\ e.kind = "java" /\ e.thread = t
  <2>1. Len(ci[t]) \in Nat BY <1>1 DEF CiLists
  <2>2. 0 \in {0, 1} OBVIOUS
  <2> QED BY <2>1, <2>2, ShortsAre, EntriesPushed
<1> HIDE DEF e
<1>8. nny = [nny EXCEPT ![e.thread] = @ + (IF e.kind = "call" /\ e.ny = 1 THEN 1 ELSE 0)]
  <2>1. nny[t] + 0 = nny[t] BY <1>1 DEF Shorts
  <2>2. nny = [nny EXCEPT ![t] = @ + 0] BY <1>1, <2>1
  <2>3. (IF e.kind = "call" /\ e.ny = 1 THEN 1 ELSE 0) = 0 BY <1>7
  <2> QED BY <1>7, <2>2, <2>3
<1>9. \E i \in DOMAIN cstack : cstack[i].thread = e.thread BY <1>4, <1>7
<1>10. NnyFits(Append(cstack, e), nny, status)
  BY <1>1, <1>4, <1>7, <1>8, <1>9, NnyPushed
<1> QED BY <1>2, <1>10

\* Every step keeps the count.
LEMMA NnyStep == FramesInv /\ NnyInv /\ [Next]_vars => NnyInv'
<1> SUFFICES ASSUME FramesInv, NnyInv, [Next]_vars, "nostray" \in rules
             PROVE  NnyFits(cstack', nny', status')
  <2>1. [Next]_vars => rules' = rules BY DEF Next, vars, moving
  <2> QED BY <2>1 DEF NnyInv, NnyFits
<1>0. NnyFits(cstack, nny, status) BY DEF NnyInv
<1>1. CASE UNCHANGED vars
  BY <1>0, <1>1 DEF vars, moving
<1>2. CASE Step /\ UNCHANGED rules
  <2>1. CASE Raises
    <3>1. PICK t \in LuaThreads : \E s : Raising(t, s) /\ Throw(t, s)
      BY <2>1 DEF Raises
    <3>2. PICK s : Raising(t, s) /\ Throw(t, s) BY <3>1
    <3> DEFINE j == JumpTarget(t)
    <3>3. /\ j \in DOMAIN cstack /\ cstack[j].thread = t
          /\ \/ /\ cstack[j].kind = "raw" /\ EndPcall(t, j, s)
                /\ Cutting(j - 1, t)
             \/ Ending(j, t, cstack[j - 1].thread, s, "dead")
             \/ \E k \in DOMAIN s : Recover(t, j, s, k) /\ Continuing(j, t, k - 1)
      BY <1>2, <3>2, ThrowIs
    <3> HIDE DEF j
    <3>4. ASSUME NEW k \in DOMAIN s, Recover(t, j, s, k), Continuing(j, t, k - 1)
          PROVE  NnyFits(cstack', nny', status')
      <4>1. nny' = [nny EXCEPT ![t] = 0] BY <3>4 DEF Recover
      <4> QED BY <1>0, <3>4, <4>1, NnyRecover
    <3> QED BY <1>0, <3>3, <3>4, NnyCaught, NnyEnding
  <2>2. CASE JavaPcall
    <3>1. Main \in LuaThreads BY DEF LuaThreads
    <3> QED BY <1>0, <1>2, <2>2, <3>1, NnyPcalled DEF JavaPcall
  <2>3. CASE JavaReturn
    BY <1>0, <1>2, <2>3, NnyJavaReturned
  <2>4. ASSUME NEW t \in LuaThreads, JavaCall(t) PROVE NnyFits(cstack', nny', status')
    BY <1>0, <1>2, <2>4, NnyJavaCalled
  <2>5. ASSUME NEW t \in LuaThreads, Pcall(t) PROVE NnyFits(cstack', nny', status')
    <3>1. InLua(t) BY <2>5 DEF Pcall
    <3>2. CASE DoCall(t, Append(ci[t], "pcallk"), <<>>, 0)
      <4>1. "pcallk" \in CFunctions /\ 0 \in {0, 1} BY DEF CFunctions
      <4> QED BY <1>0, <1>2, <3>1, <3>2, <4>1, NnyCalled
    <3>3. CASE DoCall(t, Append(ci[t], "pcallc"),
                      <<Raw(t, nCcalls[t], nny[t], Len(ci[t]))>>, 1)
      BY <1>0, <1>2, <3>1, <3>3, NnyPcalled
    <3> QED BY <2>5, <3>2, <3>3 DEF Pcall
  <2>6. ASSUME NEW t \in LuaThreads, CallBack(t) PROVE NnyFits(cstack', nny', status')
    <3>1. InLua(t) /\ DoCall(t, Append(ci[t], "ccall"), <<>>, 1) BY <2>6 DEF CallBack
    <3>2. "ccall" \in CFunctions /\ 1 \in {0, 1} BY DEF CFunctions
    <3> QED BY <1>0, <1>2, <3>1, <3>2, NnyCalled
  <2>7. ASSUME NEW t \in LuaThreads, Metamethod(t) PROVE NnyFits(cstack', nny', status')
    <3>1. InLua(t) /\ DoCall(t, ci[t], <<>>, 0) BY <2>7 DEF Metamethod
    <3> QED BY <1>0, <1>2, <3>1, NnyCalled
  <2>8. ASSUME NEW t \in LuaThreads, Return(t) PROVE NnyFits(cstack', nny', status')
    BY <1>0, <1>2, <2>8, NnyReturned
  <2>9. ASSUME NEW t \in LuaThreads, NEW c \in Coroutines, Resume(t, c)
        PROVE  NnyFits(cstack', nny', status')
    BY <1>0, <1>2, <2>9, NnyResumed
  <2>10. ASSUME NEW t \in LuaThreads, NEW c \in Coroutines, ResumeError(t, c)
         PROVE  NnyFits(cstack', nny', status')
    <3>1. /\ cstack' = cstack /\ status' = status /\ nny' = [nny EXCEPT ![c] = 1]
          /\ status[c] # "running"
      BY <2>10 DEF ResumeError
    <3>2. nny[c] = 1 BY <1>0, <3>1 DEF NnyFits
    <3>3. c \in LuaThreads /\ nny \in [LuaThreads -> Shorts]
      BY DEF LuaThreads, FramesInv, TypeOK
    <3>4. nny' = nny BY <3>1, <3>2, <3>3
    <3> QED BY <1>0, <3>1, <3>4
  <2>11. ASSUME NEW c \in Coroutines, Unroll(c) PROVE NnyFits(cstack', nny', status')
    <3> DEFINE n == Len(cstack)
    <3>1. \/ Ending(n, c, cstack[n - 1].thread, <<>>, "dead")
          \/ cstack' = cstack /\ nny' = nny /\ \E h \in Nat : Continuing(n, c, h)
      BY <1>2, <2>11, UnrollIs
    <3> HIDE DEF n
    <3>2. ASSUME cstack' = cstack, nny' = nny, NEW h \in Nat, Continuing(n, c, h)
          PROVE  NnyFits(cstack', nny', status')
      <4>1. status' = status BY <3>2 DEF Continuing
      <4> QED BY <1>0, <3>2, <4>1
    <3> QED BY <1>0, <3>1, <3>2, NnyEnding
  <2>12. ASSUME NEW c \in Coroutines, Yield(c) PROVE NnyFits(cstack', nny', status')
    <3> DEFINE j == JumpTarget(c)
    <3>1. Ending(j, c, cstack[j - 1].thread, ci[c], "suspended")
      BY <1>2, <2>12, YieldIs
    <3> HIDE DEF j
    <3> QED BY <1>0, <3>1, NnyEnding
  <2> QED BY <1>2, <2>1, <2>2, <2>3, <2>4, <2>5, <2>6, <2>7, <2>8, <2>9, <2>10, <2>11,
             <2>12, NextIs
<1> QED BY <1>1, <1>2 DEF Next

\* At first the main thread's nny counts the call that is none.
LEMMA NnyInit == Init => NnyInv
<1> SUFFICES ASSUME Init PROVE NnyFits(cstack, nny, status) BY DEF NnyInv
<1>1. /\ cstack = <<>> /\ nny = [t \in LuaThreads |-> 1]
      /\ Len(<<>>) = 0 /\ DOMAIN cstack = {}
  BY DEF Init
<1>2. Main \in LuaThreads /\ \A c \in Coroutines : c \in LuaThreads BY DEF LuaThreads
<1>3. NyCalls(cstack, Main) = {} BY <1>1 DEF NyCalls
<1>4. UpTo({}, 0) = 0
  <2>1. {k \in {} : k <= 0} = {} OBVIOUS
  <2> QED BY <2>1, FS_EmptySet DEF UpTo
<1>5. nny[Main] = Base(Main) + UpTo(NyCalls(cstack, Main), Len(cstack))
  <2>1. Len(cstack) = 0 /\ Base(Main) = 1 /\ nny[Main] = 1 BY <1>1, <1>2 DEF Base
  <2>2. UpTo(NyCalls(cstack, Main), Len(cstack)) = 0 BY <1>3, <1>4, <2>1
  <2> QED BY <2>1, <2>2
<1> QED BY <1>1, <1>2, <1>5 DEF NnyFits

-----------------------------------------------------------------------------
(* Coroutines that run *)

\* Every coroutine that runs has a lua_resume on the C stack, and every thread
\* has as many calls of coroutine.resume among its CallInfos as it has resumed
\* coroutines on the C stack; so it had when luaD_pcall was called.
ResumesFit(cs, q, st) ==
    /\ \A c \in Coroutines : st[c] = "running" =>
          \E i \in DOMAIN cs : cs[i].kind = "res" /\ cs[i].thread = c
    /\ \A t \in LuaThreads :
          UpTo(Resumes(q[t]), Len(q[t])) = UpTo(ResOver(cs, t), Len(cs))
    /\ \A i \in DOMAIN cs : cs[i].kind = "raw" =>
          UpTo(Resumes(q[cs[i].thread]), cs[i].depth) = UpTo(ResOver(cs, cs[i].thread), i)

ResumesInv == "protected" \in rules => ResumesFit(cstack, ci, status)

\* Lists with the same first d CallInfos.
LEMMA ResumesAgree ==
  ASSUME NEW s \in Seq(CallInfos), NEW u \in Seq(CallInfos), NEW d \in Nat,
         d <= Len(s), d <= Len(u), \A i \in 1..d : u[i] = s[i]
  PROVE  UpTo(Resumes(u), d) = UpTo(Resumes(s), d)
<1>1. /\ DOMAIN s = 1..Len(s) /\ DOMAIN u = 1..Len(u) /\ Len(s) \in Nat /\ Len(u) \in Nat
  OBVIOUS
<1>2. Resumes(s) \subseteq Positive /\ Resumes(u) \subseteq Positive
  BY <1>1 DEF Resumes, Positive
<1>3. \A k \in 1..d : k \in Resumes(u) <=> k \in Resumes(s) BY <1>1 DEF Resumes
<1> QED BY <1>2, <1>3, CountAgrees

\* A list that goes on without a resume.
LEMMA ResumesStay ==
  ASSUME NEW s \in Seq(CallInfos), NEW d \in Nat, d <= Len(s),
         \A i \in d + 1..Len(s) : s[i] # "resume"
  PROVE  UpTo(Resumes(s), Len(s)) = UpTo(Resumes(s), d)
<1>1. DOMAIN s = 1..Len(s) /\ Len(s) \in Nat OBVIOUS
<1>2. Resumes(s) \subseteq Positive BY <1>1 DEF Resumes, Positive
<1>3. \A k \in d + 1..Len(s) : k \notin Resumes(s) BY <1>1 DEF Resumes
<1> QED BY <1>1, <1>2, <1>3, CountStays

\* u is q with more CallInfos of t, and these call no coroutine.
Longer(q, u, t) ==
    /\ Len(q[t]) <= Len(u[t])
    /\ \A i \in 1..Len(q[t]) : u[t][i] = q[t][i]
    /\ \A i \in Len(q[t]) + 1..Len(u[t]) : u[t][i] # "resume"
    /\ \A x \in LuaThreads \ {t} : u[x] = q[x]

\* An entry is pushed, not a coroutine's lua_resume.
LEMMA ResumesPushed ==
  ASSUME NEW cs \in Seq(Entry), NEW q \in CiLists, NEW u \in CiLists, NEW st,
         Depths(cs, q), ResumesFit(cs, q, st),
         NEW e \in Entry, e.kind # "res", e.kind = "raw" => e.depth = Len(q[e.thread]),
         Longer(q, u, e.thread)
  PROVE  ResumesFit(Append(cs, e), u, st)
<1> DEFINE n == Len(cs)
           b == Append(cs, e)
<1>1. /\ b \in Seq(Entry) /\ n \in Nat /\ Len(b) = n + 1
      /\ DOMAIN cs = 1..n /\ DOMAIN b = 1..n + 1
      /\ \A i \in 1..n : b[i] = cs[i]
      /\ b[n + 1] = e
  BY AppendIs
<1>2. ASSUME NEW y \in LuaThreads
      PROVE  /\ \A i \in 0..n : UpTo(ResOver(b, y), i) = UpTo(ResOver(cs, y), i)
             /\ UpTo(ResOver(b, y), n + 1) = UpTo(ResOver(cs, y), n)
  <2>1. /\ ResOver(cs, y) \subseteq Positive
        /\ \A i \in 0..n : UpTo(ResOver(b, y), i) = UpTo(ResOver(cs, y), i)
        /\ UpTo(ResOver(b, y), n + 1) = UpTo(ResOver(cs, y), n)
              + (IF e.kind = "res" /\ cs # <<>> /\ Last(cs).thread = y THEN 1 ELSE 0)
    BY CountsPushed
  <2>2. UpTo(ResOver(cs, y), n) \in Nat BY <1>1, <2>1, CountIs
  <2> HIDE DEF b, n
  <2>3. UpTo(ResOver(b, y), n + 1) = UpTo(ResOver(cs, y), n) + 0 BY <2>1
  <2> QED BY <2>1, <2>2, <2>3
<1>3. e.thread \in LuaThreads /\ e.depth \in Nat BY DEF Entry
<1>4. \A y \in LuaThreads :
         q[y] \in Seq(CallInfos) /\ u[y] \in Seq(CallInfos) /\ Len(q[y]) \in Nat
         /\ Len(u[y]) \in Nat
  BY DEF CiLists
<1> HIDE DEF b, n
<1>5. ASSUME NEW y \in LuaThreads, NEW d \in 0..Len(q[y])
      PROVE  UpTo(Resumes(u[y]), d) = UpTo(Resumes(q[y]), d)
  <2>1. CASE y = e.thread
    <3>1. d \in Nat /\ d <= Len(q[y]) /\ d <= Len(u[y]) /\ \A i \in 1..d : u[y][i] = q[y][i]
      BY <1>4, <1>5, <2>1 DEF Longer
    <3> QED BY <1>4, <3>1, ResumesAgree
  <2>2. CASE y # e.thread BY <2>2 DEF Longer
  <2> QED BY <2>1, <2>2
<1>6. ASSUME NEW y \in LuaThreads
      PROVE  UpTo(Resumes(u[y]), Len(u[y])) = UpTo(ResOver(b, y), n + 1)
  <2>1. UpTo(Resumes(q[y]), Len(q[y])) = UpTo(ResOver(cs, y), n) BY DEF ResumesFit, n
  <2>2. UpTo(Resumes(u[y]), Len(q[y])) = UpTo(Resumes(q[y]), Len(q[y]))
    <3>1. Len(q[y]) \in 0..Len(q[y]) BY <1>4
    <3> QED BY <1>5, <3>1
  <2>3. UpTo(Resumes(u[y]), Len(u[y])) = UpTo(Resumes(u[y]), Len(q[y]))
    <3>1. CASE y = e.thread
      <4>1. Len(q[y]) <= Len(u[y]) /\ \A i \in Len(q[y]) + 1..Len(u[y]) : u[y][i] # "resume"
        BY <3>1 DEF Longer
      <4> QED BY <1>4, <4>1, ResumesStay
    <3>2. CASE y # e.thread BY <3>2 DEF Longer
    <3> QED BY <3>1, <3>2
  <2> QED BY <1>2, <2>1, <2>2, <2>3
<1>7. ASSUME NEW i \in DOMAIN b, b[i].kind = "raw"
      PROVE  UpTo(Resumes(u[b[i].thread]), b[i].depth) = UpTo(ResOver(b, b[i].thread), i)
  <2>1. CASE i \in 1..n
    <3>1. UpTo(Resumes(q[cs[i].thread]), cs[i].depth) = UpTo(ResOver(cs, cs[i].thread), i)
      BY <1>1, <1>7, <2>1 DEF ResumesFit
    <3>2. cs[i].thread \in LuaThreads /\ cs[i].depth \in Nat BY <1>1, <2>1, EntriesAre
    <3>3. cs[i].depth \in 0..Len(q[cs[i].thread]) BY <1>1, <1>4, <2>1, <3>2 DEF Depths
    <3>4. i \in 0..n BY <1>1, <2>1
    <3>5. b[i] = cs[i] BY <1>1, <2>1
    <3> QED BY <1>2, <1>5, <3>1, <3>2, <3>3, <3>4, <3>5
  <2>2. CASE i = n + 1
    <3>1. b[i] = e BY <1>1, <2>2
    <3>2. e.depth = Len(q[e.thread]) /\ e.depth \in 0..Len(q[e.thread])
      BY <1>3, <1>4, <1>7, <3>1
    <3>3. UpTo(Resumes(u[e.thread]), e.depth) = UpTo(Resumes(q[e.thread]), Len(q[e.thread]))
      BY <1>3, <1>5, <3>2
    <3>4. UpTo(Resumes(q[e.thread]), Len(q[e.thread])) = UpTo(ResOver(cs, e.thread), n)
      BY <1>3 DEF ResumesFit, n
    <3> QED BY <1>2, <1>3, <2>2, <3>1, <3>3, <3>4
  <2> QED BY <1>1, <1>7, <2>1, <2>2
<1>8. ASSUME NEW c \in Coroutines, st[c] = "running"
      PROVE  \E i \in DOMAIN b : b[i].kind = "res" /\ b[i].thread = c
  <2>1. PICK i \in DOMAIN cs : cs[i].kind = "res" /\ cs[i].thread = c
    BY <1>8 DEF ResumesFit
  <2>2. i \in DOMAIN b /\ b[i] = cs[i] BY <1>1, <2>1
  <2> QED BY <2>1, <2>2
<1> QED BY <1>1, <1>6, <1>7, <1>8 DEF ResumesFit, b

\* The C stack is cut, and u has the CallInfos left.
LEMMA ResumesCut ==
  ASSUME NEW cs \in Seq(Entry), NEW q, NEW u, NEW st, NEW st2, ResumesFit(cs, q, st),
         NEW m \in 0..Len(cs),
         \A t \in LuaThreads : UpTo(Resumes(u[t]), Len(u[t])) = UpTo(ResOver(cs, t), m),
         \A i \in 1..m : cs[i].kind = "raw" =>
            UpTo(Resumes(u[cs[i].thread]), cs[i].depth)
               = UpTo(Resumes(q[cs[i].thread]), cs[i].depth),
         \A c \in Coroutines : st2[c] = "running" =>
            \E i \in 1..m : cs[i].kind = "res" /\ cs[i].thread = c
  PROVE  ResumesFit(SubSeq(cs, 1, m), u, st2)
<1> DEFINE b == SubSeq(cs, 1, m)
<1>2. /\ b \in Seq(Entry) /\ Len(b) = m /\ DOMAIN b = 1..m
      /\ \A i \in 1..m : b[i] = cs[i] /\ i \in DOMAIN cs
  BY PrefixIs
<1>3. \A t : \A i \in 0..m : UpTo(ResOver(b, t), i) = UpTo(ResOver(cs, t), i)
  BY CountsCut
<1>4. m \in Nat /\ m \in 0..m BY EntriesAre
<1> HIDE DEF b
<1>6. ASSUME NEW t \in LuaThreads
      PROVE  UpTo(Resumes(u[t]), Len(u[t])) = UpTo(ResOver(b, t), m)
  BY <1>3, <1>4
<1>7. ASSUME NEW i \in DOMAIN b, b[i].kind = "raw"
      PROVE  UpTo(Resumes(u[b[i].thread]), b[i].depth) = UpTo(ResOver(b, b[i].thread), i)
  <2>1. UpTo(Resumes(q[cs[i].thread]), cs[i].depth) = UpTo(ResOver(cs, cs[i].thread), i)
    BY <1>2, <1>7 DEF ResumesFit
  <2>2. i \in 0..m BY <1>2, <1>4, <1>7
  <2> QED BY <1>2, <1>3, <1>7, <2>1, <2>2
<1>8. \A c \in Coroutines : st2[c] = "running" =>
         \E i \in DOMAIN b : b[i].kind = "res" /\ b[i].thread = c
  BY <1>2
<1> QED BY <1>2, <1>6, <1>7, <1>8 DEF ResumesFit, b

\* No lua_resume goes above m: the counts of ResOver stay.
LEMMA NoResAbove ==
  ASSUME NEW cs \in Seq(Entry), NEW m \in 0..Len(cs), NEW y,
         \A i \in m + 1..Len(cs) : cs[i].kind # "res" \/ cs[i - 1].thread # y
  PROVE  /\ UpTo(ResOver(cs, y), Len(cs)) = UpTo(ResOver(cs, y), m)
         /\ ResOver(cs, y) \subseteq Positive
<1>1. Len(cs) \in Nat /\ m \in Nat /\ m <= Len(cs) BY EntriesAre
<1>2. ResOver(cs, y) \subseteq Positive BY <1>1 DEF ResOver, Positive
<1>3. \A k \in m + 1..Len(cs) : k \notin ResOver(cs, y) BY DEF ResOver
<1> QED BY <1>1, <1>2, <1>3, CountStays

\* Entries of the innermost thread t go, from where luaD_pcall was called or
\* the last one.
LEMMA ResumesCutting ==
  ASSUME FramesInv, ResumesFit(cstack, ci, status), NEW m, NEW t, Cutting(m, t),
         \A i \in m + 1..Len(cstack) : cstack[i].kind # "res",
         cstack[m + 1].kind = "raw" \/ m = Len(cstack) - 1
  PROVE  ResumesFit(cstack', ci', status')
<1> DEFINE d == cstack[m + 1].depth
           n == Len(cstack)
<1>0. /\ m \in 0..Len(cstack) - 1 /\ t = cstack[m + 1].thread
      /\ cstack' = SubSeq(cstack, 1, m) /\ status' = status
      /\ ci' = [ci EXCEPT ![t] = SubSeq(ci[t], 1, cstack[m + 1].depth)]
  BY DEF Cutting
<1>1. /\ cstack \in Seq(Entry) /\ ci \in CiLists
      /\ OnTop(cstack, ci) /\ Depths(cstack, ci)
  BY DEF FramesInv, Frames, TypeOK, Layout
<1>2. /\ n \in Nat /\ DOMAIN cstack = 1..n /\ m + 1 \in 1..n
      /\ m \in 0..n /\ m \in Nat /\ m + 1 <= n
      /\ m + 1 \in m + 1..n
  BY <1>0, <1>1, EntriesAre
<1>21. n \in Nat /\ m \in Nat /\ m + 1 <= n BY <1>2
<1>22. /\ \A i \in 1..m : i \in DOMAIN cstack /\ i < m + 1
      /\ m + 1 \in DOMAIN cstack
      /\ \A i \in DOMAIN cstack : i \in 1..m \/ i \in m + 1..n
  <2> HIDE DEF n
  <2> QED BY <1>2, <1>21
<1>3. /\ t \in LuaThreads /\ d \in Nat /\ cstack[m + 1] \in Entry
      /\ cstack[m + 1].kind \in {"call", "raw", "res", "java"}
  BY <1>0, <1>1, <1>2, EntriesAre
<1>4. /\ ci[t] \in Seq(CallInfos) /\ Len(ci[t]) \in Nat /\ d <= Len(ci[t])
      /\ d \in 0..Len(ci[t])
  <2>1. ci[t] \in Seq(CallInfos) /\ Len(ci[t]) \in Nat BY <1>1, <1>3 DEF CiLists
  <2>2. m + 1 \in DOMAIN cstack BY <1>2
  <2>3. d <= Len(ci[t]) BY <1>0, <1>1, <2>2 DEF Depths
  <2> HIDE DEF d
  <2> QED BY <1>3, <2>1, <2>3
<1>5. /\ ci'[t] = SubSeq(ci[t], 1, d) /\ ci'[t] \in Seq(CallInfos) /\ Len(ci'[t]) = d
      /\ \A i \in 1..d : ci'[t][i] = ci[t][i]
      /\ \A x \in LuaThreads \ {t} : ci'[x] = ci[x]
  BY <1>0, <1>1, <1>3, <1>4, PrefixIs DEF CiLists
<1> HIDE DEF d
<1>6. \A k \in 0..d : UpTo(Resumes(ci'[t]), k) = UpTo(Resumes(ci[t]), k)
  <2>1. ASSUME NEW k \in 0..d PROVE UpTo(Resumes(ci'[t]), k) = UpTo(Resumes(ci[t]), k)
    <3>1. k \in Nat /\ k <= Len(ci[t]) /\ k <= Len(ci'[t])
          /\ \A i \in 1..k : ci'[t][i] = ci[t][i]
      BY <1>3, <1>4, <1>5
    <3> QED BY <1>4, <1>5, <3>1, ResumesAgree
  <2> QED BY <2>1
<1>7. ASSUME NEW y \in LuaThreads
      PROVE  /\ UpTo(ResOver(cstack, y), n) = UpTo(ResOver(cstack, y), m)
             /\ ResOver(cstack, y) \subseteq Positive
  <2>1. \A i \in m + 1..Len(cstack) : cstack[i].kind # "res" \/ cstack[i - 1].thread # y
    OBVIOUS
  <2> QED BY <1>1, <1>2, <2>1, NoResAbove
<1>8. UpTo(Resumes(ci[t]), d) = UpTo(ResOver(cstack, t), m)
  <2>1. CASE cstack[m + 1].kind = "raw"
    <3>1. UpTo(Resumes(ci[t]), d) = UpTo(ResOver(cstack, t), m + 1)
      BY <1>0, <1>2, <2>1 DEF ResumesFit, d
    <3>2. m + 1 \notin ResOver(cstack, t) BY <2>1 DEF ResOver
    <3>3. UpTo(ResOver(cstack, t), m) \in Nat BY <1>2, <1>3, <1>7, CountIs
    <3>4. UpTo(ResOver(cstack, t), m + 1) = UpTo(ResOver(cstack, t), m)
             + (IF m + 1 \in ResOver(cstack, t) THEN 1 ELSE 0)
      BY <1>2, <1>3, <1>7, CountNext
    <3> QED BY <3>1, <3>2, <3>3, <3>4
  <2>2. CASE cstack[m + 1].kind # "raw"
    <3>1. m = n - 1 BY <2>2
    <3>2. LastOfThread(cstack, m + 1) /\ ~Resuming(cstack, m + 1)
      <4>1. m + 1 = Len(cstack) /\ Len(cstack) \in Nat BY <1>21, <3>1
      <4> QED BY <4>1 DEF LastOfThread, Resuming
    <3>3. Shape(cstack[m + 1], ci[t], Len(ci[t]), Resuming(cstack, m + 1))
      BY <1>0, <1>1, <1>2, <3>2 DEF OnTop
    <3>4. cstack[m + 1].kind # "res" BY <1>2
    <3>5. \A i \in d + 1..Len(ci[t]) : ci[t][i] # "resume"
      BY <1>3, <1>4, <2>2, <3>2, <3>3, <3>4 DEF Shape, d, CFunctions
    <3>6. UpTo(Resumes(ci[t]), Len(ci[t])) = UpTo(Resumes(ci[t]), d)
      BY <1>3, <1>4, <3>5, ResumesStay
    <3>7. UpTo(Resumes(ci[t]), Len(ci[t])) = UpTo(ResOver(cstack, t), n)
      BY <1>3 DEF ResumesFit
    <3> QED BY <1>3, <1>7, <3>6, <3>7
  <2> QED BY <2>1, <2>2
<1>9. ASSUME NEW y \in LuaThreads
      PROVE  UpTo(Resumes(ci'[y]), Len(ci'[y])) = UpTo(ResOver(cstack, y), m)
  <2>1. CASE y = t
    <3>1. d \in 0..d BY <1>3
    <3> QED BY <1>5, <1>6, <1>8, <2>1, <3>1
  <2>2. CASE y # t
    <3>1. ci'[y] = ci[y] BY <1>5, <2>2
    <3>2. UpTo(Resumes(ci[y]), Len(ci[y])) = UpTo(ResOver(cstack, y), n)
      BY DEF ResumesFit
    <3> QED BY <1>7, <3>1, <3>2
  <2> QED BY <2>1, <2>2
<1>10. ASSUME NEW i \in 1..m, cstack[i].kind = "raw"
       PROVE  UpTo(Resumes(ci'[cstack[i].thread]), cstack[i].depth)
                 = UpTo(Resumes(ci[cstack[i].thread]), cstack[i].depth)
  <2>1. i \in DOMAIN cstack /\ i \in 1..n /\ i < m + 1 /\ m + 1 \in DOMAIN cstack
    BY <1>2, <1>22, <1>10
  <2>2. cstack[i].thread \in LuaThreads /\ cstack[i].depth \in Nat
    BY <1>1, <2>1, EntriesAre
  <2>3. CASE cstack[i].thread = t
    <3>1. cstack[i].depth <= d BY <1>0, <1>1, <2>1, <2>3 DEF Depths, d
    <3>2. cstack[i].depth \in 0..d BY <1>3, <2>2, <3>1
    <3> QED BY <1>6, <2>3, <3>2
  <2>4. CASE cstack[i].thread # t BY <1>5, <2>2, <2>4
  <2> QED BY <2>3, <2>4
<1>11. ASSUME NEW c \in Coroutines, status'[c] = "running"
       PROVE  \E i \in 1..m : cstack[i].kind = "res" /\ cstack[i].thread = c
  <2>1. PICK i \in DOMAIN cstack : cstack[i].kind = "res" /\ cstack[i].thread = c
    BY <1>0, <1>11 DEF ResumesFit
  <2>2. i \notin m + 1..n BY <2>1
  <2>3. i \in 1..m BY <1>22, <2>1, <2>2
  <2> QED BY <2>1, <2>3
<1>12. m \in 0..Len(cstack) BY <1>2
<1>13. ResumesFit(SubSeq(cstack, 1, m), ci', status')
  BY <1>1, <1>9, <1>10, <1>11, <1>12, ResumesCut
<1> QED BY <1>0, <1>13

\* What a coroutine that has resumed no other knows of resumes.
LEMMA NoneResumed ==
  ASSUME FramesInv, ResumesFit(cstack, ci, status), NEW c \in LuaThreads,
         \A k \in 2..Len(cstack) : cstack[k].kind = "res" => cstack[k - 1].thread # c
  PROVE  /\ \A i \in Nat : UpTo(ResOver(cstack, c), i) = 0
         /\ \A i \in DOMAIN ci[c] : ci[c][i] # "resume"
<1>1. cstack \in Seq(Entry) /\ ci[c] \in Seq(CallInfos) BY DEF FramesInv, TypeOK, CiLists
<1>2. ResOver(cstack, c) = {} BY DEF ResOver
<1>3. ASSUME NEW i \in Nat PROVE UpTo(ResOver(cstack, c), i) = 0
  <2>1. ResOver(cstack, c) \subseteq Positive /\ \A k \in 1..i : k \notin ResOver(cstack, c)
    BY <1>2
  <2> QED BY <2>1, CountNone
<1>4. Len(cstack) \in Nat BY <1>1
<1>5. UpTo(Resumes(ci[c]), Len(ci[c])) = 0 BY <1>3, <1>4 DEF ResumesFit
<1>6. Len(ci[c]) \in Nat /\ DOMAIN ci[c] = 1..Len(ci[c]) BY <1>1
<1>7. Resumes(ci[c]) \subseteq 1..Len(ci[c]) BY <1>6 DEF Resumes
<1>8. Resumes(ci[c]) = {} BY <1>5, <1>6, <1>7, CountAll
<1> QED BY <1>3, <1>8 DEF Resumes

\* A coroutine yields or ends.
LEMMA ResumesEnding ==
  ASSUME FramesInv, ResumesFit(cstack, ci, status),
         NEW j, NEW c, NEW f, NEW s, NEW new, Ending(j, c, f, s, new)
  PROVE  ResumesFit(cstack', ci', status')
<1> DEFINE n == Len(cstack)
<1>0. /\ j \in DOMAIN cstack /\ \A i \in j..n : cstack[i].thread = c
      /\ cstack[j].kind = "res" /\ cstack[j].thread = c /\ f = cstack[j - 1].thread
      /\ EndResume(c, j, s, new) /\ new # "running"
      /\ s \in Seq(CallInfos) /\ Len(s) <= Len(ci[c])
      /\ \A i \in 1..Len(s) : s[i] = ci[c][i]
  BY DEF Ending
<1>1. /\ cstack \in Seq(Entry) /\ ci \in CiLists /\ status \in [Coroutines -> Statuses]
      /\ Blocks(cstack, status)
  BY DEF FramesInv, Frames, TypeOK
<1>2. /\ j > 1 /\ c \in Coroutines /\ f \in LuaThreads /\ f # c /\ c \in LuaThreads
      /\ cstack' = SubSeq(cstack, 1, j - 1)
      /\ ci'[c] = s
      /\ ci[f] # <<>> /\ Last(ci[f]) = "resume" /\ ci'[f] = Front(ci[f])
      /\ \A x \in LuaThreads \ {c, f} : ci'[x] = ci[x]
      /\ \A i \in 1..j - 1 : cstack[i].thread = f => cstack[i].depth <= Len(ci'[f])
      /\ \A i \in 1..j - 1 : cstack[i].thread # c
  BY EndFrames DEF LuaThreads
<1>3. /\ n \in Nat /\ DOMAIN cstack = 1..n /\ j \in 1..n
      /\ j - 1 \in Nat /\ j - 1 \in 0..n /\ (j - 1) + 1 = j /\ j \in 2..n
  BY <1>0, <1>1, <1>2, EntriesAre
<1>4. /\ \A i \in 1..j - 1 : i \in DOMAIN cstack /\ i < j
      /\ \A i \in DOMAIN cstack : i \in 1..j - 1 \/ i \in j..n
  BY <1>3
<1>5. \A k \in j + 1..n : cstack[k].kind # "res"
  <2>1. ASSUME NEW k \in j + 1..n PROVE cstack[k].kind # "res"
    <3>1. k \in j..n /\ k \in DOMAIN cstack /\ k # j BY <1>3, <2>1
    <3> QED BY <1>0, <1>1, <3>1 DEF Blocks
  <2> QED BY <2>1
<1>6. \A k \in 2..n : cstack[k].kind = "res" => cstack[k - 1].thread # c
  <2>1. ASSUME NEW k \in 2..n, cstack[k].kind = "res" PROVE cstack[k - 1].thread # c
    <3>1. k \notin j + 1..n BY <1>5, <2>1
    <3>2. k - 1 \in 1..j - 1 BY <1>3, <2>1, <3>1
    <3> QED BY <1>2, <3>2
  <2> QED BY <2>1
<1>7. /\ \A i \in Nat : UpTo(ResOver(cstack, c), i) = 0
      /\ \A i \in DOMAIN ci[c] : ci[c][i] # "resume"
  BY <1>2, <1>6, NoneResumed
<1>8. status' = [status EXCEPT ![c] = new] BY <1>0 DEF EndResume
<1> HIDE DEF n
<1>9. ASSUME NEW y \in LuaThreads
      PROVE  UpTo(ResOver(cstack, y), n)
                = UpTo(ResOver(cstack, y), j - 1) + (IF y = f THEN 1 ELSE 0)
  <2>1. ResOver(cstack, y) \subseteq Positive BY <1>3 DEF ResOver, Positive, n
  <2>2. \A k \in j + 1..n : k \notin ResOver(cstack, y) BY <1>5 DEF ResOver
  <2>3. j \in Nat /\ j <= n BY <1>3
  <2>4. UpTo(ResOver(cstack, y), n) = UpTo(ResOver(cstack, y), j)
    BY <1>3, <2>1, <2>2, <2>3, CountStays
  <2>5. j \in ResOver(cstack, y) <=> y = f BY <1>0, <1>3 DEF ResOver, n
  <2>6. UpTo(ResOver(cstack, y), (j - 1) + 1) = UpTo(ResOver(cstack, y), j - 1)
           + (IF (j - 1) + 1 \in ResOver(cstack, y) THEN 1 ELSE 0)
    BY <1>3, <2>1, CountNext
  <2> QED BY <1>3, <2>4, <2>5, <2>6
<1>10. ASSUME NEW y \in LuaThreads
       PROVE  UpTo(Resumes(ci[y]), Len(ci[y])) = UpTo(ResOver(cstack, y), n)
  BY DEF ResumesFit, n
<1>11. ASSUME NEW y \in LuaThreads PROVE UpTo(ResOver(cstack, y), j - 1) \in Nat
  <2>1. ResOver(cstack, y) \subseteq Positive BY <1>3 DEF ResOver, Positive, n
  <2> QED BY <1>3, <2>1, CountIs
<1>12. /\ ci[f] \in Seq(CallInfos) /\ ci'[f] \in Seq(CallInfos)
       /\ Len(ci[f]) = Len(ci'[f]) + 1 /\ Len(ci'[f]) \in Nat
       /\ \A i \in 1..Len(ci'[f]) : ci'[f][i] = ci[f][i]
       /\ ci[f][Len(ci'[f]) + 1] = "resume"
  <2>1. ci[f] \in Seq(CallInfos) /\ Len(ci[f]) \in Nat BY <1>1, <1>2 DEF CiLists
  <2>2. Len(ci[f]) # 0 BY <1>2, <2>1
  <2>3. Len(ci[f]) - 1 \in 0..Len(ci[f]) /\ Len(ci[f]) - 1 \in Nat
        /\ (Len(ci[f]) - 1) + 1 = Len(ci[f])
    BY <2>1, <2>2
  <2>4. ci'[f] = SubSeq(ci[f], 1, Len(ci[f]) - 1) /\ ci[f][Len(ci[f])] = "resume"
    BY <1>2 DEF Front, Last
  <2>5. /\ ci'[f] \in Seq(CallInfos) /\ Len(ci'[f]) = Len(ci[f]) - 1
        /\ \A i \in 1..Len(ci[f]) - 1 : ci'[f][i] = ci[f][i]
    BY <2>1, <2>3, <2>4, PrefixIs
  <2> QED BY <2>1, <2>3, <2>4, <2>5
<1>13. UpTo(Resumes(ci[f]), Len(ci[f])) = UpTo(Resumes(ci'[f]), Len(ci'[f])) + 1
  <2>1. Resumes(ci[f]) \subseteq Positive BY <1>12 DEF Resumes, Positive
  <2>2. Len(ci'[f]) + 1 \in Resumes(ci[f])
    <3>1. Len(ci'[f]) + 1 \in DOMAIN ci[f] BY <1>12
    <3> QED BY <1>12, <3>1 DEF Resumes
  <2>3. UpTo(Resumes(ci[f]), Len(ci'[f]) + 1) = UpTo(Resumes(ci[f]), Len(ci'[f])) + 1
    BY <1>12, <2>1, <2>2, CountNext
  <2>4. UpTo(Resumes(ci'[f]), Len(ci'[f])) = UpTo(Resumes(ci[f]), Len(ci'[f]))
    <3>1. Len(ci'[f]) <= Len(ci[f]) /\ Len(ci'[f]) <= Len(ci'[f]) BY <1>12
    <3> QED BY <1>12, <3>1, ResumesAgree
  <2> QED BY <1>12, <2>3, <2>4
<1>14. UpTo(Resumes(s), Len(s)) = 0
  <2>1. Len(s) \in Nat /\ DOMAIN s = 1..Len(s) BY <1>0
  <2>2. ci[c] \in Seq(CallInfos) /\ Len(ci[c]) \in Nat /\ DOMAIN ci[c] = 1..Len(ci[c])
    BY <1>1, <1>2 DEF CiLists
  <2>3. \A i \in DOMAIN s : s[i] # "resume" BY <1>0, <1>7, <2>1, <2>2
  <2>4. Resumes(s) = {} BY <2>3 DEF Resumes
  <2> QED BY <2>1, <2>4, CountNone
<1>15. ASSUME NEW y \in LuaThreads
       PROVE  UpTo(Resumes(ci'[y]), Len(ci'[y])) = UpTo(ResOver(cstack, y), j - 1)
  <2>1. CASE y = c BY <1>2, <1>3, <1>7, <1>14, <2>1
  <2>2. CASE y = f
    <3>1. UpTo(ResOver(cstack, f), j - 1) + 1 = UpTo(Resumes(ci'[f]), Len(ci'[f])) + 1
      BY <1>2, <1>9, <1>10, <1>13
    <3>2. UpTo(ResOver(cstack, f), j - 1) \in Nat BY <1>2, <1>11
    <3>3. UpTo(Resumes(ci'[f]), Len(ci'[f])) \in Nat
      <4>1. Resumes(ci'[f]) \subseteq Positive BY <1>12 DEF Resumes, Positive
      <4> QED BY <1>12, <4>1, CountIs
    <3> QED BY <2>2, <3>1, <3>2, <3>3
  <2>3. CASE y # c /\ y # f
    <3>1. ci'[y] = ci[y] BY <1>2, <2>3
    <3>2. UpTo(ResOver(cstack, y), n) = UpTo(ResOver(cstack, y), j - 1) + 0
      BY <1>9, <2>3
    <3>3. UpTo(ResOver(cstack, y), j - 1) \in Nat BY <1>11
    <3> QED BY <1>10, <3>1, <3>2, <3>3
  <2> QED BY <2>1, <2>2, <2>3
<1>16. ASSUME NEW i \in 1..j - 1, cstack[i].kind = "raw"
       PROVE  UpTo(Resumes(ci'[cstack[i].thread]), cstack[i].depth)
                 = UpTo(Resumes(ci[cstack[i].thread]), cstack[i].depth)
  <2>1. i \in 1..n /\ cstack[i].thread # c BY <1>2, <1>3, <1>4, <1>16
  <2>2. cstack[i].thread \in LuaThreads /\ cstack[i].depth \in Nat
    BY <1>1, <2>1, EntriesAre DEF n
  <2>3. CASE cstack[i].thread = f
    <3>1. cstack[i].depth <= Len(ci'[f]) BY <1>2, <2>3
    <3>2. cstack[i].depth <= Len(ci[f])
          /\ \A k \in 1..cstack[i].depth : ci'[f][k] = ci[f][k]
      BY <1>12, <2>2, <3>1
    <3> QED BY <1>12, <2>2, <2>3, <3>1, <3>2, ResumesAgree
  <2>4. CASE cstack[i].thread # f BY <1>2, <2>1, <2>2, <2>4
  <2> QED BY <2>3, <2>4
<1>17. ASSUME NEW x \in Coroutines, status'[x] = "running"
       PROVE  \E i \in 1..j - 1 : cstack[i].kind = "res" /\ cstack[i].thread = x
  <2>1. x # c /\ status[x] = "running" BY <1>0, <1>1, <1>8, <1>17
  <2>2. PICK i \in DOMAIN cstack : cstack[i].kind = "res" /\ cstack[i].thread = x
    BY <2>1 DEF ResumesFit
  <2>3. i \notin j..n BY <1>0, <2>1, <2>2 DEF n
  <2> QED BY <1>4, <2>2, <2>3
<1>18. j - 1 \in 0..Len(cstack) BY <1>3 DEF n
<1>19. ResumesFit(SubSeq(cstack, 1, j - 1), ci', status')
  BY <1>1, <1>15, <1>16, <1>17, <1>18, ResumesCut
<1> QED BY <1>2, <1>19

\* A pcall of a coroutine gets an error, or unroll goes on.
LEMMA ResumesContinuing ==
  ASSUME FramesInv, ResumesFit(cstack, ci, status), NEW j, NEW c, NEW h, Continuing(j, c, h)
  PROVE  ResumesFit(cstack', ci', status')
<1> DEFINE n == Len(cstack)
<1>0. /\ j \in DOMAIN cstack /\ \A i \in j..n : cstack[i].thread = c
      /\ cstack[j].kind = "res" /\ cstack[j].thread = c
      /\ cstack' = SubSeq(cstack, 1, j) /\ status' = status /\ h \in 1..Len(ci[c])
  BY DEF Continuing
<1>1. /\ cstack \in Seq(Entry) /\ Blocks(cstack, status)
  BY DEF FramesInv, Frames, TypeOK
<1>2. /\ c \in Coroutines /\ c \in LuaThreads
      /\ \A i \in 1..j - 1 : cstack[i].thread # c
      /\ ci[c] \in Seq(CallInfos) /\ ci' \in CiLists
      /\ Len(ci'[c]) = h /\ \A i \in 1..h : ci'[c][i] = ci[c][i]
      /\ \A x \in LuaThreads \ {c} : ci'[x] = ci[x]
  BY ContinueFrames DEF LuaThreads
<1>3. /\ n \in Nat /\ DOMAIN cstack = 1..n /\ j \in 1..n
      /\ j \in Nat /\ j \in 0..n
  BY <1>0, <1>1, EntriesAre
<1>4. /\ \A i \in 1..j : i \in DOMAIN cstack /\ (i = j \/ i \in 1..j - 1)
      /\ \A i \in DOMAIN cstack : i \in 1..j \/ i \in j..n
  BY <1>3
<1>5. \A k \in j + 1..n : cstack[k].kind # "res"
  <2>1. ASSUME NEW k \in j + 1..n PROVE cstack[k].kind # "res"
    <3>1. k \in j..n /\ k \in DOMAIN cstack /\ k # j BY <1>3, <2>1
    <3> QED BY <1>0, <1>1, <3>1 DEF Blocks
  <2> QED BY <2>1
<1>6. \A k \in 2..n : cstack[k].kind = "res" => cstack[k - 1].thread # c
  <2>1. ASSUME NEW k \in 2..n, cstack[k].kind = "res" PROVE cstack[k - 1].thread # c
    <3>1. k \notin j + 1..n BY <1>5, <2>1
    <3>2. k - 1 \in 1..j - 1 BY <1>3, <2>1, <3>1
    <3> QED BY <1>2, <3>2
  <2> QED BY <2>1
<1>7. /\ \A i \in Nat : UpTo(ResOver(cstack, c), i) = 0
      /\ \A i \in DOMAIN ci[c] : ci[c][i] # "resume"
  BY <1>2, <1>6, NoneResumed
<1>8. ASSUME NEW y \in LuaThreads
      PROVE  UpTo(Resumes(ci'[y]), Len(ci'[y])) = UpTo(ResOver(cstack, y), j)
  <2>1. CASE y = c
    <3>1. ci'[c] \in Seq(CallInfos) /\ h \in Nat BY <1>0, <1>2 DEF CiLists
    <3>2. DOMAIN ci'[c] = 1..h /\ \A i \in 1..h : i \in DOMAIN ci[c]
      BY <1>0, <1>2, <3>1
    <3>3. Resumes(ci'[c]) = {} BY <1>2, <1>7, <3>2 DEF Resumes
    <3>4. UpTo(Resumes(ci'[c]), Len(ci'[c])) = 0 BY <1>2, <3>1, <3>3, CountNone
    <3> QED BY <1>3, <1>7, <2>1, <3>4
  <2>2. CASE y # c
    <3>1. \A i \in j + 1..Len(cstack) : cstack[i].kind # "res" \/ cstack[i - 1].thread # y
      BY <1>5
    <3>2. UpTo(ResOver(cstack, y), n) = UpTo(ResOver(cstack, y), j)
      BY <1>1, <1>3, <3>1, NoResAbove
    <3>3. UpTo(Resumes(ci[y]), Len(ci[y])) = UpTo(ResOver(cstack, y), n) BY DEF ResumesFit
    <3> QED BY <1>2, <2>2, <3>2, <3>3
  <2> QED BY <2>1, <2>2
<1>9. ASSUME NEW i \in 1..j, cstack[i].kind = "raw"
      PROVE  UpTo(Resumes(ci'[cstack[i].thread]), cstack[i].depth)
                = UpTo(Resumes(ci[cstack[i].thread]), cstack[i].depth)
  <2>1. i \in 1..n /\ cstack[i].thread # c BY <1>0, <1>2, <1>3, <1>4, <1>9
  <2>2. cstack[i].thread \in LuaThreads BY <1>1, <2>1, EntriesAre
  <2> QED BY <1>2, <2>1, <2>2
<1>10. ASSUME NEW x \in Coroutines, status'[x] = "running"
       PROVE  \E i \in 1..j : cstack[i].kind = "res" /\ cstack[i].thread = x
  <2>1. CASE x = c
    <3>1. j \in 1..j BY <1>3
    <3> QED BY <1>0, <2>1, <3>1
  <2>2. CASE x # c
    <3>1. PICK i \in DOMAIN cstack : cstack[i].kind = "res" /\ cstack[i].thread = x
      BY <1>0, <1>10 DEF ResumesFit
    <3>2. i \notin j..n BY <1>0, <2>2, <3>1
    <3> QED BY <1>4, <3>1, <3>2
  <2> QED BY <2>1, <2>2
<1>11. j \in 0..Len(cstack) BY <1>3
<1>12. ResumesFit(SubSeq(cstack, 1, j), ci', status')
  BY <1>1, <1>8, <1>9, <1>10, <1>11, ResumesCut
<1> QED BY <1>0, <1>12

\* coroutine.resume calls a coroutine.
LEMMA ResumesResumed ==
  ASSUME FramesInv, ResumesFit(cstack, ci, status), UNCHANGED rules,
         NEW t \in LuaThreads, NEW c \in Coroutines, Resume(t, c)
  PROVE  ResumesFit(cstack', ci', status')
<1> DEFINE n == Len(cstack)
           e == Res(c, Wrapped(nCcalls[t] + 1))
           b == Append(cstack, e)
<1>0. /\ cstack' = b /\ status' = [status EXCEPT ![c] = "running"]
      /\ cstack # <<>> /\ Innermost.thread = t
  BY DEF Resume, InLua
<1>1. /\ cstack \in Seq(Entry) /\ nCcalls \in [LuaThreads -> Shorts]
      /\ status \in [Coroutines -> Statuses]
      /\ ci \in CiLists /\ Depths(cstack, ci)
  BY DEF FramesInv, Frames, TypeOK, Layout
<1>2. c \in LuaThreads BY DEF LuaThreads
<1>3. e \in Entry /\ e.kind = "res" /\ e.thread = c
  <2>1. nCcalls[t] + 1 \in Int BY <1>1, LimitsAssumption DEF Shorts
  <2>2. Wrapped(nCcalls[t] + 1) \in Shorts BY <2>1, WrappedIs
  <2> HIDE DEF e
  <2>3. e = Res(c, Wrapped(nCcalls[t] + 1)) BY DEF e
  <2>4. 0 \in Nat /\ 0 \in {0, 1} /\ 0 \in Shorts BY ShortsAre
  <2> QED BY <1>2, <2>2, <2>3, <2>4, EntriesPushed
<1>4. /\ c # t /\ \A i \in DOMAIN cstack : cstack[i].thread # c
      /\ ci[t] \in Seq(CallInfos) /\ ci[c] \in Seq(CallInfos)
      /\ ci'[t] = Append(ci[t], "resume")
      /\ \/ ci'[c] = <<"lua">>
         \/ ci'[c] = ci[c]
      /\ \A x \in LuaThreads \ {c, t} : ci'[x] = ci[x]
  BY ResumeFrames
<1> HIDE DEF e
<1>5. /\ b \in Seq(Entry) /\ n \in Nat /\ Len(b) = n + 1
      /\ DOMAIN cstack = 1..n /\ DOMAIN b = 1..n + 1
      /\ \A i \in 1..n : b[i] = cstack[i]
      /\ b[n + 1] = e
  BY <1>1, <1>3, AppendIs
<1>6. Last(cstack).thread = t BY <1>0 DEF Innermost
<1>7. ASSUME NEW y
      PROVE  /\ ResOver(cstack, y) \subseteq Positive
             /\ \A i \in 0..n : UpTo(ResOver(b, y), i) = UpTo(ResOver(cstack, y), i)
             /\ UpTo(ResOver(b, y), n + 1)
                   = UpTo(ResOver(cstack, y), n) + (IF y = t THEN 1 ELSE 0)
             /\ UpTo(ResOver(cstack, y), n) \in Nat
  <2>1. /\ ResOver(cstack, y) \subseteq Positive
        /\ \A i \in 0..n : UpTo(ResOver(b, y), i) = UpTo(ResOver(cstack, y), i)
        /\ UpTo(ResOver(b, y), n + 1) = UpTo(ResOver(cstack, y), n)
              + (IF e.kind = "res" /\ cstack # <<>> /\ Last(cstack).thread = y THEN 1 ELSE 0)
    BY <1>1, <1>3, CountsPushed
  <2>2. UpTo(ResOver(cstack, y), n) \in Nat BY <1>5, <2>1, CountIs
  <2>3. (e.kind = "res" /\ cstack # <<>> /\ Last(cstack).thread = y) <=> y = t
    BY <1>0, <1>3, <1>6
  <2> HIDE DEF b, n
  <2> QED BY <2>1, <2>2, <2>3
<1>8. /\ \A i \in Nat : UpTo(ResOver(cstack, c), i) = 0
      /\ \A i \in DOMAIN ci[c] : ci[c][i] # "resume"
  <2>1. \A k \in 2..n : k - 1 \in DOMAIN cstack BY <1>5
  <2> QED BY <1>2, <1>4, <2>1, NoneResumed
<1> HIDE DEF b, n
<1>9. ASSUME NEW y \in LuaThreads
      PROVE  UpTo(Resumes(ci[y]), Len(ci[y])) = UpTo(ResOver(cstack, y), n)
  BY DEF ResumesFit, n
<1>10. /\ Len(ci[t]) \in Nat /\ Len(ci'[t]) = Len(ci[t]) + 1
       /\ ci'[t] \in Seq(CallInfos) /\ DOMAIN ci'[t] = 1..Len(ci[t]) + 1
       /\ \A i \in 1..Len(ci[t]) : ci'[t][i] = ci[t][i]
       /\ ci'[t][Len(ci[t]) + 1] = "resume"
  <2>1. "resume" \in CallInfos BY DEF CallInfos
  <2> QED BY <1>4, <2>1, AppendIs
<1>11. ASSUME NEW d \in 0..Len(ci[t])
       PROVE  UpTo(Resumes(ci'[t]), d) = UpTo(Resumes(ci[t]), d)
  <2>1. d \in Nat /\ d <= Len(ci[t]) /\ d <= Len(ci'[t])
        /\ \A i \in 1..d : ci'[t][i] = ci[t][i]
    BY <1>10
  <2> QED BY <1>4, <1>10, <2>1, ResumesAgree
<1>12. ASSUME NEW y \in LuaThreads
       PROVE  UpTo(Resumes(ci'[y]), Len(ci'[y])) = UpTo(ResOver(b, y), n + 1)
  <2>1. CASE y = t
    <3>1. Resumes(ci'[t]) \subseteq Positive /\ Len(ci[t]) + 1 \in Resumes(ci'[t])
      BY <1>10 DEF Resumes, Positive
    <3>2. UpTo(Resumes(ci'[t]), Len(ci[t]) + 1) = UpTo(Resumes(ci'[t]), Len(ci[t])) + 1
      BY <1>10, <3>1, CountNext
    <3>3. UpTo(Resumes(ci'[t]), Len(ci[t])) = UpTo(Resumes(ci[t]), Len(ci[t]))
      <4>1. Len(ci[t]) \in 0..Len(ci[t]) BY <1>10
      <4> QED BY <1>11, <4>1
    <3> QED BY <1>7, <1>9, <1>10, <2>1, <3>2, <3>3
  <2>2. CASE y = c
    <3>1. UpTo(Resumes(ci'[c]), Len(ci'[c])) = 0
      <4>1. CASE ci'[c] = <<"lua">>
        <5>1. Resumes(<<"lua">>) = {} /\ Len(<<"lua">>) = 1 BY DEF Resumes
        <5> QED BY <4>1, <5>1, CountNone
      <4>2. CASE ci'[c] = ci[c]
        <5>1. Resumes(ci[c]) = {} BY <1>8 DEF Resumes
        <5>2. Len(ci[c]) \in Nat BY <1>4
        <5> QED BY <4>2, <5>1, <5>2, CountNone
      <4> QED BY <1>4, <4>1, <4>2
    <3>2. UpTo(ResOver(b, c), n + 1) = UpTo(ResOver(cstack, c), n) + 0 BY <1>4, <1>7
    <3> QED BY <1>5, <1>8, <2>2, <3>1, <3>2
  <2>3. CASE y # t /\ y # c
    <3>1. UpTo(ResOver(b, y), n + 1) = UpTo(ResOver(cstack, y), n) + 0 BY <1>7, <2>3
    <3> QED BY <1>4, <1>7, <1>9, <2>3, <3>1
  <2> QED BY <2>1, <2>2, <2>3
<1>13. ASSUME NEW i \in DOMAIN b, b[i].kind = "raw"
       PROVE  UpTo(Resumes(ci'[b[i].thread]), b[i].depth) = UpTo(ResOver(b, b[i].thread), i)
  <2>1. i \in 1..n /\ i \in 0..n /\ b[i] = cstack[i] /\ i \in DOMAIN cstack
    <3>1. i # n + 1 BY <1>3, <1>5, <1>13
    <3> QED BY <1>5, <3>1
  <2>2. UpTo(Resumes(ci[cstack[i].thread]), cstack[i].depth)
           = UpTo(ResOver(cstack, cstack[i].thread), i)
    BY <1>13, <2>1 DEF ResumesFit
  <2>3. cstack[i].thread \in LuaThreads /\ cstack[i].depth \in Nat /\ cstack[i].thread # c
    BY <1>1, <1>4, <2>1, EntriesAre DEF n
  <2>4. UpTo(Resumes(ci'[cstack[i].thread]), cstack[i].depth)
           = UpTo(Resumes(ci[cstack[i].thread]), cstack[i].depth)
    <3>1. CASE cstack[i].thread = t
      <4>1. cstack[i].depth <= Len(ci[t]) BY <1>1, <2>1, <3>1 DEF Depths
      <4>2. cstack[i].depth \in 0..Len(ci[t]) BY <1>10, <2>3, <4>1
      <4> QED BY <1>11, <3>1, <4>2
    <3>2. CASE cstack[i].thread # t BY <1>4, <2>3, <3>2
    <3> QED BY <3>1, <3>2
  <2> QED BY <1>7, <2>1, <2>2, <2>4
<1>14. ASSUME NEW x \in Coroutines, status'[x] = "running"
       PROVE  \E i \in DOMAIN b : b[i].kind = "res" /\ b[i].thread = x
  <2>1. CASE x = c
    <3>1. n + 1 \in DOMAIN b BY <1>5
    <3> QED BY <1>3, <1>5, <2>1, <3>1
  <2>2. CASE x # c
    <3>1. status[x] = "running" BY <1>0, <1>1, <1>14, <2>2
    <3>2. PICK i \in DOMAIN cstack : cstack[i].kind = "res" /\ cstack[i].thread = x
      BY <3>1 DEF ResumesFit
    <3>3. i \in DOMAIN b /\ b[i] = cstack[i] BY <1>5
    <3> QED BY <3>2, <3>3
  <2> QED BY <2>1, <2>2
<1> QED BY <1>0, <1>5, <1>12, <1>13, <1>14 DEF ResumesFit

\* What a call adds to the CallInfos of its thread.
LEMMA CallLonger ==
  ASSUME NEW q \in CiLists, NEW u \in CiLists, NEW t \in LuaThreads, NEW s, NEW new,
         s = q[t] \/ \E x \in CFunctions : s = Append(q[t], x),
         new \in {"lua", "java"}, u = [q EXCEPT ![t] = s \o <<new>>]
  PROVE  Longer(q, u, t)
<1>1. q[t] \in Seq(CallInfos) /\ Len(q[t]) \in Nat BY DEF CiLists
<1>2. u[t] = s \o <<new>> /\ \A x \in LuaThreads \ {t} : u[x] = q[x] BY DEF CiLists
<1>3. CASE s = q[t]
  <2>1. u[t] = Append(q[t], new) BY <1>1, <1>2, <1>3
  <2>2. new \in CallInfos /\ new # "resume" BY DEF CallInfos
  <2>3. /\ Len(u[t]) = Len(q[t]) + 1
        /\ \A i \in 1..Len(q[t]) : u[t][i] = q[t][i]
        /\ u[t][Len(q[t]) + 1] = new
    BY <1>1, <2>1, <2>2, AppendIs
  <2> QED BY <1>1, <1>2, <2>2, <2>3 DEF Longer
<1>4. ASSUME NEW x \in CFunctions, s = Append(q[t], x) PROVE Longer(q, u, t)
  <2>1. x \in CallInfos /\ x # "resume" /\ new \in CallInfos /\ new # "resume"
    BY DEF CallInfos, CFunctions
  <2>2. /\ s \in Seq(CallInfos) /\ Len(s) = Len(q[t]) + 1
        /\ \A i \in 1..Len(q[t]) : s[i] = q[t][i]
        /\ s[Len(q[t]) + 1] = x
    BY <1>1, <1>4, <2>1, AppendIs
  <2>3. u[t] = Append(s, new) BY <1>2, <2>2
  <2>4. /\ Len(u[t]) = Len(s) + 1
        /\ \A i \in 1..Len(s) : u[t][i] = s[i]
        /\ u[t][Len(s) + 1] = new
    BY <2>1, <2>2, <2>3, AppendIs
  <2>5. /\ Len(q[t]) <= Len(u[t]) /\ \A i \in 1..Len(q[t]) : u[t][i] = q[t][i]
        /\ \A i \in Len(q[t]) + 1..Len(u[t]) : i = Len(s) \/ i = Len(s) + 1
    BY <1>1, <2>2, <2>4
  <2>6. u[t][Len(s)] = x
    <3>1. Len(s) \in 1..Len(s) BY <1>1, <2>2
    <3> QED BY <2>2, <2>4, <3>1
  <2> QED BY <1>2, <2>1, <2>4, <2>5, <2>6 DEF Longer
<1> QED BY <1>3, <1>4

\* luaD_call.
LEMMA ResumesCalled ==
  ASSUME FramesInv, ResumesFit(cstack, ci, status), UNCHANGED rules,
         NEW t \in LuaThreads, InLua(t), NEW ny \in {0, 1}, NEW s,
         s = ci[t] \/ \E x \in CFunctions : s = Append(ci[t], x),
         DoCall(t, s, <<>>, ny)
  PROVE  ResumesFit(cstack', ci', status')
<1> DEFINE e == Call(t, ny, Len(ci[t]))
<1>1. /\ cstack \in Seq(Entry) /\ ci \in CiLists /\ Depths(cstack, ci)
  BY DEF FramesInv, Frames, TypeOK, Layout
<1>2. cstack' = Append(cstack, e) /\ FramesInv' BY DoCallFrames
<1>3. ci' \in CiLists BY <1>2 DEF FramesInv, TypeOK
<1>4. status' = status /\ ci' = [ci EXCEPT ![t] = s \o <<"lua">>] BY DEF DoCall
<1>5. Longer(ci, ci', t)
  <2>1. "lua" \in {"lua", "java"} OBVIOUS
  <2> QED BY <1>1, <1>3, <1>4, <2>1, CallLonger
<1>7. e \in Entry /\ e.kind = "call" /\ e.thread = t
  <2>1. Len(ci[t]) \in Nat BY <1>1 DEF CiLists
  <2> QED BY <2>1, ShortsAre, EntriesPushed
<1> HIDE DEF e
<1>8. e.kind # "res" /\ (e.kind = "raw" => e.depth = Len(ci[e.thread])) BY <1>7
<1>9. ResumesFit(Append(cstack, e), ci', status)
  BY <1>1, <1>3, <1>5, <1>7, <1>8, ResumesPushed
<1> QED BY <1>2, <1>4, <1>9

\* luaD_pcall.
LEMMA ResumesPcalled ==
  ASSUME FramesInv, ResumesFit(cstack, ci, status), UNCHANGED rules,
         NEW t \in LuaThreads, NEW s,
         \/ InLua(t) /\ s = Append(ci[t], "pcallc")
         \/ InJava /\ t = Main /\ s = ci[t],
         DoCall(t, s, <<Raw(t, nCcalls[t], nny[t], Len(ci[t]))>>, 1)
  PROVE  ResumesFit(cstack', ci', status')
<1> DEFINE r == Raw(t, nCcalls[t], nny[t], Len(ci[t]))
           e == Call(t, 1, Len(ci[t]))
           b == Append(cstack, r)
<1>1. /\ cstack \in Seq(Entry) /\ nny \in [LuaThreads -> Shorts] /\ ci \in CiLists
      /\ nCcalls \in [LuaThreads -> Shorts]
      /\ Stacked(cstack) /\ TopCalled(cstack) /\ Blocks(cstack, status)
      /\ Layout(cstack, ci) /\ Depths(cstack, ci)
  BY DEF FramesInv, Frames, TypeOK, Layout
<1>2. cstack' = Append(b, e) /\ FramesInv' BY DoPcallFrames
<1>3. ci' \in CiLists BY <1>2 DEF FramesInv, TypeOK
<1>4. status' = status /\ ci' = [ci EXCEPT ![t] = s \o <<"lua">>] BY DEF DoCall
<1>5. Longer(ci, ci', t)
  <2>1. "lua" \in {"lua", "java"} OBVIOUS
  <2>2. s = ci[t] \/ \E x \in CFunctions : s = Append(ci[t], x) BY DEF CFunctions
  <2> QED BY <1>1, <1>3, <1>4, <2>1, <2>2, CallLonger
<1>6. Longer(ci, ci, t)
  <2>1. Len(ci[t]) \in Nat BY <1>1 DEF CiLists
  <2> QED BY <2>1 DEF Longer
<1>7. /\ r \in Entry /\ r.kind = "raw" /\ r.thread = t /\ r.depth = Len(ci[t])
      /\ e \in Entry /\ e.kind = "call" /\ e.thread = t
  <2>1. Len(ci[t]) \in Nat /\ nny[t] \in Shorts /\ nCcalls[t] \in Shorts BY <1>1 DEF CiLists
  <2>2. 1 \in {0, 1} OBVIOUS
  <2> QED BY <2>1, <2>2, EntriesPushed
<1>8. Depths(b, ci)
  <2>1. \/ cstack = <<>> /\ t = Main
        \/ cstack # <<>> /\ Last(cstack).kind = "java" /\ t = Main
        \/ cstack # <<>> /\ Last(cstack).kind \in {"call", "res"} /\ t = Last(cstack).thread
    BY DEF InLua, InJava, Innermost
  <2>2. nny[t] \in Shorts /\ nCcalls[t] \in Shorts BY <1>1
  <2>3. Layout(b, ci) BY <1>1, <2>1, <2>2, PushRawFrames
  <2> QED BY <2>3 DEF Layout
<1> HIDE DEF e, r
<1>9. b \in Seq(Entry) BY <1>1, <1>7, AppendIs
<1>10. ResumesFit(b, ci, status)
  <2>1. r.kind # "res" /\ (r.kind = "raw" => r.depth = Len(ci[r.thread])) BY <1>7
  <2> QED BY <1>1, <1>6, <1>7, <2>1, ResumesPushed
<1> HIDE DEF b
<1>11. ResumesFit(Append(b, e), ci', status)
  <2>1. e.kind # "res" /\ (e.kind = "raw" => e.depth = Len(ci[e.thread])) BY <1>7
  <2> QED BY <1>1, <1>3, <1>5, <1>7, <1>8, <1>9, <1>10, <2>1, ResumesPushed
<1> QED BY <1>2, <1>4, <1>11

\* A script calls a Java function.
LEMMA ResumesJavaCalled ==
  ASSUME FramesInv, ResumesFit(cstack, ci, status), UNCHANGED rules,
         NEW t \in LuaThreads, JavaCall(t)
  PROVE  ResumesFit(cstack', ci', status')
<1> DEFINE e == Java(t, Len(ci[t]))
<1>1. /\ cstack \in Seq(Entry) /\ ci \in CiLists /\ Depths(cstack, ci)
  BY DEF FramesInv, Frames, TypeOK, Layout
<1>2. cstack' = Append(cstack, e) /\ FramesInv' BY JavaCallFrames
<1>3. ci' \in CiLists BY <1>2 DEF FramesInv, TypeOK
<1>4. status' = status /\ ci' = [ci EXCEPT ![t] = ci[t] \o <<"java">>]
  <2>1. ci[t] \in Seq(CallInfos) BY <1>1 DEF CiLists
  <2>2. Append(ci[t], "java") = ci[t] \o <<"java">> BY <2>1
  <2> QED BY <2>2 DEF JavaCall
<1>5. Longer(ci, ci', t)
  <2>1. "java" \in {"lua", "java"} OBVIOUS
  <2>2. ci[t] = ci[t] \/ \E x \in CFunctions : ci[t] = Append(ci[t], x) OBVIOUS
  <2> QED BY <1>1, <1>3, <1>4, <2>1, <2>2, CallLonger
<1>7. e \in Entry /\ e.kind = "java" /\ e.thread = t
  <2>1. Len(ci[t]) \in Nat BY <1>1 DEF CiLists
  <2>2. 0 \in {0, 1} OBVIOUS
  <2> QED BY <2>1, <2>2, ShortsAre, EntriesPushed
<1> HIDE DEF e
<1>8. e.kind # "res" /\ (e.kind = "raw" => e.depth = Len(ci[e.thread])) BY <1>7
<1>9. ResumesFit(Append(cstack, e), ci', status)
  BY <1>1, <1>3, <1>5, <1>7, <1>8, ResumesPushed
<1> QED BY <1>2, <1>4, <1>9

\* The innermost entry goes, and a luaD_pcall below it.
LEMMA ResumesPopping ==
  ASSUME FramesInv, ResumesFit(cstack, ci, status), NEW m, NEW t, Popping(m, t),
         cstack # <<>>, Innermost.kind # "res"
  PROVE  ResumesFit(cstack', ci', status')
<1>1. cstack \in Seq(Entry) BY DEF FramesInv, TypeOK
<1>2. Innermost = cstack[Len(cstack)] /\ Len(cstack) \in Nat
  BY <1>1, EntriesAre DEF Innermost
<1>3. Cutting(m, t) /\ cstack[m + 1].kind # "res" BY DEF Popping, Cutting
<1>4. CASE m = Len(cstack) - 1
  <2>1. \A i \in m + 1..Len(cstack) : i = m + 1 BY <1>2, <1>4
  <2>2. \A i \in m + 1..Len(cstack) : cstack[i].kind # "res" BY <1>3, <2>1
  <2> QED BY <1>3, <1>4, <2>2, ResumesCutting
<1>5. CASE m = Len(cstack) - 2 /\ cstack[m + 1].kind = "raw"
  <2>1. \A i \in m + 1..Len(cstack) : i = m + 1 \/ i = Len(cstack) BY <1>2, <1>5
  <2>2. \A i \in m + 1..Len(cstack) : cstack[i].kind # "res" BY <1>2, <1>3, <2>1
  <2> QED BY <1>3, <1>5, <2>2, ResumesCutting
<1> QED BY <1>4, <1>5 DEF Popping

\* Every step keeps the counts.
LEMMA ResumesStep == FramesInv /\ ResumesInv /\ [Next]_vars => ResumesInv'
<1> SUFFICES ASSUME FramesInv, ResumesInv, [Next]_vars, "protected" \in rules
             PROVE  ResumesFit(cstack', ci', status')
  <2>1. [Next]_vars => rules' = rules BY DEF Next, vars, moving
  <2> QED BY <2>1 DEF ResumesInv, ResumesFit
<1>0. ResumesFit(cstack, ci, status) BY DEF ResumesInv
<1>1. CASE UNCHANGED vars
  BY <1>0, <1>1 DEF vars, moving
<1>2. CASE Step /\ UNCHANGED rules
  <2>1. CASE Raises
    <3>1. PICK t \in LuaThreads : \E s : Raising(t, s) /\ Throw(t, s)
                                     /\ t = Innermost.thread
      BY <2>1 DEF Raises
    <3>2. PICK s : Raising(t, s) /\ Throw(t, s) /\ t = Innermost.thread BY <3>1
    <3> DEFINE j == JumpTarget(t)
    <3>3. /\ j \in DOMAIN cstack
          /\ \A i \in j + 1..Len(cstack) :
                cstack[i].thread = t /\ cstack[i].kind \in {"call", "java"}
          /\ \/ cstack[j].kind = "raw" /\ Cutting(j - 1, t)
             \/ Ending(j, t, cstack[j - 1].thread, s, "dead")
             \/ \E k \in DOMAIN s : Continuing(j, t, k - 1)
      BY <1>2, <3>2, ThrowIs
    <3> HIDE DEF j
    <3>4. CASE cstack[j].kind = "raw" /\ Cutting(j - 1, t)
      <4>1. cstack \in Seq(Entry) BY DEF FramesInv, TypeOK
      <4>2. j \in Nat /\ (j - 1) + 1 = j BY <3>3, <4>1, EntriesAre
      <4>3. \A i \in j..Len(cstack) : i = j \/ i \in j + 1..Len(cstack) BY <4>2
      <4>4. \A i \in (j - 1) + 1..Len(cstack) : cstack[i].kind # "res"
        BY <3>3, <3>4, <4>2, <4>3
      <4>5. cstack[(j - 1) + 1].kind = "raw" BY <3>4, <4>2
      <4> QED BY <1>0, <3>4, <4>4, <4>5, ResumesCutting
    <3> QED BY <1>0, <3>3, <3>4, ResumesEnding, ResumesContinuing
  <2>2. CASE JavaPcall
    <3>1. Main \in LuaThreads BY DEF LuaThreads
    <3> QED BY <1>0, <1>2, <2>2, <3>1, ResumesPcalled DEF JavaPcall
  <2>3. CASE JavaReturn
    <3>1. cstack # <<>> /\ Innermost.kind # "res" BY <2>3 DEF JavaReturn
    <3>2. Popping(Len(cstack) - 1, Innermost.thread) BY <1>2, <2>3, JavaReturnIs
    <3> QED BY <1>0, <3>1, <3>2, ResumesPopping
  <2>4. ASSUME NEW t \in LuaThreads, JavaCall(t) PROVE ResumesFit(cstack', ci', status')
    BY <1>0, <1>2, <2>4, ResumesJavaCalled
  <2>5. ASSUME NEW t \in LuaThreads, Pcall(t) PROVE ResumesFit(cstack', ci', status')
    <3>1. InLua(t) BY <2>5 DEF Pcall
    <3>2. CASE DoCall(t, Append(ci[t], "pcallk"), <<>>, 0)
      <4>1. "pcallk" \in CFunctions /\ 0 \in {0, 1} BY DEF CFunctions
      <4> QED BY <1>0, <1>2, <3>1, <3>2, <4>1, ResumesCalled
    <3>3. CASE DoCall(t, Append(ci[t], "pcallc"),
                      <<Raw(t, nCcalls[t], nny[t], Len(ci[t]))>>, 1)
      BY <1>0, <1>2, <3>1, <3>3, ResumesPcalled
    <3> QED BY <2>5, <3>2, <3>3 DEF Pcall
  <2>6. ASSUME NEW t \in LuaThreads, CallBack(t) PROVE ResumesFit(cstack', ci', status')
    <3>1. InLua(t) /\ DoCall(t, Append(ci[t], "ccall"), <<>>, 1) BY <2>6 DEF CallBack
    <3>2. "ccall" \in CFunctions /\ 1 \in {0, 1} BY DEF CFunctions
    <3> QED BY <1>0, <1>2, <3>1, <3>2, ResumesCalled
  <2>7. ASSUME NEW t \in LuaThreads, Metamethod(t) PROVE ResumesFit(cstack', ci', status')
    <3>1. InLua(t) /\ DoCall(t, ci[t], <<>>, 0) BY <2>7 DEF Metamethod
    <3> QED BY <1>0, <1>2, <3>1, ResumesCalled
  <2>8. ASSUME NEW t \in LuaThreads, Return(t) PROVE ResumesFit(cstack', ci', status')
    <3> DEFINE raw == Len(cstack) > 1 /\ cstack[Len(cstack) - 1].kind = "raw"
               m == Len(cstack) - (IF raw THEN 2 ELSE 1)
    <3>1. Popping(m, t) BY <1>2, <2>8, ReturnIs
    <3>2. cstack # <<>> /\ Innermost.kind # "res" BY <2>8 DEF Return, InLua
    <3> HIDE DEF m
    <3> QED BY <1>0, <3>1, <3>2, ResumesPopping
  <2>9. ASSUME NEW t \in LuaThreads, NEW c \in Coroutines, Resume(t, c)
        PROVE  ResumesFit(cstack', ci', status')
    BY <1>0, <1>2, <2>9, ResumesResumed
  <2>10. ASSUME NEW t \in LuaThreads, NEW c \in Coroutines, ResumeError(t, c)
         PROVE  ResumesFit(cstack', ci', status')
    <3>1. UNCHANGED <<cstack, ci, status>> BY <1>2, <2>10, ResumeErrorFrames
    <3> QED BY <1>0, <3>1
  <2>11. ASSUME NEW c \in Coroutines, Unroll(c) PROVE ResumesFit(cstack', ci', status')
    <3> DEFINE n == Len(cstack)
    <3>1. \/ Ending(n, c, cstack[n - 1].thread, <<>>, "dead")
          \/ \E h \in Nat : Continuing(n, c, h)
      BY <1>2, <2>11, UnrollIs
    <3> HIDE DEF n
    <3> QED BY <1>0, <3>1, ResumesContinuing, ResumesEnding
  <2>12. ASSUME NEW c \in Coroutines, Yield(c) PROVE ResumesFit(cstack', ci', status')
    <3> DEFINE j == JumpTarget(c)
    <3>1. Ending(j, c, cstack[j - 1].thread, ci[c], "suspended")
      BY <1>2, <2>12, YieldIs
    <3> HIDE DEF j
    <3> QED BY <1>0, <3>1, ResumesEnding
  <2> QED BY <1>2, <2>1, <2>2, <2>3, <2>4, <2>5, <2>6, <2>7, <2>8, <2>9, <2>10, <2>11,
             <2>12, NextIs
<1> QED BY <1>1, <1>2 DEF Next

\* At first nothing is called.
LEMMA ResumesInit == Init => ResumesInv
<1> SUFFICES ASSUME Init PROVE ResumesFit(cstack, ci, status) BY DEF ResumesInv
<1>1. /\ cstack = <<>> /\ Len(cstack) = 0 /\ DOMAIN cstack = {}
      /\ \A t \in LuaThreads : ci[t] = <<>> /\ Len(ci[t]) = 0 /\ DOMAIN ci[t] = {}
      /\ \A c \in Coroutines : status[c] = "new"
  BY DEF Init
<1>2. ASSUME NEW t \in LuaThreads
      PROVE  UpTo(Resumes(ci[t]), Len(ci[t])) = UpTo(ResOver(cstack, t), Len(cstack))
  <2>1. Resumes(ci[t]) = {} BY <1>1 DEF Resumes
  <2>2. ResOver(cstack, t) = {} BY <1>1 DEF ResOver
  <2> QED BY <1>1, <2>1, <2>2
<1> QED BY <1>1, <1>2 DEF ResumesFit

-----------------------------------------------------------------------------
(* What unroll can finish *)

Plain == {"lua", "pcallk"}

\* Entry k of the C stack is why CallInfo p of coroutine c cannot be left by a
\* yield: a call that does not allow one, a Java function, or another coroutine.
Holds(cs, q, c, p, k) ==
    /\ cs[k].thread = c
    /\ \/ cs[k].kind = "call" /\ cs[k].ny = 1 /\ cs[k].depth + 1 = p
       \/ cs[k].kind = "java" /\ cs[k].depth + 1 = p
       \/ Resuming(cs, k) /\ p = Len(q[c])

\* Every CallInfo of a coroutine on the C stack that unroll cannot finish has
\* such an entry.
Held(cs, q) ==
    \A c \in Coroutines : (\E i \in DOMAIN cs : cs[i].thread = c) =>
        \A p \in DOMAIN q[c] : q[c][p] \in Plain \/ \E k \in DOMAIN cs : Holds(cs, q, c, p, k)

\* What calls a pcall that unroll can finish, unroll can finish too.
PcallsOnPlain(q) ==
    \A c \in Coroutines : \A i \in DOMAIN q[c] :
        q[c][i] = "pcallk" => \A p \in 1..i - 1 : q[c][p] \in Plain

SuspendedPlain(q, st) ==
    \A c \in Coroutines : st[c] = "suspended" => \A p \in DOMAIN q[c] : q[c][p] \in Plain

Finishable(cs, q, st) == Held(cs, q) /\ PcallsOnPlain(q) /\ SuspendedPlain(q, st)

FinishInv == "nostray" \in rules => Finishable(cstack, ci, status)

\* A coroutine that runs now has resumed no other and called no Java function.
LEMMA InnermostRuns ==
  ASSUME FramesInv, NEW c \in Coroutines, cstack # <<>>, Innermost.thread = c,
         NEW k \in DOMAIN cstack, cstack[k].thread = c
  PROVE  /\ ~Resuming(cstack, k)
         /\ Innermost.kind # "java" => cstack[k].kind # "java"
<1>1. /\ cstack \in Seq(Entry) /\ Stacked(cstack) /\ Blocks(cstack, status)
  BY DEF FramesInv, Frames, TypeOK
<1>2. /\ Len(cstack) \in Nat /\ DOMAIN cstack = 1..Len(cstack)
      /\ Innermost = cstack[Len(cstack)] /\ Len(cstack) \in 1..Len(cstack)
  BY <1>1, EntriesAre DEF Innermost
<1>3. k < Len(cstack) => cstack[k + 1].thread = c
  <2>1. SUFFICES ASSUME k < Len(cstack) PROVE cstack[k + 1].thread = c OBVIOUS
  <2>2. /\ k + 1 \in DOMAIN cstack /\ Len(cstack) \in DOMAIN cstack
        /\ k <= k + 1 /\ k + 1 <= Len(cstack)
    BY <1>2, <2>1
  <2> QED BY <1>1, <1>2, <2>2 DEF Blocks
<1>4. k < Len(cstack) => k + 1 \in 2..Len(cstack) /\ (k + 1) - 1 = k BY <1>2
<1>5. ~Resuming(cstack, k) BY <1>1, <1>3, <1>4 DEF Resuming, Stacked
<1>6. ASSUME Innermost.kind # "java" PROVE cstack[k].kind # "java"
  <2>1. CASE k = Len(cstack) BY <1>2, <1>6, <2>1
  <2>2. CASE k # Len(cstack)
    <3>1. k < Len(cstack) BY <1>2, <2>2
    <3>2. k + 1 \in DOMAIN cstack BY <1>2, <3>1
    <3>3. cstack[k + 1].kind \in {"call", "raw", "res", "java"}
      BY <1>1, <1>2, <3>2, EntriesAre
    <3>4. c # Main BY ThreadsAssumption
    <3> QED BY <1>1, <1>3, <1>4, <3>1, <3>3, <3>4 DEF Stacked
  <2> QED BY <2>1, <2>2
<1> QED BY <1>5, <1>6

\* A coroutine that may yield can be finished wherever it is.
LEMMA YieldablePlain ==
  ASSUME FramesInv, NnyFits(cstack, nny, status), Held(cstack, ci), NEW c \in Coroutines,
         cstack # <<>>, Innermost.thread = c, Innermost.kind # "java", nny[c] = 0
  PROVE  \A p \in DOMAIN ci[c] : ci[c][p] \in Plain
<1>1. cstack \in Seq(Entry) BY DEF FramesInv, TypeOK
<1>2. /\ Len(cstack) \in Nat /\ DOMAIN cstack = 1..Len(cstack)
      /\ Innermost = cstack[Len(cstack)] /\ Len(cstack) \in DOMAIN cstack
  BY <1>1, EntriesAre DEF Innermost
<1>3. c \in LuaThreads /\ Base(c) = 0 BY ThreadsAssumption DEF LuaThreads, Base
<1>4. nny[c] = Base(c) + UpTo(NyCalls(cstack, c), Len(cstack))
  BY <1>2, <1>3 DEF NnyFits
<1>5. NyCalls(cstack, c) = {}
  <2>1. NyCalls(cstack, c) \subseteq 1..Len(cstack) BY <1>2 DEF NyCalls
  <2>2. UpTo(NyCalls(cstack, c), Len(cstack)) \in Nat
    <3>1. NyCalls(cstack, c) \subseteq Positive BY <1>2 DEF NyCalls, Positive
    <3> QED BY <1>2, <3>1, CountIs
  <2>3. UpTo(NyCalls(cstack, c), Len(cstack)) = 0 BY <1>3, <1>4, <2>2
  <2> QED BY <1>2, <2>1, <2>3, CountAll
<1>6. ASSUME NEW p \in DOMAIN ci[c], ci[c][p] \notin Plain PROVE FALSE
  <2>1. PICK k \in DOMAIN cstack : Holds(cstack, ci, c, p, k)
    BY <1>2, <1>6 DEF Held
  <2>2. cstack[k].thread = c BY <2>1 DEF Holds
  <2>3. ~Resuming(cstack, k) /\ cstack[k].kind # "java" BY <2>2, InnermostRuns
  <2>4. k \in NyCalls(cstack, c) BY <2>1, <2>3 DEF Holds, NyCalls
  <2> QED BY <1>5, <2>4
<1> QED BY <1>6

\* Lists that are shortened.
LEMMA PcallsShortened ==
  ASSUME NEW q \in CiLists, NEW u \in CiLists, PcallsOnPlain(q),
         \A x \in Coroutines : \/ u[x] = q[x]
                               \/ /\ Len(u[x]) <= Len(q[x])
                                  /\ \A i \in 1..Len(u[x]) : u[x][i] = q[x][i]
                               \/ \A i \in DOMAIN u[x] : u[x][i] # "pcallk"
  PROVE  PcallsOnPlain(u)
<1>1. ASSUME NEW c \in Coroutines, NEW i \in DOMAIN u[c], u[c][i] = "pcallk",
             NEW p \in 1..i - 1
      PROVE  u[c][p] \in Plain
  <2>1. /\ q[c] \in Seq(CallInfos) /\ u[c] \in Seq(CallInfos)
        /\ DOMAIN q[c] = 1..Len(q[c]) /\ DOMAIN u[c] = 1..Len(u[c])
        /\ Len(q[c]) \in Nat /\ Len(u[c]) \in Nat
    BY DEF CiLists, LuaThreads
  <2>2. CASE u[c] = q[c] BY <1>1, <2>2 DEF PcallsOnPlain
  <2>3. CASE /\ Len(u[c]) <= Len(q[c])
             /\ \A k \in 1..Len(u[c]) : u[c][k] = q[c][k]
    <3>1. i \in DOMAIN q[c] /\ i \in 1..Len(u[c]) /\ p \in 1..Len(u[c])
      BY <1>1, <2>1, <2>3
    <3>2. q[c][i] = "pcallk" BY <1>1, <2>3, <3>1
    <3> QED BY <1>1, <2>3, <3>1, <3>2 DEF PcallsOnPlain
  <2> QED BY <1>1, <2>2, <2>3
<1> QED BY <1>1 DEF PcallsOnPlain

\* A thread on the C stack that has resumed no coroutine.
NotResuming(cs, t) ==
    /\ \E k \in DOMAIN cs : cs[k].thread = t
    /\ \A k \in DOMAIN cs : cs[k].thread = t => ~Resuming(cs, k)

\* An entry is pushed, not a coroutine's lua_resume; new CallInfos that unroll
\* cannot finish are the entry's.
LEMMA HeldPushed ==
  ASSUME NEW cs \in Seq(Entry), NEW q \in CiLists, Held(cs, q), NEW e \in Entry, e.kind # "res",
         e.thread \in Coroutines => NotResuming(cs, e.thread),
         NEW u \in CiLists, Longer(q, u, e.thread),
         \A i \in Len(q[e.thread]) + 1..Len(u[e.thread]) :
            \/ u[e.thread][i] \in Plain
            \/ /\ e.kind = "java" \/ (e.kind = "call" /\ e.ny = 1)
               /\ e.depth + 1 = i
  PROVE  Held(Append(cs, e), u)
<1> DEFINE n == Len(cs)
           b == Append(cs, e)
<1>2. /\ b \in Seq(Entry) /\ n \in Nat /\ Len(b) = n + 1
      /\ DOMAIN cs = 1..n /\ DOMAIN b = 1..n + 1
      /\ \A i \in 1..n : b[i] = cs[i]
      /\ b[n + 1] = e
  BY AppendIs
<1>4. ASSUME NEW k \in DOMAIN cs, Resuming(cs, k) PROVE Resuming(b, k)
  <2>1. k < n /\ cs[k + 1].kind = "res" BY <1>4 DEF Resuming
  <2>2. k + 1 \in 1..n /\ k < n + 1 BY <1>2, <2>1
  <2> QED BY <1>2, <2>1, <2>2 DEF Resuming
<1> HIDE DEF b, n
<1>5. ASSUME NEW c \in Coroutines, NEW i \in DOMAIN b, b[i].thread = c,
             NEW p \in DOMAIN u[c], u[c][p] \notin Plain
      PROVE  \E k \in DOMAIN b : Holds(b, u, c, p, k)
  <2>0. c # Main /\ c \in LuaThreads BY ThreadsAssumption DEF LuaThreads
  <2>1. \E m \in DOMAIN cs : cs[m].thread = c
    <3>1. CASE i \in 1..n BY <1>2, <1>5, <3>1
    <3>2. CASE i = n + 1 BY <1>2, <1>5, <3>2 DEF NotResuming
    <3> QED BY <1>2, <1>5, <3>1, <3>2
  <2>2. /\ q[c] \in Seq(CallInfos) /\ u[c] \in Seq(CallInfos)
        /\ Len(q[c]) \in Nat /\ Len(u[c]) \in Nat
        /\ DOMAIN q[c] = 1..Len(q[c]) /\ DOMAIN u[c] = 1..Len(u[c])
    BY <2>0 DEF CiLists
  <2>3. CASE c # e.thread
    <3>1. u[c] = q[c] BY <2>0, <2>3 DEF Longer
    <3>2. PICK k \in DOMAIN cs : Holds(cs, q, c, p, k)
      BY <1>5, <2>1, <3>1 DEF Held
    <3>3. k \in DOMAIN b /\ b[k] = cs[k] BY <1>2
    <3>4. Holds(b, u, c, p, k) BY <1>4, <3>1, <3>2, <3>3 DEF Holds
    <3> QED BY <3>3, <3>4
  <2>4. CASE c = e.thread
    <3>2. CASE p \in DOMAIN q[c]
      <4>1. u[c][p] = q[c][p] BY <2>2, <2>4, <3>2 DEF Longer
      <4>2. PICK k \in DOMAIN cs : Holds(cs, q, c, p, k)
        BY <1>5, <2>1, <3>2, <4>1 DEF Held
      <4>3. k \in DOMAIN b /\ b[k] = cs[k] BY <1>2
      <4>4. ~Resuming(cs, k) BY <2>4, <4>2 DEF Holds, NotResuming
      <4>5. Holds(b, u, c, p, k) BY <4>2, <4>3, <4>4 DEF Holds
      <4> QED BY <4>3, <4>5
    <3>3. CASE p \notin DOMAIN q[c]
      <4>1. p \in Len(q[c]) + 1..Len(u[c]) BY <1>5, <2>2, <3>3
      <4>2. (e.kind = "java" \/ (e.kind = "call" /\ e.ny = 1)) /\ e.depth + 1 = p
        BY <1>5, <2>4, <4>1
      <4>3. n + 1 \in DOMAIN b BY <1>2
      <4>4. Holds(b, u, c, p, n + 1) BY <1>2, <2>4, <4>2 DEF Holds
      <4> QED BY <4>3, <4>4
    <3> QED BY <3>2, <3>3
  <2> QED BY <2>3, <2>4
<1> QED BY <1>5 DEF Held, b

\* Entries of t go, which is the main thread or runs now.
LEMMA HeldCutting ==
  ASSUME FramesInv, Held(cstack, ci), NEW m, NEW t, Cutting(m, t),
         t = Main \/ t = Innermost.thread
  PROVE  Held(cstack', ci')
<1> DEFINE n == Len(cstack)
           d == cstack[m + 1].depth
           b == SubSeq(cstack, 1, m)
<1>0. /\ m \in 0..Len(cstack) - 1 /\ t = cstack[m + 1].thread
      /\ cstack[m + 1].kind # "res" /\ cstack' = b
      /\ \A i, k \in DOMAIN cstack :
            i <= m /\ m < k /\ cstack[i].thread = cstack[k].thread => cstack[i].thread = t
      /\ ci' = [ci EXCEPT ![t] = SubSeq(ci[t], 1, cstack[m + 1].depth)]
  BY DEF Cutting
<1>1. /\ cstack \in Seq(Entry) /\ ci \in CiLists /\ Depths(cstack, ci)
  BY DEF FramesInv, Frames, TypeOK, Layout
<1>2. n \in Nat /\ DOMAIN cstack = 1..n /\ m + 1 \in 1..n /\ m \in 0..n /\ m \in Nat
  BY <1>0, <1>1, EntriesAre
<1>3. /\ b \in Seq(Entry) /\ Len(b) = m /\ DOMAIN b = 1..m
      /\ \A i \in 1..m : b[i] = cstack[i] /\ i \in DOMAIN cstack
  BY <1>1, <1>2, PrefixIs
<1>4. m + 1 \in DOMAIN cstack /\ t \in LuaThreads /\ d \in Nat
      /\ \A k \in DOMAIN cstack : k \in Nat /\ cstack[k].depth \in Nat
  BY <1>0, <1>1, <1>2, EntriesAre
<1>5. ci[t] \in Seq(CallInfos) /\ Len(ci[t]) \in Nat BY <1>1, <1>4 DEF CiLists
<1>6. d \in 0..Len(ci[t])
  <2>1. d <= Len(ci[t]) BY <1>0, <1>1, <1>4 DEF Depths
  <2> HIDE DEF d
  <2> QED BY <1>4, <1>5, <2>1
<1>7. /\ ci'[t] = SubSeq(ci[t], 1, d) /\ DOMAIN ci'[t] = 1..d
      /\ \A i \in 1..d : ci'[t][i] = ci[t][i] /\ i \in DOMAIN ci[t]
      /\ \A x \in LuaThreads \ {t} : ci'[x] = ci[x]
  BY <1>0, <1>1, <1>4, <1>5, <1>6, PrefixIs DEF CiLists
<1> HIDE DEF b, n
<1>8. ASSUME NEW c \in Coroutines, NEW i \in DOMAIN b, b[i].thread = c,
             NEW p \in DOMAIN ci'[c], ci'[c][p] \notin Plain
      PROVE  \E k \in DOMAIN b : Holds(b, ci', c, p, k)
  <2>0. c # Main /\ c \in LuaThreads BY ThreadsAssumption DEF LuaThreads
  <2>1. i \in DOMAIN cstack /\ cstack[i].thread = c /\ i <= m BY <1>2, <1>3, <1>8
  <2>2. p \in DOMAIN ci[c] /\ ci[c][p] = ci'[c][p] /\ (c = t => p <= d)
    BY <1>4, <1>7, <1>8, <2>0
  <2>3. PICK k \in DOMAIN cstack : Holds(cstack, ci, c, p, k)
    BY <1>8, <2>1, <2>2 DEF Held
  <2>4. cstack[k].thread = c BY <2>3 DEF Holds
  <2>5. k \in Nat /\ cstack[k].depth \in Nat BY <1>4
  <2>6. c = t => ~Resuming(cstack, k)
    <3>1. cstack # <<>> BY <1>1, <1>2, EntriesAre DEF n
    <3> QED BY <2>0, <2>4, <3>1, InnermostRuns
  <2>7. k <= m
    <3>1. SUFFICES ASSUME ~(k <= m) PROVE FALSE OBVIOUS
    <3>2. m < k BY <1>2, <2>5, <3>1
    <3>3. c = t BY <1>0, <2>1, <2>4, <3>2
    <3>4. d <= cstack[k].depth
      <4>1. CASE k = m + 1 BY <1>4, <4>1
      <4>2. CASE k # m + 1
        <5>1. m + 1 < k BY <1>2, <2>5, <3>2, <4>2
        <5> QED BY <1>0, <1>1, <1>4, <2>4, <3>3, <5>1 DEF Depths
      <4> QED BY <4>1, <4>2
    <3>5. cstack[k].depth + 1 = p BY <2>3, <2>6, <3>3 DEF Holds
    <3>6. p \in Int /\ p <= d BY <2>2, <2>5, <3>3, <3>5
    <3> HIDE DEF d
    <3> QED BY <1>4, <2>5, <3>4, <3>5, <3>6
  <2>8. k \in DOMAIN b /\ b[k] = cstack[k]
    <3>1. k \in 1..m BY <1>2, <2>5, <2>7
    <3> QED BY <1>3, <3>1
  <2>9. CASE c = t BY <2>3, <2>6, <2>8, <2>9 DEF Holds
  <2>10. CASE c # t
    <3>1. ci'[c] = ci[c] BY <1>7, <2>0, <2>10
    <3>2. Resuming(cstack, k) => Resuming(b, k)
      <4>1. SUFFICES ASSUME Resuming(cstack, k) PROVE Resuming(b, k) OBVIOUS
      <4>2. cstack[k + 1].kind = "res" BY <4>1 DEF Resuming
      <4>3. k # m BY <1>0, <4>2
      <4>4. k < m /\ k + 1 \in 1..m BY <1>2, <2>5, <2>7, <4>3
      <4> QED BY <1>3, <4>2, <4>4 DEF Resuming
    <3>3. Holds(b, ci', c, p, k) BY <2>3, <2>8, <3>1, <3>2 DEF Holds
    <3> QED BY <2>8, <3>3
  <2> QED BY <2>8, <2>9, <2>10
<1> QED BY <1>0, <1>8 DEF Held

\* A coroutine yields or ends.
LEMMA HeldEnding ==
  ASSUME FramesInv, Held(cstack, ci),
         NEW j, NEW c, NEW f, NEW s, NEW new, Ending(j, c, f, s, new)
  PROVE  Held(cstack', ci')
<1> DEFINE n == Len(cstack)
           b == SubSeq(cstack, 1, j - 1)
<1>0. /\ j \in DOMAIN cstack /\ \A i \in j..n : cstack[i].thread = c
      /\ cstack[j].kind = "res" /\ f = cstack[j - 1].thread
  BY DEF Ending
<1>1. cstack \in Seq(Entry) /\ ci \in CiLists
  BY DEF FramesInv, TypeOK
<1>2. /\ j > 1 /\ c \in Coroutines /\ f \in LuaThreads \ {c} /\ c \in LuaThreads
      /\ cstack' = b
      /\ ci[f] # <<>> /\ ci'[f] = Front(ci[f])
      /\ \A x \in LuaThreads \ {c, f} : ci'[x] = ci[x]
      /\ \A i \in 1..j - 1 : cstack[i].thread # c
  BY EndFrames DEF LuaThreads
<1>3. /\ n \in Nat /\ DOMAIN cstack = 1..n /\ j \in 1..n /\ j \in Nat
      /\ j - 1 \in Nat /\ j - 1 \in 0..n
  BY <1>0, <1>1, <1>2, EntriesAre
<1>4. /\ b \in Seq(Entry) /\ Len(b) = j - 1 /\ DOMAIN b = 1..j - 1
      /\ \A i \in 1..j - 1 : b[i] = cstack[i] /\ i \in DOMAIN cstack
  BY <1>1, <1>3, PrefixIs
<1>5. \A k \in DOMAIN cstack : k \in Nat /\ (k \in 1..j - 1 \/ k \in j..n) BY <1>3
<1>6. /\ ci[f] \in Seq(CallInfos) /\ Len(ci[f]) \in Nat
      /\ DOMAIN ci'[f] = 1..Len(ci[f]) - 1
      /\ \A i \in 1..Len(ci[f]) - 1 : /\ ci'[f][i] = ci[f][i] /\ i \in DOMAIN ci[f]
                                      /\ i # Len(ci[f])
  <2>1. ci[f] \in Seq(CallInfos) /\ Len(ci[f]) \in Nat BY <1>1, <1>2 DEF CiLists
  <2>2. Len(ci[f]) # 0 BY <1>2, <2>1
  <2>3. Len(ci[f]) - 1 \in 0..Len(ci[f]) BY <2>1, <2>2
  <2>4. ci'[f] = SubSeq(ci[f], 1, Len(ci[f]) - 1) BY <1>2 DEF Front
  <2>5. /\ DOMAIN ci'[f] = 1..Len(ci[f]) - 1
        /\ \A i \in 1..Len(ci[f]) - 1 : ci'[f][i] = ci[f][i] /\ i \in DOMAIN ci[f]
    BY <2>1, <2>3, <2>4, PrefixIs
  <2>6. \A i \in 1..Len(ci[f]) - 1 : i # Len(ci[f]) BY <2>1
  <2> QED BY <2>1, <2>5, <2>6
<1> HIDE DEF b, n
<1>8. ASSUME NEW x \in Coroutines, NEW i \in DOMAIN b, b[i].thread = x,
             NEW p \in DOMAIN ci'[x], ci'[x][p] \notin Plain
      PROVE  \E k \in DOMAIN b : Holds(b, ci', x, p, k)
  <2>0. x \in LuaThreads BY DEF LuaThreads
  <2>1. i \in DOMAIN cstack /\ cstack[i].thread = x /\ x # c BY <1>2, <1>4, <1>8
  <2>2. p \in DOMAIN ci[x] /\ ci[x][p] = ci'[x][p] /\ (x = f => p # Len(ci[f]))
    BY <1>2, <1>6, <1>8, <2>0, <2>1
  <2>3. PICK k \in DOMAIN cstack : Holds(cstack, ci, x, p, k)
    BY <1>8, <2>1, <2>2 DEF Held
  <2>4. cstack[k].thread = x BY <2>3 DEF Holds
  <2>5. k \in 1..j - 1 BY <1>0, <1>5, <2>1, <2>4 DEF n
  <2>6. k \in DOMAIN b /\ b[k] = cstack[k] BY <1>4, <2>5
  <2>7. CASE x = f
    <3>1. ~(Resuming(cstack, k) /\ p = Len(ci[x])) BY <2>2, <2>7
    <3> QED BY <2>3, <2>6, <3>1 DEF Holds
  <2>8. CASE x # f
    <3>1. ci'[x] = ci[x] BY <1>2, <2>0, <2>1, <2>8
    <3>2. k # j - 1 BY <1>0, <2>4, <2>8
    <3>3. k < j - 1 /\ k + 1 \in 1..j - 1 BY <1>3, <2>5, <3>2
    <3>4. Resuming(cstack, k) => Resuming(b, k) BY <1>4, <3>3 DEF Resuming
    <3>5. Holds(b, ci', x, p, k) BY <2>3, <2>6, <3>1, <3>4 DEF Holds
    <3> QED BY <2>6, <3>5
  <2> QED BY <2>7, <2>8
<1> QED BY <1>2, <1>8 DEF Held

\* A pcall of a coroutine gets an error, or unroll goes on.
LEMMA HeldContinuing ==
  ASSUME FramesInv, Held(cstack, ci), NEW j, NEW c, NEW h, Continuing(j, c, h),
         \A i \in 1..h : ci[c][i] \in Plain
  PROVE  Held(cstack', ci')
<1> DEFINE n == Len(cstack)
           b == SubSeq(cstack, 1, j)
<1>0. /\ j \in DOMAIN cstack /\ \A i \in j..n : cstack[i].thread = c
      /\ cstack' = b
  BY DEF Continuing
<1>1. cstack \in Seq(Entry) BY DEF FramesInv, TypeOK
<1>2. /\ c \in Coroutines /\ c \in LuaThreads
      /\ ci[c] \in Seq(CallInfos) /\ ci' \in CiLists
      /\ Len(ci'[c]) = h /\ \A i \in 1..h : ci'[c][i] = ci[c][i]
      /\ \A x \in LuaThreads \ {c} : ci'[x] = ci[x]
  BY ContinueFrames DEF LuaThreads
<1>3. n \in Nat /\ DOMAIN cstack = 1..n /\ j \in 1..n /\ j \in Nat /\ j \in 0..n
  BY <1>0, <1>1, EntriesAre
<1>4. /\ b \in Seq(Entry) /\ Len(b) = j /\ DOMAIN b = 1..j
      /\ \A i \in 1..j : b[i] = cstack[i] /\ i \in DOMAIN cstack
  BY <1>1, <1>3, PrefixIs
<1>5. \A k \in DOMAIN cstack : k \in Nat /\ (k \in 1..j - 1 \/ k \in j..n) BY <1>3
<1> HIDE DEF b, n
<1>8. ASSUME NEW x \in Coroutines, NEW i \in DOMAIN b, b[i].thread = x,
             NEW p \in DOMAIN ci'[x], ci'[x][p] \notin Plain
      PROVE  \E k \in DOMAIN b : Holds(b, ci', x, p, k)
  <2>0. x \in LuaThreads BY DEF LuaThreads
  <2>1. x # c
    <3>1. SUFFICES ASSUME x = c PROVE FALSE OBVIOUS
    <3>2. ci'[c] \in Seq(CallInfos) BY <1>2 DEF CiLists
    <3>3. p \in 1..h BY <1>2, <1>8, <3>1, <3>2
    <3> QED BY <1>2, <1>8, <3>1, <3>3
  <2>2. ci'[x] = ci[x] /\ i \in DOMAIN cstack /\ cstack[i].thread = x
    BY <1>2, <1>4, <1>8, <2>0, <2>1
  <2>3. PICK k \in DOMAIN cstack : Holds(cstack, ci, x, p, k)
    BY <1>8, <2>2 DEF Held
  <2>4. cstack[k].thread = x BY <2>3 DEF Holds
  <2>5. k \in 1..j - 1 BY <1>0, <1>5, <2>1, <2>4 DEF n
  <2>6. k \in 1..j /\ k < j /\ k + 1 \in 1..j BY <1>3, <2>5
  <2>7. k \in DOMAIN b /\ b[k] = cstack[k] BY <1>4, <2>6
  <2>8. Resuming(cstack, k) => Resuming(b, k) BY <1>4, <2>6 DEF Resuming
  <2>9. Holds(b, ci', x, p, k) BY <2>2, <2>3, <2>7, <2>8 DEF Holds
  <2> QED BY <2>7, <2>9
<1> QED BY <1>0, <1>8 DEF Held

\* Lists with more CallInfos of t: a pcall that unroll can finish is called by
\* what it can finish.
LEMMA PcallsLonger ==
  ASSUME NEW q \in CiLists, NEW u \in CiLists, PcallsOnPlain(q),
         NEW t, Longer(q, u, t),
         t \in Coroutines => \A i \in Len(q[t]) + 1..Len(u[t]) : u[t][i] = "pcallk" =>
            i = Len(q[t]) + 1 /\ \A p \in DOMAIN q[t] : q[t][p] \in Plain
  PROVE  PcallsOnPlain(u)
<1>1. ASSUME NEW c \in Coroutines, NEW i \in DOMAIN u[c], u[c][i] = "pcallk",
             NEW p \in 1..i - 1
      PROVE  u[c][p] \in Plain
  <2>1. /\ q[c] \in Seq(CallInfos) /\ u[c] \in Seq(CallInfos) /\ c \in LuaThreads
        /\ DOMAIN q[c] = 1..Len(q[c]) /\ DOMAIN u[c] = 1..Len(u[c])
        /\ Len(q[c]) \in Nat /\ Len(u[c]) \in Nat
    BY DEF CiLists, LuaThreads
  <2>2. CASE c # t
    <3>1. u[c] = q[c] BY <2>1, <2>2 DEF Longer
    <3> QED BY <1>1, <3>1 DEF PcallsOnPlain
  <2>3. CASE c = t
    <3>1. \A k \in 1..Len(q[c]) : u[c][k] = q[c][k] BY <2>3 DEF Longer
    <3>2. CASE i \in 1..Len(q[c])
      <4>1. i \in DOMAIN q[c] /\ q[c][i] = "pcallk" /\ p \in 1..Len(q[c])
        BY <1>1, <2>1, <3>1, <3>2
      <4> QED BY <1>1, <3>1, <4>1 DEF PcallsOnPlain
    <3>3. CASE i \notin 1..Len(q[c])
      <4>1. i \in Len(q[c]) + 1..Len(u[c]) BY <1>1, <2>1, <3>3
      <4>2. i = Len(q[c]) + 1 /\ \A x \in DOMAIN q[c] : q[c][x] \in Plain
        BY <1>1, <2>3, <4>1
      <4>3. p \in 1..Len(q[c]) BY <1>1, <2>1, <4>2
      <4> QED BY <2>1, <3>1, <4>2, <4>3
    <3> QED BY <3>2, <3>3
  <2> QED BY <2>2, <2>3
<1> QED BY <1>1 DEF PcallsOnPlain

\* Lists of coroutines that are not suspended change.
LEMMA SuspendedStay ==
  ASSUME NEW q, NEW u, NEW st, NEW st2, SuspendedPlain(q, st),
         \A c \in Coroutines : st2[c] = "suspended" =>
            (st[c] = "suspended" /\ u[c] = q[c]) \/ \A p \in DOMAIN u[c] : u[c][p] \in Plain
  PROVE  SuspendedPlain(u, st2)
BY DEF SuspendedPlain

\* An entry of the thread that runs is pushed, or luaPcall's of the main one.
LEMMA FinishPushed ==
  ASSUME NEW cs \in Seq(Entry), NEW q \in CiLists, NEW st, Finishable(cs, q, st),
         NEW e \in Entry, e.kind # "res",
         e.thread \in Coroutines => NotResuming(cs, e.thread) /\ st[e.thread] = "running",
         NEW u \in CiLists, Longer(q, u, e.thread),
         \A i \in Len(q[e.thread]) + 1..Len(u[e.thread]) :
            \/ u[e.thread][i] \in Plain
            \/ /\ e.kind = "java" \/ (e.kind = "call" /\ e.ny = 1)
               /\ e.depth + 1 = i,
         e.thread \in Coroutines =>
            \A i \in Len(q[e.thread]) + 1..Len(u[e.thread]) : u[e.thread][i] = "pcallk" =>
               /\ i = Len(q[e.thread]) + 1
               /\ \A p \in DOMAIN q[e.thread] : q[e.thread][p] \in Plain
  PROVE  Finishable(Append(cs, e), u, st)
<1>2. Held(Append(cs, e), u) BY HeldPushed DEF Finishable
<1>3. PcallsOnPlain(u) BY PcallsLonger DEF Finishable
<1>4. SuspendedPlain(u, st)
  <2>1. ASSUME NEW c \in Coroutines, st[c] = "suspended" PROVE u[c] = q[c]
    <3>1. c \in LuaThreads BY DEF LuaThreads
    <3>2. c # e.thread BY <2>1
    <3> QED BY <3>1, <3>2 DEF Longer
  <2> QED BY <2>1, SuspendedStay DEF Finishable
<1> QED BY <1>2, <1>3, <1>4 DEF Finishable

\* A coroutine that runs has resumed none.
LEMMA RunsNow ==
  ASSUME FramesInv, NEW t \in Coroutines, cstack # <<>>, t = Innermost.thread
  PROVE  NotResuming(cstack, t) /\ status[t] = "running"
<1>1. cstack \in Seq(Entry) BY DEF FramesInv, TypeOK
<1>2. Len(cstack) \in DOMAIN cstack /\ Innermost = cstack[Len(cstack)]
  BY <1>1, EntriesAre DEF Innermost
<1>3. \A k \in DOMAIN cstack : cstack[k].thread = t => ~Resuming(cstack, k)
  BY InnermostRuns
<1> QED BY <1>2, <1>3, TopIs DEF NotResuming

\* luaD_call: of what unroll cannot finish, it counts as not yieldable.
LEMMA FinishCalled ==
  ASSUME FramesInv, Finishable(cstack, ci, status), UNCHANGED rules,
         NEW t \in LuaThreads, InLua(t), NEW ny \in {0, 1}, NEW s,
         \/ s = ci[t]
         \/ \E x \in CFunctions :
               /\ s = Append(ci[t], x)
               /\ x # "pcallk" => ny = 1
               /\ x = "pcallk" /\ t \in Coroutines => \A p \in DOMAIN ci[t] : ci[t][p] \in Plain,
         DoCall(t, s, <<>>, ny)
  PROVE  Finishable(cstack', ci', status')
<1> DEFINE e == Call(t, ny, Len(ci[t]))
<1>0. s = ci[t] \/ \E x \in CFunctions : s = Append(ci[t], x) OBVIOUS
<1>1. ci \in CiLists /\ ci[t] \in Seq(CallInfos) /\ Len(ci[t]) \in Nat
  BY DEF FramesInv, TypeOK, CiLists
<1>2. cstack' = Append(cstack, e) /\ FramesInv' BY <1>0, DoCallFrames
<1>3. ci' \in CiLists BY <1>2 DEF FramesInv, TypeOK
<1>4. status' = status /\ ci' = [ci EXCEPT ![t] = s \o <<"lua">>] BY DEF DoCall
<1>5. Longer(ci, ci', t)
  <2>1. "lua" \in {"lua", "java"} OBVIOUS
  <2> QED BY <1>0, <1>1, <1>3, <1>4, <2>1, CallLonger
<1>6. /\ e \in Entry /\ e.kind = "call" /\ e.thread = t /\ e.ny = ny /\ e.depth = Len(ci[t])
  BY <1>1, ShortsAre, EntriesPushed
<1> HIDE DEF e
<1>7. \A i \in Len(ci[t]) + 1..Len(ci'[t]) :
         \/ ci'[t][i] = "lua"
         \/ /\ i = Len(ci[t]) + 1 /\ ci'[t][i] # "pcallk" /\ ny = 1
         \/ /\ i = Len(ci[t]) + 1 /\ ci'[t][i] = "pcallk"
            /\ t \in Coroutines => \A p \in DOMAIN ci[t] : ci[t][p] \in Plain
  <2>0. ci'[t] = s \o <<"lua">> BY <1>1, <1>4 DEF CiLists
  <2>1. CASE s = ci[t]
    <3>1. ci'[t] = Append(ci[t], "lua") BY <1>1, <2>0, <2>1
    <3>2. "lua" \in CallInfos BY DEF CallInfos
    <3>3. Len(ci'[t]) = Len(ci[t]) + 1 /\ ci'[t][Len(ci[t]) + 1] = "lua"
      BY <1>1, <3>1, <3>2, AppendIs
    <3>4. \A i \in Len(ci[t]) + 1..Len(ci'[t]) : i = Len(ci[t]) + 1 BY <1>1, <3>3
    <3> QED BY <3>3, <3>4
  <2>2. ASSUME NEW x \in CFunctions, s = Append(ci[t], x), x # "pcallk" => ny = 1,
               (x = "pcallk" /\ t \in Coroutines) => \A p \in DOMAIN ci[t] : ci[t][p] \in Plain
        PROVE  \A i \in Len(ci[t]) + 1..Len(ci'[t]) :
                 \/ ci'[t][i] = "lua"
                 \/ /\ i = Len(ci[t]) + 1 /\ ci'[t][i] # "pcallk" /\ ny = 1
                 \/ /\ i = Len(ci[t]) + 1 /\ ci'[t][i] = "pcallk"
                    /\ t \in Coroutines => \A p \in DOMAIN ci[t] : ci[t][p] \in Plain
    <3>1. x \in CallInfos /\ "lua" \in CallInfos BY DEF CallInfos
    <3>2. /\ s \in Seq(CallInfos) /\ Len(s) = Len(ci[t]) + 1
          /\ s[Len(ci[t]) + 1] = x
      BY <1>1, <2>2, <3>1, AppendIs
    <3>3. ci'[t] = Append(s, "lua") BY <2>0, <3>2
    <3>4. /\ Len(ci'[t]) = Len(s) + 1 /\ ci'[t][Len(s) + 1] = "lua"
          /\ \A i \in 1..Len(s) : ci'[t][i] = s[i]
      BY <3>1, <3>2, <3>3, AppendIs
    <3>5. \A i \in Len(ci[t]) + 1..Len(ci'[t]) : i = Len(ci[t]) + 1 \/ i = Len(s) + 1
      BY <1>1, <3>2, <3>4
    <3>6. ci'[t][Len(ci[t]) + 1] = x
      <4>1. Len(ci[t]) + 1 \in 1..Len(s) BY <1>1, <3>2
      <4> QED BY <3>2, <3>4, <4>1
    <3>7. CASE x = "pcallk" BY <2>2, <3>4, <3>5, <3>6, <3>7
    <3>8. CASE x # "pcallk" BY <2>2, <3>4, <3>5, <3>6, <3>8
    <3> QED BY <3>7, <3>8
  <2> QED BY <2>1, <2>2
<1>8. \A i \in Len(ci[t]) + 1..Len(ci'[t]) :
         \/ ci'[t][i] \in Plain
         \/ /\ e.kind = "java" \/ (e.kind = "call" /\ e.ny = 1)
            /\ e.depth + 1 = i
  BY <1>6, <1>7 DEF Plain
<1>9. t \in Coroutines => \A i \in Len(ci[t]) + 1..Len(ci'[t]) : ci'[t][i] = "pcallk" =>
         /\ i = Len(ci[t]) + 1
         /\ \A p \in DOMAIN ci[t] : ci[t][p] \in Plain
  BY <1>7
<1>10. /\ e.kind # "res" /\ cstack \in Seq(Entry)
       /\ e.thread \in Coroutines => NotResuming(cstack, e.thread) /\ status[e.thread] = "running"
  BY <1>6, RunsNow DEF InLua, FramesInv, TypeOK
<1>11. Finishable(Append(cstack, e), ci', status)
  BY <1>1, <1>3, <1>5, <1>6, <1>8, <1>9, <1>10, FinishPushed
<1> QED BY <1>2, <1>4, <1>11

\* luaD_pcall.
LEMMA FinishPcalled ==
  ASSUME FramesInv, Finishable(cstack, ci, status), UNCHANGED rules,
         NEW t \in LuaThreads, NEW s,
         \/ InLua(t) /\ s = Append(ci[t], "pcallc")
         \/ InJava /\ t = Main /\ s = ci[t],
         DoCall(t, s, <<Raw(t, nCcalls[t], nny[t], Len(ci[t]))>>, 1)
  PROVE  Finishable(cstack', ci', status')
<1> DEFINE r == Raw(t, nCcalls[t], nny[t], Len(ci[t]))
           e == Call(t, 1, Len(ci[t]))
           b == Append(cstack, r)
<1>1. /\ cstack \in Seq(Entry) /\ nny \in [LuaThreads -> Shorts] /\ ci \in CiLists
      /\ nCcalls \in [LuaThreads -> Shorts]
      /\ ci[t] \in Seq(CallInfos) /\ Len(ci[t]) \in Nat
  BY DEF FramesInv, TypeOK, CiLists
<1>2. cstack' = Append(b, e) /\ FramesInv' BY DoPcallFrames
<1>3. ci' \in CiLists BY <1>2 DEF FramesInv, TypeOK
<1>4. status' = status /\ ci' = [ci EXCEPT ![t] = s \o <<"lua">>] BY DEF DoCall
<1>5. Longer(ci, ci', t)
  <2>1. "lua" \in {"lua", "java"} OBVIOUS
  <2>2. s = ci[t] \/ \E x \in CFunctions : s = Append(ci[t], x) BY DEF CFunctions
  <2> QED BY <1>1, <1>3, <1>4, <2>1, <2>2, CallLonger
<1>6. Longer(ci, ci, t) /\ \A i \in Len(ci[t]) + 1..Len(ci[t]) : FALSE
  BY <1>1 DEF Longer
<1>7. /\ r \in Entry /\ r.kind = "raw" /\ r.thread = t
      /\ e \in Entry /\ e.kind = "call" /\ e.thread = t /\ e.ny = 1 /\ e.depth = Len(ci[t])
  <2>1. nny[t] \in Shorts /\ nCcalls[t] \in Shorts BY <1>1
  <2>2. 1 \in {0, 1} OBVIOUS
  <2> QED BY <1>1, <2>1, <2>2, EntriesPushed
<1>8. t \in Coroutines => NotResuming(cstack, t) /\ status[t] = "running"
  BY RunsNow, ThreadsAssumption DEF InLua
<1> HIDE DEF e, r
<1>9. /\ b \in Seq(Entry) /\ Len(cstack) \in Nat /\ Len(b) = Len(cstack) + 1
      /\ DOMAIN cstack = 1..Len(cstack) /\ DOMAIN b = 1..Len(cstack) + 1
      /\ \A i \in 1..Len(cstack) : b[i] = cstack[i]
      /\ b[Len(cstack) + 1] = r
  BY <1>1, <1>7, AppendIs
<1>10. Finishable(b, ci, status)
  <2>1. r.kind # "res" /\ (r.thread \in Coroutines =>
                              NotResuming(cstack, r.thread) /\ status[r.thread] = "running")
    BY <1>7, <1>8
  <2> QED BY <1>1, <1>6, <1>7, <2>1, FinishPushed
<1> HIDE DEF b
<1>11. t \in Coroutines => NotResuming(b, t)
  <2>1. SUFFICES ASSUME t \in Coroutines PROVE NotResuming(b, t) OBVIOUS
  <2>2. Len(cstack) + 1 \in DOMAIN b /\ b[Len(cstack) + 1].thread = t BY <1>7, <1>9
  <2>3. ASSUME NEW k \in DOMAIN b, b[k].thread = t, Resuming(b, k) PROVE FALSE
    <3>1. k < Len(b) /\ b[k + 1].kind = "res" BY <2>3 DEF Resuming
    <3>2. k \in 1..Len(cstack) BY <1>9, <3>1
    <3>3. k + 1 \in DOMAIN b /\ k + 1 # Len(cstack) + 1 BY <1>7, <1>9, <3>1, <3>2
    <3>4. k + 1 \in 1..Len(cstack) /\ k < Len(cstack) BY <1>9, <3>2, <3>3
    <3>5. Resuming(cstack, k) BY <1>9, <3>1, <3>4 DEF Resuming
    <3>6. k \in DOMAIN cstack /\ cstack[k].thread = t BY <1>9, <2>3, <3>2
    <3> QED BY <1>8, <2>1, <3>5, <3>6 DEF NotResuming
  <2> QED BY <2>2, <2>3 DEF NotResuming
<1>12. \A i \in Len(ci[t]) + 1..Len(ci'[t]) : ci'[t][i] = "lua" \/
          (i = Len(ci[t]) + 1 /\ ci'[t][i] # "pcallk")
  <2>0. ci'[t] = s \o <<"lua">> BY <1>1, <1>4 DEF CiLists
  <2>1. "lua" \in CallInfos /\ "pcallc" \in CallInfos BY DEF CallInfos, CFunctions
  <2>2. CASE s = ci[t]
    <3>1. ci'[t] = Append(ci[t], "lua") BY <1>1, <2>0, <2>2
    <3>3. Len(ci'[t]) = Len(ci[t]) + 1 /\ ci'[t][Len(ci[t]) + 1] = "lua"
      BY <1>1, <2>1, <3>1, AppendIs
    <3>4. \A i \in Len(ci[t]) + 1..Len(ci'[t]) : i = Len(ci[t]) + 1 BY <1>1, <3>3
    <3> QED BY <3>3, <3>4
  <2>3. CASE s = Append(ci[t], "pcallc")
    <3>2. /\ s \in Seq(CallInfos) /\ Len(s) = Len(ci[t]) + 1
          /\ s[Len(ci[t]) + 1] = "pcallc"
      BY <1>1, <2>1, <2>3, AppendIs
    <3>3. ci'[t] = Append(s, "lua") BY <2>0, <3>2
    <3>4. /\ Len(ci'[t]) = Len(s) + 1 /\ ci'[t][Len(s) + 1] = "lua"
          /\ \A i \in 1..Len(s) : ci'[t][i] = s[i]
      BY <2>1, <3>2, <3>3, AppendIs
    <3>5. \A i \in Len(ci[t]) + 1..Len(ci'[t]) : i = Len(ci[t]) + 1 \/ i = Len(s) + 1
      BY <1>1, <3>2, <3>4
    <3>6. Len(ci[t]) + 1 \in 1..Len(s) BY <1>1, <3>2
    <3> QED BY <3>2, <3>4, <3>5, <3>6
  <2> QED BY <2>2, <2>3
<1>13. Finishable(Append(b, e), ci', status)
  <2>1. /\ e.kind # "res"
        /\ e.thread \in Coroutines => NotResuming(b, e.thread) /\ status[e.thread] = "running"
    BY <1>7, <1>8, <1>11
  <2>2. \A i \in Len(ci[t]) + 1..Len(ci'[t]) :
           \/ ci'[t][i] \in Plain
           \/ /\ e.kind = "java" \/ (e.kind = "call" /\ e.ny = 1)
              /\ e.depth + 1 = i
    BY <1>7, <1>12 DEF Plain
  <2>3. t \in Coroutines =>
           \A i \in Len(ci[t]) + 1..Len(ci'[t]) : ci'[t][i] = "pcallk" =>
              /\ i = Len(ci[t]) + 1
              /\ \A p \in DOMAIN ci[t] : ci[t][p] \in Plain
    BY <1>12
  <2>4. e.thread = t /\ e \in Entry /\ b \in Seq(Entry) BY <1>7, <1>9
  <2> QED BY <1>1, <1>3, <1>5, <1>10, <2>1, <2>2, <2>3, <2>4, FinishPushed
<1> QED BY <1>2, <1>4, <1>13

\* A script calls a Java function.
LEMMA FinishJavaCalled ==
  ASSUME FramesInv, Finishable(cstack, ci, status), UNCHANGED rules,
         NEW t \in LuaThreads, JavaCall(t)
  PROVE  Finishable(cstack', ci', status')
<1> DEFINE e == Java(t, Len(ci[t]))
<1>1. cstack \in Seq(Entry) /\ ci \in CiLists /\ ci[t] \in Seq(CallInfos) /\ Len(ci[t]) \in Nat
  BY DEF FramesInv, TypeOK, CiLists
<1>2. cstack' = Append(cstack, e) /\ FramesInv' BY JavaCallFrames
<1>3. ci' \in CiLists BY <1>2 DEF FramesInv, TypeOK
<1>4. status' = status /\ ci' = [ci EXCEPT ![t] = Append(ci[t], "java")] BY DEF JavaCall
<1>5. Longer(ci, ci', t)
  <2>1. "java" \in {"lua", "java"} OBVIOUS
  <2>2. ci[t] = ci[t] \/ \E x \in CFunctions : ci[t] = Append(ci[t], x) OBVIOUS
  <2>3. Append(ci[t], "java") = ci[t] \o <<"java">> BY <1>1
  <2>4. ci' = [ci EXCEPT ![t] = ci[t] \o <<"java">>] BY <1>4, <2>3
  <2> QED BY <1>1, <1>3, <2>1, <2>2, <2>4, CallLonger
<1>6. /\ e \in Entry /\ e.kind = "java" /\ e.thread = t /\ e.depth = Len(ci[t])
  <2>1. 0 \in {0, 1} OBVIOUS
  <2> QED BY <1>1, <2>1, ShortsAre, EntriesPushed
<1> HIDE DEF e
<1>7. \A i \in Len(ci[t]) + 1..Len(ci'[t]) : i = Len(ci[t]) + 1 /\ ci'[t][i] # "pcallk"
  <2>1. "java" \in CallInfos BY DEF CallInfos
  <2>2. ci'[t] = Append(ci[t], "java") BY <1>1, <1>4 DEF CiLists
  <2>3. Len(ci'[t]) = Len(ci[t]) + 1 /\ ci'[t][Len(ci[t]) + 1] = "java"
    BY <1>1, <2>1, <2>2, AppendIs
  <2>4. \A i \in Len(ci[t]) + 1..Len(ci'[t]) : i = Len(ci[t]) + 1 BY <1>1, <2>3
  <2> QED BY <2>3, <2>4
<1>8. /\ e.kind # "res"
      /\ e.thread \in Coroutines => NotResuming(cstack, e.thread) /\ status[e.thread] = "running"
  BY <1>6, RunsNow DEF JavaCall, InLua
<1>9. \A i \in Len(ci[t]) + 1..Len(ci'[t]) :
         \/ ci'[t][i] \in Plain
         \/ /\ e.kind = "java" \/ (e.kind = "call" /\ e.ny = 1)
            /\ e.depth + 1 = i
  BY <1>6, <1>7
<1>10. Finishable(Append(cstack, e), ci', status)
  BY <1>1, <1>3, <1>5, <1>6, <1>7, <1>8, <1>9, FinishPushed
<1> QED BY <1>2, <1>4, <1>10

\* coroutine.resume calls a coroutine.
LEMMA FinishResumed ==
  ASSUME FramesInv, Finishable(cstack, ci, status), UNCHANGED rules,
         NEW t \in LuaThreads, NEW c \in Coroutines, Resume(t, c)
  PROVE  Finishable(cstack', ci', status')
<1> DEFINE n == Len(cstack)
           e == Res(c, Wrapped(nCcalls[t] + 1))
           b == Append(cstack, e)
<1>0. /\ cstack' = b /\ status' = [status EXCEPT ![c] = "running"]
      /\ cstack # <<>> /\ Innermost.thread = t
  BY DEF Resume, InLua
<1>1. /\ cstack \in Seq(Entry) /\ nCcalls \in [LuaThreads -> Shorts]
      /\ status \in [Coroutines -> Statuses] /\ ci \in CiLists
  BY DEF FramesInv, Frames, TypeOK
<1>2. c \in LuaThreads BY DEF LuaThreads
<1>3. e \in Entry /\ e.kind = "res" /\ e.thread = c
  <2>1. nCcalls[t] + 1 \in Int BY <1>1, LimitsAssumption DEF Shorts
  <2>2. Wrapped(nCcalls[t] + 1) \in Shorts BY <2>1, WrappedIs
  <2> HIDE DEF e
  <2>3. e = Res(c, Wrapped(nCcalls[t] + 1)) BY DEF e
  <2>4. 0 \in Nat /\ 0 \in {0, 1} /\ 0 \in Shorts BY ShortsAre
  <2> QED BY <1>2, <2>2, <2>3, <2>4, EntriesPushed
<1>4. /\ c # t /\ \A i \in DOMAIN cstack : cstack[i].thread # c
      /\ ci[t] \in Seq(CallInfos) /\ ci[c] \in Seq(CallInfos)
      /\ ci'[t] = Append(ci[t], "resume")
      /\ \/ status[c] = "new" /\ ci'[c] = <<"lua">>
         \/ status[c] = "suspended" /\ ci'[c] = ci[c]
      /\ \A x \in LuaThreads \ {c, t} : ci'[x] = ci[x]
      /\ FramesInv'
  BY ResumeFrames
<1> HIDE DEF e
<1>5. /\ b \in Seq(Entry) /\ n \in Nat /\ Len(b) = n + 1
      /\ DOMAIN cstack = 1..n /\ DOMAIN b = 1..n + 1
      /\ \A i \in 1..n : b[i] = cstack[i]
      /\ b[n + 1] = e
  BY <1>1, <1>3, AppendIs
<1>6. n \in 1..n /\ cstack[n].thread = t
  BY <1>0, <1>1, EntriesAre DEF Innermost
<1> HIDE DEF b, n
<1>7. \A p \in DOMAIN ci'[c] : ci'[c][p] \in Plain
  <2>1. CASE ci'[c] = <<"lua">> BY <2>1 DEF Plain
  <2>2. CASE status[c] = "suspended" /\ ci'[c] = ci[c]
    BY <2>2 DEF Finishable, SuspendedPlain
  <2> QED BY <1>4, <2>1, <2>2
<1>8. /\ DOMAIN ci'[t] = 1..Len(ci[t]) + 1 /\ Len(ci'[t]) = Len(ci[t]) + 1
      /\ Len(ci[t]) \in Nat /\ DOMAIN ci[t] = 1..Len(ci[t])
      /\ \A i \in 1..Len(ci[t]) : ci'[t][i] = ci[t][i]
      /\ ci'[t][Len(ci[t]) + 1] = "resume"
  <2>1. "resume" \in CallInfos BY DEF CallInfos
  <2> QED BY <1>4, <2>1, AppendIs
<1>9. ASSUME NEW k \in DOMAIN cstack, Resuming(cstack, k) PROVE Resuming(b, k)
  <2>1. k < n /\ cstack[k + 1].kind = "res" BY <1>9 DEF Resuming, n
  <2>2. k + 1 \in 1..n /\ k < n + 1 BY <1>5, <2>1
  <2> QED BY <1>5, <2>1, <2>2 DEF Resuming
<1>10. ASSUME NEW x \in Coroutines, NEW i \in DOMAIN b, b[i].thread = x,
              NEW p \in DOMAIN ci'[x], ci'[x][p] \notin Plain
       PROVE  \E k \in DOMAIN b : Holds(b, ci', x, p, k)
  <2>0. x # c /\ x \in LuaThreads BY <1>7, <1>10 DEF LuaThreads
  <2>1. i \in DOMAIN cstack /\ cstack[i].thread = x BY <1>3, <1>5, <1>10, <2>0
  <2>2. CASE x # t
    <3>1. ci'[x] = ci[x] BY <1>4, <2>0, <2>2
    <3>2. PICK k \in DOMAIN cstack : Holds(cstack, ci, x, p, k)
      BY <1>10, <2>1, <3>1 DEF Finishable, Held
    <3>3. k \in DOMAIN b /\ b[k] = cstack[k] BY <1>5
    <3>4. Holds(b, ci', x, p, k) BY <1>9, <3>1, <3>2, <3>3 DEF Holds
    <3> QED BY <3>3, <3>4
  <2>3. CASE x = t
    <3>1. CASE p \in DOMAIN ci[t]
      <4>1. ci[t][p] \notin Plain BY <1>8, <1>10, <2>3, <3>1
      <4>2. PICK k \in DOMAIN cstack : Holds(cstack, ci, x, p, k)
        BY <2>1, <2>3, <3>1, <4>1 DEF Finishable, Held
      <4>3. k \in DOMAIN b /\ b[k] = cstack[k] BY <1>5
      <4>4. ~Resuming(cstack, k) BY <1>0, <2>3, <4>2, InnermostRuns DEF Holds
      <4>5. Holds(b, ci', x, p, k) BY <4>2, <4>3, <4>4 DEF Holds
      <4> QED BY <4>3, <4>5
    <3>2. CASE p \notin DOMAIN ci[t]
      <4>1. p = Len(ci'[t]) BY <1>8, <1>10, <2>3, <3>2
      <4>2. n \in DOMAIN b /\ n < Len(b) BY <1>5, <1>6
      <4>3. Resuming(b, n) BY <1>3, <1>5, <4>2 DEF Resuming
      <4>4. Holds(b, ci', x, p, n) BY <1>5, <1>6, <2>3, <4>1, <4>3 DEF Holds
      <4> QED BY <4>2, <4>4
    <3> QED BY <3>1, <3>2
  <2> QED BY <2>2, <2>3
<1>11. Held(b, ci') BY <1>10 DEF Held
<1>12. PcallsOnPlain(ci')
  <2>1. ASSUME NEW x \in Coroutines, NEW i \in DOMAIN ci'[x], ci'[x][i] = "pcallk",
               NEW p \in 1..i - 1
        PROVE  ci'[x][p] \in Plain
    <3>0. x \in LuaThreads BY DEF LuaThreads
    <3>1. ci' \in CiLists BY <1>4 DEF FramesInv, TypeOK
    <3>2. ci'[x] \in Seq(CallInfos) BY <3>0, <3>1 DEF CiLists
    <3>3. p \in DOMAIN ci'[x] BY <2>1, <3>2
    <3>4. CASE x = c BY <1>7, <3>3, <3>4
    <3>5. CASE x = t
      <4>1. i \in DOMAIN ci[t] /\ ci[t][i] = "pcallk" /\ p \in 1..Len(ci[t])
        BY <1>8, <2>1, <3>5
      <4>2. ci[t][p] \in Plain BY <2>1, <3>5, <4>1 DEF Finishable, PcallsOnPlain
      <4> QED BY <1>8, <3>5, <4>1, <4>2
    <3>6. CASE x # c /\ x # t
      <4>1. ci'[x] = ci[x] BY <1>4, <3>0, <3>6
      <4> QED BY <2>1, <4>1 DEF Finishable, PcallsOnPlain
    <3> QED BY <3>4, <3>5, <3>6
  <2> QED BY <2>1 DEF PcallsOnPlain
<1>13. SuspendedPlain(ci', status')
  <2>1. ASSUME NEW x \in Coroutines, status'[x] = "suspended"
        PROVE  status[x] = "suspended" /\ ci'[x] = ci[x]
    <3>1. x # c /\ status[x] = "suspended" BY <1>0, <1>1, <2>1
    <3>2. x # t BY <1>0, <3>1, TopIs
    <3>3. x \in LuaThreads BY DEF LuaThreads
    <3> QED BY <1>4, <3>1, <3>2, <3>3
  <2> QED BY <2>1, SuspendedStay DEF Finishable
<1> QED BY <1>0, <1>11, <1>12, <1>13 DEF Finishable

\* Entries of t go, which is the main thread or runs now.
LEMMA FinishCutting ==
  ASSUME FramesInv, Finishable(cstack, ci, status), NEW m, NEW t, Cutting(m, t),
         t = Main \/ t = Innermost.thread
  PROVE  Finishable(cstack', ci', status')
<1>1. Held(cstack', ci') BY HeldCutting DEF Finishable
<1>2. /\ m \in 0..Len(cstack) - 1 /\ t = cstack[m + 1].thread /\ status' = status
      /\ ci' = [ci EXCEPT ![t] = SubSeq(ci[t], 1, cstack[m + 1].depth)]
  BY DEF Cutting
<1>3. cstack \in Seq(Entry) /\ ci \in CiLists /\ Depths(cstack, ci)
  BY DEF FramesInv, Frames, TypeOK, Layout
<1>4. m + 1 \in DOMAIN cstack /\ t \in LuaThreads /\ cstack[m + 1].depth \in Nat
  BY <1>2, <1>3, EntriesAre
<1>5. ci[t] \in Seq(CallInfos) /\ Len(ci[t]) \in Nat
      /\ cstack[m + 1].depth \in 0..Len(ci[t])
  BY <1>2, <1>3, <1>4 DEF CiLists, Depths
<1>6. /\ Len(ci'[t]) <= Len(ci[t]) /\ \A i \in 1..Len(ci'[t]) : ci'[t][i] = ci[t][i]
      /\ \A x \in LuaThreads \ {t} : ci'[x] = ci[x]
  BY <1>2, <1>3, <1>4, <1>5, PrefixIs DEF CiLists
<1>7. ci' \in CiLists
  <2>1. FramesInv' BY CutFrames
  <2> QED BY <2>1 DEF FramesInv, TypeOK
<1>8. PcallsOnPlain(ci')
  <2>1. \A x \in Coroutines : \/ ci'[x] = ci[x]
                              \/ /\ Len(ci'[x]) <= Len(ci[x])
                                 /\ \A i \in 1..Len(ci'[x]) : ci'[x][i] = ci[x][i]
    BY <1>6 DEF LuaThreads
  <2> QED BY <1>3, <1>7, <2>1, PcallsShortened DEF Finishable
<1>9. SuspendedPlain(ci', status')
  <2>1. ASSUME NEW c \in Coroutines, status'[c] = "suspended"
        PROVE  status[c] = "suspended" /\ ci'[c] = ci[c]
    <3>1. c \in LuaThreads BY DEF LuaThreads
    <3>2. status[c] # "running" BY <1>2, <2>1
    <3>3. c # t BY <1>2, <1>4, <3>2, NotOnStack
    <3> QED BY <1>2, <1>6, <2>1, <3>1, <3>3
  <2> QED BY <2>1, SuspendedStay DEF Finishable
<1> QED BY <1>1, <1>8, <1>9 DEF Finishable

\* A coroutine yields or ends.
LEMMA FinishEnding ==
  ASSUME FramesInv, Finishable(cstack, ci, status),
         NEW j, NEW c, NEW f, NEW s, NEW new, Ending(j, c, f, s, new),
         new = "suspended" => \A p \in DOMAIN s : s[p] \in Plain
  PROVE  Finishable(cstack', ci', status')
<1>1. Held(cstack', ci') BY HeldEnding DEF Finishable
<1>2. /\ Len(s) <= Len(ci[c]) /\ \A i \in 1..Len(s) : s[i] = ci[c][i]
      /\ EndResume(c, j, s, new) /\ j \in DOMAIN cstack /\ f = cstack[j - 1].thread
  BY DEF Ending
<1>3. cstack \in Seq(Entry) /\ ci \in CiLists /\ status \in [Coroutines -> Statuses]
  BY DEF FramesInv, TypeOK
<1>4. /\ j > 1 /\ c \in Coroutines /\ f \in LuaThreads \ {c} /\ c \in LuaThreads
      /\ ci'[c] = s /\ ci[f] # <<>> /\ ci'[f] = Front(ci[f])
      /\ \A x \in LuaThreads \ {c, f} : ci'[x] = ci[x]
      /\ FramesInv'
  BY EndFrames DEF LuaThreads
<1>5. Len(ci'[f]) <= Len(ci[f]) /\ \A i \in 1..Len(ci'[f]) : ci'[f][i] = ci[f][i]
  <2>1. ci[f] \in Seq(CallInfos) /\ Len(ci[f]) \in Nat BY <1>3, <1>4 DEF CiLists
  <2>2. Len(ci[f]) # 0 BY <1>4, <2>1
  <2>3. Len(ci[f]) - 1 \in 0..Len(ci[f]) BY <2>1, <2>2
  <2>4. ci'[f] = SubSeq(ci[f], 1, Len(ci[f]) - 1) BY <1>4 DEF Front
  <2>5. Len(ci'[f]) = Len(ci[f]) - 1 /\ \A i \in 1..Len(ci[f]) - 1 : ci'[f][i] = ci[f][i]
    BY <2>1, <2>3, <2>4, PrefixIs
  <2> QED BY <2>1, <2>5
<1>6. ci' \in CiLists BY <1>4 DEF FramesInv, TypeOK
<1>7. PcallsOnPlain(ci')
  <2>1. \A x \in Coroutines : \/ ci'[x] = ci[x]
                              \/ /\ Len(ci'[x]) <= Len(ci[x])
                                 /\ \A i \in 1..Len(ci'[x]) : ci'[x][i] = ci[x][i]
    <3>1. ASSUME NEW x \in Coroutines
          PROVE  \/ ci'[x] = ci[x]
                 \/ /\ Len(ci'[x]) <= Len(ci[x])
                    /\ \A i \in 1..Len(ci'[x]) : ci'[x][i] = ci[x][i]
      <4>1. CASE x = c BY <1>2, <1>4, <4>1
      <4>2. CASE x = f BY <1>5, <4>2
      <4>3. CASE x # c /\ x # f
        <5>1. x \in LuaThreads BY DEF LuaThreads
        <5> QED BY <1>4, <4>3, <5>1
      <4> QED BY <4>1, <4>2, <4>3
    <3> QED BY <3>1
  <2> QED BY <1>3, <1>6, <2>1, PcallsShortened DEF Finishable
<1>8. SuspendedPlain(ci', status')
  <2>1. ASSUME NEW x \in Coroutines, status'[x] = "suspended"
        PROVE  \/ status[x] = "suspended" /\ ci'[x] = ci[x]
               \/ \A p \in DOMAIN ci'[x] : ci'[x][p] \in Plain
    <3>1. x \in LuaThreads /\ status' = [status EXCEPT ![c] = new]
      BY <1>2 DEF LuaThreads, EndResume
    <3>2. CASE x = c
      <4>1. new = "suspended" BY <1>3, <2>1, <3>1, <3>2
      <4> QED BY <1>4, <3>2, <4>1
    <3>3. CASE x # c
      <4>1. status[x] = "suspended" BY <1>3, <2>1, <3>1, <3>3
      <4>2. j - 1 \in DOMAIN cstack BY <1>2, <1>3, <1>4, EntriesAre
      <4>3. status[x] # "running" BY <4>1
      <4>4. x # f BY <1>2, <4>2, <4>3, NotOnStack
      <4> QED BY <1>4, <3>1, <3>3, <4>1, <4>4
    <3> QED BY <3>2, <3>3
  <2> QED BY <2>1, SuspendedStay DEF Finishable
<1> QED BY <1>1, <1>7, <1>8 DEF Finishable

\* A pcall of a coroutine gets an error, or unroll goes on.
LEMMA FinishContinuing ==
  ASSUME FramesInv, Finishable(cstack, ci, status), NEW j, NEW c, NEW h, Continuing(j, c, h),
         \A i \in 1..h : ci[c][i] \in Plain
  PROVE  Finishable(cstack', ci', status')
<1>1. Held(cstack', ci') BY HeldContinuing DEF Finishable
<1>2. /\ status' = status /\ j \in DOMAIN cstack /\ c = cstack[j].thread
      /\ h \in 1..Len(ci[c])
  BY DEF Continuing
<1>3. ci \in CiLists BY DEF FramesInv, TypeOK
<1>4. /\ c \in Coroutines /\ c \in LuaThreads /\ ci' \in CiLists
      /\ Len(ci'[c]) = h /\ \A i \in 1..h : ci'[c][i] = ci[c][i]
      /\ \A x \in LuaThreads \ {c} : ci'[x] = ci[x]
  BY ContinueFrames DEF LuaThreads
<1>5. h <= Len(ci[c])
  <2>1. Len(ci[c]) \in Nat BY <1>3, <1>4 DEF CiLists
  <2> QED BY <1>2, <2>1
<1>7. PcallsOnPlain(ci')
  <2>1. \A x \in Coroutines : \/ ci'[x] = ci[x]
                              \/ /\ Len(ci'[x]) <= Len(ci[x])
                                 /\ \A i \in 1..Len(ci'[x]) : ci'[x][i] = ci[x][i]
    BY <1>4, <1>5 DEF LuaThreads
  <2> QED BY <1>3, <1>4, <2>1, PcallsShortened DEF Finishable
<1>8. SuspendedPlain(ci', status')
  <2>1. ASSUME NEW x \in Coroutines, status'[x] = "suspended"
        PROVE  status[x] = "suspended" /\ ci'[x] = ci[x]
    <3>1. x \in LuaThreads BY DEF LuaThreads
    <3>2. status[x] # "running" BY <1>2, <2>1
    <3>3. x # c BY <1>2, <3>2, NotOnStack
    <3> QED BY <1>2, <1>4, <2>1, <3>1, <3>3
  <2> QED BY <2>1, SuspendedStay DEF Finishable
<1> QED BY <1>1, <1>7, <1>8 DEF Finishable

\* Of a coroutine that unroll runs, unroll can finish everything.
LEMMA UnrolledPlain ==
  ASSUME FramesInv, Held(cstack, ci), NEW c \in Coroutines, InLua(c),
         Innermost.kind = "res"
  PROVE  \A p \in DOMAIN ci[c] : ci[c][p] \in Plain
<1>1. cstack \in Seq(Entry) /\ Blocks(cstack, status) BY DEF FramesInv, Frames, TypeOK
<1>2. /\ cstack # <<>> /\ Innermost.thread = c BY DEF InLua
<1>3. /\ Len(cstack) \in Nat /\ DOMAIN cstack = 1..Len(cstack)
      /\ Innermost = cstack[Len(cstack)] /\ Len(cstack) \in DOMAIN cstack
  BY <1>1, <1>2, EntriesAre DEF Innermost
<1>4. \A i \in 1..Len(cstack) - 1 : cstack[i].thread # c
  BY <1>1, <1>2, <1>3, ResIsFirst
<1>5. ASSUME NEW p \in DOMAIN ci[c], ci[c][p] \notin Plain PROVE FALSE
  <2>1. PICK k \in DOMAIN cstack : Holds(cstack, ci, c, p, k)
    BY <1>2, <1>3, <1>5 DEF Held
  <2>2. cstack[k].thread = c BY <2>1 DEF Holds
  <2>3. k = Len(cstack) BY <1>3, <1>4, <2>2
  <2>4. ~Resuming(cstack, k) BY <1>2, <2>2, InnermostRuns
  <2> QED BY <1>3, <2>1, <2>3, <2>4 DEF Holds
<1> QED BY <1>5

\* Every step leaves suspended coroutines that unroll can finish.
LEMMA FinishStep == FramesInv /\ NnyInv /\ FinishInv /\ [Next]_vars => FinishInv'
<1> SUFFICES ASSUME FramesInv, NnyInv, FinishInv, [Next]_vars, "nostray" \in rules
             PROVE  Finishable(cstack', ci', status')
  <2>1. [Next]_vars => rules' = rules BY DEF Next, vars, moving
  <2> QED BY <2>1 DEF FinishInv, Finishable, Held, PcallsOnPlain, SuspendedPlain, Holds,
                      Resuming
<1>0. /\ Finishable(cstack, ci, status) /\ Held(cstack, ci)
      /\ NnyFits(cstack, nny, status)
      /\ ci \in CiLists
  BY DEF FinishInv, NnyInv, Finishable, FramesInv, TypeOK
<1>1. CASE UNCHANGED vars
  BY <1>0, <1>1 DEF vars, moving
<1>2. CASE Step /\ UNCHANGED rules
  <2>1. CASE Raises
    <3>1. PICK t \in LuaThreads : \E s : Raising(t, s) /\ Throw(t, s)
      BY <2>1 DEF Raises
    <3>2. PICK s : Raising(t, s) /\ Throw(t, s) BY <3>1
    <3> DEFINE j == JumpTarget(t)
    <3>3. \/ Cutting(j - 1, t)
          \/ Ending(j, t, cstack[j - 1].thread, s, "dead")
          \/ \E k \in DOMAIN s : s[k] = "pcallk" /\ Continuing(j, t, k - 1)
      BY <1>2, <3>2, ThrowIs
    <3>4. t = Main \/ t = Innermost.thread BY <3>2 DEF Raising
    <3> HIDE DEF j
    <3>5. ASSUME NEW k \in DOMAIN s, s[k] = "pcallk", Continuing(j, t, k - 1)
          PROVE  Finishable(cstack', ci', status')
      <4>1. t \in Coroutines /\ t # Main
        <5>1. t \in Coroutines BY <3>5, ContinueFrames
        <5> QED BY <5>1, ThreadsAssumption
      <4>2. k - 1 \in 1..Len(ci[t]) BY <3>5 DEF Continuing
      <4>3. ci[t] \in Seq(CallInfos) /\ Len(ci[t]) \in Nat /\ DOMAIN ci[t] = 1..Len(ci[t])
        BY <1>0 DEF CiLists
      <4>4. \A i \in 1..k - 1 : i \in DOMAIN ci[t] BY <4>2, <4>3
      <4>5. CASE s = ci[t]
        BY <1>0, <3>5, <4>1, <4>5, FinishContinuing DEF Finishable, PcallsOnPlain
      <4>6. CASE /\ t = Innermost.thread /\ cstack # <<>>
                 /\ Innermost.kind # "java" /\ nny[t] = 0
        <5>1. \A p \in DOMAIN ci[t] : ci[t][p] \in Plain
          BY <1>0, <4>1, <4>6, YieldablePlain
        <5>2. \A i \in 1..k - 1 : ci[t][i] \in Plain BY <4>4, <5>1
        <5> QED BY <1>0, <3>5, <5>2, FinishContinuing
      <4> QED BY <3>2, <4>1, <4>5, <4>6 DEF Raising
    <3>6. ASSUME Ending(j, t, cstack[j - 1].thread, s, "dead")
          PROVE  Finishable(cstack', ci', status')
      <4>1. "dead" = "suspended" => \A p \in DOMAIN s : s[p] \in Plain OBVIOUS
      <4> QED BY <1>0, <3>6, <4>1, FinishEnding
    <3> QED BY <1>0, <3>3, <3>4, <3>5, <3>6, FinishCutting
  <2>2. CASE JavaPcall
    <3>1. Main \in LuaThreads BY DEF LuaThreads
    <3> QED BY <1>0, <1>2, <2>2, <3>1, FinishPcalled DEF JavaPcall
  <2>3. CASE JavaReturn
    BY <1>0, <1>2, <2>3, JavaReturnIs, FinishCutting DEF Popping
  <2>4. ASSUME NEW t \in LuaThreads, JavaCall(t) PROVE Finishable(cstack', ci', status')
    BY <1>0, <1>2, <2>4, FinishJavaCalled
  <2>5. ASSUME NEW t \in LuaThreads, Pcall(t) PROVE Finishable(cstack', ci', status')
    <3>1. InLua(t) BY <2>5 DEF Pcall
    <3>2. CASE nny[t] = 0 /\ DoCall(t, Append(ci[t], "pcallk"), <<>>, 0)
      <4>1. "pcallk" \in CFunctions /\ 0 \in {0, 1} BY DEF CFunctions
      <4>2. t \in Coroutines => \A p \in DOMAIN ci[t] : ci[t][p] \in Plain
        <5>1. cstack # <<>> /\ Innermost.thread = t /\ Innermost.kind # "java"
          BY <3>1 DEF InLua
        <5> QED BY <1>0, <3>2, <5>1, YieldablePlain
      <4> QED BY <1>0, <1>2, <3>1, <3>2, <4>1, <4>2, FinishCalled
    <3>3. CASE DoCall(t, Append(ci[t], "pcallc"),
                      <<Raw(t, nCcalls[t], nny[t], Len(ci[t]))>>, 1)
      BY <1>0, <1>2, <3>1, <3>3, FinishPcalled
    <3> QED BY <2>5, <3>2, <3>3 DEF Pcall
  <2>6. ASSUME NEW t \in LuaThreads, CallBack(t) PROVE Finishable(cstack', ci', status')
    <3>1. InLua(t) /\ DoCall(t, Append(ci[t], "ccall"), <<>>, 1) BY <2>6 DEF CallBack
    <3>2. "ccall" \in CFunctions /\ 1 \in {0, 1} BY DEF CFunctions
    <3> QED BY <1>0, <1>2, <3>1, <3>2, FinishCalled
  <2>7. ASSUME NEW t \in LuaThreads, Metamethod(t) PROVE Finishable(cstack', ci', status')
    <3>1. InLua(t) /\ DoCall(t, ci[t], <<>>, 0) BY <2>7 DEF Metamethod
    <3> QED BY <1>0, <1>2, <3>1, FinishCalled
  <2>8. ASSUME NEW t \in LuaThreads, Return(t) PROVE Finishable(cstack', ci', status')
    <3> DEFINE raw == Len(cstack) > 1 /\ cstack[Len(cstack) - 1].kind = "raw"
               m == Len(cstack) - (IF raw THEN 2 ELSE 1)
    <3>1. Cutting(m, t) BY <1>2, <2>8, ReturnIs DEF Popping
    <3>2. t = Innermost.thread BY <2>8 DEF Return, InLua
    <3> HIDE DEF m
    <3> QED BY <1>0, <3>1, <3>2, FinishCutting
  <2>9. ASSUME NEW t \in LuaThreads, NEW c \in Coroutines, Resume(t, c)
        PROVE  Finishable(cstack', ci', status')
    BY <1>0, <1>2, <2>9, FinishResumed
  <2>10. ASSUME NEW t \in LuaThreads, NEW c \in Coroutines, ResumeError(t, c)
         PROVE  Finishable(cstack', ci', status')
    <3>1. UNCHANGED <<cstack, ci, status>> BY <1>2, <2>10, ResumeErrorFrames
    <3> QED BY <1>0, <3>1
  <2>11. ASSUME NEW c \in Coroutines, Unroll(c) PROVE Finishable(cstack', ci', status')
    <3> DEFINE n == Len(cstack)
    <3>1. \/ Ending(n, c, cstack[n - 1].thread, <<>>, "dead")
          \/ \E h \in Nat : Continuing(n, c, h)
      BY <1>2, <2>11, UnrollIs
    <3> HIDE DEF n
    <3>2. ASSUME Ending(n, c, cstack[n - 1].thread, <<>>, "dead")
          PROVE  Finishable(cstack', ci', status')
      <4>1. "dead" = "suspended" => \A p \in DOMAIN <<>> : <<>>[p] \in Plain OBVIOUS
      <4> QED BY <1>0, <3>2, <4>1, FinishEnding
    <3>3. ASSUME NEW h \in Nat, Continuing(n, c, h)
          PROVE  Finishable(cstack', ci', status')
      <4>1. \A p \in DOMAIN ci[c] : ci[c][p] \in Plain
        BY <1>0, <2>11, UnrolledPlain DEF Unroll
      <4>2. h \in 1..Len(ci[c]) BY <3>3 DEF Continuing
      <4>3. ci[c] \in Seq(CallInfos) BY <1>0 DEF CiLists, LuaThreads
      <4>4. \A i \in 1..h : ci[c][i] \in Plain BY <4>1, <4>2, <4>3
      <4> QED BY <1>0, <3>3, <4>4, FinishContinuing
    <3> QED BY <3>1, <3>2, <3>3
  <2>12. ASSUME NEW c \in Coroutines, Yield(c) PROVE Finishable(cstack', ci', status')
    <3> DEFINE j == JumpTarget(c)
    <3>1. Ending(j, c, cstack[j - 1].thread, ci[c], "suspended") /\ nny[c] = 0
      BY <1>2, <2>12, YieldIs
    <3> HIDE DEF j
    <3>2. cstack # <<>> /\ Innermost.thread = c /\ Innermost.kind # "java"
      BY <2>12 DEF Yield, InLua
    <3>3. "suspended" = "suspended" => \A p \in DOMAIN ci[c] : ci[c][p] \in Plain
      BY <1>0, <3>1, <3>2, YieldablePlain
    <3> QED BY <1>0, <3>1, <3>3, FinishEnding
  <2> QED BY <1>2, <2>1, <2>2, <2>3, <2>4, <2>5, <2>6, <2>7, <2>8, <2>9, <2>10, <2>11,
             <2>12, NextIs
<1> QED BY <1>1, <1>2 DEF Next

\* At first no coroutine has begun.
LEMMA FinishInit == Init => FinishInv
<1> SUFFICES ASSUME Init PROVE Finishable(cstack, ci, status) BY DEF FinishInv
<1>1. /\ DOMAIN cstack = {}
      /\ \A t \in LuaThreads : DOMAIN ci[t] = {}
      /\ \A c \in Coroutines : c \in LuaThreads
  BY DEF Init, LuaThreads
<1> QED BY <1>1 DEF Finishable, Held, PcallsOnPlain, SuspendedPlain

-----------------------------------------------------------------------------
(* The invariants *)

CoroutineInv == FramesInv /\ NnyInv /\ ResumesInv /\ FinishInv

\* The inductive invariant.
LEMMA CoroutineInvHolds == Spec => []CoroutineInv
<1>1. Init => CoroutineInv BY FramesInit, NnyInit, ResumesInit, FinishInit DEF CoroutineInv
<1>2. CoroutineInv /\ [Next]_vars => CoroutineInv'
  <2> SUFFICES ASSUME CoroutineInv, [Next]_vars PROVE CoroutineInv' OBVIOUS
  <2>1. FramesInv' BY FramesStep DEF CoroutineInv
  <2>2. NnyInv' BY NnyStep DEF CoroutineInv
  <2>3. ResumesInv' BY ResumesStep DEF CoroutineInv
  <2>4. FinishInv' BY FinishStep DEF CoroutineInv
  <2> QED BY <2>1, <2>2, <2>3, <2>4 DEF CoroutineInv
<1> QED BY <1>1, <1>2, PTL DEF Spec

\* nny counts the calls that do not allow a yield, in every thread: at a yield
\* it is 0 exactly when nothing of the coroutine on the C stack would be lost.
THEOREM NonYieldableCounted == Spec => []NnyCounts
<1>1. CoroutineInv => NnyCounts
  <2> SUFFICES ASSUME CoroutineInv, {"nostray", "protected"} \subseteq rules,
                      NEW t \in LuaThreads
               PROVE  nny[t] = (IF t = Main \/ ~OnStack(t) THEN 1 ELSE 0)
                         + Cardinality({i \in DOMAIN cstack :
                               /\ cstack[i].kind = "call"
                               /\ cstack[i].thread = t
                               /\ cstack[i].ny = 1})
    BY DEF NnyCounts
  <2>1. /\ NnyFits(cstack, nny, status) /\ ResumesFit(cstack, ci, status)
        /\ cstack \in Seq(Entry)
    BY DEF CoroutineInv, NnyInv, ResumesInv, FramesInv, TypeOK
  <2>2. Len(cstack) \in Nat /\ DOMAIN cstack = 1..Len(cstack) BY <2>1, EntriesAre
  <2>3. NyCalls(cstack, t) \subseteq 1..Len(cstack) BY <2>2 DEF NyCalls
  <2>4. /\ UpTo(NyCalls(cstack, t), Len(cstack)) = Cardinality(NyCalls(cstack, t))
        /\ NyCalls(cstack, t) \subseteq Positive
    BY <2>2, <2>3, CountAll
  <2>5. CASE t = Main \/ OnStack(t)
    <3>1. nny[t] = Base(t) + Cardinality(NyCalls(cstack, t))
      BY <2>1, <2>4, <2>5 DEF NnyFits, OnStack
    <3>2. Base(t) = IF t = Main \/ ~OnStack(t) THEN 1 ELSE 0 BY <2>5 DEF Base
    <3> QED BY <3>1, <3>2 DEF NyCalls
  <2>6. CASE t # Main /\ ~OnStack(t)
    <3>1. t \in Coroutines /\ status[t] # "running"
      BY <2>1, <2>6 DEF LuaThreads, OnStack, ResumesFit
    <3>2. nny[t] = 1 BY <2>1, <3>1 DEF NnyFits
    <3>3. NyCalls(cstack, t) = {} BY <2>6 DEF NyCalls, OnStack
    <3>4. Cardinality(NyCalls(cstack, t)) = 0 BY <3>3, FS_EmptySet
    <3>5. nny[t] = 1 + Cardinality(NyCalls(cstack, t)) BY <3>2, <3>4
    <3> QED BY <2>6, <3>5 DEF NyCalls
  <2> QED BY <2>5, <2>6
<1> QED BY <1>1, CoroutineInvHolds, PTL

\* A coroutine yields only where unroll can take it up again: what it has
\* called are Lua functions and pcalls with a continuation.
THEOREM YieldsCanBeFinished == Spec => []YieldsFinishable
<1>1. CoroutineInv => YieldsFinishable
  <2> SUFFICES ASSUME CoroutineInv, NEW c \in Coroutines, "nostray" \in rules,
                      status[c] = "suspended"
               PROVE  Range(ci[c]) \subseteq {"lua", "pcallk"}
    BY DEF YieldsFinishable
  <2>1. \A p \in DOMAIN ci[c] : ci[c][p] \in Plain
    BY DEF CoroutineInv, FinishInv, Finishable, SuspendedPlain
  <2> QED BY <2>1 DEF Range, Plain
<1> QED BY <1>1, CoroutineInvHolds, PTL

\* Coroutines that run are on the C stack and no others are, and each call of
\* coroutine.resume waits for one of them.
THEOREM CoroutinesRunOnStack == Spec => []RunningOnStack
<1>1. CoroutineInv => RunningOnStack
  <2> SUFFICES ASSUME CoroutineInv, "protected" \in rules PROVE RunningOnStack
    BY DEF RunningOnStack
  <2>1. /\ ResumesFit(cstack, ci, status) /\ cstack \in Seq(Entry) /\ ci \in CiLists
        /\ Stacked(cstack) /\ Blocks(cstack, status)
    BY DEF CoroutineInv, ResumesInv, FramesInv, Frames, TypeOK
  <2>2. Len(cstack) \in Nat /\ DOMAIN cstack = 1..Len(cstack) BY <2>1, EntriesAre
  <2>3. ASSUME NEW c \in Coroutines
        PROVE  status[c] = "running" <=>
                  \E i \in DOMAIN cstack : cstack[i] = Res(c, cstack[i].cc)
    <3>1. ASSUME status[c] = "running"
          PROVE  \E i \in DOMAIN cstack : cstack[i] = Res(c, cstack[i].cc)
      <4>1. PICK i \in DOMAIN cstack : cstack[i].kind = "res" /\ cstack[i].thread = c
        BY <2>1, <3>1 DEF ResumesFit
      <4>2. cstack[i] = Res(cstack[i].thread, cstack[i].cc) BY <2>1, <4>1 DEF Stacked
      <4> QED BY <4>1, <4>2
    <3>2. ASSUME NEW i \in DOMAIN cstack, cstack[i] = Res(c, cstack[i].cc)
          PROVE  status[c] = "running"
      <4>1. cstack[i].kind = "res" /\ cstack[i].thread = c BY <3>2 DEF Res
      <4> QED BY <2>1, <4>1 DEF Blocks
    <3> QED BY <3>1, <3>2
  <2>4. ASSUME NEW t \in LuaThreads
        PROVE  Cardinality({i \in DOMAIN ci[t] : ci[t][i] = "resume"})
                  = Cardinality({i \in DOMAIN cstack : i > 1 /\ cstack[i].kind = "res"
                                                     /\ cstack[i - 1].thread = t})
    <3>1. Len(ci[t]) \in Nat /\ DOMAIN ci[t] = 1..Len(ci[t]) BY <2>1 DEF CiLists
    <3>2. Resumes(ci[t]) \subseteq 1..Len(ci[t]) BY <3>1 DEF Resumes
    <3>3. UpTo(Resumes(ci[t]), Len(ci[t])) = Cardinality(Resumes(ci[t]))
      BY <3>1, <3>2, CountAll
    <3>4. ResOver(cstack, t) \subseteq 1..Len(cstack) BY <2>2 DEF ResOver
    <3>5. UpTo(ResOver(cstack, t), Len(cstack)) = Cardinality(ResOver(cstack, t))
      BY <2>2, <3>4, CountAll
    <3>6. ResOver(cstack, t) = {i \in DOMAIN cstack : i > 1 /\ cstack[i].kind = "res"
                                                    /\ cstack[i - 1].thread = t}
      BY <2>2 DEF ResOver
    <3>7. UpTo(Resumes(ci[t]), Len(ci[t])) = UpTo(ResOver(cstack, t), Len(cstack))
      BY <2>1 DEF ResumesFit
    <3> QED BY <3>3, <3>5, <3>6, <3>7 DEF Resumes
  <2> QED BY <2>3, <2>4 DEF RunningOnStack
<1> QED BY <1>1, CoroutineInvHolds, PTL
=============================================================================
