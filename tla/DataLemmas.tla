----------------------------- MODULE DataLemmas -----------------------------
(***************************************************************************)
(* Lemmas about naturals and lists that the proofs of several modules      *)
(* cite.                                                                   *)
(***************************************************************************)
EXTENDS Lists, Functions, SequenceTheorems, FiniteSetTheorems, TLAPS

-----------------------------------------------------------------------------
(* Naturals *)

\* Every set of naturals that has an element has a least one.  Derived from
\* the well-foundedness of strict inclusion: the least element of T is the one
\* whose interval 1..k is minimal.
LEMMA LeastNatural ==
  ASSUME NEW T, T \subseteq Nat, T # {}
  PROVE  \E x \in T : \A y \in T : x <= y
<1> DEFINE R == StrictSubsetOrdering(Nat)
           U == {1..k : k \in T}
<1>1. IsWellFoundedOn(R, FiniteSubsetsOf(Nat))
  BY FS_StrictSubsetOrderingWellFounded
<1>2. U \subseteq FiniteSubsetsOf(Nat) /\ U # {}
  <2>1. ASSUME NEW k \in T PROVE 1..k \in FiniteSubsetsOf(Nat)
    BY FS_Interval DEF FiniteSubsetsOf
  <2> QED BY <2>1
<1>3. PICK u \in U : \A v \in U : ~ (<<v, u>> \in R)
  <2> HIDE DEF R, U
  <2> QED BY <1>1, <1>2, WFMin
<1>4. PICK x \in T : u = 1..x
  OBVIOUS
<1>5. ASSUME NEW y \in T, y < x PROVE FALSE
  <2>1. 1..y \subseteq 1..x /\ 1..y # 1..x
    <3>1. x \in 1..x /\ x \notin 1..y BY <1>5
    <3> QED BY <3>1, <1>5
  <2>2. <<1..y, 1..x>> \in R
    BY <2>1 DEF StrictSubsetOrdering
  <2> QED BY <1>3, <1>4, <2>2
<1> QED BY <1>5

\* Induction, for a set instead of a predicate: a set of naturals with 0 and
\* the successor of each of its elements has all of them.
LEMMA SetInduction ==
  ASSUME NEW M, M \subseteq Nat, 0 \in M, \A n \in M : n + 1 \in M
  PROVE  M = Nat
<1>1. SUFFICES ASSUME Nat \ M # {} PROVE FALSE
  OBVIOUS
<1>2. PICK x \in Nat \ M : \A y \in Nat \ M : x <= y
  BY <1>1, LeastNatural
<1>3. x # 0 /\ x - 1 \in Nat /\ x - 1 < x
  BY <1>2
<1>4. x - 1 \in M
  BY <1>2, <1>3
<1> QED BY <1>2, <1>3, <1>4

-----------------------------------------------------------------------------
(* The filter on lists *)

\* The function that Keep is defined by exists.
KeepStep(s, S, f, i) ==
    IF i = 0 THEN <<>>
    ELSE IF s[i] \in S THEN Append(f[i - 1], s[i])
    ELSE f[i - 1]

\* It exists.
LEMMA KeepFunction ==
  ASSUME NEW T, NEW s \in Seq(T), NEW S
  PROVE  \E f : /\ f = [i \in 0..Len(s) |-> KeepStep(s, S, f, i)]
                /\ Keep(s, S) = f[Len(s)]
<1> DEFINE n == Len(s)
           Is(f, k) == f = [i \in 0..k |-> KeepStep(s, S, f, i)]
           M == {k \in Nat : \E f : Is(f, k)}
<1>0. n \in Nat OBVIOUS
<1>1. 0 \in M
  <2>1. Is([i \in 0..0 |-> <<>>], 0)
    BY DEF KeepStep
  <2> QED BY <2>1
<1>2. ASSUME NEW k \in M PROVE k + 1 \in M
  <2>1. PICK f : Is(f, k) OBVIOUS
  <2> DEFINE g == [i \in 0..k+1 |-> IF i = k + 1 THEN KeepStep(s, S, f, i) ELSE f[i]]
  <2>2. k \in Nat OBVIOUS
  <2>3. DOMAIN g = 0..k+1 /\ \A i \in 0..k : g[i] = f[i]
    BY <2>2
  <2>4. ASSUME NEW i \in 0..k+1 PROVE g[i] = KeepStep(s, S, g, i)
    <3>1. KeepStep(s, S, g, i) = KeepStep(s, S, f, i)
      <4>1. i = 0 \/ i - 1 \in 0..k BY <2>2
      <4> QED BY <4>1, <2>3 DEF KeepStep
    <3>2. CASE i = k + 1 BY <3>1, <3>2
    <3>3. CASE i # k + 1
      <4>1. i \in 0..k BY <2>2, <3>3
      <4> QED BY <2>1, <2>3, <3>1, <4>1
    <3> QED BY <3>2, <3>3
  <2>5. Is(g, k + 1)
    <3> HIDE DEF g
    <3> QED
      <4>1. g = [i \in 0..k+1 |-> g[i]] BY DEF g
      <4> QED BY <2>4, <4>1
  <2> HIDE DEF Is
  <2> QED BY <2>2, <2>5
<1>3. M = Nat
  <2> HIDE DEF M
  <2>1. M \subseteq Nat BY DEF M
  <2> QED BY <1>1, <1>2, <2>1, SetInduction
<1>4. \E f : Is(f, n)
  BY <1>0, <1>3
<1> DEFINE F == CHOOSE f : Is(f, n)
<1>5. Is(F, n) BY <1>4
<1>6. Keep(s, S) = F[n]
  BY DEF Keep, KeepStep
<1> QED BY <1>5, <1>6

\* The positions p of some elements of a list, in the order of the list.
Increasing(p) == \A a, b \in DOMAIN p : a < b => p[a] < p[b]

\* Keep lists the members of S, each at the place its position has.
LEMMA KeepIs ==
  ASSUME NEW T, NEW s \in Seq(T), NEW S
  PROVE  /\ Keep(s, S) \in Seq(T)
         /\ \E p \in [1..Len(Keep(s, S)) -> 1..Len(s)] :
               /\ Increasing(p)
               /\ \A i \in 1..Len(s) : s[i] \in S => \E a \in DOMAIN p : p[a] = i
               /\ \A a \in DOMAIN p : Keep(s, S)[a] = s[p[a]] /\ s[p[a]] \in S
<1> DEFINE n == Len(s)
           Listed(r, k) == \E p \in [1..Len(r) -> 1..k] :
               /\ Increasing(p)
               /\ \A i \in 1..k : s[i] \in S => \E a \in DOMAIN p : p[a] = i
               /\ \A a \in DOMAIN p : r[a] = s[p[a]] /\ s[p[a]] \in S
<1>0. n \in Nat OBVIOUS
<1>1. PICK f : f = [i \in 0..n |-> KeepStep(s, S, f, i)] /\ Keep(s, S) = f[n]
  BY KeepFunction
<1> DEFINE M == {k \in Nat : k <= n => f[k] \in Seq(T) /\ Listed(f[k], k)}
<1>2. \A i \in 0..n : f[i] = KeepStep(s, S, f, i)
  BY <1>1
<1>3. 0 \in M
  <2>1. f[0] = <<>> BY <1>0, <1>2 DEF KeepStep
  <2>2. Listed(<<>>, 0)
    <3> DEFINE p == [a \in 1..0 |-> 0]
    <3>1. 1..0 = {} /\ Len(<<>>) = 0 OBVIOUS
    <3>2. p \in [1..Len(<<>>) -> 1..0] /\ DOMAIN p = {} BY <3>1
    <3>3. Increasing(p) BY <3>2 DEF Increasing
    <3> HIDE DEF p
    <3> QED BY <3>1, <3>2, <3>3
  <2>3. <<>> \in Seq(T) OBVIOUS
  <2> HIDE DEF Listed
  <2> QED BY <2>1, <2>2, <2>3
<1>4. ASSUME NEW k \in M PROVE k + 1 \in M
  <2>0. k \in Nat OBVIOUS
  <2>1. SUFFICES ASSUME k + 1 <= n
                 PROVE  f[k+1] \in Seq(T) /\ Listed(f[k+1], k+1)
    <3> HIDE DEF Listed
    <3>1. k + 1 \in Nat BY <2>0
    <3> QED BY <3>1
  <2>2. f[k] \in Seq(T) /\ Listed(f[k], k)
    <3> HIDE DEF Listed
    <3>1. k <= n BY <1>0, <2>0, <2>1
    <3>2. k <= n => f[k] \in Seq(T) /\ Listed(f[k], k) OBVIOUS
    <3> QED BY <3>1, <3>2
  <2>3. PICK p \in [1..Len(f[k]) -> 1..k] :
               /\ Increasing(p)
               /\ \A i \in 1..k : s[i] \in S => \E a \in DOMAIN p : p[a] = i
               /\ \A a \in DOMAIN p : f[k][a] = s[p[a]] /\ s[p[a]] \in S
    BY <2>2
  <2>4. k + 1 \in 0..n /\ k + 1 \in 1..n /\ k + 1 # 0 /\ (k + 1) - 1 = k
    BY <1>0, <2>0, <2>1
  <2>5. f[k+1] = IF s[k+1] \in S THEN Append(f[k], s[k+1]) ELSE f[k]
    BY <1>2, <2>4 DEF KeepStep
  <2>6. s[k+1] \in T BY <2>4
  <2>7. CASE s[k+1] \notin S
    <3>1. p \in [1..Len(f[k]) -> 1..k+1] BY <2>0, <2>3
    <3>2. \A i \in 1..k+1 : s[i] \in S => i \in 1..k BY <2>0, <2>7
    <3> QED BY <2>2, <2>3, <2>5, <2>7, <3>1, <3>2
  <2>8. CASE s[k+1] \in S
    <3> DEFINE r == Append(f[k], s[k+1])
               m == Len(f[k])
               q == [a \in 1..m+1 |-> IF a = m + 1 THEN k + 1 ELSE p[a]]
    <3>1. m \in Nat /\ Len(r) = m + 1 /\ r \in Seq(T)
          /\ r[m+1] = s[k+1] /\ \A a \in 1..m : r[a] = f[k][a]
      BY <2>2, <2>6
    <3>2. f[k+1] = r BY <2>5, <2>8
    <3> HIDE DEF r, m
    <3>3. DOMAIN p = 1..m /\ \A a \in 1..m : p[a] \in 1..k
      BY <2>3 DEF m
    <3>4. q \in [1..m+1 -> 1..k+1]
      BY <2>0, <3>1, <3>3
    <3>5. DOMAIN q = 1..m+1 /\ q[m+1] = k + 1
          /\ \A a \in 1..m : q[a] = p[a]
      BY <3>1
    <3>6. \A a \in 1..m+1 : a = m + 1 \/ a \in 1..m BY <3>1
    <3> HIDE DEF q
    <3>7. Increasing(q)
      <4>1. ASSUME NEW a \in 1..m+1, NEW b \in 1..m+1, a < b PROVE q[a] < q[b]
        <5>1. a \in 1..m BY <3>1, <4>1
        <5>2. CASE b = m + 1
          <6>1. p[a] < k + 1 BY <2>0, <3>3, <5>1
          <6> QED BY <3>5, <5>1, <5>2, <6>1
        <5>3. CASE b \in 1..m BY <2>3, <3>3, <3>5, <4>1, <5>1, <5>3 DEF Increasing
        <5> QED BY <3>6, <5>2, <5>3
      <4> QED BY <3>5, <4>1 DEF Increasing
    <3>8. \A i \in 1..k+1 : s[i] \in S => \E a \in DOMAIN q : q[a] = i
      <4>1. ASSUME NEW i \in 1..k+1, s[i] \in S PROVE \E a \in 1..m+1 : q[a] = i
        <5>1. CASE i = k + 1
          <6>1. m + 1 \in 1..m+1 BY <3>1
          <6> QED BY <3>5, <5>1, <6>1
        <5>2. CASE i # k + 1
          <6>1. i \in 1..k BY <2>0, <5>2
          <6>2. PICK a \in 1..m : p[a] = i BY <2>3, <3>3, <4>1, <6>1
          <6>3. a \in 1..m+1 BY <3>1
          <6> QED BY <3>5, <6>2, <6>3
        <5> QED BY <5>1, <5>2
      <4> QED BY <3>5, <4>1
    <3>9. \A a \in DOMAIN q : r[a] = s[q[a]] /\ s[q[a]] \in S
      BY <2>3, <2>8, <3>1, <3>3, <3>5, <3>6
    <3>10. Listed(r, k + 1)
      BY <3>1, <3>4, <3>7, <3>8, <3>9
    <3> QED BY <3>1, <3>2, <3>10
  <2> QED BY <2>7, <2>8
<1>5. M = Nat
  <2> HIDE DEF M
  <2>1. M \subseteq Nat BY DEF M
  <2> QED BY <1>3, <1>4, <2>1, SetInduction
<1> HIDE DEF Listed
<1>6. f[n] \in Seq(T) /\ Listed(f[n], n)
  BY <1>0, <1>5
<1>7. Keep(s, S) = f[n] BY <1>1
<1>8. Keep(s, S) \in Seq(T) /\ Listed(Keep(s, S), n) BY <1>6, <1>7
<1> QED BY <1>8, Zenon DEF Listed

\* Keep has the members of S, none twice that was not there twice, and no two
\* in another order.
LEMMA KeepMembers ==
  ASSUME NEW T, NEW s \in Seq(T), NEW S
  PROVE  /\ Keep(s, S) \in Seq(T)
         /\ Range(Keep(s, S)) = Range(s) \cap S
         /\ IsInjective(s) => IsInjective(Keep(s, S))
         /\ \A i, j \in DOMAIN s : i < j /\ s[i] \in S /\ s[j] \in S =>
               \E a, b \in DOMAIN Keep(s, S) :
                  a < b /\ Keep(s, S)[a] = s[i] /\ Keep(s, S)[b] = s[j]
<1> DEFINE r == Keep(s, S)
<1>1. r \in Seq(T) BY KeepIs
<1>2. PICK p \in [1..Len(r) -> 1..Len(s)] :
         /\ Increasing(p)
         /\ \A i \in 1..Len(s) : s[i] \in S => \E a \in DOMAIN p : p[a] = i
         /\ \A a \in DOMAIN p : r[a] = s[p[a]] /\ s[p[a]] \in S
  BY KeepIs
<1> HIDE DEF r
<1>3. /\ DOMAIN r = 1..Len(r) /\ DOMAIN p = 1..Len(r) /\ DOMAIN s = 1..Len(s)
      /\ Len(r) \in Nat /\ Len(s) \in Nat
      /\ \A a \in DOMAIN r : p[a] \in DOMAIN s /\ p[a] \in Nat /\ a \in Nat
  BY <1>1, <1>2
<1>4. Range(r) = Range(s) \cap S
  <2>1. ASSUME NEW x \in Range(r) PROVE x \in Range(s) \cap S
    <3>1. PICK a \in DOMAIN r : x = r[a] BY DEF Range
    <3> QED BY <1>2, <1>3, <3>1 DEF Range
  <2>2. ASSUME NEW x \in Range(s) \cap S PROVE x \in Range(r)
    <3>1. PICK i \in DOMAIN s : x = s[i] BY DEF Range
    <3>2. PICK a \in DOMAIN p : p[a] = i BY <1>2, <1>3, <3>1, <2>2
    <3> QED BY <1>2, <1>3, <3>1, <3>2 DEF Range
  <2> QED BY <2>1, <2>2
<1>5. ASSUME IsInjective(s) PROVE IsInjective(r)
  <2>1. ASSUME NEW a \in DOMAIN r, NEW b \in DOMAIN r, r[a] = r[b] PROVE a = b
    <3>1. p[a] = p[b] BY <1>2, <1>3, <1>5, <2>1 DEF IsInjective
    <3>2. ~(a < b) /\ ~(b < a) BY <1>2, <1>3, <3>1 DEF Increasing
    <3> QED BY <1>3, <3>2
  <2> QED BY <2>1 DEF IsInjective
<1>6. ASSUME NEW i \in DOMAIN s, NEW j \in DOMAIN s, i < j, s[i] \in S, s[j] \in S
      PROVE  \E a, b \in DOMAIN r : a < b /\ r[a] = s[i] /\ r[b] = s[j]
  <2>1. PICK a \in DOMAIN p : p[a] = i BY <1>2, <1>3, <1>6
  <2>2. PICK b \in DOMAIN p : p[b] = j BY <1>2, <1>3, <1>6
  <2>3. ~(b < a) /\ a # b
    BY <1>2, <1>3, <1>6, <2>1, <2>2 DEF Increasing
  <2>4. a < b BY <1>3, <2>1, <2>2, <2>3
  <2> QED BY <1>2, <1>3, <2>1, <2>2, <2>4
<1> QED BY <1>1, <1>4, <1>5, <1>6 DEF r

\* Keep leaves elements in their order.
LEMMA KeepOrder ==
  ASSUME NEW T, NEW s \in Seq(T), NEW S,
         NEW i \in DOMAIN s, NEW j \in DOMAIN s, i < j, s[i] \in S, s[j] \in S
  PROVE  \E a, b \in DOMAIN Keep(s, S) :
            a < b /\ Keep(s, S)[a] = s[i] /\ Keep(s, S)[b] = s[j]
BY KeepMembers, SMTT(30)

\* The list without S has the other members, in their order.
LEMMA WithoutMembers ==
  ASSUME NEW T, NEW s \in Seq(T), NEW S
  PROVE  /\ Without(s, S) \in Seq(T)
         /\ Range(Without(s, S)) = Range(s) \ S
         /\ IsInjective(s) => IsInjective(Without(s, S))
         /\ \A i, j \in DOMAIN s : i < j /\ s[i] \notin S /\ s[j] \notin S =>
               \E a, b \in DOMAIN Without(s, S) :
                  a < b /\ Without(s, S)[a] = s[i] /\ Without(s, S)[b] = s[j]
<1> DEFINE R == {s[i] : i \in DOMAIN s} \ S
<1>1. Without(s, S) = Keep(s, R) BY DEF Without
<1>2. \A i \in DOMAIN s : s[i] \in R <=> s[i] \notin S OBVIOUS
<1>3. Range(s) \cap R = Range(s) \ S BY DEF Range
<1> HIDE DEF R
<1> QED BY <1>1, <1>2, <1>3, KeepMembers

-----------------------------------------------------------------------------
(* Lists and the sets of what they hold *)

\* What two lists hold together.
LEMMA ConcatMembers ==
  ASSUME NEW T, NEW s \in Seq(T), NEW t \in Seq(T)
  PROVE  /\ s \o t \in Seq(T)
         /\ Range(s \o t) = Range(s) \cup Range(t)
         /\ IsInjective(s \o t) <=>
               IsInjective(s) /\ IsInjective(t) /\ Range(s) \cap Range(t) = {}
<1> DEFINE c == s \o t
           m == Len(s)
           n == Len(t)
<1>1. /\ c \in Seq(T) /\ m \in Nat /\ n \in Nat
      /\ DOMAIN s = 1..m /\ DOMAIN t = 1..n /\ DOMAIN c = 1..m + n
      /\ \A i \in 1..m : c[i] = s[i]
      /\ \A i \in 1..n : c[m + i] = t[i]
  OBVIOUS
<1>a. c = s \o t OBVIOUS
<1> HIDE DEF c, m, n
<1>2. /\ \A i \in 1..m : i \in 1..m + n
      /\ \A i \in 1..n : m + i \in 1..m + n
      /\ \A i \in 1..m + n : i \in 1..m \/ (i - m \in 1..n /\ m + (i - m) = i)
  BY <1>1
<1>3. Range(c) = Range(s) \cup Range(t)
  <2>1. ASSUME NEW x \in Range(c) PROVE x \in Range(s) \cup Range(t)
    <3>1. PICK i \in DOMAIN c : x = c[i] BY DEF Range
    <3>2. CASE i \in 1..m BY <1>1, <3>1, <3>2 DEF Range
    <3>3. CASE i - m \in 1..n /\ m + (i - m) = i BY <1>1, <3>1, <3>3 DEF Range
    <3> QED BY <1>1, <1>2, <3>2, <3>3
  <2>2. ASSUME NEW x \in Range(s) PROVE x \in Range(c)
    BY <1>1, <1>2 DEF Range
  <2>3. ASSUME NEW x \in Range(t) PROVE x \in Range(c)
    <3>1. PICK i \in 1..n : x = t[i] BY <1>1 DEF Range
    <3>2. m + i \in DOMAIN c /\ c[m + i] = x BY <1>1, <1>2, <3>1
    <3> QED BY <3>2 DEF Range
  <2> QED BY <2>1, <2>2, <2>3
<1>4. ASSUME IsInjective(c)
      PROVE  IsInjective(s) /\ IsInjective(t) /\ Range(s) \cap Range(t) = {}
  <2>1. IsInjective(s) BY <1>1, <1>2, <1>4 DEF IsInjective
  <2>2. ASSUME NEW i \in 1..n, NEW j \in 1..n, t[i] = t[j] PROVE i = j
    <3>1. m + i = m + j BY <1>1, <1>2, <1>4, <2>2 DEF IsInjective
    <3> QED BY <1>1, <3>1
  <2>3. ASSUME NEW i \in 1..m, NEW j \in 1..n, s[i] = t[j] PROVE FALSE
    <3>1. i = m + j BY <1>1, <1>2, <1>4, <2>3 DEF IsInjective
    <3> QED BY <1>1, <3>1
  <2> QED BY <1>1, <2>1, <2>2, <2>3 DEF IsInjective, Range
<1>5. ASSUME IsInjective(s), IsInjective(t), Range(s) \cap Range(t) = {}
      PROVE  IsInjective(c)
  <2>1. ASSUME NEW i \in 1..m + n, NEW j \in 1..m + n, c[i] = c[j] PROVE i = j
    <3>1. CASE i \in 1..m /\ j \in 1..m BY <1>1, <1>5, <2>1, <3>1 DEF IsInjective
    <3>2. CASE /\ i - m \in 1..n /\ m + (i - m) = i
               /\ j - m \in 1..n /\ m + (j - m) = j
      <4>1. t[i - m] = t[j - m] BY <1>1, <2>1, <3>2
      <4>2. i - m = j - m BY <1>1, <1>5, <3>2, <4>1 DEF IsInjective
      <4> QED BY <3>2, <4>2
    <3>3. CASE i \in 1..m /\ j - m \in 1..n /\ m + (j - m) = j
      <4>1. s[i] = t[j - m] BY <1>1, <2>1, <3>3
      <4> QED BY <1>1, <1>5, <3>3, <4>1 DEF Range
    <3>4. CASE j \in 1..m /\ i - m \in 1..n /\ m + (i - m) = i
      <4>1. s[j] = t[i - m] BY <1>1, <2>1, <3>4
      <4> QED BY <1>1, <1>5, <3>4, <4>1 DEF Range
    <3> QED BY <1>2, <3>1, <3>2, <3>3, <3>4
  <2> QED BY <1>1, <2>1 DEF IsInjective
<1> QED BY <1>1, <1>3, <1>4, <1>5, <1>a

\* An element put before a list.
LEMMA ConsMembers ==
  ASSUME NEW T, NEW s \in Seq(T), NEW e \in T
  PROVE  /\ <<e>> \o s \in Seq(T)
         /\ Range(<<e>> \o s) = Range(s) \cup {e}
         /\ IsInjective(<<e>> \o s) <=> IsInjective(s) /\ e \notin Range(s)
         /\ Len(<<e>> \o s) = Len(s) + 1
         /\ (<<e>> \o s)[1] = e
         /\ \A i \in DOMAIN s : (<<e>> \o s)[i + 1] = s[i]
<1>1. <<e>> \in Seq(T) /\ Range(<<e>>) = {e} /\ IsInjective(<<e>>)
  BY DEF Range, IsInjective
<1>2. /\ Len(<<e>> \o s) = Len(s) + 1
      /\ (<<e>> \o s)[1] = e
      /\ \A i \in DOMAIN s : (<<e>> \o s)[i + 1] = s[i]
  OBVIOUS
<1> DEFINE u == <<e>>
<1>3. u \in Seq(T) /\ Range(u) = {e} /\ IsInjective(u)
  BY <1>1
<1> HIDE DEF u
<1>4. /\ u \o s \in Seq(T)
      /\ Range(u \o s) = Range(s) \cup {e}
      /\ IsInjective(u \o s) <=> IsInjective(s) /\ e \notin Range(s)
  <2>1. /\ u \o s \in Seq(T)
        /\ Range(u \o s) = Range(u) \cup Range(s)
        /\ IsInjective(u \o s) <=>
              IsInjective(u) /\ IsInjective(s) /\ Range(u) \cap Range(s) = {}
    BY <1>3, ConcatMembers
  <2> QED BY <1>3, <2>1
<1> QED BY <1>2, <1>4 DEF u

\* The first member and the others.
LEMMA TailMembers ==
  ASSUME NEW T, NEW s \in Seq(T), s # <<>>
  PROVE  /\ Head(s) \in T /\ Tail(s) \in Seq(T)
         /\ Range(s) = Range(Tail(s)) \cup {Head(s)}
         /\ IsInjective(s) => IsInjective(Tail(s)) /\ Head(s) \notin Range(Tail(s))
<1> DEFINE t == Tail(s)
<1>1. /\ Head(s) \in T /\ t \in Seq(T) /\ s[1] = Head(s)
      /\ Len(s) \in Nat \ {0} /\ DOMAIN s = 1..Len(s)
      /\ DOMAIN t = 1..Len(s) - 1
      /\ \A i \in DOMAIN t : t[i] = s[i + 1]
  OBVIOUS
<1>a. t = Tail(s) OBVIOUS
<1> HIDE DEF t
<1>2. /\ 1 \in DOMAIN s
      /\ \A i \in DOMAIN t : i + 1 \in DOMAIN s /\ i + 1 # 1
      /\ \A i \in DOMAIN s : i = 1 \/ (i - 1 \in DOMAIN t /\ (i - 1) + 1 = i)
  BY <1>1
<1>3. Range(s) = Range(t) \cup {Head(s)}
  BY <1>1, <1>2 DEF Range
<1>4. ASSUME IsInjective(s) PROVE IsInjective(t) /\ Head(s) \notin Range(t)
  <2>1. ASSUME NEW i \in DOMAIN t, NEW j \in DOMAIN t, t[i] = t[j] PROVE i = j
    <3>1. i + 1 = j + 1 BY <1>1, <1>2, <1>4, <2>1 DEF IsInjective
    <3> QED BY <1>1, <3>1
  <2>2. Head(s) \notin Range(t) BY <1>1, <1>2, <1>4 DEF IsInjective, Range
  <2> QED BY <2>1, <2>2 DEF IsInjective
<1> QED BY <1>1, <1>3, <1>4, <1>a

\* The first n elements of a list.
LEMMA PrefixIs ==
  ASSUME NEW T, NEW s \in Seq(T), NEW n \in 0..Len(s)
  PROVE  /\ SubSeq(s, 1, n) \in Seq(T)
         /\ Len(SubSeq(s, 1, n)) = n /\ DOMAIN SubSeq(s, 1, n) = 1..n
         /\ \A i \in 1..n : SubSeq(s, 1, n)[i] = s[i] /\ i \in DOMAIN s
  OBVIOUS
=============================================================================
