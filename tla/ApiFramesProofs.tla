-------------------------- MODULE ApiFramesProofs --------------------------
(***************************************************************************)
(* ApiStack implements ApiFrames, for any sizes of the stack and any       *)
(* programs that keep to the rules of the manual: every step of the slots, *)
(* CallInfos and luaD_pcalls is a step of the frames that callers see.     *)
(***************************************************************************)
EXTENDS ApiStackProofs

\* The values of a frame that runs, and of one with the CallInfo c.
Above(s, f) == SubSeq(s, f + 1, Len(s))

Waits(c) == c.status \in {"run", "calling"}

ValsOf(s, c) ==
    IF Waits(c) THEN SubSeq(s, c.func + 1, IF c.at = 0 THEN Len(s) ELSE c.at - 1)
    ELSE IF c.kind \in JavaKinds THEN RemoveAt(Above(s, c.func), c.at - c.func)
    ELSE Above(s, c.func)

Seen(s, c) ==
    [kind |-> c.kind, vals |-> ValsOf(s, c), want |-> c.nres, status |-> c.status, exc |-> c.exc]

\* The frames that callers see of a Lua thread.
FramesOf(x) == [k \in DOMAIN x.cis |-> Seen(x.stack, x.cis[k])]

Views == {Seen(s, c) : s \in Seq(Values), c \in CallInfo}

-----------------------------------------------------------------------------
(* Sequences, and names of ApiFrames *)

\* The operators on sequences and the values are those of ApiStack.
LEMMA SameNames ==
  /\ \A s : AF!Last(s) = Last(s) /\ AF!Front(s) = Front(s)
  /\ \A s, i : AF!RemoveAt(s, i) = RemoveAt(s, i)
  /\ \A s, i, e : AF!InsertAt(s, i, e) = InsertAt(s, i, e)
  /\ AF!None = None /\ AF!Nil = Nil /\ AF!True = True /\ AF!False = False
  /\ AF!Num = Num /\ AF!Str = Str /\ AF!Numeral = Numeral /\ AF!Class = Class
  /\ AF!Traced = Traced /\ AF!Env = Env /\ AF!Java = Java /\ AF!PCall = PCall
  /\ AF!Script = Script /\ AF!MULTRET = LUA_MULTRET
  /\ AF!Strings = Strings /\ AF!Convertible = Convertible /\ AF!JavaKinds = JavaKinds
<1>1. /\ \A s : AF!Last(s) = Last(s) /\ AF!Front(s) = Front(s)
      /\ \A s, i : AF!RemoveAt(s, i) = RemoveAt(s, i)
      /\ \A s, i, e : AF!InsertAt(s, i, e) = InsertAt(s, i, e)
  BY DEF AF!Last, Last, AF!Front, Front, AF!RemoveAt, RemoveAt, AF!InsertAt, InsertAt
<1>2. /\ AF!None = None /\ AF!Nil = Nil /\ AF!True = True /\ AF!False = False
      /\ AF!Num = Num /\ AF!Str = Str /\ AF!Numeral = Numeral /\ AF!Class = Class
      /\ AF!Traced = Traced /\ AF!Env = Env /\ AF!Java = Java /\ AF!PCall = PCall
      /\ AF!Script = Script /\ AF!MULTRET = LUA_MULTRET
  BY DEF AF!None, None, AF!Nil, Nil, AF!True, True, AF!False, False, AF!Num, Num, AF!Str, Str,
     AF!Numeral, Numeral, AF!Class, Class, AF!Traced, Traced, AF!Env, Env, AF!Java, Java,
     AF!PCall, PCall, AF!Script, Script, AF!MULTRET, LUA_MULTRET
<1>3. AF!Strings = Strings BY <1>2 DEF AF!Strings, Strings
<1>4. AF!Convertible = Convertible BY <1>2, <1>3 DEF AF!Convertible, Convertible
<1>5. AF!JavaKinds = JavaKinds BY DEF AF!JavaKinds, JavaKinds
<1> QED BY <1>1, <1>2, <1>3, <1>4, <1>5

\* Two lists with the same elements in a range have the same part there.
LEMMA SamePart ==
  ASSUME NEW T, NEW s \in Seq(T), NEW t \in Seq(T), NEW a \in Nat \ {0}, NEW b \in Int,
         b <= Len(s), b <= Len(t), \A i \in a .. b : s[i] = t[i]
  PROVE  SubSeq(s, a, b) = SubSeq(t, a, b)
OBVIOUS

\* What is above a slot.
LEMMA AboveIs ==
  ASSUME NEW T, NEW s \in Seq(T), NEW f \in 0 .. Len(s)
  PROVE  /\ Above(s, f) \in Seq(T) /\ Len(Above(s, f)) = Len(s) - f /\ Len(s) - f \in Nat
         /\ DOMAIN Above(s, f) = 1 .. Len(s) - f
         /\ \A i \in 1 .. Len(s) - f : Above(s, f)[i] = s[f + i]
<1>1. Len(s) \in Nat /\ Len(s) - f \in Nat /\ f \in Nat OBVIOUS
<1> QED BY <1>1 DEF Above

\* A list is what is above a slot, by its elements.
LEMMA AboveByElements ==
  ASSUME NEW T, NEW s \in Seq(T), NEW f \in 0 .. Len(s), NEW t \in Seq(T),
         Len(t) = Len(s) - f, \A i \in 1 .. Len(t) : t[i] = s[f + i]
  PROVE  Above(s, f) = t
<1>1. /\ Above(s, f) \in Seq(T) /\ Len(Above(s, f)) = Len(s) - f
      /\ \A i \in 1 .. Len(s) - f : Above(s, f)[i] = s[f + i]
  BY AboveIs
<1> QED BY <1>1, SeqEqual

\* A list without one of its elements.
LEMMA RemoveAtIs ==
  ASSUME NEW T, NEW s \in Seq(T), NEW i \in 1 .. Len(s)
  PROVE  /\ RemoveAt(s, i) \in Seq(T) /\ Len(RemoveAt(s, i)) = Len(s) - 1
         /\ \A k \in 1 .. Len(s) - 1 : RemoveAt(s, i)[k] = IF k < i THEN s[k] ELSE s[k + 1]
<1> DEFINE a == SubSeq(s, 1, i - 1)  b == SubSeq(s, i + 1, Len(s))  n == Len(s)
<1>1. n \in Nat /\ i \in 1 .. n /\ i - 1 \in 0 .. n OBVIOUS
<1>2. a \in Seq(T) /\ Len(a) = i - 1 /\ \A k \in 1 .. i - 1 : a[k] = s[k] BY <1>1, PrefixIs
<1>3. b \in Seq(T) /\ Len(b) = n - i /\ \A k \in 1 .. n - i : b[k] = s[i + k]
  <2>1. b = Above(s, i) BY DEF Above
  <2> QED BY <2>1, <1>1, AboveIs
<1> HIDE DEF a, b
<1>a. a \in Seq(T) /\ b \in Seq(T) BY <1>2, <1>3
<1>4. /\ a \o b \in Seq(T) /\ Len(a \o b) = Len(a) + Len(b)
      /\ \A k \in 1 .. Len(a) : (a \o b)[k] = a[k]
      /\ \A k \in 1 .. Len(b) : (a \o b)[Len(a) + k] = b[k]
  BY <1>a, ConcatIs
<1>5. RemoveAt(s, i) = a \o b BY DEF RemoveAt, a, b
<1> DEFINE c == a \o b
<1> HIDE DEF c, n
<1>b. /\ c \in Seq(T) /\ Len(c) = (i - 1) + (n - i)
      /\ \A k \in 1 .. i - 1 : c[k] = a[k]
      /\ \A k \in 1 .. n - i : c[(i - 1) + k] = b[k]
  BY <1>2, <1>3, <1>4 DEF c
<1>6. /\ c \in Seq(T) /\ Len(c) = n - 1
      /\ \A k \in 1 .. i - 1 : c[k] = s[k]
      /\ \A k \in 1 .. n - i : c[(i - 1) + k] = s[i + k]
  <2>1. (i - 1) + (n - i) = n - 1 BY <1>1
  <2> QED BY <2>1, <1>2, <1>3, <1>b
<1>7. ASSUME NEW k \in 1 .. n - 1 PROVE c[k] = IF k < i THEN s[k] ELSE s[k + 1]
  <2>1. CASE k < i BY <2>1, <1>1, <1>6
  <2>2. CASE ~(k < i)
    <3>1. k - i + 1 \in 1 .. n - i BY <2>2, <1>1
    <3>2. c[(i - 1) + (k - i + 1)] = s[i + (k - i + 1)] BY <3>1, <1>6
    <3>3. (i - 1) + (k - i + 1) = k /\ i + (k - i + 1) = k + 1 BY <1>1
    <3> QED BY <2>2, <3>2, <3>3
  <2> QED BY <2>1, <2>2
<1> QED BY <1>5, <1>6, <1>7 DEF c, n

-----------------------------------------------------------------------------
(* The frames of a thread *)

\* The frames that callers see are those of the thread of the state.
LEMMA FramesAre == ApiInv => Frames = FramesOf(Thread)
<1> SUFFICES ASSUME ApiInv PROVE Frames = FramesOf(Thread) OBVIOUS
<1>1. cis \in Seq(CallInfo) /\ Thread.cis = cis /\ Thread.stack = stack BY InnermostFacts
<1>2. ASSUME NEW k \in DOMAIN cis PROVE Vals(k) = ValsOf(stack, cis[k])
  <2>1. PICK c \in CallInfo : c = cis[k] BY <1>1
  <2>2. c.status \in {"run", "calling", "ok", "failed"} BY DEF CallInfo
  <2>3. CASE Waits(c)
    <3>1. c.status \notin {"ok", "failed"} BY <2>3 DEF Waits
    <3> QED BY <2>1, <2>3, <3>1 DEF Vals, ValsOf
  <2>4. CASE ~Waits(c)
    <3>1. c.status \in {"ok", "failed"} BY <2>2, <2>4 DEF Waits
    <3> QED BY <2>1, <2>4, <3>1 DEF Vals, ValsOf, Above
  <2> QED BY <2>3, <2>4
<1>3. Frames = [k \in DOMAIN cis |-> Seen(stack, cis[k])] BY <1>2 DEF Frames, Seen
<1> QED BY <1>1, <1>3 DEF FramesOf

\* They are a list, as long as that of the CallInfos.
LEMMA FramesOfIs ==
  ASSUME NEW x \in Threads
  PROVE  /\ FramesOf(x) \in Seq(Views) /\ Len(FramesOf(x)) = Len(x.cis) /\ Len(x.cis) \in Nat
         /\ DOMAIN FramesOf(x) = 1 .. Len(x.cis)
         /\ \A k \in 1 .. Len(x.cis) : FramesOf(x)[k] = Seen(x.stack, x.cis[k])
<1>1. /\ x.stack \in Seq(Values) /\ Len(x.cis) \in Nat /\ DOMAIN x.cis = 1 .. Len(x.cis)
      /\ \A k \in DOMAIN x.cis : x.cis[k] \in CallInfo
  BY ThreadTypes
<1>2. \A k \in 1 .. Len(x.cis) : Seen(x.stack, x.cis[k]) \in Views BY <1>1 DEF Views
<1>3. FramesOf(x) \in [1 .. Len(x.cis) -> Views] BY <1>1, <1>2 DEF FramesOf
<1>4. FramesOf(x) \in Seq(Views) /\ Len(FramesOf(x)) = Len(x.cis) BY <1>1, <1>3
<1> QED BY <1>1, <1>3, <1>4 DEF FramesOf

\* What a frame sees while others run above it does not depend on them.
LEMMA SeenBelow ==
  ASSUME NEW s \in Seq(Values), NEW t \in Seq(Values), NEW c \in CallInfo, Waits(c), c.at # 0,
         c.at <= Len(s) + 1, c.at <= Len(t) + 1,
         \A i \in c.func + 1 .. c.at - 1 : s[i] = t[i]
  PROVE  Seen(s, c) = Seen(t, c)
<1>1. c.func \in Nat /\ c.at \in Nat BY CallInfoTypes
<1>2. c.at - 1 <= Len(s) /\ c.at - 1 <= Len(t) BY <1>1
<1>3. SubSeq(s, c.func + 1, c.at - 1) = SubSeq(t, c.func + 1, c.at - 1)
  <2>1. PICK a \in Nat \ {0} : a = c.func + 1 BY <1>1
  <2>2. PICK b \in Int : b = c.at - 1 BY <1>1
  <2>3. SubSeq(s, a, b) = SubSeq(t, a, b) BY <2>1, <2>2, <1>2, SamePart
  <2> QED BY <2>1, <2>2, <2>3
<1> QED BY <1>3 DEF Seen, ValsOf

\* The frames below the m-th do not change with what is above the slot of its
\* function.
LEMMA LowerFrames ==
  ASSUME NEW x, Body(x), NEW y \in Threads, NEW m \in DOMAIN x.cis, m - 1 <= Len(y.cis),
         \A k \in 1 .. m - 1 : y.cis[k] = x.cis[k],
         x.cis[m].func <= Len(y.stack) + 1,
         \A i \in 1 .. x.cis[m].func - 1 : y.stack[i] = x.stack[i]
  PROVE  \A k \in 1 .. m - 1 : FramesOf(y)[k] = FramesOf(x)[k]
<1>1. /\ x \in Threads /\ Nested(x) /\ x.stack \in Seq(Values) /\ y.stack \in Seq(Values)
      /\ DOMAIN x.cis = 1 .. Len(x.cis) /\ Len(x.cis) \in Nat /\ Len(y.cis) \in Nat
      /\ Len(x.stack) \in Nat /\ Len(y.stack) \in Nat
      /\ \A k \in DOMAIN x.cis : x.cis[k] \in CallInfo
  BY ThreadTypes DEF Body, Types
<1> SUFFICES ASSUME NEW k \in 1 .. m - 1 PROVE FramesOf(y)[k] = FramesOf(x)[k] OBVIOUS
<1>2. k \in DOMAIN x.cis /\ k < m /\ k \in 1 .. Len(y.cis) /\ k \in 1 .. Len(x.cis) /\ m \in Nat
  BY <1>1
<1>3. PICK c \in CallInfo : c = x.cis[k] BY <1>1, <1>2
<1>4. PICK f \in Nat : f = x.cis[m].func BY <1>1, CallInfoTypes
<1>5. c.at # 0 /\ c.at <= f /\ Waits(c) BY <1>1, <1>2, <1>3, <1>4 DEF Nested, Waits
<1>6. f <= Len(x.stack) BY <1>1, <1>4 DEF Nested
<1>7. c.func \in Nat /\ c.at \in Nat BY CallInfoTypes
<1>8. c.at <= Len(x.stack) + 1 /\ c.at <= Len(y.stack) + 1
  <2>1. f <= Len(y.stack) + 1 BY <1>4
  <2>2. Len(x.stack) \in Nat /\ Len(y.stack) \in Nat BY <1>1
  <2> QED BY <2>1, <2>2, <1>5, <1>6, <1>7
<1>9. \A i \in c.func + 1 .. c.at - 1 : y.stack[i] = x.stack[i] BY <1>4, <1>5, <1>7
<1>10. Seen(y.stack, c) = Seen(x.stack, c) BY <1>1, <1>5, <1>8, <1>9, SeenBelow
<1>11. y.cis[k] = c BY <1>3
<1> QED BY <1>1, <1>2, <1>3, <1>10, <1>11, FramesOfIs

\* All above the m-th frame are gone.
LEMMA FramesCutTo ==
  ASSUME NEW x, Body(x), NEW y \in Threads, NEW m \in DOMAIN x.cis, Len(y.cis) = m,
         \A k \in 1 .. m - 1 : y.cis[k] = x.cis[k],
         x.cis[m].func <= Len(y.stack) + 1,
         \A i \in 1 .. x.cis[m].func - 1 : y.stack[i] = x.stack[i]
  PROVE  FramesOf(y) = Append(SubSeq(FramesOf(x), 1, m - 1), Seen(y.stack, y.cis[m]))
<1>1. x \in Threads /\ DOMAIN x.cis = 1 .. Len(x.cis) /\ Len(x.cis) \in Nat /\ m \in Nat
  BY ThreadTypes DEF Body, Types
<1>2. m - 1 <= Len(y.cis) BY <1>1
<1>3. \A k \in 1 .. m - 1 : FramesOf(y)[k] = FramesOf(x)[k] BY <1>2, LowerFrames
<1>4. /\ FramesOf(x) \in Seq(Views) /\ Len(FramesOf(x)) = Len(x.cis) BY <1>1, FramesOfIs
<1>5. /\ FramesOf(y) \in Seq(Views) /\ Len(FramesOf(y)) = m
      /\ \A k \in 1 .. m : FramesOf(y)[k] = Seen(y.stack, y.cis[k])
  BY FramesOfIs
<1> DEFINE p == FramesOf(x)  q == FramesOf(y)  e == Seen(y.stack, y.cis[m])
           r == SubSeq(p, 1, m - 1)
<1> HIDE DEF p, q, e
<1>6. m - 1 \in 0 .. Len(p) BY <1>1, <1>4 DEF p
<1>7. r \in Seq(Views) /\ Len(r) = m - 1 /\ \A k \in 1 .. m - 1 : r[k] = p[k]
  BY <1>4, <1>6, PrefixIs DEF p
<1>8. m \in 1 .. m BY <1>1
<1>9. e \in Views /\ q[m] = e BY <1>5, <1>8 DEF e, q
<1> HIDE DEF r
<1>10. /\ Append(r, e) \in Seq(Views) /\ Len(Append(r, e)) = Len(r) + 1
       /\ \A k \in 1 .. Len(r) : Append(r, e)[k] = r[k]
       /\ Append(r, e)[Len(r) + 1] = e
  BY <1>7, <1>9, AppendIs
<1>11. Len(Append(r, e)) = m /\ Append(r, e)[m] = q[m] BY <1>1, <1>7, <1>9, <1>10
<1>12. \A k \in 1 .. m - 1 : Append(r, e)[k] = q[k] BY <1>3, <1>7, <1>10 DEF p, q
<1>13. q \in Seq(Views) /\ Len(q) = m BY <1>5 DEF q
<1>14. q = Append(r, e)
  <2>1. \A k \in 1 .. Len(q) : q[k] = Append(r, e)[k] BY <1>1, <1>11, <1>12, <1>13
  <2> QED BY <2>1, <1>10, <1>11, <1>13, SeqEqual
<1> QED BY <1>14 DEF p, q, e, r

\* Only the innermost frame changes.
LEMMA FramesSet ==
  ASSUME NEW x, Body(x), NEW y \in Threads, NEW d \in CallInfo, y.cis = Append(Front(x.cis), d),
         Last(x.cis).func <= Len(y.stack) + 1,
         \A i \in 1 .. Last(x.cis).func - 1 : y.stack[i] = x.stack[i]
  PROVE  FramesOf(y) = Append(Front(FramesOf(x)), Seen(y.stack, d))
<1> DEFINE m == Len(x.cis)
<1>1. /\ x \in Threads /\ x.cis \in Seq(CallInfo) /\ x.cis # <<>> /\ DOMAIN x.cis = 1 .. m
  BY ThreadTypes DEF Body, Types
<1>2. /\ Append(Front(x.cis), d) \in Seq(CallInfo) /\ Len(Append(Front(x.cis), d)) = m
      /\ m \in Nat \ {0} /\ Append(Front(x.cis), d)[m] = d
      /\ \A i \in 1 .. m - 1 : Append(Front(x.cis), d)[i] = x.cis[i]
  BY <1>1, AgainIs
<1>3. Last(x.cis) = x.cis[m] BY <1>1, FrontIs
<1>4. Len(FramesOf(x)) = m BY <1>1, FramesOfIs
<1> HIDE DEF m
<1>5. m \in DOMAIN x.cis /\ Len(y.cis) = m /\ y.cis[m] = d BY <1>1, <1>2
<1>6. FramesOf(y) = Append(SubSeq(FramesOf(x), 1, m - 1), Seen(y.stack, y.cis[m]))
  <2>1. \A k \in 1 .. m - 1 : y.cis[k] = x.cis[k] BY <1>2
  <2>2. /\ x.cis[m].func <= Len(y.stack) + 1
        /\ \A i \in 1 .. x.cis[m].func - 1 : y.stack[i] = x.stack[i]
    BY <1>3
  <2>3. m \in DOMAIN x.cis /\ Len(y.cis) = m BY <1>5
  <2> QED BY <2>1, <2>2, <2>3, FramesCutTo
<1> QED BY <1>4, <1>5, <1>6 DEF Front

\* A frame more, and the one below it keeps what it sees.
LEMMA FramesMore ==
  ASSUME NEW x, Body(x), NEW y \in Threads, NEW d \in CallInfo, y.cis = Append(x.cis, d),
         Seen(y.stack, Last(x.cis)) = Seen(x.stack, Last(x.cis)),
         Last(x.cis).func <= Len(y.stack) + 1,
         \A i \in 1 .. Last(x.cis).func - 1 : y.stack[i] = x.stack[i]
  PROVE  FramesOf(y) = Append(FramesOf(x), Seen(y.stack, d))
<1> DEFINE m == Len(x.cis)
<1>1. /\ x \in Threads /\ x.cis \in Seq(CallInfo) /\ x.cis # <<>> /\ DOMAIN x.cis = 1 .. m
  BY ThreadTypes DEF Body, Types
<1>2. m \in Nat \ {0} /\ Last(x.cis) = x.cis[m] BY <1>1, FrontIs
<1>3. /\ Append(x.cis, d) \in Seq(CallInfo) /\ Len(Append(x.cis, d)) = m + 1
      /\ \A i \in 1 .. m : Append(x.cis, d)[i] = x.cis[i]
      /\ Append(x.cis, d)[m + 1] = d
  BY <1>1, AppendIs
<1>4. /\ FramesOf(x) \in Seq(Views) /\ Len(FramesOf(x)) = m
      /\ \A k \in 1 .. m : FramesOf(x)[k] = Seen(x.stack, x.cis[k])
  BY <1>1, FramesOfIs
<1> HIDE DEF m
<1>5. /\ FramesOf(y) \in Seq(Views) /\ Len(FramesOf(y)) = m + 1
      /\ \A k \in 1 .. m + 1 : FramesOf(y)[k] = Seen(y.stack, y.cis[k])
  <2>1. Len(y.cis) = m + 1 BY <1>3
  <2> QED BY <2>1, FramesOfIs
<1>6. \A k \in 1 .. m - 1 : FramesOf(y)[k] = FramesOf(x)[k]
  <2>1. m \in DOMAIN x.cis /\ m - 1 <= Len(y.cis) /\ \A k \in 1 .. m - 1 : y.cis[k] = x.cis[k]
    BY <1>1, <1>2, <1>3
  <2> QED BY <2>1, <1>2, LowerFrames
<1>7. FramesOf(y)[m] = FramesOf(x)[m] BY <1>2, <1>3, <1>4, <1>5
<1> DEFINE p == FramesOf(x)  q == FramesOf(y)  e == Seen(y.stack, d)
<1> HIDE DEF p, q, e
<1>8. q[m + 1] = e
  <2>1. m + 1 \in 1 .. m + 1 /\ y.cis[m + 1] = d BY <1>2, <1>3
  <2> QED BY <2>1, <1>5 DEF q, e
<1>9. q \in Seq(Views) /\ Len(q) = m + 1 /\ p \in Seq(Views) /\ Len(p) = m BY <1>4, <1>5 DEF p, q
<1>10. e \in Views BY <1>2, <1>8, <1>9
<1>11. /\ Append(p, e) \in Seq(Views) /\ Len(Append(p, e)) = m + 1
       /\ \A k \in 1 .. m : Append(p, e)[k] = p[k]
       /\ Append(p, e)[m + 1] = e
  <2>1. /\ Append(p, e) \in Seq(Views) /\ Len(Append(p, e)) = Len(p) + 1
        /\ \A k \in 1 .. Len(p) : Append(p, e)[k] = p[k]
        /\ Append(p, e)[Len(p) + 1] = e
    BY <1>9, <1>10, AppendIs
  <2> QED BY <2>1, <1>9
<1>12. \A k \in 1 .. m : q[k] = p[k] BY <1>2, <1>6, <1>7 DEF p, q
<1>13. q = Append(p, e)
  <2>1. \A k \in 1 .. Len(q) : q[k] = Append(p, e)[k] BY <1>2, <1>8, <1>9, <1>11, <1>12
  <2> QED BY <2>1, <1>9, <1>11, SeqEqual
<1> QED BY <1>13 DEF p, q, e

\* The values between two slots.
LEMMA PartIs ==
  ASSUME NEW T, NEW s \in Seq(T), NEW f \in Nat, NEW b \in f .. Len(s)
  PROVE  /\ SubSeq(s, f + 1, b) \in Seq(T) /\ Len(SubSeq(s, f + 1, b)) = b - f /\ b - f \in Nat
         /\ \A i \in 1 .. b - f : SubSeq(s, f + 1, b)[i] = s[f + i]
<1>1. Len(s) \in Nat /\ b \in Nat /\ b - f \in Nat OBVIOUS
<1>2. \A i \in f + 1 .. b : s[i] \in T BY <1>1
<1> QED BY <1>1, <1>2

\* A list is its front and its last element.
LEMMA FrontLast ==
  ASSUME NEW T, NEW s \in Seq(T), s # <<>>
  PROVE  Append(Front(s), Last(s)) = s
<1>1. Last(s) \in T /\ Last(s) = s[Len(s)] BY FrontIs
<1> DEFINE e == Last(s)
<1> HIDE DEF e
<1>2. e \in T /\ e = s[Len(s)] BY <1>1 DEF e
<1>3. /\ Append(Front(s), e) \in Seq(T) /\ Len(Append(Front(s), e)) = Len(s)
      /\ Len(s) \in Nat \ {0} /\ Append(Front(s), e)[Len(s)] = e
      /\ \A i \in 1 .. Len(s) - 1 : Append(Front(s), e)[i] = s[i]
  BY <1>2, AgainIs
<1>4. \A i \in 1 .. Len(s) : Append(Front(s), e)[i] = s[i] BY <1>2, <1>3
<1>5. Append(Front(s), e) = s BY <1>3, <1>4, SeqEqual
<1> QED BY <1>5 DEF e

\* The frames that callers see after a step to the thread y.
LEMMA FramesNext ==
  ASSUME ApiInv', NEW y, stack' = y.stack, cis' = y.cis
  PROVE  Frames' = FramesOf(y)
<1>1. (ApiInv => Frames = FramesOf(Thread))' BY FramesAre, PTL
<1>2. FramesOf(Thread)' = FramesOf(y) BY DEF FramesOf, Thread
<1> QED BY <1>1, <1>2

-----------------------------------------------------------------------------
(* Errors *)

\* The message of an error that is raised is seen by nobody yet.
LEMMA RaiseMaps ==
  ASSUME ApiInv', NEW x, Body(x), Faulting(x), NEW v \in Values, Raise(x, v)
  PROVE  Frames' = FramesOf(x) /\ raising' /\ Last(stack') = v
<1> DEFINE c == Last(x.cis)
           a == IF c.at = 0 THEN Len(x.stack) + 1 ELSE c.at
           d == [c EXCEPT !.at = a]
           z == [x EXCEPT !.cis = Append(Front(x.cis), d)]
           s == Append(x.stack, v)
           y == [z EXCEPT !.stack = s]
<1>1. /\ x \in Threads /\ x.cis \in Seq(CallInfo) /\ x.cis # <<>> /\ x.stack \in Seq(Values)
      /\ Len(x.stack) \in Nat /\ Nested(x)
  BY ThreadTypes DEF Body, Types
<1>2. Becomes(y, TRUE)
  <2>1. y = [InCi(x, [c EXCEPT !.at = IF @ = 0 THEN Len(x.stack) + 1 ELSE @])
                  EXCEPT !.stack = Append(@, v)]
    BY <1>1 DEF InCi, Threads
  <2> QED BY <2>1 DEF Raise
<1>3. /\ c \in CallInfo /\ c = x.cis[Len(x.cis)] /\ Len(x.cis) \in DOMAIN x.cis
  <2>1. Len(x.cis) \in Nat \ {0} /\ Last(x.cis) = x.cis[Len(x.cis)] /\ Last(x.cis) \in CallInfo
    BY <1>1, FrontIs
  <2> QED BY <1>1, <2>1
<1>4. c.at \in Nat /\ c.func \in Nat BY <1>3, CallInfoTypes
<1>5. a \in Nat /\ a # 0 /\ a <= Len(x.stack) + 1 BY <1>1, <1>4 DEF Faulting
<1>6. Waits(c) /\ 1 <= c.func /\ c.func <= Len(x.stack)
      /\ (c.at # 0 => c.at <= Len(x.stack) + 1)
  BY <1>1, <1>3 DEF Faulting, Waits, Nested
<1> HIDE DEF a
<1>7. d \in CallInfo /\ d.at = a /\ d.kind = c.kind /\ d.func = c.func /\ d.nres = c.nres
      /\ d.status = c.status /\ d.exc = c.exc
  BY <1>3, <1>5 DEF CallInfo
<1> HIDE DEF d
<1>8. Append(Front(x.cis), d) \in Seq(CallInfo) BY <1>1, <1>7, AgainIs
<1>9. z \in Threads /\ z.cis = Append(Front(x.cis), d) BY <1>1, <1>8 DEF Threads
<1>10. /\ s \in Seq(Values) /\ Len(s) = Len(x.stack) + 1 /\ Last(s) = v
       /\ \A i \in 1 .. Len(x.stack) : s[i] = x.stack[i]
  BY <1>1, AppendIs
<1> HIDE DEF z, s
<1>11. y \in Threads /\ y.stack = s /\ y.cis = Append(Front(x.cis), d)
  BY <1>9, <1>10 DEF Threads
<1> HIDE DEF y
<1>12. FramesOf(y) = Append(Front(FramesOf(x)), Seen(s, d))
  <2>1. Last(x.cis).func <= Len(y.stack) + 1 /\ \A i \in 1 .. Last(x.cis).func - 1 : y.stack[i] = x.stack[i]
    BY <1>1, <1>4, <1>6, <1>10, <1>11
  <2>2. FramesOf(y) = Append(Front(FramesOf(x)), Seen(y.stack, d))
    BY <2>1, <1>7, <1>11, FramesSet
  <2> QED BY <2>2, <1>11
<1>13. Seen(s, d) = Seen(x.stack, c)
  <2>1. CASE c.at # 0
    <3>1. d.at = c.at BY <2>1, <1>7 DEF a
    <3>2. Seen(s, d) = Seen(s, c) BY <3>1, <1>7 DEF Seen, ValsOf, Waits
    <3>3. Seen(s, c) = Seen(x.stack, c)
      <4>1. c.at <= Len(s) + 1 BY <1>1, <1>4, <1>6, <1>10, <2>1
      <4>2. \A i \in c.func + 1 .. c.at - 1 : s[i] = x.stack[i] BY <1>1, <1>4, <1>6, <1>10, <2>1
      <4> HIDE DEF c
      <4> QED BY <4>1, <4>2, <2>1, <1>1, <1>3, <1>6, <1>10, SeenBelow
    <3> QED BY <3>2, <3>3
  <2>2. CASE c.at = 0
    <3>1. d.at = Len(x.stack) + 1 /\ d.at # 0 BY <2>2, <1>1, <1>7 DEF a
    <3>2. SubSeq(s, c.func + 1, Len(x.stack)) = SubSeq(x.stack, c.func + 1, Len(x.stack))
      <4>1. PICK f \in Nat \ {0} : f = c.func + 1 BY <1>4
      <4>2. PICK n \in Nat : n = Len(x.stack) BY <1>1
      <4>3. n <= Len(s) /\ n <= Len(x.stack) /\ \A i \in f .. n : s[i] = x.stack[i]
        BY <4>1, <4>2, <1>10
      <4>4. SubSeq(s, f, n) = SubSeq(x.stack, f, n) BY <4>3, <1>1, <1>10, SamePart
      <4> QED BY <4>1, <4>2, <4>4
    <3>3. d.at - 1 = Len(x.stack) BY <3>1, <1>1
    <3>4. ValsOf(s, d) = SubSeq(s, c.func + 1, Len(x.stack))
      BY <3>1, <3>3, <1>6, <1>7 DEF ValsOf, Waits
    <3>5. ValsOf(x.stack, c) = SubSeq(x.stack, c.func + 1, Len(x.stack))
      BY <2>2, <1>6 DEF ValsOf
    <3> QED BY <3>2, <3>4, <3>5, <1>7 DEF Seen
  <2> QED BY <2>1, <2>2
<1>14. FramesOf(y) = FramesOf(x)
  <2>1. /\ FramesOf(x) \in Seq(Views) /\ Len(FramesOf(x)) = Len(x.cis)
        /\ \A k \in 1 .. Len(x.cis) : FramesOf(x)[k] = Seen(x.stack, x.cis[k])
    BY <1>1, FramesOfIs
  <2>2. Len(x.cis) \in Nat \ {0} BY <1>1, FrontIs
  <2>3. FramesOf(x) # <<>> BY <2>1, <2>2
  <2>4. Last(FramesOf(x)) = Seen(x.stack, c) BY <2>1, <2>2, <1>3 DEF Last
  <2>5. Append(Front(FramesOf(x)), Last(FramesOf(x))) = FramesOf(x) BY <2>1, <2>3, FrontLast
  <2> QED BY <2>4, <2>5, <1>12, <1>13
<1>15. stack' = y.stack /\ cis' = y.cis /\ raising' = TRUE BY <1>2 DEF Becomes, y
<1>16. Frames' = FramesOf(y) BY <1>15, FramesNext
<1> QED BY <1>10, <1>11, <1>14, <1>15, <1>16

\* A CallInfo whose luaD_pcall failed, and a frame that got the message.
Failed(c) == [c EXCEPT !.status = "failed"]

Got(f, v) == [f EXCEPT !.vals = Append(@, v), !.status = "failed"]

\* The frame that catches an error gets the message after its own values.
LEMMA MessageSeen ==
  ASSUME NEW c \in CallInfo, InPcall(c), NEW d \in CallInfo, d = Failed(c),
         NEW s \in Seq(Values), NEW o \in Nat, o = Callee(c), c.func + 1 < o, o <= Len(s) + 1,
         NEW v \in Values, NEW t \in Seq(Values), Len(t) = o, t[o] = v,
         \A i \in 1 .. o - 1 : t[i] = s[i]
  PROVE  Seen(t, d) = Got(Seen(s, c), v)
<1>1. PICK f \in Nat : f = c.func BY CallInfoTypes
<1>2. PICK p \in Nat : p = c.at BY CallInfoTypes
<1>3. o \in Nat /\ f + 1 < o /\ o - 1 <= Len(s) /\ Len(s) \in Nat BY <1>1
<1>4. o = p \/ o = p + 1 BY <1>2 DEF Callee
<1>5. f < p /\ p # 0 /\ p - 1 <= Len(s) BY <1>1, <1>2, <1>3, <1>4
<1>6. /\ d.kind = c.kind /\ d.func = c.func /\ d.nres = c.nres /\ d.at = c.at /\ d.exc = c.exc
      /\ d.status = "failed"
  BY DEF CallInfo, Failed
<1> DEFINE u == SubSeq(s, f + 1, p - 1)
<1>7. ValsOf(s, c) = u
  <2>1. Waits(c) BY DEF InPcall, Waits
  <2> QED BY <2>1, <1>1, <1>2, <1>5 DEF ValsOf
<1>8. /\ u \in Seq(Values) /\ Len(u) = p - 1 - f /\ p - 1 - f \in Nat
      /\ \A i \in 1 .. p - 1 - f : u[i] = s[f + i]
  <2>1. PICK b \in Nat : b = p - 1 BY <1>5
  <2>2. b \in f .. Len(s) BY <2>1, <1>3, <1>5
  <2>3. /\ SubSeq(s, f + 1, b) \in Seq(Values) /\ Len(SubSeq(s, f + 1, b)) = b - f /\ b - f \in Nat
        /\ \A i \in 1 .. b - f : SubSeq(s, f + 1, b)[i] = s[f + i]
    BY <2>2, PartIs
  <2> QED BY <2>1, <2>3
<1> HIDE DEF u
<1>9. /\ Append(u, v) \in Seq(Values) /\ Len(Append(u, v)) = p - f /\ p - f \in Nat
      /\ \A i \in 1 .. p - 1 - f : Append(u, v)[i] = s[f + i]
      /\ Append(u, v)[p - f] = v
  <2>1. /\ Append(u, v) \in Seq(Values) /\ Len(Append(u, v)) = Len(u) + 1
        /\ \A i \in 1 .. Len(u) : Append(u, v)[i] = u[i]
        /\ Append(u, v)[Len(u) + 1] = v
    BY <1>8, AppendIs
  <2>2. p - 1 - f + 1 = p - f /\ p - f \in Nat BY <1>5
  <2> QED BY <2>1, <2>2, <1>8
<1>10. t \in Seq(Values) /\ Len(t) = o /\ t[o] = v /\ \A i \in 1 .. o - 1 : t[i] = s[i]
  OBVIOUS
<1>11. ValsOf(t, d) = Append(u, v)
  <2>0. ~Waits(d) BY <1>6 DEF Waits
  <2>1. CASE c.kind \notin JavaKinds
    <3>1. o = p
      <4>1. c.kind = "pcall" BY <2>1 DEF InPcall, CallInfo, JavaKinds
      <4> QED BY <4>1, <1>2 DEF Callee
    <3>2. ValsOf(t, d) = Above(t, f) BY <2>0, <2>1, <1>1, <1>6 DEF ValsOf
    <3>3. f \in 0 .. Len(t) /\ Len(Append(u, v)) = Len(t) - f BY <3>1, <1>3, <1>9, <1>10
    <3>4. \A i \in 1 .. Len(Append(u, v)) : Append(u, v)[i] = t[f + i]
      <4> SUFFICES ASSUME NEW i \in 1 .. p - f PROVE Append(u, v)[i] = t[f + i] BY <1>9
      <4>1. CASE i = p - f
        <5>1. f + i = o BY <4>1, <3>1, <1>5
        <5> QED BY <4>1, <5>1, <1>9, <1>10
      <4>2. CASE i # p - f
        <5>1. i \in 1 .. p - 1 - f /\ f + i \in 1 .. o - 1 BY <4>2, <3>1, <1>5
        <5> QED BY <5>1, <1>9, <1>10
      <4> QED BY <4>1, <4>2
    <3>5. Above(t, f) = Append(u, v) BY <3>3, <3>4, <1>9, <1>10, AboveByElements
    <3> QED BY <3>2, <3>5
  <2>2. CASE c.kind \in JavaKinds
    <3>1. o = p + 1 BY <2>2, <1>2 DEF Callee, JavaKinds
    <3>2. ValsOf(t, d) = RemoveAt(Above(t, f), p - f)
      BY <2>0, <2>2, <1>1, <1>2, <1>6 DEF ValsOf
    <3> DEFINE w == Above(t, f)  n == p - f
    <3>3. w \in Seq(Values) /\ Len(w) = n + 1 /\ \A i \in 1 .. n + 1 : w[i] = t[f + i]
      <4>1. f \in 0 .. Len(t) /\ Len(t) - f = p - f + 1 BY <3>1, <1>3, <1>5, <1>10
      <4>2. t \in Seq(Values) /\ f \in 0 .. Len(t) BY <4>1, <1>10
      <4> HIDE DEF w
      <4>3. /\ Above(t, f) \in Seq(Values) /\ Len(Above(t, f)) = Len(t) - f
            /\ \A i \in 1 .. Len(t) - f : Above(t, f)[i] = t[f + i]
        BY <4>2, AboveIs
      <4> QED BY <4>1, <4>3 DEF w
    <3>4. n \in Nat /\ n >= 1 BY <1>5
    <3>5. f + (n + 1) = o /\ \A i \in 1 .. n - 1 : f + i \in 1 .. o - 1
      <4>1. f + (n + 1) = p + 1 OBVIOUS
      <4>2. \A i \in 1 .. n - 1 : f + i \in 1 .. p BY <3>4
      <4>3. o - 1 = p BY <3>1
      <4> QED BY <4>1, <4>2, <4>3, <3>1
    <3>6. Append(u, v) \in Seq(Values) /\ Len(Append(u, v)) = n
          /\ Append(u, v)[n] = v
      BY <1>9
    <3>7. \A i \in 1 .. n - 1 : Append(u, v)[i] = t[f + i]
      <4> SUFFICES ASSUME NEW i \in 1 .. n - 1 PROVE Append(u, v)[i] = t[f + i] OBVIOUS
      <4>1. i \in 1 .. p - 1 - f BY <1>5
      <4> QED BY <4>1, <3>5, <1>9, <1>10
    <3> HIDE DEF w, n
    <3>8. n \in 1 .. Len(w) BY <3>3, <3>4
    <3>9. /\ RemoveAt(w, n) \in Seq(Values) /\ Len(RemoveAt(w, n)) = Len(w) - 1
          /\ \A k \in 1 .. Len(w) - 1 : RemoveAt(w, n)[k] = IF k < n THEN w[k] ELSE w[k + 1]
      BY <3>3, <3>8, RemoveAtIs
    <3>10. Len(w) - 1 = n BY <3>3, <3>4
    <3>11. w[n + 1] = v
      <4>1. n + 1 \in 1 .. n + 1 BY <3>4
      <4> QED BY <4>1, <3>3, <3>5, <1>10
    <3>12. ASSUME NEW k \in 1 .. n PROVE RemoveAt(w, n)[k] = Append(u, v)[k]
      <4>1. CASE k = n BY <4>1, <3>4, <3>6, <3>9, <3>10, <3>11
      <4>2. CASE k # n
        <5>1. k \in 1 .. n - 1 /\ k < n /\ k \in 1 .. n + 1 BY <4>2, <3>4
        <5> QED BY <5>1, <3>3, <3>7, <3>9, <3>10
      <4> QED BY <4>1, <4>2
    <3>13. RemoveAt(w, n) = Append(u, v) BY <3>6, <3>9, <3>10, <3>12, SeqEqual
    <3> QED BY <3>2, <3>13 DEF w, n
  <2> QED BY <2>1, <2>2
<1> DEFINE k == c.kind  n == c.nres  e == c.exc  g == c.status  a == Append(u, v)
           q == [kind |-> k, vals |-> a, want |-> n, status |-> "failed", exc |-> e]
           R == [kind: {k}, vals: {u, a}, want: {n}, status: {g, "failed"}, exc: {e}]
           r == [kind |-> k, vals |-> u, want |-> n, status |-> g, exc |-> e]
<1>12. Seen(s, c) = r /\ Seen(t, d) = q BY <1>6, <1>7, <1>11 DEF Seen
<1> HIDE DEF k, n, e, g
<1>13. r \in R /\ q \in R /\ r.vals = u OBVIOUS
<1>14. q.kind = k /\ q.want = n /\ q.exc = e /\ q.status = "failed" /\ q.vals = a OBVIOUS
<1>15. r.kind = k /\ r.want = n /\ r.exc = e OBVIOUS
<1> HIDE DEF r, q
<1>16. [r EXCEPT !.vals = Append(@, v), !.status = "failed"] = q BY <1>13, <1>14, <1>15
<1> QED BY <1>12, <1>16 DEF Got

\* The frame that catches an error is that of the innermost luaD_pcall.
LEMMA CatcherIs ==
  ASSUME NEW x, Body(x), x.jmps # <<>>, NEW m, m = Last(x.jmps).ci
  PROVE  AF!Catcher(FramesOf(x)) = m /\ m \in DOMAIN x.cis
<1> DEFINE fs == FramesOf(x)
           cs == {i \in DOMAIN fs : fs[i].status = "calling" /\ fs[i].kind # "script"}
<1>1. x \in Threads /\ DOMAIN x.cis = 1 .. Len(x.cis) /\ Len(x.cis) \in Nat
  BY ThreadTypes DEF Body, Types
<1>2. DOMAIN fs = DOMAIN x.cis /\ \A k \in DOMAIN x.cis : fs[k] = Seen(x.stack, x.cis[k])
  BY <1>1, FramesOfIs
<1>3. \A k \in DOMAIN x.cis : fs[k].status = x.cis[k].status /\ fs[k].kind = x.cis[k].kind
  <2> TAKE k \in DOMAIN x.cis
  <2>1. fs[k] = Seen(x.stack, x.cis[k]) BY <1>2
  <2> HIDE DEF fs
  <2> QED BY <2>1 DEF Seen
<1> HIDE DEF fs
<1>4. cs = {i \in DOMAIN x.cis : InPcall(x.cis[i])} BY <1>2, <1>3 DEF InPcall
<1>5. m \in DOMAIN x.cis /\ InPcall(x.cis[m]) /\ \A k \in DOMAIN x.cis : InPcall(x.cis[k]) => k <= m
  BY Innermost
<1>6. m \in cs /\ cs \subseteq Nat /\ \A k \in cs : k <= m BY <1>1, <1>4, <1>5
<1>7. AF!Catcher(fs) = CHOOSE i \in cs : \A k \in cs : k <= i BY DEF AF!Catcher
<1> HIDE DEF cs
<1>8. \E i \in cs : \A k \in cs : k <= i BY <1>6
<1>9. AF!Catcher(fs) \in cs /\ \A k \in cs : k <= AF!Catcher(fs) BY <1>7, <1>8
<1>10. AF!Catcher(fs) = m
  <2> DEFINE n == AF!Catcher(fs)
  <2> HIDE DEF n
  <2>1. n \in Nat /\ m \in Nat /\ n <= m /\ m <= n BY <1>6, <1>9 DEF n
  <2>2. n = m BY <2>1
  <2> QED BY <2>2 DEF n
<1> QED BY <1>5, <1>10 DEF fs

\* An error goes to the innermost protected call.
LEMMA ThrowMaps ==
  ASSUME ApiInv', NEW x, Body(x), x.jmps # <<>>, NEW v \in Values,
         InPcall(Last(x.cis)) => Callee(Last(x.cis)) <= Len(x.stack) + 1,
         Becomes(luaD_throw(x, v), FALSE)
  PROVE  Frames' = AF!Delivered(FramesOf(x), v) /\ raising' = FALSE
<1> DEFINE j == Last(x.jmps)
           m == j.ci
           o == j.oldtop
           c == x.cis[m]
           d == [c EXCEPT !.status = "failed"]
           s == Append(SubSeq(x.stack, 1, o - 1), v)
           q == SubSeq(x.cis, 1, m)
           b == [q EXCEPT ![m].status = "failed"]
           y == luaD_throw(x, v)
<1>1. /\ x \in Threads /\ x.cis \in Seq(CallInfo) /\ x.stack \in Seq(Values)
      /\ x.cis # <<>> /\ DOMAIN x.cis = 1 .. Len(x.cis)
      /\ Len(x.cis) \in Nat \ {0} /\ Len(x.stack) \in Nat /\ Nested(x)
  BY ThreadTypes DEF Body, Types
<1>2. m \in DOMAIN x.cis /\ InPcall(c) /\ o = Callee(c) BY Innermost
<1>3. y.stack = s /\ y.cis = b BY DEF luaD_throw
<1>a. stack' = y.stack /\ cis' = y.cis /\ raising' = FALSE BY DEF Becomes
<1>b. AF!Catcher(FramesOf(x)) = m BY CatcherIs
<1> HIDE DEF j, y
<1>4. m \in 1 .. Len(x.cis) /\ m \in Nat \ {0} /\ c \in CallInfo BY <1>1, <1>2
<1> HIDE DEF m
<1>5. c.func \in Nat /\ o \in Nat /\ 1 <= c.func /\ c.func + 1 < o
  <2>1. 1 <= c.func /\ c.func + 1 < o BY <1>1, <1>2 DEF Nested
  <2> QED BY <2>1, <1>2, <1>4, CallInfoTypes
<1>6. o - 1 \in 0 .. Len(x.stack)
  <2>1. CASE m = Len(x.cis)
    <3>1. c = Last(x.cis) BY <2>1 DEF Last
    <3>2. o <= Len(x.stack) + 1 BY <3>1, <1>2
    <3> QED BY <3>2, <1>1, <1>5
  <2>2. CASE m # Len(x.cis)
    <3> DEFINE l == Len(x.cis)
    <3>1. m < l /\ l \in DOMAIN x.cis BY <2>2, <1>1, <1>4
    <3> HIDE DEF l
    <3>2. x.cis[l].func <= Len(x.stack) BY <3>1, <1>1 DEF Nested
    <3>3. o <= x.cis[l].func BY <3>1, <1>1, <1>2 DEF Nested
    <3>4. x.cis[l].func \in Nat
      <4>1. x.cis[l] \in CallInfo BY <3>1, <1>1, ThreadTypes
      <4> QED BY <4>1, CallInfoTypes
    <3>5. Len(x.stack) \in Nat /\ o \in Nat /\ 1 <= o BY <1>1, <1>5
    <3> HIDE DEF o
    <3> QED BY <3>2, <3>3, <3>4, <3>5
  <2> QED BY <2>1, <2>2
<1> HIDE DEF o
<1>7. s \in Seq(Values) /\ Len(s) = o /\ s[o] = v /\ \A i \in 1 .. o - 1 : s[i] = x.stack[i]
  <2> DEFINE p == SubSeq(x.stack, 1, o - 1)
  <2>1. p \in Seq(Values) /\ Len(p) = o - 1 /\ \A i \in 1 .. o - 1 : p[i] = x.stack[i]
    BY <1>1, <1>6, PrefixIs
  <2> HIDE DEF p
  <2>2. /\ Append(p, v) \in Seq(Values) /\ Len(Append(p, v)) = Len(p) + 1
        /\ \A i \in 1 .. Len(p) : Append(p, v)[i] = p[i]
        /\ Append(p, v)[Len(p) + 1] = v
    BY <2>1, AppendIs
  <2>3. s = Append(p, v) BY DEF p
  <2> HIDE DEF s
  <2>4. s \in Seq(Values) BY <2>2, <2>3
  <2>5. Len(s) = o /\ s[o] = v BY <2>1, <2>2, <2>3, <1>5
  <2>6. ASSUME NEW i \in 1 .. o - 1 PROVE s[i] = x.stack[i]
    <3>1. i \in 1 .. Len(p) /\ p[i] = x.stack[i] BY <2>1
    <3> QED BY <3>1, <2>2, <2>3
  <2> QED BY <2>4, <2>5, <2>6
<1>8. q \in Seq(CallInfo) /\ Len(q) = m /\ \A k \in 1 .. m : q[k] = x.cis[k]
  BY <1>1, <1>4, PrefixIs
<1>9. d \in CallInfo BY <1>4 DEF CallInfo
<1>10. b \in Seq(CallInfo) /\ Len(b) = m /\ b[m] = d /\ \A k \in 1 .. m - 1 : b[k] = x.cis[k]
  <2> HIDE DEF q, d
  <2>1. q[m] = c BY <1>4, <1>8
  <2>2. b = [q EXCEPT ![m] = d] BY <2>1 DEF d
  <2>3. DOMAIN q = 1 .. m BY <1>8
  <2> HIDE DEF b
  <2>4. b \in Seq(CallInfo) /\ Len(b) = m BY <2>2, <1>4, <1>8, <1>9
  <2>5. b[m] = d /\ \A k \in 1 .. m - 1 : b[k] = x.cis[k] BY <2>2, <2>3, <1>4, <1>8
  <2> QED BY <2>4, <2>5
<1> HIDE DEF b, d, s
<1>11. PICK w \in Threads : w.stack = s /\ w.cis = b
  <2> DEFINE z == [stack |-> s, cis |-> b, jmps |-> <<>>, errfunc |-> 0, size |-> 0]
  <2>1. z \in Threads BY <1>7, <1>10, Sizes DEF Threads
  <2>2. z.stack = s /\ z.cis = b OBVIOUS
  <2> QED BY <2>1, <2>2
<1>12. FramesOf(w) = Append(SubSeq(FramesOf(x), 1, m - 1), Seen(s, d))
  <2>1. x.cis[m].func <= Len(w.stack) + 1 /\ \A i \in 1 .. x.cis[m].func - 1 : w.stack[i] = x.stack[i]
    BY <1>5, <1>7, <1>11
  <2>2. Len(w.cis) = m /\ w.cis[m] = d /\ \A k \in 1 .. m - 1 : w.cis[k] = x.cis[k] BY <1>10, <1>11
  <2>3. FramesOf(w) = Append(SubSeq(FramesOf(x), 1, m - 1), Seen(w.stack, w.cis[m]))
    BY <2>1, <2>2, <1>2, FramesCutTo
  <2> QED BY <2>2, <2>3, <1>11
<1>13. Seen(s, d) = Got(Seen(x.stack, c), v)
  <2>1. d = Failed(c) BY DEF d, Failed

  <2>3. PICK a \in Seq(Values) : a = x.stack BY <1>1
  <2>4. /\ c \in CallInfo /\ InPcall(c) /\ d \in CallInfo /\ o = Callee(c) /\ c.func + 1 < o
        /\ o \in Nat /\ o <= Len(a) + 1 /\ s \in Seq(Values) /\ Len(s) = o /\ s[o] = v
        /\ \A i \in 1 .. o - 1 : s[i] = a[i]
    BY <2>3, <1>1, <1>2, <1>4, <1>5, <1>6, <1>7, <1>9
  <2> HIDE DEF c
  <2>5. Seen(s, d) = Got(Seen(a, c), v) BY <2>1, <2>4, MessageSeen
  <2> QED BY <2>3, <2>5
<1>14. FramesOf(x)[m] = Seen(x.stack, c) BY <1>1, <1>4, FramesOfIs
<1>15. Frames' = FramesOf(w) BY <1>3, <1>a, <1>11, FramesNext
<1>16. AF!Delivered(FramesOf(x), v)
         = Append(SubSeq(FramesOf(x), 1, m - 1), Got(FramesOf(x)[m], v))
  BY <1>b DEF AF!Delivered, Got
<1> QED BY <1>a, <1>12, <1>13, <1>14, <1>15, <1>16

\* The frames that callers see when only what lies above them changes.
LEMMA FramesKept ==
  ASSUME NEW x, Body(x), NEW y \in Threads, y.cis = x.cis, NEW c, c = Last(x.cis),
         Waits(c), c.at # 0, c.at <= Len(x.stack) + 1, c.at <= Len(y.stack) + 1,
         \A i \in 1 .. c.at - 1 : y.stack[i] = x.stack[i]
  PROVE  FramesOf(y) = FramesOf(x)
<1>1. /\ x \in Threads /\ x.cis \in Seq(CallInfo) /\ x.cis # <<>> /\ x.stack \in Seq(Values)
      /\ y.stack \in Seq(Values) /\ Nested(x) /\ DOMAIN x.cis = 1 .. Len(x.cis)
      /\ Len(x.stack) \in Nat /\ Len(y.stack) \in Nat
  BY ThreadTypes DEF Body, Types
<1>2. c \in CallInfo /\ c = x.cis[Len(x.cis)] /\ Len(x.cis) \in DOMAIN x.cis
  <2>1. Len(x.cis) \in Nat \ {0} /\ Last(x.cis) = x.cis[Len(x.cis)] /\ Last(x.cis) \in CallInfo
    BY <1>1, FrontIs
  <2> QED BY <1>1, <2>1
<1>3. c.func \in Nat /\ c.at \in Nat /\ c.func < c.at
  <2>1. c.func < c.at BY <1>1, <1>2 DEF Nested
  <2> QED BY <2>1, <1>2, CallInfoTypes
<1>4. Seen(y.stack, c) = Seen(x.stack, c)
  <2>1. PICK s \in Seq(Values) : s = y.stack BY <1>1
  <2>2. PICK t \in Seq(Values) : t = x.stack BY <1>1
  <2>3. \A i \in c.func + 1 .. c.at - 1 : s[i] = t[i] BY <1>3, <2>1, <2>2
  <2>4. Seen(s, c) = Seen(t, c) BY <1>2, <2>1, <2>2, <2>3, SeenBelow
  <2> QED BY <2>1, <2>2, <2>4
<1>5. y.cis = Append(Front(x.cis), c) BY <1>1, FrontLast
<1>6. FramesOf(y) = Append(Front(FramesOf(x)), Seen(y.stack, c))
  <2>1. Len(y.stack) \in Nat BY <1>1
  <2>2. c.func <= Len(y.stack) + 1 BY <2>1, <1>3
  <2>3. \A i \in 1 .. c.func - 1 : i \in 1 .. c.at - 1 BY <1>3
  <2>4. \A i \in 1 .. c.func - 1 : y.stack[i] = x.stack[i] BY <2>3
  <2> QED BY <2>2, <2>4, <1>2, <1>5, FramesSet
<1>7. /\ FramesOf(x) \in Seq(Views) /\ Len(FramesOf(x)) = Len(x.cis)
      /\ \A k \in 1 .. Len(x.cis) : FramesOf(x)[k] = Seen(x.stack, x.cis[k])
  BY <1>1, FramesOfIs
<1>8. Len(x.cis) \in Nat \ {0} BY <1>1, FrontIs
<1>9. FramesOf(x) # <<>> /\ Last(FramesOf(x)) = Seen(x.stack, c) BY <1>2, <1>7, <1>8 DEF Last
<1>10. Append(Front(FramesOf(x)), Last(FramesOf(x))) = FramesOf(x) BY <1>7, <1>9, FrontLast
<1> QED BY <1>4, <1>6, <1>9, <1>10

\* A step that finds no stack fails, as callers see it.
Fails(x) == \/ Frames' = FramesOf(x) /\ raising' = TRUE /\ Last(stack') = Str
            \/ Frames' = AF!Delivered(FramesOf(x), Str) /\ raising' = FALSE

\* A step that finds no stack.
LEMMA NoStackMaps ==
  ASSUME ApiInv', NEW x, Body(x), Faulting(x), NEW err, NoStack(x, err)
  PROVE  Fails(x)
<1>1. Str \in Values BY DEF Values, Strings
<1>2. CASE err = "overflow"
  <2>1. Raise(x, Str) BY <1>2 DEF NoStack
  <2>2. Frames' = FramesOf(x) /\ raising' /\ Last(stack') = Str BY <2>1, <1>1, RaiseMaps
  <2>3. raising' = TRUE BY <2>1 DEF Raise, Becomes
  <2> QED BY <2>2, <2>3 DEF Fails
<1>3. CASE err # "overflow"
  <2>1. Becomes(luaD_throw(x, Str), FALSE) BY <1>3 DEF NoStack
  <2>2. x.jmps # <<>> BY FaultIsCaught
  <2>3. InPcall(Last(x.cis)) => Callee(Last(x.cis)) <= Len(x.stack) + 1
    <3>1. /\ x.cis \in Seq(CallInfo) /\ x.cis # <<>> /\ Len(x.stack) \in Nat
      BY ThreadTypes DEF Body, Types
    <3>2. Last(x.cis) \in CallInfo BY <3>1, FrontIs
    <3>3. Callee(Last(x.cis)) \in Nat BY <3>2, CallInfoTypes
    <3> QED BY <3>1, <3>3 DEF Faulting
  <2>4. Frames' = AF!Delivered(FramesOf(x), Str) /\ raising' = FALSE
    BY <2>1, <2>2, <2>3, <1>1, ThrowMaps
  <2> QED BY <2>4 DEF Fails
<1> QED BY <1>2, <1>3

-----------------------------------------------------------------------------
(* Calls *)

\* A function is entered: it sees what is above its slot.
Enters(x, kind, func, nres) ==
    Frames' = Append(FramesOf(x), AF!Frame(kind, Above(x.stack, func), nres)) /\ raising' = FALSE

\* The function gets a frame, or there is no stack.
LEMMA EnterMaps ==
  ASSUME ApiInv', NEW x, Body(x), Faulting(x),
         NEW kind \in {"java", "handler", "script", "pcall"}, NEW func \in Nat \ {0},
         NEW nres \in Nat \cup {LUA_MULTRET}, Callable(x, kind, func, nres),
         Enter(x, kind, func, nres)
  PROVE  Fails(x) \/ Enters(x, kind, func, nres)
<1> DEFINE len == Len(x.stack)
           room == IF kind = "script" THEN MaxStackSize ELSE LUA_MINSTACK
           grown == luaD_checkstack(len, room, x.size)
           y == [x EXCEPT !.size = grown.size]
           d == NewCI(kind, func, nres, len + 1 + room)
           z == [y EXCEPT !.cis = Append(x.cis, d)]
           c == Last(x.cis)
<1>1. /\ x \in Threads /\ x.cis \in Seq(CallInfo) /\ x.cis # <<>> /\ len \in Nat
      /\ x.stack \in Seq(Values)
      /\ x.size \in 0 .. ERRORSTACKSIZE /\ x.size \in Nat
  BY ThreadTypes DEF Body, Types
<1>2. room \in Nat \ {0} BY Sizes
<1>3. Grown(grown, x.size, len + 1 + room)
  <2>1. x.size \in 0 .. ERRORSTACKSIZE /\ room \in Nat BY <1>1, <1>2
  <2> HIDE DEF room
  <2> QED BY <2>1, <1>1, CheckIs
<1>4. IF grown.err # "" THEN NoStack(y, grown.err) ELSE Becomes(z, FALSE)
  <2>1. z = [y EXCEPT !.cis = Append(@, NewCI(kind, func, nres, Len(x.stack) + 1 + room))]
    BY <1>1 DEF Threads
  <2> QED BY <2>1 DEF Enter
<1>5. c \in CallInfo BY <1>1, FrontIs
<1> HIDE DEF room, grown
<1>6. grown.size \in Nat /\ grown.size \in 0 .. ERRORSTACKSIZE /\ x.size <= grown.size
  <2>1. grown.size \in 0 .. ERRORSTACKSIZE /\ x.size <= grown.size BY <1>3 DEF Grown
  <2> QED BY <2>1, Sizes
<1>7. /\ y \in Threads /\ y.stack = x.stack /\ y.cis = x.cis /\ y.jmps = x.jmps
      /\ y.errfunc = x.errfunc /\ y.size = grown.size
  BY <1>1, <1>6 DEF Threads
<1> HIDE DEF y
<1>8. /\ Nested(x) /\ c = x.cis[Len(x.cis)] /\ Len(x.cis) \in DOMAIN x.cis
  BY <1>1 DEF Body, Last
<1>9. /\ c.func \in Nat /\ c.at \in Nat /\ Callee(c) \in Nat /\ c.func <= len
      /\ (InPcall(c) /\ c.kind \in JavaKinds => c.at <= len)
  <2>1. c.func <= len BY <1>8 DEF Nested
  <2>2. c.func \in Nat /\ c.at \in Nat /\ Callee(c) \in Nat BY <1>5, CallInfoTypes
  <2>3. c.kind \in JavaKinds => Callee(c) = c.at + 1 BY DEF Callee, JavaKinds
  <2>4. InPcall(c) => Callee(c) <= len BY DEF Faulting
  <2>5. InPcall(c) /\ c.kind \in JavaKinds => c.at <= len BY <2>2, <2>3, <2>4, <1>1
  <2> QED BY <2>1, <2>2, <2>5
<1>10. CASE grown.err # ""
  <2>1. Body(y)
    <3>1. x.size <= y.size BY <1>6, <1>7
    <3>2. /\ Last(x.cis).func <= len /\ len <= Len(x.stack) /\ len <= Len(y.stack)
          /\ \A i \in 1 .. len : y.stack[i] = x.stack[i]
          /\ InPcall(Last(x.cis)) /\ Last(x.cis).kind \in JavaKinds => Last(x.cis).at <= len
      BY <1>1, <1>7, <1>9
    <3>3. len \in Nat BY <1>1
    <3>4. /\ y \in Threads /\ y.cis = x.cis /\ y.jmps = x.jmps /\ y.errfunc = x.errfunc
      BY <1>7
    <3> HIDE DEF len, c
    <3> QED BY <3>1, <3>2, <3>3, <3>4, StackChanged
  <2>2. Faulting(y) BY <1>7 DEF Faulting
  <2>3. NoStack(y, grown.err) BY <1>4, <1>10
  <2>4. PICK err : err = grown.err OBVIOUS
  <2>5. NoStack(y, err) BY <2>3, <2>4
  <2>6. Fails(y) BY <2>1, <2>2, <2>5, NoStackMaps
  <2>7. FramesOf(y) = FramesOf(x) BY <1>7 DEF FramesOf
  <2> QED BY <2>6, <2>7 DEF Fails
<1>11. CASE grown.err = ""
  <2>1. /\ d \in CallInfo /\ d.kind = kind /\ d.func = func /\ d.nres = nres
        /\ d.status = "run" /\ d.at = 0 /\ d.exc = None
    BY <1>1, <1>2 DEF NewCI, CallInfo
  <2> HIDE DEF d
  <2>2. Append(x.cis, d) \in Seq(CallInfo) BY <1>1, <2>1, AppendIs
  <2>3. z \in Threads /\ z.stack = x.stack /\ z.cis = Append(x.cis, d)
    BY <1>7, <2>2 DEF Threads
  <2> HIDE DEF z
  <2>4. FramesOf(z) = Append(FramesOf(x), Seen(z.stack, d))
    <3>1. Seen(z.stack, c) = Seen(x.stack, c) BY <2>3
    <3>2. c.func <= Len(z.stack) + 1 /\ \A i \in 1 .. c.func - 1 : z.stack[i] = x.stack[i]
      BY <2>3, <1>1, <1>9
    <3> QED BY <3>1, <3>2, <2>1, <2>3, FramesMore
  <2>5. Seen(z.stack, d) = AF!Frame(kind, Above(x.stack, func), nres)
    <3>1. ValsOf(x.stack, d) = Above(x.stack, func) BY <2>1 DEF ValsOf, Waits, Above
    <3> QED BY <3>1, <2>1, <2>3, SameNames DEF Seen, AF!Frame
  <2>6. Becomes(z, FALSE) BY <1>4, <1>11
  <2>7. stack' = z.stack /\ cis' = z.cis /\ raising' = FALSE BY <2>6 DEF Becomes
  <2>8. Frames' = FramesOf(z) BY <2>7, FramesNext
  <2> QED BY <2>4, <2>5, <2>7, <2>8 DEF Enters
<1> QED BY <1>10, <1>11

\* A list with an element more.
LEMMA InsertAtIs ==
  ASSUME NEW T, NEW s \in Seq(T), NEW e \in T, NEW i \in 1 .. Len(s) + 1
  PROVE  /\ InsertAt(s, i, e) \in Seq(T) /\ Len(InsertAt(s, i, e)) = Len(s) + 1
         /\ \A k \in 1 .. i - 1 : InsertAt(s, i, e)[k] = s[k]
         /\ InsertAt(s, i, e)[i] = e
         /\ \A k \in i .. Len(s) : InsertAt(s, i, e)[k + 1] = s[k]
<1> DEFINE n == Len(s)
           a == SubSeq(s, 1, i - 1)
           b == SubSeq(s, i, n)
<1>1. n \in Nat /\ i \in 1 .. n + 1 /\ i - 1 \in 0 .. n OBVIOUS
<1>2. a \in Seq(T) /\ Len(a) = i - 1 /\ \A k \in 1 .. i - 1 : a[k] = s[k] BY <1>1, PrefixIs
<1>3. b \in Seq(T) /\ Len(b) = n - (i - 1) /\ \A k \in 1 .. n - (i - 1) : b[k] = s[(i - 1) + k]
  <2>1. PICK f \in Nat : f = i - 1 BY <1>1
  <2>2. f \in 0 .. n /\ f + 1 = i BY <2>1, <1>1
  <2>3. b = Above(s, f) BY <2>2 DEF Above
  <2> HIDE DEF b
  <2> QED BY <2>1, <2>2, <2>3, AboveIs
<1> HIDE DEF a, b
<1>4. InsertAt(s, i, e) = a \o <<e>> \o b BY DEF InsertAt, a, b
<1>5. Append(a, e) = a \o <<e>> BY <1>2
<1> DEFINE c == Append(a, e)
<1>6. c \in Seq(T) /\ Len(c) = i /\ c[i] = e /\ \A k \in 1 .. i - 1 : c[k] = s[k]
  <2>1. /\ c \in Seq(T) /\ Len(c) = Len(a) + 1 /\ c[Len(a) + 1] = e
        /\ \A k \in 1 .. Len(a) : c[k] = a[k]
    BY <1>2, AppendIs
  <2>2. Len(a) + 1 = i BY <1>1, <1>2
  <2> QED BY <2>1, <2>2, <1>2
<1>7. InsertAt(s, i, e) = c \o b BY <1>4, <1>5
<1> HIDE DEF c
<1> DEFINE r == c \o b
<1>8. /\ r \in Seq(T) /\ Len(r) = Len(c) + Len(b)
      /\ \A k \in 1 .. Len(c) : r[k] = c[k]
      /\ \A k \in 1 .. Len(b) : r[Len(c) + k] = b[k]
  BY <1>3, <1>6, ConcatIs
<1> HIDE DEF r, n
<1>9. Len(r) = n + 1
  <2>1. i + (n - (i - 1)) = n + 1 BY <1>1
  <2> QED BY <2>1, <1>3, <1>6, <1>8
<1>10. r[i] = e /\ \A k \in 1 .. i - 1 : r[k] = s[k]
  <2>1. i \in 1 .. i /\ \A k \in 1 .. i - 1 : k \in 1 .. i BY <1>1
  <2> QED BY <2>1, <1>6, <1>8
<1>11. ASSUME NEW k \in i .. n PROVE r[k + 1] = s[k]
  <2>1. k - i + 1 \in 1 .. n - (i - 1) BY <1>1
  <2>2. r[i + (k - i + 1)] = b[k - i + 1] BY <2>1, <1>3, <1>6, <1>8
  <2>3. b[k - i + 1] = s[(i - 1) + (k - i + 1)] BY <2>1, <1>3
  <2>4. i + (k - i + 1) = k + 1 /\ (i - 1) + (k - i + 1) = k BY <1>1
  <2> QED BY <2>2, <2>3, <2>4
<1> QED BY <1>7, <1>8, <1>9, <1>10, <1>11 DEF r, n

\* The function at func, its arguments above it.
Calls(x, func, nres) ==
    /\ x.stack[func] \in AF!Callable
    /\ Frames' = Append(FramesOf(x), AF!Callee(x.stack[func], Above(x.stack, func), nres))
    /\ raising' = FALSE

\* A callable object, a function of any kind, or nothing that can be called.
LEMMA PrecallMaps ==
  ASSUME ApiInv', NEW x, Body(x), Last(x.cis).status = "calling",
         NEW func \in Nat \ {0}, NEW nres \in Nat \cup {LUA_MULTRET},
         Callable(x, "java", func, nres), luaD_precall(x, func, nres)
  PROVE  Fails(x) \/ Calls(x, func, nres)
<1> DEFINE f == x.stack[func]
           s == InsertAt(x.stack, func, CallM)
           w == [x EXCEPT !.stack = s]
           grown == luaD_checkstack(Len(s), 0, x.size)
           y == [w EXCEPT !.size = grown.size]
           c == Last(x.cis)
<1>1. /\ x \in Threads /\ x.cis \in Seq(CallInfo) /\ x.cis # <<>> /\ x.stack \in Seq(Values)
      /\ Len(x.stack) \in Nat /\ x.size \in 0 .. ERRORSTACKSIZE /\ x.size \in Nat
  BY ThreadTypes DEF Body, Types
<1>2. c \in CallInfo /\ c = x.cis[Len(x.cis)] /\ Len(x.cis) \in DOMAIN x.cis
  <2>1. Len(x.cis) \in Nat \ {0} /\ Last(x.cis) = x.cis[Len(x.cis)] /\ Last(x.cis) \in CallInfo
    BY <1>1, FrontIs
  <2> QED BY <1>1, <2>1
<1>3. c.func \in Nat /\ c.at \in Nat /\ Callee(c) \in Nat BY <1>2, CallInfoTypes
<1>4. /\ c.at # 0 /\ c.at <= func /\ func <= Len(x.stack) /\ c.func < c.at
      /\ InPcall(c) => func = Callee(c)
      /\ c.kind = "script" => c.top <= func + MaxStackSize
  BY <1>2 DEF Callable, Body, Nested
<1>room. c.kind = "script" => c.top <= Len(x.stack) + 1 + MaxStackSize
  <2>1. c.top \in Nat BY <1>2, CallInfoTypes
  <2> QED BY <2>1, <1>1, <1>4, Sizes
<1>5. Faulting(x) BY <1>1, <1>3, <1>4, <1>room DEF Faulting
<1>6. ASSUME NEW kind \in {"java", "script", "pcall"} PROVE Callable(x, kind, func, nres)
  BY DEF Callable
<1>7. Str \in Values BY DEF Values, Strings
<1> DEFINE a == Above(x.stack, func)
<1>names. /\ AF!Java = Java /\ AF!PCall = PCall /\ AF!Script = Script
          /\ Java # PCall /\ Java # Script /\ PCall # Script
  BY SameNames DEF Java, PCall, Script
<1>8. CASE f = Script
  <2>1. Enter(x, "script", func, nres)
    BY <1>8 DEF luaD_precall, Script, PCall, Java
  <2>2. Callable(x, "script", func, nres) BY <1>6
  <2>3. Fails(x) \/ Enters(x, "script", func, nres) BY <2>1, <2>2, <1>5, EnterMaps
  <2>4. AF!Callee(f, a, nres) = AF!Frame("script", a, nres) BY <1>8, <1>names DEF AF!Callee
  <2>5. f \in AF!Callable BY <1>8, <1>names DEF AF!Callable
  <2> QED BY <2>3, <2>4, <2>5 DEF Enters, Calls
<1>9. CASE f = PCall
  <2>1. Enter(x, "pcall", func, nres)
    BY <1>9 DEF luaD_precall, Script, PCall, Java
  <2>2. Callable(x, "pcall", func, nres) BY <1>6
  <2>3. Fails(x) \/ Enters(x, "pcall", func, nres) BY <2>1, <2>2, <1>5, EnterMaps
  <2>4. AF!Callee(f, a, nres) = AF!Frame("pcall", a, nres) BY <1>9, <1>names DEF AF!Callee
  <2>5. f \in AF!Callable BY <1>9, <1>names DEF AF!Callable
  <2> QED BY <2>3, <2>4, <2>5 DEF Enters, Calls
<1>10. CASE f \notin {Script, PCall, Java}
  <2>1. Raise(x, Str)
    BY <1>10 DEF luaD_precall, Script, PCall, Java
  <2>2. Frames' = FramesOf(x) /\ raising' /\ Last(stack') = Str BY <2>1, <1>5, <1>7, RaiseMaps
  <2>3. raising' = TRUE BY <2>1 DEF Raise, Becomes
  <2> QED BY <2>2, <2>3 DEF Fails
<1>11. CASE f = Java
  <2>1. IF grown.err # "" THEN NoStack(y, grown.err) ELSE Enter(y, "java", func, nres)
    <3>1. w = tryfuncTM(x, func) BY <1>1 DEF tryfuncTM, Threads
    <3>2. Len(w.stack) = Len(s) BY <1>1 DEF Threads
    <3> HIDE DEF w
    <3> QED BY <1>11, <3>1, <3>2 DEF luaD_precall, Script, PCall, Java
  <2>2. /\ s \in Seq(Values) /\ Len(s) = Len(x.stack) + 1
        /\ \A k \in 1 .. func - 1 : s[k] = x.stack[k]
        /\ \A k \in func .. Len(x.stack) : s[k + 1] = x.stack[k]
    <3>0. PICK u \in Seq(Values) : u = x.stack BY <1>1
    <3>1. func \in 1 .. Len(u) + 1 BY <1>1, <1>4, <3>0
    <3>2. PICK e \in Values : e = CallM BY DEF Values
    <3>a. PICK i \in 1 .. Len(u) + 1 : i = func BY <3>1
    <3>b. /\ InsertAt(u, i, e) \in Seq(Values) /\ Len(InsertAt(u, i, e)) = Len(u) + 1
          /\ \A k \in 1 .. i - 1 : InsertAt(u, i, e)[k] = u[k]
          /\ InsertAt(u, i, e)[i] = e
          /\ \A k \in i .. Len(u) : InsertAt(u, i, e)[k + 1] = u[k]
      BY InsertAtIs
    <3>3. /\ InsertAt(u, func, e) \in Seq(Values) /\ Len(InsertAt(u, func, e)) = Len(u) + 1
          /\ \A k \in 1 .. func - 1 : InsertAt(u, func, e)[k] = u[k]
          /\ \A k \in func .. Len(u) : InsertAt(u, func, e)[k + 1] = u[k]
      BY <3>a, <3>b
    <3> QED BY <3>0, <3>2, <3>3
  <2> HIDE DEF s
  <2>3. Grown(grown, x.size, Len(s) + 1)
    <3> DEFINE n == Len(s)
    <3>1. n \in Nat /\ n + 1 + 0 = n + 1 BY <1>1, <2>2
    <3> HIDE DEF n
    <3>2. Grown(luaD_checkstack(n, 0, x.size), x.size, n + 1 + 0) BY <1>1, <3>1, CheckIs
    <3> QED BY <3>1, <3>2 DEF n
  <2> HIDE DEF grown
  <2>4. grown.size \in Nat /\ grown.size \in 0 .. ERRORSTACKSIZE /\ x.size <= grown.size
    <3>1. grown.size \in 0 .. ERRORSTACKSIZE /\ x.size <= grown.size BY <2>3 DEF Grown
    <3> QED BY <3>1, Sizes
  <2>5. /\ y \in Threads /\ y.stack = s /\ y.cis = x.cis /\ y.jmps = x.jmps
        /\ y.errfunc = x.errfunc /\ y.size = grown.size
    BY <1>1, <2>2, <2>4 DEF Threads
  <2> HIDE DEF y
  <2>same. /\ \A i \in 1 .. func - 1 : y.stack[i] = x.stack[i]
           /\ Len(y.stack) = Len(x.stack) + 1
    BY <2>2, <2>5
  <2>6. Body(y)
    <3> DEFINE n == func - 1
    <3>a. Len(x.stack) \in Nat /\ Len(y.stack) = Len(x.stack) + 1 BY <1>1, <2>same
    <3>1. n \in Nat /\ n <= Len(x.stack) /\ n <= Len(y.stack) /\ c.func <= n
      BY <1>1, <1>3, <1>4, <3>a
    <3>2. \A i \in 1 .. n : y.stack[i] = x.stack[i] BY <2>same
    <3>3. InPcall(c) /\ c.kind \in JavaKinds => c.at <= n
      <4>1. c.kind \in JavaKinds => Callee(c) = c.at + 1 BY DEF Callee, JavaKinds
      <4> QED BY <4>1, <1>3, <1>4
    <3> HIDE DEF n
    <3> QED BY <3>1, <3>2, <3>3, <2>4, <2>5, StackChanged
  <2>7. Callable(y, "java", func, nres)
    BY <1>1, <2>2, <2>5 DEF Callable
  <2>8. Faulting(y)
    <3>2. c.kind = "script" => c.top <= Len(y.stack) + 1 + MaxStackSize
      <4>1. c.top \in Nat BY <1>2, CallInfoTypes
      <4> QED BY <2>same, <4>1, <1>1, <1>4, Sizes
    <3> QED BY <2>same, <3>2, <2>5, <1>1, <1>3, <1>4 DEF Faulting
  <2>9. FramesOf(y) = FramesOf(x)
    <3>1. Waits(c) BY DEF Waits
    <3>2. /\ c.at <= Len(x.stack) + 1 /\ c.at <= Len(y.stack) + 1
          /\ \A i \in 1 .. c.at - 1 : y.stack[i] = x.stack[i]
      BY <2>same, <1>1, <1>3, <1>4
    <3> HIDE DEF c
    <3> QED BY <3>1, <3>2, <1>4, <2>5, FramesKept DEF c
  <2>10. CASE grown.err # ""
    <3>1. NoStack(y, grown.err) BY <2>1, <2>10
    <3>2. PICK err : err = grown.err OBVIOUS
    <3>3. NoStack(y, err) BY <3>1, <3>2
    <3>4. Fails(y) BY <3>3, <2>6, <2>8, NoStackMaps
    <3> QED BY <3>4, <2>9 DEF Fails
  <2>11. CASE grown.err = ""
    <3>1. Enter(y, "java", func, nres) BY <2>1, <2>11
    <3>2. Fails(y) \/ Enters(y, "java", func, nres) BY <3>1, <2>6, <2>7, <2>8, EnterMaps
    <3>3. Above(y.stack, func) = <<Java>> \o a
      <4> DEFINE l == Len(x.stack)  b == <<Java>>  t == b \o a
      <4> HIDE DEF l
      <4>0. l \in Nat /\ func \in 0 .. l /\ l = Len(x.stack) BY <1>1, <1>4 DEF l
      <4>1. a \in Seq(Values) /\ Len(a) = l - func /\ \A i \in 1 .. l - func : a[i] = x.stack[func + i]
        BY <4>0, <1>1, AboveIs
      <4>2. b \in Seq(Values) /\ Len(b) = 1 /\ b[1] = Java BY DEF Values
      <4> HIDE DEF a, b
      <4>3. /\ t \in Seq(Values) /\ Len(t) = 1 + (l - func) /\ t[1] = Java
            /\ \A i \in 1 .. l - func : t[1 + i] = x.stack[func + i]
        <5>1. /\ b \o a \in Seq(Values) /\ Len(b \o a) = Len(b) + Len(a)
              /\ \A k \in 1 .. Len(b) : (b \o a)[k] = b[k]
              /\ \A k \in 1 .. Len(a) : (b \o a)[Len(b) + k] = a[k]
          <6>1. a \in Seq(Values) /\ b \in Seq(Values) BY <4>1, <4>2
          <6> QED BY <6>1, ConcatIs
        <5> QED BY <5>1, <4>1, <4>2
      <4> HIDE DEF t
      <4>4. Len(y.stack) = l + 1 /\ y.stack \in Seq(Values) BY <2>2, <2>5, <4>0
      <4>5. Len(t) = Len(y.stack) - func /\ func \in 0 .. Len(y.stack) BY <4>0, <4>3, <4>4
      <4>6. ASSUME NEW i \in 1 .. Len(t) PROVE t[i] = y.stack[func + i]
        <5>1. func + (i - 1) \in func .. l /\ (func + (i - 1)) + 1 = func + i BY <4>0, <4>3
        <5>2. y.stack[func + i] = x.stack[func + (i - 1)]
          <6>1. PICK k \in func .. l : k = func + (i - 1) BY <5>1
          <6>2. s[k + 1] = x.stack[k] BY <2>2, <4>0
          <6> QED BY <6>1, <6>2, <5>1, <2>5
        <5>3. CASE i = 1
          <6>1. func + (i - 1) = func BY <5>3
          <6> QED BY <6>1, <5>2, <5>3, <4>3, <1>11
        <5>4. CASE i # 1
          <6>1. i - 1 \in 1 .. l - func /\ 1 + (i - 1) = i BY <5>4, <4>0, <4>3
          <6>2. t[1 + (i - 1)] = x.stack[func + (i - 1)] BY <6>1, <4>3
          <6> QED BY <6>1, <6>2, <5>2
        <5> QED BY <5>3, <5>4
      <4>7. Above(y.stack, func) = t BY <4>3, <4>4, <4>5, <4>6, AboveByElements
      <4> QED BY <4>7 DEF t, b
    <3>4. AF!Callee(f, a, nres) = AF!Frame("java", <<Java>> \o a, nres)
      BY <1>11, <1>names DEF AF!Callee
    <3>5. f \in AF!Callable BY <1>11, <1>names DEF AF!Callable
    <3>6. CASE Fails(y) BY <3>6, <2>9 DEF Fails
    <3>7. CASE Enters(y, "java", func, nres)
      BY <3>3, <3>4, <3>5, <3>7, <2>9 DEF Enters, Calls
    <3> QED BY <3>2, <3>6, <3>7
  <2> QED BY <2>10, <2>11
<1> QED BY <1>8, <1>9, <1>10, <1>11

-----------------------------------------------------------------------------
(* The innermost frame *)

\* What the frames are before a step,
LEMMA FramesNow ==
  ASSUME ApiInv
  PROVE  /\ Frames = FramesOf(Thread) /\ Frames \in Seq(Views) /\ Len(Frames) = Len(cis)
         /\ Len(cis) \in Nat \ {0} /\ Frames # <<>>
         /\ AF!Inner = Seen(stack, ci) /\ Last(Frames) = Seen(stack, ci)
         /\ \A k \in 1 .. Len(cis) : Frames[k] = Seen(stack, cis[k])
<1>1. /\ Thread \in Threads /\ Thread.stack = stack /\ Thread.cis = cis
      /\ Len(cis) \in Nat \ {0} /\ ci = cis[Len(cis)]
  BY InnermostFacts
<1>2. Frames = FramesOf(Thread) BY FramesAre
<1>3. /\ Frames \in Seq(Views) /\ Len(Frames) = Len(cis)
      /\ \A k \in 1 .. Len(cis) : Frames[k] = Seen(stack, cis[k])
  BY <1>1, <1>2, FramesOfIs
<1>4. Frames # <<>> BY <1>1, <1>3
<1>5. Last(Frames) = Seen(stack, ci) BY <1>1, <1>3 DEF Last
<1>6. AF!Inner = Last(Frames) BY SameNames DEF AF!Inner
<1> QED BY <1>1, <1>2, <1>3, <1>4, <1>5, <1>6

\* and after one that changes only the innermost.
LEMMA InnerChanges ==
  ASSUME ApiInv, ApiInv', NEW d \in CallInfo, cis' = Append(Front(cis), d),
         NEW s \in Seq(Values), stack' = s, ci.func <= Len(s) + 1,
         \A i \in 1 .. ci.func - 1 : s[i] = stack[i]
  PROVE  Frames' = Append(Front(Frames), Seen(s, d))
<1>1. /\ Body(Thread) /\ Thread.stack = stack /\ Thread.cis = cis /\ ci = Last(cis)
      /\ cis \in Seq(CallInfo) /\ cis # <<>>
  BY InnermostFacts
<1>2. Append(Front(cis), d) \in Seq(CallInfo) BY <1>1, AgainIs
<1>3. PICK w \in Threads : w.stack = s /\ w.cis = Append(Front(cis), d)
  <2> DEFINE c == Append(Front(cis), d)
             z == [stack |-> s, cis |-> c, jmps |-> <<>>, errfunc |-> 0, size |-> 0]
  <2> HIDE DEF c
  <2>1. z \in Threads BY <1>2, Sizes DEF Threads, c
  <2>2. z.stack = s /\ z.cis = c OBVIOUS
  <2> HIDE DEF z
  <2> QED BY <2>1, <2>2 DEF c
<1>4. PICK x : x = Thread OBVIOUS
<1>5. Body(x) /\ w.cis = Append(Front(x.cis), d) /\ Last(x.cis).func <= Len(w.stack) + 1
      /\ \A i \in 1 .. Last(x.cis).func - 1 : w.stack[i] = x.stack[i]
  BY <1>1, <1>3, <1>4
<1>6. FramesOf(w) = Append(Front(FramesOf(x)), Seen(w.stack, d)) BY <1>5, FramesSet
<1>7. stack' = w.stack /\ cis' = w.cis BY <1>3
<1>8. Frames' = FramesOf(w) BY <1>7, FramesNext
<1>9. Frames = FramesOf(x) BY <1>4, FramesNow
<1> QED BY <1>3, <1>6, <1>8, <1>9

\* A frame that runs sees what is above its function.
LEMMA RunningIs ==
  ASSUME ApiInv, ~raising, ci.status = "run"
  PROVE  /\ Seen(stack, ci) = [kind |-> ci.kind, vals |-> Above(stack, ci.func),
                               want |-> ci.nres, status |-> "run", exc |-> ci.exc]
         /\ ci.at = 0
<1>1. ci.at = 0 BY DEF ApiInv, Runs
<1>2. ValsOf(stack, ci) = Above(stack, ci.func) BY <1>1 DEF ValsOf, Waits, Above
<1> QED BY <1>1, <1>2 DEF Seen

\* A step that is one of the values of the Java function that runs.
LEMMA MethodMaps ==
  ASSUME ApiInv, ApiInv', JavaRuns, NEW m \in AF!Methods, NEW i, NEW j, NEW v,
         NEW s, Kept(s), stack' = s, UNCHANGED <<raising, errorHandler>>,
         NEW d \in CallInfo, cis' = Append(Front(cis), d), d.kind = ci.kind, d.func = ci.func,
         d.nres = ci.nres, d.status = ci.status, d.at = ci.at, d.exc = ci.exc,
         call' = [m |-> m, i |-> i, j |-> j, v |-> v],
         globals' = IF m \in AF!Setters THEN Last(Above(stack, ci.func)) ELSE globals,
         Above(s, ci.func) = AF!After(Above(stack, ci.func), m, i, j, v)
  PROVE  AF!Step(call')
<1>1. /\ ~raising /\ ci.kind \in JavaKinds /\ ci.status = "run" /\ ci.exc = None BY DEF JavaRuns
<1>2. /\ Seen(stack, ci) = [kind |-> ci.kind, vals |-> Above(stack, ci.func),
                            want |-> ci.nres, status |-> "run", exc |-> ci.exc]
      /\ ci.at = 0
  BY <1>1, RunningIs
<1>3. /\ ci \in CallInfo /\ ci.func \in Nat /\ cis \in Seq(CallInfo) /\ cis # <<>> /\ ci = Last(cis)
  BY InnermostFacts
<1>4. s \in Seq(Values) /\ ci.func <= Len(s) /\ \A k \in 1 .. ci.func : s[k] = stack[k]
  BY DEF Kept
<1>5. Frames' = Append(Front(Frames), Seen(s, d))
  <2>2. ci.func <= Len(s) + 1 /\ \A k \in 1 .. ci.func - 1 : s[k] = stack[k]
    BY <1>3, <1>4
  <2> QED BY <2>2, <1>4, InnerChanges
<1> DEFINE u == Above(stack, ci.func)
           t == Above(s, ci.func)
           k == ci.kind
           n == ci.nres
           g == "run"
           e == ci.exc
           r == Seen(stack, ci)
           q == Seen(s, d)
           R == [kind: {k}, vals: {u, t}, want: {n}, status: {g}, exc: {e}]
<1>6. q = [kind |-> k, vals |-> t, want |-> n, status |-> g, exc |-> e]
  <2>1. ValsOf(s, d) = t BY <1>1, <1>2 DEF ValsOf, Waits, Above
  <2> QED BY <2>1, <1>1 DEF Seen
<1>7. r = [kind |-> k, vals |-> u, want |-> n, status |-> g, exc |-> e] BY <1>2
<1>8. AF!After(u, m, i, j, v) = t OBVIOUS
<1>9. AF!Inner = r BY FramesNow
<1>10. k \in JavaKinds /\ e = None BY <1>1
<1> HIDE DEF r, q, k, n, e, u, t
<1>11. r \in R /\ q \in R BY <1>6, <1>7
<1>12. [r EXCEPT !.vals = t] = q BY <1>6, <1>7, <1>11
<1>13. r.vals = u /\ r.kind = k /\ r.exc = e /\ r.status = "run" BY <1>7
<1>14. PICK c : c = call' OBVIOUS
<1>15. c.m = m /\ c.i = i /\ c.j = j /\ c.v = v BY <1>14
<1>16. AF!SetInner([AF!Inner EXCEPT !.vals = AF!After(@, c.m, c.i, c.j, c.v)])
  <2>1. [AF!Inner EXCEPT !.vals = AF!After(@, c.m, c.i, c.j, c.v)] = [r EXCEPT !.vals = t]
    BY <1>8, <1>9, <1>13, <1>15
  <2>2. Frames' = Append(Front(Frames), [r EXCEPT !.vals = t]) BY <1>5, <1>12 DEF q
  <2> QED BY <2>1, <2>2, SameNames DEF AF!SetInner
<1>17. AF!JavaRuns BY <1>1, <1>9, <1>10, <1>13, SameNames DEF AF!JavaRuns
<1>18. globals' = IF c.m \in AF!Setters THEN AF!Last(AF!Inner.vals) ELSE globals
  BY <1>9, <1>13, <1>15, SameNames DEF u
<1>19. UNCHANGED <<errorHandler, (IF raising THEN Last(stack) ELSE None)>>
  BY <1>1
<1>20. AF!Method(c) BY <1>15, <1>16, <1>17, <1>18, <1>19 DEF AF!Method
<1> QED BY <1>14, <1>20 DEF AF!Step

\* A method that changes no more than the values.
LEMMA ValuesMap ==
  ASSUME ApiInv, ApiInv', JavaRuns, NEW m \in AF!Methods, NEW i, NEW j, NEW v,
         NEW s, Kept(s), stack' = s, UNCHANGED <<cis, raising, errorHandler>>,
         call' = [m |-> m, i |-> i, j |-> j, v |-> v],
         globals' = IF m \in AF!Setters THEN Last(Above(stack, ci.func)) ELSE globals,
         Above(s, ci.func) = AF!After(Above(stack, ci.func), m, i, j, v)
  PROVE  AF!Step(call')
<1>1. ci \in CallInfo /\ cis \in Seq(CallInfo) /\ cis # <<>> /\ ci = Last(cis) BY InnermostFacts
<1>2. cis' = Append(Front(cis), ci) BY <1>1, FrontLast
<1>3. PICK d \in CallInfo : d = ci BY <1>1
<1>4. /\ cis' = Append(Front(cis), d) /\ d.kind = ci.kind /\ d.func = ci.func
      /\ d.nres = ci.nres /\ d.status = ci.status /\ d.at = ci.at /\ d.exc = ci.exc
  BY <1>2, <1>3
<1> QED BY <1>4, MethodMaps

-----------------------------------------------------------------------------
(* The values of the function that runs *)

\* One value more,
LEMMA AboveAppend ==
  ASSUME NEW T, NEW s \in Seq(T), NEW f \in 0 .. Len(s), NEW e \in T
  PROVE  Above(Append(s, e), f) = Append(Above(s, f), e)
<1> DEFINE u == Above(s, f)  n == Len(s)
<1>1. /\ u \in Seq(T) /\ Len(u) = n - f /\ n - f \in Nat /\ \A i \in 1 .. n - f : u[i] = s[f + i]
  BY AboveIs
<1>2. /\ Append(s, e) \in Seq(T) /\ Len(Append(s, e)) = n + 1 /\ n \in Nat
      /\ \A i \in 1 .. n : Append(s, e)[i] = s[i]
      /\ Append(s, e)[n + 1] = e
  BY AppendIs
<1> HIDE DEF u
<1>3. /\ Append(u, e) \in Seq(T) /\ Len(Append(u, e)) = Len(u) + 1
      /\ \A i \in 1 .. Len(u) : Append(u, e)[i] = u[i]
      /\ Append(u, e)[Len(u) + 1] = e
  BY <1>1, AppendIs
<1>4. f \in 0 .. n /\ f \in Nat OBVIOUS
<1> DEFINE a == Append(s, e)  b == Append(u, e)
<1> HIDE DEF a, b, n
<1>5. a \in Seq(T) /\ b \in Seq(T) /\ Len(a) = n + 1 /\ Len(b) = n - f + 1 /\ n \in Nat
  BY <1>1, <1>2, <1>3 DEF a, b, n
<1>6. ASSUME NEW i \in 1 .. Len(b) PROVE b[i] = a[f + i]
  <2>1. CASE i = n - f + 1
    <3>1. f + i = n + 1 BY <2>1, <1>4, <1>5
    <3> QED BY <2>1, <3>1, <1>1, <1>2, <1>3 DEF a, b, n
  <2>2. CASE i # n - f + 1
    <3>1. i \in 1 .. n - f /\ f + i \in 1 .. n BY <2>2, <1>4, <1>5
    <3> QED BY <3>1, <1>1, <1>2, <1>3 DEF a, b, n
  <2> QED BY <2>1, <2>2
<1>7. f \in 0 .. Len(a) /\ Len(b) = Len(a) - f BY <1>4, <1>5
<1>8. Above(a, f) = b BY <1>5, <1>6, <1>7, AboveByElements
<1> QED BY <1>8 DEF a, b, u

\* some less,
LEMMA AbovePrefix ==
  ASSUME NEW T, NEW s \in Seq(T), NEW f \in 0 .. Len(s), NEW b \in f .. Len(s)
  PROVE  Above(SubSeq(s, 1, b), f) = SubSeq(Above(s, f), 1, b - f)
<1> DEFINE u == Above(s, f)  n == Len(s)  p == SubSeq(s, 1, b)  q == SubSeq(u, 1, b - f)
<1>1. /\ u \in Seq(T) /\ Len(u) = n - f /\ n - f \in Nat /\ \A i \in 1 .. n - f : u[i] = s[f + i]
  BY AboveIs
<1>2. n \in Nat /\ f \in Nat /\ b \in Nat /\ f <= b /\ b <= n /\ b \in 0 .. n OBVIOUS
<1>3. p \in Seq(T) /\ Len(p) = b /\ \A i \in 1 .. b : p[i] = s[i] BY <1>2, PrefixIs
<1> HIDE DEF u, n, p
<1>4. q \in Seq(T) /\ Len(q) = b - f /\ \A i \in 1 .. b - f : q[i] = u[i]
  <2>1. PICK m : m = b - f OBVIOUS
  <2>2. m \in 0 .. Len(u) BY <2>1, <1>1, <1>2
  <2>3. SubSeq(u, 1, m) \in Seq(T) /\ Len(SubSeq(u, 1, m)) = m /\ \A i \in 1 .. m : SubSeq(u, 1, m)[i] = u[i]
    BY <2>2, <1>1, PrefixIs
  <2> QED BY <2>1, <2>3
<1> HIDE DEF q
<1>5. ASSUME NEW i \in 1 .. Len(q) PROVE q[i] = p[f + i]
  <2>1. i \in 1 .. b - f /\ i \in 1 .. n - f /\ f + i \in 1 .. b BY <1>2, <1>4
  <2> QED BY <2>1, <1>1, <1>3, <1>4
<1>6. f \in 0 .. Len(p) /\ Len(q) = Len(p) - f BY <1>2, <1>3, <1>4
<1>7. Above(p, f) = q BY <1>3, <1>4, <1>5, <1>6, AboveByElements
<1> QED BY <1>7 DEF p, q, u, n

\* a number of them,
LEMMA AboveDrop ==
  ASSUME NEW T, NEW s \in Seq(T), NEW f \in 0 .. Len(s), NEW n \in 0 .. Len(s) - f
  PROVE  Above(SubSeq(s, 1, Len(s) - n), f) = AF!Drop(Above(s, f), n)
<1>1. Len(s) \in Nat /\ f \in Nat /\ n \in Nat OBVIOUS
<1>2. PICK b : b = Len(s) - n OBVIOUS
<1>3. b \in f .. Len(s) BY <1>1, <1>2
<1>4. Above(SubSeq(s, 1, b), f) = SubSeq(Above(s, f), 1, b - f) BY <1>3, AbovePrefix
<1>5. Len(Above(s, f)) = Len(s) - f BY AboveIs
<1>6. b - f = Len(Above(s, f)) - n BY <1>1, <1>2, <1>5
<1> QED BY <1>2, <1>4, <1>6 DEF AF!Drop

\* or the last one.
LEMMA AboveFront ==
  ASSUME NEW T, NEW s \in Seq(T), NEW f \in 0 .. Len(s) - 1
  PROVE  /\ Above(Front(s), f) = Front(Above(s, f)) /\ Last(Above(s, f)) = Last(s)
         /\ AF!Drop(Above(s, f), 1) = Front(Above(s, f)) /\ Above(s, f) # <<>>
         /\ Above(s, f) \in Seq(T) /\ Last(s) \in T
<1>1. Len(s) \in Nat /\ f \in Nat /\ f \in 0 .. Len(s) /\ 1 \in 0 .. Len(s) - f OBVIOUS
<1>2. Above(SubSeq(s, 1, Len(s) - 1), f) = AF!Drop(Above(s, f), 1) BY <1>1, AboveDrop
<1>3. AF!Drop(Above(s, f), 1) = Front(Above(s, f)) BY DEF AF!Drop, Front
<1>4. /\ Above(s, f) \in Seq(T) /\ Len(Above(s, f)) = Len(s) - f
      /\ \A i \in 1 .. Len(s) - f : Above(s, f)[i] = s[f + i]
  BY <1>1, AboveIs
<1>5. Len(s) - f \in 1 .. Len(s) - f /\ f + (Len(s) - f) = Len(s) BY <1>1
<1>6. Last(Above(s, f)) = s[f + (Len(s) - f)] BY <1>4, <1>5 DEF Last
<1>7. s[Len(s)] \in T BY <1>1
<1> QED BY <1>1, <1>2, <1>3, <1>4, <1>5, <1>6, <1>7 DEF Front, Last

\* A value in the place of another.
Put(s, p, e) == [s EXCEPT ![p] = e]

\* It is in the place of another above the function as well.
LEMMA AbovePut ==
  ASSUME NEW T, NEW s \in Seq(T), NEW f \in 0 .. Len(s), NEW p \in f + 1 .. Len(s), NEW e \in T,
         NEW k \in Int, k = p - f
  PROVE  /\ Above(Put(s, p, e), f) = Put(Above(s, f), k, e)
         /\ Put(s, p, e) \in Seq(T) /\ Len(Put(s, p, e)) = Len(s)
<1> DEFINE u == Above(s, f)  n == Len(s)  a == Put(s, p, e)  b == Put(u, k, e)
<1>1. /\ u \in Seq(T) /\ Len(u) = n - f /\ n - f \in Nat /\ \A i \in 1 .. n - f : u[i] = s[f + i]
  BY AboveIs
<1>2. n \in Nat /\ f \in Nat /\ p \in 1 .. n /\ k \in 1 .. n - f /\ f + k = p OBVIOUS
<1>3. a \in Seq(T) /\ Len(a) = n /\ a[p] = e /\ \A i \in 1 .. n : i # p => a[i] = s[i]
  BY <1>2 DEF Put
<1> HIDE DEF u, n, a
<1>4. b \in Seq(T) /\ Len(b) = n - f /\ b[k] = e /\ \A i \in 1 .. n - f : i # k => b[i] = u[i]
  BY <1>1, <1>2 DEF Put
<1> HIDE DEF b
<1>5. ASSUME NEW i \in 1 .. n - f PROVE b[i] = a[f + i]
  <2>1. CASE i = k BY <2>1, <1>2, <1>3, <1>4
  <2>2. CASE i # k
    <3>1. f + i \in 1 .. n /\ f + i # p BY <2>2, <1>2
    <3> QED BY <2>2, <3>1, <1>1, <1>3, <1>4
  <2> QED BY <2>1, <2>2
<1>6. f \in 0 .. Len(a) /\ Len(b) = Len(a) - f BY <1>2, <1>3, <1>4
<1>7. Above(a, f) = b
  <2>1. \A i \in 1 .. Len(b) : b[i] = a[f + i] BY <1>4, <1>5
  <2>2. a \in Seq(T) /\ b \in Seq(T) BY <1>3, <1>4
  <2> QED BY <2>1, <2>2, <1>6, AboveByElements
<1> QED BY <1>3, <1>7 DEF a, b, u, n
\* The slot of an index is the place of its value among those of the function.
LEMMA IndexMaps ==
  ASSUME ApiInv, JavaRuns, NEW k \in Valid, NEW u, u = Above(stack, ci.func)
  PROVE  /\ AF!Abs(u, k) = index2addr(stack, k) - ci.func /\ AF!Abs(u, k) \in 1 .. Len(u)
         /\ index2addr(stack, k) \in ci.func + 1 .. Len(stack)
         /\ Value(stack, k) = u[AF!Abs(u, k)] /\ Value(stack, k) \in Values
<1> DEFINE n == Len(stack)  f == ci.func
<1>1. /\ k \in Int /\ k # 0 /\ index2addr(stack, k) \in f + 1 .. n
      /\ Value(stack, k) = stack[index2addr(stack, k)] /\ Value(stack, k) \in Values
      /\ n \in Nat \ {0} /\ f \in 1 .. n - 1
  BY IndexIs
<1>2. stack \in Seq(Values) /\ lua_gettop = n - f BY JavaFacts
<1>3. f \in 0 .. Len(stack) BY <1>1
<1>4. Len(u) = n - f /\ \A i \in 1 .. n - f : u[i] = stack[f + i] BY <1>2, <1>3, AboveIs
<1> DEFINE p == index2addr(stack, k)
<1> HIDE DEF n, f
<1>5. p = IF k > 0 THEN IF f + k > n THEN 0 ELSE f + k ELSE n + 1 + k BY DEF index2addr, n, f
<1> HIDE DEF p
<1>6. p \in f + 1 .. n BY <1>1 DEF p
<1>7. p = IF k > 0 THEN f + k ELSE n + 1 + k BY <1>1, <1>5, <1>6
<1>8. AF!Abs(u, k) = IF k > 0 THEN k ELSE (n - f) + 1 + k BY <1>4 DEF AF!Abs
<1>9. AF!Abs(u, k) = p - f /\ p - f \in 1 .. n - f /\ f + (p - f) = p BY <1>1, <1>6, <1>7, <1>8
<1>10. u[p - f] = stack[p] BY <1>4, <1>9
<1> QED BY <1>1, <1>4, <1>6, <1>9, <1>10 DEF p, n, f

\* lua_remove takes the value at its place away.
LEMMA AboveRemove ==
  ASSUME ApiInv, JavaRuns, NEW k \in Valid, NEW u, u = Above(stack, ci.func)
  PROVE  Above(lua_remove(stack, k), ci.func) = RemoveAt(u, AF!Abs(u, k))
<1> DEFINE n == Len(stack)  f == ci.func  p == index2addr(stack, k)  a == AF!Abs(u, k)
           r == lua_remove(stack, k)  q == RemoveAt(u, a)
<1>1. a = p - f /\ a \in 1 .. Len(u) /\ p \in f + 1 .. n BY IndexMaps
<1>2. stack \in Seq(Values) /\ n \in Nat /\ f \in Nat BY JavaFacts
<1>3. f \in 0 .. Len(stack) BY <1>1, <1>2
<1>4. /\ u \in Seq(Values) /\ Len(u) = n - f /\ n - f \in Nat
      /\ \A i \in 1 .. n - f : u[i] = stack[f + i]
  BY <1>2, <1>3, AboveIs
<1>5. r = [i \in 1 .. n - 1 |-> IF i < p THEN stack[i] ELSE stack[i + 1]] BY DEF lua_remove
<1>6. Kept(r) BY RemoveKept
<1> HIDE DEF n, f, p, a, r
<1>7. /\ r \in Seq(Values) /\ Len(r) = n - 1
      /\ \A i \in 1 .. n - 1 : r[i] = IF i < p THEN stack[i] ELSE stack[i + 1]
  <2>1. r \in Seq(Values) BY <1>6 DEF Kept
  <2>2. n - 1 \in Nat BY <1>1, <1>2
  <2> QED BY <2>1, <2>2, <1>5
<1>8. /\ q \in Seq(Values) /\ Len(q) = Len(u) - 1
      /\ \A i \in 1 .. Len(u) - 1 : q[i] = IF i < a THEN u[i] ELSE u[i + 1]
  BY <1>1, <1>4, RemoveAtIs
<1> HIDE DEF q
<1>9. ASSUME NEW i \in 1 .. Len(q) PROVE q[i] = r[f + i]
  <2>1. i \in 1 .. n - f - 1 BY <1>4, <1>8
  <2>2. f + i \in 1 .. n - 1 /\ i \in 1 .. n - f /\ i + 1 \in 1 .. n - f /\ (f + i) + 1 = f + (i + 1)
    BY <2>1, <1>2, <1>4
  <2>3. f + i < p <=> i < a BY <1>1, <1>2, <2>1
  <2>4. r[f + i] = IF i < a THEN stack[f + i] ELSE stack[f + (i + 1)] BY <2>2, <2>3, <1>7
  <2>5. q[i] = IF i < a THEN u[i] ELSE u[i + 1] BY <1>8
  <2>6. u[i] = stack[f + i] /\ u[i + 1] = stack[f + (i + 1)] BY <2>2, <1>4
  <2> QED BY <2>4, <2>5, <2>6
<1>10. f \in 0 .. Len(r) /\ Len(q) = Len(r) - f BY <1>1, <1>2, <1>4, <1>7, <1>8
<1>11. Above(r, f) = q BY <1>7, <1>8, <1>9, <1>10, AboveByElements
<1> QED BY <1>11 DEF r, f, q, a

\* lua_insert moves the last value to its place.
LEMMA AboveInsert ==
  ASSUME ApiInv, JavaRuns, NEW k \in Valid, NEW u, u = Above(stack, ci.func)
  PROVE  Above(lua_insert(stack, k), ci.func) = InsertAt(Front(u), AF!Abs(u, k), Last(u))
<1> DEFINE n == Len(stack)  f == ci.func  p == index2addr(stack, k)  a == AF!Abs(u, k)
           r == lua_insert(stack, k)  v == Front(u)  e == Last(u)  q == InsertAt(v, a, e)
<1>1. a = p - f /\ a \in 1 .. Len(u) /\ p \in f + 1 .. n BY IndexMaps
<1>2. stack \in Seq(Values) /\ n \in Nat /\ f \in Nat BY JavaFacts
<1>3. f \in 0 .. Len(stack) /\ f \in 0 .. Len(stack) - 1 BY <1>1, <1>2
<1>4. /\ u \in Seq(Values) /\ Len(u) = n - f /\ n - f \in Nat \ {0}
      /\ \A i \in 1 .. n - f : u[i] = stack[f + i]
  <2>1. n - f \in Nat \ {0} BY <1>1, <1>2
  <2> QED BY <2>1, <1>2, <1>3, AboveIs
<1>5. e = Last(stack) /\ e \in Values BY <1>2, <1>3, AboveFront
<1>6. r = [i \in 1 .. n |-> IF i > p THEN stack[i - 1] ELSE IF i = p THEN Last(stack) ELSE stack[i]]
  BY DEF lua_insert
<1>7. Kept(r) BY InsertKept
<1>8. v \in Seq(Values) /\ Len(v) = Len(u) - 1 /\ \A i \in 1 .. Len(u) - 1 : v[i] = u[i]
  <2>1. u # <<>> BY <1>4
  <2> QED BY <2>1, <1>4, FrontIs
<1> HIDE DEF n, f, p, a, r, v, e
<1>9. /\ r \in Seq(Values) /\ Len(r) = n
      /\ \A i \in 1 .. n : r[i] = IF i > p THEN stack[i - 1] ELSE IF i = p THEN e ELSE stack[i]
  <2>1. r \in Seq(Values) BY <1>7 DEF Kept
  <2> QED BY <2>1, <1>2, <1>5, <1>6
<1>10. /\ q \in Seq(Values) /\ Len(q) = Len(v) + 1
       /\ \A i \in 1 .. a - 1 : q[i] = v[i]
       /\ q[a] = e
       /\ \A i \in a .. Len(v) : q[i + 1] = v[i]
  <2>1. a \in 1 .. Len(v) + 1 /\ v \in Seq(Values) /\ e \in Values BY <1>1, <1>4, <1>5, <1>8
  <2> HIDE DEF q
  <2>2. /\ InsertAt(v, a, e) \in Seq(Values) /\ Len(InsertAt(v, a, e)) = Len(v) + 1
        /\ \A i \in 1 .. a - 1 : InsertAt(v, a, e)[i] = v[i]
        /\ InsertAt(v, a, e)[a] = e
        /\ \A i \in a .. Len(v) : InsertAt(v, a, e)[i + 1] = v[i]
    BY <2>1, InsertAtIs
  <2> QED BY <2>2 DEF q
<1> HIDE DEF q
<1>11. ASSUME NEW i \in 1 .. Len(q) PROVE q[i] = r[f + i]
  <2>1. i \in 1 .. n - f /\ f + i \in 1 .. n BY <1>2, <1>4, <1>8, <1>10
  <2>2. (f + i > p <=> i > a) /\ (f + i = p <=> i = a) BY <1>1, <1>2, <2>1
  <2>3. r[f + i] = IF i > a THEN stack[f + i - 1] ELSE IF i = a THEN e ELSE stack[f + i]
    <3>1. PICK j \in 1 .. n : j = f + i BY <2>1
    <3>2. r[j] = IF j > p THEN stack[j - 1] ELSE IF j = p THEN e ELSE stack[j] BY <1>9
    <3>a. j > p <=> i > a BY <3>1, <2>2
    <3>b. j = p <=> i = a BY <3>1, <2>2
    <3>c. f + i - 1 = j - 1
      <4>1. i \in Int /\ f \in Int BY <2>1, <1>2
      <4> QED BY <3>1, <4>1
    <3>3. (j > p <=> i > a) /\ (j = p <=> i = a) /\ f + i - 1 = j - 1 BY <3>a, <3>b, <3>c
    <3>4. r[j] = IF i > a THEN stack[j - 1] ELSE IF i = a THEN e ELSE stack[j] BY <3>2, <3>3
    <3> QED BY <3>1, <3>3, <3>4
  <2>4. CASE i = a BY <2>3, <2>4, <1>10
  <2>5. CASE i < a
    <3>1. i \in 1 .. a - 1 /\ i \in 1 .. n - f - 1 /\ ~(i > a) /\ i # a BY <2>1, <2>5, <1>1, <1>4
    <3> QED BY <3>1, <2>1, <2>3, <1>4, <1>8, <1>10
  <2>6. CASE i > a
    <3>1. PICK h \in Nat : h = i - 1 BY <2>1
    <3>2. h \in a .. n - f - 1 /\ h + 1 = i /\ f + i - 1 = f + h /\ h \in 1 .. n - f
      BY <2>1, <2>6, <3>1, <1>1, <1>2, <1>4
    <3>3. q[h + 1] = v[h] /\ v[h] = u[h] /\ u[h] = stack[f + h] BY <3>2, <1>1, <1>4, <1>8, <1>10
    <3> QED BY <3>2, <3>3, <2>3, <2>6
  <2>7. a \in Int /\ i \in Int BY <1>1
  <2> QED BY <2>4, <2>5, <2>6, <2>7
<1>12. f \in 0 .. Len(r) /\ Len(q) = Len(r) - f BY <1>1, <1>2, <1>4, <1>8, <1>9, <1>10
<1>13. Above(r, f) = q BY <1>9, <1>10, <1>11, <1>12, AboveByElements
<1> QED BY <1>13 DEF r, f, q, a, v, e
-----------------------------------------------------------------------------
(* The methods *)

\* The values of the Java function that runs.
LEMMA ValuesNow ==
  ASSUME ApiInv, JavaRuns, NEW u, u = Above(stack, ci.func)
  PROVE  /\ stack \in Seq(Values) /\ ci.func \in 0 .. Len(stack) /\ Len(stack) \in Nat
         /\ u \in Seq(Values) /\ Len(u) = lua_gettop /\ lua_gettop \in Nat
         /\ lua_gettop = Len(stack) - ci.func
<1>1. /\ stack \in Seq(Values) /\ Len(stack) \in Nat /\ ci.func \in Nat /\ ci.func <= Len(stack)
      /\ lua_gettop = Len(stack) - ci.func /\ lua_gettop \in Nat
  BY JavaFacts
<1>2. ci.func \in 0 .. Len(stack) BY <1>1
<1>3. u \in Seq(Values) /\ Len(u) = Len(stack) - ci.func BY <1>1, <1>2, AboveIs
<1> QED BY <1>1, <1>2, <1>3

\* The last of them.
LEMMA LastNow ==
  ASSUME ApiInv, JavaRuns, Has(1), NEW u, u = Above(stack, ci.func)
  PROVE  /\ Above(Front(stack), ci.func) = Front(u) /\ Last(u) = Last(stack)
         /\ AF!Drop(u, 1) = Front(u) /\ u # <<>> /\ Last(stack) \in Values
         /\ Kept(Front(stack)) /\ ci.func \in 0 .. Len(Front(stack))
<1>1. stack \in Seq(Values) /\ ci.func \in 0 .. Len(stack) /\ lua_gettop = Len(stack) - ci.func
      /\ Len(stack) \in Nat
  BY ValuesNow
<1>2. ci.func \in 0 .. Len(stack) - 1 BY <1>1 DEF Has
<1>3. Kept(Front(stack)) BY FrontKept
<1>4. Len(Front(stack)) = Len(stack) - 1
  <2>1. stack # <<>> BY <1>1, <1>2
  <2> QED BY <2>1, <1>1, FrontIs
<1> QED BY <1>1, <1>2, <1>3, <1>4, AboveFront

\* A method that leaves s as the stack.
LEMMA LeavesMap ==
  ASSUME ApiInv, ApiInv', JavaRuns, NEW m \in AF!Methods, m \notin AF!Setters,
         NEW i, NEW j, NEW v, NEW s, Kept(s), Method(m, i, j, v, Leaves(s)),
         Above(s, ci.func) = AF!After(Above(stack, ci.func), m, i, j, v)
  PROVE  AF!Step(call')
<1>1. /\ stack' = s /\ UNCHANGED <<cis, raising, errorHandler>>
      /\ call' = [m |-> m, i |-> i, j |-> j, v |-> v]
      /\ globals' = globals
  BY DEF Method, Calling, Leaves
<1>2. globals' = IF m \in AF!Setters THEN Last(Above(stack, ci.func)) ELSE globals BY <1>1
<1> QED BY <1>1, <1>2, ValuesMap

\* A method that also takes the last value for the global.
LEMMA StoresMap ==
  ASSUME ApiInv, ApiInv', JavaRuns, Has(1), NEW m \in AF!Setters,
         NEW i, NEW j, NEW v, NEW s, Kept(s), Method(m, i, j, v, Stores(s, Last(stack))),
         Above(s, ci.func) = AF!After(Above(stack, ci.func), m, i, j, v)
  PROVE  AF!Step(call')
<1>1. /\ stack' = s /\ UNCHANGED <<cis, raising, errorHandler>>
      /\ call' = [m |-> m, i |-> i, j |-> j, v |-> v]
      /\ globals' = Last(stack)
  BY DEF Method, Calling, Stores
<1>2. Last(Above(stack, ci.func)) = Last(stack) BY LastNow
<1>3. globals' = IF m \in AF!Setters THEN Last(Above(stack, ci.func)) ELSE globals
  BY <1>1, <1>2
<1>4. m \in AF!Methods BY DEF AF!Methods
<1> QED BY <1>1, <1>3, <1>4, ValuesMap

\* The methods that take an index of a value.
LEMMA IndexedMap ==
  ASSUME ApiInv, ApiInv', JavaRuns, NEW k \in Valid,
         luaInsert(k) \/ luaRemove(k) \/ luaReplace(k) \/ luaTostring(k)
           \/ \E k2 \in Valid : luaCopy(k, k2)
  PROVE  AF!Step(call')
<1> DEFINE f == ci.func  u == Above(stack, f)  a == AF!Abs(u, k)  p == index2addr(stack, k)
<1>0. /\ stack \in Seq(Values) /\ f \in 0 .. Len(stack) /\ Len(stack) \in Nat
      /\ u \in Seq(Values) /\ Len(u) = lua_gettop /\ lua_gettop \in Nat
  BY ValuesNow
<1>1. /\ a = p - f /\ a \in 1 .. Len(u) /\ p \in f + 1 .. Len(stack)
      /\ Value(stack, k) = u[a] /\ Value(stack, k) \in Values
  BY IndexMaps
<1>2. Has(1) BY <1>0, <1>1 DEF Has
<1>3. Last(u) = Last(stack) /\ Last(stack) \in Values BY <1>2, LastNow
<1>4. \A e \in Values : /\ Above(moveto(stack, e, k), f) = Put(u, a, e)
                        /\ moveto(stack, e, k) \in Seq(Values)
                        /\ Len(moveto(stack, e, k)) = Len(stack)
  <2> TAKE e \in Values
  <2>1. moveto(stack, e, k) = Put(stack, p, e) BY DEF moveto, Put
  <2>2. a \in Int BY <1>1
  <2> HIDE DEF a, p, f
  <2>3. u = Above(stack, f) OBVIOUS
  <2> HIDE DEF u
  <2>4. /\ Above(Put(stack, p, e), f) = Put(Above(stack, f), a, e)
        /\ Put(stack, p, e) \in Seq(Values) /\ Len(Put(stack, p, e)) = Len(stack)
    BY <1>0, <1>1, <2>2, AbovePut
  <2> QED BY <2>1, <2>3, <2>4
<1> HIDE DEF p
<1>5. CASE luaInsert(k)
  <2>1. Method("luaInsert", k, 0, None, Leaves(lua_insert(stack, k))) BY <1>5, Asks DEF luaInsert
  <2>2. Kept(lua_insert(stack, k)) BY InsertKept
  <2>3. Above(lua_insert(stack, k), f) = InsertAt(Front(u), a, Last(u)) BY AboveInsert
  <2>4. AF!After(u, "luaInsert", k, 0, None) = InsertAt(Front(u), a, Last(u))
    BY SameNames DEF AF!After
  <2>5. "luaInsert" \in AF!Methods /\ "luaInsert" \notin AF!Setters BY DEF AF!Methods, AF!Setters
  <2> QED BY <2>1, <2>2, <2>3, <2>4, <2>5, LeavesMap
<1>6. CASE luaRemove(k)
  <2>1. Method("luaRemove", k, 0, None, Leaves(lua_remove(stack, k))) BY <1>6, Asks DEF luaRemove
  <2>2. Kept(lua_remove(stack, k)) BY RemoveKept
  <2>3. Above(lua_remove(stack, k), f) = RemoveAt(u, a) BY AboveRemove
  <2>4. AF!After(u, "luaRemove", k, 0, None) = RemoveAt(u, a) BY SameNames DEF AF!After
  <2>5. "luaRemove" \in AF!Methods /\ "luaRemove" \notin AF!Setters BY DEF AF!Methods, AF!Setters
  <2> QED BY <2>1, <2>2, <2>3, <2>4, <2>5, LeavesMap
<1>7. CASE luaReplace(k)
  <2>1. Method("luaReplace", k, 0, None, Leaves(lua_replace(stack, k))) BY <1>7, Asks DEF luaReplace
  <2> DEFINE s == moveto(stack, Last(stack), k)
  <2>2. Kept(s) /\ Len(s) = Len(stack) BY <1>3, MovetoKept
  <2>3. Above(s, f) = Put(u, a, Last(u)) /\ s \in Seq(Values) BY <1>3, <1>4
  <2>4. lua_replace(stack, k) = Front(s) BY DEF lua_replace
  <2> HIDE DEF s
  <2>5. f \in 0 .. Len(s) - 1 BY <1>0, <1>1, <2>2
  <2>6. Above(Front(s), f) = Front(Put(u, a, Last(u))) BY <2>3, <2>5, AboveFront
  <2>7. Kept(Front(s))
    <3>1. Len(s) - 1 \in f .. Len(s) BY <1>0, <2>5
    <3>2. Kept(SubSeq(s, 1, Len(s) - 1)) BY <2>2, <3>1, PrefixKept
    <3> QED BY <3>2 DEF Front
  <2>8. AF!After(u, "luaReplace", k, 0, None) = Front(Put(u, a, Last(u)))
    BY SameNames DEF AF!After, Put
  <2>9. "luaReplace" \in AF!Methods /\ "luaReplace" \notin AF!Setters BY DEF AF!Methods, AF!Setters
  <2> QED BY <2>1, <2>4, <2>6, <2>7, <2>8, <2>9, LeavesMap
<1>8. CASE luaTostring(k)
  <2> DEFINE s == lua_tolstring(stack, k)
  <2>1. Method("luaTostring", k, 0, None, Leaves(s))
    <3>1. _xapi(49, k).s = s /\ _xapi(49, k).g = globals BY AsksMore
    <3>2. Method("luaTostring", k, 0, None, _xapi(49, k)) BY <1>8 DEF luaTostring
    <3> QED BY <3>1, <3>2 DEF Method, Leaves
  <2>2. Numeral \in Values /\ AF!Num = Num /\ AF!Numeral = Numeral
    BY SameNames DEF Values, Strings
  <2>3. Kept(s)
    <3>1. Kept(moveto(stack, Numeral, k)) BY <2>2, MovetoKept
    <3> QED BY <3>1, StackKept DEF lua_tolstring
  <2>4. AF!After(u, "luaTostring", k, 0, None) = Put(u, a, IF u[a] = Num THEN Numeral ELSE u[a])
    BY <2>2 DEF AF!After, AF!ToStr, Put
  <2>5. Above(s, f) = Put(u, a, IF u[a] = Num THEN Numeral ELSE u[a])
    <3>1. CASE u[a] = Num
      <4>1. s = moveto(stack, Numeral, k) BY <1>1, <3>1 DEF lua_tolstring
      <4> QED BY <4>1, <3>1, <1>4, <2>2
    <3>2. CASE u[a] # Num
      <4>1. s = stack BY <1>1, <3>2 DEF lua_tolstring
      <4> HIDE DEF u, a
      <4>2. Put(u, a, u[a]) = u BY <1>0, <1>1 DEF Put
      <4> QED BY <4>1, <4>2, <3>2 DEF u
    <3> QED BY <3>1, <3>2
  <2>6. "luaTostring" \in AF!Methods /\ "luaTostring" \notin AF!Setters BY DEF AF!Methods, AF!Setters
  <2> HIDE DEF s
  <2> QED BY <2>1, <2>3, <2>4, <2>5, <2>6, LeavesMap
<1>9. ASSUME NEW k2 \in Valid, luaCopy(k, k2) PROVE AF!Step(call')
  <2> DEFINE b == AF!Abs(u, k2)  q == index2addr(stack, k2)  e == Value(stack, k)
             s == lua_copy(stack, k, k2)
  <2>1. Method("luaCopy", k, k2, None, Leaves(s)) BY <1>9, Asks DEF luaCopy
  <2>2. b = q - f /\ b \in 1 .. Len(u) /\ q \in f + 1 .. Len(stack) BY IndexMaps
  <2>3. s = Put(stack, q, e) BY DEF lua_copy, moveto, Put
  <2>4. Kept(s) BY <1>1, MovetoKept DEF lua_copy
  <2>5. AF!After(u, "luaCopy", k, k2, None) = Put(u, b, e)
    <3>1. AF!After(u, "luaCopy", k, k2, None) = Put(u, b, u[a]) BY DEF AF!After, Put
    <3> QED BY <3>1, <1>1
  <2>6. Above(s, f) = Put(u, b, e)
    <3>1. b \in Int /\ e \in Values BY <1>1, <2>2
    <3> HIDE DEF s, b, q, e, f
    <3>2. Above(Put(stack, q, e), f) = Put(Above(stack, f), b, e) BY <1>0, <2>2, <3>1, AbovePut
    <3> QED BY <3>2, <2>3
  <2>7. "luaCopy" \in AF!Methods /\ "luaCopy" \notin AF!Setters BY DEF AF!Methods, AF!Setters
  <2> HIDE DEF s
  <2> QED BY <2>1, <2>4, <2>5, <2>6, <2>7, LeavesMap
<1> QED BY <1>5, <1>6, <1>7, <1>8, <1>9
\* The methods of the table.
LEMMA TableMaps ==
  ASSUME ApiInv, ApiInv', JavaRuns, NEW k \in Valid,
         \/ luaNext(k) /\ Room(1)
         \/ luaGettable(k) \/ luaRawget(k) \/ luaSetfield(k)
         \/ Has(2) /\ luaRawset(k)
  PROVE  AF!Step(call')
<1> DEFINE f == ci.func  u == Above(stack, f)
<1>0. /\ stack \in Seq(Values) /\ f \in 0 .. Len(stack) /\ Len(stack) \in Nat
      /\ u \in Seq(Values) /\ Len(u) = lua_gettop /\ lua_gettop \in Nat
      /\ lua_gettop = Len(stack) - f
  BY ValuesNow
<1>h. Has(1) /\ globals \in Values
  <2>1. lua_gettop >= 1 BY IndexIs
  <2> QED BY <2>1, JavaFacts DEF Has
<1>1. /\ Above(Front(stack), f) = Front(u) /\ Last(u) = Last(stack)
      /\ AF!Drop(u, 1) = Front(u) /\ u # <<>> /\ Last(stack) \in Values
      /\ Kept(Front(stack)) /\ f \in 0 .. Len(Front(stack))
  BY <1>h, LastNow
<1>2. Field(Last(stack)) \in Values /\ Field(Last(stack)) = AF!Get(Last(u))
  BY <1>h, <1>1, SameNames DEF Field, AF!Get, Values
<1>3. \A v \in Values : /\ Kept(Append(Front(stack), v))
                        /\ Above(Append(Front(stack), v), f) = Append(Front(u), v)
  <2> TAKE v \in Values
  <2>1. Kept(Append(Front(stack), v)) BY <1>h, FrontKept
  <2>2. Front(stack) \in Seq(Values) BY <1>1 DEF Kept
  <2> HIDE DEF f
  <2>3. Above(Append(Front(stack), v), f) = Append(Above(Front(stack), f), v)
    BY <2>2, <1>1, AboveAppend
  <2> QED BY <2>1, <2>3, <1>1
<1>4. CASE luaNext(k) /\ Room(1)
  <2>1. Method("luaNext", k, 0, None, Leaves(lua_next(stack))) BY <1>4, Asks DEF luaNext
  <2> DEFINE s == Append(Front(stack), Str)
  <2>2. Str \in Values /\ AF!Str = Str /\ AF!Nil = Nil BY SameNames DEF Values, Strings
  <2>3. Kept(s) /\ Above(s, f) = Append(Front(u), Str) BY <2>2, <1>3
  <2>4. Len(s) = Len(stack) /\ s \in Seq(Values)
    <3>1. Front(stack) \in Seq(Values) /\ Len(Front(stack)) = Len(stack) - 1
      <4>1. stack \in Seq(Values) /\ stack # <<>> BY JavaFacts
      <4> QED BY <4>1, FrontIs
    <3>2. Len(s) = Len(Front(stack)) + 1 /\ s \in Seq(Values) BY <2>2, <3>1, AppendIs
    <3> QED BY <3>1, <3>2, <1>0
  <2> HIDE DEF s
  <2>5. s \o <<globals>> = Append(s, globals) BY <1>h, <2>4
  <2>6. Kept(Append(s, globals))
    <3>1. Len(s) + 2 <= ci.top
      <4>1. ci.top \in Nat /\ Len(stack) \in Nat BY JavaFacts
      <4> QED BY <4>1, <2>4, <1>4 DEF Room, Top
    <3> QED BY <3>1, <2>3, <1>h, AppendKept
  <2>7. Above(Append(s, globals), f) = Append(Append(Front(u), Str), globals)
    <3>1. f \in 0 .. Len(s) BY <1>0, <2>4
    <3> HIDE DEF f
    <3>2. Above(Append(s, globals), f) = Append(Above(s, f), globals)
      BY <3>1, <1>h, <2>4, AboveAppend
    <3> QED BY <3>2, <2>3
  <2>8. Front(u) \o <<Str, globals>> = Append(Append(Front(u), Str), globals)
    <3> DEFINE w == Front(u)
    <3>1. w \in Seq(Values) BY <1>0, <1>1, FrontIs
    <3> HIDE DEF w
    <3>2. w \o <<Str, globals>> = Append(Append(w, Str), globals) BY <3>1, <1>h, <2>2
    <3> QED BY <3>2 DEF w
  <2>9. AF!After(u, "luaNext", k, 0, None)
          = IF Last(u) = Nil /\ globals # Nil THEN Front(u) \o <<Str, globals>> ELSE Front(u)
    BY <2>2, SameNames DEF AF!After
  <2>10. "luaNext" \in AF!Methods /\ "luaNext" \notin AF!Setters BY DEF AF!Methods, AF!Setters
  <2>11. CASE Last(stack) = Nil /\ globals # Nil
    <3>1. lua_next(stack) = Append(s, globals) BY <2>5, <2>11 DEF lua_next, s
    <3>2. AF!After(u, "luaNext", k, 0, None) = Append(Append(Front(u), Str), globals)
      BY <2>8, <2>9, <2>11, <1>1
    <3> QED BY <2>1, <2>6, <2>7, <2>10, <3>1, <3>2, LeavesMap
  <2>12. CASE ~(Last(stack) = Nil /\ globals # Nil)
    <3>1. lua_next(stack) = Front(stack) BY <2>12 DEF lua_next
    <3>2. AF!After(u, "luaNext", k, 0, None) = Front(u) BY <2>9, <2>12, <1>1
    <3> QED BY <1>1, <2>1, <2>10, <3>1, <3>2, LeavesMap
  <2> QED BY <2>11, <2>12
<1>5. CASE luaGettable(k)
  <2> DEFINE s == Append(Front(stack), Field(Last(stack)))
  <2>1. Method("luaGettable", k, 0, None, Leaves(s)) BY <1>5, Asks DEF luaGettable, lua_gettable
  <2>2. Kept(s) /\ Above(s, f) = Append(Front(u), AF!Get(Last(u))) BY <1>2, <1>3
  <2>3. AF!After(u, "luaGettable", k, 0, None) = Append(Front(u), AF!Get(Last(u)))
    BY SameNames DEF AF!After
  <2>4. "luaGettable" \in AF!Methods /\ "luaGettable" \notin AF!Setters BY DEF AF!Methods, AF!Setters
  <2> HIDE DEF s
  <2> QED BY <2>1, <2>2, <2>3, <2>4, LeavesMap
<1>6. CASE luaRawget(k)
  <2> DEFINE s == Append(Front(stack), Field(Last(stack)))
  <2>1. Method("luaRawget", k, 0, None, Leaves(s)) BY <1>6, Asks DEF luaRawget, lua_rawget
  <2>2. Kept(s) /\ Above(s, f) = Append(Front(u), AF!Get(Last(u))) BY <1>2, <1>3
  <2>3. AF!After(u, "luaRawget", k, 0, None) = Append(Front(u), AF!Get(Last(u)))
    BY SameNames DEF AF!After
  <2>4. "luaRawget" \in AF!Methods /\ "luaRawget" \notin AF!Setters BY DEF AF!Methods, AF!Setters
  <2> HIDE DEF s
  <2> QED BY <2>1, <2>2, <2>3, <2>4, LeavesMap
<1>7. CASE luaSetfield(k)
  <2>1. Method("luaSetfield", k, 0, None, Stores(Front(stack), Last(stack)))
    BY <1>7, AsksMore DEF luaSetfield
  <2>2. AF!After(u, "luaSetfield", k, 0, None) = AF!Drop(u, 1) BY DEF AF!After
  <2>3. "luaSetfield" \in AF!Setters BY DEF AF!Setters
  <2>4. Above(Front(stack), f) = AF!After(u, "luaSetfield", k, 0, None) BY <2>2, <1>1
  <2> QED BY <2>1, <2>3, <2>4, <1>h, <1>1, StoresMap
<1>8. CASE Has(2) /\ luaRawset(k)
  <2> DEFINE s == SubSeq(stack, 1, Len(stack) - 2)
  <2>1. Method("luaRawset", k, 0, None, Stores(s, Last(stack))) BY <1>8, Asks DEF luaRawset, lua_rawset
  <2>2. 2 \in 0 .. lua_gettop BY <1>8, <1>0 DEF Has
  <2>3. Kept(s) BY <2>2, PoppedKept
  <2>4. Above(s, f) = AF!Drop(u, 2)
    <3>1. 2 \in 0 .. Len(stack) - f BY <1>0, <2>2
    <3> HIDE DEF f
    <3> QED BY <3>1, <1>0, AboveDrop
  <2>5. AF!After(u, "luaRawset", k, 0, None) = AF!Drop(u, 2) BY DEF AF!After
  <2>6. "luaRawset" \in AF!Setters BY DEF AF!Setters
  <2> HIDE DEF s
  <2> QED BY <2>1, <2>3, <2>4, <2>5, <2>6, <1>h, StoresMap
<1> QED BY <1>4, <1>5, <1>6, <1>7, <1>8

\* The methods that take values off the top.
LEMMA PoppingMaps ==
  ASSUME ApiInv, ApiInv', JavaRuns, NEW n \in 0 .. lua_gettop,
         \/ luaPop(n) \/ luaSettop(-n - 1)
         \/ n = 1 /\ luaOp(LUA_OPUNM)
         \/ n = 2 /\ luaOp(0)
         \/ n >= 1 /\ luaConcat(n)
  PROVE  AF!Step(call')
<1> DEFINE f == ci.func  u == Above(stack, f)  s == SubSeq(stack, 1, Len(stack) - n)
<1>0. /\ stack \in Seq(Values) /\ f \in 0 .. Len(stack) /\ Len(stack) \in Nat
      /\ u \in Seq(Values) /\ Len(u) = lua_gettop /\ lua_gettop \in Nat
      /\ lua_gettop = Len(stack) - f /\ n \in Nat
  BY ValuesNow
<1>1. Kept(s) /\ (n > 0 => \A v \in Values : Kept(Append(s, v))) BY PoppedKept
<1>2. Above(s, f) = AF!Drop(u, n)
  <2>1. n \in 0 .. Len(stack) - f BY <1>0
  <2> HIDE DEF f
  <2> QED BY <2>1, <1>0, AboveDrop
<1>3. s \in Seq(Values) /\ f \in 0 .. Len(s)
  <2>1. s \in Seq(Values) /\ f <= Len(s) BY <1>1 DEF Kept
  <2> QED BY <2>1, <1>0
<1>4. \A v \in Values : Above(Append(s, v), f) = Append(AF!Drop(u, n), v)
  <2> TAKE v \in Values
  <2> HIDE DEF f, s
  <2>1. Above(Append(s, v), f) = Append(Above(s, f), v) BY <1>3, AboveAppend
  <2> QED BY <2>1, <1>2
<1>5. lua_settop(stack, -n - 1) = s
  <2>1. ~(-n - 1 >= 0) /\ Len(stack) + (-n - 1) + 1 = Len(stack) - n BY <1>0
  <2> QED BY <2>1 DEF lua_settop
<1>6. Num \in Values /\ Str \in Values /\ AF!Num = Num /\ AF!Str = Str
  BY SameNames DEF Values, Strings
<1> HIDE DEF s
<1>7. CASE luaPop(n)
  <2>1. Method("luaPop", n, 0, None, Leaves(s)) BY <1>5, <1>7, Asks DEF luaPop, lua_pop
  <2>2. AF!After(u, "luaPop", n, 0, None) = AF!Drop(u, n) BY DEF AF!After
  <2>3. "luaPop" \in AF!Methods /\ "luaPop" \notin AF!Setters BY DEF AF!Methods, AF!Setters
  <2> QED BY <1>1, <1>2, <2>1, <2>2, <2>3, LeavesMap
<1>8. CASE luaSettop(-n - 1)
  <2> DEFINE i == -n - 1
  <2>1. Method("luaSettop", i, 0, None, Leaves(s)) BY <1>5, <1>8, Asks DEF luaSettop
  <2>2. AF!After(u, "luaSettop", i, 0, None) = AF!Drop(u, n)
    <3>1. ~(i >= 0) /\ Len(u) + 1 + i = Len(u) - n BY <1>0
    <3>2. AF!After(u, "luaSettop", i, 0, None) = AF!Pad(u, IF i >= 0 THEN i ELSE Len(u) + 1 + i)
      BY DEF AF!After
    <3>3. AF!After(u, "luaSettop", i, 0, None) = AF!Pad(u, Len(u) - n) BY <3>1, <3>2
    <3> HIDE DEF u, i
    <3>4. AF!Pad(u, Len(u) - n) = AF!Drop(u, n)
      <4> DEFINE m == Len(u) - n
      <4>1. m \in 0 .. Len(u) /\ Len(u) \in Nat BY <1>0
      <4> HIDE DEF m
      <4>2. AF!Pad(u, m) = [h \in 1 .. m |-> u[h]] BY <4>1 DEF AF!Pad
      <4>3. SubSeq(u, 1, m) = [h \in 1 .. m |-> u[h]]
        <5>1. SubSeq(u, 1, m) \in Seq(Values) /\ Len(SubSeq(u, 1, m)) = m /\ \A h \in 1 .. m : SubSeq(u, 1, m)[h] = u[h]
          BY <4>1, <1>0, PrefixIs
        <5>2. DOMAIN SubSeq(u, 1, m) = 1 .. m BY <5>1
        <5> QED BY <5>1, <5>2
      <4> QED BY <4>2, <4>3 DEF AF!Drop, m
    <3> QED BY <3>3, <3>4
  <2>3. "luaSettop" \in AF!Methods /\ "luaSettop" \notin AF!Setters BY DEF AF!Methods, AF!Setters
  <2> HIDE DEF i
  <2> QED BY <1>1, <1>2, <2>1, <2>2, <2>3, LeavesMap
<1>9. CASE n = 1 /\ luaOp(LUA_OPUNM)
  <2>1. Method("luaOp", LUA_OPUNM, 0, None, Leaves(Append(s, Num)))
    BY <1>9, Asks DEF luaOp, lua_arith, s
  <2>2. AF!After(u, "luaOp", LUA_OPUNM, 0, None) = Append(AF!Drop(u, n), Num)
    BY <1>6, <1>9 DEF AF!After, LUA_OPUNM
  <2>3. "luaOp" \in AF!Methods /\ "luaOp" \notin AF!Setters BY DEF AF!Methods, AF!Setters
  <2>4. Kept(Append(s, Num)) BY <1>1, <1>6, <1>9
  <2> QED BY <1>4, <1>6, <2>1, <2>2, <2>3, <2>4, LeavesMap
<1>10. CASE n = 2 /\ luaOp(0)
  <2>1. Method("luaOp", 0, 0, None, Leaves(Append(s, Num)))
    BY <1>10, Asks DEF luaOp, lua_arith, s, LUA_OPUNM
  <2>2. AF!After(u, "luaOp", 0, 0, None) = Append(AF!Drop(u, n), Num) BY <1>6, <1>10 DEF AF!After
  <2>3. "luaOp" \in AF!Methods /\ "luaOp" \notin AF!Setters BY DEF AF!Methods, AF!Setters
  <2>4. Kept(Append(s, Num)) BY <1>1, <1>6, <1>10
  <2> QED BY <1>4, <1>6, <2>1, <2>2, <2>3, <2>4, LeavesMap
<1>11. CASE n >= 1 /\ luaConcat(n)
  <2>1. Method("luaConcat", n, 0, None, Leaves(lua_concat(stack, n))) BY <1>11, Asks DEF luaConcat
  <2>2. "luaConcat" \in AF!Methods /\ "luaConcat" \notin AF!Setters BY DEF AF!Methods, AF!Setters
  <2>3. AF!After(u, "luaConcat", n, 0, None) = IF n = 1 THEN u ELSE Append(AF!Drop(u, n), Str)
    BY <1>6 DEF AF!After
  <2>4. CASE n >= 2
    <3>1. lua_concat(stack, n) = Append(s, Str) BY <2>4 DEF lua_concat, s
    <3>2. n # 1 /\ n > 0 BY <2>4, <1>0
    <3>3. Kept(Append(s, Str)) BY <1>1, <1>6, <3>2
    <3> QED BY <1>4, <1>6, <2>1, <2>2, <2>3, <3>1, <3>2, <3>3, LeavesMap
  <2>5. CASE ~(n >= 2)
    <3>1. n = 1 BY <2>5, <1>0, <1>11
    <3>2. lua_concat(stack, n) = stack BY <3>1 DEF lua_concat
    <3> QED BY <2>1, <2>2, <2>3, <3>1, <3>2, StackKept, LeavesMap
  <2> QED BY <2>4, <2>5
<1> QED BY <1>7, <1>8, <1>9, <1>10, <1>11

\* The methods that push no value more than they take.
LEMMA RearrangesMap ==
  ASSUME ApiInv, ApiInv', JavaRuns, Rearranges
  PROVE  AF!Step(call')
<1>1. lua_gettop \in Nat /\ globals \in Values BY JavaFacts
<1>2. CASE \E k \in Valid :
             \/ luaInsert(k) \/ luaRemove(k) \/ luaReplace(k) \/ luaTostring(k)
             \/ \E k2 \in Valid : luaCopy(k, k2)
  BY <1>2, IndexedMap
<1>3. CASE \E k \in Valid :
             \/ luaNext(k) /\ Room(1)
             \/ luaGettable(k) \/ luaRawget(k) \/ luaSetfield(k)
             \/ Has(2) /\ luaRawset(k)
  BY <1>3, TableMaps
<1>4. CASE Has(1) /\ luaSetglobal
  <2>1. Method("luaSetglobal", 0, 0, None, Stores(Front(stack), Last(stack)))
    BY <1>4, AsksMore DEF luaSetglobal
  <2> DEFINE u == Above(stack, ci.func)
  <2>2. Kept(Front(stack)) /\ Above(Front(stack), ci.func) = AF!Drop(u, 1)
    BY <1>4, LastNow
  <2>3. AF!After(u, "luaSetglobal", 0, 0, None) = AF!Drop(u, 1) BY DEF AF!After
  <2>4. "luaSetglobal" \in AF!Setters BY DEF AF!Setters
  <2> QED BY <1>4, <2>1, <2>2, <2>3, <2>4, StoresMap
<1>5. CASE \E n \in 0 .. lua_gettop : luaPop(n) \/ luaSettop(-n - 1)
  BY <1>5, PoppingMaps
<1>6. CASE Has(1) /\ luaOp(LUA_OPUNM)
  <2>1. 1 \in 0 .. lua_gettop BY <1>1, <1>6 DEF Has
  <2> QED BY <2>1, <1>6, PoppingMaps
<1>7. CASE Has(2) /\ luaOp(0)
  <2>1. 2 \in 0 .. lua_gettop BY <1>1, <1>7 DEF Has
  <2> QED BY <2>1, <1>7, PoppingMaps
<1>8. CASE \E n \in 1 .. lua_gettop : luaConcat(n)
  <2>1. PICK n \in 1 .. lua_gettop : luaConcat(n) BY <1>8
  <2>2. n \in 0 .. lua_gettop /\ n >= 1 BY <1>1
  <2> QED BY <2>1, <2>2, PoppingMaps
<1> QED BY <1>2, <1>3, <1>4, <1>5, <1>6, <1>7, <1>8 DEF Rearranges
\* A method that pushes a value.
LEMMA PushMaps ==
  ASSUME ApiInv, ApiInv', JavaRuns, Room(1), NEW e \in Values,
         NEW m \in AF!Methods, m \notin AF!Setters, NEW i, NEW j, NEW v,
         Method(m, i, j, v, Leaves(Append(stack, e))),
         AF!After(Above(stack, ci.func), m, i, j, v) = Append(Above(stack, ci.func), e)
  PROVE  AF!Step(call')
<1>1. Len(stack) + 2 <= ci.top BY JavaFacts DEF Room, Top
<1>2. Kept(Append(stack, e)) BY <1>1, StackKept, AppendKept
<1>3. stack \in Seq(Values) /\ ci.func \in 0 .. Len(stack) BY ValuesNow
<1>4. Above(Append(stack, e), ci.func) = Append(Above(stack, ci.func), e)
  <2>1. PICK f \in 0 .. Len(stack) : f = ci.func BY <1>3
  <2>2. Above(Append(stack, e), f) = Append(Above(stack, f), e) BY <1>3, AboveAppend
  <2> QED BY <2>1, <2>2
<1> DEFINE s == Append(stack, e)
<1>5. Kept(s) /\ Method(m, i, j, v, Leaves(s))
      /\ Above(s, ci.func) = AF!After(Above(stack, ci.func), m, i, j, v)
  BY <1>2, <1>4
<1> HIDE DEF s
<1> QED BY <1>5, LeavesMap

\* Each way to push a value leaves that value on top.
LEMMA PushedIs ==
  ASSUME NEW v \in {Nil, True, False, Num, Str, Java}
  PROVE  luaPush(v) = Leaves(Append(stack, v))
<1>b. /\ Nil # True /\ Nil # False /\ Nil # Num /\ Nil # Java
      /\ Str # True /\ Str # False /\ Str # Num /\ Str # Java
      /\ True # Num /\ True # Java /\ False # Num /\ False # Java /\ Num # Java
      /\ Nil # Str /\ True # False
  BY DEF Nil, Str, True, False, Num, Java
<1>1. CASE v \in {Nil, Str}
  <2>1. luaPush(v) = luaPushstring(v) BY <1>1, <1>b DEF luaPush
  <2>2. luaPushstring(v) = Leaves(Append(stack, v))
    BY <1>1, Asks, AsksMore DEF luaPushstring, luaPushnil, lua_pushnil, lua_pushstring, Nil, Str
  <2> QED BY <2>1, <2>2
<1>2. CASE v \in {True, False}
  <2>1. luaPush(v) = luaPushboolean(v) BY <1>2, <1>b DEF luaPush
  <2>2. luaPushboolean(v) = Leaves(lua_pushboolean(stack, IF v = True THEN 1 ELSE 0))
    BY Asks DEF luaPushboolean
  <2>3. lua_pushboolean(stack, IF v = True THEN 1 ELSE 0) = Append(stack, v)
    BY <1>2, <1>b DEF lua_pushboolean
  <2> QED BY <2>1, <2>2, <2>3
<1>3. CASE v = Num
  <2>1. luaPush(v) = luaPushinteger BY <1>3, <1>b DEF luaPush
  <2>2. luaPushinteger = Leaves(Append(stack, Num)) BY Asks DEF luaPushinteger, lua_pushinteger
  <2> QED BY <2>1, <2>2, <1>3
<1>4. CASE v = Java
  <2>1. luaPush(v) = luaPushFunction BY <1>4, <1>b DEF luaPush
  <2>2. luaPushFunction = Leaves(Append(stack, Java)) BY AsksMore DEF luaPushFunction
  <2> QED BY <2>1, <2>2, <1>4
<1> QED BY <1>1, <1>2, <1>3, <1>4

\* The methods that push a value.
LEMMA PushesMap ==
  ASSUME ApiInv, ApiInv', JavaRuns, Pushes
  PROVE  AF!Step(call')
<1> DEFINE f == ci.func  u == Above(stack, f)
<1>0. /\ {Num, Env, Nil, Str, True, False, Java} \subseteq Values /\ globals \in Values
      /\ AF!Num = Num /\ AF!Str = Str /\ AF!Env = Env /\ AF!Nil = Nil
  BY JavaFacts, SameNames DEF Values, Strings
<1>u. /\ stack \in Seq(Values) /\ f \in 0 .. Len(stack) /\ Len(stack) \in Nat
      /\ u \in Seq(Values) /\ Len(u) = lua_gettop /\ lua_gettop \in Nat
      /\ lua_gettop = Len(stack) - f
  BY ValuesNow
<1>m. /\ "luaPush" \in AF!Methods /\ "luaPush" \notin AF!Setters
      /\ "luaPushvalue" \in AF!Methods /\ "luaPushvalue" \notin AF!Setters
      /\ "luaLen" \in AF!Methods /\ "luaLen" \notin AF!Setters
      /\ "luaGetfield" \in AF!Methods /\ "luaGetfield" \notin AF!Setters
      /\ "luaGetglobal" \in AF!Methods /\ "luaGetglobal" \notin AF!Setters
      /\ "luaConcat" \in AF!Methods /\ "luaConcat" \notin AF!Setters
      /\ "luaRawgeti" \in AF!Methods /\ "luaRawgeti" \notin AF!Setters
      /\ "luaSettop" \in AF!Methods /\ "luaSettop" \notin AF!Setters
  BY DEF AF!Methods, AF!Setters
<1> HIDE DEF u
<1>1. CASE \E v \in Pushed : Room(IF v = Java THEN 4 ELSE 1) /\ Method("luaPush", 0, 0, v, luaPush(v))
  <2>1. PICK v \in Pushed : Room(IF v = Java THEN 4 ELSE 1) /\ Method("luaPush", 0, 0, v, luaPush(v))
    BY <1>1
  <2>2. v \in {Nil, True, False, Num, Str, Java} BY ApiPrograms
  <2>3. luaPush(v) = Leaves(Append(stack, v)) BY <2>2, PushedIs
  <2>4. Room(1) BY <2>1, JavaFacts DEF Room, Top
  <2>5. v \in Values BY <2>2, <1>0
  <2>6. AF!After(u, "luaPush", 0, 0, v) = Append(u, v) BY DEF AF!After
  <2> QED BY <1>m, <2>1, <2>3, <2>4, <2>5, <2>6, PushMaps DEF u
<1>2. CASE Room(1) /\ Method("luaPush", 0, 0, Num, luaPushnumber)
  <2>1. luaPushnumber = Leaves(Append(stack, Num)) BY AsksMore DEF luaPushnumber, lua_pushnumber
  <2>2. AF!After(u, "luaPush", 0, 0, Num) = Append(u, Num) BY DEF AF!After
  <2> QED BY <2>1, <2>2, <1>0, <1>2, <1>m, PushMaps DEF u
<1>3. ASSUME NEW k \in Valid, Room(1), luaPushvalue(k) \/ luaLen(k) \/ luaGetfield(k)
      PROVE  AF!Step(call')
  <2>1. CASE luaPushvalue(k)
    <3> DEFINE e == Value(stack, k)
    <3>1. Method("luaPushvalue", k, 0, None, Leaves(Append(stack, e)))
      BY <2>1, Asks DEF luaPushvalue, lua_pushvalue
    <3>2. e = u[AF!Abs(u, k)] /\ e \in Values BY IndexMaps DEF u
    <3>3. AF!After(u, "luaPushvalue", k, 0, None) = Append(u, u[AF!Abs(u, k)]) BY DEF AF!After
    <3>4. AF!After(u, "luaPushvalue", k, 0, None) = Append(u, e) BY <3>2, <3>3
    <3> HIDE DEF e
    <3> QED BY <3>1, <3>2, <3>4, <1>3, <1>m, PushMaps DEF u
  <2>2. CASE luaLen(k)
    <3>1. Method("luaLen", k, 0, None, Leaves(Append(stack, Num))) BY <2>2, Asks DEF luaLen, lua_len
    <3>2. AF!After(u, "luaLen", k, 0, None) = Append(u, Num) BY <1>0 DEF AF!After
    <3> QED BY <3>1, <3>2, <1>0, <1>3, <1>m, PushMaps DEF u
  <2>3. CASE luaGetfield(k)
    <3>1. Method("luaGetfield", k, 0, None, Leaves(Append(stack, globals)))
      BY <2>3, AsksMore DEF luaGetfield, lua_getglobal
    <3>2. AF!After(u, "luaGetfield", k, 0, None) = Append(u, globals) BY DEF AF!After
    <3> QED BY <3>1, <3>2, <1>0, <1>3, <1>m, PushMaps DEF u
  <2> QED BY <2>1, <2>2, <2>3, <1>3
<1>4. CASE Room(1) /\ luaGetglobal
  <2>1. Method("luaGetglobal", 0, 0, None, Leaves(Append(stack, globals)))
    BY <1>4, AsksMore DEF luaGetglobal, lua_getglobal
  <2>2. AF!After(u, "luaGetglobal", 0, 0, None) = Append(u, globals) BY DEF AF!After
  <2> QED BY <2>1, <2>2, <1>0, <1>4, <1>m, PushMaps DEF u
<1>5. CASE Room(1) /\ luaConcat(0)
  <2>1. Method("luaConcat", 0, 0, None, Leaves(Append(stack, Str)))
    BY <1>5, Asks DEF luaConcat, lua_concat
  <2>2. AF!After(u, "luaConcat", 0, 0, None) = Append(AF!Drop(u, 0), Str) BY <1>0 DEF AF!After
  <2>3. AF!Drop(u, 0) = u BY <1>u DEF AF!Drop
  <2> QED BY <2>1, <2>2, <2>3, <1>0, <1>5, <1>m, PushMaps DEF u
<1>6. CASE Room(1) /\ luaRawgeti(LUA_REGISTRYINDEX, 2)
  <2>1. Method("luaRawgeti", LUA_REGISTRYINDEX, 2, None, Leaves(Append(stack, Env)))
    BY <1>6, Asks DEF luaRawgeti, lua_rawgeti
  <2>2. AF!After(u, "luaRawgeti", LUA_REGISTRYINDEX, 2, None) = Append(u, Env) BY <1>0 DEF AF!After
  <2> QED BY <2>1, <2>2, <1>0, <1>6, <1>m, PushMaps DEF u
<1>7. CASE Room(1) /\ luaSettop(lua_gettop + 1)
  <2> DEFINE i == lua_gettop + 1
             s == lua_settop(stack, lua_gettop + 1)
             n == Len(u)
  <2>1. Method("luaSettop", i, 0, None, Leaves(s)) BY <1>7, Asks DEF luaSettop
  <2>2. Kept(s) BY <1>7, SettopKept
  <2>3. i >= 0 /\ i = n + 1 /\ n \in Nat BY <1>u
  <2>4. AF!After(u, "luaSettop", i, 0, None) = AF!Pad(u, IF i >= 0 THEN i ELSE Len(u) + 1 + i)
    BY DEF AF!After
  <2>5. AF!After(u, "luaSettop", i, 0, None) = AF!Pad(u, n + 1) BY <2>3, <2>4
  <2>6. s = [k \in 1 .. Len(stack) + 1 |-> IF k <= Len(stack) THEN stack[k] ELSE Nil]
    <3>1. ci.func + (lua_gettop + 1) = Len(stack) + 1 /\ lua_gettop + 1 >= 0 BY <1>u
    <3> QED BY <3>1 DEF lua_settop
  <2> HIDE DEF s, i, n
  <2>7. AF!Pad(u, n + 1) = [k \in 1 .. n + 1 |-> IF k <= n THEN u[k] ELSE Nil]
    BY <1>0 DEF AF!Pad, n
  <2> DEFINE q == AF!Pad(u, n + 1)
  <2>8. q \in Seq(Values) /\ Len(q) = n + 1
    <3>1. \A k \in 1 .. n + 1 : (IF k <= n THEN u[k] ELSE Nil) \in Values
      BY <1>0, <1>u, <2>3 DEF n
    <3> QED BY <3>1, <2>3, <2>7
  <2>9. s \in Seq(Values) /\ Len(s) = Len(stack) + 1
    <3>1. s \in Seq(Values) BY <2>2 DEF Kept
    <3> QED BY <3>1, <2>6, <1>u
  <2>10. \A k \in 1 .. n : u[k] = stack[f + k] BY <1>u, AboveIs DEF u, n
  <2>11. Above(s, f) = q
    <3>1. f \in Nat /\ n = Len(stack) - f BY <1>u DEF n
    <3> HIDE DEF f
    <3>2. f \in 0 .. Len(s) /\ Len(q) = Len(s) - f BY <3>1, <1>u, <2>8, <2>9
    <3>3. ASSUME NEW k \in 1 .. Len(q) PROVE q[k] = s[f + k]
      <4>1. k \in 1 .. n + 1 /\ f + k \in 1 .. Len(stack) + 1 /\ (k <= n <=> f + k <= Len(stack))
        BY <3>1, <2>3, <2>8, <1>u
      <4>2. q[k] = IF k <= n THEN u[k] ELSE Nil BY <4>1, <2>7
      <4>3. PICK h \in 1 .. Len(stack) + 1 : h = f + k BY <4>1
      <4>4. s[h] = IF h <= Len(stack) THEN stack[h] ELSE Nil BY <2>6
      <4>5. CASE k <= n
        <5>1. k \in 1 .. n /\ h <= Len(stack) BY <4>1, <4>3, <4>5, <2>3
        <5> QED BY <5>1, <4>2, <4>3, <4>4, <2>10
      <4>6. CASE ~(k <= n) BY <4>1, <4>2, <4>3, <4>4, <4>6
      <4> QED BY <4>5, <4>6
    <3> HIDE DEF q
    <3> QED BY <3>2, <3>3, <2>8, <2>9, AboveByElements
  <2> QED BY <2>1, <2>2, <2>5, <2>11, <1>m, LeavesMap DEF u
<1> QED BY <1>1, <1>2, <1>3, <1>4, <1>5, <1>6, <1>7 DEF Pushes

\* luaCheckStack changes no value.
LEMMA CheckStackMaps ==
  ASSUME ApiInv, ApiInv', JavaRuns, NEW n \in Nat, luaCheckStack(n)
  PROVE  AF!Step(call')
<1> DEFINE top == IF lua_checkstack(n).ok /\ ci.top < Top + n THEN Top + n ELSE ci.top
           d == [ci EXCEPT !.top = top]
           u == Above(stack, ci.func)
<1>1. ci \in CallInfo /\ ci.top \in Nat /\ Len(stack) \in Nat BY JavaFacts
<1>2. top \in Nat
  <2>1. Top + n \in Nat BY <1>1 DEF Top
  <2> QED BY <2>1, <1>1
<1>3. /\ cis' = Append(Front(cis), d) /\ stack' = stack
      /\ UNCHANGED <<raising, errorHandler>>
      /\ call' = [m |-> "luaCheckStack", i |-> n, j |-> 0, v |-> None]
      /\ globals' = globals
  BY DEF luaCheckStack, SetCi, Calling
<1> HIDE DEF top
<1>4. /\ d \in CallInfo /\ d.kind = ci.kind /\ d.func = ci.func /\ d.nres = ci.nres
      /\ d.at = ci.at /\ d.status = ci.status /\ d.exc = ci.exc
  BY <1>1, <1>2 DEF CallInfo
<1> HIDE DEF d
<1>5. "luaCheckStack" \in AF!Methods /\ "luaCheckStack" \notin AF!Setters
  BY DEF AF!Methods, AF!Setters
<1>6. AF!After(u, "luaCheckStack", n, 0, None) = u BY DEF AF!After
<1>7. globals' = IF "luaCheckStack" \in AF!Setters THEN Last(u) ELSE globals BY <1>3, <1>5
<1>8. PICK s : s = stack OBVIOUS
<1>9. Kept(s) /\ stack' = s /\ Above(s, ci.func) = u BY <1>3, <1>8, StackKept
<1> QED BY <1>3, <1>4, <1>5, <1>6, <1>7, <1>9, MethodMaps

\* Whatever method a Java function calls, luaPcall excepted, is a step of its
\* frame.
LEMMA JavaMethodMaps ==
  ASSUME ApiInv, ApiInv', JavaMethod
  PROVE  AF!Step(call')
<1>1. JavaRuns BY DEF JavaMethod
<1>2. CASE Rearranges BY <1>1, <1>2, RearrangesMap
<1>3. CASE Pushes BY <1>1, <1>3, PushesMap
<1>4. ASSUME NEW n \in Asked, luaCheckStack(n) PROVE AF!Step(call')
  <2>1. n \in Nat BY ApiPrograms
  <2> QED BY <1>1, <1>4, <2>1, CheckStackMaps
<1>5. ASSUME NEW v \in {Script, Str}, luaLoad(v) PROVE AF!Step(call')
  <2>1. Room(1) /\ Method("luaLoad", 0, 0, v, Leaves(Append(stack, v))) BY <1>5 DEF luaLoad
  <2>2. v \in Values BY DEF Values, Strings
  <2> DEFINE u == Above(stack, ci.func)
  <2>3. AF!After(u, "luaLoad", 0, 0, v) = Append(u, v) BY DEF AF!After
  <2>4. "luaLoad" \in AF!Methods /\ "luaLoad" \notin AF!Setters BY DEF AF!Methods, AF!Setters
  <2> QED BY <1>1, <2>1, <2>2, <2>3, <2>4, PushMaps
<1> QED BY <1>2, <1>3, <1>4, <1>5 DEF JavaMethod

-----------------------------------------------------------------------------
(* Calls of the innermost frame *)

\* A frame, and frames with other values, another status or exception.
ViewIs(k, u, n, g, e) == [kind |-> k, vals |-> u, want |-> n, status |-> g, exc |-> e]

Holding(f, u, g) == [f EXCEPT !.vals = u, !.status = g]

\* What becomes of a frame.
LEMMA HoldingIs ==
  ASSUME NEW k, NEW u, NEW n, NEW g, NEW e, NEW w, NEW h
  PROVE  Holding(ViewIs(k, u, n, g, e), w, h) = ViewIs(k, w, n, h, e)
<1> DEFINE r == [kind |-> k, vals |-> u, want |-> n, status |-> g, exc |-> e]
           q == [kind |-> k, vals |-> w, want |-> n, status |-> h, exc |-> e]
           R == [kind: {k}, vals: {u, w}, want: {n}, status: {g, h}, exc: {e}]
<1>1. r \in R /\ q \in R OBVIOUS
<1>2. q.kind = k /\ q.want = n /\ q.exc = e /\ q.status = h /\ q.vals = w OBVIOUS
<1>3. r.kind = k /\ r.want = n /\ r.exc = e OBVIOUS
<1>4. r = ViewIs(k, u, n, g, e) /\ q = ViewIs(k, w, n, h, e) BY DEF ViewIs
<1> HIDE DEF r, q
<1>5. [r EXCEPT !.vals = w, !.status = h] = q BY <1>1, <1>2, <1>3
<1> QED BY <1>4, <1>5 DEF Holding

\* What a frame is, by the parts that matter.
LEMMA SeenParts ==
  ASSUME NEW s, NEW c
  PROVE  /\ Seen(s, c) = ViewIs(c.kind, ValsOf(s, c), c.nres, c.status, c.exc)
         /\ Seen(s, c).kind = c.kind /\ Seen(s, c).vals = ValsOf(s, c)
         /\ Seen(s, c).status = c.status /\ Seen(s, c).exc = c.exc /\ Seen(s, c).want = c.nres
BY DEF Seen, ViewIs

\* A list with two elements more.
LEMMA TwoMore ==
  ASSUME NEW T, NEW s \in Seq(T), NEW a, NEW b
  PROVE  Append(Append(s, a), b) = s \o <<a, b>>
<1> DEFINE U == T \cup {a, b}
<1>1. s \in Seq(U) OBVIOUS
<1>2. <<a, b>> \in Seq(U) /\ Len(<<a, b>>) = 2 /\ <<a, b>>[1] = a /\ <<a, b>>[2] = b OBVIOUS
<1>3. a \in U /\ b \in U OBVIOUS
<1> DEFINE p == Append(s, a)  q == Append(p, b)  c == <<a, b>>  r == s \o c  n == Len(s)
<1> HIDE DEF U, c
<1>4. /\ p \in Seq(U) /\ n \in Nat /\ Len(p) = n + 1 /\ p[n + 1] = a
      /\ \A i \in 1 .. n : p[i] = s[i]
  BY <1>1, <1>3, AppendIs
<1> HIDE DEF p
<1>5. /\ q \in Seq(U) /\ Len(q) = Len(p) + 1 /\ q[Len(p) + 1] = b
      /\ \A i \in 1 .. Len(p) : q[i] = p[i]
  BY <1>3, <1>4, AppendIs
<1>6. /\ s \o c \in Seq(U) /\ Len(s \o c) = Len(s) + Len(c)
      /\ \A k \in 1 .. Len(s) : (s \o c)[k] = s[k]
      /\ \A k \in 1 .. Len(c) : (s \o c)[Len(s) + k] = c[k]
  BY <1>1, <1>2, ConcatIs DEF c
<1> HIDE DEF q
<1>7. /\ r \in Seq(U) /\ Len(r) = n + 2 /\ \A k \in 1 .. n : r[k] = s[k]
      /\ r[n + 1] = a /\ r[n + 2] = b
  BY <1>2, <1>4, <1>6 DEF c
<1> HIDE DEF r, n
<1>8. /\ Len(q) = n + 2 /\ q[n + 2] = b /\ q[n + 1] = a /\ \A k \in 1 .. n : q[k] = s[k]
  <2>1. n + 1 + 1 = n + 2 BY <1>4
  <2>2. n + 1 \in 1 .. n + 1 /\ \A k \in 1 .. n : k \in 1 .. n + 1 BY <1>4
  <2> QED BY <2>1, <2>2, <1>4, <1>5
<1>9. ASSUME NEW k \in 1 .. Len(q) PROVE q[k] = r[k]
  <2>1. k \in 1 .. n \/ k = n + 1 \/ k = n + 2 BY <1>4, <1>8
  <2> QED BY <2>1, <1>7, <1>8
<1>10. q = r BY <1>5, <1>7, <1>8, <1>9, SeqEqual
<1> QED BY <1>10 DEF q, p, r, c

\* luaD_precall changes neither the global nor the handler.
LEMMA PrecallLeaves ==
  ASSUME NEW x, NEW func, NEW nres, luaD_precall(x, func, nres)
  PROVE  UNCHANGED <<errorHandler, globals>>
BY DEF luaD_precall, NoStack, Enter, Raise, Becomes

\* The innermost frame calls the function at func of the thread x, where it
\* waits as d: of the values vals it saw, the last n are the arguments.
LEMMA CallMaps ==
  ASSUME ApiInv, ApiInv', ~raising, NEW x, Body(x), NEW d \in CallInfo,
         x.cis = Append(Front(cis), d), Last(x.cis) = d,
         d.kind = ci.kind, d.nres = ci.nres, d.exc = ci.exc, d.status = "calling",
         ci.func <= Len(x.stack) + 1, \A i \in 1 .. ci.func - 1 : x.stack[i] = stack[i],
         NEW func \in Nat \ {0}, NEW nres \in Nat \cup {LUA_MULTRET},
         Callable(x, "java", func, nres), luaD_precall(x, func, nres),
         NEW vals \in Seq(Values), NEW n \in Nat, n < Len(vals),
         x.stack[func] = vals[Len(vals) - n], Above(x.stack, func) = AF!Take(vals, n),
         ValsOf(x.stack, d) = AF!Drop(vals, n + 1)
  PROVE  AF!Calls(vals, n, nres) /\ UNCHANGED <<errorHandler, globals>>
<1> DEFINE fs == FramesOf(x)
           f == vals[Len(vals) - n]
           w == AF!Drop(vals, n + 1)
           g == AF!Take(vals, n)
           caller == [AF!Inner EXCEPT !.vals = w, !.status = "calling"]
           callee == AF!Callee(f, g, nres)
<1>1. /\ Frames = FramesOf(Thread) /\ Frames \in Seq(Views) /\ Frames # <<>>
      /\ AF!Inner = Seen(stack, ci)
  BY FramesNow
<1>2. Body(Thread) /\ Thread.stack = stack /\ Thread.cis = cis /\ ci = Last(cis) BY InnermostFacts
<1>3. fs = Append(Front(Frames), Seen(x.stack, d))
  <2>1. PICK t : t = Thread OBVIOUS
  <2>2. x \in Threads BY DEF Body, Types
  <2>3. Body(t) /\ x.cis = Append(Front(t.cis), d) /\ Last(t.cis).func <= Len(x.stack) + 1
        /\ \A i \in 1 .. Last(t.cis).func - 1 : x.stack[i] = t.stack[i]
    BY <2>1, <1>2
  <2>4. FramesOf(x) = Append(Front(FramesOf(t)), Seen(x.stack, d)) BY <2>2, <2>3, FramesSet
  <2> QED BY <2>1, <2>4, <1>1
<1>4. Seen(x.stack, d) = caller
  <2>1. Seen(x.stack, d) = ViewIs(ci.kind, w, ci.nres, "calling", ci.exc)
    <3>1. Seen(x.stack, d) = ViewIs(d.kind, ValsOf(x.stack, d), d.nres, d.status, d.exc) BY SeenParts
    <3> QED BY <3>1
  <2>2. AF!Inner = ViewIs(ci.kind, ValsOf(stack, ci), ci.nres, ci.status, ci.exc)
    BY <1>1, SeenParts
  <2> DEFINE k == ci.kind  u == ValsOf(stack, ci)  r == ci.nres  s == ci.status  e == ci.exc
  <2> HIDE DEF k, u, r, s, e, w
  <2>3. Holding(ViewIs(k, u, r, s, e), w, "calling") = ViewIs(k, w, r, "calling", e) BY HoldingIs
  <2> QED BY <2>1, <2>2, <2>3 DEF Holding, k, u, r, s, e
<1>5. Fails(x) \/ Calls(x, func, nres)
  <2>1. Last(x.cis).status = "calling" OBVIOUS
  <2> QED BY <2>1, PrecallMaps
<1>6. UNCHANGED <<errorHandler, globals>> BY PrecallLeaves
<1> HIDE DEF caller
<1>7. fs = Append(Front(Frames), caller) BY <1>3, <1>4
<1>8. AF!Calls(vals, n, nres) =
        \/ /\ f \in AF!Callable
           /\ Frames' = Front(Frames) \o <<caller, callee>>
           /\ UNCHANGED (IF raising THEN Last(stack) ELSE None)
        \/ Frames' = Append(Front(Frames), caller)
           /\ (IF raising THEN Last(stack) ELSE None)' = Str
        \/ Frames' = AF!Delivered(Append(Front(Frames), caller), Str)
           /\ UNCHANGED (IF raising THEN Last(stack) ELSE None)
  <2>1. AF!Front(Frames) = Front(Frames) /\ AF!Str = Str BY SameNames
  <2> QED BY <2>1 DEF AF!Calls, AF!SetInner, caller
<1> HIDE DEF fs, f, w, g, callee
<1>9. CASE Fails(x)
  <2>1. CASE Frames' = fs /\ raising' = TRUE /\ Last(stack') = Str
    BY <2>1, <1>6, <1>7, <1>8
  <2>2. CASE Frames' = AF!Delivered(fs, Str) /\ raising' = FALSE
    BY <2>2, <1>6, <1>7, <1>8
  <2> QED BY <2>1, <2>2, <1>9 DEF Fails, fs
<1>10. CASE Calls(x, func, nres)
  <2>1. f \in AF!Callable /\ Frames' = Append(fs, callee) /\ raising' = FALSE
    BY <1>10 DEF Calls, fs, f, g, callee
  <2>2. Append(Append(Front(Frames), caller), callee) = Front(Frames) \o <<caller, callee>>
    <3>1. Front(Frames) \in Seq(Views) BY <1>1, FrontIs
    <3> QED BY <3>1, TwoMore
  <2> QED BY <2>1, <2>2, <1>6, <1>7, <1>8
<1> QED BY <1>5, <1>9, <1>10

\* The values at the end of a list, and those before them.
LEMMA TakeIs ==
  ASSUME NEW T, NEW s \in Seq(T), NEW n \in 0 .. Len(s)
  PROVE  /\ AF!Take(s, n) \in Seq(T) /\ Len(AF!Take(s, n)) = n
         /\ \A i \in 1 .. n : AF!Take(s, n)[i] = s[Len(s) - n + i]
<1>1. PICK f \in Nat : f = Len(s) - n OBVIOUS
<1>2. f \in 0 .. Len(s) /\ Len(s) - f = n /\ n \in Nat BY <1>1
<1>3. AF!Take(s, n) = Above(s, f) BY <1>1 DEF AF!Take, Above
<1>4. /\ Above(s, f) \in Seq(T) /\ Len(Above(s, f)) = Len(s) - f
      /\ \A i \in 1 .. Len(s) - f : Above(s, f)[i] = s[f + i]
  BY <1>2, AboveIs
<1> QED BY <1>1, <1>2, <1>3, <1>4

\* The values before them.
LEMMA DropIs ==
  ASSUME NEW T, NEW s \in Seq(T), NEW n \in 0 .. Len(s)
  PROVE  /\ AF!Drop(s, n) \in Seq(T) /\ Len(AF!Drop(s, n)) = Len(s) - n
         /\ \A i \in 1 .. Len(s) - n : AF!Drop(s, n)[i] = s[i]
<1>1. PICK m : m = Len(s) - n OBVIOUS
<1>2. m \in 0 .. Len(s) BY <1>1
<1>3. AF!Drop(s, n) = SubSeq(s, 1, m) BY <1>1 DEF AF!Drop
<1>4. /\ SubSeq(s, 1, m) \in Seq(T) /\ Len(SubSeq(s, 1, m)) = m
      /\ \A i \in 1 .. m : SubSeq(s, 1, m)[i] = s[i]
  BY <1>2, PrefixIs
<1> QED BY <1>1, <1>3, <1>4

\* n values of s above the slot q are those of v above o.
Matches(s, q, v, o, n) == \A i \in 1 .. n : s[q + i] = v[o + i]

\* What is above a slot are the last values of a list.
LEMMA TakenAre ==
  ASSUME NEW T, NEW s \in Seq(T), NEW v \in Seq(T), NEW q \in Nat, NEW n \in Nat, NEW o \in Nat,
         q + n = Len(s), o + n = Len(v), Matches(s, q, v, o, n)
  PROVE  Above(s, q) = AF!Take(v, n)
<1> DEFINE t == AF!Take(v, n)
<1>1. t \in Seq(T) /\ Len(t) = n /\ \A i \in 1 .. n : t[i] = v[o + i]
  <2>1. n \in 0 .. Len(v) /\ Len(v) - n = o OBVIOUS
  <2>2. /\ AF!Take(v, n) \in Seq(T) /\ Len(AF!Take(v, n)) = n
        /\ \A i \in 1 .. n : AF!Take(v, n)[i] = v[Len(v) - n + i]
    BY <2>1, TakeIs
  <2> QED BY <2>1, <2>2
<1> HIDE DEF t
<1>2. q \in 0 .. Len(s) /\ Len(t) = Len(s) - q BY <1>1
<1>3. \A i \in 1 .. Len(t) : t[i] = s[q + i] BY <1>1 DEF Matches
<1>4. Above(s, q) = t BY <1>1, <1>2, <1>3, AboveByElements
<1> QED BY <1>4 DEF t

\* What is between two slots.
Between(s, f, b) == SubSeq(s, f + 1, b)

\* These are m values, and v has n more.
Shares(s, f, b, v, n, m) == f + m = b /\ b <= Len(s) /\ m + n = Len(v) /\ Matches(s, f, v, 0, m)

\* They are all but the last values of a list.
LEMMA DroppedAre ==
  ASSUME NEW T, NEW s \in Seq(T), NEW v \in Seq(T), NEW f \in Nat, NEW b \in Nat, NEW n \in Nat,
         NEW m \in Nat, Shares(s, f, b, v, n, m)
  PROVE  Between(s, f, b) = AF!Drop(v, n)
<1>0. f + m = b /\ b <= Len(s) /\ m + n = Len(v) /\ Matches(s, f, v, 0, m) BY DEF Shares
<1> DEFINE t == AF!Drop(v, n)  u == SubSeq(s, f + 1, b)
<1>1. t \in Seq(T) /\ Len(t) = m /\ \A i \in 1 .. m : t[i] = v[i]
  <2>1. n \in 0 .. Len(v) /\ Len(v) - n = m BY <1>0
  <2>2. /\ AF!Drop(v, n) \in Seq(T) /\ Len(AF!Drop(v, n)) = Len(v) - n
        /\ \A i \in 1 .. Len(v) - n : AF!Drop(v, n)[i] = v[i]
    BY <2>1, DropIs
  <2> QED BY <2>1, <2>2
<1>2. u \in Seq(T) /\ Len(u) = m /\ \A i \in 1 .. m : u[i] = s[f + i]
  <2>1. b \in f .. Len(s) /\ b - f = m BY <1>0
  <2>2. /\ SubSeq(s, f + 1, b) \in Seq(T) /\ Len(SubSeq(s, f + 1, b)) = b - f
        /\ \A i \in 1 .. b - f : SubSeq(s, f + 1, b)[i] = s[f + i]
    BY <2>1, PartIs
  <2> QED BY <2>1, <2>2
<1> HIDE DEF t, u
<1>3. \A i \in 1 .. m : 0 + i = i OBVIOUS
<1>4. \A i \in 1 .. m : u[i] = t[i] BY <1>0, <1>1, <1>2, <1>3 DEF Matches
<1>5. u = t BY <1>1, <1>2, <1>4, SeqEqual
<1> QED BY <1>5 DEF t, u, Between

\* The values a above slot f of a frame, n arguments the last of them, when s
\* holds those below the function up to slot r, and the function above q.
Args(a, f, s, q, r, n) ==
    LET v == Above(a, f) IN
    /\ n < Len(v) /\ v \in Seq(Values)
    /\ s[q + 1] = v[Len(v) - n]
    /\ Above(s, q + 1) = AF!Take(v, n)
    /\ Between(s, f, r) = AF!Drop(v, n + 1)

\* A call takes the function and its arguments from a frame.
LEMMA ArgsAre ==
  ASSUME NEW a \in Seq(Values), NEW s \in Seq(Values), NEW f \in Nat, NEW q \in Nat, NEW r \in Nat,
         NEW n \in Nat, NEW m \in Nat, f <= r, n + 1 = m, r + m = Len(a), q + m = Len(s),
         r <= Len(s), Matches(s, 0, a, 0, r), Matches(s, q, a, r, m)
  PROVE  Args(a, f, s, q, r, n)
<1> DEFINE v == Above(a, f)  l == Len(a)  k == Len(s)
<1>1. l \in Nat /\ f \in 0 .. l /\ l = Len(a) /\ r + m = l /\ k \in Nat /\ q + m = k OBVIOUS
<1>2. v \in Seq(Values) /\ Len(v) = l - f /\ \A i \in 1 .. l - f : v[i] = a[f + i]
  BY <1>1, AboveIs
<1>3. \A i \in 1 .. m : s[q + i] = a[r + i] BY DEF Matches
<1>4. \A i \in 1 .. r : s[0 + i] = a[0 + i] BY DEF Matches
<1>5. PICK o \in Nat : o = r - f OBVIOUS
<1> HIDE DEF v, l, k
<1>6. Len(v) = l - f BY <1>2
<1>7. o + m = l - f BY <1>1, <1>5
<1>8. o + m = Len(v) /\ n < Len(v) /\ Len(v) - n = o + 1 /\ Len(v) \in Nat BY <1>6, <1>7
<1>9. s[q + 1] = v[Len(v) - n]
  <2>1. 1 \in 1 .. m OBVIOUS
  <2>2. s[q + 1] = a[r + 1] BY <2>1, <1>3
  <2>3. o + 1 \in 1 .. l - f /\ f + (o + 1) = r + 1 BY <1>1, <1>5
  <2>4. v[o + 1] = a[f + (o + 1)] BY <2>3, <1>2
  <2> QED BY <2>2, <2>3, <2>4, <1>8
<1>10. Above(s, q + 1) = AF!Take(v, n)
  <2>1. PICK g \in Nat : g = q + 1 OBVIOUS
  <2>2. PICK h \in Nat : h = o + 1 OBVIOUS
  <2>3. ASSUME NEW i \in 1 .. n PROVE s[g + i] = v[h + i]
    <3>1. i + 1 \in 1 .. m /\ q + (i + 1) = g + i BY <2>1
    <3>2. s[q + (i + 1)] = a[r + (i + 1)] BY <3>1, <1>3
    <3>3. h + i \in 1 .. l - f /\ f + (h + i) = r + (i + 1) BY <2>2, <1>1, <1>5
    <3>4. v[h + i] = a[f + (h + i)] BY <3>3, <1>2
    <3> QED BY <3>1, <3>2, <3>3, <3>4
  <2>4. Matches(s, g, v, h, n) BY <2>3 DEF Matches
  <2>5. g + n = Len(s) BY <2>1, <1>1 DEF k
  <2>6. h + n = Len(v) BY <2>2, <1>8
  <2>7. Above(s, g) = AF!Take(v, n) BY <2>4, <2>5, <2>6, <1>2, TakenAre
  <2> QED BY <2>1, <2>7
<1>11. Between(s, f, r) = AF!Drop(v, m)
  <2>1. ASSUME NEW i \in 1 .. o PROVE s[f + i] = v[0 + i]
    <3>1. f + i \in 1 .. r /\ i \in 1 .. l - f /\ 0 + (f + i) = f + i /\ 0 + i = i BY <1>1, <1>5
    <3>2. s[0 + (f + i)] = a[0 + (f + i)] BY <3>1, <1>4
    <3>3. v[i] = a[f + i] BY <3>1, <1>2
    <3> QED BY <3>1, <3>2, <3>3
  <2>2. Matches(s, f, v, 0, o) BY <2>1 DEF Matches
  <2>3. f + o = r BY <1>5
  <2>4. o + m = Len(v) BY <1>8
  <2>5. PICK w \in Seq(Values) : w = v BY <1>2
  <2>6. Shares(s, f, r, w, m, o) BY <2>2, <2>3, <2>4, <2>5 DEF Shares
  <2>7. Between(s, f, r) = AF!Drop(w, m) BY <2>6, DroppedAre
  <2> QED BY <2>5, <2>7
<1> QED BY <1>2, <1>8, <1>9, <1>10, <1>11 DEF v, Args

\* Java runs, as callers see it.
LEMMA JavaRunsSeen ==
  ASSUME ApiInv, ~raising, ci.status = "run"
  PROVE  /\ AF!Inner.vals = Above(stack, ci.func) /\ AF!Inner.kind = ci.kind
         /\ AF!Inner.status = "run" /\ AF!Inner.exc = ci.exc
         /\ (IF raising THEN Last(stack) ELSE None) = None
         /\ (ci.kind \in JavaKinds /\ ci.exc = None => AF!JavaRuns)
<1>1. AF!Inner = Seen(stack, ci) BY FramesNow
<1>2. Seen(stack, ci) = [kind |-> ci.kind, vals |-> Above(stack, ci.func),
                         want |-> ci.nres, status |-> "run", exc |-> ci.exc]
  BY RunningIs
<1> DEFINE r == AF!Inner
<1> HIDE DEF r
<1>3. r = [kind |-> ci.kind, vals |-> Above(stack, ci.func),
           want |-> ci.nres, status |-> "run", exc |-> ci.exc]
  BY <1>1, <1>2 DEF r
<1>4. /\ r.vals = Above(stack, ci.func) /\ r.kind = ci.kind
      /\ r.status = "run" /\ r.exc = ci.exc
  BY <1>3
<1>5. (IF raising THEN Last(stack) ELSE None) = None OBVIOUS
<1>6. ci.kind \in JavaKinds /\ ci.exc = None => AF!JavaRuns
  BY <1>4, <1>5, SameNames DEF AF!JavaRuns, r
<1> QED BY <1>4, <1>5, <1>6 DEF r

\* luaPcall takes the function and its arguments off the values of its caller.
LEMMA LuaPcallMaps ==
  ASSUME ApiInv, ApiInv', NEW nargs \in Nat, NEW nres \in Nat \cup {LUA_MULTRET},
         luaPcall(nargs, nres)
  PROVE  AF!Step(call')
<1>1. JavaRuns /\ call' = [m |-> "luaPcall", i |-> nargs, j |-> nres, v |-> None]
  BY DEF luaPcall, Calling
<1>2. /\ ~raising /\ ci.status = "run" /\ ci.kind # "script" /\ ci.kind \in JavaKinds
      /\ ci.exc = None
  BY <1>1 DEF JavaRuns, JavaKinds
<1>3. /\ stack \in Seq(Values) /\ Len(stack) \in Nat /\ ci.func \in Nat /\ ci.func <= Len(stack)
  BY InnermostFacts
<1>4. PICK s \in Seq(Values), d \in CallInfo, p \in Nat :
               /\ p = Len(stack) - nargs /\ ci.func < p /\ p <= Len(stack) /\ d.at = p
               /\ Len(s) = Len(stack) + 1
               /\ \A k \in 1 .. p - 1 : s[k] = stack[k]
               /\ \A k \in p .. Len(stack) : s[k + 1] = stack[k]
               /\ p + 1 \in Nat /\ Waitable(s, d, p + 1, nres)
               /\ luaD_precall(Waiting(s, d, p + 1), p + 1, nres)
  BY PcallWaits
<1>a. p = Len(stack) - nargs /\ ci.func < p /\ p <= Len(stack) /\ Len(s) = Len(stack) + 1
  BY <1>4
<1>5. PICK func \in Nat : func = p + 1 OBVIOUS
<1>6. Waitable(s, d, func, nres) /\ luaD_precall(Waiting(s, d, func), func, nres)
  BY <1>4, <1>5
<1> DEFINE x == Waiting(s, d, func)
<1>7. /\ Body(x) /\ Callable(x, "java", func, nres) /\ func \in Nat \ {0}
      /\ x.stack = s /\ x.cis = Append(Front(cis), d) /\ Last(x.cis) = d
  BY <1>2, <1>6, PcallkWaits
<1>8. luaD_precall(x, func, nres) BY <1>6
<1> HIDE DEF x
<1>9. /\ d.kind = ci.kind /\ d.func = ci.func /\ d.nres = ci.nres /\ d.exc = ci.exc
      /\ d.status = "calling"
  BY <1>6 DEF Waitable
<1> DEFINE vals == Above(stack, ci.func)
<1>10. /\ nargs < Len(vals) /\ vals \in Seq(Values)
       /\ s[func] = vals[Len(vals) - nargs]
       /\ Above(s, func) = AF!Take(vals, nargs)
       /\ SubSeq(s, ci.func + 1, p - 1) = AF!Drop(vals, nargs + 1)
  <2>1. PICK f \in Nat : f = ci.func BY <1>3
  <2>2. PICK a \in Seq(Values) : a = stack BY <1>3
  <2>3. 0 < p BY <1>a, <1>3
  <2>4. PICK r \in Nat : r = p - 1 BY <2>3
  <2>5. PICK m \in Nat : m = nargs + 1 OBVIOUS
  <2>6. /\ \A k \in 1 .. p - 1 : s[k] = a[k]
        /\ \A k \in p .. Len(a) : s[k + 1] = a[k]
    BY <1>4, <2>2
  <2>a. f < p /\ p <= Len(a) /\ nargs = Len(a) - p /\ Len(s) = Len(a) + 1 /\ Len(a) \in Nat
    BY <1>3, <1>a, <2>1, <2>2
  <2>7. f <= r /\ nargs + 1 = m /\ r + m = Len(a) /\ p + m = Len(s) /\ r <= Len(s)
    BY <2>4, <2>5, <2>a
  <2>8. Matches(s, 0, a, 0, r)
    <3> SUFFICES ASSUME NEW i \in 1 .. r PROVE s[0 + i] = a[0 + i] BY DEF Matches
    <3>1. 0 + i = i /\ i \in 1 .. p - 1 BY <2>4
    <3> QED BY <3>1, <2>6
  <2>9. Matches(s, p, a, r, m)
    <3> SUFFICES ASSUME NEW i \in 1 .. m PROVE s[p + i] = a[r + i] BY DEF Matches
    <3>1. r + i \in p .. Len(a) /\ (r + i) + 1 = p + i BY <2>4, <2>5, <2>a
    <3>2. PICK k : k = r + i OBVIOUS
    <3>3. s[k + 1] = a[k] BY <3>1, <3>2, <2>6
    <3> QED BY <3>1, <3>2, <3>3
  <2>10. Args(a, f, s, p, r, nargs) BY <2>7, <2>8, <2>9, ArgsAre
  <2>11. /\ nargs < Len(Above(a, f)) /\ Above(a, f) \in Seq(Values)
         /\ s[p + 1] = Above(a, f)[Len(Above(a, f)) - nargs]
         /\ Above(s, p + 1) = AF!Take(Above(a, f), nargs)
         /\ SubSeq(s, f + 1, r) = AF!Drop(Above(a, f), nargs + 1)
    BY <2>10 DEF Args, Between
  <2>12. vals = Above(a, f) BY <2>1, <2>2
  <2> HIDE DEF vals
  <2>13. nargs < Len(vals) /\ vals \in Seq(Values) BY <2>11, <2>12
  <2>14. s[func] = vals[Len(vals) - nargs] /\ Above(s, func) = AF!Take(vals, nargs)
    BY <2>11, <2>12, <1>5
  <2>15. SubSeq(s, ci.func + 1, p - 1) = AF!Drop(vals, nargs + 1) BY <2>1, <2>4, <2>11, <2>12
  <2> QED BY <2>13, <2>14, <2>15
<1> HIDE DEF vals
<1>14. ValsOf(s, d) = AF!Drop(vals, nargs + 1)
  <2>1. ValsOf(s, d) = SubSeq(s, ci.func + 1, p - 1)
    <3>1. Waits(d) /\ p # 0 BY <1>3, <1>a, <1>9 DEF Waits
    <3>2. d.at = p BY <1>4
    <3> QED BY <3>1, <3>2, <1>9 DEF ValsOf
  <2> QED BY <2>1, <1>10
<1>15. AF!Calls(vals, nargs, nres) /\ UNCHANGED <<errorHandler, globals>>
  <2>1. ci.func <= Len(x.stack) + 1 /\ \A i \in 1 .. ci.func - 1 : x.stack[i] = stack[i]
    <3>1. \A k \in 1 .. p - 1 : s[k] = stack[k] BY <1>4
    <3>2. ci.func <= Len(s) + 1 /\ \A i \in 1 .. ci.func - 1 : i \in 1 .. p - 1 BY <1>a, <1>3
    <3>3. x.stack = s BY <1>7
    <3> QED BY <3>1, <3>2, <3>3
  <2>2. /\ x.stack[func] = vals[Len(vals) - nargs] /\ Above(x.stack, func) = AF!Take(vals, nargs)
        /\ ValsOf(x.stack, d) = AF!Drop(vals, nargs + 1)
    BY <1>5, <1>7, <1>10, <1>14
  <2> QED BY <2>1, <2>2, <1>2, <1>7, <1>8, <1>9, <1>10, CallMaps
<1>16. AF!JavaRuns /\ AF!Inner.vals = vals BY <1>2, JavaRunsSeen DEF vals
<1>17. PICK c : c = call' OBVIOUS
<1>18. c.m = "luaPcall" /\ c.i = nargs /\ c.j = nres BY <1>1, <1>17
<1>19. AF!LuaPcall(c) BY <1>10, <1>15, <1>16, <1>18 DEF AF!LuaPcall
<1> QED BY <1>17, <1>19 DEF AF!Step

\* A call where the values of the frame are.
LEMMA ArgsHere ==
  ASSUME NEW a \in Seq(Values), NEW f \in Nat, NEW r \in Nat, NEW n \in Nat,
         f <= r, r + 1 + n = Len(a)
  PROVE  Args(a, f, a, r, r, n)
<1>1. PICK m \in Nat : m = n + 1 OBVIOUS
<1>2. f <= r /\ n + 1 = m /\ r + m = Len(a) /\ r <= Len(a) BY <1>1
<1>3. Matches(a, 0, a, 0, r) /\ Matches(a, r, a, r, m) BY DEF Matches
<1> QED BY <1>2, <1>3, ArgsAre

\* A script takes the function and its arguments off the registers it fills.
LEMMA ScriptCallsMaps ==
  ASSUME ApiInv, ApiInv', NEW nargs \in Nat, NEW nres \in Nat, ScriptCalls(nargs, nres),
         call' = [m |-> "ScriptCalls", i |-> nargs, j |-> nres, v |-> None]
  PROVE  AF!Step(call')
<1>1. ~raising /\ ci.kind = "script" /\ ci.status = "run" BY ScriptWaits
<1>2. PICK x \in Threads, d \in CallInfo, ra \in Nat \ {0} :
               /\ ra = Len(stack) - nargs /\ ci.func < ra /\ ra <= Len(stack) /\ d.at = ra
               /\ d.kind = ci.kind /\ d.func = ci.func /\ d.nres = ci.nres
               /\ d.status = "calling" /\ d.exc = ci.exc
               /\ x.stack = stack /\ x.cis = Append(Front(cis), d) /\ x.size = size
               /\ Body(x) /\ Last(x.cis) = d /\ Callable(x, "java", ra, nres)
               /\ luaD_precall(x, ra, nres)
  BY ScriptWaits
<1>a. /\ ra = Len(stack) - nargs /\ ci.func < ra /\ ra <= Len(stack) /\ d.at = ra
      /\ d.func = ci.func /\ d.status = "calling" /\ x.stack = stack
  BY <1>2
<1>3. /\ stack \in Seq(Values) /\ Len(stack) \in Nat /\ ci.func \in Nat /\ ci.func <= Len(stack)
  BY InnermostFacts
<1> DEFINE vals == Above(stack, ci.func)
<1>4. /\ nargs < Len(vals) /\ vals \in Seq(Values)
      /\ stack[ra] = vals[Len(vals) - nargs]
      /\ Above(stack, ra) = AF!Take(vals, nargs)
      /\ SubSeq(stack, ci.func + 1, ra - 1) = AF!Drop(vals, nargs + 1)
  <2>1. PICK f \in Nat : f = ci.func BY <1>3
  <2>2. PICK a \in Seq(Values) : a = stack BY <1>3
  <2>3. PICK p \in Nat : p = ra BY <1>2
  <2>4. f < p /\ p + nargs = Len(a) BY <2>1, <2>2, <2>3, <1>a, <1>3
  <2>a. PICK r \in Nat : r = p - 1 BY <2>4
  <2>b. f <= r /\ r + 1 = p /\ r + 1 + nargs = Len(a) BY <2>4, <2>a
  <2>c. Args(a, f, a, r, r, nargs) BY <2>b, ArgsHere
  <2>5. /\ nargs < Len(Above(a, f)) /\ Above(a, f) \in Seq(Values)
        /\ a[p] = Above(a, f)[Len(Above(a, f)) - nargs]
        /\ Above(a, p) = AF!Take(Above(a, f), nargs)
        /\ SubSeq(a, f + 1, p - 1) = AF!Drop(Above(a, f), nargs + 1)
    BY <2>a, <2>b, <2>c DEF Args, Between
  <2>6. vals = Above(a, f) BY <2>1, <2>2
  <2> HIDE DEF vals
  <2>7. nargs < Len(vals) /\ vals \in Seq(Values) BY <2>5, <2>6
  <2>8. stack[ra] = vals[Len(vals) - nargs] BY <2>2, <2>3, <2>5, <2>6
  <2>9. Above(stack, ra) = AF!Take(vals, nargs) BY <2>2, <2>3, <2>5, <2>6
  <2>10. SubSeq(stack, ci.func + 1, ra - 1) = AF!Drop(vals, nargs + 1)
    BY <2>1, <2>2, <2>3, <2>5, <2>6
  <2> QED BY <2>7, <2>8, <2>9, <2>10
<1> HIDE DEF vals
<1>5. ValsOf(stack, d) = AF!Drop(vals, nargs + 1)
  <2>1. Waits(d) /\ ra # 0 BY <1>a DEF Waits
  <2>2. ValsOf(stack, d) = SubSeq(stack, ci.func + 1, ra - 1) BY <2>1, <1>a DEF ValsOf
  <2> QED BY <2>2, <1>4
<1>6. AF!Calls(vals, nargs, nres) /\ UNCHANGED <<errorHandler, globals>>
  <2>1. ci.func <= Len(x.stack) + 1 /\ \A i \in 1 .. ci.func - 1 : x.stack[i] = stack[i]
    BY <1>a, <1>3
  <2>2. /\ x.stack[ra] = vals[Len(vals) - nargs] /\ Above(x.stack, ra) = AF!Take(vals, nargs)
        /\ ValsOf(x.stack, d) = AF!Drop(vals, nargs + 1)
    BY <1>a, <1>4, <1>5
  <2>3. /\ Body(x) /\ d \in CallInfo /\ x.cis = Append(Front(cis), d) /\ Last(x.cis) = d
        /\ d.kind = ci.kind /\ d.nres = ci.nres /\ d.exc = ci.exc /\ d.status = "calling"
        /\ Callable(x, "java", ra, nres) /\ luaD_precall(x, ra, nres)
        /\ nres \in Nat \cup {LUA_MULTRET}
    BY <1>2
  <2> QED BY <2>1, <2>2, <2>3, <1>1, <1>4, CallMaps
<1>7. /\ AF!Inner.vals = vals /\ AF!Inner.kind = "script" /\ AF!Inner.status = "run"
      /\ (IF raising THEN Last(stack) ELSE None) = None
  BY <1>1, JavaRunsSeen DEF vals
<1>8. AF!ScriptRuns BY <1>7, SameNames DEF AF!ScriptRuns
<1>9. PICK c : c = call' OBVIOUS
<1>10. c.m = "ScriptCalls" /\ c.i = nargs /\ c.j = nres BY <1>9
<1>11. AF!ScriptCalls(c) BY <1>4, <1>6, <1>7, <1>8, <1>10 DEF AF!ScriptCalls
<1> QED BY <1>9, <1>11 DEF AF!Step

\* pcall calls its first argument, or fails without one.
LEMMA PCallCallsMaps ==
  ASSUME ApiInv, ApiInv', PCallCalls, call' = [m |-> "PCallCalls", i |-> 0, j |-> 0, v |-> None]
  PROVE  AF!Step(call')
<1>1. ~raising /\ ci.kind = "pcall" /\ ci.status = "run" BY DEF PCallCalls
<1>2. /\ stack \in Seq(Values) /\ Len(stack) \in Nat /\ ci.func \in Nat /\ ci.func <= Len(stack)
  BY InnermostFacts
<1> DEFINE u == Above(stack, ci.func)
<1>3. /\ AF!Inner.vals = u /\ AF!Inner.kind = "pcall" /\ AF!Inner.status = "run"
      /\ (IF raising THEN Last(stack) ELSE None) = None
  BY <1>1, JavaRunsSeen
<1>4. /\ u \in Seq(Values) /\ Len(u) = Len(stack) - ci.func
      /\ \A i \in 1 .. Len(stack) - ci.func : u[i] = stack[ci.func + i]
  <2>1. ci.func \in 0 .. Len(stack) BY <1>2
  <2> QED BY <2>1, <1>2, AboveIs
<1>5. lua_gettop = Len(u) BY <1>2, <1>4 DEF lua_gettop, Top
<1> HIDE DEF u
<1>6. PICK c : c = call' OBVIOUS
<1>7. c.m = "PCallCalls" BY <1>6
<1>8. CASE lua_gettop = 0
  <2> DEFINE x == Thread
  <2>1. /\ Body(x) /\ x.stack = stack /\ Last(x.cis) = ci
    BY InnermostFacts
  <2>2. Raise(x, Str) /\ Str \in Values BY <1>8 DEF PCallCalls, Values, Strings
  <2>3. Frames = FramesOf(x) BY FramesNow
  <2>4. UNCHANGED <<errorHandler, globals>> BY <2>2 DEF Raise, Becomes
  <2> HIDE DEF x
  <2>5. ci.at = 0
    <3>1. Runs(ci, Len(stack)) BY <1>1 DEF ApiInv
    <3> QED BY <3>1, <1>1 DEF Runs
  <2>6. Faulting(x) BY <1>1, <2>1, <2>5 DEF Faulting, InPcall
  <2>7. Frames' = FramesOf(x) /\ raising' /\ Last(stack') = Str BY <2>1, <2>2, <2>6, RaiseMaps
  <2>8. u = <<>> BY <1>4, <1>5, <1>8
  <2>9. (IF raising THEN Last(stack) ELSE None)' = AF!Str BY <2>7, SameNames
  <2>10. AF!PCallCalls(c)
    BY <1>1, <1>3, <1>7, <2>3, <2>4, <2>7, <2>8, <2>9, SameNames DEF AF!PCallCalls
  <2> QED BY <2>10, <1>6 DEF AF!Step
<1>9. CASE lua_gettop # 0
  <2>1. PICK s \in Seq(Values), d \in CallInfo, func \in Nat :
               /\ func = ci.func + 2 /\ d.at = func /\ ci.func + 1 <= Len(stack)
               /\ Len(s) = Len(stack) + 1 /\ s[ci.func + 1] = Nil
               /\ \A k \in ci.func + 1 .. Len(stack) : s[k + 1] = stack[k]
               /\ Waitable(s, d, func, LUA_MULTRET)
               /\ luaD_precall(Waiting(s, d, func), func, LUA_MULTRET)
    BY <1>9, PCallWaits
  <2> DEFINE x == Waiting(s, d, func)
  <2>2. LUA_MULTRET \in Nat \cup {LUA_MULTRET} /\ ci.kind # "script" BY <1>1
  <2>3. /\ Body(x) /\ Callable(x, "java", func, LUA_MULTRET) /\ func \in Nat \ {0}
        /\ x.stack = s /\ x.cis = Append(Front(cis), d) /\ Last(x.cis) = d
    <3>1. PICK nres \in Nat \cup {LUA_MULTRET} : nres = LUA_MULTRET BY <2>2
    <3>2. ~raising /\ ci.status = "run" /\ ci.kind # "script" BY <1>1
    <3>3. Waitable(s, d, func, nres) BY <2>1, <3>1
    <3>4. /\ Body(x) /\ Callable(x, "java", func, nres) /\ func \in Nat \ {0}
          /\ x.stack = s /\ x.cis = Append(Front(cis), d) /\ Last(x.cis) = d
      BY <3>2, <3>3, PcallkWaits
    <3> QED BY <3>1, <3>4
  <2>4. luaD_precall(x, func, LUA_MULTRET) BY <2>1
  <2> HIDE DEF x
  <2>5. /\ d.kind = ci.kind /\ d.func = ci.func /\ d.nres = ci.nres /\ d.exc = ci.exc
        /\ d.status = "calling" /\ ci.func <= Len(s) /\ \A i \in 1 .. ci.func : s[i] = stack[i]
    BY <2>1 DEF Waitable
  <2> DEFINE vals == Above(s, ci.func)
             n == Len(u) - 1
  <2>6. n \in Nat /\ func + n = Len(s) /\ ci.func < func BY <2>1, <1>2, <1>4
  <2> HIDE DEF n
  <2>7. /\ n < Len(vals) /\ vals \in Seq(Values)
        /\ s[func] = vals[Len(vals) - n]
        /\ Above(s, func) = AF!Take(vals, n)
        /\ SubSeq(s, ci.func + 1, func - 1) = AF!Drop(vals, n + 1)
    <3>1. PICK f \in Nat : f = ci.func BY <1>2
    <3>2. f < func /\ func + n = Len(s) BY <3>1, <2>6
    <3>a. PICK r \in Nat : r = func - 1 BY <3>2
    <3>b. f <= r /\ r + 1 = func /\ r + 1 + n = Len(s) /\ n \in Nat BY <3>2, <3>a, <2>6
    <3>c. Args(s, f, s, r, r, n) BY <3>b, ArgsHere
    <3>3. /\ n < Len(Above(s, f)) /\ Above(s, f) \in Seq(Values)
          /\ s[func] = Above(s, f)[Len(Above(s, f)) - n]
          /\ Above(s, func) = AF!Take(Above(s, f), n)
          /\ SubSeq(s, f + 1, r) = AF!Drop(Above(s, f), n + 1)
      BY <3>b, <3>c DEF Args, Between
    <3>4. vals = Above(s, f) BY <3>1
    <3> HIDE DEF vals
    <3>5. n < Len(vals) /\ vals \in Seq(Values) BY <3>3, <3>4
    <3>6. s[func] = vals[Len(vals) - n] /\ Above(s, func) = AF!Take(vals, n) BY <3>3, <3>4
    <3>7. SubSeq(s, ci.func + 1, func - 1) = AF!Drop(vals, n + 1) BY <3>1, <3>a, <3>3, <3>4
    <3> QED BY <3>5, <3>6, <3>7
  <2>8. vals = <<Nil>> \o u
    <3>1. PICK f \in Nat : f = ci.func BY <1>2
    <3> DEFINE b == <<Nil>>  t == b \o u  l == Len(stack)
    <3>2. b \in Seq(Values) /\ Len(b) = 1 /\ b[1] = Nil BY DEF Values
    <3> HIDE DEF b
    <3>9. b \in Seq(Values) /\ u \in Seq(Values) BY <3>2, <1>4
    <3>3. /\ b \o u \in Seq(Values) /\ Len(b \o u) = Len(b) + Len(u)
          /\ \A k \in 1 .. Len(b) : (b \o u)[k] = b[k]
          /\ \A k \in 1 .. Len(u) : (b \o u)[Len(b) + k] = u[k]
      BY <3>9, ConcatIs
    <3>4. /\ l \in Nat /\ f <= l /\ Len(u) = l - f /\ Len(s) = l + 1
          /\ \A i \in 1 .. l - f : u[i] = stack[f + i]
          /\ \A k \in f + 1 .. l : s[k + 1] = stack[k]
          /\ s[f + 1] = Nil
      BY <3>1, <1>2, <1>4, <2>1
    <3> HIDE DEF l, t
    <3>5. t \in Seq(Values) /\ Len(t) = l - f + 1 /\ t[1] = Nil
          /\ \A k \in 1 .. l - f : t[1 + k] = u[k]
      <4>1. 1 \in 1 .. 1 OBVIOUS
      <4>2. 1 + (l - f) = l - f + 1 BY <3>4
      <4> QED BY <4>1, <4>2, <3>2, <3>3, <3>4 DEF t
    <3>6. ASSUME NEW i \in 1 .. Len(t) PROVE t[i] = s[f + i]
      <4>1. CASE i = 1 BY <4>1, <3>4, <3>5
      <4>2. CASE i # 1
        <5>1. i - 1 \in 1 .. l - f /\ 1 + (i - 1) = i BY <4>2, <3>4, <3>5
        <5>2. t[1 + (i - 1)] = u[i - 1] BY <5>1, <3>5
        <5>3. u[i - 1] = stack[f + (i - 1)] BY <5>1, <3>4
        <5>4. f + (i - 1) \in f + 1 .. l /\ (f + (i - 1)) + 1 = f + i BY <5>1, <3>4
        <5>5. s[(f + (i - 1)) + 1] = stack[f + (i - 1)] BY <5>4, <3>4
        <5> QED BY <5>1, <5>2, <5>3, <5>4, <5>5
      <4> QED BY <4>1, <4>2
    <3>7. f \in 0 .. Len(s) /\ Len(t) = Len(s) - f BY <3>4, <3>5
    <3>8. Above(s, f) = t BY <3>5, <3>6, <3>7, AboveByElements
    <3> QED BY <3>1, <3>8 DEF t, b
  <2> HIDE DEF vals
  <2>9. ValsOf(s, d) = AF!Drop(vals, n + 1)
    <3>1. Waits(d) /\ func # 0 BY <2>3, <2>5 DEF Waits
    <3>2. ValsOf(s, d) = SubSeq(s, ci.func + 1, func - 1) BY <3>1, <2>1, <2>5 DEF ValsOf
    <3> QED BY <3>2, <2>7
  <2>10. AF!Calls(vals, n, LUA_MULTRET) /\ UNCHANGED <<errorHandler, globals>>
    <3>1. ci.func <= Len(x.stack) + 1 /\ \A i \in 1 .. ci.func - 1 : x.stack[i] = stack[i]
      BY <1>2, <2>1, <2>3, <2>5
    <3>2. /\ x.stack[func] = vals[Len(vals) - n] /\ Above(x.stack, func) = AF!Take(vals, n)
          /\ ValsOf(x.stack, d) = AF!Drop(vals, n + 1)
      BY <2>3, <2>7, <2>9
    <3> QED BY <3>1, <3>2, <1>1, <2>2, <2>3, <2>4, <2>5, <2>6, <2>7, CallMaps
  <2>11. u # <<>> BY <1>4, <1>5, <1>9
  <2>12. AF!Calls(<<AF!Nil>> \o AF!Inner.vals, Len(AF!Inner.vals) - 1, AF!MULTRET)
    BY <2>8, <2>10, <1>3, SameNames DEF n
  <2>13. AF!PCallCalls(c) BY <1>3, <1>7, <2>10, <2>11, <2>12, SameNames DEF AF!PCallCalls
  <2> QED BY <2>13, <1>6 DEF AF!Step
<1> QED BY <1>8, <1>9

-----------------------------------------------------------------------------
(* Steps of the innermost frame alone *)

\* A frame with a value more, one whose exception is caught, those that go on
\* after luaPcall, and one that gets results.
Loads(f, v) == [f EXCEPT !.vals = Append(@, v)]

Clear(f) == [f EXCEPT !.exc = AF!None]

GoesOn(f) == [f EXCEPT !.status = "run"]

Threw(f, e) == [f EXCEPT !.status = "run", !.vals = AF!Front(@), !.exc = e]

Given(f, r, g) == [f EXCEPT !.vals = @ \o r, !.status = g]

Becoming(f, g, u, e) == [f EXCEPT !.status = g, !.vals = u, !.exc = e]

\* What these are.
LEMMA BecomingIs ==
  ASSUME NEW k, NEW u, NEW n, NEW g, NEW e, NEW h, NEW w, NEW f
  PROVE  Becoming(ViewIs(k, u, n, g, e), h, w, f) = ViewIs(k, w, n, h, f)
<1> DEFINE r == [kind |-> k, vals |-> u, want |-> n, status |-> g, exc |-> e]
           q == [kind |-> k, vals |-> w, want |-> n, status |-> h, exc |-> f]
           R == [kind: {k}, vals: {u, w}, want: {n}, status: {g, h}, exc: {e, f}]
<1>1. r \in R /\ q \in R OBVIOUS
<1>2. q.kind = k /\ q.want = n /\ q.exc = f /\ q.status = h /\ q.vals = w OBVIOUS
<1>3. r.kind = k /\ r.want = n OBVIOUS
<1>4. r = ViewIs(k, u, n, g, e) /\ q = ViewIs(k, w, n, h, f) BY DEF ViewIs
<1> HIDE DEF r, q
<1>5. [r EXCEPT !.status = h, !.vals = w, !.exc = f] = q BY <1>1, <1>2, <1>3
<1> QED BY <1>4, <1>5 DEF Becoming

\* The parts of a frame.
LEMMA ViewParts ==
  ASSUME NEW k, NEW u, NEW n, NEW g, NEW e, NEW r, r = ViewIs(k, u, n, g, e)
  PROVE  r.kind = k /\ r.vals = u /\ r.want = n /\ r.status = g /\ r.exc = e
BY DEF ViewIs

\* A frame with a value more.
LEMMA LoadsIs ==
  ASSUME NEW k, NEW u, NEW n, NEW g, NEW e, NEW x
  PROVE  Loads(ViewIs(k, u, n, g, e), x) = ViewIs(k, Append(u, x), n, g, e)
<1> DEFINE r == ViewIs(k, u, n, g, e)
<1>1. r.vals = u /\ r.status = g /\ r.exc = e BY ViewParts
<1>2. DOMAIN r = {"kind", "vals", "want", "status", "exc"} BY DEF ViewIs
<1>3. PICK w : w = Append(u, x) OBVIOUS
<1>4. PICK h : h = g OBVIOUS
<1>5. PICK f : f = e OBVIOUS
<1>6. Becoming(r, h, w, f) = ViewIs(k, w, n, h, f) BY BecomingIs
<1> HIDE DEF r
<1>7. Loads(r, x) = Becoming(r, h, w, f)
  BY <1>1, <1>2, <1>3, <1>4, <1>5 DEF Loads, Becoming
<1> QED BY <1>3, <1>4, <1>5, <1>6, <1>7 DEF r

\* A frame without its exception.
LEMMA ClearIs ==
  ASSUME NEW k, NEW u, NEW n, NEW g, NEW e
  PROVE  Clear(ViewIs(k, u, n, g, e)) = ViewIs(k, u, n, g, None)
<1> DEFINE r == ViewIs(k, u, n, g, e)
<1>1. r.vals = u /\ r.status = g /\ r.exc = e BY ViewParts
<1>2. DOMAIN r = {"kind", "vals", "want", "status", "exc"} BY DEF ViewIs
<1>3. PICK w : w = u OBVIOUS
<1>4. PICK h : h = g OBVIOUS
<1>5. PICK f : f = None OBVIOUS
<1>6. Becoming(r, h, w, f) = ViewIs(k, w, n, h, f) BY BecomingIs
<1> HIDE DEF r
<1>7. Clear(r) = Becoming(r, h, w, f)
  BY <1>1, <1>2, <1>3, <1>4, <1>5, SameNames DEF Clear, Becoming
<1> QED BY <1>3, <1>4, <1>5, <1>6, <1>7 DEF r

\* A frame that goes on.
LEMMA GoesOnIs ==
  ASSUME NEW k, NEW u, NEW n, NEW g, NEW e
  PROVE  GoesOn(ViewIs(k, u, n, g, e)) = ViewIs(k, u, n, "run", e)
<1> DEFINE r == ViewIs(k, u, n, g, e)
<1>1. r.vals = u /\ r.status = g /\ r.exc = e BY ViewParts
<1>2. DOMAIN r = {"kind", "vals", "want", "status", "exc"} BY DEF ViewIs
<1>3. PICK w : w = u OBVIOUS
<1>4. PICK h : h = "run" OBVIOUS
<1>5. PICK f : f = e OBVIOUS
<1>6. Becoming(r, h, w, f) = ViewIs(k, w, n, h, f) BY BecomingIs
<1> HIDE DEF r
<1>7. GoesOn(r) = Becoming(r, h, w, f)
  BY <1>1, <1>2, <1>3, <1>4, <1>5 DEF GoesOn, Becoming
<1> QED BY <1>3, <1>4, <1>5, <1>6, <1>7 DEF r

\* A frame in which luaPcall threw.
LEMMA ThrewIs ==
  ASSUME NEW k, NEW u, NEW n, NEW g, NEW e, NEW x
  PROVE  Threw(ViewIs(k, u, n, g, e), x) = ViewIs(k, Front(u), n, "run", x)
<1> DEFINE r == ViewIs(k, u, n, g, e)
<1>1. r.vals = u /\ r.status = g /\ r.exc = e BY ViewParts
<1>2. DOMAIN r = {"kind", "vals", "want", "status", "exc"} BY DEF ViewIs
<1>3. PICK w : w = Front(u) OBVIOUS
<1>4. PICK h : h = "run" OBVIOUS
<1>5. PICK f : f = x OBVIOUS
<1>6. Becoming(r, h, w, f) = ViewIs(k, w, n, h, f) BY BecomingIs
<1> HIDE DEF r
<1>7. Threw(r, x) = Becoming(r, h, w, f)
  BY <1>1, <1>2, <1>3, <1>4, <1>5, SameNames DEF Threw, Becoming
<1> QED BY <1>3, <1>4, <1>5, <1>6, <1>7 DEF r

\* A frame that gets results.
LEMMA GivenIs ==
  ASSUME NEW k, NEW u, NEW n, NEW g, NEW e, NEW x, NEW h
  PROVE  Given(ViewIs(k, u, n, g, e), x, h) = ViewIs(k, u \o x, n, h, e)
<1> DEFINE r == ViewIs(k, u, n, g, e)
<1>1. r.vals = u /\ r.status = g /\ r.exc = e BY ViewParts
<1>2. DOMAIN r = {"kind", "vals", "want", "status", "exc"} BY DEF ViewIs
<1>3. PICK w : w = u \o x OBVIOUS
<1>5. PICK f : f = e OBVIOUS
<1>6. Becoming(r, h, w, f) = ViewIs(k, w, n, h, f) BY BecomingIs
<1> HIDE DEF r
<1>7. Given(r, x, h) = Becoming(r, h, w, f)
  BY <1>1, <1>2, <1>3, <1>5 DEF Given, Becoming
<1> QED BY <1>3, <1>5, <1>6, <1>7 DEF r

\* An exception in a Java function becomes an error with its message.
LEMMA ThrowsMaps ==
  ASSUME ApiInv, ApiInv', NEW v, JavaThrows(v), call' = [m |-> "Throws", i |-> 0, j |-> 0, v |-> v]
  PROVE  AF!Step(call')
<1>1. ~raising /\ ci.kind = "java" /\ ci.status = "run" /\ Raise(Thread, v) BY DEF JavaThrows
<1>2. v \in Values
  <2>1. ci.exc \in {None, "null"} \cup Strings BY InnermostFacts DEF CallInfo
  <2>2. /\ ci.exc = None => v \in {Str, Class}
        /\ ci.exc = "null" => v = Class
        /\ ci.exc \notin {None, "null"} => v = ci.exc
    BY DEF JavaThrows, None
  <2> QED BY <2>1, <2>2 DEF Values, Strings
<1>3. Runs(ci, Len(stack)) BY <1>1 DEF ApiInv
<1> DEFINE x == Thread
<1>4. Body(x) /\ x.stack = stack /\ Last(x.cis) = ci BY InnermostFacts
<1>5. Frames = FramesOf(x) BY FramesNow
<1>6. Raise(x, v) /\ UNCHANGED <<errorHandler, globals>> BY <1>1 DEF Raise, Becomes
<1> HIDE DEF x
<1>7. Faulting(x) BY <1>1, <1>3, <1>4 DEF Faulting, InPcall, Runs
<1>8. Frames' = FramesOf(x) /\ raising' /\ Last(stack') = v BY <1>2, <1>4, <1>6, <1>7, RaiseMaps
<1>9. PICK c : c = call' OBVIOUS
<1>10. c.m = "Throws" /\ c.v = v BY <1>9
<1>11. /\ AF!Inner.kind = "java" /\ AF!Inner.status = "run" /\ AF!Inner.exc = ci.exc
       /\ (IF raising THEN Last(stack) ELSE None) = None
  BY <1>1, JavaRunsSeen
<1>12. (CASE AF!Inner.exc = AF!None -> c.v \in {AF!Str, AF!Class}
          [] AF!Inner.exc = "null" -> c.v = AF!Class
          [] OTHER -> c.v = AF!Inner.exc)
  <2>1. (CASE ci.exc = None -> v \in {Str, Class}
           [] ci.exc = "null" -> v = Class
           [] OTHER -> v = ci.exc)
    BY DEF JavaThrows
  <2>2. AF!None = None /\ AF!Str = Str /\ AF!Class = Class BY SameNames
  <2> QED BY <2>1, <2>2, <1>10, <1>11
<1>13. (IF raising THEN Last(stack) ELSE None)' = c.v BY <1>8, <1>10
<1>14. AF!Throws(c)
  BY <1>5, <1>6, <1>8, <1>10, <1>11, <1>12, <1>13, SameNames DEF AF!Throws
<1> QED BY <1>9, <1>14 DEF AF!Step

\* A script raises an error.
LEMMA ScriptRaisesMaps ==
  ASSUME ApiInv, ApiInv', NEW v, ScriptRaises(v),
         call' = [m |-> "ScriptRaises", i |-> 0, j |-> 0, v |-> v]
  PROVE  AF!Step(call')
<1>1. ~raising /\ ci.kind = "script" /\ ci.status = "run" /\ Raise(Thread, v)
  BY DEF ScriptRaises, ScriptRuns
<1>2. v \in Values BY DEF ScriptRaises, Values, Strings
<1>3. Runs(ci, Len(stack)) BY <1>1 DEF ApiInv
<1> DEFINE x == Thread
<1>4. Body(x) /\ x.stack = stack /\ Last(x.cis) = ci BY InnermostFacts
<1>5. Frames = FramesOf(x) BY FramesNow
<1>6. Raise(x, v) /\ UNCHANGED <<errorHandler, globals>> BY <1>1 DEF Raise, Becomes
<1> HIDE DEF x
<1>7. Faulting(x) BY <1>1, <1>3, <1>4 DEF Faulting, InPcall, Runs
<1>8. Frames' = FramesOf(x) /\ raising' /\ Last(stack') = v BY <1>2, <1>4, <1>6, <1>7, RaiseMaps
<1>9. PICK c : c = call' OBVIOUS
<1>10. c.m = "ScriptRaises" /\ c.v = v BY <1>9
<1>11. /\ AF!Inner.kind = "script" /\ AF!Inner.status = "run"
       /\ (IF raising THEN Last(stack) ELSE None) = None
  BY <1>1, JavaRunsSeen
<1>12. AF!ScriptRuns BY <1>11, SameNames DEF AF!ScriptRuns
<1>13. (IF raising THEN Last(stack) ELSE None)' = c.v BY <1>8, <1>10
<1>14. AF!ScriptRaises(c) BY <1>5, <1>6, <1>8, <1>10, <1>12, <1>13 DEF AF!ScriptRaises
<1> QED BY <1>9, <1>14 DEF AF!Step

\* An exception that luaPcall threw is caught.
LEMMA CatchesMaps ==
  ASSUME ApiInv, ApiInv', JavaCatches, call' = [m |-> "Catches", i |-> 0, j |-> 0, v |-> None]
  PROVE  AF!Step(call')
<1> DEFINE d == [ci EXCEPT !.exc = None]
<1>1. /\ ci \in CallInfo /\ stack \in Seq(Values) /\ Len(stack) \in Nat /\ ci.func <= Len(stack)
      /\ ci.func \in Nat
  BY InnermostFacts
<1>2. /\ ~raising /\ ci.kind \in JavaKinds /\ ci.exc # None
      /\ cis' = Append(Front(cis), d) /\ stack' = stack
      /\ UNCHANGED <<errorHandler, raising, globals>>
  BY DEF JavaCatches, SetCi
<1>3. /\ d \in CallInfo /\ d.kind = ci.kind /\ d.func = ci.func /\ d.nres = ci.nres /\ d.at = ci.at
      /\ d.status = ci.status /\ d.exc = None
  BY <1>1 DEF CallInfo
<1> HIDE DEF d
<1>4. Frames' = Append(Front(Frames), Seen(stack, d))
  <2>1. PICK s \in Seq(Values) : s = stack BY <1>1
  <2>2. stack' = s /\ ci.func <= Len(s) + 1 /\ \A i \in 1 .. ci.func - 1 : s[i] = stack[i]
    BY <2>1, <1>1, <1>2
  <2> QED BY <2>1, <2>2, <1>2, <1>3, InnerChanges
<1>5. Seen(stack, d) = Clear(AF!Inner)
  <2> DEFINE k == ci.kind  u == ValsOf(stack, ci)  n == ci.nres  g == ci.status  e == ci.exc
  <2>1. AF!Inner = Seen(stack, ci) BY FramesNow
  <2>2. Seen(stack, ci) = ViewIs(k, u, n, g, e) BY SeenParts
  <2>3. ValsOf(stack, d) = u BY <1>3 DEF ValsOf, Waits
  <2>4. Seen(stack, d) = ViewIs(k, u, n, g, None) BY <2>3, <1>3 DEF Seen, ViewIs
  <2> HIDE DEF k, u, n, g, e
  <2>5. Clear(ViewIs(k, u, n, g, e)) = ViewIs(k, u, n, g, None) BY ClearIs
  <2> QED BY <2>1, <2>2, <2>4, <2>5
<1>6. AF!SetInner([AF!Inner EXCEPT !.exc = AF!None])
  BY <1>4, <1>5, SameNames DEF AF!SetInner, Clear
<1>7. PICK c : c = call' OBVIOUS
<1>8. c.m = "Catches" BY <1>7
<1>9. AF!Inner.kind = ci.kind /\ AF!Inner.exc = ci.exc BY FramesNow, SeenParts
<1>10. (IF raising THEN Last(stack) ELSE None) = None
       /\ (IF raising THEN Last(stack) ELSE None)' = None
  BY <1>2
<1>11. AF!Catches(c) BY <1>2, <1>6, <1>8, <1>9, <1>10, SameNames DEF AF!Catches
<1> QED BY <1>7, <1>11 DEF AF!Step

\* A script uses a register more.
LEMMA ScriptLoadsMaps ==
  ASSUME ApiInv, ApiInv', NEW v, ScriptLoads(v),
         call' = [m |-> "ScriptLoads", i |-> 0, j |-> 0, v |-> v]
  PROVE  AF!Step(call')
<1>1. /\ ci \in CallInfo /\ stack \in Seq(Values) /\ Len(stack) \in Nat /\ ci.func <= Len(stack)
      /\ ci.func \in Nat /\ ci.func >= 1 /\ cis \in Seq(CallInfo) /\ cis # <<>> /\ ci = Last(cis)
      /\ ci.top \in Nat /\ globals \in Values
  BY InnermostFacts
<1>2. /\ ~raising /\ ci.kind = "script" /\ ci.status = "run" /\ v \in {Num, globals, vararg1}
      /\ cis' = cis /\ stack' = Append(stack, v) /\ UNCHANGED <<errorHandler, raising, globals>>
  BY DEF ScriptLoads, ScriptRuns
<1>3. v \in Values
  <2>1. CASE ci.func + 1 < base
    <3>1. Runs(ci, Len(stack)) BY <1>2 DEF ApiInv
    <3>2. ci.top <= Len(stack) + 1 + MaxStackSize BY <3>1, <1>2 DEF Runs
    <3>3. ci.func + 1 \in 1 .. Len(stack) BY <2>1, <3>2, <1>1, Sizes DEF base
    <3>4. vararg1 = stack[ci.func + 1] BY <2>1 DEF vararg1
    <3>5. stack[ci.func + 1] \in Values BY <3>3, <1>1
    <3> QED BY <3>4, <3>5, <1>1, <1>2 DEF Values
  <2>2. CASE ~(ci.func + 1 < base)
    <3>1. vararg1 = Nil BY <2>2 DEF vararg1
    <3> QED BY <3>1, <1>1, <1>2 DEF Values
  <2> QED BY <2>1, <2>2
<1>4. PICK s \in Seq(Values) : s = Append(stack, v) /\ ci.func <= Len(s) + 1
                              /\ \A i \in 1 .. ci.func - 1 : s[i] = stack[i]
  <2> DEFINE t == Append(stack, v)
  <2>1. /\ t \in Seq(Values) /\ Len(t) = Len(stack) + 1
        /\ \A i \in 1 .. Len(stack) : t[i] = stack[i]
    BY <1>1, <1>3, AppendIs
  <2>2. \A i \in 1 .. ci.func - 1 : i \in 1 .. Len(stack) BY <1>1
  <2> HIDE DEF t
  <2>3. ci.func <= Len(t) + 1 BY <2>1, <1>1
  <2>4. \A i \in 1 .. ci.func - 1 : t[i] = stack[i] BY <2>1, <2>2
  <2>5. t = Append(stack, v) BY DEF t
  <2> QED BY <2>1, <2>3, <2>4, <2>5
<1>5. Frames' = Append(Front(Frames), Seen(s, ci))
  <2>1. cis' = Append(Front(cis), ci) BY <1>1, <1>2, FrontLast
  <2>2. PICK d \in CallInfo : d = ci BY <1>1
  <2>3. cis' = Append(Front(cis), d) /\ stack' = s BY <2>1, <2>2, <1>2, <1>4
  <2>4. Frames' = Append(Front(Frames), Seen(s, d)) BY <2>3, <1>4, InnerChanges
  <2> QED BY <2>2, <2>4
<1>6. Seen(s, ci) = Loads(AF!Inner, v)
  <2> DEFINE k == ci.kind  u == Above(stack, ci.func)  n == ci.nres  g == ci.status  e == ci.exc
  <2>0. ci.at = 0 BY <1>2, RunningIs
  <2>1. AF!Inner = Seen(stack, ci) BY FramesNow
  <2>2. ValsOf(stack, ci) = u /\ ValsOf(s, ci) = Above(s, ci.func)
    BY <2>0, <1>2 DEF ValsOf, Waits, Above
  <2>3. Above(s, ci.func) = Append(u, v)
    <3>1. ci.func \in 0 .. Len(stack) BY <1>1
    <3>2. Above(Append(stack, v), ci.func) = Append(Above(stack, ci.func), v)
      BY <3>1, <1>1, <1>3, AboveAppend
    <3> QED BY <3>2, <1>4
  <2>6. /\ Seen(stack, ci) = ViewIs(ci.kind, ValsOf(stack, ci), ci.nres, ci.status, ci.exc)
        /\ Seen(s, ci) = ViewIs(ci.kind, ValsOf(s, ci), ci.nres, ci.status, ci.exc)
    BY SeenParts
  <2>4. Seen(stack, ci) = ViewIs(k, u, n, g, e) /\ Seen(s, ci) = ViewIs(k, Append(u, v), n, g, e)
    BY <2>2, <2>3, <2>6
  <2> HIDE DEF k, u, n, g, e
  <2>5. Loads(ViewIs(k, u, n, g, e), v) = ViewIs(k, Append(u, v), n, g, e) BY LoadsIs
  <2> QED BY <2>1, <2>4, <2>5
<1>7. PICK c : c = call' OBVIOUS
<1>8. c.m = "ScriptLoads" /\ c.v = v BY <1>7
<1>9. AF!SetInner([AF!Inner EXCEPT !.vals = Append(@, c.v)])
  BY <1>5, <1>6, <1>8, SameNames DEF AF!SetInner, Loads
<1>10. /\ AF!Inner.kind = "script" /\ AF!Inner.status = "run"
       /\ (IF raising THEN Last(stack) ELSE None) = None
  BY <1>2, JavaRunsSeen
<1>11. AF!ScriptRuns BY <1>10, SameNames DEF AF!ScriptRuns
<1>12. (IF raising THEN Last(stack) ELSE None)' = None BY <1>2
<1>13. AF!ScriptLoads(c) BY <1>2, <1>8, <1>9, <1>10, <1>11, <1>12 DEF AF!ScriptLoads
<1> QED BY <1>7, <1>13 DEF AF!Step

-----------------------------------------------------------------------------
(* Returns *)

\* A list up to p, and g after it.
Topped(s, p, g) == SubSeq(s, 1, p) \o g

Tops(T, t, s, p, g) ==
    /\ t \in Seq(T) /\ Len(t) = p + Len(g) /\ Len(g) \in Nat
    /\ \A i \in 1 .. p : t[i] = s[i]
    /\ \A i \in 1 .. Len(g) : t[p + i] = g[i]

\* What it is,
LEMMA ToppedIs ==
  ASSUME NEW T, NEW s \in Seq(T), NEW p \in 0 .. Len(s), NEW g \in Seq(T)
  PROVE  Tops(T, Topped(s, p, g), s, p, g)
<1> DEFINE a == SubSeq(s, 1, p)
<1>1. a \in Seq(T) /\ Len(a) = p /\ \A i \in 1 .. p : a[i] = s[i] BY PrefixIs
<1> HIDE DEF a
<1>a. a \in Seq(T) /\ g \in Seq(T) BY <1>1
<1>2. /\ a \o g \in Seq(T) /\ Len(a \o g) = Len(a) + Len(g)
      /\ \A k \in 1 .. Len(a) : (a \o g)[k] = a[k]
      /\ \A k \in 1 .. Len(g) : (a \o g)[Len(a) + k] = g[k]
  BY <1>a, ConcatIs
<1>3. Topped(s, p, g) = a \o g BY DEF Topped, a
<1> DEFINE t == a \o g
<1>4. /\ t \in Seq(T) /\ Len(t) = p + Len(g) /\ Len(g) \in Nat
      /\ \A i \in 1 .. p : t[i] = s[i]
      /\ \A i \in 1 .. Len(g) : t[p + i] = g[i]
  BY <1>1, <1>2
<1> QED BY <1>3, <1>4 DEF Tops

\* what is above a slot of it,
LEMMA AboveTopped ==
  ASSUME NEW T, NEW s \in Seq(T), NEW p \in 0 .. Len(s), NEW g \in Seq(T), NEW f \in 0 .. p
  PROVE  Above(Topped(s, p, g), f) = Between(s, f, p) \o g
<1> DEFINE t == Topped(s, p, g)  a == Between(s, f, p)
<1>0. Tops(T, t, s, p, g) BY ToppedIs
<1>1. /\ t \in Seq(T) /\ Len(t) = p + Len(g) /\ Len(g) \in Nat
      /\ \A i \in 1 .. p : t[i] = s[i]
      /\ \A i \in 1 .. Len(g) : t[p + i] = g[i]
  <2> HIDE DEF t
  <2> QED BY <1>0 DEF Tops
<1>2. a \in Seq(T) /\ Len(a) = p - f /\ p - f \in Nat /\ \A i \in 1 .. p - f : a[i] = s[f + i]
  <2>1. f \in Nat /\ p \in f .. Len(s) OBVIOUS
  <2> QED BY <2>1, PartIs DEF Between
<1> HIDE DEF t, a
<1>a. a \in Seq(T) /\ g \in Seq(T) BY <1>2
<1>3. /\ a \o g \in Seq(T) /\ Len(a \o g) = Len(a) + Len(g)
      /\ \A k \in 1 .. Len(a) : (a \o g)[k] = a[k]
      /\ \A k \in 1 .. Len(g) : (a \o g)[Len(a) + k] = g[k]
  BY <1>a, ConcatIs
<1> DEFINE c == a \o g  n == Len(g)
<1>4. /\ c \in Seq(T) /\ Len(c) = (p - f) + n
      /\ \A k \in 1 .. p - f : c[k] = a[k]
      /\ \A k \in 1 .. n : c[(p - f) + k] = g[k]
  BY <1>2, <1>3
<1> HIDE DEF c
<1>5. n \in Nat /\ p \in Nat /\ f \in Nat /\ f <= p BY <1>1
<1>6. f \in 0 .. Len(t) /\ Len(c) = Len(t) - f BY <1>1, <1>4, <1>5
<1>7. ASSUME NEW i \in 1 .. Len(c) PROVE c[i] = t[f + i]
  <2>1. CASE i <= p - f
    <3>1. i \in 1 .. p - f /\ f + i \in 1 .. p BY <2>1, <1>5
    <3> QED BY <3>1, <1>1, <1>2, <1>4
  <2>2. CASE ~(i <= p - f)
    <3>1. PICK k \in Int : k = i - (p - f) BY <1>5
    <3>2. k \in 1 .. n /\ (p - f) + k = i /\ p + k = f + i BY <3>1, <2>2, <1>4, <1>5
    <3> QED BY <3>2, <1>1, <1>4
  <2> QED BY <2>1, <2>2
<1>8. Above(t, f) = c BY <1>1, <1>4, <1>6, <1>7, AboveByElements
<1> QED BY <1>8 DEF t, a, c

\* Slot p is the k-th above slot f, b the one below it.
Slots(f, b, k, p) == f \in 0 .. p - 1 /\ b + 1 = p /\ f + k = p

\* and without its p-th element.
LEMMA HandlerGone ==
  ASSUME NEW T, NEW s \in Seq(T), NEW p \in 1 .. Len(s), NEW g \in Seq(T), NEW f \in Nat,
         NEW b \in Nat, NEW k \in Nat, Slots(f, b, k, p)
  PROVE  RemoveAt(Above(Topped(s, p, g), f), k) = Between(s, f, b) \o g
<1> DEFINE a == Between(s, f, p)  d == Between(s, f, b)  w == a \o g  c == d \o g  n == Len(g)
<1>0. /\ p \in 0 .. Len(s) /\ f \in 0 .. p /\ f \in Nat /\ b \in f .. Len(s) /\ p \in f .. Len(s)
      /\ n \in Nat /\ p - f = k /\ b - f = k - 1 /\ k >= 1
  BY DEF Slots
<1>1. Above(Topped(s, p, g), f) = w BY <1>0, AboveTopped
<1>2. a \in Seq(T) /\ Len(a) = k /\ \A i \in 1 .. k : a[i] = s[f + i]
  <2>1. /\ SubSeq(s, f + 1, p) \in Seq(T) /\ Len(SubSeq(s, f + 1, p)) = p - f
        /\ \A i \in 1 .. p - f : SubSeq(s, f + 1, p)[i] = s[f + i]
    BY <1>0, PartIs
  <2> QED BY <2>1, <1>0 DEF Between
<1>3. d \in Seq(T) /\ Len(d) = k - 1 /\ \A i \in 1 .. k - 1 : d[i] = s[f + i]
  <2>1. /\ SubSeq(s, f + 1, b) \in Seq(T) /\ Len(SubSeq(s, f + 1, b)) = b - f
        /\ \A i \in 1 .. b - f : SubSeq(s, f + 1, b)[i] = s[f + i]
    BY <1>0, PartIs
  <2> QED BY <2>1, <1>0 DEF Between
<1> HIDE DEF a, d
<1>a. a \in Seq(T) /\ d \in Seq(T) /\ g \in Seq(T) BY <1>2, <1>3
<1>4. /\ a \o g \in Seq(T) /\ Len(a \o g) = Len(a) + Len(g)
      /\ \A i \in 1 .. Len(a) : (a \o g)[i] = a[i]
      /\ \A i \in 1 .. Len(g) : (a \o g)[Len(a) + i] = g[i]
  BY <1>a, ConcatIs
<1>5. /\ d \o g \in Seq(T) /\ Len(d \o g) = Len(d) + Len(g)
      /\ \A i \in 1 .. Len(d) : (d \o g)[i] = d[i]
      /\ \A i \in 1 .. Len(g) : (d \o g)[Len(d) + i] = g[i]
  BY <1>a, ConcatIs
<1> HIDE DEF w, c, n
<1>6. /\ w \in Seq(T) /\ Len(w) = k + n /\ \A i \in 1 .. k : w[i] = a[i]
      /\ \A i \in 1 .. n : w[k + i] = g[i]
  BY <1>2, <1>4 DEF w, n
<1>7. /\ c \in Seq(T) /\ Len(c) = (k - 1) + n /\ \A i \in 1 .. k - 1 : c[i] = d[i]
      /\ \A i \in 1 .. n : c[(k - 1) + i] = g[i]
  BY <1>3, <1>5 DEF c, n
<1>8. k \in 1 .. Len(w) /\ Len(w) - 1 = Len(c) BY <1>0, <1>6, <1>7
<1>9. /\ RemoveAt(w, k) \in Seq(T) /\ Len(RemoveAt(w, k)) = Len(w) - 1
      /\ \A i \in 1 .. Len(w) - 1 : RemoveAt(w, k)[i] = IF i < k THEN w[i] ELSE w[i + 1]
  BY <1>6, <1>8, RemoveAtIs
<1>10. ASSUME NEW i \in 1 .. Len(c) PROVE RemoveAt(w, k)[i] = c[i]
  <2>1. RemoveAt(w, k)[i] = IF i < k THEN w[i] ELSE w[i + 1] BY <1>8, <1>9
  <2>2. CASE i < k
    <3>1. i \in 1 .. k /\ i \in 1 .. k - 1 BY <2>2, <1>0
    <3> QED BY <2>1, <2>2, <3>1, <1>2, <1>3, <1>6, <1>7
  <2>3. CASE ~(i < k)
    <3>1. PICK j \in Int : j = i - (k - 1) BY <1>0
    <3>3. Len(c) = (k - 1) + n BY <1>7
    <3>2. j \in 1 .. n /\ k + j = i + 1 /\ (k - 1) + j = i BY <3>1, <3>3, <2>3, <1>0
    <3> QED BY <2>1, <2>3, <3>2, <1>6, <1>7
  <2> QED BY <2>2, <2>3
<1>11. RemoveAt(w, k) = c BY <1>7, <1>8, <1>9, <1>10, SeqEqual
<1> QED BY <1>1, <1>11 DEF w, c, d

\* The CallInfo that a function returns to.
CallerCi == cis[Len(cis) - 1]

\* It waits for this function.
LEMMA CallerWaits ==
  ASSUME ApiInv, ci.kind \in {"java", "script", "pcall"}
  PROVE  /\ Len(cis) \in Nat /\ Len(cis) > 1 /\ CallerCi \in CallInfo /\ CallerCi.status = "calling"
         /\ CallerCi.func \in Nat /\ CallerCi.at \in Nat /\ ci.func \in Nat
         /\ 1 <= CallerCi.func /\ CallerCi.func < CallerCi.at /\ CallerCi.at <= ci.func
         /\ CallerCi.kind \notin JavaKinds => ci.func = CallerCi.at
         /\ CallerCi.kind \in JavaKinds => ci.func = CallerCi.at + 1
<1> DEFINE n == Len(cis)  m == n - 1  e == cis[m]  x == Thread
<1>1. /\ Body(x) /\ Nested(x) /\ x.cis = cis /\ cis \in Seq(CallInfo) /\ n \in Nat \ {0}
      /\ ci = cis[n] /\ ci \in CallInfo /\ ci.func \in Nat
  BY InnermostFacts
<1>2. Called(x) BY <1>1 DEF Body
<1>3. n > 1
  <2>1. cis[1].kind = "host" BY <1>1, <1>2 DEF Called
  <2> QED BY <2>1, <1>1
<1> HIDE DEF x
<1>4. m \in DOMAIN cis /\ n \in DOMAIN cis /\ m < n BY <1>1, <1>3
<1>5. e \in CallInfo BY <1>1, <1>4
<1>6. /\ e.status = "calling" /\ (InPcall(e) => ci.func = Callee(e))
      /\ e.kind = "script" => ci.func = e.at
  <2>1. n \in 2 .. Len(x.cis) BY <1>1, <1>3
  <2> QED BY <2>1, <1>1, <1>2 DEF Called
<1>7. e.at # 0 /\ e.at <= ci.func /\ 1 <= e.func /\ (e.at # 0 => e.func < e.at)
  <2>1. x.cis[m].at # 0 /\ x.cis[m].at <= x.cis[n].func BY <1>1, <1>4 DEF Nested
  <2>2. 1 <= x.cis[m].func /\ (x.cis[m].at # 0 => x.cis[m].func < x.cis[m].at)
    BY <1>1, <1>4 DEF Nested
  <2> QED BY <2>1, <2>2, <1>1
<1>8. e.func \in Nat /\ e.at \in Nat BY <1>5, CallInfoTypes
<1>9. CallerCi = e BY DEF CallerCi
<1> HIDE DEF e, m
<1>10. /\ e.kind \notin JavaKinds => ci.func = e.at
       /\ e.kind \in JavaKinds => ci.func = e.at + 1
  <2>1. e.kind \in {"host", "java", "handler", "script", "pcall"} BY <1>5 DEF CallInfo
  <2>2. e.kind = "script" => ci.func = e.at BY <1>6
  <2>3. e.kind = "pcall" => ci.func = e.at BY <1>6 DEF InPcall, Callee
  <2>4. e.kind \in JavaKinds => ci.func = e.at + 1 BY <1>6 DEF InPcall, Callee, JavaKinds
  <2> QED BY <2>1, <2>2, <2>3, <2>4 DEF JavaKinds
<1> QED BY <1>1, <1>3, <1>5, <1>6, <1>7, <1>8, <1>9, <1>10

\* What a caller that asked for n values gets of the results r.
Adjusted(r, n) == IF n = LUA_MULTRET THEN r ELSE AF!Pad(r, n)

\* luaD_poscall puts these in the place of the function.
LEMMA PoscallMaps ==
  ASSUME ci \in CallInfo, NEW s \in Seq(Values), NEW o \in 0 .. Len(s), NEW p \in Nat, p + 1 = ci.func
  PROVE  /\ luaD_poscall(s, o + 1) = Topped(s, p, Adjusted(Above(s, o), ci.nres))
         /\ Adjusted(Above(s, o), ci.nres) \in Seq(Values)
<1> DEFINE r == Above(s, o)
           wanted == IF ci.nres = LUA_MULTRET THEN Len(r) ELSE ci.nres
           b == [k \in 1 .. wanted |-> IF k <= Len(r) THEN r[k] ELSE Nil]
           g == Adjusted(r, ci.nres)
<1>1. r \in Seq(Values) /\ Len(r) \in Nat BY AboveIs
<1>2. ci.nres \in Nat \cup {LUA_MULTRET} BY CallInfoTypes
<1>3. luaD_poscall(s, o + 1) = SubSeq(s, 1, p) \o b
  <2>1. ci.func - 1 = p OBVIOUS
  <2>2. r = SubSeq(s, o + 1, Len(s)) BY DEF Above
  <2> HIDE DEF r
  <2> QED BY <2>1, <2>2 DEF luaD_poscall
<1> HIDE DEF r
<1>4. CASE ci.nres = LUA_MULTRET
  <2>1. b = [k \in 1 .. Len(r) |-> r[k]]
    <3>1. \A k \in 1 .. Len(r) : k <= Len(r) BY <1>1
    <3> QED BY <3>1, <1>4
  <2>2. [k \in 1 .. Len(r) |-> r[k]] = r BY <1>1
  <2>3. g = r BY <1>4 DEF Adjusted
  <2> QED BY <2>1, <2>2, <2>3, <1>1, <1>3 DEF Topped, r
<1>5. CASE ci.nres # LUA_MULTRET
  <2>1. wanted = ci.nres /\ ci.nres \in Nat BY <1>2, <1>5
  <2>2. g = [k \in 1 .. ci.nres |-> IF k <= Len(r) THEN r[k] ELSE Nil]
    BY <1>5, SameNames DEF Adjusted, AF!Pad
  <2>3. g = b BY <2>1, <2>2
  <2>4. \A k \in 1 .. wanted : b[k] \in Values
    <3> SUFFICES ASSUME NEW k \in 1 .. wanted PROVE b[k] \in Values OBVIOUS
    <3>1. Nil \in Values BY DEF Values
    <3>2. CASE k <= Len(r)
      <4>1. k \in 1 .. Len(r) BY <3>2, <2>1, <1>1
      <4>2. r[k] \in Values BY <4>1, <1>1
      <4> QED BY <3>2, <4>2
    <3>3. CASE ~(k <= Len(r)) BY <3>1, <3>3
    <3> QED BY <3>2, <3>3
  <2>5. b \in [1 .. wanted -> Values] BY <2>4
  <2>6. wanted \in Nat BY <2>1
  <2> HIDE DEF b, wanted
  <2>7. b \in Seq(Values) BY <2>5, <2>6
  <2> QED BY <2>3, <2>7, <1>3 DEF Topped, r
<1> QED BY <1>4, <1>5

\* The innermost function returns what is above slot o of the stack s.
ReturnsAbove(x, s, o) ==
    /\ x \in Threads /\ x.stack = s /\ x.cis = cis /\ ci.func <= o /\ o <= Len(s)
    /\ \A i \in 1 .. ci.func - 1 : s[i] = stack[i]
    /\ Returns(x, o + 1)

\* Its caller gets the results after its values.
LEMMA ReturnMaps ==
  ASSUME ApiInv, ApiInv', ci.kind \in {"java", "script", "pcall"}, NEW x,
         NEW s \in Seq(Values), NEW o \in Nat, ReturnsAbove(x, s, o)
  PROVE  AF!Returns(Above(s, o)) /\ UNCHANGED <<errorHandler, globals>> /\ raising' = FALSE
<1> DEFINE r == Above(s, o)
           g == Adjusted(r, ci.nres)
           t == luaD_poscall(s, o + 1)
           e == CallerCi
           d == IF e.kind = "script" THEN [e EXCEPT !.status = "run", !.at = 0]
                ELSE [e EXCEPT !.status = "ok", !.top = adjustresults(e, ci.nres, t)]
           h == IF e.kind = "script" THEN "run" ELSE "ok"
           c == SubSeq(cis, 1, Len(cis) - 2)
           b == Append(c, d)
           z == [x EXCEPT !.stack = t, !.cis = b]
<1>1. /\ x \in Threads /\ x.stack = s /\ x.cis = cis /\ ci.func <= o /\ o <= Len(s)
      /\ \A i \in 1 .. ci.func - 1 : s[i] = stack[i]
      /\ Returns(x, o + 1)
  BY DEF ReturnsAbove
<1>2. stack' = t /\ cis' = b /\ raising' = FALSE /\ UNCHANGED <<errorHandler, globals>>
  <2>1. Becomes(IF e.kind = "script" THEN z
                ELSE [z EXCEPT !.jmps = Front(@), !.errfunc = Last(jmps).errfunc], FALSE)
    BY <1>1 DEF Returns, CallerCi
  <2> HIDE DEF t, b
  <2>2. z.stack = t /\ z.cis = b BY <1>1 DEF Threads
  <2> HIDE DEF z
  <2> QED BY <2>1, <2>2 DEF Becomes
<1>3. /\ stack \in Seq(Values) /\ Len(stack) \in Nat /\ cis \in Seq(CallInfo) /\ ci \in CallInfo
      /\ ci.func \in Nat /\ 1 <= ci.func /\ ci.func <= Len(stack)
      /\ Body(Thread) /\ Thread.cis = cis /\ Thread.stack = stack /\ DOMAIN cis = 1 .. Len(cis)
  BY InnermostFacts
<1>4. /\ Len(cis) \in Nat /\ Len(cis) > 1 /\ e \in CallInfo /\ e.status = "calling"
      /\ e.func \in Nat /\ e.at \in Nat /\ 1 <= e.func /\ e.func < e.at /\ e.at <= ci.func
      /\ e.kind \notin JavaKinds => ci.func = e.at
      /\ e.kind \in JavaKinds => ci.func = e.at + 1
  BY CallerWaits
<1>5. PICK p \in Nat : p + 1 = ci.func /\ p \in 0 .. Len(s)
  <2>1. ci.func - 1 \in Nat /\ (ci.func - 1) + 1 = ci.func /\ ci.func - 1 \in 0 .. Len(s)
    BY <1>1, <1>3
  <2> QED BY <2>1
<1>6. t = Topped(s, p, g) /\ g \in Seq(Values)
  <2>1. o \in 0 .. Len(s) BY <1>1
  <2> QED BY <2>1, <1>3, <1>5, PoscallMaps
<1> HIDE DEF t, g
<1>7. Tops(Values, t, s, p, g) BY <1>5, <1>6, ToppedIs
<1>8. /\ t \in Seq(Values) /\ Len(t) = p + Len(g) /\ Len(g) \in Nat /\ \A i \in 1 .. p : t[i] = s[i]
  BY <1>7 DEF Tops
<1>9. /\ d \in CallInfo /\ d.kind = e.kind /\ d.func = e.func /\ d.nres = e.nres /\ d.exc = e.exc
      /\ d.status = h /\ (e.kind = "script" => d.at = 0) /\ (e.kind # "script" => d.at = e.at)
  <2>1. CASE e.kind = "script"
    <3>1. d = [e EXCEPT !.status = "run", !.at = 0] BY <2>1
    <3> HIDE DEF d, e
    <3> QED BY <3>1, <2>1, <1>4 DEF CallInfo
  <2>2. CASE e.kind # "script"
    <3> DEFINE top == adjustresults(e, ci.nres, t)
    <3>1. top \in Nat
      <4>1. e.top \in Nat BY <1>4, CallInfoTypes
      <4>2. Len(t) + 1 \in Nat BY <1>8
      <4> QED BY <4>1, <4>2 DEF adjustresults, Larger
    <3>2. d = [e EXCEPT !.status = "ok", !.top = top] BY <2>2
    <3> HIDE DEF d, e, top
    <3> QED BY <3>1, <3>2, <2>2, <1>4 DEF CallInfo
  <2> QED BY <2>1, <2>2
<1> HIDE DEF d
<1>10. PICK m \in Nat : m + 1 = Len(cis) /\ m \in 1 .. Len(cis) /\ Len(cis) - 2 = m - 1
                        /\ Len(cis) - 1 = m /\ m - 1 \in 0 .. Len(cis)
  <2> DEFINE l == Len(cis)
  <2>1. l \in Nat /\ l > 1 BY <1>4
  <2> HIDE DEF l
  <2>2. l - 1 \in Nat /\ (l - 1) + 1 = l /\ l - 1 \in 1 .. l /\ l - 2 = (l - 1) - 1
        /\ (l - 1) - 1 \in 0 .. l
    BY <2>1
  <2>3. \E m \in Nat : m + 1 = l /\ m \in 1 .. l /\ l - 2 = m - 1 /\ l - 1 = m /\ m - 1 \in 0 .. l
    BY <2>2
  <2> QED BY <2>3 DEF l
<1>11. e = cis[m] BY <1>10 DEF CallerCi
<1>12. c \in Seq(CallInfo) /\ Len(c) = m - 1 /\ \A k \in 1 .. m - 1 : c[k] = cis[k]
  <2>1. c = SubSeq(cis, 1, m - 1) BY <1>10
  <2>2. PICK q : q = m - 1 OBVIOUS
  <2>3. q \in 0 .. Len(cis) BY <2>2, <1>10
  <2>4. /\ SubSeq(cis, 1, q) \in Seq(CallInfo) /\ Len(SubSeq(cis, 1, q)) = q
        /\ \A k \in 1 .. q : SubSeq(cis, 1, q)[k] = cis[k]
    BY <2>3, <1>3, PrefixIs
  <2> QED BY <2>1, <2>2, <2>4
<1> HIDE DEF c
<1>13. b \in Seq(CallInfo) /\ Len(b) = m /\ b[m] = d /\ \A k \in 1 .. m - 1 : b[k] = cis[k]
  <2>1. c \in Seq(CallInfo) /\ d \in CallInfo BY <1>9, <1>12
  <2>2. /\ Append(c, d) \in Seq(CallInfo) /\ Len(Append(c, d)) = Len(c) + 1
        /\ \A i \in 1 .. Len(c) : Append(c, d)[i] = c[i]
        /\ Append(c, d)[Len(c) + 1] = d
    BY <2>1, AppendIs
  <2>3. Len(c) + 1 = m /\ m \in Nat BY <1>10, <1>12
  <2> QED BY <2>2, <2>3, <1>12
<1> HIDE DEF b, e
<1>14. PICK w \in Threads : w.stack = t /\ w.cis = b
  <2> DEFINE y == [stack |-> t, cis |-> b, jmps |-> <<>>, errfunc |-> 0, size |-> 0]
  <2>1. y \in Threads BY <1>8, <1>13, Sizes DEF Threads
  <2>2. y.stack = t /\ y.cis = b OBVIOUS
  <2> QED BY <2>1, <2>2
<1>15. Frames' = FramesOf(w) BY <1>2, <1>14, FramesNext
<1>16. e.func <= Len(t) + 1 /\ \A i \in 1 .. e.func - 1 : t[i] = stack[i]
  <2>1. e.func <= Len(t) + 1 /\ \A i \in 1 .. e.func - 1 : i \in 1 .. p /\ i \in 1 .. ci.func - 1
    <3>1. PICK f \in Nat : f = e.func BY <1>4
    <3>2. f < ci.func
      <4>1. e.func < e.at /\ e.at <= ci.func /\ e.at \in Nat BY <1>4
      <4>2. ci.func \in Nat BY <1>3
      <4> QED BY <4>1, <4>2, <3>1
    <3>3. p + 1 = ci.func BY <1>5
    <3>4. f <= p /\ f <= Len(t) + 1 BY <3>2, <3>3, <1>8
    <3>5. \A i \in 1 .. f - 1 : i \in 1 .. p /\ i \in 1 .. ci.func - 1 BY <3>3, <3>4
    <3> QED BY <3>1, <3>4, <3>5
  <2> QED BY <2>1, <1>1, <1>8
<1>17. FramesOf(w) = Append(SubSeq(Frames, 1, m - 1), Seen(t, d))
  <2>1. PICK y : y = Thread OBVIOUS
  <2>2. /\ Body(y) /\ m \in DOMAIN y.cis /\ Len(w.cis) = m
        /\ \A k \in 1 .. m - 1 : w.cis[k] = y.cis[k]
        /\ y.cis[m].func <= Len(w.stack) + 1
        /\ \A i \in 1 .. y.cis[m].func - 1 : w.stack[i] = y.stack[i]
    BY <2>1, <1>3, <1>10, <1>11, <1>13, <1>14, <1>16
  <2>3. FramesOf(w) = Append(SubSeq(FramesOf(y), 1, m - 1), Seen(w.stack, w.cis[m]))
    BY <2>2, FramesCutTo
  <2>4. Frames = FramesOf(y) BY <2>1, FramesNow
  <2> QED BY <2>3, <2>4, <1>13, <1>14
<1> DEFINE a == e.at - 1  f == e.func  u == Between(s, f, a)
<1>18. ValsOf(stack, e) = u
  <2>1. Waits(e) /\ e.at # 0 BY <1>4 DEF Waits
  <2>2. ValsOf(stack, e) = SubSeq(stack, f + 1, a) BY <2>1 DEF ValsOf
  <2>3. SubSeq(stack, f + 1, a) = SubSeq(s, f + 1, a)
    <3>1. PICK i \in Nat \ {0} : i = f + 1 BY <1>4
    <3>2. PICK j \in Int : j = a BY <1>4
    <3>3. j <= Len(s) /\ j <= Len(stack) /\ j <= ci.func - 1
      BY <3>2, <1>1, <1>3, <1>4
    <3>4. \A k \in i .. j : stack[k] = s[k]
      <4>1. \A k \in i .. j : k \in 1 .. ci.func - 1 BY <3>1, <3>3, <1>3
      <4> QED BY <4>1, <1>1
    <3>5. SubSeq(stack, i, j) = SubSeq(s, i, j) BY <3>3, <3>4, <1>3, SamePart
    <3> QED BY <3>1, <3>2, <3>5
  <2> QED BY <2>2, <2>3 DEF Between
<1>19. ValsOf(t, d) = u \o g
  <2>1. CASE e.kind \notin JavaKinds
    <3>1. ValsOf(t, d) = Above(t, f)
      <4>1. CASE e.kind = "script"
        <5>1. d.status = "run" /\ d.at = 0 /\ d.func = f BY <4>1, <1>9
        <5> QED BY <5>1 DEF ValsOf, Waits, Above
      <4>2. CASE e.kind # "script"
        <5>1. d.status = "ok" /\ d.kind \notin JavaKinds /\ d.func = f BY <4>2, <2>1, <1>9
        <5> QED BY <5>1 DEF ValsOf, Waits
      <4> QED BY <4>1, <4>2
    <3>2. a = p /\ f \in 0 .. p BY <2>1, <1>4, <1>5
    <3>3. Above(Topped(s, p, g), f) = Between(s, f, p) \o g
      <4>1. PICK i \in 0 .. p : i = f BY <3>2
      <4>2. Above(Topped(s, p, g), i) = Between(s, i, p) \o g BY <1>5, <1>6, AboveTopped
      <4> QED BY <4>1, <4>2
    <3> QED BY <3>1, <3>2, <3>3, <1>6
  <2>2. CASE e.kind \in JavaKinds
    <3>1. ValsOf(t, d) = RemoveAt(Above(t, f), e.at - f)
      <4>1. e.kind # "script" BY <2>2 DEF JavaKinds
      <4>2. d.status = "ok" /\ d.kind \in JavaKinds /\ d.func = f /\ d.at = e.at
        BY <4>1, <2>2, <1>9
      <4> QED BY <4>2 DEF ValsOf, Waits
    <3>2. PICK i \in Nat, j \in Nat, k \in Nat : i = f /\ j = a /\ k = e.at - f
                                                /\ j + 1 = p /\ i + k = p /\ i \in 0 .. p - 1
                                                /\ p \in 1 .. Len(s)
      <4>1. f \in Nat /\ a \in Nat /\ e.at - f \in Nat /\ a + 1 = p /\ f + (e.at - f) = p
            /\ f \in 0 .. p - 1 /\ p \in 1 .. Len(s)
        BY <2>2, <1>4, <1>5
      <4> HIDE DEF a, f
      <4> QED BY <4>1
    <3>3. RemoveAt(Above(Topped(s, p, g), i), k) = Between(s, i, j) \o g
      <4>1. PICK q \in 1 .. Len(s) : q = p BY <3>2
      <4>2. Slots(i, j, k, q) BY <4>1, <3>2 DEF Slots
      <4>3. PICK l \in Seq(Values) : l = g BY <1>6
      <4>4. RemoveAt(Above(Topped(s, q, l), i), k) = Between(s, i, j) \o l BY <4>2, HandlerGone
      <4> QED BY <4>1, <4>3, <4>4
    <3> QED BY <3>1, <3>2, <3>3, <1>6
  <2> QED BY <2>1, <2>2
<1> HIDE DEF u
<1>20. Seen(t, d) = Given(Frames[m], g, h)
  <2> DEFINE k == e.kind  n == e.nres  x1 == e.exc
  <2>1. Frames[m] = Seen(stack, e) BY <1>10, <1>11, FramesNow
  <2>2. Seen(stack, e) = ViewIs(e.kind, ValsOf(stack, e), e.nres, e.status, e.exc) BY SeenParts
  <2>3. Seen(t, d) = ViewIs(d.kind, ValsOf(t, d), d.nres, d.status, d.exc) BY SeenParts
  <2>4. Seen(stack, e) = ViewIs(k, u, n, "calling", x1) BY <2>2, <1>4, <1>18
  <2>5. Seen(t, d) = ViewIs(k, u \o g, n, h, x1) BY <2>3, <1>9, <1>19
  <2> HIDE DEF k, n, x1, h
  <2>6. Given(ViewIs(k, u, n, "calling", x1), g, h) = ViewIs(k, u \o g, n, h, x1) BY GivenIs
  <2> QED BY <2>1, <2>4, <2>5, <2>6
<1>21. Frames[m].kind = e.kind BY <1>10, <1>11, FramesNow, SeenParts
<1>22. Len(Frames) - 1 = m /\ Len(Frames) - 2 = m - 1 BY <1>10, FramesNow
<1>23. (IF AF!Inner.want = AF!MULTRET THEN r ELSE AF!Pad(r, AF!Inner.want)) = g
  <2>1. AF!Inner.want = ci.nres BY FramesNow, SeenParts
  <2> QED BY <2>1, SameNames DEF g, Adjusted
<1>24. Frames' = Append(SubSeq(Frames, 1, m - 1),
                        [Frames[m] EXCEPT !.vals = @ \o g,
                                          !.status = IF Frames[m].kind = "script" THEN "run" ELSE "ok"])
  BY <1>15, <1>17, <1>20, <1>21 DEF Given
<1> HIDE DEF r, h
<1>25. AF!Returns(r) BY <1>22, <1>23, <1>24 DEF AF!Returns
<1> QED BY <1>2, <1>25 DEF r

\* A function returns the n values at the end of its frame.
LEMMA ValuesReturned ==
  ASSUME ApiInv, ApiInv', ~raising, ci.status = "run", ci.kind \in {"java", "script"},
         NEW n \in Nat, NEW first \in Nat, first + n = Len(stack) + 1, ci.func < first,
         Returns(Thread, first)
  PROVE  /\ n <= Len(AF!Inner.vals) /\ AF!Returns(AF!Take(AF!Inner.vals, n))
         /\ UNCHANGED <<errorHandler, globals>> /\ raising' = FALSE
<1>1. /\ Thread \in Threads /\ Thread.stack = stack /\ Thread.cis = cis
      /\ stack \in Seq(Values) /\ Len(stack) \in Nat /\ ci.func \in Nat /\ ci.func <= Len(stack)
  BY InnermostFacts
<1>2. PICK s \in Seq(Values) : s = stack BY <1>1
<1>3. PICK o \in Nat : o + 1 = first BY <1>1
<1>4. PICK f \in Nat : f = ci.func BY <1>1
<1>5. PICK x : x = Thread OBVIOUS
<1>6. f <= o /\ o + n = Len(s) /\ o <= Len(s) /\ Len(s) \in Nat BY <1>1, <1>2, <1>3, <1>4
<1>7. ReturnsAbove(x, s, o)
  <2>1. Returns(x, o + 1) BY <1>3, <1>5
  <2> QED BY <2>1, <1>1, <1>2, <1>4, <1>5, <1>6 DEF ReturnsAbove
<1>8. /\ AF!Returns(Above(s, o)) /\ UNCHANGED <<errorHandler, globals>> /\ raising' = FALSE
  BY <1>7, ReturnMaps
<1> DEFINE v == Above(s, f)
<1>9. AF!Inner.vals = v BY <1>2, <1>4, JavaRunsSeen
<1>10. /\ v \in Seq(Values) /\ Len(v) = Len(s) - f /\ \A i \in 1 .. Len(s) - f : v[i] = s[f + i]
  <2>1. f \in 0 .. Len(s) BY <1>6
  <2> QED BY <2>1, AboveIs
<1> HIDE DEF v
<1>11. PICK m \in Nat : m = o - f BY <1>6
<1>12. m + n = Len(v) /\ n <= Len(v) BY <1>6, <1>10, <1>11
<1>13. Matches(s, o, v, m, n)
  <2> SUFFICES ASSUME NEW i \in 1 .. n PROVE s[o + i] = v[m + i] BY DEF Matches
  <2>1. m + i \in 1 .. Len(s) - f /\ f + (m + i) = o + i BY <1>6, <1>11
  <2>2. v[m + i] = s[f + (m + i)] BY <2>1, <1>10
  <2> QED BY <2>1, <2>2
<1>14. Above(s, o) = AF!Take(v, n) BY <1>6, <1>10, <1>12, <1>13, TakenAre
<1> QED BY <1>8, <1>9, <1>12, <1>14

\* A Java function returns.
LEMMA JavaReturnsMaps ==
  ASSUME ApiInv, ApiInv', NEW n \in Nat, JavaReturns(n),
         call' = [m |-> "Return", i |-> n, j |-> 0, v |-> None]
  PROVE  AF!Step(call')
<1>1. JavaRuns /\ ci.kind = "java" /\ Has(n) /\ Returns(Thread, Top - n) BY DEF JavaReturns
<1>2. /\ Len(stack) \in Nat /\ ci.func \in Nat /\ lua_gettop = Len(stack) - ci.func
      /\ ci.status = "run" /\ ~raising
  BY <1>1, JavaFacts
<1>3. ci.exc = None /\ ci.kind \in JavaKinds BY <1>1 DEF JavaRuns, JavaKinds
<1>4. PICK first \in Nat : first = Top - n /\ first + n = Len(stack) + 1 /\ ci.func < first
  BY <1>1, <1>2 DEF Has, Top
<1>5. Returns(Thread, first) BY <1>1, <1>4
<1>6. /\ n <= Len(AF!Inner.vals) /\ AF!Returns(AF!Take(AF!Inner.vals, n))
      /\ UNCHANGED <<errorHandler, globals>> /\ raising' = FALSE
  BY <1>1, <1>2, <1>4, <1>5, ValuesReturned
<1>7. AF!JavaRuns /\ AF!Inner.kind = "java" BY <1>1, <1>2, <1>3, JavaRunsSeen
<1>8. PICK c : c = call' OBVIOUS
<1>9. c.m = "Return" /\ c.i = n BY <1>8
<1>10. (IF raising THEN Last(stack) ELSE None)' = (IF raising THEN Last(stack) ELSE None)
  BY <1>2, <1>6
<1>11. AF!Return(c) BY <1>6, <1>7, <1>9, <1>10 DEF AF!Return
<1> QED BY <1>8, <1>11 DEF AF!Step

\* A script returns.
LEMMA ScriptReturnsMaps ==
  ASSUME ApiInv, ApiInv', NEW n \in Nat, ScriptReturns(n),
         call' = [m |-> "Return", i |-> n, j |-> 0, v |-> None]
  PROVE  AF!Step(call')
<1>1. ScriptRuns /\ Top - n >= base /\ Returns(Thread, Top - n) BY DEF ScriptReturns
<1>2. ci.kind = "script" /\ ci.status = "run" /\ ~raising BY <1>1 DEF ScriptRuns
<1>3. Len(stack) \in Nat /\ ci.func \in Nat /\ ci.top \in Nat BY InnermostFacts
<1>4. ci.func + MaxStackSize < ci.top BY <1>2, InnermostFacts DEF Nested
<1>5. ci.func < base /\ base \in Int BY <1>3, <1>4, Sizes DEF base
<1>6. PICK first \in Nat : first = Top - n /\ first + n = Len(stack) + 1 /\ ci.func < first
  BY <1>1, <1>3, <1>5 DEF Top
<1>7. Returns(Thread, first) BY <1>1, <1>6
<1>8. /\ n <= Len(AF!Inner.vals) /\ AF!Returns(AF!Take(AF!Inner.vals, n))
      /\ UNCHANGED <<errorHandler, globals>> /\ raising' = FALSE
  BY <1>2, <1>6, <1>7, ValuesReturned
<1>9. AF!ScriptRuns BY <1>2, JavaRunsSeen, SameNames DEF AF!ScriptRuns
<1>10. PICK c : c = call' OBVIOUS
<1>11. c.m = "Return" /\ c.i = n BY <1>10
<1>12. (IF raising THEN Last(stack) ELSE None)' = (IF raising THEN Last(stack) ELSE None)
  BY <1>2, <1>8
<1>13. AF!Return(c) BY <1>8, <1>9, <1>11, <1>12 DEF AF!Return
<1> QED BY <1>10, <1>13 DEF AF!Step

\* luaB_pcall puts its status in its first slot.
LEMMA StatusPut ==
  ASSUME ApiInv, NEW k, NEW b, b = IF k # 0 THEN True ELSE False, ci.func + 1 <= Len(stack),
         NEW f \in Nat, f = ci.func
  PROVE  lua_replace(lua_pushboolean(stack, k), 1) = Put(stack, f + 1, b) /\ b \in Values
<1> DEFINE a == lua_pushboolean(stack, k)
           n == Len(stack)
           m == [a EXCEPT ![f + 1] = b]
<1>1. /\ stack \in Seq(Values) /\ n \in Nat /\ f + 1 \in 1 .. n
  <2>1. stack \in Seq(Values) /\ Len(stack) \in Nat BY InnermostFacts
  <2>2. f + 1 <= Len(stack) OBVIOUS
  <2> QED BY <2>1, <2>2
<1>2. b \in Values BY DEF Values
<1>3. a = Append(stack, b) BY DEF lua_pushboolean
<1> HIDE DEF a
<1>4. /\ a \in Seq(Values) /\ Len(a) = n + 1 /\ Last(a) = b
      /\ \A i \in 1 .. n : a[i] = stack[i]
  BY <1>1, <1>2, <1>3, AppendIs
<1>5. moveto(a, Last(a), 1) = m
  <2>1. ~(ci.func + 1 > Len(a)) /\ ci.func + 1 = f + 1 BY <1>1, <1>4
  <2> QED BY <2>1, <1>4 DEF moveto, index2addr
<1> HIDE DEF n
<1>6. m \in Seq(Values) /\ Len(m) = n + 1 /\ m # <<>> /\ m[f + 1] = b
      /\ \A i \in 1 .. n : i # f + 1 => m[i] = stack[i]
  <2>1. m \in Seq(Values) /\ Len(m) = n + 1 BY <1>1, <1>2, <1>4
  <2>2. f + 1 \in 1 .. n + 1 /\ \A i \in 1 .. n : i \in 1 .. n + 1 BY <1>1
  <2>3. m[f + 1] = b /\ \A i \in 1 .. n : i # f + 1 => m[i] = a[i] BY <2>2, <1>4
  <2>4. m # <<>> BY <2>1, <1>1
  <2> QED BY <2>1, <2>3, <2>4, <1>4
<1> HIDE DEF m
<1>7. /\ Front(m) \in Seq(Values) /\ Len(Front(m)) = n /\ \A i \in 1 .. n : Front(m)[i] = m[i]
  <2>1. /\ Front(m) \in Seq(Values) /\ Len(Front(m)) = Len(m) - 1
        /\ \A i \in 1 .. Len(m) - 1 : Front(m)[i] = m[i]
    BY <1>6, FrontIs
  <2>2. Len(m) - 1 = n BY <1>1, <1>6
  <2> QED BY <2>1, <2>2
<1> DEFINE p == Put(stack, f + 1, b)
<1>8. /\ p \in Seq(Values) /\ Len(p) = n /\ p[f + 1] = b
      /\ \A i \in 1 .. n : i # f + 1 => p[i] = stack[i]
  BY <1>1, <1>2 DEF Put, n
<1> HIDE DEF p
<1>9. \A i \in 1 .. n : p[i] = Front(m)[i] BY <1>6, <1>7, <1>8
<1>10. p = Front(m) BY <1>7, <1>8, <1>9, SeqEqual
<1>11. lua_replace(a, 1) = Front(m) BY <1>5 DEF lua_replace
<1> QED BY <1>2, <1>10, <1>11 DEF p, a

\* A function on the first n numbers is a list.
LEMMA ListIs ==
  ASSUME NEW T, NEW n \in Nat, NEW r \in [1 .. n -> T]
  PROVE  r \in Seq(T) /\ Len(r) = n
OBVIOUS

\* Without stack for the results it drops its values for two others.
LEMMA StatusAlone ==
  ASSUME ApiInv, NEW f \in Nat, f = ci.func, NEW s, s = lua_settop(stack, 0) \o <<False, Str>>
  PROVE  /\ s \in Seq(Values) /\ f <= Len(s) /\ Above(s, f) = <<False, Str>>
         /\ \A i \in 1 .. f : s[i] = stack[i]
<1> DEFINE r == lua_settop(stack, 0)  e == <<False, Str>>  n == Len(stack)
<1>1. stack \in Seq(Values) /\ n \in Nat /\ f <= n BY InnermostFacts
<1>2. r = [k \in 1 .. f |-> stack[k]]
  <2>1. f + 0 = f BY <1>1
  <2>2. r = [k \in 1 .. f + 0 |-> IF k <= Len(stack) THEN stack[k] ELSE Nil] BY DEF lua_settop
  <2>3. \A k \in 1 .. f : k <= Len(stack) BY <1>1
  <2> HIDE DEF r
  <2> QED BY <2>1, <2>2, <2>3
<1> HIDE DEF r
<1>3. r \in Seq(Values) /\ Len(r) = f /\ \A i \in 1 .. f : r[i] = stack[i]
  <2>1. \A k \in 1 .. f : k \in 1 .. n BY <1>1
  <2>2. \A k \in 1 .. f : stack[k] \in Values BY <2>1, <1>1
  <2> HIDE DEF n, e
  <2>3. r \in [1 .. f -> Values] BY <2>2, <1>2
  <2>4. r \in Seq(Values) /\ Len(r) = f BY <2>3, ListIs
  <2>5. \A i \in 1 .. f : r[i] = stack[i] BY <1>2
  <2> QED BY <2>4, <2>5
<1>4. e \in Seq(Values) /\ Len(e) = 2 BY DEF Values, Strings
<1> HIDE DEF e
<1>a. r \in Seq(Values) /\ e \in Seq(Values) BY <1>3, <1>4
<1>5. /\ r \o e \in Seq(Values) /\ Len(r \o e) = Len(r) + Len(e)
      /\ \A k \in 1 .. Len(r) : (r \o e)[k] = r[k]
      /\ \A k \in 1 .. Len(e) : (r \o e)[Len(r) + k] = e[k]
  BY <1>a, ConcatIs
<1>6. s = r \o e BY DEF r, e
<1>7. /\ s \in Seq(Values) /\ Len(s) = f + 2 /\ \A k \in 1 .. f : s[k] = r[k]
      /\ \A k \in 1 .. 2 : s[f + k] = e[k]
  BY <1>3, <1>4, <1>5, <1>6
<1>8. f \in 0 .. Len(s) /\ Len(e) = Len(s) - f
  <2>1. Len(s) = f + 2 /\ Len(e) = 2 BY <1>4, <1>7
  <2> QED BY <2>1, <1>1
<1>9. \A i \in 1 .. Len(e) : e[i] = s[f + i] BY <1>4, <1>7
<1>10. Above(s, f) = e BY <1>4, <1>7, <1>8, <1>9, AboveByElements
<1>11. f <= Len(s) BY <1>7
<1> QED BY <1>3, <1>7, <1>10, <1>11 DEF e

\* pcall returns its status and what the function left.
LEMMA PCallReturnsMaps ==
  ASSUME ApiInv, ApiInv', PCallReturns, call' = [m |-> "PCallReturns", i |-> 0, j |-> 0, v |-> None]
  PROVE  AF!Step(call')
<1> DEFINE grown == lua_checkstack(1)
           ok == IF ci.status = "ok" THEN 1 ELSE 0
           b == IF ci.status = "ok" THEN True ELSE False
           s == IF grown.ok THEN lua_replace(lua_pushboolean(stack, ok), 1)
                ELSE lua_settop(stack, 0) \o <<False, Str>>
           x == [Thread EXCEPT !.stack = s, !.size = grown.size]
<1>1. /\ ~raising /\ ci.kind = "pcall" /\ ci.status \in {"ok", "failed"} /\ Returns(x, ci.func + 1)
  BY DEF PCallReturns
<1>2. /\ Thread \in Threads /\ Thread.stack = stack /\ Thread.cis = cis
      /\ stack \in Seq(Values) /\ Len(stack) \in Nat /\ ci.func \in Nat /\ ci.func <= Len(stack)
      /\ size \in 0 .. ERRORSTACKSIZE
  BY InnermostFacts
<1>3. ci.func + 1 <= Len(stack)
  <2>1. Runs(ci, Len(stack)) BY <1>1 DEF ApiInv
  <2> QED BY <2>1, <1>1 DEF Runs
<1>4. PICK f \in Nat : f = ci.func BY <1>2
<1> DEFINE u == Above(stack, f)
<1>5. /\ s \in Seq(Values) /\ f <= Len(s) /\ \A i \in 1 .. f : s[i] = stack[i]
      /\ Above(s, f) = Put(u, 1, b) \/ Above(s, f) = <<False, Str>>
  <2>1. CASE grown.ok
    <3>1. b = IF ok # 0 THEN True ELSE False OBVIOUS
    <3>2. PICK k : k = ok OBVIOUS
    <3>3. PICK d : d = b OBVIOUS
    <3>4. d = IF k # 0 THEN True ELSE False BY <3>1, <3>2, <3>3
    <3>5. lua_replace(lua_pushboolean(stack, k), 1) = Put(stack, f + 1, d) /\ d \in Values
      BY <3>4, <1>3, <1>4, StatusPut
    <3>6. s = Put(stack, f + 1, d) BY <2>1, <3>2, <3>5
    <3> HIDE DEF s, b
    <3>7. /\ f \in 0 .. Len(stack) /\ f + 1 \in f + 1 .. Len(stack) /\ f + 1 \in 1 .. Len(stack)
      BY <1>2, <1>3, <1>4
    <3>8. PICK p : p = f + 1 OBVIOUS
    <3>9. p \in f + 1 .. Len(stack) /\ 1 = p - f BY <3>7, <3>8
    <3>10. /\ Above(Put(stack, p, d), f) = Put(Above(stack, f), 1, d)
           /\ Put(stack, p, d) \in Seq(Values) /\ Len(Put(stack, p, d)) = Len(stack)
      BY <3>5, <3>7, <3>9, <1>2, AbovePut
    <3>11. \A i \in 1 .. f : Put(stack, p, d)[i] = stack[i]
      <4>1. \A i \in 1 .. f : i # p /\ i \in 1 .. Len(stack) BY <3>7, <3>8
      <4> QED BY <4>1, <1>2 DEF Put
    <3>12. f <= Len(stack) BY <1>2, <1>4
    <3> QED BY <3>3, <3>6, <3>8, <3>10, <3>11, <3>12
  <2>2. CASE ~grown.ok
    <3>1. s = lua_settop(stack, 0) \o <<False, Str>> BY <2>2
    <3> HIDE DEF s
    <3> QED BY <3>1, <1>4, StatusAlone
  <2> QED BY <2>1, <2>2
<1>6. grown.size \in 0 .. ERRORSTACKSIZE BY <1>2, CheckStackIs
<1> HIDE DEF s, grown
<1>7. x \in Threads /\ x.stack = s /\ x.cis = cis BY <1>2, <1>5, <1>6 DEF Threads
<1> HIDE DEF x
<1>8. ReturnsAbove(x, s, f)
  <2>1. \A i \in 1 .. ci.func - 1 : i \in 1 .. f BY <1>4
  <2> QED BY <2>1, <1>1, <1>4, <1>5, <1>7 DEF ReturnsAbove
<1>9. AF!Returns(Above(s, f)) /\ UNCHANGED <<errorHandler, globals>> /\ raising' = FALSE
  BY <1>1, <1>5, <1>8, ReturnMaps
<1>10. AF!Inner.vals = u
  <2>1. ValsOf(stack, ci) = Above(stack, ci.func) BY <1>1 DEF ValsOf, Waits, JavaKinds
  <2>2. AF!Inner.vals = ValsOf(stack, ci) BY FramesNow, SeenParts
  <2> QED BY <2>1, <2>2, <1>4
<1>11. AF!Inner.kind = "pcall" /\ AF!Inner.status = ci.status BY <1>1, FramesNow, SeenParts
<1>12. PICK c : c = call' OBVIOUS
<1>13. c.m = "PCallReturns" BY <1>12
<1>14. /\ (IF raising THEN Last(stack) ELSE None) = None
       /\ (IF raising THEN Last(stack) ELSE None)' = None
  BY <1>1, <1>9
<1> DEFINE B == [AF!Inner.vals EXCEPT ![1] = IF AF!Inner.status = "ok" THEN AF!True ELSE AF!False]
<1>15. B = Put(u, 1, b)
  <2>1. AF!True = True /\ AF!False = False BY SameNames
  <2>2. (IF AF!Inner.status = "ok" THEN AF!True ELSE AF!False) = b BY <2>1, <1>11
  <2> HIDE DEF b
  <2> QED BY <2>2, <1>10 DEF Put
<1>16. AF!Returns(B) \/ AF!Returns(<<AF!False, AF!Str>>)
  <2>1. AF!False = False /\ AF!Str = Str BY SameNames
  <2> HIDE DEF B, b, u
  <2> QED BY <2>1, <1>5, <1>9, <1>15
<1>17. AF!PCallReturns(c)
  BY <1>1, <1>9, <1>11, <1>13, <1>14, <1>16, SameNames DEF AF!PCallReturns
<1> QED BY <1>12, <1>17 DEF AF!Step

-----------------------------------------------------------------------------
(* Java goes on after luaPcall *)

\* A list without its p-th element.
Shortened(t, p) == [i \in 1 .. Len(t) - 1 |-> IF i < p THEN t[i] ELSE t[i + 1]]

\* What is above a slot of it.
LEMMA AboveShortened ==
  ASSUME NEW T, NEW t \in Seq(T), NEW p \in 1 .. Len(t), NEW f \in Nat, NEW b \in Nat, NEW k \in Nat,
         Slots(f, b, k, p)
  PROVE  /\ Shortened(t, p) \in Seq(T) /\ Len(Shortened(t, p)) = Len(t) - 1 /\ f <= Len(t) - 1
         /\ Above(Shortened(t, p), f) = RemoveAt(Above(t, f), k)
         /\ \A i \in 1 .. f : Shortened(t, p)[i] = t[i]
<1> DEFINE s == Shortened(t, p)  u == Above(t, f)  q == RemoveAt(u, k)  n == Len(t)
<1>1. PICK l \in Nat : l = n - 1 OBVIOUS
<1>2. /\ n \in Nat /\ p \in 1 .. n /\ p \in Nat /\ l = n - 1 /\ l \in Nat /\ f < p /\ f + k = p
      /\ f \in 0 .. n /\ k >= 1
  BY <1>1 DEF Slots
<1>3. s \in Seq(T) /\ Len(s) = l /\ \A i \in 1 .. l : s[i] = IF i < p THEN t[i] ELSE t[i + 1]
  <2>1. \A i \in 1 .. l : i \in 1 .. n /\ i + 1 \in 1 .. n BY <1>2
  <2>2. \A i \in 1 .. l : (IF i < p THEN t[i] ELSE t[i + 1]) \in T BY <2>1
  <2>3. s = [i \in 1 .. l |-> IF i < p THEN t[i] ELSE t[i + 1]] BY <1>1 DEF Shortened
  <2> HIDE DEF s, n, u, q
  <2>4. s \in [1 .. l -> T] BY <2>2, <2>3
  <2>5. s \in Seq(T) /\ Len(s) = l BY <2>4, ListIs
  <2>6. \A i \in 1 .. l : s[i] = IF i < p THEN t[i] ELSE t[i + 1] BY <2>3
  <2> QED BY <2>5, <2>6
<1>4. /\ u \in Seq(T) /\ Len(u) = n - f /\ \A i \in 1 .. n - f : u[i] = t[f + i]
  BY <1>2, AboveIs
<1> HIDE DEF u, n, s
<1>5. k \in 1 .. Len(u) BY <1>2, <1>4
<1>6. /\ q \in Seq(T) /\ Len(q) = Len(u) - 1
      /\ \A i \in 1 .. Len(u) - 1 : q[i] = IF i < k THEN u[i] ELSE u[i + 1]
  BY <1>4, <1>5, RemoveAtIs
<1> HIDE DEF q
<1>7. ASSUME NEW i \in 1 .. Len(q) PROVE q[i] = s[f + i]
  <2>1. i \in 1 .. n - f - 1 BY <1>4, <1>6
  <2>2. f + i \in 1 .. l /\ i \in 1 .. n - f /\ i + 1 \in 1 .. n - f /\ (f + i) + 1 = f + (i + 1)
    BY <2>1, <1>2
  <2>3. f + i < p <=> i < k BY <2>1, <1>2
  <2>4. s[f + i] = IF i < k THEN t[f + i] ELSE t[f + (i + 1)] BY <2>2, <2>3, <1>3
  <2>5. q[i] = IF i < k THEN u[i] ELSE u[i + 1] BY <1>6
  <2>6. u[i] = t[f + i] /\ u[i + 1] = t[f + (i + 1)] BY <2>2, <1>4
  <2> QED BY <2>4, <2>5, <2>6
<1>8. f \in 0 .. Len(s) /\ Len(q) = Len(s) - f /\ f <= n - 1 BY <1>2, <1>3, <1>4, <1>6
<1>9. Above(s, f) = q BY <1>3, <1>6, <1>7, <1>8, AboveByElements
<1>10. \A i \in 1 .. f : s[i] = t[i]
  <2>1. \A i \in 1 .. f : i < p /\ i \in 1 .. l BY <1>2
  <2> QED BY <2>1, <1>3
<1>11. Len(s) = n - 1 BY <1>2, <1>3
<1> QED BY <1>3, <1>8, <1>9, <1>10, <1>11 DEF s, q, u, n

\* The handler goes, and what is left is what the frame sees.
LEMMA HandlerRemoved ==
  ASSUME ApiInv, AfterPcall, NEW f \in Nat, f = ci.func, NEW s,
         s = lua_remove(stack, ci.at - ci.func)
  PROVE  /\ s \in Seq(Values) /\ f <= Len(s) /\ \A i \in 1 .. f : s[i] = stack[i]
         /\ Above(s, f) = ValsOf(stack, ci) /\ (ci.status = "failed" => f + 1 <= Len(s))
<1> DEFINE n == Len(stack)
<1>1. /\ Nested(Thread) /\ Thread.cis = cis /\ stack \in Seq(Values) /\ n \in Nat
      /\ Len(cis) \in DOMAIN cis /\ ci = cis[Len(cis)] /\ ci \in CallInfo
  BY InnermostFacts
<1>2. /\ ~raising /\ ci.kind \in JavaKinds /\ ci.kind # "pcall" /\ ci.kind # "script"
      /\ ci.status \in {"ok", "failed"}
  BY DEF AfterPcall, JavaKinds
<1>3. PICK p \in Nat : p = ci.at BY <1>1, CallInfoTypes
<1>4. p # 0 /\ p <= n /\ (ci.status = "failed" => p + 1 <= n)
  <2>1. Runs(ci, n) BY <1>2 DEF ApiInv
  <2> QED BY <2>1, <1>2, <1>3 DEF Runs
<1>5. f < p BY <1>1, <1>3, <1>4 DEF Nested
<1>6. s = Shortened(stack, p)
  <2>1. ci.at - ci.func > 0 /\ ~(ci.func + (ci.at - ci.func) > Len(stack))
        /\ ci.func + (ci.at - ci.func) = p
    BY <1>1, <1>3, <1>4, <1>5
  <2>2. index2addr(stack, ci.at - ci.func) = p BY <2>1 DEF index2addr
  <2> QED BY <2>2 DEF lua_remove, Shortened
<1>7. PICK k \in Nat : k = p - f BY <1>5
<1>8. PICK b \in Nat : b + 1 = p BY <1>4
<1>9. Slots(f, b, k, p) BY <1>5, <1>7, <1>8 DEF Slots
<1>10. PICK q \in 1 .. Len(stack) : q = p BY <1>1, <1>4
<1>11. PICK t \in Seq(Values) : t = stack BY <1>1
<1>12. Slots(f, b, k, q) /\ q \in 1 .. Len(t) BY <1>9, <1>10, <1>11
<1>13. /\ Shortened(t, q) \in Seq(Values) /\ Len(Shortened(t, q)) = Len(t) - 1 /\ f <= Len(t) - 1
       /\ Above(Shortened(t, q), f) = RemoveAt(Above(t, f), k)
       /\ \A i \in 1 .. f : Shortened(t, q)[i] = t[i]
  BY <1>12, AboveShortened
<1>14. ValsOf(stack, ci) = RemoveAt(Above(stack, f), k)
  <2>1. ~Waits(ci) BY <1>2 DEF Waits
  <2> QED BY <2>1, <1>2, <1>3, <1>7 DEF ValsOf
<1>15. f + 1 <= p BY <1>5
<1>16. s = Shortened(t, q) BY <1>6, <1>10, <1>11
<1>17. ci.status = "failed" => f + 1 <= n - 1 BY <1>1, <1>4, <1>15
<1> QED BY <1>11, <1>13, <1>14, <1>16, <1>17

\* The message becomes a string and is taken off.
LEMMA MessageTaken ==
  ASSUME ApiInv, NEW s \in Seq(Values), s # <<>>
  PROVE  /\ lua_pop(lua_tolstring(s, -1), 1) = Front(s)
         /\ Last(lua_tolstring(s, -1)) = IF Last(s) = Num THEN Numeral ELSE Last(s)
<1> DEFINE v == lua_tolstring(s, -1)
<1>1. PICK m \in Nat \ {0} : m = Len(s) OBVIOUS
<1>2. index2addr(s, -1) = m
  <2>1. Len(s) + 1 + (-1) = m BY <1>1
  <2> QED BY <2>1 DEF index2addr
<1>3. Value(s, -1) = s[m] /\ Last(s) = s[m]
  <2>1. -1 # LUA_REGISTRYINDEX BY Sizes DEF LUA_REGISTRYINDEX
  <2> QED BY <2>1, <1>1, <1>2 DEF Value, Last
<1>4. v = IF s[m] = Num THEN Put(s, m, Numeral) ELSE s BY <1>2, <1>3 DEF lua_tolstring, moveto, Put
<1> HIDE DEF v
<1>5. /\ v \in Seq(Values) /\ Len(v) = m /\ v[m] = (IF s[m] = Num THEN Numeral ELSE s[m])
      /\ \A i \in 1 .. m - 1 : v[i] = s[i]
  <2>1. CASE s[m] = Num
    <3>1. v = Put(s, m, Numeral) BY <2>1, <1>4
    <3>2. Numeral \in Values BY DEF Values, Strings
    <3>3. m \in 1 .. Len(s) /\ \A i \in 1 .. m - 1 : i \in 1 .. Len(s) /\ i # m BY <1>1
    <3>4. /\ Put(s, m, Numeral) \in Seq(Values) /\ Len(Put(s, m, Numeral)) = Len(s)
          /\ Put(s, m, Numeral)[m] = Numeral
          /\ \A i \in 1 .. m - 1 : Put(s, m, Numeral)[i] = s[i]
      BY <3>2, <3>3 DEF Put
    <3> QED BY <2>1, <3>1, <3>4, <1>1
  <2>2. CASE s[m] # Num
    <3>1. v = s BY <2>2, <1>4
    <3> QED BY <2>2, <3>1, <1>1
  <2> QED BY <2>1, <2>2
<1>6. Last(v) = IF s[m] = Num THEN Numeral ELSE s[m] BY <1>5 DEF Last
<1>7. lua_pop(v, 1) = SubSeq(v, 1, m - 1)
  <2>1. Len(v) + (-1 - 1) + 1 = m - 1 /\ ~(-1 - 1 >= 0) BY <1>5
  <2> QED BY <2>1 DEF lua_pop, lua_settop
<1>8. SubSeq(v, 1, m - 1) = SubSeq(s, 1, m - 1)
  <2>1. PICK l \in Int : l = m - 1 OBVIOUS
  <2>2. l <= Len(s) /\ l <= Len(v) /\ \A i \in 1 .. l : v[i] = s[i] BY <2>1, <1>1, <1>5
  <2>3. SubSeq(v, 1, l) = SubSeq(s, 1, l) BY <2>2, <1>5, SamePart
  <2> QED BY <2>1, <2>3
<1>9. Front(s) = SubSeq(s, 1, m - 1) BY <1>1 DEF Front
<1> QED BY <1>3, <1>6, <1>7, <1>8, <1>9 DEF v

\* Java goes on after luaPcall, or catches the exception that it threw.
LEMMA AfterPcallMaps ==
  ASSUME ApiInv, ApiInv', AfterPcall, call' = [m |-> "AfterPcall", i |-> 0, j |-> 0, v |-> None]
  PROVE  AF!Step(call')
<1>1. PICK f \in Nat : f = ci.func BY InnermostFacts
<1>2. PICK s : s = lua_remove(stack, ci.at - ci.func) OBVIOUS
<1> DEFINE v == lua_tolstring(s, -1)
           threw == ci.status = "failed" /\ errorHandler = "default"
           w == IF threw THEN lua_pop(v, 1) ELSE s
           c == [ci EXCEPT !.status = "run", !.at = 0]
           e == IF Last(v) \in Strings THEN Last(v) ELSE "null"
           d == IF threw THEN [c EXCEPT !.exc = e] ELSE c
           u == ValsOf(stack, ci)
<1>3. /\ s \in Seq(Values) /\ f <= Len(s) /\ \A i \in 1 .. f : s[i] = stack[i]
      /\ Above(s, f) = u /\ (ci.status = "failed" => f + 1 <= Len(s))
  BY <1>1, <1>2, HandlerRemoved
<1>4. /\ ~raising /\ ci.kind \in JavaKinds /\ ci.status \in {"ok", "failed"}
      /\ stack' = w /\ cis' = Append(Front(cis), d) /\ UNCHANGED <<errorHandler, raising, globals>>
  BY <1>2 DEF AfterPcall, SetCi
<1>5. ci \in CallInfo BY InnermostFacts
<1> DEFINE fr == AF!Inner  x == Last(fr.vals)
<1>6. fr = Seen(stack, ci) /\ fr.kind = ci.kind /\ fr.status = ci.status /\ fr.vals = u
  BY FramesNow, SeenParts
<1>7. Seen(stack, ci) = ViewIs(ci.kind, u, ci.nres, ci.status, ci.exc) BY SeenParts
<1> HIDE DEF u, fr
<1>8. PICK y : y = call' OBVIOUS
<1>9. y.m = "AfterPcall" BY <1>8
<1>10. (IF raising THEN Last(stack) ELSE None) = None
       /\ (IF raising THEN Last(stack) ELSE None)' = None
  BY <1>4
<1>11. /\ c \in CallInfo /\ c.kind = ci.kind /\ c.func = ci.func /\ c.nres = ci.nres /\ c.at = 0
       /\ c.status = "run" /\ c.exc = ci.exc
  BY <1>5 DEF CallInfo
<1>12. CASE ~threw
  <2>1. stack' = s /\ cis' = Append(Front(cis), c) BY <1>4, <1>12
  <2> HIDE DEF c
  <2>2. ci.func <= Len(s) + 1 /\ \A i \in 1 .. ci.func - 1 : s[i] = stack[i]
    BY <1>1, <1>3
  <2>3. Frames' = Append(Front(Frames), Seen(s, c))
    BY <2>1, <2>2, <1>3, <1>11, InnerChanges
  <2>4. Seen(s, c) = GoesOn(fr)
    <3>1. ValsOf(s, c) = u
      <4>1. ValsOf(s, c) = Above(s, f) BY <1>1, <1>11 DEF ValsOf, Waits, Above
      <4> QED BY <4>1, <1>3
    <3>2. Seen(s, c) = ViewIs(ci.kind, u, ci.nres, "run", ci.exc) BY <3>1, <1>11, SeenParts
    <3> DEFINE k == ci.kind  n == ci.nres  g == ci.status  z == ci.exc
    <3> HIDE DEF k, n, g, z
    <3>3. GoesOn(ViewIs(k, u, n, g, z)) = ViewIs(k, u, n, "run", z) BY GoesOnIs
    <3> QED BY <3>2, <3>3, <1>6, <1>7 DEF k, n, g, z
  <2>5. AF!SetInner([fr EXCEPT !.status = "run"])
    BY <2>3, <2>4, SameNames DEF AF!SetInner, GoesOn
  <2>6. ~(fr.status = "failed" /\ errorHandler = "default") BY <1>6, <1>12
  <2>7. AF!AfterPcall(y)
    BY <2>5, <2>6, <1>4, <1>6, <1>9, <1>10, SameNames DEF AF!AfterPcall, fr
  <2> QED BY <2>7, <1>8 DEF AF!Step
<1>13. CASE threw
  <2>1. s # <<>> BY <1>1, <1>3, <1>13
  <2>2. lua_pop(v, 1) = Front(s) /\ Last(v) = IF Last(s) = Num THEN Numeral ELSE Last(s)
    BY <2>1, <1>3, MessageTaken
  <2>3. PICK t \in Seq(Values) : t = Front(s) BY <2>1, <1>3, FrontIs
  <2>4. stack' = t BY <2>2, <2>3, <1>4, <1>13
  <2> HIDE DEF v
  <2>5. e \in {"null"} \cup Strings OBVIOUS
  <2> HIDE DEF e, c
  <2>a. c \in CallInfo BY <1>11
  <2> DEFINE b == [c EXCEPT !.exc = e]
  <2>b. b \in CallInfo /\ b.kind = c.kind /\ b.func = c.func /\ b.nres = c.nres
        /\ b.at = c.at /\ b.status = c.status /\ b.exc = e
    BY <2>5, <2>a DEF CallInfo
  <2>7. cis' = Append(Front(cis), b) BY <1>4, <1>13
  <2> HIDE DEF b
  <2>6. b \in CallInfo /\ b.kind = ci.kind /\ b.func = ci.func /\ b.nres = ci.nres
        /\ b.at = 0 /\ b.status = "run" /\ b.exc = e
    BY <2>b, <1>11
  <2>8. f \in 0 .. Len(s) - 1 BY <1>1, <1>3, <1>13
  <2>9. /\ Above(Front(s), f) = Front(Above(s, f)) /\ Last(Above(s, f)) = Last(s)
        /\ Above(s, f) # <<>> /\ Above(s, f) \in Seq(Values)
    BY <2>8, <1>3, AboveFront
  <2>10. ci.func <= Len(t) + 1 /\ \A i \in 1 .. ci.func - 1 : t[i] = stack[i]
    <3>1. Len(t) = Len(s) - 1 /\ \A i \in 1 .. Len(s) - 1 : t[i] = s[i]
      BY <2>1, <2>3, <1>3, FrontIs
    <3>2. \A i \in 1 .. f - 1 : i \in 1 .. Len(s) - 1 /\ i \in 1 .. f BY <2>8
    <3>3. f <= Len(t) + 1 BY <3>1, <2>8
    <3> QED BY <3>1, <3>2, <3>3, <1>1, <1>3
  <2>11. Frames' = Append(Front(Frames), Seen(t, b)) BY <2>4, <2>6, <2>7, <2>10, InnerChanges
  <2>12. Seen(t, b) = Threw(fr, e)
    <3>1. ValsOf(t, b) = Front(u)
      <4>1. ValsOf(t, b) = Above(t, f) BY <1>1, <2>6 DEF ValsOf, Waits, Above
      <4> QED BY <4>1, <2>3, <2>9, <1>3
    <3>2. Seen(t, b) = ViewIs(ci.kind, Front(u), ci.nres, "run", e) BY <3>1, <2>6, SeenParts
    <3> DEFINE k == ci.kind  n == ci.nres  g == ci.status  z == ci.exc
    <3> HIDE DEF k, n, g, z
    <3>3. Threw(ViewIs(k, u, n, g, z), e) = ViewIs(k, Front(u), n, "run", e) BY ThrewIs
    <3> QED BY <3>2, <3>3, <1>6, <1>7 DEF k, n, g, z
  <2>13. e = IF AF!Last(fr.vals) \in AF!Convertible THEN AF!ToStr(AF!Last(fr.vals)) ELSE "null"
    <3>1. AF!Last(fr.vals) = Last(s) BY <2>9, <1>3, <1>6, SameNames
    <3>2. AF!Convertible = Strings \cup {Num} /\ AF!Num = Num /\ AF!Numeral = Numeral
      BY SameNames DEF Convertible
    <3>3. AF!ToStr(Last(s)) = IF Last(s) = Num THEN Numeral ELSE Last(s) BY <3>2 DEF AF!ToStr
    <3>4. Numeral \in Strings /\ Num \notin Strings BY DEF Strings, Numeral, Num, Str, Class, Traced
    <3>5. PICK a : a = Last(s) OBVIOUS
    <3> QED BY <2>2, <3>1, <3>2, <3>3, <3>4, <3>5 DEF e
  <2>14. AF!SetInner([fr EXCEPT !.status = "run", !.vals = AF!Front(@), !.exc = e])
    BY <2>11, <2>12, SameNames DEF AF!SetInner, Threw
  <2>15. fr.status = "failed" /\ errorHandler = "default" BY <1>6, <1>13
  <2>16. AF!AfterPcall(y)
    BY <2>13, <2>14, <2>15, <1>4, <1>6, <1>9, <1>10, SameNames DEF AF!AfterPcall, fr
  <2> QED BY <2>16, <1>8 DEF AF!Step
<1> QED BY <1>12, <1>13

-----------------------------------------------------------------------------
(* The message handler *)

\* The call of the message handler disturbs no frame, and it gets the message.
LEMMA HandlingSeen ==
  ASSUME ApiInv, raising, NEW y \in Threads, NEW err, Handling(y, err), NEW n \in Nat, n = Len(stack)
  PROVE  FramesOf(y) = Frames /\ Above(y.stack, n) = <<Last(stack)>>
<1>1. /\ Body(Thread) /\ Thread.stack = stack /\ Thread.cis = cis /\ ci = Last(cis)
      /\ ci \in CallInfo /\ ci.at \in Nat
  BY InnermostFacts
<1>2. ci.status \in {"run", "calling"} /\ ci.at # 0 /\ ci.at <= n BY RaisedFacts
<1>3. /\ y.cis = cis /\ Len(y.stack) = n + 1 /\ y.stack[n + 1] = Last(stack)
      /\ \A i \in 1 .. n - 1 : y.stack[i] = stack[i]
  BY DEF Handling
<1>4. PICK x : x = Thread OBVIOUS
<1>5. PICK c : c = ci OBVIOUS
<1>6. /\ Body(x) /\ y.cis = x.cis /\ c = Last(x.cis) /\ Waits(c) /\ c.at # 0
      /\ c.at <= Len(x.stack) + 1 /\ c.at <= Len(y.stack) + 1
  BY <1>1, <1>2, <1>3, <1>4, <1>5 DEF Waits
<1>7. \A i \in 1 .. c.at - 1 : y.stack[i] = x.stack[i]
  <2>1. \A i \in 1 .. c.at - 1 : i \in 1 .. n - 1 BY <1>1, <1>2, <1>5
  <2> QED BY <2>1, <1>1, <1>3, <1>4
<1>8. FramesOf(y) = FramesOf(x) BY <1>6, <1>7, FramesKept
<1>9. Frames = FramesOf(x) BY <1>4, FramesNow
<1>10. Above(y.stack, n) = <<Last(stack)>>
  <2>1. PICK t \in Seq(Values) : t = y.stack BY ThreadTypes
  <2>2. PICK v : v = Last(stack) OBVIOUS
  <2>3. Len(t) = n + 1 /\ t[n + 1] = v BY <2>1, <2>2, <1>3
  <2>4. n \in 0 .. Len(t) BY <2>3
  <2>5. /\ Above(t, n) \in Seq(Values) /\ Len(Above(t, n)) = Len(t) - n
        /\ \A i \in 1 .. Len(t) - n : Above(t, n)[i] = t[n + i]
    BY <2>4, AboveIs
  <2>6. Len(t) - n = 1 BY <2>3
  <2> DEFINE a == Above(t, n)
  <2> HIDE DEF a
  <2>7. a \in Seq(Values) /\ Len(a) = 1 /\ a[1] = v BY <2>3, <2>5, <2>6 DEF a
  <2>8. a = <<v>> BY <2>7
  <2> QED BY <2>1, <2>2, <2>8 DEF a
<1> QED BY <1>8, <1>9, <1>10

\* Whose error it is: the innermost protected call has a message handler
\* exactly when Java made it.
LEMMA CatcherSeen ==
  ASSUME ApiInv, raising
  PROVE  /\ Frames[AF!Catcher(Frames)].kind \in JavaKinds \cup {"pcall"}
         /\ errfunc = 0 <=> Frames[AF!Catcher(Frames)].kind = "pcall"
<1>1. /\ Body(Thread) /\ Thread.stack = stack /\ Thread.cis = cis /\ Thread.jmps = jmps
      /\ Thread.errfunc = errfunc /\ Nested(Thread) /\ ci = Last(cis)
      /\ Len(cis) \in Nat \ {0} /\ ci = cis[Len(cis)]
  BY InnermostFacts
<1>2. jmps # <<>> /\ ci.at # 0 BY RaisedFacts
<1>3. PICK x : x = Thread OBVIOUS
<1>4. PICK j : j = Last(x.jmps) OBVIOUS
<1>5. PICK m : m = j.ci OBVIOUS
<1>6. PICK c : c = x.cis[m] OBVIOUS
<1>7. Body(x) /\ x.jmps # <<>> BY <1>1, <1>2, <1>3
<1>8. m \in DOMAIN x.cis /\ InPcall(c) /\ x.errfunc = HandlerOf(c) BY <1>4, <1>5, <1>6, <1>7, Innermost
<1>9. AF!Catcher(FramesOf(x)) = m BY <1>4, <1>5, <1>7, CatcherIs
<1>10. x \in Threads /\ DOMAIN x.cis = 1 .. Len(x.cis) /\ c \in CallInfo
  BY <1>6, <1>7, <1>8, ThreadTypes DEF Body, Types
<1>11. FramesOf(x)[m] = Seen(x.stack, c) BY <1>6, <1>8, <1>10, FramesOfIs
<1>12. Seen(x.stack, c).kind = c.kind BY DEF Seen
<1>13. Frames = FramesOf(x) BY <1>3, FramesNow
<1>14. Frames[AF!Catcher(Frames)].kind = c.kind BY <1>9, <1>11, <1>12, <1>13
<1>15. c.kind \in JavaKinds \cup {"pcall"} BY <1>8, <1>10 DEF InPcall, CallInfo, JavaKinds
<1>16. c.at # 0
  <2>1. CASE m = Len(cis) BY <2>1, <1>1, <1>2, <1>3, <1>6
  <2>2. CASE m # Len(cis)
    <3>1. m < Len(cis) /\ Len(cis) \in DOMAIN x.cis BY <2>2, <1>1, <1>3, <1>8, <1>10
    <3> QED BY <3>1, <1>1, <1>3, <1>6, <1>8 DEF Nested
  <2> QED BY <2>1, <2>2
<1>17. errfunc = 0 <=> c.kind = "pcall" BY <1>1, <1>3, <1>8, <1>16 DEF HandlerOf
<1> QED BY <1>14, <1>15, <1>17

\* The error goes to the message handler of luaPcall, or to pcall.
LEMMA ErrormsgMaps ==
  ASSUME ApiInv, ApiInv', luaG_errormsg,
         call' = [m |-> "luaG_errormsg", i |-> 0, j |-> 0, v |-> None]
  PROVE  AF!Step(call')
<1>1. raising BY DEF luaG_errormsg
<1>2. /\ Body(Thread) /\ Thread.stack = stack /\ Thread.cis = cis /\ Thread.jmps = jmps
      /\ ci = Last(cis) /\ Len(stack) \in Nat /\ Len(stack) >= 1
  BY InnermostFacts
<1>3. PICK msg : msg = Last(stack) OBVIOUS
<1>4. /\ (InPcall(ci) => Callee(ci) <= Len(stack)) /\ Callee(ci) \in Nat
      /\ jmps # <<>> /\ msg \in Values
  BY <1>1, <1>3, RaisedFacts
<1>5. (IF raising THEN Last(stack) ELSE None) = msg BY <1>1, <1>3
<1>6. msg # None BY <1>4 DEF Values, Strings, None, Nil, True, False, Num, Env, Java, CallM, Handler,
        PCall, Script, Str, Numeral, Class, Traced
<1>7. PICK c : c = call' OBVIOUS
<1>8. c.m = "luaG_errormsg" BY <1>7
<1> DEFINE kind == Frames[AF!Catcher(Frames)].kind
<1>9. kind \in JavaKinds \cup {"pcall"} /\ (errfunc = 0 <=> kind = "pcall") BY <1>1, CatcherSeen
<1> HIDE DEF kind
<1>10. CASE errfunc = 0
  <2>1. PICK x : x = Thread OBVIOUS
  <2>2. Becomes(luaD_throw(x, msg), FALSE) BY <1>3, <1>10, <2>1 DEF luaG_errormsg
  <2>3. InPcall(Last(x.cis)) => Callee(Last(x.cis)) <= Len(x.stack) + 1 BY <1>2, <1>4, <2>1
  <2>4. Body(x) /\ x.jmps # <<>> BY <1>2, <1>4, <2>1
  <2>5. Frames' = AF!Delivered(FramesOf(x), msg) /\ raising' = FALSE
    BY <2>2, <2>3, <2>4, <1>4, ThrowMaps
  <2>6. Frames = FramesOf(x) BY <2>1, FramesNow
  <2>7. AF!Caught(msg) BY <2>5, <2>6 DEF AF!Caught
  <2>8. UNCHANGED <<errorHandler, globals>> BY <2>2 DEF Becomes
  <2>9. (IF raising THEN Last(stack) ELSE None)' = None BY <2>5
  <2>10. kind = "pcall" BY <1>9, <1>10
  <2>11. AF!ToCatcher(c)
    BY <2>7, <2>8, <2>9, <2>10, <1>5, <1>6, <1>8, SameNames DEF AF!ToCatcher, kind
  <2> QED BY <2>11, <1>7 DEF AF!Step
<1>11. CASE errfunc # 0
  <2>1. PICK y, err : y \in Threads /\ Handling(y, err) BY <1>11, HandlerCalled
  <2>2. PICK n \in Nat \ {0} : n = Len(stack) BY <1>2
  <2>3. FramesOf(y) = Frames /\ Above(y.stack, n) = <<msg>> BY <2>1, <2>2, <1>1, <1>3, HandlingSeen
  <2>4. /\ Body(y) /\ Faulting(y) /\ Callable(y, "handler", n, 1)
        /\ NoStack(y, err) \/ Enter(y, "handler", n, 1)
    BY <2>1, <2>2 DEF Handling
  <2>5. Fails(y) \/ Enters(y, "handler", n, 1)
    <3>1. CASE NoStack(y, err) BY <3>1, <2>4, NoStackMaps
    <3>2. CASE Enter(y, "handler", n, 1)
      <4>1. 1 \in Nat \cup {LUA_MULTRET} /\ "handler" \in {"java", "handler", "script", "pcall"} OBVIOUS
      <4> QED BY <4>1, <3>2, <2>4, EnterMaps
    <3> QED BY <3>1, <3>2, <2>4
  <2>6. UNCHANGED <<errorHandler, globals>>
    <3>1. CASE NoStack(y, err) BY <3>1 DEF NoStack, Raise, Becomes
    <3>2. CASE Enter(y, "handler", n, 1) BY <3>2 DEF Enter, NoStack, Raise, Becomes
    <3> QED BY <3>1, <3>2, <2>4
  <2>7. CASE Fails(y)
    <3>1. \/ Frames' = Frames /\ raising' = TRUE /\ Last(stack') = Str
          \/ Frames' = AF!Delivered(Frames, Str) /\ raising' = FALSE
      BY <2>3, <2>7 DEF Fails
    <3>2. \/ Frames' = Frames /\ (IF raising THEN Last(stack) ELSE None)' = Str
          \/ AF!Caught(Str) /\ (IF raising THEN Last(stack) ELSE None)' = None
      BY <3>1 DEF AF!Caught
    <3>3. AF!NoStackForHandler(c)
      BY <3>2, <2>6, <1>5, <1>6, <1>8, SameNames DEF AF!NoStackForHandler
    <3> QED BY <3>3, <1>7 DEF AF!Step
  <2>8. CASE Enters(y, "handler", n, 1)
    <3>1. Frames' = Append(Frames, AF!Frame("handler", <<msg>>, 1)) /\ raising' = FALSE
      BY <2>3, <2>8 DEF Enters
    <3>2. (IF raising THEN Last(stack) ELSE None)' = None BY <3>1
    <3>3. kind \in JavaKinds BY <1>9, <1>11
    <3>4. AF!ToHandler(c)
      BY <3>1, <3>2, <3>3, <2>6, <1>5, <1>6, <1>8, SameNames DEF AF!ToHandler, kind
    <3> QED BY <3>4, <1>7 DEF AF!Step
  <2> QED BY <2>5, <2>7, <2>8
<1> QED BY <1>10, <1>11

\* The frames below the message handler are there, whatever it leaves.
LEMMA HandlerDelivers ==
  ASSUME ApiInv, NEW y \in Threads, NEW t, NEW n, Ending(y, t, n), NEW v
  PROVE  AF!Delivered(FramesOf(y), v) = AF!Delivered(Frames, v)
<1>1. /\ Body(Thread) /\ Thread \in Threads /\ Thread.stack = stack /\ Thread.cis = cis
      /\ Thread.jmps = jmps /\ Len(cis) \in Nat \ {0} /\ ci = cis[Len(cis)] /\ ci.func \in Nat
      /\ Len(cis) \in DOMAIN cis /\ DOMAIN cis = 1 .. Len(cis) /\ cis \in Seq(CallInfo)
  BY InnermostFacts
<1>2. /\ Body(y) /\ y.jmps = jmps /\ y.jmps # <<>> /\ y.cis = cis /\ y.stack = t
      /\ ~InPcall(ci) /\ Len(t) = ci.func /\ \A k \in 1 .. ci.func - 1 : t[k] = stack[k]
  BY DEF Ending
<1>3. PICK x : x = Thread OBVIOUS
<1>4. PICK m : m = Last(jmps).ci OBVIOUS
<1>5. PICK l \in Nat \ {0} : l = Len(cis) BY <1>1
<1>6. AF!Catcher(FramesOf(y)) = m /\ m \in DOMAIN y.cis
  <2>1. m = Last(y.jmps).ci BY <1>2, <1>4
  <2> QED BY <2>1, <1>2, CatcherIs
<1>7. AF!Catcher(FramesOf(x)) = m
  <2>1. Body(x) /\ x.jmps # <<>> /\ m = Last(x.jmps).ci BY <1>1, <1>2, <1>3, <1>4
  <2> QED BY <2>1, CatcherIs
<1>8. InPcall(cis[m])
  <2>1. PICK j : j = Last(y.jmps) OBVIOUS
  <2>2. InPcall(y.cis[j.ci]) BY <2>1, <1>2, Innermost
  <2> QED BY <2>1, <2>2, <1>2, <1>4
<1>9. m \in 1 .. l - 1
  <2>1. m # l BY <1>1, <1>2, <1>5, <1>8
  <2>2. m \in 1 .. l BY <1>1, <1>2, <1>5, <1>6
  <2> QED BY <2>1, <2>2
<1>10. \A k \in 1 .. l - 1 : FramesOf(y)[k] = FramesOf(x)[k]
  <2>1. l \in DOMAIN x.cis /\ l - 1 <= Len(y.cis) /\ \A k \in 1 .. l - 1 : y.cis[k] = x.cis[k]
    BY <1>1, <1>2, <1>3, <1>5
  <2>2. x.cis[l].func <= Len(y.stack) + 1 /\ \A i \in 1 .. x.cis[l].func - 1 : y.stack[i] = x.stack[i]
    BY <1>1, <1>2, <1>3, <1>5
  <2> QED BY <2>1, <2>2, <1>1, <1>3, LowerFrames
<1> DEFINE p == FramesOf(y)  q == FramesOf(x)
<1>11. p \in Seq(Views) /\ Len(p) = l /\ q \in Seq(Views) /\ Len(q) = l
  BY <1>1, <1>2, <1>3, <1>5, FramesOfIs
<1> HIDE DEF p, q
<1>12. \A k \in 1 .. l - 1 : p[k] = q[k] BY <1>10 DEF p, q
<1>13. SubSeq(p, 1, m - 1) = SubSeq(q, 1, m - 1)
  <2>1. PICK b \in Int : b = m - 1 BY <1>9
  <2>2. b <= Len(p) /\ b <= Len(q) /\ \A i \in 1 .. b : p[i] = q[i] BY <2>1, <1>9, <1>11, <1>12
  <2>3. 1 \in Nat \ {0} OBVIOUS
  <2>4. SubSeq(p, 1, b) = SubSeq(q, 1, b) BY <2>2, <2>3, <1>11, SamePart
  <2> QED BY <2>1, <2>4
<1>14. p[m] = q[m] BY <1>9, <1>12
<1>15. AF!Delivered(p, v) = AF!Delivered(q, v) BY <1>6, <1>7, <1>13, <1>14 DEF AF!Delivered, p, q
<1>16. Frames = FramesOf(x) BY <1>3, FramesNow
<1> QED BY <1>15, <1>16 DEF p, q

\* The message that it leaves is its first result, or nil.
LEMMA HandlerLeaves ==
  ASSUME ApiInv, NEW y \in Threads, NEW t, NEW n, Ending(y, t, n), NEW r \in Seq(Values),
         r = HandlerResult(n)
  PROVE  Last(t) = IF Len(r) >= 1 THEN r[1] ELSE Nil
<1>1. /\ stack \in Seq(Values) /\ Len(stack) \in Nat /\ ci \in CallInfo /\ ci.func \in Nat
      /\ 1 <= ci.func /\ ci.func <= Len(stack)
  BY InnermostFacts
<1>2. t = luaD_poscall(stack \o r, Top) /\ ci.nres = 1 BY DEF Ending
<1>3. PICK o \in Nat : o = Len(stack) BY <1>1
<1>4. PICK p \in Nat : p + 1 = ci.func BY <1>1
<1>5. PICK s : s = stack \o r OBVIOUS
<1>6. /\ s \in Seq(Values) /\ Len(s) = o + Len(r) /\ Len(r) \in Nat
      /\ \A k \in 1 .. o : s[k] = stack[k]
      /\ \A k \in 1 .. Len(r) : s[o + k] = r[k]
  <2>1. stack \in Seq(Values) /\ r \in Seq(Values) BY <1>1
  <2> QED BY <2>1, <1>3, <1>5, ConcatIs
<1>7. o \in 0 .. Len(s) /\ p \in 0 .. Len(s) BY <1>1, <1>3, <1>4, <1>6
<1>8. Above(s, o) = r
  <2>1. Len(r) = Len(s) - o /\ \A k \in 1 .. Len(r) : r[k] = s[o + k] BY <1>6
  <2> QED BY <2>1, <1>6, <1>7, AboveByElements
<1>9. /\ luaD_poscall(s, o + 1) = Topped(s, p, Adjusted(Above(s, o), ci.nres))
      /\ Adjusted(Above(s, o), ci.nres) \in Seq(Values)
  BY <1>1, <1>4, <1>6, <1>7, PoscallMaps
<1>10. Top = o + 1 BY <1>3 DEF Top
<1> DEFINE g == Adjusted(r, 1)
<1>11. t = Topped(s, p, g) /\ g \in Seq(Values) BY <1>2, <1>5, <1>8, <1>9, <1>10
<1>12. Len(g) = 1 /\ g[1] = IF Len(r) >= 1 THEN r[1] ELSE Nil
  <2>1. g = [k \in 1 .. 1 |-> IF k <= Len(r) THEN r[k] ELSE Nil]
    BY SameNames DEF Adjusted, AF!Pad, LUA_MULTRET
  <2> HIDE DEF g
  <2>2. DOMAIN g = 1 .. 1 /\ g[1] = IF 1 <= Len(r) THEN r[1] ELSE Nil BY <2>1
  <2>3. Len(g) = 1 BY <2>2, <1>11
  <2> QED BY <2>2, <2>3, <1>6
<1> HIDE DEF g
<1>13. Tops(Values, Topped(s, p, g), s, p, g) BY <1>6, <1>7, <1>11, ToppedIs
<1>14. /\ t \in Seq(Values) /\ Len(t) = p + Len(g) /\ \A i \in 1 .. Len(g) : t[p + i] = g[i]
  BY <1>11, <1>13 DEF Tops
<1>15. Len(t) = p + 1 /\ t[p + 1] = g[1] BY <1>12, <1>14
<1>16. Last(t) = g[1] BY <1>15 DEF Last
<1> QED BY <1>12, <1>16

\* What it returns are values of its own frame,
LEMMA HandlerResults ==
  ASSUME ApiInv, ~raising, ci.status = "run", NEW n \in Nat, Has(n)
  PROVE  HandlerResult(n) = AF!Take(AF!Inner.vals, n) /\ n <= Len(AF!Inner.vals)
<1>1. /\ stack \in Seq(Values) /\ Len(stack) \in Nat /\ ci.func \in Nat /\ ci.func <= Len(stack)
  BY InnermostFacts
<1>2. PICK s \in Seq(Values) : s = stack BY <1>1
<1>3. PICK f \in Nat : f = ci.func BY <1>1
<1>4. f <= Len(s) /\ Len(s) \in Nat /\ n <= Len(s) - f
  BY <1>1, <1>2, <1>3 DEF Has, lua_gettop, Top
<1>5. PICK o \in Nat : o + n = Len(s)
  <2>1. PICK b \in Nat : b = Len(s) BY <1>4
  <2>2. b - n \in Nat /\ (b - n) + n = b BY <2>1, <1>4
  <2> QED BY <2>1, <2>2
<1> DEFINE v == Above(s, f)
<1>6. AF!Inner.vals = v BY <1>2, <1>3, JavaRunsSeen
<1>7. /\ v \in Seq(Values) /\ Len(v) = Len(s) - f /\ \A i \in 1 .. Len(s) - f : v[i] = s[f + i]
  <2>1. f \in 0 .. Len(s) BY <1>4
  <2> QED BY <2>1, AboveIs
<1> HIDE DEF v
<1>8. PICK m \in Nat : m = o - f BY <1>4, <1>5
<1>9. m + n = Len(v) /\ n <= Len(v)
  <2>1. Len(v) = Len(s) - f BY <1>7
  <2>2. PICK b, l : b \in Nat /\ b = Len(s) /\ l = Len(v) BY <1>4
  <2>3. l = b - f /\ o + n = b /\ m = o - f BY <2>1, <2>2, <1>5, <1>8
  <2>4. m + n = l /\ n <= l BY <2>3
  <2> QED BY <2>2, <2>4
<1>10. Matches(s, o, v, m, n)
  <2> SUFFICES ASSUME NEW i \in 1 .. n PROVE s[o + i] = v[m + i] BY DEF Matches
  <2>1. m + i \in 1 .. Len(s) - f /\ f + (m + i) = o + i BY <1>4, <1>5, <1>8
  <2>2. v[m + i] = s[f + (m + i)] BY <2>1, <1>7
  <2> QED BY <2>1, <2>2
<1>11. Above(s, o) = AF!Take(v, n) BY <1>5, <1>7, <1>9, <1>10, TakenAre
<1>12. HandlerResult(n) = Above(s, o)
  <2>1. Top - n = o + 1 /\ Top - 1 = Len(s) BY <1>1, <1>2, <1>5 DEF Top
  <2> QED BY <2>1, <1>2 DEF HandlerResult, Above
<1> QED BY <1>6, <1>9, <1>11, <1>12

\* A list of one element.
LEMMA OneIs ==
  ASSUME NEW T, NEW e \in T
  PROVE  <<e>> \in Seq(T) /\ Len(<<e>>) = 1 /\ <<e>>[1] = e
OBVIOUS

\* or the message, with a traceback if it has a text.
LEMMA MessageTraced ==
  ASSUME ApiInv, ~raising, ci.status = "run", NEW r, r = HandlerResult(-1)
  PROVE  /\ r \in Seq(Values) /\ Len(r) = 1
         /\ r[1] = IF AF!Inner.vals = <<>> THEN Str
                   ELSE IF AF!Inner.vals[1] \in Convertible THEN Traced
                   ELSE AF!Last(AF!Inner.vals)
<1>1. /\ stack \in Seq(Values) /\ Len(stack) \in Nat /\ ci.func \in Nat /\ ci.func <= Len(stack)
  BY InnermostFacts
<1>2. PICK s \in Seq(Values) : s = stack BY <1>1
<1>3. PICK f \in Nat : f = ci.func BY <1>1
<1>4. f <= Len(s) /\ Len(s) \in Nat /\ lua_gettop = Len(s) - f
  BY <1>1, <1>2, <1>3 DEF lua_gettop, Top
<1> DEFINE v == Above(s, f)
<1>5. AF!Inner.vals = v BY <1>2, <1>3, JavaRunsSeen
<1>6. /\ v \in Seq(Values) /\ Len(v) = Len(s) - f /\ \A i \in 1 .. Len(s) - f : v[i] = s[f + i]
  <2>1. f \in 0 .. Len(s) BY <1>4
  <2> QED BY <2>1, AboveIs
<1> HIDE DEF v
<1> DEFINE h == lua_tolstring(stack, 1)
<1>7. r = IF lua_gettop = 0 THEN <<Str>>
          ELSE IF Value(h, 1) \in Strings THEN <<Traced>> ELSE <<Last(stack)>>
  BY DEF HandlerResult
<1> HIDE DEF h
<1>8. Str \in Values /\ Traced \in Values BY DEF Values, Strings
<1>9. CASE lua_gettop = 0
  <2>1. Len(v) = 0 BY <1>4, <1>6, <1>9
  <2>2. v = <<>> BY <2>1, <1>6
  <2>3. r = <<Str>> BY <1>7, <1>9
  <2>4. r \in Seq(Values) /\ Len(r) = 1 /\ r[1] = Str BY <2>3, <1>8, OneIs
  <2>5. AF!Inner.vals = <<>> BY <2>2, <1>5
  <2> QED BY <2>4, <2>5
<1>10. CASE lua_gettop # 0
  <2>1. Len(s) - f \in Nat \ {0} /\ f + 1 \in 1 .. Len(s) BY <1>4, <1>10
  <2>2. v # <<>> /\ v[1] = s[f + 1] BY <2>1, <1>6
  <2>3. Last(v) = Last(s) /\ Last(s) \in Values
    <3>1. v[Len(v)] = s[Len(s)]
      <4>1. Len(v) \in 1 .. Len(s) - f /\ f + Len(v) = Len(s) BY <2>1, <1>4, <1>6
      <4>2. v[Len(v)] = s[f + Len(v)] BY <4>1, <1>6
      <4> QED BY <4>1, <4>2
    <3>2. s # <<>> BY <2>1
    <3>3. Last(s) \in Values BY <3>2, FrontIs
    <3> QED BY <3>1, <3>3 DEF Last
  <2> DEFINE u == s[f + 1]
  <2>4. u \in Values BY <2>1
  <2>5. \A w \in Seq(Values) : Len(w) = Len(s) => Value(w, 1) = w[f + 1]
    <3> SUFFICES ASSUME NEW w \in Seq(Values), Len(w) = Len(s) PROVE Value(w, 1) = w[f + 1]
      OBVIOUS
    <3>1. LUA_REGISTRYINDEX # 1 BY Sizes DEF LUA_REGISTRYINDEX
    <3>2. index2addr(w, 1) = f + 1 /\ f + 1 # 0 BY <2>1, <1>3 DEF index2addr
    <3> QED BY <3>1, <3>2 DEF Value
  <2>6. Value(h, 1) = IF u = Num THEN Numeral ELSE u
    <3>1. Value(s, 1) = u BY <2>5
    <3>2. CASE u = Num
      <4> DEFINE w == [s EXCEPT ![f + 1] = Numeral]
      <4>1. h = w
        <5>1. index2addr(s, 1) = f + 1 BY <2>1, <1>3 DEF index2addr
        <5> QED BY <5>1, <3>1, <3>2, <1>2 DEF h, lua_tolstring, moveto
      <4>2. Numeral \in Values BY DEF Values, Strings
      <4>3. w \in Seq(Values) /\ Len(w) = Len(s) /\ w[f + 1] = Numeral BY <2>1, <4>2
      <4> HIDE DEF w
      <4>4. Value(w, 1) = Numeral BY <4>3, <2>5
      <4> QED BY <4>1, <4>4, <3>2
    <3>3. CASE u # Num
      <4>1. h = s BY <3>1, <3>3, <1>2 DEF h, lua_tolstring
      <4> QED BY <4>1, <3>1, <3>3
    <3> QED BY <3>2, <3>3
  <2> HIDE DEF u
  <2>7. Value(h, 1) \in Strings <=> u \in Convertible
    <3>1. Numeral \in Strings BY DEF Strings
    <3> QED BY <3>1, <2>6 DEF Convertible
  <2>8. r = IF u \in Convertible THEN <<Traced>> ELSE <<Last(s)>> BY <2>7, <1>2, <1>7, <1>10
  <2>9. PICK e \in Values : e = Last(s) BY <2>3
  <2>10. /\ r \in Seq(Values) /\ Len(r) = 1
         /\ r[1] = IF u \in Convertible THEN Traced ELSE e
    <3>1. r = IF u \in Convertible THEN <<Traced>> ELSE <<e>> BY <2>8, <2>9
    <3>2. CASE u \in Convertible
      <4>1. r = <<Traced>> BY <3>1, <3>2
      <4>2. r \in Seq(Values) /\ Len(r) = 1 /\ r[1] = Traced BY <4>1, <1>8, OneIs
      <4> QED BY <4>2, <3>2
    <3>3. CASE u \notin Convertible
      <4>1. r = <<e>> BY <3>1, <3>3
      <4>2. r \in Seq(Values) /\ Len(r) = 1 /\ r[1] = e BY <4>1, OneIs
      <4> QED BY <4>2, <3>3
    <3> QED BY <3>2, <3>3
  <2>11. AF!Last(v) = e BY <2>3, <2>9, SameNames
  <2> QED BY <2>2, <2>10, <2>11, <1>5 DEF u
<1> QED BY <1>9, <1>10

\* The message handler returns.
LEMMA HandlerReturnsMaps ==
  ASSUME ApiInv, ApiInv', NEW n \in Nat \cup {-1}, HandlerReturns(n),
         call' = [m |-> "HandlerReturns", i |-> n, j |-> 0, v |-> None]
  PROVE  AF!Step(call')
<1>1. /\ ~raising /\ ci.kind = "handler" /\ ci.status = "run"
      /\ n = -1 \/ (JavaRuns /\ Has(n))
  BY DEF HandlerReturns
<1>2. PICK y, t : y \in Threads /\ Ending(y, t, n) BY HandlerEnds
<1>3. PICK v : v = Last(t) OBVIOUS
<1>4. Frames' = AF!Delivered(FramesOf(y), v) /\ raising' = FALSE
  <2>1. ci = Last(cis) BY InnermostFacts
  <2>2. /\ Body(y) /\ y.jmps # <<>> /\ v \in Values /\ Becomes(luaD_throw(y, v), FALSE)
        /\ ~InPcall(Last(y.cis))
    BY <2>1, <1>2, <1>3 DEF Ending
  <2> QED BY <2>2, ThrowMaps
<1>5. AF!Delivered(FramesOf(y), v) = AF!Delivered(Frames, v) BY <1>2, HandlerDelivers
<1>6. AF!Caught(v) BY <1>4, <1>5 DEF AF!Caught
<1>7. UNCHANGED <<errorHandler, globals>> BY DEF HandlerReturns, Becomes
<1>8. PICK c : c = call' OBVIOUS
<1>9. c.m = "HandlerReturns" /\ c.i = n BY <1>8
<1>10. /\ AF!Inner.kind = "handler" /\ AF!Inner.status = "run"
       /\ (IF raising THEN Last(stack) ELSE None) = None
       /\ (IF raising THEN Last(stack) ELSE None)' = None
  BY <1>1, <1>4, JavaRunsSeen
<1>11. PICK r \in Seq(Values) : r = HandlerResult(n) BY <1>2 DEF Ending
<1>12. v = IF Len(r) >= 1 THEN r[1] ELSE Nil BY <1>2, <1>3, <1>11, HandlerLeaves
<1> DEFINE fr == AF!Inner
<1>13. CASE n \in Nat
  <2>1. JavaRuns /\ Has(n) BY <1>1, <1>13
  <2>2. r = AF!Take(fr.vals, n) /\ n <= Len(fr.vals) BY <2>1, <1>1, <1>11, <1>13, HandlerResults
  <2>3. AF!JavaRuns
    <3>1. ci.kind \in JavaKinds /\ ci.exc = None BY <2>1 DEF JavaRuns
    <3> QED BY <3>1, <1>1, JavaRunsSeen
  <2>4. fr.vals \in Seq(Values)
    <3>1. /\ stack \in Seq(Values) /\ Len(stack) \in Nat /\ ci.func \in Nat /\ ci.func <= Len(stack)
      BY InnermostFacts
    <3>2. fr.vals = Above(stack, ci.func) BY <1>1, JavaRunsSeen
    <3>3. ci.func \in 0 .. Len(stack) BY <3>1
    <3> QED BY <3>1, <3>2, <3>3, AboveIs
  <2>5. Len(r) = n
    <3>1. PICK w \in Seq(Values) : w = fr.vals BY <2>4
    <3>2. n \in 0 .. Len(w) BY <3>1, <2>2, <1>13
    <3>3. Len(AF!Take(w, n)) = n BY <3>2, TakeIs
    <3> QED BY <3>1, <3>3, <2>2
  <2>6. v = IF n = 0 THEN Nil ELSE r[1] BY <2>5, <1>12, <1>13
  <2>7. n \in 0 .. Len(fr.vals) BY <2>2, <2>4, <1>13
  <2> HIDE DEF fr
  <2>8. v = IF c.i = 0 THEN AF!Nil ELSE AF!Take(fr.vals, c.i)[1]
    BY <2>2, <2>6, <1>9, SameNames
  <2>9. AF!JavaRuns /\ c.i \in 0 .. Len(fr.vals)
        /\ AF!Caught(IF c.i = 0 THEN AF!Nil ELSE AF!Take(fr.vals, c.i)[1])
    BY <2>3, <2>7, <2>8, <1>6, <1>9
  <2>10. AF!HandlerReturns(c)
    BY <2>9, <1>7, <1>9, <1>10, SameNames DEF AF!HandlerReturns, fr
  <2> QED BY <2>10, <1>8 DEF AF!Step
<1>14. CASE n = -1
  <2>1. r = HandlerResult(-1) BY <1>11, <1>14
  <2>2. /\ r \in Seq(Values) /\ Len(r) = 1
        /\ r[1] = IF fr.vals = <<>> THEN Str
                  ELSE IF fr.vals[1] \in Convertible THEN Traced ELSE AF!Last(fr.vals)
    BY <2>1, <1>1, MessageTraced
  <2> HIDE DEF fr
  <2>3. v = IF fr.vals = <<>> THEN AF!Str
            ELSE IF fr.vals[1] \in AF!Convertible THEN AF!Traced ELSE AF!Last(fr.vals)
    BY <2>2, <1>12, SameNames
  <2>4. c.i = -1
        /\ AF!Caught(IF fr.vals = <<>> THEN AF!Str
                     ELSE IF fr.vals[1] \in AF!Convertible THEN AF!Traced ELSE AF!Last(fr.vals))
    BY <2>3, <1>6, <1>9, <1>14
  <2>5. AF!HandlerReturns(c)
    BY <2>4, <1>7, <1>9, <1>10, SameNames DEF AF!HandlerReturns, fr
  <2> QED BY <2>5, <1>8 DEF AF!Step
<1> QED BY <1>13, <1>14

-----------------------------------------------------------------------------
(* Every step *)

\* Programs start alike.
LEMMA StartsMap == ApiInv /\ Init => AF!Init
<1> SUFFICES ASSUME ApiInv, Init PROVE AF!Init OBVIOUS
<1>1. PICK start \in Starts : stack = <<Nil>> \o start.vals BY DEF Init
<1>2. /\ errorHandler \in ErrorHandlers /\ cis = <<Host>> /\ raising = FALSE /\ globals = PCall
      /\ call = [m |-> "", i |-> 0, j |-> 0, v |-> None]
  BY DEF Init
<1>3. Host = [kind |-> "host", func |-> 1, nres |-> 0, top |-> 2 + LUA_MINSTACK,
              status |-> "run", at |-> 0, exc |-> None]
  BY DEF Host, NewCI
<1>4. start.vals \in Seq(Values) BY ApiPrograms
<1> DEFINE v == start.vals
<1>5. PICK s \in Seq(Values) : s = stack BY InnermostFacts
<1>6. Above(s, 1) = v
  <2>1. Nil \in Values BY DEF Values
  <2> DEFINE a == <<Nil>>
  <2>2. a \in Seq(Values) /\ Len(a) = 1 BY <2>1
  <2>3. v \in Seq(Values) /\ s = a \o v BY <1>1, <1>4, <1>5
  <2> HIDE DEF a, v
  <2>4. a \in Seq(Values) /\ v \in Seq(Values) BY <2>2, <2>3
  <2>5. /\ a \o v \in Seq(Values) /\ Len(a \o v) = Len(a) + Len(v)
        /\ \A k \in 1 .. Len(v) : (a \o v)[Len(a) + k] = v[k]
    BY <2>4, ConcatIs
  <2>6. Len(s) = 1 + Len(v) /\ Len(v) \in Nat /\ \A k \in 1 .. Len(v) : s[1 + k] = v[k]
    BY <2>2, <2>3, <2>5
  <2>7. 1 \in 0 .. Len(s) /\ Len(v) = Len(s) - 1 /\ \A k \in 1 .. Len(v) : v[k] = s[1 + k]
    BY <2>6
  <2> QED BY <2>4, <2>7, AboveByElements
<1> HIDE DEF v
<1>7. Len(cis) = 1 /\ cis[1] = Host BY <1>2
<1>8. Frames[1] = AF!Frame("host", v, 0)
  <2>1. Frames[1] = Seen(stack, Host) BY <1>7, FramesNow
  <2> DEFINE h == Host
  <2>2. h.kind = "host" /\ h.func = 1 /\ h.nres = 0 /\ h.status = "run" /\ h.at = 0 /\ h.exc = None
    BY <1>3
  <2> HIDE DEF h
  <2>3. ValsOf(s, h) = v
    <3>1. ValsOf(s, h) = Above(s, 1) BY <2>2 DEF ValsOf, Waits, Above
    <3> QED BY <3>1, <1>6
  <2>4. Seen(stack, h) = [kind |-> "host", vals |-> v, want |-> 0, status |-> "run", exc |-> None]
    BY <2>2, <2>3, <1>5 DEF Seen
  <2> QED BY <2>1, <2>4, SameNames DEF AF!Frame, h
<1>9. Frames = <<AF!Frame("host", v, 0)>>
  <2>1. PICK f : f = AF!Frame("host", v, 0) OBVIOUS
  <2>2. PICK w : w = Frames OBVIOUS
  <2>3. w \in Seq(Views) /\ Len(w) = 1 /\ w[1] = f BY <2>1, <2>2, <1>7, <1>8, FramesNow
  <2>4. w = <<f>> BY <2>3
  <2> QED BY <2>1, <2>2, <2>4
<1> QED BY <1>2, <1>9, SameNames DEF AF!Init, v

\* The collector changes nothing that a caller sees.
LEMMA SweepthreadMaps ==
  ASSUME sweepthread, Does("sweepthread")
  PROVE  AF!Step(call')
<1>1. /\ ~raising /\ UNCHANGED <<errorHandler, stack, cis, raising, globals>>
  BY DEF sweepthread
<1>2. Frames' = Frames BY <1>1 DEF Frames, Vals
<1>3. /\ (IF raising THEN Last(stack) ELSE None) = None
      /\ (IF raising THEN Last(stack) ELSE None)' = None
  BY <1>1
<1>4. call'.m = "sweepthread" BY DEF Does, Calling
<1>5. AF!Collects(call') BY <1>1, <1>2, <1>3, <1>4, SameNames DEF AF!Collects
<1> QED BY <1>5 DEF AF!Step

\* A step that leaves all as it is.
LEMMA StutterMaps == UNCHANGED vars => UNCHANGED AF!vars
<1> SUFFICES ASSUME UNCHANGED vars PROVE UNCHANGED AF!vars OBVIOUS
<1>1. UNCHANGED <<errorHandler, stack, cis, raising, globals, call>> BY DEF vars
<1>2. Frames' = Frames BY <1>1 DEF Frames, Vals
<1>3. (IF raising THEN Last(stack) ELSE None)' = IF raising THEN Last(stack) ELSE None BY <1>1
<1> QED BY <1>1, <1>2, <1>3 DEF AF!vars

\* Every step is one of the frames that callers see.
LEMMA StepsMap == ApiInv /\ ApiInv' /\ [Next]_vars => [AF!Next]_AF!vars
<1> SUFFICES ASSUME ApiInv, ApiInv', [Next]_vars PROVE AF!Step(call') \/ UNCHANGED AF!vars
  BY DEF AF!Next
<1>0. MaxArgs \in Nat /\ \A n \in 0 .. MaxArgs : n \in Nat BY ApiPrograms
<1>1. CASE JavaMethod BY <1>1, JavaMethodMaps
<1>2. ASSUME NEW n \in 0 .. MaxArgs, NEW nres \in -1 .. MaxArgs, luaPcall(n, nres)
      PROVE  AF!Step(call')
  <2>1. n \in Nat /\ nres \in Nat \cup {LUA_MULTRET} BY <1>0 DEF LUA_MULTRET
  <2> QED BY <2>1, <1>2, LuaPcallMaps
<1>3. CASE JavaStep
  <2>1. ASSUME AfterPcall, Does("AfterPcall") PROVE AF!Step(call')
    BY <2>1, AfterPcallMaps DEF Does, Calling
  <2>2. ASSUME JavaCatches, Does("Catches") PROVE AF!Step(call')
    BY <2>2, CatchesMaps DEF Does, Calling
  <2>3. ASSUME NEW n \in 0 .. MaxArgs, JavaReturns(n), Calling("Return", n, 0, None)
        PROVE  AF!Step(call')
    BY <2>3, <1>0, JavaReturnsMaps DEF Calling
  <2>4. ASSUME NEW v \in Strings, JavaThrows(v), Calling("Throws", 0, 0, v) PROVE AF!Step(call')
    BY <2>4, ThrowsMaps DEF Calling
  <2> QED BY <1>3, <2>1, <2>2, <2>3, <2>4 DEF JavaStep
<1>4. CASE ScriptStep
  <2>1. ASSUME NEW v, ScriptLoads(v), Calling("ScriptLoads", 0, 0, v) PROVE AF!Step(call')
    BY <2>1, ScriptLoadsMaps DEF Calling
  <2>2. ASSUME NEW n \in 0 .. MaxArgs, NEW nres \in 0 .. MaxArgs, ScriptCalls(n, nres),
               Calling("ScriptCalls", n, nres, None)
        PROVE  AF!Step(call')
    BY <2>2, <1>0, ScriptCallsMaps DEF Calling
  <2>3. ASSUME NEW n \in 0 .. MaxArgs, ScriptReturns(n), Calling("Return", n, 0, None)
        PROVE  AF!Step(call')
    BY <2>3, <1>0, ScriptReturnsMaps DEF Calling
  <2>4. ASSUME NEW v \in {Str, Nil}, ScriptRaises(v), Calling("ScriptRaises", 0, 0, v)
        PROVE  AF!Step(call')
    BY <2>4, ScriptRaisesMaps DEF Calling
  <2> QED BY <1>4, <2>1, <2>2, <2>3, <2>4 DEF ScriptStep
<1>5. CASE PCallStep
  <2>1. ASSUME PCallCalls, Does("PCallCalls") PROVE AF!Step(call')
    BY <2>1, PCallCallsMaps DEF Does, Calling
  <2>2. ASSUME PCallReturns, Does("PCallReturns") PROVE AF!Step(call')
    BY <2>2, PCallReturnsMaps DEF Does, Calling
  <2> QED BY <1>5, <2>1, <2>2 DEF PCallStep
<1>6. CASE ErrorStep
  <2>1. ASSUME luaG_errormsg, Does("luaG_errormsg") PROVE AF!Step(call')
    BY <2>1, ErrormsgMaps DEF Does, Calling
  <2>2. ASSUME NEW n \in -1 .. MaxArgs, HandlerReturns(n), Calling("HandlerReturns", n, 0, None)
        PROVE  AF!Step(call')
    <3>1. n \in Nat \cup {-1} BY <1>0
    <3> QED BY <3>1, <2>2, HandlerReturnsMaps DEF Calling
  <2> QED BY <1>6, <2>1, <2>2 DEF ErrorStep
<1>7. CASE CollectorStep BY <1>7, SweepthreadMaps DEF CollectorStep
<1>8. CASE UNCHANGED vars BY <1>8, StutterMaps
<1> QED BY <1>1, <1>2, <1>3, <1>4, <1>5, <1>6, <1>7, <1>8 DEF Next

\* ApiStack implements ApiFrames: a caller of LuaState sees the activations,
\* each with a sequence of values of its own, and nothing of slots, CallInfos,
\* luaD_pcalls or sizes of the stack.
THEOREM StackImplementsFrames == Spec => FramesImplemented
<1>1. ApiInv /\ Init => AF!Init BY StartsMap
<1>2. Init => ApiInv BY StartHolds
<1>3. ApiInv /\ [Next]_vars => ApiInv' BY StepsKeep
<1>4. ApiInv /\ ApiInv' /\ [Next]_vars => [AF!Next]_AF!vars BY StepsMap
<1> QED BY <1>1, <1>2, <1>3, <1>4, PTL DEF Spec, AF!Spec, FramesImplemented
=============================================================================
