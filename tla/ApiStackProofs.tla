--------------------------- MODULE ApiStackProofs ---------------------------
(***************************************************************************)
(* Theorems about ApiStack, for any sizes of the stack and any programs    *)
(* that keep to the rules of the manual.                                   *)
(***************************************************************************)
EXTENDS ApiStack, DataLemmas

CallInfo == [kind: {"host", "java", "handler", "script", "pcall"},
             func: Nat, nres: Nat \cup {LUA_MULTRET}, top: Nat,
             status: {"run", "calling", "ok", "failed"}, at: Nat,
             exc: {None, "null"} \cup Strings]

Catcher == [ci: Nat, oldtop: Nat, errfunc: Nat]

\* Lua threads, of which Thread is the one of the state.
Threads == [stack: Seq(Values), cis: Seq(CallInfo), jmps: Seq(Catcher),
            errfunc: Nat, size: 0 .. ERRORSTACKSIZE]

Types(x) == x \in Threads /\ x.cis # <<>>

\* The slot of the function that a luaD_pcall of c calls.
Callee(c) == IF c.kind = "pcall" THEN c.at ELSE c.at + 1

\* c waits in a luaD_pcall.
InPcall(c) == c.status = "calling" /\ c.kind # "script"

\* The frames lie above each other in the stack, each call above what its
\* caller keeps.
Nested(x) ==
    /\ \A k \in DOMAIN x.cis : LET c == x.cis[k] IN
          /\ 1 <= c.func /\ c.func <= Len(x.stack)
          /\ c.top <= x.size
          /\ c.kind = "pcall" => c.func + 2 <= c.top
          /\ c.kind = "script" => c.func + MaxStackSize < c.top
          /\ c.kind = "handler" => c.nres = 1
          /\ InPcall(c) => c.func + 1 < Callee(c) /\ Callee(c) < c.top
          /\ c.at # 0 => c.func < c.at
    /\ \A k, m \in DOMAIN x.cis : k < m => LET c == x.cis[k] IN
          /\ c.at # 0 /\ c.at <= x.cis[m].func
          /\ InPcall(c) => Callee(c) <= x.cis[m].func
          /\ c.status \in {"run", "calling"}
          /\ c.kind = "script" => c.top <= x.cis[m].func + MaxStackSize

\* A function is called where its caller waits for it, and has room for the
\* results; a message handler runs wherever the error was raised.
Called(x) ==
    /\ x.cis[1].kind = "host"
    /\ Len(x.cis) > 1 => x.cis[1].status = "calling"
    /\ \A k \in 2 .. Len(x.cis) : LET c == x.cis[k]  d == x.cis[k - 1] IN
          /\ c.kind # "host"
          /\ c.kind # "handler" =>
                /\ d.status = "calling"
                /\ InPcall(d) => c.func = Callee(d)
                /\ c.nres # LUA_MULTRET => c.func + c.nres <= d.top
                /\ d.kind = "script" => c.nres # LUA_MULTRET /\ c.func = d.at

HandlerOf(c) == IF c.kind = "pcall" THEN 0 ELSE c.at
HandlerAt(x, i) == IF i = 0 THEN 0 ELSE HandlerOf(x.cis[x.jmps[i].ci])

\* The luaD_pcalls on the C stack are those of the frames that wait in one, in
\* their order, and each keeps the message handler of the one before it.
Caught(x) ==
    /\ \A i \in DOMAIN x.jmps : LET j == x.jmps[i] IN
          /\ j.ci \in DOMAIN x.cis /\ InPcall(x.cis[j.ci])
          /\ j.oldtop = Callee(x.cis[j.ci])
          /\ j.errfunc = HandlerAt(x, i - 1)
    /\ \A i, j \in DOMAIN x.jmps : i < j => x.jmps[i].ci < x.jmps[j].ci
    /\ \A k \in DOMAIN x.cis : InPcall(x.cis[k]) => \E i \in DOMAIN x.jmps : x.jmps[i].ci = k
    /\ x.errfunc = HandlerAt(x, Len(x.jmps))

\* A frame in luaPcall keeps the handler in its slot.
HandlersThere(x) ==
    \A k \in DOMAIN x.cis : LET c == x.cis[k] IN
        InPcall(c) /\ c.kind \in JavaKinds => c.at <= Len(x.stack) /\ x.stack[c.at] = Handler

Body(x) == Types(x) /\ Nested(x) /\ Called(x) /\ Caught(x) /\ HandlersThere(x)

\* The innermost frame c: while it runs,
Runs(c, len) ==
    /\ len + 1 <= c.top
    /\ c.status # "calling"
    /\ c.status = "run" => c.at = 0 /\ (c.kind = "pcall" => len + 1 + LUA_MINSTACK <= c.top)
    /\ c.status # "run" =>
          /\ c.kind # "script"
          /\ IF c.kind = "pcall" THEN c.func + 1 <= len ELSE c.at # 0 /\ c.at <= len
          /\ c.status = "failed" /\ c.kind # "pcall" => c.at + 1 <= len
    /\ c.kind = "script" => c.top <= len + 1 + MaxStackSize

\* and while an error is raised in it.
Raises(c, len) ==
    /\ c.status \in {"run", "calling"}
    /\ c.kind = "host" => c.status = "calling"
    /\ c.at # 0 /\ c.at <= len
    /\ InPcall(c) => Callee(c) <= len
    /\ c.kind = "script" => c.top <= len + MaxStackSize

ApiInv ==
    /\ Body(Thread) /\ Len(stack) <= size
    /\ raising \in BOOLEAN /\ globals \in Values
    /\ IF raising THEN Raises(ci, Len(stack)) ELSE Runs(ci, Len(stack))

-----------------------------------------------------------------------------
(* Parts of a thread that change while the others stay *)

\* An element more at the end of a list, and
LEMMA AppendIs ==
  ASSUME NEW T, NEW s \in Seq(T), NEW e \in T
  PROVE  /\ Append(s, e) \in Seq(T) /\ Append(s, e) # <<>>
         /\ Len(s) \in Nat /\ Len(Append(s, e)) = Len(s) + 1
         /\ \A i \in 1 .. Len(s) : Append(s, e)[i] = s[i]
         /\ Append(s, e)[Len(s) + 1] = e /\ Last(Append(s, e)) = e
  BY DEF Last

\* one less.
LEMMA FrontIs ==
  ASSUME NEW T, NEW s \in Seq(T), s # <<>>
  PROVE  /\ Front(s) \in Seq(T) /\ Len(s) \in Nat \ {0} /\ Len(Front(s)) = Len(s) - 1
         /\ \A i \in 1 .. Len(s) - 1 : Front(s)[i] = s[i]
         /\ Last(s) = s[Len(s)] /\ Last(s) \in T
<1>1. Len(s) \in Nat \ {0} /\ Len(s) - 1 \in 0 .. Len(s) OBVIOUS
<1>2. /\ SubSeq(s, 1, Len(s) - 1) \in Seq(T)
      /\ Len(SubSeq(s, 1, Len(s) - 1)) = Len(s) - 1
      /\ \A i \in 1 .. Len(s) - 1 : SubSeq(s, 1, Len(s) - 1)[i] = s[i]
  BY <1>1, PrefixIs
<1>3. s[Len(s)] \in T BY <1>1
<1> QED BY <1>1, <1>2, <1>3 DEF Front, Last

\* The last element is exchanged.
LEMMA AgainIs ==
  ASSUME NEW T, NEW s \in Seq(T), s # <<>>, NEW e \in T
  PROVE  LET a == Append(Front(s), e) IN
         /\ a \in Seq(T) /\ a # <<>> /\ Len(a) = Len(s) /\ Len(s) \in Nat \ {0}
         /\ \A i \in 1 .. Len(s) - 1 : a[i] = s[i]
         /\ a[Len(s)] = e /\ Last(a) = e
<1>1. Front(s) \in Seq(T) /\ Len(s) \in Nat \ {0} /\ Len(Front(s)) = Len(s) - 1
      /\ \A i \in 1 .. Len(s) - 1 : Front(s)[i] = s[i]
  BY FrontIs
<1> HIDE DEF Front
<1> DEFINE f == Front(s)
<1>2. f \in Seq(T) BY <1>1
<1> HIDE DEF f
<1>3. /\ Append(f, e) \in Seq(T) /\ Append(f, e) # <<>>
      /\ Len(f) \in Nat /\ Len(Append(f, e)) = Len(f) + 1
      /\ \A i \in 1 .. Len(f) : Append(f, e)[i] = f[i]
      /\ Append(f, e)[Len(f) + 1] = e /\ Last(Append(f, e)) = e
  BY <1>2, AppendIs
<1> QED BY <1>1, <1>3 DEF f

\* What StackSizes says of each size.
LEMMA Sizes ==
  /\ LUA_MINSTACK \in Nat \ {0} /\ EXTRA_STACK \in Nat \ {0} /\ MaxStackSize \in Nat \ {0}
  /\ EXTRA_STACK > 1
  /\ BASIC_STACK_SIZE \in Nat /\ LUAI_MAXSTACK \in Nat /\ ERRORSTACKSIZE \in Nat
  /\ BASIC_STACK_SIZE >= LUA_MINSTACK + EXTRA_STACK + 2
  /\ BASIC_STACK_SIZE <= LUAI_MAXSTACK
  /\ LUAI_MAXSTACK + EXTRA_STACK <= ERRORSTACKSIZE /\ ERRORSTACKSIZE <= LUAI_MAXSTACK + 999
BY StackSizes

\* The types of what a CallInfo keeps.
LEMMA CallInfoTypes ==
  ASSUME NEW c \in CallInfo
  PROVE  /\ c.func \in Nat /\ c.at \in Nat /\ c.top \in Nat /\ Callee(c) \in Nat
         /\ c.nres \in Nat \cup {LUA_MULTRET} /\ HandlerOf(c) \in Nat
  BY DEF CallInfo, Callee, HandlerOf

\* The types of what a Lua thread keeps.
LEMMA ThreadTypes ==
  ASSUME NEW x \in Threads
  PROVE  /\ x.stack \in Seq(Values) /\ Len(x.stack) \in Nat
         /\ x.size \in Nat /\ x.size \in 0 .. ERRORSTACKSIZE
         /\ x.cis \in Seq(CallInfo) /\ Len(x.cis) \in Nat
         /\ DOMAIN x.cis = 1 .. Len(x.cis)
         /\ x.jmps \in Seq(Catcher) /\ Len(x.jmps) \in Nat
         /\ DOMAIN x.jmps = 1 .. Len(x.jmps)
         /\ x.errfunc \in Nat
         /\ \A k \in DOMAIN x.cis : x.cis[k] \in CallInfo
         /\ \A i \in DOMAIN x.jmps : x.jmps[i] \in Catcher
<1> USE DEF Threads
<1>1. x.stack \in Seq(Values) /\ x.cis \in Seq(CallInfo) /\ x.jmps \in Seq(Catcher) OBVIOUS
<1>2. x.errfunc \in Nat /\ x.size \in 0 .. ERRORSTACKSIZE /\ x.size \in Nat BY StackSizes
<1> QED BY <1>1, <1>2

\* What a step writes to the stack above n concerns no frame but the innermost.
LEMMA StackChanged ==
  ASSUME NEW x, Body(x), NEW y \in Threads, y.cis = x.cis, y.jmps = x.jmps,
         y.errfunc = x.errfunc, x.size <= y.size,
         NEW n \in Nat, Last(x.cis).func <= n, n <= Len(x.stack), n <= Len(y.stack),
         \A i \in 1 .. n : y.stack[i] = x.stack[i],
         InPcall(Last(x.cis)) /\ Last(x.cis).kind \in JavaKinds => Last(x.cis).at <= n
  PROVE  Body(y)
<1> DEFINE top == Len(x.cis)
<1>1. x \in Threads /\ x.cis # <<>> BY DEF Body, Types
<1>2. /\ x.cis \in Seq(CallInfo) /\ top \in Nat \ {0} /\ DOMAIN x.cis = 1 .. top
      /\ Last(x.cis) = x.cis[top]
      /\ \A k \in DOMAIN x.cis : x.cis[k].func \in Nat /\ x.cis[k].at \in Nat /\ x.cis[k].top \in Nat
  BY <1>1, ThreadTypes, CallInfoTypes DEF Last
<1>3. /\ Len(x.stack) \in Nat /\ Len(y.stack) \in Nat /\ x.size \in Nat /\ y.size \in Nat
  BY <1>1, ThreadTypes
<1> HIDE DEF top
<1>4. ASSUME NEW k \in 1 .. top, k # top
      PROVE  x.cis[k].func <= n /\ x.cis[k].at <= n
  <2>1. k < top /\ k \in DOMAIN x.cis /\ top \in DOMAIN x.cis BY <1>2, <1>4
  <2>2. x.cis[k].at <= x.cis[top].func /\ x.cis[k].func < x.cis[k].at
    BY <2>1 DEF Body, Nested
  <2>3. /\ x.cis[top].func <= n
        /\ x.cis[top].func \in Nat /\ x.cis[k].func \in Nat /\ x.cis[k].at \in Nat
    BY <1>2, <2>1
  <2> QED BY <2>2, <2>3
<1>5. \A k \in DOMAIN x.cis :
         x.cis[k].func <= n /\ (InPcall(x.cis[k]) /\ x.cis[k].kind \in JavaKinds => x.cis[k].at <= n)
  BY <1>2, <1>4
<1>6. Nested(y)
  <2>1. Nested(x) BY DEF Body
  <2> QED BY <2>1, <1>2, <1>3, <1>5 DEF Nested
<1>7. HandlersThere(y)
  <2> SUFFICES ASSUME NEW k \in DOMAIN x.cis, InPcall(x.cis[k]), x.cis[k].kind \in JavaKinds
               PROVE  x.cis[k].at <= Len(y.stack) /\ y.stack[x.cis[k].at] = Handler
    BY DEF HandlersThere
  <2>1. x.cis[k].at \in 1 .. n
    <3>1. x.cis[k].func + 1 < Callee(x.cis[k]) /\ 1 <= x.cis[k].func BY DEF Body, Nested
    <3> QED BY <3>1, <1>2, <1>3, <1>5 DEF Callee, JavaKinds
  <2>2. x.stack[x.cis[k].at] = Handler BY DEF Body, HandlersThere
  <2> QED BY <2>1, <2>2, <1>3
<1>8. Called(y) /\ Caught(y) BY DEF Body, Called, Caught, HandlerAt
<1> QED BY <1>1, <1>6, <1>7, <1>8 DEF Body, Types

\* The frames up to m, the last of them changed, on a stack that is the same
\* below it.
LEMMA FramesCut ==
  ASSUME NEW x, Body(x), NEW y \in Threads, NEW m \in DOMAIN x.cis, Len(y.cis) = m,
         \A k \in 1 .. m - 1 : y.cis[k] = x.cis[k] /\ x.cis[k].top <= y.size,
         NEW d, d = y.cis[m], NEW c, c = x.cis[m],
         d.kind = c.kind, d.func = c.func, d.nres = c.nres, ~InPcall(d),
         d.at # 0 => d.func < d.at, c.top <= d.top, d.top <= y.size,
         c.func <= Len(y.stack), \A i \in 1 .. c.func - 1 : y.stack[i] = x.stack[i]
  PROVE  Nested(y) /\ Called(y) /\ HandlersThere(y)
<1>1. /\ x \in Threads /\ Nested(x) /\ Called(x) /\ HandlersThere(x)
  BY DEF Body, Types
<1>2. /\ m \in 1 .. Len(x.cis) /\ DOMAIN y.cis = 1 .. m /\ DOMAIN x.cis = 1 .. Len(x.cis)
      /\ Len(x.cis) \in Nat /\ Len(x.stack) \in Nat /\ Len(y.stack) \in Nat
      /\ y.size \in Nat /\ c \in CallInfo /\ d \in CallInfo
      /\ \A k \in DOMAIN x.cis : x.cis[k] \in CallInfo
  BY <1>1, ThreadTypes
<1>3. \A k \in 1 .. Len(x.cis) : /\ x.cis[k].func \in Nat /\ x.cis[k].at \in Nat
                                 /\ x.cis[k].top \in Nat /\ Callee(x.cis[k]) \in Nat
  BY <1>2, CallInfoTypes
<1>4. /\ c.func \in Nat /\ c.top \in Nat /\ d.top \in Nat /\ d.at \in Nat
  BY <1>2, CallInfoTypes
<1>5. ASSUME NEW k \in 1 .. m - 1
      PROVE  LET e == x.cis[k] IN
             /\ e.at # 0 /\ e.at <= c.func /\ 1 <= e.func /\ e.func < c.func
             /\ InPcall(e) => Callee(e) <= c.func
             /\ e.status \in {"run", "calling"}
  <2>1. k < m /\ k \in DOMAIN x.cis BY <1>2
  <2>2. LET e == x.cis[k] IN
             /\ e.at # 0 /\ e.at <= c.func /\ 1 <= e.func /\ e.func < e.at
             /\ InPcall(e) => Callee(e) <= c.func
             /\ e.status \in {"run", "calling"}
    BY <1>1, <2>1 DEF Nested
  <2>3. x.cis[k].func \in Nat /\ x.cis[k].at \in Nat BY <2>1, <1>2, <1>3
  <2> QED BY <2>2, <2>3, <1>4
<1>6. Nested(y)
  <2>1. ASSUME NEW k \in DOMAIN y.cis
        PROVE  LET e == y.cis[k] IN
          /\ 1 <= e.func /\ e.func <= Len(y.stack)
          /\ e.top <= y.size
          /\ e.kind = "pcall" => e.func + 2 <= e.top
          /\ e.kind = "script" => e.func + MaxStackSize < e.top
          /\ e.kind = "handler" => e.nres = 1
          /\ InPcall(e) => e.func + 1 < Callee(e) /\ Callee(e) < e.top
          /\ e.at # 0 => e.func < e.at
    <3>1. CASE k = m
      <4>1. /\ 1 <= c.func /\ (c.kind = "pcall" => c.func + 2 <= c.top)
            /\ c.kind = "script" => c.func + MaxStackSize < c.top
            /\ c.kind = "handler" => c.nres = 1
        BY <1>1 DEF Nested
      <4>2. y.cis[k] = d BY <3>1
      <4>3. ~InPcall(d) /\ (d.at # 0 => d.func < d.at) /\ d.top <= y.size /\ d.func <= Len(y.stack)
        OBVIOUS
      <4>4. d.func = c.func /\ d.kind = c.kind /\ c.top <= d.top OBVIOUS
      <4>5. /\ 1 <= d.func /\ (d.kind = "pcall" => d.func + 2 <= d.top)
            /\ d.kind = "script" => d.func + MaxStackSize < d.top
            /\ d.kind = "handler" => d.nres = 1
        <5>1. d.func \in Nat /\ c.top \in Nat /\ d.top \in Nat BY <1>4, <4>4
        <5>2. d.func + 2 <= c.top => d.func + 2 <= d.top BY <5>1, <4>4
        <5>3. d.func + MaxStackSize < c.top => d.func + MaxStackSize < d.top
          BY <5>1, <4>4, Sizes
        <5> QED BY <4>1, <4>4, <5>2, <5>3
      <4> QED BY <4>2, <4>3, <4>5
    <3>2. CASE k # m
      <4>1. k \in 1 .. m - 1 /\ y.cis[k] = x.cis[k] /\ k \in DOMAIN x.cis /\ x.cis[k].top <= y.size
        BY <3>2, <1>2
      <4>2. LET e == x.cis[k] IN
            /\ e.kind = "pcall" => e.func + 2 <= e.top
            /\ e.kind = "script" => e.func + MaxStackSize < e.top
            /\ e.kind = "handler" => e.nres = 1
            /\ InPcall(e) => e.func + 1 < Callee(e) /\ Callee(e) < e.top
            /\ e.at # 0 => e.func < e.at
        BY <4>1, <1>1 DEF Nested
      <4>3. x.cis[k].func < c.func /\ 1 <= x.cis[k].func BY <4>1, <1>5
      <4>4. x.cis[k].func \in Nat /\ Len(y.stack) \in Nat BY <4>1, <1>2, <1>3
      <4>5. x.cis[k].func <= Len(y.stack) BY <4>3, <4>4, <1>4
      <4> QED BY <4>1, <4>2, <4>3, <4>5
    <3> QED BY <3>1, <3>2
  <2>2. ASSUME NEW k \in DOMAIN y.cis, NEW n \in DOMAIN y.cis, k < n
        PROVE  LET e == y.cis[k] IN
          /\ e.at # 0 /\ e.at <= y.cis[n].func
          /\ InPcall(e) => Callee(e) <= y.cis[n].func
          /\ e.status \in {"run", "calling"}
          /\ e.kind = "script" => e.top <= y.cis[n].func + MaxStackSize
    <3>1. k \in 1 .. m - 1 /\ y.cis[k] = x.cis[k] /\ k \in DOMAIN x.cis /\ n \in DOMAIN x.cis
      BY <2>2, <1>2
    <3>2. y.cis[n].func = x.cis[n].func
      <4>1. CASE n = m BY <4>1, <1>2
      <4>2. CASE n # m
        <5>1. n \in 1 .. m - 1 BY <4>2, <3>1, <1>2
        <5> QED BY <5>1, <1>2
      <4> QED BY <4>1, <4>2
    <3> QED BY <3>1, <3>2, <2>2, <1>1 DEF Nested
  <2> QED BY <2>1, <2>2 DEF Nested
<1>7. Called(y)
  <2>1. y.cis[1].kind = x.cis[1].kind BY <1>2
  <2>2. m > 1 => y.cis[1] = x.cis[1] /\ Len(x.cis) > 1 BY <1>2
  <2>3. ASSUME NEW k \in 2 .. m
        PROVE  LET e == y.cis[k]  f == y.cis[k - 1] IN
          /\ e.kind # "host"
          /\ e.kind # "handler" =>
                /\ f.status = "calling"
                /\ InPcall(f) => e.func = Callee(f)
                /\ e.nres # LUA_MULTRET => e.func + e.nres <= f.top
                /\ f.kind = "script" => e.nres # LUA_MULTRET /\ e.func = f.at
    <3>1. k - 1 \in 1 .. m - 1 /\ k \in 2 .. Len(x.cis) BY <1>2
    <3>2. y.cis[k - 1] = x.cis[k - 1] BY <3>1
    <3>3. /\ y.cis[k].kind = x.cis[k].kind /\ y.cis[k].func = x.cis[k].func
          /\ y.cis[k].nres = x.cis[k].nres
      BY <1>2
    <3> QED BY <3>1, <3>2, <3>3, <1>1 DEF Called
  <2> QED BY <2>1, <2>2, <2>3, <1>1 DEF Called
<1>8. HandlersThere(y)
  <2> SUFFICES ASSUME NEW k \in DOMAIN y.cis, InPcall(y.cis[k]), y.cis[k].kind \in JavaKinds
               PROVE  y.cis[k].at <= Len(y.stack) /\ y.stack[y.cis[k].at] = Handler
    BY DEF HandlersThere
  <2>1. k \in 1 .. m - 1 /\ y.cis[k] = x.cis[k] /\ k \in DOMAIN x.cis BY <1>2
  <2>2. Callee(x.cis[k]) = x.cis[k].at + 1 BY <2>1 DEF Callee, JavaKinds
  <2>3. x.cis[k].at \in 1 .. c.func - 1
    <3>1. Callee(x.cis[k]) <= c.func /\ x.cis[k].at # 0 BY <2>1, <1>5
    <3>2. x.cis[k].at \in Nat BY <2>1, <1>2, <1>3
    <3> QED BY <2>2, <3>1, <3>2, <1>4
  <2>4. x.stack[x.cis[k].at] = Handler BY <2>1, <1>1 DEF HandlersThere
  <2>5. y.stack[x.cis[k].at] = x.stack[x.cis[k].at] BY <2>3
  <2>6. x.cis[k].at <= Len(y.stack)
    <3>1. Len(y.stack) \in Nat BY <1>2
    <3> QED BY <2>3, <3>1, <1>4
  <2> QED BY <2>1, <2>4, <2>5, <2>6
<1> QED BY <1>6, <1>7, <1>8

\* luaD_pcall of the innermost frame that waits in one is over.
LEMMA CatchPopped ==
  ASSUME NEW x, Body(x), x.jmps # <<>>, NEW y \in Threads,
         y.jmps = Front(x.jmps), y.errfunc = Last(x.jmps).errfunc,
         NEW m, m = Last(x.jmps).ci, Len(y.cis) = m,
         \A k \in 1 .. m - 1 : y.cis[k] = x.cis[k], ~InPcall(y.cis[m])
  PROVE  Caught(y)
<1> DEFINE n == Len(x.jmps)
<1>1. x \in Threads /\ Caught(x) BY DEF Body, Types
<1>0. x.jmps \in Seq(Catcher) /\ y.jmps \in Seq(Catcher) /\ y.cis \in Seq(CallInfo)
      /\ x.cis \in Seq(CallInfo)
  BY <1>1, ThreadTypes
<1>a. /\ n \in Nat \ {0} /\ Len(Front(x.jmps)) = n - 1
      /\ \A i \in 1 .. n - 1 : Front(x.jmps)[i] = x.jmps[i]
      /\ Last(x.jmps) = x.jmps[n]
  BY <1>0, FrontIs
<1>b. \A i \in DOMAIN x.jmps : x.jmps[i].ci \in Nat
  BY <1>1, ThreadTypes DEF Catcher
<1>2. /\ x.jmps \in Seq(Catcher) /\ n \in Nat \ {0} /\ DOMAIN x.jmps = 1 .. n
      /\ Last(x.jmps) = x.jmps[n] /\ m \in Nat
      /\ Len(y.jmps) = n - 1 /\ DOMAIN y.jmps = 1 .. n - 1
      /\ \A i \in 1 .. n - 1 : y.jmps[i] = x.jmps[i]
      /\ DOMAIN y.cis = 1 .. m /\ DOMAIN x.cis = 1 .. Len(x.cis) /\ Len(x.cis) \in Nat
      /\ \A i \in 1 .. n : x.jmps[i].ci \in Nat
  BY <1>0, <1>a, <1>b
<1> HIDE DEF n
<1>3. \A i \in 1 .. n - 1 : x.jmps[i].ci \in 1 .. m - 1
  <2> SUFFICES ASSUME NEW i \in 1 .. n - 1 PROVE x.jmps[i].ci \in 1 .. m - 1
    OBVIOUS
  <2>1. i < n /\ i \in DOMAIN x.jmps /\ n \in DOMAIN x.jmps BY <1>2
  <2>2. x.jmps[i].ci < x.jmps[n].ci /\ x.jmps[i].ci \in DOMAIN x.cis
    BY <2>1, <1>1 DEF Caught
  <2> QED BY <2>2, <1>2
<1>4. m \in DOMAIN x.cis BY <1>1, <1>2 DEF Caught
<1>5. \A i \in 0 .. n - 1 : HandlerAt(y, i) = HandlerAt(x, i)
  <2> SUFFICES ASSUME NEW i \in 0 .. n - 1, i # 0 PROVE HandlerAt(y, i) = HandlerAt(x, i)
    BY DEF HandlerAt
  <2>1. i \in 1 .. n - 1 BY <1>2
  <2>2. y.jmps[i] = x.jmps[i] /\ x.jmps[i].ci \in 1 .. m - 1 BY <2>1, <1>2, <1>3
  <2>3. y.cis[x.jmps[i].ci] = x.cis[x.jmps[i].ci] BY <2>2
  <2> QED BY <2>2, <2>3 DEF HandlerAt
<1>6. ASSUME NEW i \in DOMAIN y.jmps
      PROVE  /\ y.jmps[i].ci \in DOMAIN y.cis /\ InPcall(y.cis[y.jmps[i].ci])
             /\ y.jmps[i].oldtop = Callee(y.cis[y.jmps[i].ci])
             /\ y.jmps[i].errfunc = HandlerAt(y, i - 1)
  <2>1. i \in 1 .. n - 1 /\ i - 1 \in 0 .. n - 1 /\ i \in DOMAIN x.jmps /\ y.jmps[i] = x.jmps[i]
    BY <1>2
  <2>2. x.jmps[i].ci \in 1 .. m - 1 /\ x.jmps[i].ci \in DOMAIN y.cis BY <2>1, <1>2, <1>3
  <2>3. y.cis[x.jmps[i].ci] = x.cis[x.jmps[i].ci] BY <2>2
  <2>4. HandlerAt(y, i - 1) = HandlerAt(x, i - 1) BY <2>1, <1>5
  <2> QED BY <2>1, <2>2, <2>3, <2>4, <1>1 DEF Caught
<1>7. ASSUME NEW i \in DOMAIN y.jmps, NEW j \in DOMAIN y.jmps, i < j
      PROVE  y.jmps[i].ci < y.jmps[j].ci
  <2>1. /\ i \in DOMAIN x.jmps /\ j \in DOMAIN x.jmps
        /\ y.jmps[i] = x.jmps[i] /\ y.jmps[j] = x.jmps[j]
    BY <1>2
  <2>2. x.jmps[i].ci < x.jmps[j].ci BY <2>1, <1>7, <1>1 DEF Caught
  <2> QED BY <2>1, <2>2
<1>8. ASSUME NEW k \in DOMAIN y.cis, InPcall(y.cis[k])
      PROVE  \E i \in DOMAIN y.jmps : y.jmps[i].ci = k
  <2>1. k # m BY <1>8
  <2>2. k \in 1 .. m - 1 /\ k \in DOMAIN x.cis /\ y.cis[k] = x.cis[k] BY <2>1, <1>2, <1>4
  <2>3. PICK i \in DOMAIN x.jmps : x.jmps[i].ci = k BY <2>2, <1>8, <1>1 DEF Caught
  <2>4. i # n BY <2>1, <2>3, <1>2
  <2> QED BY <2>3, <2>4, <1>2
<1>9. y.errfunc = HandlerAt(y, Len(y.jmps))
  <2>1. x.jmps[n].errfunc = HandlerAt(x, n - 1) BY <1>1, <1>2 DEF Caught
  <2> QED BY <2>1, <1>2, <1>5
<1> QED BY <1>6, <1>7, <1>8, <1>9 DEF Caught

\* The frames that wait in a luaD_pcall stay the same.
LEMMA CaughtSame ==
  ASSUME NEW x \in Threads, Caught(x), NEW y, y.jmps = x.jmps, y.errfunc = x.errfunc,
         \A k \in DOMAIN x.cis : InPcall(x.cis[k]) => k \in DOMAIN y.cis /\ y.cis[k] = x.cis[k],
         \A k \in DOMAIN y.cis : InPcall(y.cis[k]) => k \in DOMAIN x.cis /\ InPcall(x.cis[k])
  PROVE  Caught(y)
<1>1. \A i \in DOMAIN x.jmps : /\ x.jmps[i].ci \in DOMAIN x.cis
                               /\ InPcall(x.cis[x.jmps[i].ci])
                               /\ x.jmps[i].oldtop = Callee(x.cis[x.jmps[i].ci])
                               /\ x.jmps[i].errfunc = HandlerAt(x, i - 1)
  BY DEF Caught
<1>2. \A i \in DOMAIN x.jmps : /\ x.jmps[i].ci \in DOMAIN y.cis
                               /\ y.cis[x.jmps[i].ci] = x.cis[x.jmps[i].ci]
  BY <1>1
<1>3. Len(x.jmps) \in Nat /\ DOMAIN x.jmps = 1 .. Len(x.jmps) BY ThreadTypes
<1>4. \A i \in 0 .. Len(x.jmps) : HandlerAt(y, i) = HandlerAt(x, i)
  <2> SUFFICES ASSUME NEW i \in 0 .. Len(x.jmps), i # 0 PROVE HandlerAt(y, i) = HandlerAt(x, i)
    BY DEF HandlerAt
  <2>1. i \in DOMAIN x.jmps BY <1>3
  <2> QED BY <2>1, <1>2 DEF HandlerAt
<1>5. \A i \in DOMAIN x.jmps : HandlerAt(y, i - 1) = HandlerAt(x, i - 1)
  BY <1>3, <1>4
<1>6. ASSUME NEW i \in DOMAIN y.jmps
      PROVE  /\ y.jmps[i].ci \in DOMAIN y.cis /\ InPcall(y.cis[y.jmps[i].ci])
             /\ y.jmps[i].oldtop = Callee(y.cis[y.jmps[i].ci])
             /\ y.jmps[i].errfunc = HandlerAt(y, i - 1)
  BY <1>1, <1>2, <1>5
<1>7. \A i, j \in DOMAIN y.jmps : i < j => y.jmps[i].ci < y.jmps[j].ci BY DEF Caught
<1>8. \A k \in DOMAIN y.cis : InPcall(y.cis[k]) => \E i \in DOMAIN y.jmps : y.jmps[i].ci = k
  BY DEF Caught
<1>9. y.errfunc = HandlerAt(y, Len(y.jmps))
  <2>1. x.errfunc = HandlerAt(x, Len(x.jmps)) BY DEF Caught
  <2>2. Len(x.jmps) \in 0 .. Len(x.jmps) BY <1>3
  <2> QED BY <2>1, <2>2, <1>4
<1> QED BY <1>6, <1>7, <1>8, <1>9 DEF Caught

\* The innermost frame changes, and waits in no luaD_pcall before or after.
LEMMA TopChanged ==
  ASSUME NEW x, Body(x), NEW y \in Threads, NEW c, c = Last(x.cis), NEW d \in CallInfo,
         y.cis = Append(Front(x.cis), d),
         y.stack = x.stack, y.jmps = x.jmps, y.errfunc = x.errfunc, x.size <= y.size,
         d.kind = c.kind, d.func = c.func, d.nres = c.nres, ~InPcall(c), ~InPcall(d),
         d.at # 0 => d.func < d.at, c.top <= d.top, d.top <= y.size
  PROVE  Body(y)
<1> DEFINE m == Len(x.cis)
<1>1. x \in Threads /\ x.cis # <<>> /\ x.cis \in Seq(CallInfo) BY ThreadTypes DEF Body, Types
<1>2. /\ m \in Nat \ {0} /\ DOMAIN x.cis = 1 .. m /\ c = x.cis[m] /\ c \in CallInfo
  BY <1>1, FrontIs
<1>3. /\ y.cis \in Seq(CallInfo) /\ y.cis # <<>> /\ Len(y.cis) = m /\ DOMAIN y.cis = 1 .. m
      /\ \A k \in 1 .. m - 1 : y.cis[k] = x.cis[k]
      /\ y.cis[m] = d
  BY <1>1, AgainIs
<1>4. \A k \in DOMAIN x.cis : /\ x.cis[k].top <= x.size /\ x.cis[k].top \in Nat
                              /\ x.cis[k].func <= Len(x.stack)
  BY <1>1, ThreadTypes, CallInfoTypes DEF Body, Nested
<1>5. x.size \in Nat /\ y.size \in Nat BY <1>1, ThreadTypes
<1> HIDE DEF m
<1>6. m \in DOMAIN x.cis /\ c.func <= Len(y.stack) BY <1>2, <1>4
<1>7. \A k \in 1 .. m - 1 : x.cis[k].top <= y.size
  <2> SUFFICES ASSUME NEW k \in 1 .. m - 1 PROVE x.cis[k].top <= y.size OBVIOUS
  <2>1. x.cis[k].top <= x.size /\ x.cis[k].top \in Nat BY <1>2, <1>4
  <2> QED BY <2>1, <1>5
<1>8. Nested(y) /\ Called(y) /\ HandlersThere(y)
  BY <1>2, <1>3, <1>6, <1>7, FramesCut
<1>9. Caught(y)
  <2>1. Caught(x) BY DEF Body
  <2>2. \A k \in DOMAIN x.cis : /\ InPcall(x.cis[k]) => y.cis[k] = x.cis[k]
                                /\ InPcall(y.cis[k]) => y.cis[k] = x.cis[k]
    BY <1>2, <1>3
  <2> QED BY <2>1, <2>2, <1>1, <1>2, <1>3, CaughtSame
<1> QED BY <1>3, <1>8, <1>9 DEF Body, Types

\* The last index is one.
LEMMA LastIndex ==
  ASSUME NEW n \in Nat \ {0}
  PROVE  n \in 1 .. n
OBVIOUS

\* A luaD_pcall is over: its frame is the innermost again.
LEMMA FramePopped ==
  ASSUME NEW x, Body(x), x.jmps # <<>>, NEW y \in Threads,
         NEW m, m = Last(x.jmps).ci, NEW c, c = x.cis[m], NEW d \in CallInfo,
         y.jmps = Front(x.jmps), y.errfunc = Last(x.jmps).errfunc,
         Len(y.cis) = m, y.cis[m] = d, \A k \in 1 .. m - 1 : y.cis[k] = x.cis[k],
         \A k \in 1 .. m - 1 : x.cis[k].top <= y.size,
         d.kind = c.kind, d.func = c.func, d.nres = c.nres, ~InPcall(d),
         d.at # 0 => d.func < d.at, c.top <= d.top, d.top <= y.size,
         c.func <= Len(y.stack), \A i \in 1 .. c.func - 1 : y.stack[i] = x.stack[i]
  PROVE  Body(y)
<1>1. x \in Threads /\ Caught(x) /\ x.jmps \in Seq(Catcher) BY ThreadTypes DEF Body, Types
<1> DEFINE n == Len(x.jmps)
<1>2. Last(x.jmps) = x.jmps[n] /\ n \in Nat \ {0} /\ DOMAIN x.jmps = 1 .. n
  <2>1. Last(x.jmps) = x.jmps[n] /\ n \in Nat \ {0} BY <1>1, FrontIs
  <2>2. DOMAIN x.jmps = 1 .. n BY <1>1
  <2> QED BY <2>1, <2>2
<1> HIDE DEF n
<1>3. m \in DOMAIN x.cis
  <2>a. m = x.jmps[n].ci BY <1>2
  <2>1. n \in DOMAIN x.jmps BY <1>2, LastIndex
  <2>2. x.jmps[n].ci \in DOMAIN x.cis BY <2>1, <1>1 DEF Caught
  <2> QED BY <2>2, <2>a
<1>4. Nested(y) /\ Called(y) /\ HandlersThere(y) BY <1>3, FramesCut
<1>5. Caught(y) BY CatchPopped
<1>6. y.cis # <<>>
  <2>1. m # 0 BY <1>1, <1>3, ThreadTypes
  <2> QED BY <2>1
<1> QED BY <1>4, <1>5, <1>6 DEF Body, Types

\* A script goes on after a call.
LEMMA ScriptGoesOn ==
  ASSUME NEW x, Body(x), NEW y \in Threads, NEW m, m = Len(x.cis) - 1, m > 0,
         NEW c, c = x.cis[m], NEW d \in CallInfo, c.kind = "script", ~InPcall(Last(x.cis)),
         y.jmps = x.jmps, y.errfunc = x.errfunc, x.size <= y.size,
         Len(y.cis) = m, y.cis[m] = d, \A k \in 1 .. m - 1 : y.cis[k] = x.cis[k],
         d.kind = c.kind, d.func = c.func, d.nres = c.nres, d.at = 0, c.top = d.top,
         c.func <= Len(y.stack), \A i \in 1 .. c.func - 1 : y.stack[i] = x.stack[i]
  PROVE  Body(y)
<1>1. x \in Threads /\ Caught(x) /\ x.cis \in Seq(CallInfo) /\ x.cis # <<>>
      /\ y.cis \in Seq(CallInfo)
  BY ThreadTypes DEF Body, Types
<1>2. /\ DOMAIN x.cis = 1 .. m + 1 /\ DOMAIN y.cis = 1 .. m /\ m \in Nat \ {0}
      /\ Last(x.cis) = x.cis[m + 1]
  BY <1>1 DEF Last
<1>3. ~InPcall(c) /\ ~InPcall(d) BY DEF InPcall
<1>4. x.size \in Nat /\ y.size \in Nat BY <1>1, ThreadTypes
<1>5. \A k \in 1 .. m : x.cis[k].top <= y.size
  <2> SUFFICES ASSUME NEW k \in 1 .. m PROVE x.cis[k].top <= y.size OBVIOUS
  <2>1. k \in DOMAIN x.cis BY <1>2
  <2>2. x.cis[k].top <= x.size BY <2>1 DEF Body, Nested
  <2>3. x.cis[k].top \in Nat BY <2>1, <1>1, CallInfoTypes
  <2> QED BY <2>2, <2>3, <1>4
<1>6. /\ m \in DOMAIN x.cis /\ c.top <= y.size /\ c.top \in Nat
      /\ \A k \in 1 .. m - 1 : x.cis[k].top <= y.size
  <2>1. m \in DOMAIN x.cis /\ m \in 1 .. m /\ \A k \in 1 .. m - 1 : k \in 1 .. m BY <1>2
  <2>2. c \in CallInfo BY <2>1, <1>1
  <2> QED BY <2>1, <2>2, <1>5, CallInfoTypes
<1>7. Nested(y) /\ Called(y) /\ HandlersThere(y)
  <2>1. c.top <= d.top /\ d.top <= y.size /\ (d.at # 0 => d.func < d.at) BY <1>6
  <2>3. /\ d = y.cis[m] /\ c = x.cis[m]
        /\ \A k \in 1 .. m - 1 : y.cis[k] = x.cis[k] /\ x.cis[k].top <= y.size
    BY <1>6
  <2> QED BY <2>1, <2>3, <1>3, <1>6, FramesCut
<1>8. Caught(y)
  <2>1. \A k \in DOMAIN x.cis : InPcall(x.cis[k]) => k \in 1 .. m - 1 BY <1>2, <1>3
  <2>2. \A k \in DOMAIN y.cis : InPcall(y.cis[k]) => k \in 1 .. m - 1 BY <1>2, <1>3
  <2>3. 1 .. m - 1 \subseteq DOMAIN x.cis \cap DOMAIN y.cis BY <1>2
  <2> QED BY <2>1, <2>2, <2>3, <1>1, CaughtSame
<1> QED BY <1>2, <1>7, <1>8 DEF Body, Types

\* A function is called: its frame becomes the innermost.
LEMMA FramePushed ==
  ASSUME NEW x, Body(x), NEW y \in Threads, NEW c, c = Last(x.cis), NEW d \in CallInfo,
         y.cis = Append(x.cis, d),
         y.stack = x.stack, y.jmps = x.jmps, y.errfunc = x.errfunc, x.size <= y.size,
         c.status \in {"run", "calling"}, x.cis[1].status = "calling",
         c.at # 0, c.at <= d.func, InPcall(c) => Callee(c) <= d.func,
         c.kind = "script" => c.top <= d.func + MaxStackSize, 1 <= d.func, d.func <= Len(x.stack), d.at = 0, d.status = "run", d.top <= y.size,
         d.kind = "pcall" => d.func + 2 <= d.top, d.kind # "host",
         d.kind = "script" => d.func + MaxStackSize < d.top, d.kind = "handler" => d.nres = 1,
         d.kind # "handler" => /\ c.status = "calling"
                               /\ InPcall(c) => d.func = Callee(c)
                               /\ d.nres # LUA_MULTRET => d.func + d.nres <= c.top
                               /\ c.kind = "script" => d.nres # LUA_MULTRET /\ d.func = c.at
  PROVE  Body(y)
<1> DEFINE m == Len(x.cis)
<1>1. x \in Threads /\ x.cis # <<>> /\ x.cis \in Seq(CallInfo)
      /\ Nested(x) /\ Called(x) /\ Caught(x) /\ HandlersThere(x)
  BY ThreadTypes DEF Body, Types
<1>2. /\ m \in Nat \ {0} /\ DOMAIN x.cis = 1 .. m /\ c = x.cis[m] /\ c \in CallInfo
  <2>1. x.cis \in Seq(CallInfo) /\ x.cis # <<>> BY <1>1
  <2>2. Len(x.cis) \in Nat \ {0} /\ Last(x.cis) = x.cis[Len(x.cis)] /\ Last(x.cis) \in CallInfo
    BY <2>1, FrontIs
  <2> QED BY <2>1, <2>2
<1>3. /\ y.cis \in Seq(CallInfo) /\ y.cis # <<>> /\ Len(y.cis) = m + 1 /\ DOMAIN y.cis = 1 .. m + 1
      /\ \A k \in 1 .. m : y.cis[k] = x.cis[k]
      /\ y.cis[m + 1] = d
  <2>1. x.cis \in Seq(CallInfo) BY <1>1
  <2>2. LET a == Append(x.cis, d) IN
        /\ a \in Seq(CallInfo) /\ a # <<>> /\ Len(a) = m + 1
        /\ \A i \in 1 .. m : a[i] = x.cis[i]
        /\ a[m + 1] = d
    BY <2>1, AppendIs
  <2> QED BY <2>2
<1>4. \A k \in 1 .. m : /\ x.cis[k].func \in Nat /\ x.cis[k].at \in Nat /\ x.cis[k].top \in Nat
                        /\ Callee(x.cis[k]) \in Nat
  <2> SUFFICES ASSUME NEW k \in 1 .. m, NEW e, e = x.cis[k]
               PROVE  e.func \in Nat /\ e.at \in Nat /\ e.top \in Nat /\ Callee(e) \in Nat
    OBVIOUS
  <2>1. e \in CallInfo BY <1>1, <1>2
  <2> QED BY <2>1, CallInfoTypes
<1>5. x.size \in Nat /\ y.size \in Nat /\ d.func \in Nat BY <1>1, ThreadTypes, CallInfoTypes
<1>6. ~InPcall(d) BY DEF InPcall
<1> HIDE DEF m
<1>7. Nested(y)
  <2>1. ASSUME NEW k \in DOMAIN y.cis
        PROVE  LET e == y.cis[k] IN
          /\ 1 <= e.func /\ e.func <= Len(y.stack)
          /\ e.top <= y.size
          /\ e.kind = "pcall" => e.func + 2 <= e.top
          /\ e.kind = "script" => e.func + MaxStackSize < e.top
          /\ e.kind = "handler" => e.nres = 1
          /\ InPcall(e) => e.func + 1 < Callee(e) /\ Callee(e) < e.top
          /\ e.at # 0 => e.func < e.at
    <3>1. CASE k = m + 1 BY <3>1, <1>3, <1>6
    <3>2. CASE k # m + 1
      <4>1. k \in 1 .. m /\ k \in DOMAIN x.cis /\ y.cis[k] = x.cis[k] BY <3>2, <1>2, <1>3
      <4>2. LET e == x.cis[k] IN
            /\ 1 <= e.func /\ e.func <= Len(x.stack)
            /\ e.top <= x.size
            /\ e.kind = "pcall" => e.func + 2 <= e.top
            /\ e.kind = "script" => e.func + MaxStackSize < e.top
            /\ e.kind = "handler" => e.nres = 1
            /\ InPcall(e) => e.func + 1 < Callee(e) /\ Callee(e) < e.top
            /\ e.at # 0 => e.func < e.at
        BY <4>1, <1>1 DEF Nested
      <4>3. x.cis[k].top \in Nat BY <4>1, <1>4
      <4>4. x.cis[k].top <= y.size BY <4>2, <4>3, <1>5
      <4> QED BY <4>1, <4>2, <4>4
    <3> QED BY <3>1, <3>2
  <2>2. ASSUME NEW k \in DOMAIN y.cis, NEW n \in DOMAIN y.cis, k < n
        PROVE  LET e == y.cis[k] IN
          /\ e.at # 0 /\ e.at <= y.cis[n].func
          /\ InPcall(e) => Callee(e) <= y.cis[n].func
          /\ e.status \in {"run", "calling"}
          /\ e.kind = "script" => e.top <= y.cis[n].func + MaxStackSize
    <3>1. k \in 1 .. m /\ k \in DOMAIN x.cis /\ y.cis[k] = x.cis[k] BY <2>2, <1>2, <1>3
    <3>2. CASE n # m + 1
      <4>1. n \in DOMAIN x.cis /\ y.cis[n] = x.cis[n] BY <3>2, <1>2, <1>3
      <4> QED BY <3>1, <4>1, <2>2, <1>1 DEF Nested
    <3>3. CASE n = m + 1 /\ k = m BY <3>1, <3>3, <1>2, <1>3
    <3>4. CASE n = m + 1 /\ k # m
      <4>1. k < m /\ m \in DOMAIN x.cis BY <3>1, <3>4, <1>2
      <4>2. LET e == x.cis[k] IN
          /\ e.at # 0 /\ e.at <= c.func
          /\ InPcall(e) => Callee(e) <= c.func
          /\ e.status \in {"run", "calling"}
          /\ e.kind = "script" => e.top <= c.func + MaxStackSize
        BY <3>1, <4>1, <1>1, <1>2 DEF Nested
      <4>3. c.func < c.at BY <4>1, <1>1, <1>2 DEF Nested
      <4>4. /\ c.func \in Nat /\ c.at \in Nat /\ x.cis[k].at \in Nat /\ Callee(x.cis[k]) \in Nat
        BY <3>1, <4>1, <1>2, <1>4
      <4>5. c.func <= d.func BY <4>3, <4>4, <1>5
      <4>6. LET e == x.cis[k] IN
          /\ e.at <= d.func
          /\ InPcall(e) => Callee(e) <= d.func
        BY <4>2, <4>4, <4>5, <1>5
      <4>7. x.cis[k].kind = "script" => x.cis[k].top <= d.func + MaxStackSize
        <5>1. PICK t \in Nat : t = x.cis[k].top BY <3>1, <1>4
        <5>2. PICK f \in Nat : f = c.func BY <4>4
        <5>3. PICK g \in Nat : g = d.func BY <1>5
        <5>4. t <= f + MaxStackSize => t <= g + MaxStackSize BY <4>5, <5>2, <5>3, Sizes
        <5> QED BY <5>1, <5>2, <5>3, <5>4, <4>2
      <4> QED BY <3>1, <3>4, <4>2, <4>6, <4>7, <1>3
    <3> QED BY <3>2, <3>3, <3>4
  <2> QED BY <2>1, <2>2 DEF Nested
<1>8. Called(y)
  <2>1. y.cis[1] = x.cis[1] BY <1>2, <1>3
  <2>2. ASSUME NEW k \in 2 .. m + 1
        PROVE  LET e == y.cis[k]  f == y.cis[k - 1] IN
          /\ e.kind # "host"
          /\ e.kind # "handler" =>
                /\ f.status = "calling"
                /\ InPcall(f) => e.func = Callee(f)
                /\ e.nres # LUA_MULTRET => e.func + e.nres <= f.top
                /\ f.kind = "script" => e.nres # LUA_MULTRET /\ e.func = f.at
    <3>1. CASE k = m + 1
      <4>1. k - 1 = m /\ y.cis[k] = d /\ y.cis[k - 1] = c BY <3>1, <1>2, <1>3
      <4> QED BY <4>1
    <3>2. CASE k # m + 1
      <4>1. k \in 2 .. m /\ y.cis[k] = x.cis[k] /\ y.cis[k - 1] = x.cis[k - 1]
        BY <3>2, <1>2, <1>3
      <4>2. LET e == x.cis[k]  f == x.cis[k - 1] IN
            /\ e.kind # "host"
            /\ e.kind # "handler" =>
                  /\ f.status = "calling"
                  /\ InPcall(f) => e.func = Callee(f)
                  /\ e.nres # LUA_MULTRET => e.func + e.nres <= f.top
                  /\ f.kind = "script" => e.nres # LUA_MULTRET /\ e.func = f.at
        BY <4>1, <1>1, <1>2 DEF Called
      <4> QED BY <4>1, <4>2
    <3> QED BY <3>1, <3>2
  <2> QED BY <2>1, <2>2, <1>1, <1>3 DEF Called
<1>9. Caught(y)
  <2>1. DOMAIN x.cis \subseteq DOMAIN y.cis BY <1>2, <1>3
  <2>2. \A k \in DOMAIN x.cis : y.cis[k] = x.cis[k] BY <1>2, <1>3
  <2>3. \A k \in DOMAIN y.cis : InPcall(y.cis[k]) => k \in DOMAIN x.cis
    BY <1>2, <1>3, <1>6
  <2> QED BY <2>1, <2>2, <2>3, <1>1, CaughtSame
<1>10. HandlersThere(y)
  <2>1. \A k \in DOMAIN y.cis : InPcall(y.cis[k]) => k \in DOMAIN x.cis /\ y.cis[k] = x.cis[k]
    BY <1>2, <1>3, <1>6
  <2> QED BY <2>1, <1>1 DEF HandlersThere
<1>11. Types(y) BY <1>3 DEF Types
<1> QED BY <1>7, <1>8, <1>9, <1>10, <1>11 DEF Body

\* The innermost frame starts a luaD_pcall.
LEMMA Suspended ==
  ASSUME NEW x, Body(x), NEW y \in Threads, NEW c, c = Last(x.cis), NEW d \in CallInfo,
         y.cis = Append(Front(x.cis), d), x.size <= y.size, y.errfunc = HandlerOf(d),
         NEW j \in Catcher, y.jmps = Append(x.jmps, j),
         j.ci = Len(x.cis), j.oldtop = Callee(d), j.errfunc = x.errfunc,
         d.kind = c.kind, d.func = c.func, d.nres = c.nres, d.top = c.top, InPcall(d),
         c.status # "calling", d.func < d.at, d.func + 1 < Callee(d), Callee(d) < d.top,
         c.func <= Len(y.stack), \A i \in 1 .. c.func : y.stack[i] = x.stack[i],
         d.kind \in JavaKinds => d.at <= Len(y.stack) /\ y.stack[d.at] = Handler
  PROVE  Body(y)
<1> DEFINE m == Len(x.cis)  n == Len(x.jmps)
<1>1. x \in Threads /\ x.cis # <<>> /\ x.cis \in Seq(CallInfo) /\ x.jmps \in Seq(Catcher)
  BY ThreadTypes DEF Body, Types
<1>2. Nested(x) /\ Called(x) /\ Caught(x) /\ HandlersThere(x) BY DEF Body
<1>3. /\ m \in Nat \ {0} /\ DOMAIN x.cis = 1 .. m /\ c = x.cis[m] /\ c \in CallInfo
  <2>1. Len(x.cis) \in Nat \ {0} /\ Last(x.cis) = x.cis[Len(x.cis)] /\ Last(x.cis) \in CallInfo
    BY <1>1, FrontIs
  <2> QED BY <1>1, <2>1
<1>4. /\ y.cis \in Seq(CallInfo) /\ y.cis # <<>> /\ Len(y.cis) = m /\ DOMAIN y.cis = 1 .. m
      /\ \A k \in 1 .. m - 1 : y.cis[k] = x.cis[k]
      /\ y.cis[m] = d
  <2>1. LET a == Append(Front(x.cis), d) IN
        /\ a \in Seq(CallInfo) /\ a # <<>> /\ Len(a) = m
        /\ \A i \in 1 .. m - 1 : a[i] = x.cis[i]
        /\ a[m] = d
    BY <1>1, AgainIs
  <2> QED BY <2>1
<1>5. /\ n \in Nat /\ DOMAIN x.jmps = 1 .. n
      /\ Len(y.jmps) = n + 1 /\ DOMAIN y.jmps = 1 .. n + 1
      /\ \A i \in 1 .. n : y.jmps[i] = x.jmps[i]
      /\ y.jmps[n + 1] = j
  <2>1. LET a == Append(x.jmps, j) IN
        /\ a \in Seq(Catcher) /\ Len(x.jmps) \in Nat /\ Len(a) = n + 1
        /\ \A i \in 1 .. n : a[i] = x.jmps[i]
        /\ a[n + 1] = j
    BY <1>1, AppendIs
  <2> QED BY <1>1, <2>1
<1>6. ~InPcall(c) BY DEF InPcall
<1> HIDE DEF m, n
<1>7. \A k \in DOMAIN x.cis : InPcall(x.cis[k]) => k \in 1 .. m - 1 BY <1>3, <1>6
<1>8. \A i \in 1 .. n : x.jmps[i].ci \in 1 .. m - 1
  <2> SUFFICES ASSUME NEW i \in 1 .. n PROVE x.jmps[i].ci \in 1 .. m - 1 OBVIOUS
  <2>1. x.jmps[i].ci \in DOMAIN x.cis /\ InPcall(x.cis[x.jmps[i].ci])
    BY <1>2, <1>5 DEF Caught
  <2> QED BY <1>7, <2>1
<1>9. \A i \in 0 .. n : HandlerAt(y, i) = HandlerAt(x, i)
  <2> SUFFICES ASSUME NEW i \in 0 .. n, i # 0 PROVE HandlerAt(y, i) = HandlerAt(x, i)
    BY DEF HandlerAt
  <2>1. i \in 1 .. n BY <1>5
  <2>2. y.jmps[i] = x.jmps[i] /\ x.jmps[i].ci \in 1 .. m - 1 BY <2>1, <1>5, <1>8
  <2>3. y.cis[x.jmps[i].ci] = x.cis[x.jmps[i].ci] BY <2>2, <1>4
  <2> QED BY <2>2, <2>3 DEF HandlerAt
<1>10. ASSUME NEW k \in 1 .. m - 1
       PROVE  LET e == x.cis[k] IN
              /\ e.at # 0 /\ e.at <= c.func /\ 1 <= e.func /\ e.func <= c.func
              /\ InPcall(e) => Callee(e) <= c.func
              /\ e.status \in {"run", "calling"}
  <2> DEFINE e == x.cis[k]
  <2>1. k < m /\ k \in DOMAIN x.cis /\ m \in DOMAIN x.cis BY <1>3
  <2>2. /\ e.at # 0 /\ e.at <= c.func /\ 1 <= e.func /\ e.func < e.at
        /\ InPcall(e) => Callee(e) <= c.func
        /\ e.status \in {"run", "calling"}
    BY <1>2, <1>3, <2>1 DEF Nested
  <2>3. e.func \in Nat /\ e.at \in Nat /\ c.func \in Nat
    <3>1. e \in CallInfo /\ c \in CallInfo BY <1>1, <1>3, <2>1
    <3> HIDE DEF e
    <3> QED BY <3>1, CallInfoTypes
  <2> QED BY <2>2, <2>3
<1>11. Nested(y)
  <2>1. ASSUME NEW k \in DOMAIN y.cis
        PROVE  LET e == y.cis[k] IN
          /\ 1 <= e.func /\ e.func <= Len(y.stack)
          /\ e.top <= y.size
          /\ e.kind = "pcall" => e.func + 2 <= e.top
          /\ e.kind = "script" => e.func + MaxStackSize < e.top
          /\ e.kind = "handler" => e.nres = 1
          /\ InPcall(e) => e.func + 1 < Callee(e) /\ Callee(e) < e.top
          /\ e.at # 0 => e.func < e.at
    <3> DEFINE e == x.cis[k]
    <3>1. k \in DOMAIN x.cis BY <1>3, <1>4
    <3>2. /\ 1 <= e.func /\ e.func <= Len(x.stack)
          /\ e.top <= x.size
          /\ e.kind = "pcall" => e.func + 2 <= e.top
          /\ e.kind = "script" => e.func + MaxStackSize < e.top
          /\ e.kind = "handler" => e.nres = 1
          /\ InPcall(e) => e.func + 1 < Callee(e) /\ Callee(e) < e.top
          /\ e.at # 0 => e.func < e.at
      BY <3>1, <1>2 DEF Nested
    <3>3. e.top <= y.size
      <4>1. e \in CallInfo BY <3>1, <1>1
      <4>2. e.top \in Nat /\ x.size \in Nat /\ y.size \in Nat
        BY <1>1, <4>1, CallInfoTypes, ThreadTypes
      <4> QED BY <3>2, <4>2
    <3>4. CASE k = m
      <4>1. e = c /\ y.cis[k] = d BY <3>4, <1>3, <1>4
      <4> QED BY <3>2, <3>3, <4>1
    <3>5. CASE k # m
      <4>1. k \in 1 .. m - 1 /\ y.cis[k] = e BY <3>1, <3>5, <1>3, <1>4
      <4>2. e.func <= Len(y.stack)
        <5>1. e.func <= c.func BY <4>1, <1>10
        <5>2. e.func \in Nat /\ c.func \in Nat /\ Len(y.stack) \in Nat
          BY <1>1, <1>3, <3>1, CallInfoTypes, ThreadTypes
        <5> QED BY <5>1, <5>2
      <4> QED BY <3>2, <3>3, <4>1, <4>2
    <3> QED BY <3>4, <3>5
  <2>2. ASSUME NEW k \in DOMAIN y.cis, NEW l \in DOMAIN y.cis, k < l
        PROVE  LET e == y.cis[k] IN
          /\ e.at # 0 /\ e.at <= y.cis[l].func
          /\ InPcall(e) => Callee(e) <= y.cis[l].func
          /\ e.status \in {"run", "calling"}
          /\ e.kind = "script" => e.top <= y.cis[l].func + MaxStackSize
    <3>1. k \in 1 .. m - 1 /\ y.cis[k] = x.cis[k] /\ k \in DOMAIN x.cis /\ l \in DOMAIN x.cis
      BY <2>2, <1>3, <1>4
    <3>2. y.cis[l].func = x.cis[l].func BY <1>3, <1>4
    <3> QED BY <3>1, <3>2, <2>2, <1>2 DEF Nested
  <2> QED BY <2>1, <2>2 DEF Nested
<1>12. Called(y)
  <2>1. y.cis[1].kind = x.cis[1].kind BY <1>3, <1>4
  <2>2. m > 1 => y.cis[1] = x.cis[1] BY <1>3, <1>4
  <2>3. ASSUME NEW k \in 2 .. m
        PROVE  LET e == y.cis[k]  f == y.cis[k - 1] IN
          /\ e.kind # "host"
          /\ e.kind # "handler" =>
                /\ f.status = "calling"
                /\ InPcall(f) => e.func = Callee(f)
                /\ e.nres # LUA_MULTRET => e.func + e.nres <= f.top
                /\ f.kind = "script" => e.nres # LUA_MULTRET /\ e.func = f.at
    <3>1. k - 1 \in 1 .. m - 1 BY <1>3
    <3>2. y.cis[k - 1] = x.cis[k - 1] BY <3>1, <1>4
    <3>3. /\ y.cis[k].kind = x.cis[k].kind /\ y.cis[k].func = x.cis[k].func
          /\ y.cis[k].nres = x.cis[k].nres
      BY <1>3, <1>4
    <3>4. LET e == x.cis[k]  f == x.cis[k - 1] IN
          /\ e.kind # "host"
          /\ e.kind # "handler" =>
                /\ f.status = "calling"
                /\ InPcall(f) => e.func = Callee(f)
                /\ e.nres # LUA_MULTRET => e.func + e.nres <= f.top
                /\ f.kind = "script" => e.nres # LUA_MULTRET /\ e.func = f.at
      BY <1>2, <1>3 DEF Called, m
    <3> QED BY <3>2, <3>3, <3>4
  <2>4. /\ x.cis[1].kind = "host"
        /\ m > 1 => x.cis[1].status = "calling"
    BY <1>2 DEF Called, m
  <2> QED BY <2>1, <2>2, <2>3, <2>4, <1>4 DEF Called
<1>13. HandlersThere(y)
  <2> SUFFICES ASSUME NEW k \in DOMAIN y.cis, InPcall(y.cis[k]), y.cis[k].kind \in JavaKinds
               PROVE  y.cis[k].at <= Len(y.stack) /\ y.stack[y.cis[k].at] = Handler
    BY DEF HandlersThere
  <2>1. CASE k = m BY <2>1, <1>4
  <2>2. CASE k # m
    <3> DEFINE e == x.cis[k]
    <3>1. k \in 1 .. m - 1 /\ y.cis[k] = e /\ k \in DOMAIN x.cis BY <2>2, <1>3, <1>4
    <3>2. e.at <= Len(x.stack) /\ x.stack[e.at] = Handler BY <3>1, <1>2 DEF HandlersThere
    <3>3. e.at # 0 /\ e.at <= c.func BY <3>1, <1>10
    <3>4. e.at \in Nat /\ c.func \in Nat /\ Len(y.stack) \in Nat
      BY <1>1, <1>3, <3>1, CallInfoTypes, ThreadTypes
    <3> HIDE DEF e
    <3>5. e.at \in 1 .. c.func /\ e.at <= Len(y.stack) BY <3>3, <3>4
    <3>6. y.stack[e.at] = x.stack[e.at] BY <3>5
    <3> QED BY <3>1, <3>2, <3>5, <3>6
  <2> QED BY <2>1, <2>2
<1>14. Caught(y)
  <2>1. ASSUME NEW i \in DOMAIN y.jmps
        PROVE  /\ y.jmps[i].ci \in DOMAIN y.cis /\ InPcall(y.cis[y.jmps[i].ci])
               /\ y.jmps[i].oldtop = Callee(y.cis[y.jmps[i].ci])
               /\ y.jmps[i].errfunc = HandlerAt(y, i - 1)
    <3>1. CASE i = n + 1
      <4>1. y.jmps[i] = j /\ i - 1 = n /\ n \in 0 .. n BY <3>1, <1>5
      <4>2. y.jmps[i].ci = m /\ y.cis[m] = d /\ m \in DOMAIN y.cis BY <4>1, <1>3, <1>4 DEF m
      <4>3. x.errfunc = HandlerAt(x, n) BY <1>2 DEF Caught, n
      <4>4. HandlerAt(y, n) = HandlerAt(x, n) BY <4>1, <1>9
      <4> QED BY <4>1, <4>2, <4>3, <4>4
    <3>2. CASE i # n + 1
      <4>1. i \in 1 .. n /\ i \in DOMAIN x.jmps /\ y.jmps[i] = x.jmps[i] /\ i - 1 \in 0 .. n
        BY <3>2, <1>5
      <4>2. /\ x.jmps[i].ci \in 1 .. m - 1 /\ x.jmps[i].ci \in DOMAIN y.cis
        BY <4>1, <1>3, <1>4, <1>8
      <4>3. y.cis[x.jmps[i].ci] = x.cis[x.jmps[i].ci] BY <4>2, <1>4
      <4>4. HandlerAt(y, i - 1) = HandlerAt(x, i - 1) BY <4>1, <1>9
      <4> QED BY <4>1, <4>2, <4>3, <4>4, <1>2 DEF Caught
    <3> QED BY <3>1, <3>2
  <2>2. ASSUME NEW i \in DOMAIN y.jmps, NEW l \in DOMAIN y.jmps, i < l
        PROVE  y.jmps[i].ci < y.jmps[l].ci
    <3>1. i \in 1 .. n /\ i \in DOMAIN x.jmps /\ y.jmps[i] = x.jmps[i] BY <2>2, <1>5
    <3>2. CASE l = n + 1
      <4>1. y.jmps[l].ci = m BY <3>2, <1>5 DEF m
      <4>2. x.jmps[i].ci \in 1 .. m - 1 BY <3>1, <1>8
      <4> QED BY <3>1, <4>1, <4>2, <1>3
    <3>3. CASE l # n + 1
      <4>1. l \in DOMAIN x.jmps /\ y.jmps[l] = x.jmps[l] BY <3>3, <1>5
      <4> QED BY <3>1, <4>1, <2>2, <1>2 DEF Caught
    <3> QED BY <3>2, <3>3
  <2>3. ASSUME NEW k \in DOMAIN y.cis, InPcall(y.cis[k])
        PROVE  \E i \in DOMAIN y.jmps : y.jmps[i].ci = k
    <3>1. CASE k = m
      <4>1. n + 1 \in DOMAIN y.jmps /\ y.jmps[n + 1].ci = m BY <1>5 DEF m
      <4> QED BY <3>1, <4>1
    <3>2. CASE k # m
      <4>1. k \in DOMAIN x.cis /\ y.cis[k] = x.cis[k] BY <3>2, <1>3, <1>4
      <4>2. PICK i \in DOMAIN x.jmps : x.jmps[i].ci = k BY <4>1, <2>3, <1>2 DEF Caught
      <4>3. i \in DOMAIN y.jmps /\ y.jmps[i] = x.jmps[i] BY <1>5
      <4> QED BY <4>2, <4>3
    <3> QED BY <3>1, <3>2
  <2>4. y.errfunc = HandlerAt(y, Len(y.jmps))
    <3>1. Len(y.jmps) = n + 1 /\ n + 1 # 0 BY <1>5
    <3>2. y.cis[y.jmps[n + 1].ci] = d BY <1>4, <1>5 DEF m
    <3> QED BY <3>1, <3>2 DEF HandlerAt
  <2> QED BY <2>1, <2>2, <2>3, <2>4 DEF Caught
<1>15. Types(y) BY <1>4 DEF Types
<1> QED BY <1>11, <1>12, <1>13, <1>14, <1>15 DEF Body

-----------------------------------------------------------------------------
(* The size of the stack *)

\* A bounded set of naturals has its maximum.
LEMMA MaxIs ==
  ASSUME NEW S, S \subseteq Nat, S # {}, NEW b \in Nat, \A e \in S : e <= b
  PROVE  Max(S) \in S /\ \A e \in S : e <= Max(S)
<1> DEFINE T == {b - e : e \in S}
<1>1. T \subseteq Nat /\ T # {}
  <2>1. ASSUME NEW e \in S PROVE b - e \in Nat
    <3>1. e \in Nat /\ e <= b OBVIOUS
    <3> QED BY <3>1
  <2> QED BY <2>1
<1>2. PICK t \in T : \A u \in T : t <= u BY <1>1, LeastNatural
<1>3. PICK m \in S : t = b - m OBVIOUS
<1>4. \A e \in S : m >= e
  <2> SUFFICES ASSUME NEW e \in S PROVE m >= e OBVIOUS
  <2>1. b - e \in T OBVIOUS
  <2>2. b - m <= b - e BY <1>2, <1>3, <2>1
  <2>3. e \in Nat /\ m \in Nat BY <1>3
  <2> QED BY <2>2, <2>3
<1>5. Max(S) \in S /\ \A e \in S : Max(S) >= e BY <1>4 DEF Max
<1>6. Max(S) \in Nat BY <1>5
<1> QED BY <1>5, <1>6

\* r is a size that leaves room for need slots, or an error.
Grown(r, sz, need) ==
    /\ r.size \in 0 .. ERRORSTACKSIZE /\ sz <= r.size
    /\ r.err \in {"", "overflow", "errerr"}
    /\ r.err = "" => need <= r.size
    /\ r.err = "overflow" => sz <= LUAI_MAXSTACK /\ r.size = ERRORSTACKSIZE

\* What luaD_growstack leaves has room for n values and the extra slots.
LEMMA GrowIs ==
  ASSUME NEW len \in Nat, NEW n \in Nat, NEW sz \in 0 .. ERRORSTACKSIZE
  PROVE  Grown(luaD_growstack(len, n, sz), sz, len + n + EXTRA_STACK)
<1>0. sz \in Nat /\ sz <= ERRORSTACKSIZE BY Sizes
<1> DEFINE needed == len + n + EXTRA_STACK
           newsize == Larger(Smaller(2 * sz, LUAI_MAXSTACK), needed)
<1>1. CASE sz > LUAI_MAXSTACK
  <2>1. luaD_growstack(len, n, sz) = [size |-> sz, err |-> "errerr"]
    BY <1>1 DEF luaD_growstack
  <2>2. Grown([size |-> sz, err |-> "errerr"], sz, needed) BY <1>0 DEF Grown
  <2> QED BY <2>1, <2>2
<1>2. CASE ~(sz > LUAI_MAXSTACK)
  <2>0. sz <= LUAI_MAXSTACK BY <1>0, <1>2, Sizes
  <2>1. newsize \in Nat /\ needed <= newsize /\ sz <= newsize
    BY <1>0, <2>0, Sizes DEF Larger, Smaller
  <2>2. CASE newsize > LUAI_MAXSTACK
    <3>1. luaD_growstack(len, n, sz) = [size |-> ERRORSTACKSIZE, err |-> "overflow"]
      BY <1>2, <2>2 DEF luaD_growstack
    <3>2. Grown([size |-> ERRORSTACKSIZE, err |-> "overflow"], sz, needed)
      BY <1>0, <2>0, Sizes DEF Grown
    <3> QED BY <3>1, <3>2
  <2>3. CASE ~(newsize > LUAI_MAXSTACK)
    <3>1. luaD_growstack(len, n, sz) = [size |-> newsize, err |-> ""]
      BY <1>2, <2>3 DEF luaD_growstack
    <3> HIDE DEF newsize, needed
    <3>2. newsize <= ERRORSTACKSIZE BY <2>1, <2>3, Sizes
    <3>3. Grown([size |-> newsize, err |-> ""], sz, needed)
      BY <1>0, <2>1, <3>2, Sizes DEF Grown
    <3> QED BY <3>1, <3>3 DEF needed
  <2> QED BY <2>2, <2>3
<1> QED BY <1>1, <1>2

\* The same of luaD_checkstack.
LEMMA CheckIs ==
  ASSUME NEW len \in Nat, NEW n \in Nat, NEW sz \in 0 .. ERRORSTACKSIZE
  PROVE  Grown(luaD_checkstack(len, n, sz), sz, len + 1 + n)
<1>0. sz \in Nat /\ sz <= ERRORSTACKSIZE BY Sizes
<1>1. CASE stack_last(sz) - (len + 1) <= n
  <2>1. luaD_checkstack(len, n, sz) = luaD_growstack(len, n, sz) BY <1>1 DEF luaD_checkstack
  <2> DEFINE r == luaD_growstack(len, n, sz)
  <2>2. Grown(r, sz, len + n + EXTRA_STACK) BY GrowIs
  <2> HIDE DEF r
  <2>3. r.size \in Nat
    <3>1. r.size \in 0 .. ERRORSTACKSIZE BY <2>2 DEF Grown
    <3> QED BY <3>1, Sizes
  <2>4. len + n + EXTRA_STACK <= r.size => len + 1 + n <= r.size BY <2>3, Sizes
  <2>5. Grown(r, sz, len + 1 + n) BY <2>2, <2>4 DEF Grown
  <2> QED BY <2>1, <2>5 DEF r
<1>2. CASE ~(stack_last(sz) - (len + 1) <= n)
  <2>1. luaD_checkstack(len, n, sz) = [size |-> sz, err |-> ""] BY <1>2 DEF luaD_checkstack
  <2>2. len + 1 + n <= sz BY <1>0, <1>2, Sizes DEF stack_last
  <2>3. Grown([size |-> sz, err |-> ""], sz, len + 1 + n) BY <1>0, <2>2 DEF Grown
  <2> QED BY <2>1, <2>3
<1> QED BY <1>1, <1>2

\* luaD_shrinkstack keeps the CallInfos and the values within the stack.
LEMMA ShrinkIs ==
  ASSUME NEW len \in Nat, NEW calls \in Seq(CallInfo), NEW sz \in 0 .. ERRORSTACKSIZE,
         \A k \in DOMAIN calls : calls[k].top <= sz, len <= sz
  PROVE  LET r == luaD_shrinkstack(len, calls, sz) IN
         /\ r \in 0 .. ERRORSTACKSIZE /\ len <= r
         /\ \A k \in DOMAIN calls : calls[k].top <= r
<1> DEFINE S == {len + 1} \cup {calls[k].top : k \in DOMAIN calls}
<1>1. \A k \in DOMAIN calls : calls[k].top \in Nat
  <2> SUFFICES ASSUME NEW k \in DOMAIN calls PROVE calls[k].top \in Nat OBVIOUS
  <2>1. calls[k] \in CallInfo OBVIOUS
  <2> QED BY <2>1, CallInfoTypes
<1>2. sz \in Nat BY Sizes
<1>3. S \subseteq Nat /\ S # {} BY <1>1
<1>4. \A e \in S : e <= sz + len + 1
  <2>1. \A k \in DOMAIN calls : calls[k].top <= sz + len + 1 BY <1>1, <1>2
  <2> QED BY <2>1, <1>2
<1> HIDE DEF S
<1>5. Max(S) \in S /\ \A e \in S : e <= Max(S)
  <2>1. sz + len + 1 \in Nat BY <1>2
  <2> QED BY <2>1, <1>3, <1>4, MaxIs
<1> DEFINE inuse == Max(S)
           goodsize == Smaller(inuse + inuse \div 8 + 2 * EXTRA_STACK, LUAI_MAXSTACK)
<1>6. stackinuse(len, calls) = inuse BY DEF stackinuse, S
<1>7. inuse \in Nat BY <1>3, <1>5
<1>8. len + 1 <= inuse /\ \A k \in DOMAIN calls : calls[k].top <= inuse BY <1>5 DEF S
<1> HIDE DEF inuse
<1>9. CASE inuse > LUAI_MAXSTACK \/ goodsize >= sz
  <2>1. luaD_shrinkstack(len, calls, sz) = sz BY <1>6, <1>9 DEF luaD_shrinkstack
  <2> QED BY <2>1
<1>10. CASE ~(inuse > LUAI_MAXSTACK \/ goodsize >= sz)
  <2>1. luaD_shrinkstack(len, calls, sz) = goodsize BY <1>6, <1>10 DEF luaD_shrinkstack
  <2>2. goodsize \in Nat /\ inuse <= goodsize
    <3>1. inuse \div 8 \in Nat BY <1>7
    <3> DEFINE q == inuse \div 8
    <3> HIDE DEF q
    <3>2. q \in Nat BY <3>1 DEF q
    <3>3. Smaller(inuse + q + 2 * EXTRA_STACK, LUAI_MAXSTACK) \in Nat
          /\ inuse <= Smaller(inuse + q + 2 * EXTRA_STACK, LUAI_MAXSTACK)
      BY <1>7, <1>10, <3>2, Sizes DEF Smaller
    <3> QED BY <3>3 DEF q
  <2> HIDE DEF goodsize
  <2>3. goodsize < sz BY <1>2, <1>10, <2>2
  <2>4. goodsize \in 0 .. ERRORSTACKSIZE /\ len <= goodsize
    BY <2>2, <2>3, <1>2, <1>7, <1>8, Sizes
  <2>5. \A k \in DOMAIN calls : calls[k].top <= goodsize
    BY <1>1, <1>7, <1>8, <2>2
  <2> QED BY <2>1, <2>4, <2>5
<1> QED BY <1>9, <1>10

-----------------------------------------------------------------------------
(* Errors *)

\* The thread y is what a step makes of the state.
LEMMA StepTo ==
  ASSUME NEW y \in Threads, NEW r \in BOOLEAN,
         stack' = y.stack, cis' = y.cis, jmps' = y.jmps, errfunc' = y.errfunc,
         size' = y.size, raising' = r, globals' \in Values,
         Body(y), Len(y.stack) <= y.size,
         IF r THEN Raises(Last(y.cis), Len(y.stack)) ELSE Runs(Last(y.cis), Len(y.stack))
  PROVE  ApiInv'
<1>1. Thread' = y BY DEF Thread, Threads
<1>2. Body(Thread)' BY <1>1
<1>3. Len(stack)' = Len(y.stack) /\ ci' = Last(y.cis) BY DEF ci
<1>4. (IF raising THEN Raises(ci, Len(stack)) ELSE Runs(ci, Len(stack)))' BY <1>3
<1> QED BY <1>2, <1>4 DEF ApiInv

\* A frame was called from luaD_pcalls only, so there is one.
LEMMA SomeCatch ==
  ASSUME NEW x, Body(x), Len(x.cis) > 1 \/ x.cis[1].status = "calling"
  PROVE  x.jmps # <<>> /\ x.cis[1].status = "calling" /\ x.cis[1].kind = "host"
<1>1. x \in Threads /\ Called(x) /\ Caught(x) /\ x.cis # <<>> BY DEF Body, Types
<1>2. x.cis[1].kind = "host" /\ x.cis[1].status = "calling" BY <1>1 DEF Called
<1>3. 1 \in DOMAIN x.cis
  <2>1. x.cis \in Seq(CallInfo) /\ x.cis # <<>> BY <1>1, ThreadTypes
  <2> QED BY <2>1
<1>4. InPcall(x.cis[1]) BY <1>2 DEF InPcall
<1>5. PICK i \in DOMAIN x.jmps : x.jmps[i].ci = 1 BY <1>1, <1>3, <1>4 DEF Caught
<1> QED BY <1>2, <1>5

\* The innermost frame can raise an error.
Faulting(x) ==
    LET c == Last(x.cis) IN
    /\ c.status \in {"run", "calling"}
    /\ c.kind = "host" => c.status = "calling"
    /\ c.at # 0 => c.at <= Len(x.stack) + 1
    /\ InPcall(c) => Callee(c) <= Len(x.stack)
    /\ c.kind = "script" => c.top <= Len(x.stack) + 1 + MaxStackSize

\* A luaD_pcall then is there to catch it.
LEMMA FaultIsCaught ==
  ASSUME NEW x, Body(x), Faulting(x)
  PROVE  x.jmps # <<>> /\ x.cis[1].status = "calling" /\ x.cis[1].kind = "host"
<1>1. x.cis \in Seq(CallInfo) /\ x.cis # <<>> BY ThreadTypes DEF Body, Types
<1>2. CASE Len(x.cis) > 1 BY <1>2, SomeCatch
<1>3. CASE ~(Len(x.cis) > 1)
  <2>0. Len(x.cis) \in Nat \ {0} /\ Last(x.cis) = x.cis[Len(x.cis)] BY <1>1, FrontIs
  <2> DEFINE n == Len(x.cis)
  <2> HIDE DEF n
  <2>a. n \in Nat \ {0} /\ ~(n > 1) BY <2>0, <1>3 DEF n
  <2>b. n = 1 BY <2>a
  <2>1. Len(x.cis) = 1 /\ Last(x.cis) = x.cis[1] BY <2>0, <2>b DEF n
  <2>2. x.cis[1].kind = "host" BY DEF Body, Called
  <2>3. x.cis[1].status = "calling" BY <2>1, <2>2 DEF Faulting
  <2> QED BY <2>3, SomeCatch
<1> QED BY <1>2, <1>3

\* luaG_errormsg follows, for the message on the stack.
LEMMA RaiseKeeps ==
  ASSUME NEW x, Body(x), Faulting(x), Len(x.stack) + 1 <= x.size, NEW v \in Values,
         globals \in Values, Raise(x, v)
  PROVE  ApiInv'
<1> DEFINE c == Last(x.cis)
           a == IF c.at = 0 THEN Len(x.stack) + 1 ELSE c.at
           d == [c EXCEPT !.at = a]
           z == [x EXCEPT !.cis = Append(Front(x.cis), d)]
           y == [z EXCEPT !.stack = Append(x.stack, v)]
<1>1. x \in Threads /\ x.cis \in Seq(CallInfo) /\ x.cis # <<>> /\ x.stack \in Seq(Values)
      /\ Len(x.stack) \in Nat
  BY ThreadTypes DEF Body, Types
<1>2. Becomes(y, TRUE)
  <2>1. y = [InCi(x, [c EXCEPT !.at = IF @ = 0 THEN Len(x.stack) + 1 ELSE @])
                  EXCEPT !.stack = Append(@, v)]
    BY <1>1 DEF InCi, Threads
  <2> QED BY <2>1 DEF Raise
<1>3. /\ c \in CallInfo /\ c = x.cis[Len(x.cis)] /\ Len(x.cis) \in DOMAIN x.cis
      /\ Len(x.cis) \in Nat \ {0}
  <2>1. Len(x.cis) \in Nat \ {0} /\ Last(x.cis) = x.cis[Len(x.cis)] /\ Last(x.cis) \in CallInfo
    BY <1>1, FrontIs
  <2> QED BY <1>1, <2>1
<1>4. c.at \in Nat /\ c.func \in Nat /\ Callee(c) \in Nat BY <1>3, CallInfoTypes
<1>5. a \in Nat /\ a # 0 /\ a <= Len(x.stack) + 1 BY <1>1, <1>4 DEF Faulting
<1> HIDE DEF a
<1>6. d \in CallInfo /\ d.at = a /\ d.kind = c.kind /\ d.func = c.func /\ d.nres = c.nres
      /\ d.top = c.top /\ d.status = c.status
  BY <1>3, <1>5 DEF CallInfo
<1>7. LET b == Append(Front(x.cis), d) IN
      /\ b \in Seq(CallInfo) /\ b # <<>> /\ Last(b) = d /\ Len(b) = Len(x.cis) /\ b[Len(x.cis)] = d
      /\ \A k \in 1 .. Len(x.cis) - 1 : b[k] = x.cis[k]
  BY <1>1, <1>6, AgainIs
<1> HIDE DEF d
<1>8. /\ z \in Threads /\ z.cis = Append(Front(x.cis), d) /\ z.stack = x.stack
      /\ z.jmps = x.jmps /\ z.errfunc = x.errfunc /\ z.size = x.size
  BY <1>1, <1>7 DEF Threads
<1> DEFINE s == Append(x.stack, v)
<1>9. s \in Seq(Values) /\ Len(s) = Len(x.stack) + 1 /\ \A i \in 1 .. Len(x.stack) : s[i] = x.stack[i]
  BY <1>1, AppendIs
<1> HIDE DEF z, s
<1>10. /\ y \in Threads /\ y.stack = s /\ y.cis = z.cis /\ y.jmps = z.jmps
       /\ y.errfunc = z.errfunc /\ y.size = z.size
  BY <1>8, <1>9 DEF Threads, s
<1>11. Nested(x) BY DEF Body
<1>12. /\ c.func <= Len(x.stack) /\ c.top <= x.size
       /\ c.at # 0 => c.func < c.at
       /\ InPcall(c) => c.func + 1 < Callee(c)
  BY <1>3, <1>11 DEF Nested
<1>a. InPcall(c) => c.at # 0
  <2>1. c.at = 0 => Callee(c) <= 1 BY DEF Callee
  <2> QED BY <2>1, <1>4, <1>12
<1>13. Body(z)
  <2>1. CASE c.at # 0
    <3>1. a = c.at BY <2>1 DEF a
    <3>2. d = c BY <3>1, <1>3 DEF d, CallInfo
    <3>3. Append(Front(x.cis), d) = x.cis
      <4> DEFINE b == Append(Front(x.cis), d)
      <4>1. b \in Seq(CallInfo) /\ Len(b) = Len(x.cis) BY <1>7
      <4>2. \A k \in 1 .. Len(x.cis) : b[k] = x.cis[k] BY <1>3, <1>7, <3>2
      <4> HIDE DEF b
      <4>3. b = x.cis BY <4>1, <4>2, <1>1, SeqEqual
      <4> QED BY <4>3 DEF b
    <3>4. z = x BY <3>3, <1>1 DEF z, Threads
    <3> QED BY <3>4
  <2>2. CASE c.at = 0
    <3>1. ~InPcall(c) BY <1>a, <2>2
    <3>2. ~InPcall(d) BY <3>1, <1>6 DEF InPcall
    <3>3. d.func < d.at BY <2>2, <1>1, <1>4, <1>6, <1>12 DEF a
    <3>4. c.top <= d.top /\ d.top <= z.size /\ x.size <= z.size
      <4>1. c.top \in Nat /\ x.size \in Nat BY <1>1, <1>3, CallInfoTypes, ThreadTypes
      <4> QED BY <4>1, <1>6, <1>8, <1>12
    <3> QED BY <1>6, <1>8, <3>1, <3>2, <3>3, <3>4, TopChanged
  <2> QED BY <2>1, <2>2
<1>14. Last(z.cis) = d BY <1>7, <1>8
<1>15. InPcall(d) => Callee(d) <= Len(x.stack)
  <2>2. InPcall(d) => InPcall(c) /\ d.at = c.at BY <1>6, <1>a DEF InPcall, a
  <2>3. InPcall(d) => Callee(d) = Callee(c) BY <2>2, <1>6 DEF Callee
  <2> QED BY <2>2, <2>3 DEF Faulting
<1>16. Body(y)
  <2>1. InPcall(d) /\ d.kind \in JavaKinds => d.at <= Len(x.stack)
    <3>1. d.kind \in JavaKinds => Callee(d) = d.at + 1 BY DEF Callee, JavaKinds
    <3> QED BY <3>1, <1>5, <1>6, <1>15
  <2>2. z.size <= y.size
    <3>1. x.size \in Nat BY <1>1, ThreadTypes
    <3> QED BY <3>1, <1>8, <1>10
  <2> HIDE DEF y
  <2>3. /\ y \in Threads /\ y.cis = z.cis /\ y.jmps = z.jmps /\ y.errfunc = z.errfunc
        /\ z.size <= y.size /\ Last(z.cis) = d
    BY <2>2, <1>10, <1>14
  <2> DEFINE n == Len(x.stack)
  <2> HIDE DEF n
  <2>4. /\ n \in Nat /\ d.func <= n /\ n <= Len(z.stack) /\ n <= Len(y.stack)
        /\ \A i \in 1 .. n : y.stack[i] = z.stack[i]
        /\ InPcall(d) /\ d.kind \in JavaKinds => d.at <= n
    BY <2>1, <1>1, <1>6, <1>8, <1>9, <1>10, <1>12 DEF n
  <2> QED BY <2>3, <2>4, <1>13, StackChanged
<1>17. Raises(Last(y.cis), Len(y.stack))
  <2>1. Last(y.cis) = d /\ Len(y.stack) = Len(x.stack) + 1 BY <1>9, <1>10, <1>14
  <2>2. InPcall(d) => Callee(d) <= Len(x.stack) + 1
    <3>1. Callee(d) \in Nat BY <1>6, CallInfoTypes
    <3> QED BY <3>1, <1>1, <1>15
  <2>3. /\ d.status \in {"run", "calling"} /\ (d.kind = "host" => d.status = "calling")
        /\ d.at # 0 /\ d.at <= Len(x.stack) + 1
    BY <1>5, <1>6 DEF Faulting
  <2>4. d.kind = "script" => d.top <= Len(x.stack) + 1 + MaxStackSize BY <1>6 DEF Faulting
  <2> QED BY <2>1, <2>2, <2>3, <2>4 DEF Raises
<1>18. Len(y.stack) <= y.size BY <1>8, <1>9, <1>10
<1> QED BY <1>2, <1>10, <1>16, <1>17, <1>18, StepTo DEF Becomes

\* The last of the luaD_pcalls is the innermost.
LEMMA Innermost ==
  ASSUME NEW x, Body(x), x.jmps # <<>>, NEW j, j = Last(x.jmps)
  PROVE  /\ j \in Catcher /\ j.ci \in DOMAIN x.cis /\ InPcall(x.cis[j.ci])
         /\ j.oldtop = Callee(x.cis[j.ci]) /\ j.errfunc \in Nat
         /\ \A k \in DOMAIN x.cis : InPcall(x.cis[k]) => k <= j.ci
         /\ x.errfunc = HandlerOf(x.cis[j.ci])
<1> DEFINE n == Len(x.jmps)
<1>1. x.jmps \in Seq(Catcher) /\ Caught(x) /\ x.cis \in Seq(CallInfo)
  BY ThreadTypes DEF Body, Types
<1>2. n \in Nat \ {0} /\ j = x.jmps[n] /\ j \in Catcher /\ DOMAIN x.jmps = 1 .. n
  <2>1. Len(x.jmps) \in Nat \ {0} /\ Last(x.jmps) = x.jmps[Len(x.jmps)] /\ Last(x.jmps) \in Catcher
    BY <1>1, FrontIs
  <2> QED BY <1>1, <2>1
<1>3. j.errfunc \in Nat /\ j.ci \in Nat BY <1>2 DEF Catcher
<1>4. x.errfunc = HandlerAt(x, n) BY <1>1 DEF Caught
<1> HIDE DEF n
<1>5. n \in DOMAIN x.jmps BY <1>2
<1>6. j.ci \in DOMAIN x.cis /\ InPcall(x.cis[j.ci]) /\ j.oldtop = Callee(x.cis[j.ci])
  BY <1>1, <1>2, <1>5 DEF Caught
<1>7. ASSUME NEW k \in DOMAIN x.cis, InPcall(x.cis[k]) PROVE k <= j.ci
  <2>1. PICK i \in DOMAIN x.jmps : x.jmps[i].ci = k BY <1>1, <1>7 DEF Caught
  <2>2. CASE i = n BY <2>1, <2>2, <1>2, <1>3
  <2>3. CASE i # n
    <3>1. i < n BY <2>3, <1>2
    <3>2. x.jmps[i].ci < x.jmps[n].ci BY <3>1, <1>1, <1>5 DEF Caught
    <3>3. k \in Nat BY <1>1
    <3> QED BY <2>1, <3>2, <3>3, <1>2, <1>3
  <2> QED BY <2>2, <2>3
<1>8. x.errfunc = HandlerOf(x.cis[j.ci]) BY <1>2, <1>4 DEF HandlerAt
<1> QED BY <1>2, <1>3, <1>6, <1>7, <1>8

\* An error ends in the innermost luaD_pcall, with its message in the place of
\* the function that was called.
LEMMA ThrowKeeps ==
  ASSUME NEW x, Body(x), x.jmps # <<>>, NEW v \in Values, globals \in Values,
         InPcall(Last(x.cis)) => Callee(Last(x.cis)) <= Len(x.stack) + 1,
         Becomes(luaD_throw(x, v), FALSE)
  PROVE  ApiInv'
<1> DEFINE j == Last(x.jmps)
           m == j.ci
           o == j.oldtop
           c == x.cis[m]
           d == [c EXCEPT !.status = "failed"]
           p == SubSeq(x.stack, 1, o - 1)
           s == Append(p, v)
           q == SubSeq(x.cis, 1, m)
           b == [q EXCEPT ![m].status = "failed"]
           y == luaD_throw(x, v)
<1>1. /\ x \in Threads /\ x.cis \in Seq(CallInfo) /\ x.stack \in Seq(Values) /\ x.jmps \in Seq(Catcher)
      /\ x.cis # <<>> /\ x.size \in 0 .. ERRORSTACKSIZE /\ x.size \in Nat
      /\ DOMAIN x.cis = 1 .. Len(x.cis)
      /\ Len(x.cis) \in Nat \ {0} /\ Len(x.stack) \in Nat /\ Nested(x)
  BY ThreadTypes DEF Body, Types
<1>2. /\ j \in Catcher /\ m \in DOMAIN x.cis /\ InPcall(c) /\ o = Callee(c) /\ j.errfunc \in Nat
  BY Innermost
<1>3. y = [stack |-> s, cis |-> b, jmps |-> Front(x.jmps), errfunc |-> j.errfunc,
           size |-> luaD_shrinkstack(Len(s), b, x.size)]
  BY DEF luaD_throw
<1> HIDE DEF j, y
<1>4. m \in 1 .. Len(x.cis) /\ m \in Nat \ {0} /\ c \in CallInfo BY <1>1, <1>2
<1> HIDE DEF m
<1>5. /\ c.func \in Nat /\ c.top \in Nat /\ c.at \in Nat /\ o \in Nat
  BY <1>2, <1>4, CallInfoTypes
<1>6. /\ 1 <= c.func /\ c.func + 1 < o /\ o < c.top /\ c.top <= x.size
      /\ c.at # 0 => c.func < c.at
  BY <1>1, <1>2 DEF Nested
<1>7. o - 1 \in 0 .. Len(x.stack)
  <2>1. CASE m = Len(x.cis)
    <3>1. c = Last(x.cis) BY <2>1 DEF Last
    <3>2. o <= Len(x.stack) + 1 BY <3>1, <1>2
    <3> QED BY <3>2, <1>1, <1>5, <1>6
  <2>2. CASE m # Len(x.cis)
    <3> DEFINE l == Len(x.cis)
    <3>1. m < l /\ l \in DOMAIN x.cis BY <2>2, <1>1, <1>4
    <3> HIDE DEF l
    <3>2. x.cis[l].func <= Len(x.stack) BY <3>1, <1>1 DEF Nested
    <3>3. o <= x.cis[l].func BY <3>1, <1>1, <1>2 DEF Nested
    <3>4. x.cis[l].func \in Nat
      <4>1. x.cis[l] \in CallInfo BY <3>1, <1>1
      <4> QED BY <4>1, CallInfoTypes
    <3>5. Len(x.stack) \in Nat /\ o \in Nat /\ 1 <= o BY <1>1, <1>5, <1>6
    <3> HIDE DEF o
    <3> QED BY <3>2, <3>3, <3>4, <3>5
  <2> QED BY <2>1, <2>2
<1> HIDE DEF o
<1>8. p \in Seq(Values) /\ Len(p) = o - 1 /\ \A i \in 1 .. o - 1 : p[i] = x.stack[i]
  BY <1>1, <1>7, PrefixIs
<1>9. s \in Seq(Values) /\ Len(s) = o /\ \A i \in 1 .. o - 1 : s[i] = x.stack[i]
  <2> HIDE DEF p
  <2>1. /\ s \in Seq(Values) /\ Len(s) = Len(p) + 1
        /\ \A i \in 1 .. Len(p) : s[i] = p[i]
    BY <1>8, AppendIs
  <2> QED BY <2>1, <1>5, <1>8
<1>10. q \in Seq(CallInfo) /\ Len(q) = m /\ \A k \in 1 .. m : q[k] = x.cis[k]
  BY <1>1, <1>4, PrefixIs
<1>11. d \in CallInfo /\ d.kind = c.kind /\ d.func = c.func /\ d.nres = c.nres /\ d.top = c.top
       /\ d.at = c.at /\ d.status = "failed"
  BY <1>4 DEF CallInfo
<1>12. /\ b \in Seq(CallInfo) /\ Len(b) = m /\ b # <<>> /\ DOMAIN b = 1 .. m
       /\ b[m] = d /\ \A k \in 1 .. m - 1 : b[k] = x.cis[k]
  <2> HIDE DEF q, d
  <2>1. q[m] = c BY <1>4, <1>10
  <2>2. b = [q EXCEPT ![m] = d] BY <2>1 DEF d
  <2>3. DOMAIN q = 1 .. m BY <1>10
  <2> HIDE DEF b
  <2>4. b \in Seq(CallInfo) /\ Len(b) = m BY <2>2, <1>4, <1>10, <1>11
  <2>5. b[m] = d /\ \A k \in 1 .. m - 1 : b[k] = x.cis[k] BY <2>2, <2>3, <1>4, <1>10
  <2> QED BY <2>4, <2>5, <1>4
<1> HIDE DEF b, d, s
<1>13. \A k \in DOMAIN b : b[k].top <= x.size
  <2> SUFFICES ASSUME NEW k \in 1 .. m PROVE b[k].top <= x.size BY <1>12
  <2>1. CASE k = m BY <2>1, <1>6, <1>11, <1>12
  <2>2. CASE k # m
    <3>1. b[k] = x.cis[k] /\ k \in DOMAIN x.cis BY <2>2, <1>1, <1>4, <1>12
    <3> QED BY <3>1, <1>1 DEF Nested
  <2> QED BY <2>1, <2>2
<1>14. o <= x.size BY <1>1, <1>5, <1>6
<1> DEFINE z == luaD_shrinkstack(o, b, x.size)
<1>15. z \in 0 .. ERRORSTACKSIZE /\ o <= z /\ \A k \in DOMAIN b : b[k].top <= z
  <2>1. x.size \in 0 .. ERRORSTACKSIZE BY <1>1
  <2> QED BY <2>1, <1>5, <1>12, <1>13, <1>14, ShrinkIs
<1> HIDE DEF z
<1>16. /\ y \in Threads /\ y.stack = s /\ y.cis = b /\ y.jmps = Front(x.jmps)
       /\ y.errfunc = j.errfunc /\ y.size = z
  <2>1. Front(x.jmps) \in Seq(Catcher)
    <3>1. x.jmps \in Seq(Catcher) /\ x.jmps # <<>> BY <1>1
    <3> QED BY <3>1, FrontIs
  <2>2. y = [stack |-> s, cis |-> b, jmps |-> Front(x.jmps), errfunc |-> j.errfunc, size |-> z]
    BY <1>3, <1>9 DEF z
  <2> QED BY <2>1, <2>2, <1>2, <1>9, <1>12, <1>15 DEF Threads
<1>17. ~InPcall(d) BY <1>11 DEF InPcall
<1>18. Body(y)
  <2>1. /\ m = Last(x.jmps).ci /\ y.jmps = Front(x.jmps) /\ y.errfunc = Last(x.jmps).errfunc
        /\ Len(y.cis) = m /\ y.cis[m] = d
    BY <1>12, <1>16 DEF m, j
  <2>2. \A k \in 1 .. m - 1 : y.cis[k] = x.cis[k] /\ x.cis[k].top <= y.size
    <3> SUFFICES ASSUME NEW k \in 1 .. m - 1 PROVE y.cis[k] = x.cis[k] /\ x.cis[k].top <= y.size
      OBVIOUS
    <3>1. k \in 1 .. m BY <1>4
    <3>2. b[k] = x.cis[k] /\ b[k].top <= z BY <3>1, <1>12, <1>15
    <3> QED BY <3>2, <1>16
  <2>3. c.top <= d.top /\ d.top <= y.size /\ (d.at # 0 => d.func < d.at)
    <3>1. m \in DOMAIN b BY <1>4, <1>12
    <3>2. d.top <= z BY <3>1, <1>12, <1>15
    <3> QED BY <3>2, <1>5, <1>6, <1>11, <1>16
  <2>4. c.func <= Len(y.stack) /\ \A i \in 1 .. c.func - 1 : y.stack[i] = x.stack[i]
    <3>1. c.func <= o /\ \A i \in 1 .. c.func - 1 : i \in 1 .. o - 1 BY <1>5, <1>6
    <3> QED BY <3>1, <1>9, <1>16
  <2>5. d.kind = c.kind /\ d.func = c.func /\ d.nres = c.nres BY <1>11
  <2> HIDE DEF c
  <2> QED BY <2>1, <2>2, <2>3, <2>4, <2>5, <1>11, <1>16, <1>17, FramePopped DEF c
<1>19. Last(y.cis) = d BY <1>12, <1>16 DEF Last
<1>20. Runs(d, o)
  <2>1. o + 1 <= d.top BY <1>5, <1>6, <1>11
  <2>2. d.kind # "script" BY <1>2, <1>11 DEF InPcall
  <2>3. CASE d.kind = "pcall"
    <3>1. d.func + 1 <= o BY <1>5, <1>6, <1>11
    <3> QED BY <2>1, <2>3, <3>1, <1>11 DEF Runs
  <2>4. CASE d.kind # "pcall"
    <3>1. o = d.at + 1 BY <2>4, <1>2, <1>11 DEF Callee
    <3>2. d.at # 0 BY <3>1, <1>5, <1>6, <1>11
    <3> QED BY <2>1, <2>2, <2>4, <3>1, <3>2, <1>5, <1>11 DEF Runs
  <2> QED BY <2>3, <2>4
<1>21. Becomes(y, FALSE) BY DEF y
<1>22. Len(y.stack) = o /\ o <= y.size BY <1>9, <1>15, <1>16
<1> QED BY <1>16, <1>18, <1>19, <1>20, <1>21, <1>22, StepTo DEF Becomes

\* A step that finds no stack.
LEMMA NoStackKeeps ==
  ASSUME NEW x, Body(x), Faulting(x), globals \in Values, NEW err \in {"overflow", "errerr"},
         err = "overflow" => Len(x.stack) + 1 <= x.size, NoStack(x, err)
  PROVE  ApiInv'
<1>1. Str \in Values BY DEF Values, Strings
<1>2. CASE err = "overflow"
  <2>1. Raise(x, Str) BY <1>2 DEF NoStack
  <2> QED BY <2>1, <1>1, <1>2, RaiseKeeps
<1>3. CASE err # "overflow"
  <2>1. Becomes(luaD_throw(x, Str), FALSE) BY <1>3 DEF NoStack
  <2>2. x.jmps # <<>> BY FaultIsCaught
  <2>3. InPcall(Last(x.cis)) => Callee(Last(x.cis)) <= Len(x.stack) + 1
    <3>1. /\ x.cis \in Seq(CallInfo) /\ x.cis # <<>> /\ Len(x.stack) \in Nat
      BY ThreadTypes DEF Body, Types
    <3>2. Last(x.cis) \in CallInfo BY <3>1, FrontIs
    <3>3. Callee(Last(x.cis)) \in Nat BY <3>2, CallInfoTypes
    <3> QED BY <3>1, <3>3 DEF Faulting
  <2> QED BY <2>1, <2>2, <2>3, <1>1, ThrowKeeps
<1> QED BY <1>2, <1>3

-----------------------------------------------------------------------------
(* Calls and returns *)

\* The innermost frame can call the function at func.
Callable(x, kind, func, nres) ==
    LET c == Last(x.cis) IN
    /\ c.at # 0 /\ c.at <= func /\ func <= Len(x.stack)
    /\ InPcall(c) => Callee(c) <= func
    /\ c.kind = "script" => c.top <= func + MaxStackSize
    /\ kind # "handler" => /\ c.status = "calling"
                           /\ InPcall(c) => func = Callee(c)
                           /\ nres # LUA_MULTRET => func + nres <= c.top
                           /\ c.kind = "script" => nres # LUA_MULTRET /\ func = c.at

\* The function gets a frame with room for its values, or there is no stack.
LEMMA EnterKeeps ==
  ASSUME NEW x, Body(x), Faulting(x), Len(x.stack) <= x.size + 1, globals \in Values,
         NEW kind \in {"java", "handler", "script", "pcall"}, NEW func \in Nat \ {0},
         NEW nres \in Nat \cup {LUA_MULTRET}, kind = "handler" => nres = 1,
         Callable(x, kind, func, nres), Enter(x, kind, func, nres)
  PROVE  ApiInv'
<1> DEFINE len == Len(x.stack)
           room == IF kind = "script" THEN MaxStackSize ELSE LUA_MINSTACK
           grown == luaD_checkstack(len, room, x.size)
           y == [x EXCEPT !.size = grown.size]
           d == NewCI(kind, func, nres, len + 1 + room)
           z == [y EXCEPT !.cis = Append(x.cis, d)]
           c == Last(x.cis)
<1>1. /\ x \in Threads /\ x.cis \in Seq(CallInfo) /\ x.cis # <<>> /\ len \in Nat
      /\ x.size \in 0 .. ERRORSTACKSIZE /\ x.size \in Nat
  BY ThreadTypes DEF Body, Types
<1>2. room \in Nat \ {0} BY Sizes
<1>3. Grown(grown, x.size, len + 1 + room)
  <2>1. x.size \in 0 .. ERRORSTACKSIZE /\ room \in Nat BY <1>1, <1>2
  <2> HIDE DEF room
  <2> QED BY <2>1, <1>1, CheckIs
<1>4. IF grown.err # "" THEN NoStack(y, grown.err) ELSE Becomes(z, FALSE)
  <2>1. z = [y EXCEPT !.cis = Append(@, NewCI(kind, func, nres, Len(x.stack) + 1 + room))]
    BY <1>1 DEF Threads
  <2> QED BY <2>1 DEF Enter
<1>5. c \in CallInfo BY <1>1, FrontIs
<1> HIDE DEF room, grown
<1>6. grown.size \in Nat /\ grown.size \in 0 .. ERRORSTACKSIZE /\ x.size <= grown.size
  <2>1. grown.size \in 0 .. ERRORSTACKSIZE /\ x.size <= grown.size BY <1>3 DEF Grown
  <2> QED BY <2>1, Sizes
<1>7. /\ y \in Threads /\ y.stack = x.stack /\ y.cis = x.cis /\ y.jmps = x.jmps
      /\ y.errfunc = x.errfunc /\ y.size = grown.size
  BY <1>1, <1>6 DEF Threads
<1> HIDE DEF y
<1>8. Nested(x) /\ c = x.cis[Len(x.cis)] /\ Len(x.cis) \in DOMAIN x.cis
  BY <1>1 DEF Body, Last
<1>9. CASE grown.err # ""
  <2>1. Body(y)
    <3>1. y.size >= x.size BY <1>6, <1>7
    <3>2. c.func <= len /\ (InPcall(c) /\ c.kind \in JavaKinds => c.at <= len)
      <4>1. c.func <= len BY <1>8 DEF Nested
      <4>2. c.at \in Nat /\ Callee(c) \in Nat BY <1>5, CallInfoTypes
      <4>3. c.kind \in JavaKinds => Callee(c) = c.at + 1 BY DEF Callee, JavaKinds
      <4>4. InPcall(c) => Callee(c) <= len BY DEF Faulting
      <4>5. InPcall(c) /\ c.kind \in JavaKinds => c.at <= len BY <4>2, <4>3, <4>4, <1>1
      <4> QED BY <4>1, <4>5
    <3> QED BY <3>1, <3>2, <1>1, <1>6, <1>7, StackChanged
  <2>2. Faulting(y) BY <1>7 DEF Faulting
  <2>3. grown.err \in {"overflow", "errerr"} BY <1>3, <1>9 DEF Grown
  <2>4. grown.err = "overflow" => len + 1 <= y.size
    <3>1. grown.err = "overflow" => x.size <= LUAI_MAXSTACK /\ y.size = ERRORSTACKSIZE
      BY <1>3, <1>7 DEF Grown
    <3> QED BY <3>1, <1>1, Sizes
  <2> QED BY <2>1, <2>2, <2>3, <2>4, <1>4, <1>7, <1>9, NoStackKeeps
<1>10. CASE grown.err = ""
  <2>1. len + 1 + room <= grown.size BY <1>3, <1>10 DEF Grown
  <2>2. /\ d \in CallInfo /\ d.kind = kind /\ d.func = func /\ d.nres = nres
        /\ d.top = len + 1 + room /\ d.status = "run" /\ d.at = 0
    BY <1>1, <1>2 DEF NewCI, CallInfo
  <2> HIDE DEF d
  <2>3. Append(x.cis, d) \in Seq(CallInfo) /\ Last(Append(x.cis, d)) = d
    BY <1>1, <2>2, AppendIs
  <2>4. /\ z \in Threads /\ z.stack = x.stack /\ z.cis = Append(x.cis, d) /\ z.jmps = x.jmps
        /\ z.errfunc = x.errfunc /\ z.size = grown.size
    BY <1>7, <2>3 DEF Threads
  <2> HIDE DEF z
  <2>5. d.top <= z.size /\ len + 1 <= d.top /\ len <= z.size
    BY <1>1, <1>2, <1>6, <2>1, <2>2, <2>4
  <2>6. x.cis[1].status = "calling" BY FaultIsCaught
  <2>7. d.kind = "pcall" => d.func + 2 <= d.top
    <3>1. func <= len BY DEF Callable
    <3> QED BY <3>1, <1>1, <1>2, <2>2
  <2>8. d.kind = "script" => d.func + MaxStackSize < d.top
    <3>1. func <= len BY DEF Callable
    <3>2. d.kind = "script" => room = MaxStackSize BY <2>2 DEF room
    <3> QED BY <3>1, <3>2, <1>1, <2>2, Sizes
  <2>9. Body(z)
    <3>1. /\ c.status \in {"run", "calling"} /\ c.at # 0 /\ c.at <= d.func
          /\ InPcall(c) => Callee(c) <= d.func
          /\ c.kind = "script" => c.top <= d.func + MaxStackSize
          /\ 1 <= d.func /\ d.func <= Len(x.stack)
      BY <2>2 DEF Faulting, Callable
    <3>2. /\ d.kind # "host" /\ (d.kind = "handler" => d.nres = 1)
          /\ d.kind # "handler" => /\ c.status = "calling"
                                   /\ InPcall(c) => d.func = Callee(c)
                                   /\ d.nres # LUA_MULTRET => d.func + d.nres <= c.top
                                   /\ c.kind = "script" => d.nres # LUA_MULTRET /\ d.func = c.at
      BY <2>2 DEF Callable
    <3>3. x.size <= z.size BY <1>6, <2>4
    <3> HIDE DEF c
    <3> QED BY <3>1, <3>2, <3>3, <2>2, <2>4, <2>5, <2>6, <2>7, <2>8, FramePushed DEF c
  <2>10. Runs(d, len)
    <3>1. kind = "pcall" => room = LUA_MINSTACK BY DEF room
    <3>2. d.kind = "pcall" => len + 1 + LUA_MINSTACK <= d.top BY <3>1, <1>1, <2>2, Sizes
    <3>3. d.kind = "script" => d.top <= len + 1 + MaxStackSize
      <4>1. d.kind = "script" => room = MaxStackSize BY <2>2 DEF room
      <4> QED BY <4>1, <1>1, <2>2, Sizes
    <3> QED BY <3>2, <3>3, <2>2, <2>5 DEF Runs
  <2>11. Becomes(z, FALSE) BY <1>4, <1>10
  <2>12. Last(z.cis) = d /\ Len(z.stack) = len BY <2>3, <2>4
  <2> QED BY <2>4, <2>5, <2>9, <2>10, <2>11, <2>12, StepTo DEF Becomes
<1> QED BY <1>9, <1>10

\* Lists after each other.
LEMMA ConcatIs ==
  ASSUME NEW T, NEW s \in Seq(T), NEW t \in Seq(T)
  PROVE  /\ s \o t \in Seq(T) /\ Len(s \o t) = Len(s) + Len(t)
         /\ \A k \in 1 .. Len(s) : (s \o t)[k] = s[k]
         /\ \A k \in 1 .. Len(t) : (s \o t)[Len(s) + k] = t[k]
OBVIOUS

\* An element is put into a list.
LEMMA InsertIs ==
  ASSUME NEW T, NEW s \in Seq(T), NEW e \in T, NEW i \in 1 .. Len(s)
  PROVE  /\ InsertAt(s, i, e) \in Seq(T) /\ Len(InsertAt(s, i, e)) = Len(s) + 1
         /\ \A k \in 1 .. i - 1 : InsertAt(s, i, e)[k] = s[k]
<1> DEFINE a == SubSeq(s, 1, i - 1)  b == SubSeq(s, i, Len(s))
<1>1. Len(s) \in Nat /\ i \in Nat /\ i - 1 \in 0 .. Len(s) OBVIOUS
<1>2. a \in Seq(T) /\ Len(a) = i - 1 /\ \A k \in 1 .. i - 1 : a[k] = s[k]
  BY <1>1, PrefixIs
<1>3. b \in Seq(T) /\ Len(b) = Len(s) - i + 1 BY <1>1
<1>4. InsertAt(s, i, e) = a \o <<e>> \o b BY DEF InsertAt
<1> HIDE DEF a, b
<1>5. <<e>> \in Seq(T) /\ Len(<<e>>) = 1 OBVIOUS
<1> DEFINE c == a \o <<e>>
<1>6. c \in Seq(T) /\ Len(c) = i /\ \A k \in 1 .. i - 1 : c[k] = a[k]
  BY <1>1, <1>2, <1>5
<1>7. a \o <<e>> \o b = c \o b OBVIOUS
<1> HIDE DEF c
<1>8. /\ c \o b \in Seq(T) /\ Len(c \o b) = Len(s) + 1
      /\ \A k \in 1 .. i - 1 : (c \o b)[k] = c[k]
  BY <1>1, <1>3, <1>6
<1> QED BY <1>2, <1>4, <1>6, <1>7, <1>8

\* A callable object, a function of any kind, or nothing that can be called.
LEMMA PrecallKeeps ==
  ASSUME NEW x, Body(x), Last(x.cis).status = "calling", Len(x.stack) + 1 <= x.size,
         globals \in Values, NEW func \in Nat \ {0}, NEW nres \in Nat \cup {LUA_MULTRET},
         Callable(x, "java", func, nres), luaD_precall(x, func, nres)
  PROVE  ApiInv'
<1> DEFINE f == x.stack[func]
           s == InsertAt(x.stack, func, CallM)
           w == [x EXCEPT !.stack = s]
           grown == luaD_checkstack(Len(s), 0, x.size)
           y == [w EXCEPT !.size = grown.size]
           c == Last(x.cis)
<1>1. /\ x \in Threads /\ x.cis \in Seq(CallInfo) /\ x.cis # <<>> /\ x.stack \in Seq(Values)
      /\ Len(x.stack) \in Nat /\ x.size \in 0 .. ERRORSTACKSIZE /\ x.size \in Nat
  BY ThreadTypes DEF Body, Types
<1>2. c \in CallInfo /\ c = x.cis[Len(x.cis)] /\ Len(x.cis) \in DOMAIN x.cis
  <2>1. Len(x.cis) \in Nat \ {0} /\ Last(x.cis) = x.cis[Len(x.cis)] /\ Last(x.cis) \in CallInfo
    BY <1>1, FrontIs
  <2> QED BY <1>1, <2>1
<1>3. c.func \in Nat /\ c.at \in Nat /\ Callee(c) \in Nat BY <1>2, CallInfoTypes
<1>4. /\ c.at # 0 /\ c.at <= func /\ func <= Len(x.stack) /\ c.func < c.at
      /\ InPcall(c) => func = Callee(c)
      /\ c.kind = "script" => c.top <= func + MaxStackSize
  BY <1>2 DEF Callable, Body, Nested
<1>room. c.kind = "script" => c.top <= Len(x.stack) + 1 + MaxStackSize
  <2>1. c.top \in Nat BY <1>2, CallInfoTypes
  <2> QED BY <2>1, <1>1, <1>4, Sizes
<1>5. Faulting(x) BY <1>1, <1>3, <1>4, <1>room DEF Faulting
<1>6. ASSUME NEW kind \in {"java", "script", "pcall"} PROVE Callable(x, kind, func, nres)
  BY DEF Callable
<1>7. Str \in Values BY DEF Values, Strings
<1>fits. Len(x.stack) <= x.size + 1 BY <1>1
<1>8. CASE f = Script
  <2>1. Enter(x, "script", func, nres)
    BY <1>8 DEF luaD_precall, Script, PCall, Java
  <2>2. Callable(x, "script", func, nres) BY <1>6
  <2> QED BY <2>1, <2>2, <1>fits, <1>5, EnterKeeps
<1>9. CASE f = PCall
  <2>1. Enter(x, "pcall", func, nres)
    BY <1>9 DEF luaD_precall, Script, PCall, Java
  <2>2. Callable(x, "pcall", func, nres) BY <1>6
  <2> QED BY <2>1, <2>2, <1>fits, <1>5, EnterKeeps
<1>10. CASE f \notin {Script, PCall, Java}
  <2>1. Raise(x, Str)
    BY <1>10 DEF luaD_precall, Script, PCall, Java
  <2> QED BY <2>1, <1>5, <1>7, RaiseKeeps
<1>11. CASE f = Java
  <2>1. IF grown.err # "" THEN NoStack(y, grown.err) ELSE Enter(y, "java", func, nres)
    <3>1. w = tryfuncTM(x, func) BY <1>1 DEF tryfuncTM, Threads
    <3>2. Len(w.stack) = Len(s) BY <1>1 DEF Threads
    <3> HIDE DEF w
    <3> QED BY <1>11, <3>1, <3>2 DEF luaD_precall, Script, PCall, Java
  <2>2. s \in Seq(Values) /\ Len(s) = Len(x.stack) + 1 /\ \A k \in 1 .. func - 1 : s[k] = x.stack[k]
    <3>1. func \in 1 .. Len(x.stack) BY <1>1, <1>4
    <3>2. CallM \in Values BY DEF Values
    <3> QED BY <3>1, <3>2, <1>1, InsertIs
  <2> HIDE DEF s
  <2>3. Grown(grown, x.size, Len(s) + 1)
    <3> DEFINE n == Len(s)
    <3>1. n \in Nat /\ n + 1 + 0 = n + 1 BY <1>1, <2>2
    <3> HIDE DEF n
    <3>2. Grown(luaD_checkstack(n, 0, x.size), x.size, n + 1 + 0) BY <1>1, <3>1, CheckIs
    <3> QED BY <3>1, <3>2 DEF n
  <2> HIDE DEF grown
  <2>4. grown.size \in Nat /\ grown.size \in 0 .. ERRORSTACKSIZE /\ x.size <= grown.size
    <3>1. grown.size \in 0 .. ERRORSTACKSIZE /\ x.size <= grown.size BY <2>3 DEF Grown
    <3> QED BY <3>1, Sizes
  <2>5. /\ y \in Threads /\ y.stack = s /\ y.cis = x.cis /\ y.jmps = x.jmps
        /\ y.errfunc = x.errfunc /\ y.size = grown.size
    BY <1>1, <2>2, <2>4 DEF Threads
  <2> HIDE DEF y
  <2>6. Body(y)
    <3> DEFINE n == func - 1
    <3>1. n \in Nat /\ n <= Len(x.stack) /\ n <= Len(y.stack) /\ c.func <= n
      BY <1>1, <1>3, <1>4, <2>2, <2>5
    <3>2. \A i \in 1 .. n : y.stack[i] = x.stack[i] BY <2>2, <2>5
    <3>3. InPcall(c) /\ c.kind \in JavaKinds => c.at <= n
      <4>1. c.kind \in JavaKinds => Callee(c) = c.at + 1 BY DEF Callee, JavaKinds
      <4> QED BY <4>1, <1>3, <1>4
    <3> HIDE DEF n
    <3> QED BY <3>1, <3>2, <3>3, <2>4, <2>5, StackChanged
  <2>7. Callable(y, "java", func, nres)
    BY <1>1, <2>2, <2>5 DEF Callable
  <2>8. Faulting(y)
    <3>1. Len(y.stack) = Len(x.stack) + 1 BY <2>2, <2>5
    <3>2. c.kind = "script" => c.top <= Len(y.stack) + 1 + MaxStackSize
      <4>1. c.top \in Nat BY <1>2, CallInfoTypes
      <4> QED BY <3>1, <4>1, <1>1, <1>4, Sizes
    <3> QED BY <3>1, <3>2, <2>5, <1>1, <1>3, <1>4 DEF Faulting
  <2>9. CASE grown.err # ""
    <3>1. grown.err \in {"overflow", "errerr"} BY <2>3, <2>9 DEF Grown
    <3>2. grown.err = "overflow" => Len(y.stack) + 1 <= y.size
      <4>1. grown.err = "overflow" => x.size <= LUAI_MAXSTACK /\ y.size = ERRORSTACKSIZE
        BY <2>3, <2>5 DEF Grown
      <4>2. Len(y.stack) = Len(x.stack) + 1 BY <2>2, <2>5
      <4> QED BY <4>1, <4>2, <1>1, Sizes
    <3> QED BY <3>1, <3>2, <2>1, <2>6, <2>8, <2>9, NoStackKeeps
  <2>10. CASE grown.err = ""
    <3>1. Len(y.stack) <= y.size + 1
      <4>1. Len(s) + 1 <= grown.size BY <2>3, <2>10 DEF Grown
      <4> QED BY <4>1, <1>1, <2>2, <2>4, <2>5
    <3>2. Enter(y, "java", func, nres) BY <2>1, <2>10
    <3> QED BY <3>1, <3>2, <2>6, <2>7, <2>8, EnterKeeps
  <2> QED BY <2>9, <2>10
<1> QED BY <1>8, <1>9, <1>10, <1>11

\* The results of a call move to the slot of its function.
LEMMA PoscallIs ==
  ASSUME NEW s \in Seq(Values), ci \in CallInfo, ci.func \in 1 .. Len(s),
         NEW first \in Nat, ci.func < first, first <= Len(s) + 1
  PROVE  LET t == luaD_poscall(s, first) IN
         /\ t \in Seq(Values)
         /\ Len(t) = ci.func - 1 + (IF ci.nres = LUA_MULTRET THEN Len(s) + 1 - first ELSE ci.nres)
         /\ \A k \in 1 .. ci.func - 1 : t[k] = s[k]
<1> DEFINE n == Len(s) + 1 - first
           r == SubSeq(s, first, Len(s))
           wanted == IF ci.nres = LUA_MULTRET THEN Len(r) ELSE ci.nres
           a == SubSeq(s, 1, ci.func - 1)
           b == [k \in 1 .. wanted |-> IF k <= Len(r) THEN r[k] ELSE Nil]
<1>1. Len(s) \in Nat /\ ci.func \in Nat /\ ci.nres \in Nat \cup {LUA_MULTRET}
      /\ ci.func - 1 \in 0 .. Len(s) /\ n \in Nat
  BY CallInfoTypes
<1>2. r \in Seq(Values) /\ Len(r) = n
  BY <1>1
<1>3. a \in Seq(Values) /\ Len(a) = ci.func - 1 /\ \A k \in 1 .. ci.func - 1 : a[k] = s[k]
  BY <1>1, PrefixIs
<1>4. luaD_poscall(s, first) = a \o b BY DEF luaD_poscall
<1> HIDE DEF n, r, a
<1>5. wanted \in Nat BY <1>1, <1>2 DEF LUA_MULTRET
<1> HIDE DEF wanted
<1>6. b \in Seq(Values) /\ Len(b) = wanted
  <2>1. \A k \in 1 .. wanted : b[k] \in Values
    <3> SUFFICES ASSUME NEW k \in 1 .. wanted PROVE b[k] \in Values OBVIOUS
    <3>1. Nil \in Values BY DEF Values
    <3>2. CASE k <= Len(r)
      <4>1. k \in 1 .. Len(r) BY <3>2, <1>1, <1>2, <1>5
      <4>2. r[k] \in Values BY <4>1, <1>2
      <4> QED BY <3>2, <4>2
    <3>3. CASE ~(k <= Len(r)) BY <3>1, <3>3
    <3> QED BY <3>2, <3>3
  <2>2. b \in [1 .. wanted -> Values] BY <2>1
  <2> HIDE DEF b
  <2> QED BY <2>2, <1>5
<1> HIDE DEF b
<1>7. /\ a \o b \in Seq(Values) /\ Len(a \o b) = ci.func - 1 + wanted
      /\ \A k \in 1 .. ci.func - 1 : (a \o b)[k] = a[k]
  <2>1. /\ a \o b \in Seq(Values) /\ Len(a \o b) = Len(a) + Len(b)
        /\ \A k \in 1 .. Len(a) : (a \o b)[k] = a[k]
    BY <1>3, <1>6, ConcatIs
  <2> QED BY <2>1, <1>3, <1>6
<1>8. wanted = IF ci.nres = LUA_MULTRET THEN n ELSE ci.nres BY <1>2 DEF wanted
<1>9. \A k \in 1 .. ci.func - 1 : (a \o b)[k] = s[k] BY <1>3, <1>7
<1> QED BY <1>4, <1>7, <1>8, <1>9 DEF n

\* A script, a Java function or the function pcall returns.
LEMMA ReturnKeeps ==
  ASSUME ApiInv, ~raising, ci.kind \in {"java", "script", "pcall"}, ci.status # "calling",
         NEW x, Body(x), x.cis = cis, x.jmps = jmps, Len(x.stack) <= x.size,
         NEW first \in Nat, ci.func < first, first <= Len(x.stack) + 1, Returns(x, first)
  PROVE  ApiInv'
<1> DEFINE n == Len(cis)
           m == n - 1
           t == luaD_poscall(x.stack, first)
           e == cis[m]
           d == IF e.kind = "script" THEN [e EXCEPT !.status = "run", !.at = 0]
                ELSE [e EXCEPT !.status = "ok", !.top = adjustresults(e, ci.nres, t)]
           b == Append(SubSeq(cis, 1, m - 1), d)
           z == [x EXCEPT !.stack = t, !.cis = b]
           y == IF e.kind = "script" THEN z
                ELSE [z EXCEPT !.jmps = Front(jmps), !.errfunc = Last(jmps).errfunc]
<1>1. /\ x \in Threads /\ x.stack \in Seq(Values) /\ Len(x.stack) \in Nat
      /\ x.size \in Nat /\ x.size \in 0 .. ERRORSTACKSIZE
      /\ cis \in Seq(CallInfo) /\ cis # <<>> /\ jmps \in Seq(Catcher)
      /\ globals \in Values
  BY ThreadTypes DEF Body, Types, ApiInv
<1>2. n \in Nat \ {0} /\ ci = cis[n] /\ ci \in CallInfo /\ DOMAIN cis = 1 .. n
  <2>1. Len(cis) \in Nat \ {0} /\ Last(cis) = cis[Len(cis)] /\ Last(cis) \in CallInfo
    BY <1>1, FrontIs
  <2> QED BY <1>1, <2>1 DEF ci
<1>3. Nested(x) /\ Called(x) /\ Caught(x) BY DEF Body
<1> HIDE DEF n
<1>4. n > 1
  <2>1. cis[1].kind = "host" BY <1>3 DEF Called
  <2> QED BY <2>1, <1>2
<1>5. m \in 1 .. n /\ m \in Nat \ {0} /\ n = m + 1 /\ e \in CallInfo BY <1>1, <1>2, <1>4
<1>6. Becomes(y, FALSE)
  <2>1. Len(cis) - 1 = m /\ Len(cis) - 2 = m - 1 BY <1>2 DEF n
  <2>2. z.jmps = jmps BY <1>1 DEF Threads
  <2> HIDE DEF m
  <2>3. Becomes(IF e.kind = "script" THEN z
                ELSE [z EXCEPT !.jmps = Front(@), !.errfunc = Last(jmps).errfunc], FALSE)
    BY <2>1 DEF Returns
  <2>4. [z EXCEPT !.jmps = Front(@), !.errfunc = Last(jmps).errfunc]
          = [z EXCEPT !.jmps = Front(jmps), !.errfunc = Last(jmps).errfunc]
    <3> HIDE DEF z
    <3> QED BY <2>2
  <2> HIDE DEF z
  <2> QED BY <2>3, <2>4
<1>7. /\ e.status = "calling"
      /\ InPcall(e) => ci.func = Callee(e)
      /\ ci.nres # LUA_MULTRET => ci.func + ci.nres <= e.top
      /\ e.kind = "script" => ci.nres # LUA_MULTRET
  <2>1. n \in 2 .. Len(x.cis) BY <1>2, <1>4 DEF n
  <2> QED BY <2>1, <1>2, <1>3 DEF Called, m
<1>8. /\ ci.func \in Nat /\ ci.nres \in Nat \cup {LUA_MULTRET} /\ e.func \in Nat /\ e.at \in Nat
      /\ e.top \in Nat /\ Callee(e) \in Nat
  BY <1>2, <1>5, CallInfoTypes
<1>9. /\ 1 <= ci.func /\ ci.func <= Len(x.stack)
      /\ 1 <= e.func /\ e.func < ci.func /\ e.top <= x.size /\ e.func < e.at
      /\ InPcall(e) => e.func + 1 < Callee(e) /\ Callee(e) < e.top
  <2>1. m \in DOMAIN x.cis /\ n \in DOMAIN x.cis /\ m < n BY <1>2, <1>5
  <2>2. /\ 1 <= ci.func /\ ci.func <= Len(x.stack)
        /\ 1 <= e.func /\ e.top <= x.size
        /\ InPcall(e) => e.func + 1 < Callee(e) /\ Callee(e) < e.top
        /\ e.at # 0 => e.func < e.at
    BY <2>1, <1>2, <1>3 DEF Nested
  <2>3. e.at # 0 /\ e.at <= ci.func
    <3>1. x.cis[m].at # 0 /\ x.cis[m].at <= x.cis[n].func BY <2>1, <1>3 DEF Nested
    <3> QED BY <3>1, <1>2
  <2> QED BY <2>2, <2>3, <1>8
<1> HIDE DEF m
<1>10. /\ t \in Seq(Values)
       /\ Len(t) = ci.func - 1 + (IF ci.nres = LUA_MULTRET THEN Len(x.stack) + 1 - first ELSE ci.nres)
       /\ \A k \in 1 .. ci.func - 1 : t[k] = x.stack[k]
  <2>1. ci.func \in 1 .. Len(x.stack) BY <1>1, <1>8, <1>9
  <2> QED BY <2>1, <1>1, <1>2, PoscallIs
<1> HIDE DEF t
<1>11. Len(t) \in Nat /\ ci.func - 1 <= Len(t) /\ Len(t) <= x.size
  <2>0. Len(x.stack) \in Nat /\ x.size \in Nat /\ ci.func \in Nat BY <1>1, <1>8
  <2>1. CASE ci.nres = LUA_MULTRET
    <3>1. Len(t) = ci.func - 1 + (Len(x.stack) + 1 - first) BY <2>1, <1>10
    <3> QED BY <3>1, <2>0, <1>9
  <2>2. CASE ci.nres # LUA_MULTRET
    <3>1. Len(t) = ci.func - 1 + ci.nres BY <2>2, <1>10
    <3>2. ci.nres \in Nat /\ e.top \in Nat BY <2>2, <1>8
    <3> HIDE DEF e
    <3> QED BY <3>1, <3>2, <2>0, <2>2, <1>7, <1>9
  <2> QED BY <2>1, <2>2
<1>12. /\ SubSeq(cis, 1, m - 1) \in Seq(CallInfo) /\ Len(SubSeq(cis, 1, m - 1)) = m - 1
       /\ \A k \in 1 .. m - 1 : SubSeq(cis, 1, m - 1)[k] = cis[k]
  <2>1. m - 1 \in 0 .. Len(cis) BY <1>1, <1>5 DEF n
  <2> QED BY <2>1, <1>1, PrefixIs
<1>13. ASSUME d \in CallInfo
       PROVE  /\ b \in Seq(CallInfo) /\ Len(b) = m /\ b[m] = d /\ Last(b) = d
              /\ \A k \in 1 .. m - 1 : b[k] = cis[k]
  <2> DEFINE a == SubSeq(cis, 1, m - 1)
  <2> HIDE DEF a, d
  <2>1. a \in Seq(CallInfo) /\ Len(a) = m - 1 /\ \A k \in 1 .. m - 1 : a[k] = cis[k]
    BY <1>12 DEF a
  <2>2. /\ Append(a, d) \in Seq(CallInfo)
        /\ Len(Append(a, d)) = Len(a) + 1
        /\ \A k \in 1 .. Len(a) : Append(a, d)[k] = a[k]
        /\ Append(a, d)[Len(a) + 1] = d /\ Last(Append(a, d)) = d
    BY <2>1, <1>13, AppendIs
  <2>3. b = Append(a, d) BY DEF a
  <2> HIDE DEF b
  <2>4. Len(a) + 1 = m BY <2>1, <1>5
  <2> QED BY <2>1, <2>2, <2>3, <2>4
<1>14. CASE e.kind = "script"
  <2>1. /\ d \in CallInfo /\ d.kind = e.kind /\ d.func = e.func /\ d.nres = e.nres /\ d.top = e.top
        /\ d.at = 0 /\ d.status = "run"
    BY <1>5, <1>14 DEF CallInfo
  <2>2. y = z BY <1>14
  <2> HIDE DEF d, y
  <2>3. /\ b \in Seq(CallInfo) /\ Len(b) = m /\ b[m] = d /\ Last(b) = d
        /\ \A k \in 1 .. m - 1 : b[k] = cis[k]
    BY <1>13, <2>1
  <2> HIDE DEF b
  <2>4. /\ z \in Threads /\ z.stack = t /\ z.cis = b /\ z.jmps = x.jmps /\ z.errfunc = x.errfunc
        /\ z.size = x.size
    BY <1>1, <1>10, <2>3 DEF Threads
  <2> HIDE DEF z
  <2>5. ~InPcall(Last(x.cis)) BY DEF InPcall, ci
  <2>6. Body(z)
    <3>1. m = Len(x.cis) - 1 /\ m > 0 BY <1>5 DEF n
    <3>2. /\ x.size <= z.size /\ Len(z.cis) = m /\ z.cis[m] = d /\ e = x.cis[m]
          /\ \A k \in 1 .. m - 1 : z.cis[k] = x.cis[k]
      BY <1>1, <2>3, <2>4
    <3>3. e.func <= Len(z.stack) /\ \A i \in 1 .. e.func - 1 : z.stack[i] = x.stack[i]
      <4>1. e.func <= Len(t) /\ \A i \in 1 .. e.func - 1 : i \in 1 .. ci.func - 1
        BY <1>8, <1>9, <1>11
      <4> QED BY <4>1, <1>10, <2>4
    <3> HIDE DEF e
    <3>4. /\ d.kind = e.kind /\ d.func = e.func /\ d.nres = e.nres /\ d.at = 0 /\ e.top = d.top
          /\ d \in CallInfo /\ e.kind = "script"
      BY <1>14, <2>1
    <3>5. z \in Threads /\ z.jmps = x.jmps /\ z.errfunc = x.errfunc BY <2>4
    <3> HIDE DEF m
    <3>6. PICK k : k = m OBVIOUS
    <3>7. PICK c : c = e OBVIOUS
    <3>8. /\ k = Len(x.cis) - 1 /\ k > 0 /\ x.size <= z.size /\ Len(z.cis) = k /\ z.cis[k] = d
          /\ c = x.cis[k] /\ \A i \in 1 .. k - 1 : z.cis[i] = x.cis[i]
      BY <3>1, <3>2, <3>6, <3>7
    <3>9. /\ d.kind = c.kind /\ d.func = c.func /\ d.nres = c.nres /\ d.at = 0 /\ c.top = d.top
          /\ c.kind = "script"
      BY <3>4, <3>7
    <3>10. c.func <= Len(z.stack) /\ \A i \in 1 .. c.func - 1 : z.stack[i] = x.stack[i] BY <3>3, <3>7
    <3> QED BY <3>4, <3>5, <3>8, <3>9, <3>10, <2>5, ScriptGoesOn, ZenonT(40)
  <2>7. Runs(d, Len(t))
    <3>1. Len(t) + 1 <= d.top BY <1>7, <1>8, <1>10, <1>14, <2>1
    <3>2. e.top <= ci.func + MaxStackSize
      <4>1. m \in DOMAIN x.cis /\ n \in DOMAIN x.cis /\ m < n BY <1>2, <1>5
      <4>2. e = x.cis[m] /\ ci = x.cis[n] BY <1>2
      <4> QED BY <4>1, <4>2, <1>3, <1>14 DEF Nested
    <3>3. d.top <= Len(t) + 1 + MaxStackSize
      <4>1. ci.nres \in Nat /\ Len(t) = ci.func - 1 + ci.nres BY <1>7, <1>8, <1>10, <1>14
      <4>2. d.top = e.top BY <2>1
      <4>3. PICK f \in Nat, a \in Nat, k \in Nat : f = ci.func /\ a = e.top /\ k = ci.nres
        BY <4>1, <1>8
      <4>4. a <= f + MaxStackSize /\ Len(t) = f - 1 + k BY <3>2, <4>1, <4>3
      <4>5. a <= Len(t) + 1 + MaxStackSize BY <4>4, Sizes
      <4> QED BY <4>2, <4>3, <4>5
    <3> QED BY <3>1, <3>3, <1>14, <2>1 DEF Runs
  <2>8. Last(z.cis) = d /\ Len(z.stack) <= z.size BY <1>11, <2>3, <2>4
  <2>9. Becomes(z, FALSE) BY <1>6, <2>2
  <2> QED BY <2>4, <2>6, <2>7, <2>8, <2>9, <1>1, StepTo DEF Becomes
<1>15. CASE e.kind # "script"
  <2> DEFINE top == adjustresults(e, ci.nres, t)
  <2>0. InPcall(e) /\ ci.func = Callee(e) BY <1>7, <1>15 DEF InPcall
  <2>1. top \in Nat /\ e.top <= top /\ top <= x.size /\ Len(t) + 1 <= top
    <3>1. CASE ci.nres = LUA_MULTRET
      <4>1. Len(t) + 1 <= x.size
        <5>1. Len(t) = ci.func - 1 + (Len(x.stack) + 1 - first) BY <3>1, <1>10
        <5>2. Len(x.stack) \in Nat /\ x.size \in Nat /\ ci.func \in Nat BY <1>1, <1>8
        <5> QED BY <5>1, <5>2, <1>9
      <4>2. top = Larger(e.top, Len(t) + 1) BY <3>1 DEF adjustresults
      <4>3. PICK a \in Nat, l \in Nat : a = e.top /\ l = Len(t) BY <1>8, <1>10
      <4>4. a <= x.size /\ l + 1 <= x.size /\ x.size \in Nat BY <4>1, <4>3, <1>1, <1>9
      <4>5. top = IF a > l + 1 THEN a ELSE l + 1 BY <4>2, <4>3 DEF Larger
      <4> HIDE DEF top
      <4>6. top \in Nat /\ a <= top /\ top <= x.size /\ l + 1 <= top BY <4>4, <4>5
      <4> QED BY <4>3, <4>6
    <3>2. CASE ci.nres # LUA_MULTRET
      <4>1. top = e.top BY <3>2 DEF adjustresults
      <4>2. Len(t) + 1 = ci.func + ci.nres BY <3>2, <1>8, <1>10
      <4> QED BY <3>2, <4>1, <4>2, <1>7, <1>8, <1>9
    <3> QED BY <3>1, <3>2
  <2> HIDE DEF top
  <2>2. /\ d \in CallInfo /\ d.kind = e.kind /\ d.func = e.func /\ d.nres = e.nres /\ d.top = top
        /\ d.at = e.at /\ d.status = "ok"
    <3>1. d = [e EXCEPT !.status = "ok", !.top = top] BY <1>15 DEF top
    <3> HIDE DEF d
    <3> QED BY <3>1, <1>5, <2>1 DEF CallInfo
  <2>3. y = [z EXCEPT !.jmps = Front(jmps), !.errfunc = Last(jmps).errfunc] BY <1>15
  <2> HIDE DEF d, y
  <2>4. /\ b \in Seq(CallInfo) /\ Len(b) = m /\ b[m] = d /\ Last(b) = d
        /\ \A k \in 1 .. m - 1 : b[k] = cis[k]
    BY <1>13, <2>2
  <2> HIDE DEF b
  <2>5. z \in Threads /\ z.stack = t /\ z.cis = b /\ z.size = x.size
    BY <1>1, <1>10, <2>4 DEF Threads
  <2> HIDE DEF z
  <2>6. x.jmps # <<>> /\ Last(x.jmps).ci = m /\ Last(x.jmps).errfunc \in Nat
    <3>1. m \in DOMAIN x.cis BY <1>2, <1>5
    <3>2. x.jmps # <<>> BY <3>1, <2>0, <1>1, <1>3 DEF Caught
    <3> DEFINE j == Last(x.jmps)
    <3>3. /\ j.ci \in DOMAIN x.cis /\ InPcall(x.cis[j.ci]) /\ j.errfunc \in Nat
          /\ \A k \in DOMAIN x.cis : InPcall(x.cis[k]) => k <= j.ci
      BY <3>2, Innermost
    <3> HIDE DEF j
    <3>4. m <= j.ci BY <3>1, <3>3, <2>0
    <3>5. ~InPcall(x.cis[n]) BY <1>2 DEF InPcall
    <3>6. j.ci \in 1 .. n /\ j.ci # n BY <3>3, <3>5, <1>2
    <3>7. j.ci = m BY <3>4, <3>6, <1>5
    <3> QED BY <3>2, <3>3, <3>7 DEF j
  <2>7. /\ y \in Threads /\ y.stack = t /\ y.cis = b /\ y.size = x.size
        /\ y.jmps = Front(x.jmps) /\ y.errfunc = Last(x.jmps).errfunc
    <3>1. Front(x.jmps) \in Seq(Catcher) BY <2>6, <1>1, FrontIs
    <3> QED BY <3>1, <2>3, <2>5, <2>6 DEF Threads
  <2>8. Body(y)
    <3>1. m = Last(x.jmps).ci /\ x.jmps # <<>> BY <2>6
    <3>2. /\ Len(y.cis) = m /\ y.cis[m] = d /\ e = x.cis[m]
          /\ \A k \in 1 .. m - 1 : y.cis[k] = x.cis[k]
      BY <2>4, <2>7
    <3>3. e.func <= Len(y.stack) /\ \A i \in 1 .. e.func - 1 : y.stack[i] = x.stack[i]
      <4>1. e.func <= Len(t) /\ \A i \in 1 .. e.func - 1 : i \in 1 .. ci.func - 1
        BY <1>8, <1>9, <1>11
      <4> QED BY <4>1, <1>10, <2>7
    <3>4. \A k \in 1 .. m - 1 : x.cis[k].top <= y.size
      <4>1. \A k \in 1 .. m - 1 : k \in DOMAIN x.cis BY <1>2, <1>5
      <4> QED BY <4>1, <1>3, <2>7 DEF Nested
    <3>5. ~InPcall(d) BY <2>2 DEF InPcall
    <3>6. (d.at # 0 => d.func < d.at) /\ e.top <= d.top /\ d.top <= y.size
      BY <1>9, <2>1, <2>2, <2>7
    <3> HIDE DEF e
    <3> QED BY <3>1, <3>2, <3>3, <3>4, <3>5, <3>6, <2>2, <2>7, FramePopped
  <2>9. Runs(d, Len(t))
    <3>1. d.kind # "script" BY <1>15, <2>2
    <3>2. CASE d.kind = "pcall"
      <4>1. d.func + 1 <= Len(t) BY <2>0, <2>2, <1>8, <1>9, <1>11
      <4> QED BY <4>1, <3>2, <2>1, <2>2 DEF Runs
    <3>3. CASE d.kind # "pcall"
      <4>1. Callee(e) = e.at + 1 BY <3>3, <2>2 DEF Callee
      <4>2. d.at # 0 /\ d.at <= Len(t) BY <4>1, <2>0, <2>2, <1>8, <1>9, <1>11
      <4> QED BY <4>2, <3>1, <3>3, <2>1, <2>2 DEF Runs
    <3> QED BY <3>2, <3>3
  <2>10. Last(y.cis) = d /\ Len(y.stack) <= y.size BY <1>11, <2>4, <2>7
  <2> QED BY <2>7, <2>8, <2>9, <2>10, <1>1, <1>6, StepTo DEF Becomes
<1> QED BY <1>14, <1>15

-----------------------------------------------------------------------------
(* The methods that leave the frames alone *)

\* What a Java function that runs can rely on.
LEMMA JavaFacts ==
  ASSUME ApiInv, JavaRuns
  PROVE  /\ stack \in Seq(Values) /\ Len(stack) \in Nat /\ globals \in Values
         /\ ci \in CallInfo /\ ci.func \in Nat /\ ci.top \in Nat /\ ci.at = 0
         /\ 1 <= ci.func /\ ci.func <= Len(stack) /\ Len(stack) + 1 <= ci.top /\ ci.top <= size
         /\ lua_gettop = Len(stack) - ci.func /\ lua_gettop \in Nat
         /\ size \in Nat /\ size \in 0 .. ERRORSTACKSIZE /\ Len(stack) <= ERRORSTACKSIZE
         /\ ci.kind \in JavaKinds /\ ci.kind # "pcall" /\ ci.kind # "script" /\ ci.status = "run"
         /\ ~InPcall(ci) /\ ~raising
<1>1. /\ Thread \in Threads /\ Thread.cis # <<>> /\ Nested(Thread) /\ globals \in Values
  BY DEF ApiInv, Body, Types
<1>2. /\ Thread.stack = stack /\ Thread.cis = cis /\ Thread.size = size BY DEF Thread
<1>3. /\ stack \in Seq(Values) /\ Len(stack) \in Nat /\ cis \in Seq(CallInfo) /\ cis # <<>>
      /\ size \in Nat /\ size \in 0 .. ERRORSTACKSIZE
  BY <1>1, <1>2, ThreadTypes
<1>4. /\ Len(cis) \in Nat \ {0} /\ Last(cis) = cis[Len(cis)] /\ Last(cis) \in CallInfo
  BY <1>3, FrontIs
<1>5. ci \in CallInfo /\ ci = cis[Len(cis)] /\ Len(cis) \in DOMAIN cis BY <1>3, <1>4 DEF ci
<1>6. ci.func \in Nat /\ ci.top \in Nat BY <1>5, CallInfoTypes
<1>7. 1 <= ci.func /\ ci.func <= Len(stack) /\ ci.top <= size BY <1>1, <1>2, <1>5 DEF Nested
<1>8. ~raising /\ ci.status = "run" /\ ci.kind \in JavaKinds BY DEF JavaRuns
<1>9. Runs(ci, Len(stack)) BY <1>8 DEF ApiInv
<1>10. ci.at = 0 /\ Len(stack) + 1 <= ci.top BY <1>8, <1>9 DEF Runs
<1>11. ~InPcall(ci) BY <1>8 DEF InPcall
<1>12. ci.kind # "pcall" /\ ci.kind # "script" BY <1>8 DEF JavaKinds
<1>13. lua_gettop = Len(stack) - ci.func /\ lua_gettop \in Nat BY <1>3, <1>6, <1>7 DEF lua_gettop, Top
<1>14. Len(stack) <= ERRORSTACKSIZE BY <1>3, <1>6, <1>7, <1>10, Sizes
<1> QED BY <1>1, <1>3, <1>5, <1>6, <1>7, <1>8, <1>10, <1>11, <1>12, <1>13, <1>14

\* s is a stack that the function that runs may leave.
Kept(s) == /\ s \in Seq(Values) /\ ci.func <= Len(s) /\ Len(s) + 1 <= ci.top
           /\ \A i \in 1 .. ci.func : s[i] = stack[i]

\* A method that leaves such a stack, and a value in the global.
LEMMA MethodKeeps ==
  ASSUME ApiInv, JavaRuns, NEW s, Kept(s), NEW g \in Values, stack' = s, globals' = g,
         UNCHANGED <<size, cis, jmps, errfunc, raising>>
  PROVE  ApiInv'
<1> DEFINE x == Thread
           y == [x EXCEPT !.stack = s]
<1>1. /\ x \in Threads /\ x.cis # <<>> /\ x.stack = stack /\ x.cis = cis /\ x.jmps = jmps
      /\ x.errfunc = errfunc /\ x.size = size /\ Body(x)
  BY DEF ApiInv, Body, Types, Thread
<1>2. s \in Seq(Values) /\ Len(s) \in Nat BY DEF Kept
<1> HIDE DEF x
<1>3. /\ y \in Threads /\ y.stack = s /\ y.cis = cis /\ y.jmps = jmps
      /\ y.errfunc = errfunc /\ y.size = size
  BY <1>1, <1>2 DEF Threads
<1> HIDE DEF y
<1>4. Body(y)
  <2> DEFINE n == ci.func
  <2>1. /\ n \in Nat /\ Last(x.cis).func <= n /\ n <= Len(x.stack) /\ n <= Len(y.stack)
        /\ \A i \in 1 .. n : y.stack[i] = x.stack[i]
        /\ ~InPcall(Last(x.cis)) /\ x.size <= y.size
    BY <1>1, <1>3, JavaFacts DEF Kept, ci
  <2> HIDE DEF n
  <2> QED BY <2>1, <1>1, <1>3, StackChanged
<1>5. Runs(ci, Len(s)) BY JavaFacts DEF Runs, Kept
<1>6. Len(s) <= size BY <1>2, JavaFacts DEF Kept
<1>7. Last(y.cis) = ci /\ raising' = FALSE BY <1>3, JavaFacts DEF ci
<1> QED BY <1>3, <1>4, <1>5, <1>6, <1>7, StepTo

\* A valid index is a slot above the function, with a value.
LEMMA IndexIs ==
  ASSUME ApiInv, JavaRuns, NEW k \in Valid
  PROVE  /\ k \in Int /\ k # 0 /\ k # LUA_REGISTRYINDEX
         /\ index2addr(stack, k) \in ci.func + 1 .. Len(stack)
         /\ Value(stack, k) = stack[index2addr(stack, k)] /\ Value(stack, k) \in Values
         /\ lua_gettop >= 1 /\ Len(stack) \in Nat \ {0} /\ ci.func \in 1 .. Len(stack) - 1
<1>1. /\ Len(stack) \in Nat /\ ci.func \in Nat /\ 1 <= ci.func /\ ci.func <= Len(stack)
      /\ lua_gettop = Len(stack) - ci.func /\ lua_gettop \in Nat
      /\ Len(stack) <= ERRORSTACKSIZE /\ stack \in Seq(Values)
  BY JavaFacts
<1>2. k \in Int /\ k # 0 /\ -lua_gettop <= k /\ k <= lua_gettop BY <1>1 DEF Valid
<1> DEFINE n == Len(stack)
           f == ci.func
           g == lua_gettop
<1> HIDE DEF n, f, g
<1>3. /\ n \in Nat /\ f \in Nat /\ 1 <= f /\ f <= n /\ g = n - f /\ n <= ERRORSTACKSIZE
      /\ k \in Int /\ k # 0 /\ -g <= k /\ k <= g
  BY <1>1, <1>2 DEF n, f, g
<1>4. k # LUA_REGISTRYINDEX
  <2>1. -n <= k BY <1>3
  <2>2. LUAI_MAXSTACK \in Nat /\ ERRORSTACKSIZE \in Nat /\ ERRORSTACKSIZE <= LUAI_MAXSTACK + 999
    BY Sizes
  <2> QED BY <2>1, <2>2, <1>3 DEF LUA_REGISTRYINDEX
<1>5. index2addr(stack, k) = IF k > 0 THEN f + k ELSE n + 1 + k
  BY <1>3 DEF index2addr, n, f
<1>6. index2addr(stack, k) \in f + 1 .. n /\ index2addr(stack, k) # 0 BY <1>3, <1>5
<1>7. Value(stack, k) = stack[index2addr(stack, k)] BY <1>4, <1>6 DEF Value
<1>8. stack[index2addr(stack, k)] \in Values BY <1>1, <1>3, <1>6 DEF n
<1>9. g >= 1 /\ n \in Nat \ {0} /\ f \in 1 .. n - 1 BY <1>3
<1> QED BY <1>2, <1>4, <1>6, <1>7, <1>8, <1>9 DEF n, f, g

\* The stack itself may stay.
LEMMA StackKept ==
  ASSUME ApiInv, JavaRuns
  PROVE  Kept(stack)
BY JavaFacts DEF Kept

\* Values may go.
LEMMA PrefixKept ==
  ASSUME ApiInv, JavaRuns, NEW s, Kept(s), NEW n \in ci.func .. Len(s)
  PROVE  Kept(SubSeq(s, 1, n)) /\ Len(SubSeq(s, 1, n)) = n
<1>1. /\ s \in Seq(Values) /\ Len(s) \in Nat /\ ci.func <= Len(s) /\ Len(s) + 1 <= ci.top
      /\ \A i \in 1 .. ci.func : s[i] = stack[i]
  BY DEF Kept
<1>2. ci.func \in Nat /\ ci.top \in Nat BY JavaFacts
<1>3. n \in 0 .. Len(s) /\ ci.func <= n /\ n + 1 <= ci.top BY <1>1, <1>2
<1>4. /\ SubSeq(s, 1, n) \in Seq(Values) /\ Len(SubSeq(s, 1, n)) = n
      /\ \A i \in 1 .. n : SubSeq(s, 1, n)[i] = s[i]
  BY <1>1, <1>3, PrefixIs
<1>5. \A i \in 1 .. ci.func : i \in 1 .. n BY <1>2, <1>3
<1> QED BY <1>1, <1>3, <1>4, <1>5 DEF Kept

\* A value may come.
LEMMA AppendKept ==
  ASSUME ApiInv, JavaRuns, NEW s, Kept(s), Len(s) + 2 <= ci.top, NEW v \in Values
  PROVE  Kept(Append(s, v)) /\ Len(Append(s, v)) = Len(s) + 1
<1>1. /\ s \in Seq(Values) /\ Len(s) \in Nat /\ ci.func <= Len(s) /\ Len(s) + 1 <= ci.top
      /\ \A i \in 1 .. ci.func : s[i] = stack[i]
  BY DEF Kept
<1>2. ci.func \in Nat /\ ci.top \in Nat BY JavaFacts
<1>3. /\ Append(s, v) \in Seq(Values) /\ Len(Append(s, v)) = Len(s) + 1
      /\ \A i \in 1 .. Len(s) : Append(s, v)[i] = s[i]
  BY <1>1, AppendIs
<1>4. \A i \in 1 .. ci.func : i \in 1 .. Len(s) BY <1>1, <1>2
<1> QED BY <1>1, <1>2, <1>3, <1>4 DEF Kept

\* A value is written to a slot.
LEMMA MovetoKept ==
  ASSUME ApiInv, JavaRuns, NEW k \in Valid, NEW v \in Values
  PROVE  Kept(moveto(stack, v, k)) /\ Len(moveto(stack, v, k)) = Len(stack)
<1> DEFINE p == index2addr(stack, k)
<1>1. p \in ci.func + 1 .. Len(stack) BY IndexIs
<1>2. stack \in Seq(Values) /\ Len(stack) \in Nat /\ ci.func \in Nat /\ Kept(stack)
  BY JavaFacts, StackKept
<1>3. moveto(stack, v, k) = [stack EXCEPT ![p] = v] BY DEF moveto
<1> HIDE DEF p
<1>4. [stack EXCEPT ![p] = v] \in Seq(Values) /\ Len([stack EXCEPT ![p] = v]) = Len(stack)
      /\ \A i \in 1 .. Len(stack) : i # p => [stack EXCEPT ![p] = v][i] = stack[i]
  BY <1>1, <1>2
<1>5. \A i \in 1 .. ci.func : i \in 1 .. Len(stack) /\ i # p BY <1>1, <1>2
<1> QED BY <1>2, <1>3, <1>4, <1>5 DEF Kept

\* A value goes, the ones above it move down (lua_remove).
LEMMA RemoveKept ==
  ASSUME ApiInv, JavaRuns, NEW k \in Valid
  PROVE  Kept(lua_remove(stack, k))
<1> DEFINE p == index2addr(stack, k)
           n == Len(stack)
           r == lua_remove(stack, k)
<1>1. p \in ci.func + 1 .. n /\ n \in Nat \ {0} /\ ci.func \in 1 .. n - 1 BY IndexIs
<1>2. stack \in Seq(Values) /\ ci.func \in Nat /\ n + 1 <= ci.top /\ ci.top \in Nat
  BY JavaFacts
<1>3. r = [i \in 1 .. n - 1 |-> IF i < p THEN stack[i] ELSE stack[i + 1]] BY DEF lua_remove
<1> HIDE DEF p, r
<1>4. \A i \in 1 .. n - 1 : (IF i < p THEN stack[i] ELSE stack[i + 1]) \in Values
  BY <1>1, <1>2
<1>5. n - 1 \in Nat BY <1>1
<1>6. r \in Seq(Values) /\ Len(r) = n - 1 BY <1>3, <1>4, <1>5
<1>7. \A i \in 1 .. ci.func : i \in 1 .. n - 1 /\ i < p BY <1>1
<1> HIDE DEF n
<1>8. \A i \in 1 .. ci.func : r[i] = stack[i] BY <1>3, <1>7
<1>9. ci.func <= n - 1 /\ n - 1 + 1 <= ci.top BY <1>1, <1>2
<1> QED BY <1>6, <1>8, <1>9 DEF Kept, r

\* The last value goes to a slot, the ones above it move up (lua_insert).
LEMMA InsertKept ==
  ASSUME ApiInv, JavaRuns, NEW k \in Valid
  PROVE  Kept(lua_insert(stack, k))
<1> DEFINE p == index2addr(stack, k)
           n == Len(stack)
           r == lua_insert(stack, k)
<1>1. p \in ci.func + 1 .. n /\ n \in Nat \ {0} /\ ci.func \in 1 .. n - 1 BY IndexIs
<1>2. stack \in Seq(Values) /\ ci.func \in Nat /\ n + 1 <= ci.top /\ ci.top \in Nat
  BY JavaFacts
<1>3. r = [i \in 1 .. n |-> IF i > p THEN stack[i - 1] ELSE IF i = p THEN Last(stack) ELSE stack[i]]
  BY DEF lua_insert
<1>4. Last(stack) \in Values BY <1>1, <1>2, FrontIs
<1> HIDE DEF p, r
<1>5. \A i \in 1 .. n : (IF i > p THEN stack[i - 1] ELSE IF i = p THEN Last(stack) ELSE stack[i]) \in Values
  BY <1>1, <1>2, <1>4
<1>6. r \in Seq(Values) /\ Len(r) = n BY <1>1, <1>3, <1>5
<1>7. \A i \in 1 .. ci.func : i \in 1 .. n /\ i < p BY <1>1
<1> HIDE DEF n
<1>8. \A i \in 1 .. ci.func : r[i] = stack[i] BY <1>1, <1>3, <1>7
<1>9. ci.func <= n BY <1>1
<1> QED BY <1>2, <1>6, <1>8, <1>9 DEF Kept, r

\* What the methods ask lapi.c for.
LEMMA Asks ==
  /\ \A i, j : _apiX(2, i, j) = Leaves(lua_arith(stack, i))
  /\ \A i, j : _apiX(6, i, j) = Leaves(lua_concat(stack, i))
  /\ \A i, j : _apiX(7, i, j) = Leaves(lua_copy(stack, i, j))
  /\ \A i, j : _apiX(14, i, j) = Leaves(lua_gettable(stack))
  /\ \A i, j : _apiX(17, i, j) = Leaves(lua_insert(stack, i))
  /\ \A i, j : _apiX(20, i, j) = Leaves(lua_len(stack))
  /\ \A i, j : _apiX(22, i, j) = Leaves(lua_next(stack))
  /\ \A i, j : _apiX(24, i, j) = Leaves(lua_pop(stack, i))
  /\ \A i, j : _apiX(25, i, j) = Leaves(lua_pushboolean(stack, i))
  /\ \A i, j : _apiX(26, i, j) = Leaves(lua_pushinteger(stack))
  /\ \A i, j : _apiX(28, i, j) = Leaves(lua_pushnil(stack))
  /\ \A i, j : _apiX(30, i, j) = Leaves(lua_pushvalue(stack, i))
  /\ \A i, j : _apiX(32, i, j) = Leaves(lua_rawget(stack))
  /\ \A i, j : _apiX(33, i, j) = Leaves(lua_rawgeti(stack, i, j))
  /\ \A i, j : _apiX(35, i, j) = Stores(lua_rawset(stack), Last(stack))
  /\ \A i, j : _apiX(37, i, j) = Leaves(lua_remove(stack, i))
  /\ \A i, j : _apiX(38, i, j) = Leaves(lua_replace(stack, i))
  /\ \A i, j : _apiX(42, i, j) = Leaves(lua_settop(stack, i))
BY DEF _apiX

\* The same of the functions that get a string or an object.
LEMMA AsksMore ==
  /\ \A i : _xapi(11, i) = Leaves(lua_getglobal(stack))
  /\ \A i : _xapi(12, i) = Leaves(lua_getglobal(stack))
  /\ \A i : _xapi(27, i) = Leaves(lua_pushstring(stack))
  /\ \A i : _xapi(29, i) = Leaves(lua_pushnumber(stack))
  /\ \A i : _xapi(39, i) = Stores(Front(stack), Last(stack))
  /\ \A i : _xapi(40, i) = Stores(Front(stack), Last(stack))
  /\ \A i : _xapi(49, i).s = lua_tolstring(stack, i) /\ _xapi(49, i).g = globals
  /\ \A i : _xapi(53, i) = Leaves(Append(stack, Java))
BY DEF _xapi, Leaves

\* A method whose answer is such a stack.
LEMMA AnswerKeeps ==
  ASSUME ApiInv, JavaRuns, NEW x, Kept(x.s), x.g \in Values,
         NEW m, NEW i, NEW j, NEW v, Method(m, i, j, v, x)
  PROVE  ApiInv'
<1>1. /\ stack' = x.s /\ globals' = x.g
      /\ UNCHANGED <<size, cis, jmps, errfunc, raising>>
  BY DEF Method
<1> DEFINE s == x.s
           g == x.g
<1>2. Kept(s) /\ g \in Values /\ stack' = s /\ globals' = g BY <1>1
<1> HIDE DEF s, g
<1> QED BY <1>1, <1>2, MethodKeeps

\* A method that leaves such a stack.
LEMMA LeaveKeeps ==
  ASSUME ApiInv, JavaRuns, NEW s, Kept(s),
         NEW m, NEW i, NEW j, NEW v, Method(m, i, j, v, Leaves(s))
  PROVE  ApiInv'
<1>1. Leaves(s).s = s /\ Leaves(s).g = globals /\ globals \in Values BY JavaFacts DEF Leaves
<1> QED BY <1>1, AnswerKeeps

\* A method that also sets the global.
LEMMA StoreKeeps ==
  ASSUME ApiInv, JavaRuns, NEW s, Kept(s), NEW g \in Values,
         NEW m, NEW i, NEW j, NEW v, Method(m, i, j, v, Stores(s, g))
  PROVE  ApiInv'
<1>1. Stores(s, g).s = s /\ Stores(s, g).g = g BY DEF Stores
<1> QED BY <1>1, AnswerKeeps

\* The methods that take an index of a value.
LEMMA IndexedKeeps ==
  ASSUME ApiInv, JavaRuns, NEW k \in Valid,
         luaInsert(k) \/ luaRemove(k) \/ luaReplace(k) \/ luaTostring(k)
           \/ \E k2 \in Valid : luaCopy(k, k2)
  PROVE  ApiInv'
<1>0. /\ Len(stack) \in Nat \ {0} /\ ci.func \in 1 .. Len(stack) - 1 /\ stack \in Seq(Values)
      /\ Last(stack) \in Values
  <2>1. Len(stack) \in Nat \ {0} /\ ci.func \in 1 .. Len(stack) - 1 BY IndexIs
  <2>2. stack \in Seq(Values) BY JavaFacts
  <2> QED BY <2>1, <2>2, FrontIs
<1>1. CASE luaInsert(k)
  <2>1. Method("luaInsert", k, 0, None, Leaves(lua_insert(stack, k))) BY <1>1, Asks DEF luaInsert
  <2>2. Kept(lua_insert(stack, k)) BY InsertKept
  <2> QED BY <2>1, <2>2, LeaveKeeps
<1>2. CASE luaRemove(k)
  <2>1. Method("luaRemove", k, 0, None, Leaves(lua_remove(stack, k))) BY <1>2, Asks DEF luaRemove
  <2>2. Kept(lua_remove(stack, k)) BY RemoveKept
  <2> QED BY <2>1, <2>2, LeaveKeeps
<1>3. CASE luaReplace(k)
  <2>1. Method("luaReplace", k, 0, None, Leaves(lua_replace(stack, k))) BY <1>3, Asks DEF luaReplace
  <2> DEFINE s == moveto(stack, Last(stack), k)
  <2>2. Kept(s) /\ Len(s) = Len(stack) BY <1>0, MovetoKept
  <2>3. lua_replace(stack, k) = SubSeq(s, 1, Len(s) - 1) BY DEF lua_replace, Front
  <2> HIDE DEF s
  <2>4. Len(s) - 1 \in ci.func .. Len(s) BY <1>0, <2>2
  <2>5. Kept(lua_replace(stack, k)) BY <2>2, <2>3, <2>4, PrefixKept
  <2> QED BY <2>1, <2>5, LeaveKeeps
<1>4. CASE luaTostring(k)
  <2>1. Method("luaTostring", k, 0, None, _xapi(49, k)) BY <1>4 DEF luaTostring
  <2>2. Kept(moveto(stack, Numeral, k)) BY MovetoKept DEF Values, Strings
  <2>3. Kept(lua_tolstring(stack, k)) BY <2>2, StackKept DEF lua_tolstring
  <2>4. _xapi(49, k).s = lua_tolstring(stack, k) /\ _xapi(49, k).g = globals BY AsksMore
  <2>5. globals \in Values BY JavaFacts
  <2> DEFINE x == _xapi(49, k)
  <2>6. Kept(x.s) /\ x.g \in Values /\ Method("luaTostring", k, 0, None, x)
    BY <2>1, <2>3, <2>4, <2>5
  <2> HIDE DEF x
  <2> QED BY <2>6, AnswerKeeps
<1>5. ASSUME NEW k2 \in Valid, luaCopy(k, k2) PROVE ApiInv'
  <2>1. Method("luaCopy", k, k2, None, Leaves(lua_copy(stack, k, k2))) BY <1>5, Asks DEF luaCopy
  <2>2. Value(stack, k) \in Values BY IndexIs
  <2>3. Kept(lua_copy(stack, k, k2)) BY <2>2, MovetoKept DEF lua_copy
  <2> QED BY <2>1, <2>3, LeaveKeeps
<1> QED BY <1>1, <1>2, <1>3, <1>4, <1>5

\* Values are taken off the top, with or without one in their place.
LEMMA PoppedKept ==
  ASSUME ApiInv, JavaRuns, NEW n \in 0 .. lua_gettop
  PROVE  /\ Kept(SubSeq(stack, 1, Len(stack) - n))
         /\ n > 0 => \A v \in Values : Kept(Append(SubSeq(stack, 1, Len(stack) - n), v))
<1> DEFINE m == Len(stack) - n
           s == SubSeq(stack, 1, m)
<1>1. /\ Len(stack) \in Nat /\ ci.func \in Nat /\ lua_gettop = Len(stack) - ci.func
      /\ ci.top \in Nat /\ Len(stack) + 1 <= ci.top /\ ci.func <= Len(stack)
  BY JavaFacts
<1>2. m \in ci.func .. Len(stack) BY <1>1
<1>3. n > 0 => m + 2 <= ci.top BY <1>1
<1> HIDE DEF m
<1>4. Kept(s) /\ Len(s) = m BY <1>2, StackKept, PrefixKept
<1> HIDE DEF s
<1>5. n > 0 => \A v \in Values : Kept(Append(s, v)) BY <1>3, <1>4, AppendKept
<1> QED BY <1>4, <1>5 DEF s, m

\* A value above the function may go.
LEMMA FrontKept ==
  ASSUME ApiInv, JavaRuns, Has(1)
  PROVE  /\ Kept(Front(stack)) /\ \A v \in Values : Kept(Append(Front(stack), v))
         /\ Last(stack) \in Values
<1>1. 1 \in 0 .. lua_gettop /\ 1 > 0 BY JavaFacts DEF Has
<1>2. /\ Kept(SubSeq(stack, 1, Len(stack) - 1))
      /\ \A v \in Values : Kept(Append(SubSeq(stack, 1, Len(stack) - 1), v))
  BY <1>1, PoppedKept
<1>3. stack \in Seq(Values) /\ stack # <<>> BY JavaFacts
<1> QED BY <1>2, <1>3, FrontIs DEF Front

\* The methods of the table, which pop a key, or a value, or both.
LEMMA TableKeeps ==
  ASSUME ApiInv, JavaRuns, NEW k \in Valid,
         \/ luaNext(k) /\ Room(1)
         \/ luaGettable(k) \/ luaRawget(k) \/ luaSetfield(k)
         \/ Has(2) /\ luaRawset(k)
  PROVE  ApiInv'
<1>0. Has(1) /\ globals \in Values
  <2>1. lua_gettop >= 1 BY IndexIs
  <2>2. lua_gettop \in Nat /\ globals \in Values BY JavaFacts
  <2> QED BY <2>1, <2>2 DEF Has
<1>1. Field(Last(stack)) \in Values BY <1>0 DEF Field, Values
<1>2. CASE luaNext(k) /\ Room(1)
  <2>1. Method("luaNext", k, 0, None, Leaves(lua_next(stack))) BY <1>2, Asks DEF luaNext
  <2> DEFINE s == Append(Front(stack), Str)
  <2>2. Kept(Front(stack)) /\ Kept(s) BY <1>0, FrontKept DEF Values, Strings
  <2>3. Kept(s \o <<globals>>)
    <3>1. Front(stack) \in Seq(Values) /\ Len(Front(stack)) = Len(stack) - 1 /\ Len(stack) \in Nat
      <4>1. stack \in Seq(Values) /\ stack # <<>> BY JavaFacts
      <4> QED BY <4>1, FrontIs
    <3>2. s \in Seq(Values) BY <2>2 DEF Kept
    <3>3. Len(s) = Len(stack)
      <4> DEFINE a == Front(stack)
      <4>1. Len(a) = Len(stack) - 1 /\ a \in Seq(Values) /\ Len(stack) \in Nat BY <3>1
      <4> HIDE DEF a
      <4>2. Len(Append(a, Str)) = Len(a) + 1 BY <4>1
      <4> QED BY <4>1, <4>2 DEF a
    <3> HIDE DEF s
    <3>4. s \o <<globals>> = Append(s, globals) BY <1>0, <3>2
    <3>5. Len(s) + 2 <= ci.top
      <4>1. ci.top \in Nat /\ Len(stack) \in Nat BY JavaFacts
      <4> QED BY <4>1, <3>3, <1>2 DEF Room, Top
    <3>6. Kept(Append(s, globals)) BY <2>2, <3>5, <1>0, AppendKept
    <3> QED BY <3>4, <3>6
  <2> HIDE DEF s
  <2>4. Kept(lua_next(stack)) BY <2>2, <2>3 DEF lua_next, s
  <2> QED BY <2>1, <2>4, LeaveKeeps
<1>3. CASE luaGettable(k)
  <2>1. Method("luaGettable", k, 0, None, Leaves(lua_gettable(stack)))
    BY <1>3, Asks DEF luaGettable
  <2>2. Kept(lua_gettable(stack)) BY <1>0, <1>1, FrontKept DEF lua_gettable
  <2> QED BY <2>1, <2>2, LeaveKeeps
<1>4. CASE luaRawget(k)
  <2>1. Method("luaRawget", k, 0, None, Leaves(lua_rawget(stack))) BY <1>4, Asks DEF luaRawget
  <2>2. Kept(lua_rawget(stack)) BY <1>0, <1>1, FrontKept DEF lua_rawget
  <2> QED BY <2>1, <2>2, LeaveKeeps
<1>5. CASE luaSetfield(k)
  <2>1. Method("luaSetfield", k, 0, None, Stores(Front(stack), Last(stack)))
    BY <1>5, AsksMore DEF luaSetfield
  <2>2. Kept(Front(stack)) /\ Last(stack) \in Values BY <1>0, FrontKept
  <2> QED BY <2>1, <2>2, StoreKeeps
<1>6. CASE Has(2) /\ luaRawset(k)
  <2>1. Method("luaRawset", k, 0, None, Stores(lua_rawset(stack), Last(stack)))
    BY <1>6, Asks DEF luaRawset
  <2>2. 2 \in 0 .. lua_gettop BY <1>6, JavaFacts DEF Has
  <2>3. Kept(SubSeq(stack, 1, Len(stack) - 2)) BY <2>2, PoppedKept
  <2>4. Kept(lua_rawset(stack)) /\ Last(stack) \in Values BY <2>3, <1>0, FrontKept DEF lua_rawset
  <2> QED BY <2>1, <2>4, StoreKeeps
<1> QED BY <1>2, <1>3, <1>4, <1>5, <1>6

\* The methods that take values off the top.
LEMMA PoppingKeeps ==
  ASSUME ApiInv, JavaRuns, NEW n \in 0 .. lua_gettop,
         \/ luaPop(n) \/ luaSettop(-n - 1)
         \/ n = 1 /\ luaOp(LUA_OPUNM)
         \/ n = 2 /\ luaOp(0)
         \/ n >= 1 /\ luaConcat(n)
  PROVE  ApiInv'
<1>0. n \in Nat /\ lua_gettop \in Nat /\ Len(stack) \in Nat BY JavaFacts
<1>1. /\ Kept(SubSeq(stack, 1, Len(stack) - n))
      /\ n > 0 => \A v \in Values : Kept(Append(SubSeq(stack, 1, Len(stack) - n), v))
  BY PoppedKept
<1>2. lua_settop(stack, -n - 1) = SubSeq(stack, 1, Len(stack) - n)
  <2>1. ~(-n - 1 >= 0) /\ Len(stack) + (-n - 1) + 1 = Len(stack) - n BY <1>0
  <2> QED BY <2>1 DEF lua_settop
<1>3. CASE luaPop(n)
  <2>1. Method("luaPop", n, 0, None, Leaves(lua_pop(stack, n))) BY <1>3, Asks DEF luaPop
  <2>2. Kept(lua_pop(stack, n)) BY <1>1, <1>2 DEF lua_pop
  <2> QED BY <2>1, <2>2, LeaveKeeps
<1>4. CASE luaSettop(-n - 1)
  <2>1. Method("luaSettop", -n - 1, 0, None, Leaves(lua_settop(stack, -n - 1)))
    BY <1>4, Asks DEF luaSettop
  <2> DEFINE s == lua_settop(stack, -n - 1)
             i == -n - 1
  <2>2. Kept(s) /\ Method("luaSettop", i, 0, None, Leaves(s)) BY <2>1, <1>1, <1>2
  <2> HIDE DEF s, i
  <2> QED BY <2>2, LeaveKeeps
<1>5. CASE n = 1 /\ luaOp(LUA_OPUNM)
  <2>1. Method("luaOp", LUA_OPUNM, 0, None, Leaves(lua_arith(stack, LUA_OPUNM)))
    BY <1>5, Asks DEF luaOp
  <2>2. Kept(lua_arith(stack, LUA_OPUNM)) BY <1>1, <1>5 DEF lua_arith, Values
  <2> QED BY <2>1, <2>2, LeaveKeeps
<1>6. CASE n = 2 /\ luaOp(0)
  <2>1. Method("luaOp", 0, 0, None, Leaves(lua_arith(stack, 0))) BY <1>6, Asks DEF luaOp
  <2>2. Kept(lua_arith(stack, 0)) BY <1>1, <1>6 DEF lua_arith, Values, LUA_OPUNM
  <2> QED BY <2>1, <2>2, LeaveKeeps
<1>7. CASE n >= 1 /\ luaConcat(n)
  <2>1. Method("luaConcat", n, 0, None, Leaves(lua_concat(stack, n))) BY <1>7, Asks DEF luaConcat
  <2>2. Str \in Values BY DEF Values, Strings
  <2>3. CASE n >= 2
    <3>1. Kept(lua_concat(stack, n)) BY <2>2, <2>3, <1>0, <1>1 DEF lua_concat
    <3> QED BY <3>1, <2>1, LeaveKeeps
  <2>4. CASE ~(n >= 2)
    <3>1. n # 0 BY <1>7
    <3>2. Kept(lua_concat(stack, n)) BY <3>1, <2>4, StackKept DEF lua_concat
    <3> QED BY <3>2, <2>1, LeaveKeeps
  <2> QED BY <2>3, <2>4
<1> QED BY <1>3, <1>4, <1>5, <1>6, <1>7

\* The methods that push no value more than they take.
LEMMA RearrangesKeep ==
  ASSUME ApiInv, JavaRuns, Rearranges
  PROVE  ApiInv'
<1>1. lua_gettop \in Nat /\ globals \in Values BY JavaFacts
<1>2. CASE \E k \in Valid :
             \/ luaInsert(k) \/ luaRemove(k) \/ luaReplace(k) \/ luaTostring(k)
             \/ \E k2 \in Valid : luaCopy(k, k2)
  BY <1>2, IndexedKeeps
<1>3. CASE \E k \in Valid :
             \/ luaNext(k) /\ Room(1)
             \/ luaGettable(k) \/ luaRawget(k) \/ luaSetfield(k)
             \/ Has(2) /\ luaRawset(k)
  BY <1>3, TableKeeps
<1>4. CASE Has(1) /\ luaSetglobal
  <2>1. Method("luaSetglobal", 0, 0, None, Stores(Front(stack), Last(stack)))
    BY <1>4, AsksMore DEF luaSetglobal
  <2>2. Kept(Front(stack)) /\ Last(stack) \in Values BY <1>4, FrontKept
  <2> QED BY <2>1, <2>2, StoreKeeps
<1>5. CASE \E n \in 0 .. lua_gettop : luaPop(n) \/ luaSettop(-n - 1)
  BY <1>5, PoppingKeeps
<1>6. CASE Has(1) /\ luaOp(LUA_OPUNM)
  <2>1. 1 \in 0 .. lua_gettop BY <1>1, <1>6 DEF Has
  <2> QED BY <2>1, <1>6, PoppingKeeps
<1>7. CASE Has(2) /\ luaOp(0)
  <2>1. 2 \in 0 .. lua_gettop BY <1>1, <1>7 DEF Has
  <2> QED BY <2>1, <1>7, PoppingKeeps
<1>8. CASE \E n \in 1 .. lua_gettop : luaConcat(n)
  <2>1. PICK n \in 1 .. lua_gettop : luaConcat(n) BY <1>8
  <2>2. n \in 0 .. lua_gettop /\ n >= 1 BY <1>1
  <2> QED BY <2>1, <2>2, PoppingKeeps
<1> QED BY <1>2, <1>3, <1>4, <1>5, <1>6, <1>7, <1>8 DEF Rearranges

\* The methods that push a value.
LEMMA PushKeeps ==
  ASSUME ApiInv, JavaRuns, Room(1), NEW e \in Values,
         NEW m, NEW i, NEW j, NEW v, Method(m, i, j, v, Leaves(Append(stack, e)))
  PROVE  ApiInv'
<1>1. Len(stack) + 2 <= ci.top BY JavaFacts DEF Room, Top
<1>2. Kept(Append(stack, e)) BY <1>1, StackKept, AppendKept
<1> QED BY <1>2, LeaveKeeps

\* Each way to push a value leaves it on top.
LEMMA Pushings ==
  ASSUME NEW v \in {Nil, True, False, Num, Str, Java}
  PROVE  \E e \in Values : luaPush(v) = Leaves(Append(stack, e))
<1>0. {Nil, True, False, Num, Str, Java} \subseteq Values BY DEF Values, Strings

<1>b. /\ Nil # True /\ Nil # False /\ Nil # Num /\ Nil # Java
      /\ Str # True /\ Str # False /\ Str # Num /\ Str # Java
      /\ True # Num /\ True # Java /\ False # Num /\ False # Java /\ Num # Java
  BY DEF Nil, Str, True, False, Num, Java
<1>1. CASE v \in {Nil, Str}
  <2>1. luaPush(v) = luaPushstring(v) BY <1>1, <1>b DEF luaPush
  <2>2. luaPushstring(v) = Leaves(Append(stack, v))
    BY <1>1, Asks, AsksMore DEF luaPushstring, luaPushnil, lua_pushnil, lua_pushstring, Nil, Str
  <2> QED BY <2>1, <2>2, <1>0
<1>2. CASE v \in {True, False}
  <2>1. luaPush(v) = luaPushboolean(v) BY <1>2, <1>b DEF luaPush
  <2>2. \E e \in {True, False} : luaPushboolean(v) = Leaves(Append(stack, e))
    BY <1>2, Asks DEF luaPushboolean, lua_pushboolean
  <2> QED BY <2>1, <2>2, <1>0
<1>3. CASE v = Num
  <2>1. luaPush(v) = luaPushinteger BY <1>3, <1>b DEF luaPush
  <2>2. luaPushinteger = Leaves(Append(stack, Num)) BY Asks DEF luaPushinteger, lua_pushinteger
  <2> QED BY <2>1, <2>2, <1>0
<1>4. CASE v = Java
  <2>1. luaPush(v) = luaPushFunction BY <1>4, <1>b DEF luaPush
  <2>2. luaPushFunction = Leaves(Append(stack, Java)) BY AsksMore DEF luaPushFunction
  <2> QED BY <2>1, <2>2, <1>0
<1> QED BY <1>1, <1>2, <1>3, <1>4

\* One nil more at the top.
LEMMA SettopKept ==
  ASSUME ApiInv, JavaRuns, Room(1)
  PROVE  Kept(lua_settop(stack, lua_gettop + 1))
<1> DEFINE n == Len(stack) + 1
           r == lua_settop(stack, lua_gettop + 1)
<1>1. /\ stack \in Seq(Values) /\ Len(stack) \in Nat /\ ci.func \in Nat /\ ci.top \in Nat
      /\ lua_gettop = Len(stack) - ci.func /\ lua_gettop \in Nat /\ ci.func <= Len(stack)
  BY JavaFacts
<1>2. ci.func + (lua_gettop + 1) = n /\ lua_gettop + 1 >= 0 BY <1>1
<1>3. r = [k \in 1 .. n |-> IF k <= Len(stack) THEN stack[k] ELSE Nil] BY <1>2 DEF lua_settop
<1>4. n + 1 <= ci.top BY <1>1 DEF Room, Top
<1> HIDE DEF r
<1>5. r \in Seq(Values) /\ Len(r) = n BY <1>1, <1>3 DEF Values
<1>6. \A i \in 1 .. ci.func : r[i] = stack[i] BY <1>1, <1>3
<1> QED BY <1>1, <1>4, <1>5, <1>6 DEF Kept, r

\* The methods that push a value.
LEMMA PushesKeep ==
  ASSUME ApiInv, JavaRuns, Pushes
  PROVE  ApiInv'
<1>0. /\ {Num, Env, Nil, Str} \subseteq Values /\ globals \in Values
  BY JavaFacts DEF Values, Strings
<1>1. CASE \E v \in Pushed : Room(IF v = Java THEN 4 ELSE 1) /\ Method("luaPush", 0, 0, v, luaPush(v))
  <2>1. PICK v \in Pushed : Room(IF v = Java THEN 4 ELSE 1) /\ Method("luaPush", 0, 0, v, luaPush(v))
    BY <1>1
  <2>2. v \in {Nil, True, False, Num, Str, Java} BY ApiPrograms
  <2>3. PICK e \in Values : luaPush(v) = Leaves(Append(stack, e)) BY <2>2, Pushings
  <2>4. Room(1) BY <2>1, JavaFacts DEF Room, Top
  <2> QED BY <2>1, <2>3, <2>4, PushKeeps
<1>2. CASE Room(1) /\ Method("luaPush", 0, 0, Num, luaPushnumber)
  <2>1. luaPushnumber = Leaves(Append(stack, Num)) BY AsksMore DEF luaPushnumber, lua_pushnumber
  <2> QED BY <2>1, <1>0, <1>2, PushKeeps
<1>3. ASSUME NEW k \in Valid, Room(1), luaPushvalue(k) \/ luaLen(k) \/ luaGetfield(k)
      PROVE  ApiInv'
  <2>1. CASE luaPushvalue(k)
    <3>1. Method("luaPushvalue", k, 0, None, Leaves(Append(stack, Value(stack, k))))
      BY <2>1, Asks DEF luaPushvalue, lua_pushvalue
    <3>2. Value(stack, k) \in Values BY IndexIs
    <3> QED BY <3>1, <3>2, <1>3, PushKeeps
  <2>2. CASE luaLen(k)
    <3>1. Method("luaLen", k, 0, None, Leaves(Append(stack, Num))) BY <2>2, Asks DEF luaLen, lua_len
    <3> QED BY <3>1, <1>0, <1>3, PushKeeps
  <2>3. CASE luaGetfield(k)
    <3>1. Method("luaGetfield", k, 0, None, Leaves(Append(stack, globals)))
      BY <2>3, AsksMore DEF luaGetfield, lua_getglobal
    <3> QED BY <3>1, <1>0, <1>3, PushKeeps
  <2> QED BY <2>1, <2>2, <2>3, <1>3
<1>4. CASE Room(1) /\ luaGetglobal
  <2>1. Method("luaGetglobal", 0, 0, None, Leaves(Append(stack, globals)))
    BY <1>4, AsksMore DEF luaGetglobal, lua_getglobal
  <2> QED BY <2>1, <1>0, <1>4, PushKeeps
<1>5. CASE Room(1) /\ luaConcat(0)
  <2>1. Method("luaConcat", 0, 0, None, Leaves(Append(stack, Str)))
    BY <1>5, Asks DEF luaConcat, lua_concat
  <2> QED BY <2>1, <1>0, <1>5, PushKeeps
<1>6. CASE Room(1) /\ luaRawgeti(LUA_REGISTRYINDEX, 2)
  <2>1. Method("luaRawgeti", LUA_REGISTRYINDEX, 2, None, Leaves(Append(stack, Env)))
    BY <1>6, Asks DEF luaRawgeti, lua_rawgeti
  <2> QED BY <2>1, <1>0, <1>6, PushKeeps
<1>7. CASE Room(1) /\ luaSettop(lua_gettop + 1)
  <2> DEFINE i == lua_gettop + 1
             s == lua_settop(stack, lua_gettop + 1)
  <2>1. Method("luaSettop", i, 0, None, Leaves(s)) BY <1>7, Asks DEF luaSettop
  <2>2. Kept(s) BY <1>7, SettopKept
  <2> HIDE DEF i, s
  <2> QED BY <2>1, <2>2, LeaveKeeps
<1> QED BY <1>1, <1>2, <1>3, <1>4, <1>5, <1>6, <1>7 DEF Pushes

\* lua_checkstack may grow the stack, and then the room of the function.
LEMMA CheckStackIs ==
  ASSUME NEW len \in Nat, len = Len(stack), NEW sz \in 0 .. ERRORSTACKSIZE, sz = size, NEW n \in Nat
  PROVE  LET x == lua_checkstack(n) IN
         /\ x.size \in 0 .. ERRORSTACKSIZE /\ sz <= x.size /\ x.ok \in BOOLEAN
         /\ x.ok => len + 1 + n <= x.size
<1>1. PICK r : r = luaD_growstack(len, n, sz) OBVIOUS
<1>2. Grown(r, sz, len + n + EXTRA_STACK) BY <1>1, GrowIs
<1>3. PICK rs, ok : rs = r.size /\ ok = (r.err = "") OBVIOUS
<1>4. EXTRA_STACK \in Nat /\ EXTRA_STACK > 1 /\ ERRORSTACKSIZE \in Nat /\ sz \in Nat BY Sizes
<1>5. /\ rs \in 0 .. ERRORSTACKSIZE /\ sz <= rs /\ ok \in BOOLEAN
      /\ ok => len + 1 + n <= rs
  <2>1. rs \in 0 .. ERRORSTACKSIZE /\ sz <= rs BY <1>2, <1>3 DEF Grown
  <2>2. rs \in Nat BY <2>1, <1>4
  <2>3. ok => len + n + EXTRA_STACK <= rs BY <1>2, <1>3 DEF Grown
  <2>4. ok \in BOOLEAN BY <1>3
  <2>5. len + n + EXTRA_STACK <= rs => len + 1 + n <= rs BY <2>2, <1>4
  <2> QED BY <2>1, <2>3, <2>4, <2>5
<1>6. CASE stack_last(size) - Top > n
  <2>1. lua_checkstack(n) = [ok |-> TRUE, size |-> sz] BY <1>6 DEF lua_checkstack
  <2>2. 1 + sz - EXTRA_STACK - (len + 1) > n BY <1>4, <1>6 DEF stack_last, Top
  <2>3. len + 1 + n <= sz /\ sz <= sz BY <2>2, <1>4
  <2> QED BY <2>1, <2>3
<1>7. CASE ~(stack_last(size) - Top > n) /\ len + EXTRA_STACK > LUAI_MAXSTACK - n
  <2>1. lua_checkstack(n) = [ok |-> FALSE, size |-> sz] BY <1>7 DEF lua_checkstack
  <2>2. sz <= sz BY <1>4
  <2> QED BY <2>1, <2>2
<1>8. CASE ~(stack_last(size) - Top > n) /\ ~(len + EXTRA_STACK > LUAI_MAXSTACK - n)
  <2>1. lua_checkstack(n) = [ok |-> ok, size |-> rs]
    BY <1>1, <1>3, <1>8 DEF lua_checkstack
  <2> QED BY <2>1, <1>5
<1> QED BY <1>6, <1>7, <1>8

-----------------------------------------------------------------------------
(* Steps that change the innermost frame and the stack above its function *)

\* The innermost frame changes, but stays out of any luaD_pcall.
LEMMA FrameGoesOn ==
  ASSUME ApiInv, ~raising, NEW d \in CallInfo, ~InPcall(ci), ~InPcall(d),
         d.kind = ci.kind, d.func = ci.func, d.nres = ci.nres, d.at # 0 => d.func < d.at,
         NEW sz \in 0 .. ERRORSTACKSIZE, size <= sz, ci.top <= d.top, d.top <= sz,
         NEW s \in Seq(Values), ci.func <= Len(s), Len(s) <= sz,
         \A i \in 1 .. ci.func : s[i] = stack[i], Runs(d, Len(s)),
         cis' = Append(Front(cis), d), stack' = s, size' = sz,
         UNCHANGED <<jmps, errfunc, raising, globals>>
  PROVE  ApiInv'
<1> DEFINE x == Thread
           y == [x EXCEPT !.cis = Append(Front(cis), d), !.size = sz]
           z == [y EXCEPT !.stack = s]
<1>1. /\ x \in Threads /\ x.cis # <<>> /\ x.stack = stack /\ x.cis = cis /\ x.jmps = jmps
      /\ x.errfunc = errfunc /\ x.size = size /\ Body(x) /\ globals \in Values
  BY DEF ApiInv, Body, Types, Thread
<1>2. /\ cis \in Seq(CallInfo) /\ cis # <<>> /\ size \in Nat /\ Len(stack) \in Nat
  BY <1>1, ThreadTypes
<1>3. /\ Append(Front(cis), d) \in Seq(CallInfo) /\ Append(Front(cis), d) # <<>>
      /\ Last(Append(Front(cis), d)) = d
  BY <1>2, AgainIs
<1>4. Last(x.cis) = ci BY <1>1 DEF ci
<1> HIDE DEF x
<1>5. /\ y \in Threads /\ y.stack = stack /\ y.cis = Append(Front(cis), d) /\ y.jmps = jmps
      /\ y.errfunc = errfunc /\ y.size = sz
  BY <1>1, <1>3 DEF Threads
<1> HIDE DEF y
<1>6. /\ z \in Threads /\ z.stack = s /\ z.cis = Append(Front(cis), d) /\ z.jmps = jmps
      /\ z.errfunc = errfunc /\ z.size = sz
  BY <1>5 DEF Threads
<1> HIDE DEF z
<1>7. Body(y)
  <2>1. PICK c : c = ci OBVIOUS
  <2> QED BY <2>1, <1>1, <1>4, <1>5, TopChanged
<1>8. Body(z)
  <2> DEFINE n == ci.func
  <2>1. /\ n \in Nat /\ 1 <= n /\ n <= Len(stack)
    <3>1. Len(cis) \in Nat \ {0} /\ ci = cis[Len(cis)] /\ ci \in CallInfo
      BY <1>2, FrontIs DEF ci
    <3>2. Nested(x) BY <1>1 DEF Body
    <3> QED BY <3>1, <3>2, <1>1, <1>2, CallInfoTypes DEF Nested
  <2>2. n <= Len(s) /\ \A i \in 1 .. n : s[i] = stack[i] OBVIOUS
  <2>3. Last(y.cis) = d /\ d.func = n BY <1>3, <1>5
  <2> HIDE DEF n
  <2>4. n <= n /\ sz <= sz
    <3>1. sz \in Nat BY Sizes
    <3> QED BY <2>1, <3>1
  <2>5. ~InPcall(Last(y.cis)) BY <2>3
  <2>6. /\ z.cis = y.cis /\ z.jmps = y.jmps /\ z.errfunc = y.errfunc /\ y.size <= z.size
        /\ z \in Threads
    BY <2>4, <1>5, <1>6
  <2>7. /\ Last(y.cis).func <= n /\ n <= Len(y.stack) /\ n <= Len(z.stack)
        /\ \A i \in 1 .. n : z.stack[i] = y.stack[i]
    BY <2>1, <2>2, <2>3, <2>4, <1>5, <1>6
  <2>8. n \in Nat BY <2>1
  <2> QED BY <2>5, <2>6, <2>7, <2>8, <1>7, StackChanged
<1>9. Last(z.cis) = d /\ Len(z.stack) = Len(s) BY <1>3, <1>6
<1>10. raising' = FALSE /\ globals' \in Values /\ Len(z.stack) <= z.size
       /\ Runs(Last(z.cis), Len(z.stack))
  BY <1>1, <1>6, <1>9 DEF ApiInv
<1>11. /\ stack' = z.stack /\ cis' = z.cis /\ jmps' = z.jmps /\ errfunc' = z.errfunc
       /\ size' = z.size
  BY <1>6
<1> QED BY <1>6, <1>8, <1>10, <1>11, StepTo

\* luaCheckStack gives the function more room, or leaves it what it has.
LEMMA CheckStackKeeps ==
  ASSUME ApiInv, JavaRuns, NEW n \in Nat, luaCheckStack(n)
  PROVE  ApiInv'
<1> DEFINE top == IF lua_checkstack(n).ok /\ ci.top < Top + n THEN Top + n ELSE ci.top
           d == [ci EXCEPT !.top = top]
           sz == lua_checkstack(n).size
<1>1. /\ stack \in Seq(Values) /\ Len(stack) \in Nat /\ ci \in CallInfo /\ ci.func \in Nat
      /\ ci.top \in Nat /\ ci.at = 0 /\ Len(stack) + 1 <= ci.top /\ ci.top <= size /\ size \in Nat
      /\ size \in 0 .. ERRORSTACKSIZE /\ ci.func <= Len(stack)
      /\ ci.kind # "pcall" /\ ci.kind # "script" /\ ci.status = "run" /\ ~InPcall(ci) /\ ~raising
  BY JavaFacts
<1>2. /\ sz \in 0 .. ERRORSTACKSIZE /\ size <= sz
      /\ lua_checkstack(n).ok => Len(stack) + 1 + n <= sz
  BY <1>1, CheckStackIs
<1>3. sz \in Nat BY <1>2, Sizes
<1>4. top \in Nat /\ ci.top <= top
  <2>1. Top + n \in Nat BY <1>1 DEF Top
  <2> QED BY <2>1, <1>1
<1>a. top <= sz
  <2>1. CASE lua_checkstack(n).ok
    <3>1. Len(stack) + 1 + n <= sz BY <2>1, <1>2
    <3> QED BY <3>1, <1>1, <1>2, <1>3 DEF Top
  <2>2. CASE ~lua_checkstack(n).ok
    <3>1. top = ci.top BY <2>2
    <3> QED BY <3>1, <1>1, <1>2, <1>3
  <2> QED BY <2>1, <2>2
<1>5. /\ size' = sz /\ cis' = Append(Front(cis), d) /\ stack' = stack
      /\ UNCHANGED <<jmps, errfunc, raising, globals>>
  BY DEF luaCheckStack, SetCi
<1> HIDE DEF sz, top
<1>6. /\ d \in CallInfo /\ d.kind = ci.kind /\ d.func = ci.func /\ d.nres = ci.nres /\ d.at = 0
      /\ d.status = "run" /\ d.top = top
  BY <1>1, <1>4 DEF CallInfo
<1> HIDE DEF d
<1>7. ~InPcall(d) /\ Runs(d, Len(stack)) BY <1>1, <1>4, <1>6 DEF InPcall, Runs
<1>8. Len(stack) <= sz BY <1>1, <1>2, <1>3
<1> QED BY <1>1, <1>2, <1>4, <1>a, <1>5, <1>6, <1>7, <1>8, FrameGoesOn

\* Whatever method a Java function calls, luaPcall excepted.
LEMMA JavaMethodKeeps ==
  ASSUME ApiInv, JavaMethod
  PROVE  ApiInv'
<1>1. JavaRuns BY DEF JavaMethod
<1>2. CASE Rearranges BY <1>1, <1>2, RearrangesKeep
<1>3. CASE Pushes BY <1>1, <1>3, PushesKeep
<1>4. ASSUME NEW n \in Asked, luaCheckStack(n) PROVE ApiInv'
  <2>1. n \in Nat BY ApiPrograms
  <2> QED BY <1>1, <1>4, <2>1, CheckStackKeeps
<1>5. ASSUME NEW v \in {Script, Str}, luaLoad(v) PROVE ApiInv'
  <2>1. Room(1) /\ Method("luaLoad", 0, 0, v, Leaves(Append(stack, v))) BY <1>5 DEF luaLoad
  <2>2. v \in Values BY DEF Values, Strings
  <2> QED BY <1>1, <2>1, <2>2, PushKeeps
<1> QED BY <1>2, <1>3, <1>4, <1>5 DEF JavaMethod

\* An exception that luaPcall threw is caught.
LEMMA CatchesKeeps ==
  ASSUME ApiInv, JavaCatches
  PROVE  ApiInv'
<1> DEFINE d == [ci EXCEPT !.exc = None]
<1>1. /\ Thread \in Threads /\ Thread.cis = cis /\ Thread.stack = stack /\ Thread.size = size
      /\ cis # <<>> /\ Nested(Thread) /\ Len(stack) <= size
  BY DEF ApiInv, Body, Types, Thread
<1>2. /\ cis \in Seq(CallInfo) /\ size \in Nat /\ size \in 0 .. ERRORSTACKSIZE
      /\ stack \in Seq(Values) /\ Len(stack) \in Nat
  BY <1>1, ThreadTypes
<1>3. Len(cis) \in Nat \ {0} /\ ci = cis[Len(cis)] /\ ci \in CallInfo
  BY <1>1, <1>2, FrontIs DEF ci
<1>4. /\ ci.func <= Len(stack) /\ ci.top <= size /\ ci.top \in Nat
      /\ ci.at # 0 => ci.func < ci.at
  <2>1. Len(cis) \in DOMAIN cis BY <1>2, <1>3
  <2> QED BY <2>1, <1>1, <1>3, CallInfoTypes DEF Nested
<1>5. ~raising /\ Runs(ci, Len(stack)) BY DEF ApiInv, JavaCatches
<1>6. /\ size' = size /\ cis' = Append(Front(cis), d) /\ stack' = stack
      /\ UNCHANGED <<jmps, errfunc, raising, globals>>
  BY DEF JavaCatches, SetCi
<1>7. /\ d \in CallInfo /\ d.kind = ci.kind /\ d.func = ci.func /\ d.nres = ci.nres /\ d.at = ci.at
      /\ d.status = ci.status /\ d.top = ci.top
  BY <1>3 DEF CallInfo
<1> HIDE DEF d
<1>8. ~InPcall(ci) /\ ~InPcall(d) /\ Runs(d, Len(stack)) BY <1>5, <1>7 DEF InPcall, Runs
<1>9. size <= size /\ ci.top <= d.top BY <1>2, <1>4, <1>7
<1> QED BY <1>1, <1>2, <1>4, <1>5, <1>6, <1>7, <1>8, <1>9, FrameGoesOn

\* luaPcall ends: its handler goes, and after an error without a custom
\* handler the message.
LEMMA AfterPcallKeeps ==
  ASSUME ApiInv, AfterPcall
  PROVE  ApiInv'
<1> DEFINE n == Len(stack)
           f == ci.func
           s == lua_remove(stack, ci.at - ci.func)
           v == lua_tolstring(s, -1)
           threw == ci.status = "failed" /\ errorHandler = "default"
           w == IF threw THEN lua_pop(v, 1) ELSE s
           c == [ci EXCEPT !.status = "run", !.at = 0]
           d == IF threw THEN [c EXCEPT !.exc = IF Last(v) \in Strings THEN Last(v) ELSE "null"] ELSE c
<1>1. /\ Thread \in Threads /\ Thread.cis = cis /\ Thread.stack = stack /\ Thread.size = size
      /\ cis # <<>> /\ Nested(Thread) /\ Len(stack) <= size
  BY DEF ApiInv, Body, Types, Thread
<1>2. /\ cis \in Seq(CallInfo) /\ size \in Nat /\ size \in 0 .. ERRORSTACKSIZE
      /\ stack \in Seq(Values) /\ n \in Nat
  BY <1>1, ThreadTypes
<1>3. Len(cis) \in Nat \ {0} /\ ci = cis[Len(cis)] /\ ci \in CallInfo
  BY <1>1, <1>2, FrontIs DEF ci
<1>4. f \in Nat /\ ci.at \in Nat /\ ci.top \in Nat BY <1>3, CallInfoTypes
<1>5. /\ ~raising /\ ci.kind \in JavaKinds /\ ci.kind # "pcall" /\ ci.kind # "script"
      /\ ci.status \in {"ok", "failed"}
  BY DEF AfterPcall, JavaKinds
<1>6. /\ n + 1 <= ci.top /\ ci.at # 0 /\ ci.at <= n /\ (ci.status = "failed" => ci.at + 1 <= n)
  <2>1. Runs(ci, n) BY <1>5 DEF ApiInv
  <2> QED BY <2>1, <1>5 DEF Runs
<1>7. 1 <= f /\ f < ci.at /\ ci.top <= size
  <2>1. Len(cis) \in DOMAIN cis BY <1>2, <1>3
  <2> QED BY <2>1, <1>1, <1>3, <1>6 DEF Nested
<1>8. s = [k \in 1 .. n - 1 |-> IF k < ci.at THEN stack[k] ELSE stack[k + 1]]
  <2>1. /\ ci.at - ci.func > 0 /\ ~(ci.func + (ci.at - ci.func) > Len(stack))
        /\ ci.func + (ci.at - ci.func) = ci.at
    BY <1>2, <1>4, <1>6, <1>7
  <2>2. index2addr(stack, ci.at - ci.func) = ci.at BY <2>1 DEF index2addr
  <2> QED BY <2>2 DEF lua_remove
<1>9. /\ stack' = w /\ cis' = Append(Front(cis), d)
      /\ UNCHANGED <<size, jmps, errfunc, raising, globals>>
  BY DEF AfterPcall, SetCi
<1> HIDE DEF s, f
<1>10. /\ s \in Seq(Values) /\ Len(s) = n - 1
       /\ \A i \in 1 .. f : s[i] = stack[i]
  <2>1. \A k \in 1 .. n - 1 : (IF k < ci.at THEN stack[k] ELSE stack[k + 1]) \in Values
    BY <1>2, <1>4
  <2>2. n - 1 \in Nat BY <1>2, <1>4, <1>6
  <2>3. \A i \in 1 .. f : i \in 1 .. n - 1 /\ i < ci.at BY <1>2, <1>4, <1>6, <1>7
  <2> HIDE DEF n
  <2>4. s \in Seq(Values) /\ Len(s) = n - 1 BY <1>8, <2>1, <2>2
  <2> QED BY <1>8, <2>3, <2>4
<1>11. ASSUME threw
       PROVE  /\ v \in Seq(Values) /\ Len(v) = n - 1 /\ f + 1 <= Len(v) /\ Last(v) \in Values
              /\ \A i \in 1 .. f : v[i] = s[i]
  <2>1. f + 1 <= n - 1 /\ n - 1 \in Nat /\ n - 1 \in 1 .. n - 1
    BY <1>2, <1>4, <1>6, <1>7, <1>11
  <2>2. index2addr(s, -1) = n - 1
    <3>1. Len(s) + 1 + (-1) = n - 1 BY <1>10, <2>1
    <3> QED BY <3>1 DEF index2addr
  <2> HIDE DEF n
  <2> DEFINE m == n - 1
  <2>3. m \in 1 .. Len(s) /\ m \notin 1 .. f /\ Len(s) = m /\ f + 1 <= m
    BY <2>1, <1>4, <1>10
  <2>4. v = [s EXCEPT ![m] = Numeral] \/ v = s BY <2>2 DEF lua_tolstring, moveto
  <2> HIDE DEF m
  <2>5. /\ v \in Seq(Values) /\ Len(v) = m
        /\ \A i \in 1 .. f : v[i] = s[i]
    <3>1. CASE v = s BY <3>1, <1>10, <2>3
    <3>2. CASE v = [s EXCEPT ![m] = Numeral]
      <4>1. Numeral \in Values BY DEF Values, Strings
      <4>2. [s EXCEPT ![m] = Numeral] \in Seq(Values) /\ Len([s EXCEPT ![m] = Numeral]) = Len(s)
        BY <4>1, <1>10, <2>3
      <4>3. \A i \in 1 .. f : i \in 1 .. Len(s) /\ i # m BY <1>4, <2>3
      <4>4. \A i \in 1 .. f : [s EXCEPT ![m] = Numeral][i] = s[i] BY <4>3, <1>10
      <4> HIDE DEF v
      <4> QED BY <3>2, <4>2, <4>4, <2>3
    <3> QED BY <2>4, <3>1, <3>2
  <2> HIDE DEF v
  <2>6. v # <<>> BY <2>3, <2>5, <1>4
  <2>7. Last(v) \in Values BY <2>5, <2>6, FrontIs
  <2> QED BY <2>3, <2>5, <2>7 DEF m
<1>12. /\ w \in Seq(Values) /\ f <= Len(w) /\ Len(w) <= n
       /\ \A i \in 1 .. f : w[i] = stack[i]
  <2>1. CASE ~threw
    <3>1. w = s BY <2>1
    <3>2. f <= n - 1 /\ n - 1 <= n BY <1>2, <1>4, <1>6, <1>7
    <3> HIDE DEF n, w
    <3> QED BY <3>1, <3>2, <1>10
  <2>2. CASE threw
    <3>1. /\ v \in Seq(Values) /\ Len(v) = n - 1 /\ f + 1 <= Len(v)
          /\ \A i \in 1 .. f : v[i] = s[i]
      BY <1>11, <2>2
    <3>2. lua_pop(v, 1) = SubSeq(v, 1, Len(v) - 1)
      <4> HIDE DEF v
      <4>1. Len(v) + (-1 - 1) + 1 = Len(v) - 1 BY <3>1
      <4> QED BY <4>1 DEF lua_pop, lua_settop
    <3>3. w = SubSeq(v, 1, Len(v) - 1) BY <2>2, <3>2
    <3> HIDE DEF v, w
    <3> DEFINE m == Len(v) - 1
    <3>4. m \in 0 .. Len(v) /\ f <= m /\ m <= n BY <3>1, <1>2, <1>4
    <3> HIDE DEF m, n
    <3>5. /\ SubSeq(v, 1, m) \in Seq(Values) /\ Len(SubSeq(v, 1, m)) = m
          /\ \A i \in 1 .. m : SubSeq(v, 1, m)[i] = v[i]
      BY <3>1, <3>4, PrefixIs
    <3>6. w = SubSeq(v, 1, m) BY <3>3 DEF m
    <3>7. \A i \in 1 .. f : i \in 1 .. m BY <3>4, <1>4
    <3> QED BY <3>1, <3>4, <3>5, <3>6, <3>7, <1>10
  <2> QED BY <2>1, <2>2
<1>13. /\ d \in CallInfo /\ d.kind = ci.kind /\ d.func = ci.func /\ d.nres = ci.nres /\ d.at = 0
       /\ d.status = "run" /\ d.top = ci.top
  <2>1. c \in CallInfo /\ c.kind = ci.kind /\ c.func = ci.func /\ c.nres = ci.nres /\ c.at = 0
        /\ c.status = "run" /\ c.top = ci.top
    BY <1>3 DEF CallInfo
  <2> HIDE DEF c, v
  <2> QED BY <2>1 DEF CallInfo
<1> HIDE DEF d, w, c
<1>14. ~InPcall(ci) /\ ~InPcall(d) BY <1>5, <1>13 DEF InPcall
<1>15. Len(w) + 1 <= ci.top /\ Len(w) <= size /\ Len(w) \in Nat
  BY <1>2, <1>4, <1>6, <1>7, <1>12
<1>16. Runs(d, Len(w)) BY <1>5, <1>13, <1>15 DEF Runs
<1>17. size <= size /\ ci.top <= d.top /\ d.top <= size BY <1>2, <1>4, <1>7, <1>13
<1>18. f = ci.func BY DEF f
<1>19. \A i \in 1 .. ci.func : w[i] = stack[i] BY <1>12, <1>18
<1>20. ci.func <= Len(w) BY <1>12, <1>18
<1>21. (d.at # 0 => d.func < d.at) /\ size' = size BY <1>9, <1>13
<1> QED BY <1>2, <1>5, <1>9, <1>12, <1>13, <1>14, <1>15, <1>16, <1>17, <1>19, <1>20, <1>21, FrameGoesOn

-----------------------------------------------------------------------------
(* Returns *)

\* What holds of the innermost frame, whatever runs in it.
LEMMA InnermostFacts ==
  ASSUME ApiInv
  PROVE  /\ Thread \in Threads /\ Body(Thread) /\ Nested(Thread)
         /\ Thread.stack = stack /\ Thread.cis = cis /\ Thread.jmps = jmps
         /\ Thread.errfunc = errfunc /\ Thread.size = size
         /\ stack \in Seq(Values) /\ Len(stack) \in Nat /\ globals \in Values
         /\ cis \in Seq(CallInfo) /\ cis # <<>> /\ Len(cis) \in Nat \ {0}
         /\ ci = cis[Len(cis)] /\ Len(cis) \in DOMAIN cis /\ ci = Last(cis)
         /\ ci \in CallInfo /\ ci.func \in Nat /\ ci.top \in Nat /\ ci.at \in Nat
         /\ jmps \in Seq(Catcher) /\ errfunc \in Nat
         /\ size \in Nat /\ size \in 0 .. ERRORSTACKSIZE /\ Len(stack) <= size
         /\ 1 <= ci.func /\ ci.func <= Len(stack) /\ ci.top <= size
<1>1. /\ Body(Thread) /\ Thread \in Threads /\ cis # <<>> /\ Nested(Thread) /\ globals \in Values
      /\ Len(stack) <= size
  BY DEF ApiInv, Body, Types, Thread
<1>2. /\ Thread.stack = stack /\ Thread.cis = cis /\ Thread.jmps = jmps
      /\ Thread.errfunc = errfunc /\ Thread.size = size
  BY DEF Thread
<1>3. /\ stack \in Seq(Values) /\ Len(stack) \in Nat /\ cis \in Seq(CallInfo)
      /\ jmps \in Seq(Catcher) /\ errfunc \in Nat /\ size \in Nat /\ size \in 0 .. ERRORSTACKSIZE
  BY <1>1, <1>2, ThreadTypes
<1>4. Len(cis) \in Nat \ {0} /\ ci = cis[Len(cis)] /\ ci \in CallInfo /\ ci = Last(cis)
  BY <1>1, <1>3, FrontIs DEF ci
<1>5. Len(cis) \in DOMAIN cis BY <1>3, <1>4
<1>6. ci.func \in Nat /\ ci.top \in Nat /\ ci.at \in Nat BY <1>4, CallInfoTypes
<1>7. 1 <= ci.func /\ ci.func <= Len(stack) /\ ci.top <= size BY <1>1, <1>2, <1>4, <1>5 DEF Nested
<1> QED BY <1>1, <1>2, <1>3, <1>4, <1>5, <1>6, <1>7

\* A Java function returns its topmost values.
LEMMA JavaReturnsKeeps ==
  ASSUME ApiInv, NEW n \in Nat, JavaReturns(n)
  PROVE  ApiInv'
<1> DEFINE x == Thread
           first == Top - n
<1>1. JavaRuns /\ ci.kind = "java" /\ Has(n) /\ Returns(x, first) BY DEF JavaReturns
<1>2. /\ Len(stack) \in Nat /\ ci.func \in Nat /\ lua_gettop = Len(stack) - ci.func
      /\ ci.status = "run" /\ ~raising
  BY <1>1, JavaFacts
<1>3. first \in Nat /\ ci.func < first /\ first <= Len(stack) + 1 BY <1>1, <1>2 DEF Has, Top
<1>4. Body(x) /\ x.cis = cis /\ x.jmps = jmps /\ Len(x.stack) <= x.size /\ x.stack = stack
  BY InnermostFacts
<1> HIDE DEF x, first
<1> QED BY <1>1, <1>2, <1>3, <1>4, ReturnKeeps

\* A script returns its topmost values.
LEMMA ScriptReturnsKeeps ==
  ASSUME ApiInv, NEW n \in Nat, ScriptReturns(n)
  PROVE  ApiInv'
<1> DEFINE x == Thread
           first == Top - n
<1>1. ScriptRuns /\ first >= base /\ Returns(x, first) BY DEF ScriptReturns
<1>2. /\ ci.kind = "script" /\ ci.status = "run" /\ ~raising BY <1>1 DEF ScriptRuns
<1>3. /\ Len(stack) \in Nat /\ ci.func \in Nat /\ ci.top \in Nat BY InnermostFacts
<1>4. ci.func + MaxStackSize < ci.top BY <1>2, InnermostFacts DEF Nested
<1>5. first \in Nat /\ ci.func < first /\ first <= Len(stack) + 1
  <2>1. first \in Int /\ first <= Len(stack) + 1 BY <1>3 DEF Top
  <2>2. ci.func < base /\ base \in Int BY <1>3, <1>4, Sizes DEF base
  <2> HIDE DEF first
  <2> QED BY <2>1, <2>2, <1>1, <1>3
<1>6. Body(x) /\ x.cis = cis /\ x.jmps = jmps /\ Len(x.stack) <= x.size /\ x.stack = stack
  BY InnermostFacts
<1> HIDE DEF x, first
<1> QED BY <1>1, <1>2, <1>5, <1>6, ReturnKeeps

\* finishpcall puts the status in the first slot, or fails for want of one.
LEMMA PCallReturnsKeeps ==
  ASSUME ApiInv, PCallReturns
  PROVE  ApiInv'
<1> DEFINE grown == lua_checkstack(1)
           ok == IF ci.status = "ok" THEN 1 ELSE 0
           a == lua_pushboolean(stack, ok)
           s == IF grown.ok THEN lua_replace(a, 1) ELSE lua_settop(stack, 0) \o <<False, Str>>
           n == Len(stack)
           f == ci.func
           x == [Thread EXCEPT !.stack = s, !.size = grown.size]
           first == ci.func + 1
<1>1. /\ ~raising /\ ci.kind = "pcall" /\ ci.status \in {"ok", "failed"} /\ Returns(x, first)
  BY DEF PCallReturns
<1>2. /\ Thread \in Threads /\ Body(Thread) /\ Thread.stack = stack /\ Thread.cis = cis
      /\ Thread.jmps = jmps /\ Thread.errfunc = errfunc /\ Thread.size = size
      /\ stack \in Seq(Values) /\ n \in Nat /\ f \in Nat /\ ci.top \in Nat
      /\ size \in Nat /\ size \in 0 .. ERRORSTACKSIZE /\ n <= size /\ Last(cis) = ci
      /\ 1 <= f /\ f <= n /\ ci.top <= size
  BY InnermostFacts
<1>3. f + 1 <= n /\ f + 2 <= size
  <2>1. Runs(ci, n) BY <1>1 DEF ApiInv
  <2>2. f + 1 <= n BY <2>1, <1>1 DEF Runs
  <2>3. f + 2 <= ci.top BY <1>1, InnermostFacts DEF Nested
  <2> HIDE DEF n, f
  <2> QED BY <2>2, <2>3, <1>2
<1>4. grown.size \in 0 .. ERRORSTACKSIZE /\ size <= grown.size BY <1>2, CheckStackIs
<1>b. grown.size \in Nat BY <1>4, Sizes
<1>5. /\ s \in Seq(Values) /\ f <= Len(s) /\ Len(s) <= size
      /\ \A i \in 1 .. f : s[i] = stack[i]
  <2>1. CASE grown.ok
    <3>1. s = Front(moveto(a, Last(a), 1)) BY <2>1 DEF lua_replace
    <3> HIDE DEF s, grown
    <3>2. \E b \in {True, False} : a = Append(stack, b) BY DEF lua_pushboolean
    <3>3. PICK b \in {True, False} : a = Append(stack, b) BY <3>2
    <3> HIDE DEF a
    <3>4. b \in Values BY DEF Values
    <3>5. /\ a \in Seq(Values) /\ Len(a) = n + 1 /\ Last(a) = b
          /\ \A i \in 1 .. n : a[i] = stack[i]
      BY <3>3, <3>4, <1>2, AppendIs
    <3>6. moveto(a, Last(a), 1) = [a EXCEPT ![f + 1] = b]
      <4>1. ~(ci.func + 1 > Len(a)) BY <3>5, <1>2, <1>3
      <4> QED BY <4>1, <3>5 DEF moveto, index2addr
    <3> DEFINE m == [a EXCEPT ![f + 1] = b]
    <3> HIDE DEF n, f
    <3>7. m \in Seq(Values) /\ Len(m) = n + 1 /\ m # <<>> /\ \A i \in 1 .. f : m[i] = stack[i]
      <4>1. \A i \in 1 .. f : i \in 1 .. n /\ i # f + 1 /\ i \in 1 .. n + 1 BY <1>2, <1>3
      <4>2. m \in Seq(Values) /\ Len(m) = n + 1 BY <3>4, <3>5, <1>2
      <4>3. \A i \in 1 .. f : m[i] = a[i] BY <4>1, <3>5
      <4>4. m # <<>> BY <4>2, <1>2
      <4> QED BY <4>1, <4>2, <4>3, <4>4, <3>5
    <3> HIDE DEF m
    <3>8. /\ Front(m) \in Seq(Values) /\ Len(Front(m)) = n
          /\ \A i \in 1 .. n : Front(m)[i] = m[i]
      <4>1. /\ Front(m) \in Seq(Values) /\ Len(Front(m)) = Len(m) - 1
            /\ \A i \in 1 .. Len(m) - 1 : Front(m)[i] = m[i]
        BY <3>7, FrontIs
      <4>2. Len(m) - 1 = n BY <3>7, <1>2
      <4> QED BY <4>1, <4>2
    <3>9. s = Front(m) BY <3>1, <3>6 DEF m
    <3>10. \A i \in 1 .. f : i \in 1 .. n BY <1>2, <1>3
    <3> QED BY <3>7, <3>8, <3>9, <3>10, <1>2
  <2>2. CASE ~grown.ok
    <3> DEFINE r == lua_settop(stack, 0)
               e == <<False, Str>>
    <3>1. s = r \o e BY <2>2
    <3>2. r = [k \in 1 .. f + 0 |-> IF k <= Len(stack) THEN stack[k] ELSE Nil] BY DEF lua_settop
    <3> HIDE DEF s, r, e
    <3>3. f + 0 = f BY <1>2
    <3>4. r = [k \in 1 .. f |-> IF k <= n THEN stack[k] ELSE Nil] BY <3>2, <3>3
    <3> HIDE DEF n, f
    <3>5. \A k \in 1 .. f : k <= n /\ k \in 1 .. n BY <1>2
    <3>6. \A k \in 1 .. f : stack[k] \in Values BY <3>5, <1>2 DEF n
    <3>7. r \in Seq(Values) /\ Len(r) = f /\ \A i \in 1 .. f : r[i] = stack[i]
      BY <3>4, <3>5, <3>6, <1>2
    <3>8. e \in Seq(Values) /\ Len(e) = 2 BY DEF e, Values, Strings
    <3>9. /\ r \o e \in Seq(Values) /\ Len(r \o e) = f + 2
          /\ \A k \in 1 .. f : (r \o e)[k] = r[k]
      <4>1. \A q, w \in Seq(Values) : /\ q \o w \in Seq(Values) /\ Len(q \o w) = Len(q) + Len(w)
                                      /\ \A k \in 1 .. Len(q) : (q \o w)[k] = q[k]
        BY ConcatIs
      <4> DEFINE t == r \o e
      <4>2. t \in Seq(Values) /\ Len(t) = Len(r) + Len(e) /\ \A k \in 1 .. Len(r) : t[k] = r[k]
        BY <4>1, <3>7, <3>8
      <4> HIDE DEF t
      <4>3. t \in Seq(Values) /\ Len(t) = f + 2 /\ \A k \in 1 .. f : t[k] = r[k]
        BY <4>2, <3>7, <3>8
      <4> QED BY <4>3 DEF t
    <3> QED BY <3>1, <3>7, <3>9, <1>2, <1>3
  <2> QED BY <2>1, <2>2
<1> HIDE DEF s, grown
<1>6. /\ x \in Threads /\ x.stack = s /\ x.cis = cis /\ x.jmps = jmps
      /\ x.errfunc = errfunc /\ x.size = grown.size
  BY <1>2, <1>4, <1>5 DEF Threads
<1> HIDE DEF x
<1>7. ~InPcall(ci) BY <1>1 DEF InPcall
<1>8. Body(x)
  <2>1. Last(Thread.cis) = ci BY <1>2
  <2>2. f = ci.func OBVIOUS
  <2> HIDE DEF f, n
  <2>3. /\ ci.func <= f /\ f <= Len(Thread.stack) /\ f <= Len(x.stack)
        /\ Thread.size <= x.size
    BY <2>2, <1>2, <1>4, <1>5, <1>6 DEF n
  <2>4. \A i \in 1 .. f : x.stack[i] = Thread.stack[i] BY <1>2, <1>5, <1>6
  <2>5. f \in Nat BY <1>2
  <2> QED BY <2>1, <2>3, <2>4, <2>5, <1>2, <1>6, <1>7, StackChanged
<1>9. first \in Nat /\ ci.func < first /\ first <= Len(x.stack) + 1
  BY <1>2, <1>5, <1>6
<1>10. Len(x.stack) <= x.size BY <1>2, <1>4, <1>b, <1>5, <1>6
<1>11. ci.status # "calling" BY <1>1
<1> HIDE DEF first
<1> QED BY <1>1, <1>6, <1>8, <1>9, <1>10, <1>11, ReturnKeeps

-----------------------------------------------------------------------------
(* Errors that the innermost frame raises, and its calls *)

\* The message of an exception is raised in the Java function.
LEMMA JavaThrowsKeeps ==
  ASSUME ApiInv, NEW v, JavaThrows(v)
  PROVE  ApiInv'
<1>1. ~raising /\ ci.kind = "java" /\ ci.status = "run" /\ Raise(Thread, v) BY DEF JavaThrows
<1>2. v \in Values
  <2>1. ci.exc \in {None, "null"} \cup Strings BY InnermostFacts DEF CallInfo
  <2>2. /\ ci.exc = None => v \in {Str, Class}
        /\ ci.exc = "null" => v = Class
        /\ ci.exc \notin {None, "null"} => v = ci.exc
    BY DEF JavaThrows, None
  <2> QED BY <2>1, <2>2 DEF Values, Strings
<1>3. ci.at = 0 /\ Len(stack) + 1 <= ci.top
  <2>1. Runs(ci, Len(stack)) BY <1>1 DEF ApiInv
  <2> QED BY <2>1, <1>1 DEF Runs
<1>4. Len(stack) + 1 <= size BY <1>3, InnermostFacts
<1> DEFINE x == Thread
<1>5. Body(x) /\ x.stack = stack /\ Last(x.cis) = ci /\ x.size = size /\ globals \in Values
  BY InnermostFacts
<1> HIDE DEF x
<1>6. Faulting(x) BY <1>1, <1>3, <1>5 DEF Faulting, InPcall
<1>7. Len(x.stack) + 1 <= x.size BY <1>4, <1>5
<1>8. Raise(x, v) BY <1>1 DEF x
<1> QED BY <1>2, <1>5, <1>6, <1>7, <1>8, RaiseKeeps

\* A script raises an error.
LEMMA ScriptRaisesKeeps ==
  ASSUME ApiInv, NEW v, ScriptRaises(v)
  PROVE  ApiInv'
<1>1. ~raising /\ ci.kind = "script" /\ ci.status = "run" /\ Raise(Thread, v)
  BY DEF ScriptRaises, ScriptRuns
<1>2. v \in Values BY DEF ScriptRaises, Values, Strings
<1>3. ci.at = 0 /\ Len(stack) + 1 <= ci.top
  <2>1. Runs(ci, Len(stack)) BY <1>1 DEF ApiInv
  <2> QED BY <2>1, <1>1 DEF Runs
<1>4. Len(stack) + 1 <= size BY <1>3, InnermostFacts
<1> DEFINE x == Thread
<1>5. Body(x) /\ x.stack = stack /\ Last(x.cis) = ci /\ x.size = size /\ globals \in Values
  BY InnermostFacts
<1> HIDE DEF x
<1>6. Faulting(x)
  <2>1. ci.top <= Len(stack) + 1 + MaxStackSize BY <1>1 DEF ApiInv, Runs
  <2> QED BY <2>1, <1>1, <1>3, <1>5 DEF Faulting, InPcall
<1>7. Len(x.stack) + 1 <= x.size BY <1>4, <1>5
<1>8. Raise(x, v) BY <1>1 DEF x
<1> QED BY <1>2, <1>5, <1>6, <1>7, <1>8, RaiseKeeps

\* What lua_pcallk makes of the state: the innermost frame becomes d.
Waiting(s, d, func) ==
    [stack |-> s, cis |-> Append(Front(cis), d), errfunc |-> HandlerOf(d), size |-> size,
     jmps |-> Append(jmps, [ci |-> Len(cis), oldtop |-> func, errfunc |-> errfunc])]

\* Such a state is a thread.
LEMMA WaitingIs ==
  ASSUME ApiInv, NEW s \in Seq(Values), NEW d \in CallInfo, NEW func \in Nat
  PROVE  LET y == Waiting(s, d, func) IN
         /\ y \in Threads /\ y.stack = s /\ y.cis = Append(Front(cis), d)
         /\ y.errfunc = HandlerOf(d) /\ y.size = size /\ Last(y.cis) = d
         /\ \E j \in Catcher : /\ y.jmps = Append(jmps, j)
                               /\ j.ci = Len(cis) /\ j.oldtop = func /\ j.errfunc = errfunc
<1> DEFINE j == [ci |-> Len(cis), oldtop |-> func, errfunc |-> errfunc]
           c == Append(Front(cis), d)
           q == Append(jmps, j)
<1>1. /\ cis \in Seq(CallInfo) /\ cis # <<>> /\ Len(cis) \in Nat
      /\ jmps \in Seq(Catcher) /\ errfunc \in Nat /\ size \in 0 .. ERRORSTACKSIZE
  BY InnermostFacts
<1>2. j \in Catcher /\ j.ci = Len(cis) /\ j.oldtop = func /\ j.errfunc = errfunc
  BY <1>1 DEF Catcher
<1> HIDE DEF j
<1>3. c \in Seq(CallInfo) /\ Last(c) = d BY <1>1, AgainIs
<1>4. q \in Seq(Catcher) BY <1>1, <1>2
<1>5. HandlerOf(d) \in Nat BY CallInfoTypes
<1>6. Waiting(s, d, func) = [stack |-> s, cis |-> c, errfunc |-> HandlerOf(d), size |-> size, jmps |-> q]
  BY DEF Waiting, j
<1> HIDE DEF c, q
<1>7. LET y == Waiting(s, d, func) IN
      /\ y \in Threads /\ y.stack = s /\ y.cis = c /\ y.errfunc = HandlerOf(d) /\ y.size = size
      /\ y.jmps = q
  BY <1>1, <1>3, <1>4, <1>5, <1>6 DEF Threads
<1> QED BY <1>2, <1>3, <1>7 DEF c, q

\* It may: the innermost frame becomes d, and s the stack, with a function in
\* it and the results there is room for.
Waitable(s, d, func, nres) ==
    /\ d.kind = ci.kind /\ d.func = ci.func /\ d.nres = ci.nres /\ d.top = ci.top
    /\ d.exc = ci.exc /\ d.status = "calling" /\ func = Callee(d)
    /\ ci.func < d.at /\ ci.func + 1 < func /\ func < ci.top /\ func <= Len(s)
    /\ Len(s) + 1 <= size
    /\ nres # LUA_MULTRET => func + nres <= ci.top
    /\ ci.func <= Len(s) /\ \A i \in 1 .. ci.func : s[i] = stack[i]
    /\ ci.kind \in JavaKinds => d.at <= Len(s) /\ s[d.at] = Handler

\* lua_pcallk suspends the innermost frame, which becomes d, and the function
\* can be called.
LEMMA PcallkWaits ==
  ASSUME ApiInv, ~raising, ci.status = "run", ci.kind # "script", NEW s \in Seq(Values),
         NEW nres \in Nat \cup {LUA_MULTRET}, NEW d \in CallInfo, NEW func \in Nat,
         Waitable(s, d, func, nres)
  PROVE  LET y == Waiting(s, d, func) IN
         /\ Body(y) /\ Callable(y, "java", func, nres) /\ func \in Nat \ {0}
         /\ y \in Threads /\ y.stack = s /\ y.cis = Append(Front(cis), d) /\ y.size = size
         /\ Last(y.cis) = d
<1> DEFINE x == Thread
           y == Waiting(s, d, func)
<1>0. /\ d.kind = ci.kind /\ d.func = ci.func /\ d.nres = ci.nres /\ d.top = ci.top
      /\ d.status = "calling" /\ func = Callee(d)
      /\ ci.func < d.at /\ ci.func + 1 < func /\ func < ci.top /\ func <= Len(s)
      /\ Len(s) + 1 <= size
      /\ nres # LUA_MULTRET => func + nres <= ci.top
      /\ ci.func <= Len(s) /\ \A i \in 1 .. ci.func : s[i] = stack[i]
      /\ ci.kind \in JavaKinds => d.at <= Len(s) /\ s[d.at] = Handler
  BY DEF Waitable
<1>2. /\ x \in Threads /\ Body(x) /\ x.stack = stack /\ x.cis = cis
      /\ x.jmps = jmps /\ x.errfunc = errfunc /\ x.size = size
      /\ ci = Last(cis) /\ ci.func \in Nat /\ ci.top \in Nat /\ size \in Nat /\ globals \in Values
  BY InnermostFacts
<1>3. HandlerOf(d) \in Nat /\ d.at \in Nat BY CallInfoTypes
<1>4. InPcall(d) BY <1>0 DEF InPcall
<1>5. /\ y \in Threads /\ y.stack = s /\ y.cis = Append(Front(cis), d)
      /\ y.errfunc = HandlerOf(d) /\ y.size = size /\ Last(y.cis) = d
      /\ \E j \in Catcher : /\ y.jmps = Append(jmps, j)
                            /\ j.ci = Len(cis) /\ j.oldtop = func /\ j.errfunc = errfunc
  BY WaitingIs
<1>6. PICK j \in Catcher : /\ y.jmps = Append(jmps, j)
                           /\ j.ci = Len(cis) /\ j.oldtop = func /\ j.errfunc = errfunc
  BY <1>5
<1> HIDE DEF x, y
<1>7. Body(y)
  <2>1. PICK c : c = ci OBVIOUS
  <2>2. c = Last(x.cis) /\ d.kind = c.kind /\ d.func = c.func /\ d.nres = c.nres /\ d.top = c.top
        /\ c.status # "calling"
    BY <2>1, <1>0, <1>2
  <2>3. y.cis = Append(Front(x.cis), d) /\ x.size <= y.size /\ y.errfunc = HandlerOf(d)
    BY <1>2, <1>5
  <2>4. y.jmps = Append(x.jmps, j) /\ j.ci = Len(x.cis) /\ j.oldtop = Callee(d)
        /\ j.errfunc = x.errfunc
    BY <1>0, <1>2, <1>6
  <2>5. d.func < d.at /\ d.func + 1 < Callee(d) /\ Callee(d) < d.top BY <1>0
  <2>6. c.func <= Len(y.stack) /\ \A i \in 1 .. c.func : y.stack[i] = x.stack[i]
    BY <2>1, <1>0, <1>2, <1>5
  <2>7. d.kind \in JavaKinds => d.at <= Len(y.stack) /\ y.stack[d.at] = Handler
    BY <1>0, <1>5
  <2>8. x \in Threads /\ Body(x) /\ y \in Threads BY <1>2, <1>5
  <2> QED BY <2>2, <2>3, <2>4, <2>5, <2>6, <2>7, <2>8, <1>4, Suspended
<1>8. Callable(y, "java", func, nres)
  <2>1. d.at # 0 /\ d.at <= func
    <3>1. Callee(d) = d.at \/ Callee(d) = d.at + 1 BY DEF Callee
    <3>2. d.at <= d.at /\ d.at <= d.at + 1 BY <1>3
    <3>3. d.at <= func BY <3>1, <3>2, <1>0
    <3>4. d.at # 0 BY <1>0, <1>2, <1>3
    <3> QED BY <3>3, <3>4
  <2>2. func <= func OBVIOUS
  <2>3. ~(d.kind = "script") BY <1>0
  <2> QED BY <2>1, <2>2, <2>3, <1>0, <1>5 DEF Callable
<1>9. func \in Nat \ {0} BY <1>0, <1>2
<1> QED BY <1>5, <1>7, <1>8, <1>9 DEF y

\* It keeps the invariant.
LEMMA PcallkKeeps ==
  ASSUME ApiInv, ~raising, ci.status = "run", ci.kind # "script", NEW s \in Seq(Values),
         NEW nres \in Nat \cup {LUA_MULTRET}, NEW d \in CallInfo, NEW func \in Nat,
         Waitable(s, d, func, nres), luaD_precall(Waiting(s, d, func), func, nres)
  PROVE  ApiInv'
<1> DEFINE y == Waiting(s, d, func)
<1>1. luaD_precall(y, func, nres) OBVIOUS
<1>2. /\ Body(y) /\ Callable(y, "java", func, nres) /\ func \in Nat \ {0}
      /\ y.stack = s /\ y.size = size /\ Last(y.cis) = d
  BY PcallkWaits
<1> HIDE DEF y
<1>3. globals \in Values BY InnermostFacts
<1>4. Last(y.cis).status = "calling" /\ Len(y.stack) + 1 <= y.size BY <1>2 DEF Waitable
<1> QED BY <1>1, <1>2, <1>3, <1>4, PrecallKeeps

\* luaPcall puts its handler below the function and calls it.
LEMMA PcallWaits ==
  ASSUME ApiInv, NEW nargs \in Nat, NEW nres \in Nat \cup {LUA_MULTRET}, luaPcall(nargs, nres)
  PROVE  /\ ~raising /\ ci.status = "run" /\ ci.kind # "script"
         /\ \E s \in Seq(Values), d \in CallInfo, p \in Nat :
               /\ p = Len(stack) - nargs /\ ci.func < p /\ p <= Len(stack) /\ d.at = p
               /\ Len(s) = Len(stack) + 1
               /\ \A k \in 1 .. p - 1 : s[k] = stack[k]
               /\ \A k \in p .. Len(stack) : s[k + 1] = stack[k]
               /\ p + 1 \in Nat /\ Waitable(s, d, p + 1, nres)
               /\ luaD_precall(Waiting(s, d, p + 1), p + 1, nres)
<1> DEFINE n == Len(stack)
           f == ci.func
           b == lua_gettop - nargs
           p == n - nargs
           a == lua_pushcclosure(stack, Handler)
           s == lua_insert(a, b)
           d == [ci EXCEPT !.status = "calling", !.at = p]
<1>1. /\ JavaRuns /\ Has(nargs + 1) /\ Room(1) /\ (nres # LUA_MULTRET => Room(nres - nargs))
      /\ lua_pcallk(s, nargs, nres, index2addr(s, b), index2addr(s, b))
  BY DEF luaPcall
<1>2. /\ stack \in Seq(Values) /\ n \in Nat /\ f \in Nat /\ ci.top \in Nat /\ size \in Nat
      /\ lua_gettop = n - f /\ ci.top <= size /\ ci \in CallInfo /\ f >= 1
      /\ ci.kind \in JavaKinds /\ ci.kind # "pcall" /\ ci.kind # "script" /\ ci.status = "run" /\ ~raising
  BY <1>1, JavaFacts
<1>3. nargs + 1 <= n - f /\ n + 2 < ci.top BY <1>1, <1>2 DEF Has, Room, Top
<1>4. nres # LUA_MULTRET => n + 1 + (nres - nargs) < ci.top BY <1>1 DEF Room, Top
<1>5. p \in Nat /\ f < p /\ p <= n /\ b > 0 /\ f + b = p BY <1>2, <1>3
<1>6. /\ a \in Seq(Values) /\ Len(a) = n + 1 /\ Last(a) = Handler
      /\ \A i \in 1 .. n : a[i] = stack[i]
  <2>1. Handler \in Values BY DEF Values
  <2>2. a = Append(stack, Handler) BY DEF lua_pushcclosure
  <2> HIDE DEF a
  <2> QED BY <2>1, <2>2, <1>2, AppendIs
<1> HIDE DEF a, f, n
<1>7. index2addr(a, b) = p
  <2>1. ~(ci.func + b > Len(a)) /\ ci.func + b = p BY <1>2, <1>5, <1>6 DEF f
  <2> QED BY <2>1, <1>5 DEF index2addr
<1>8. s = [k \in 1 .. n + 1 |-> IF k > p THEN a[k - 1] ELSE IF k = p THEN Handler ELSE a[k]]
  BY <1>6, <1>7 DEF lua_insert
<1> HIDE DEF s, p
<1>9. /\ s \in Seq(Values) /\ Len(s) = n + 1 /\ s[p] = Handler
      /\ \A i \in 1 .. f : s[i] = stack[i]
  <2>1. \A k \in 1 .. n + 1 : (IF k > p THEN a[k - 1] ELSE IF k = p THEN Handler ELSE a[k]) \in Values
    BY <1>2, <1>5, <1>6 DEF Values
  <2>2. n + 1 \in Nat /\ p \in 1 .. n + 1 /\ ~(p > p) BY <1>2, <1>5
  <2>3. s \in Seq(Values) /\ Len(s) = n + 1 BY <1>8, <2>1, <2>2
  <2>4. s[p] = Handler BY <1>8, <2>2
  <2>5. \A i \in 1 .. f : i \in 1 .. n /\ i \in 1 .. n + 1 /\ i < p /\ ~(i > p) /\ i # p BY <1>2, <1>5
  <2>6. \A i \in 1 .. f : s[i] = a[i] BY <1>8, <2>5
  <2> QED BY <2>3, <2>4, <2>5, <2>6, <1>6
<1>10. index2addr(s, b) = p
  <2>1. ~(ci.func + b > Len(s)) /\ ci.func + b = p BY <1>2, <1>5, <1>9 DEF f
  <2> HIDE DEF b
  <2>2. b > 0 BY <1>5
  <2> QED BY <2>1, <2>2 DEF index2addr
<1>11. lua_pcallk(s, nargs, nres, p, p) BY <1>1, <1>10
<1> DEFINE func == p + 1
<1>12. /\ func \in Nat /\ func = Len(s) - nargs /\ f + 1 < func /\ func < ci.top
       /\ Len(s) + 1 <= size /\ f <= Len(s) /\ p <= Len(s)
  BY <1>2, <1>3, <1>5, <1>9 DEF p
<1>13. Callee(d) = func /\ HandlerOf(d) = p
  <2>1. d.kind = ci.kind /\ d.at = p BY <1>2 DEF CallInfo
  <2> HIDE DEF d
  <2> QED BY <2>1, <1>2 DEF Callee, HandlerOf
<1>14. nres # LUA_MULTRET => func + nres <= ci.top
  <2>1. ASSUME nres # LUA_MULTRET PROVE func + nres <= ci.top
    <3>1. nres \in Nat /\ n + 1 + (nres - nargs) < ci.top BY <1>4, <2>1
    <3> QED BY <3>1, <1>2 DEF p
  <2> QED BY <2>1
<1>15. /\ ci.func < p /\ ci.func + 1 < func /\ ci.func <= Len(s)
       /\ \A i \in 1 .. ci.func : s[i] = stack[i]
  BY <1>5, <1>9, <1>12 DEF f
<1>16. /\ d \in CallInfo /\ d.kind = ci.kind /\ d.func = ci.func /\ d.nres = ci.nres
       /\ d.top = ci.top /\ d.status = "calling" /\ d.at = p /\ d.exc = ci.exc
  BY <1>2, <1>5 DEF CallInfo
<1>17. luaD_precall(Waiting(s, d, func), func, nres)
  BY <1>11, <1>12, <1>13 DEF lua_pcallk, Waiting
<1>18. func <= Len(s) BY <1>2, <1>3, <1>5, <1>9, <1>12
<1>20. \A k \in 1 .. p - 1 : s[k] = stack[k]
  <2>1. \A k \in 1 .. p - 1 : k \in 1 .. n /\ k \in 1 .. n + 1 /\ ~(k > p) /\ k # p BY <1>2, <1>5
  <2>2. \A k \in 1 .. p - 1 : s[k] = a[k] BY <2>1, <1>8
  <2> QED BY <2>1, <2>2, <1>6
<1>21. \A k \in p .. n : s[k + 1] = stack[k]
  <2>1. \A k \in p .. n : k \in 1 .. n /\ k + 1 \in 1 .. n + 1 /\ k + 1 > p /\ k + 1 - 1 = k
    BY <1>2, <1>5
  <2>2. \A k \in p .. n : s[k + 1] = a[k] BY <2>1, <1>8
  <2> QED BY <2>1, <2>2, <1>6
<1> HIDE DEF func, d
<1>19. s[d.at] = Handler /\ d.at <= Len(s) /\ ci.func < d.at BY <1>9, <1>12, <1>15, <1>16
<1>22. Waitable(s, d, func, nres)
  BY <1>9, <1>12, <1>13, <1>14, <1>15, <1>16, <1>18, <1>19 DEF Waitable
<1>23. /\ p = Len(stack) - nargs /\ ci.func < p /\ p <= Len(stack) /\ d.at = p /\ p \in Nat
       /\ Len(s) = Len(stack) + 1
       /\ \A k \in 1 .. p - 1 : s[k] = stack[k]
       /\ \A k \in p .. Len(stack) : s[k + 1] = stack[k]
       /\ p + 1 \in Nat /\ Waitable(s, d, p + 1, nres)
       /\ luaD_precall(Waiting(s, d, p + 1), p + 1, nres)
  BY <1>5, <1>9, <1>12, <1>16, <1>17, <1>20, <1>21, <1>22 DEF p, n, f, func
<1> QED BY <1>2, <1>9, <1>16, <1>23

\* luaPcall keeps the invariant.
LEMMA PcallKeeps ==
  ASSUME ApiInv, NEW nargs \in Nat, NEW nres \in Nat \cup {LUA_MULTRET}, luaPcall(nargs, nres)
  PROVE  ApiInv'
<1>1. ~raising /\ ci.status = "run" /\ ci.kind # "script" BY PcallWaits
<1>2. PICK s \in Seq(Values), d \in CallInfo, p \in Nat :
        /\ p + 1 \in Nat /\ Waitable(s, d, p + 1, nres)
        /\ luaD_precall(Waiting(s, d, p + 1), p + 1, nres)
  BY PcallWaits
<1>3. PICK func \in Nat : func = p + 1 BY <1>2
<1>4. Waitable(s, d, func, nres) /\ luaD_precall(Waiting(s, d, func), func, nres) BY <1>2, <1>3
<1> QED BY <1>1, <1>4, PcallkKeeps

\* luaB_pcall puts a place for its own first result below the function and
\* calls it.
LEMMA PCallWaits ==
  ASSUME ApiInv, PCallCalls, lua_gettop # 0
  PROVE  /\ ~raising /\ ci.status = "run" /\ ci.kind # "script"
         /\ \E s \in Seq(Values), d \in CallInfo, func \in Nat :
               /\ func = ci.func + 2 /\ d.at = func /\ ci.func + 1 <= Len(stack)
               /\ Len(s) = Len(stack) + 1 /\ s[ci.func + 1] = Nil
               /\ \A k \in ci.func + 1 .. Len(stack) : s[k + 1] = stack[k]
               /\ Waitable(s, d, func, LUA_MULTRET)
               /\ luaD_precall(Waiting(s, d, func), func, LUA_MULTRET)
<1> DEFINE n == Len(stack)
           f == ci.func
           a == lua_pushnil(stack)
           s == lua_insert(a, 1)
           func == f + 2
           d == [ci EXCEPT !.status = "calling", !.at = func]
<1>1. ~raising /\ ci.kind = "pcall" /\ ci.status = "run" BY DEF PCallCalls
<1>2. /\ Body(Thread) /\ Thread.stack = stack /\ Last(Thread.cis) = ci /\ Thread.size = size
      /\ stack \in Seq(Values) /\ n \in Nat /\ f \in Nat /\ ci.top \in Nat /\ size \in Nat
      /\ 1 <= f /\ f <= n /\ ci.top <= size /\ ci \in CallInfo /\ globals \in Values
  BY InnermostFacts
<1>3. ci.at = 0 /\ n + 1 + LUA_MINSTACK <= ci.top
  <2>1. Runs(ci, n) BY <1>1 DEF ApiInv
  <2> QED BY <2>1, <1>1 DEF Runs
<1>4. n + 2 <= ci.top /\ n + 2 <= size BY <1>2, <1>3, Sizes
<1>5. lua_gettop = n - f BY <1>2 DEF lua_gettop, Top
<1>6. lua_pcallk(s, lua_gettop - 1, LUA_MULTRET, 0, func) BY DEF PCallCalls
<1>7. f + 1 <= n BY <1>2, <1>5
<1>8. /\ a \in Seq(Values) /\ Len(a) = n + 1 /\ Last(a) = Nil
      /\ \A i \in 1 .. n : a[i] = stack[i]
  <2>1. Nil \in Values BY DEF Values
  <2>2. a = Append(stack, Nil) BY DEF lua_pushnil
  <2> HIDE DEF a
  <2> QED BY <2>1, <2>2, <1>2, AppendIs
<1> HIDE DEF a, n, f
<1>9. index2addr(a, 1) = f + 1
  <2>1. ~(ci.func + 1 > Len(a)) BY <1>2, <1>7, <1>8 DEF f
  <2> QED BY <2>1 DEF index2addr, f
<1>10. s = [k \in 1 .. n + 1 |-> IF k > f + 1 THEN a[k - 1] ELSE IF k = f + 1 THEN Nil ELSE a[k]]
  BY <1>8, <1>9 DEF lua_insert
<1> HIDE DEF s
<1>11. /\ s \in Seq(Values) /\ Len(s) = n + 1 /\ s[f + 1] = Nil
       /\ \A i \in 1 .. f : s[i] = stack[i]
       /\ \A k \in f + 1 .. n : s[k + 1] = stack[k]
  <2>1. \A k \in 1 .. n + 1 : (IF k > f + 1 THEN a[k - 1] ELSE IF k = f + 1 THEN Nil ELSE a[k]) \in Values
    BY <1>2, <1>7, <1>8 DEF Values
  <2>2. n + 1 \in Nat BY <1>2
  <2>3. s \in Seq(Values) /\ Len(s) = n + 1 BY <1>10, <2>1, <2>2
  <2>4. \A i \in 1 .. f : i \in 1 .. n /\ i \in 1 .. n + 1 /\ ~(i > f + 1) /\ i # f + 1 BY <1>2, <1>7
  <2>5. \A i \in 1 .. f : s[i] = a[i] BY <1>10, <2>4
  <2>6. f + 1 \in 1 .. n + 1 /\ ~(f + 1 > f + 1) BY <1>2, <1>7
  <2>7. s[f + 1] = Nil BY <1>10, <2>6
  <2>8. \A k \in f + 1 .. n : k \in 1 .. n /\ k + 1 \in 1 .. n + 1 /\ k + 1 > f + 1 /\ k + 1 - 1 = k
    BY <1>2
  <2>9. \A k \in f + 1 .. n : s[k + 1] = a[k] BY <2>8, <1>10
  <2> QED BY <2>3, <2>4, <2>5, <2>7, <2>8, <2>9, <1>8
<1>12. /\ func \in Nat /\ func = Len(s) - (lua_gettop - 1) /\ f + 1 < func /\ func < ci.top
       /\ Len(s) + 1 <= size /\ f <= Len(s) /\ func <= Len(s) /\ f < func
  BY <1>2, <1>3, <1>4, <1>5, <1>7, <1>11, Sizes
<1>13. /\ d \in CallInfo /\ d.kind = ci.kind /\ d.func = ci.func /\ d.nres = ci.nres
       /\ d.top = ci.top /\ d.status = "calling" /\ d.at = func /\ d.exc = ci.exc
  BY <1>2, <1>12 DEF CallInfo
<1>14. Callee(d) = func /\ HandlerOf(d) = 0
  <2> HIDE DEF d, func
  <2> QED BY <1>1, <1>13 DEF Callee, HandlerOf
<1>15. luaD_precall(Waiting(s, d, func), func, LUA_MULTRET)
  BY <1>6, <1>12, <1>14 DEF lua_pcallk, Waiting
<1>16. func = ci.func + 2 BY DEF f
<1> HIDE DEF d, func
<1>17. /\ ci.func < d.at /\ ci.func + 1 < func /\ ci.func <= Len(s)
       /\ \A i \in 1 .. ci.func : s[i] = stack[i]
  BY <1>11, <1>12, <1>13 DEF f
<1>18. ~(ci.kind \in JavaKinds) BY <1>1 DEF JavaKinds
<1>19. Waitable(s, d, func, LUA_MULTRET)
  BY <1>12, <1>13, <1>14, <1>17, <1>18 DEF Waitable
<1>20. /\ ci.func + 1 <= Len(stack) /\ Len(s) = Len(stack) + 1 /\ s[ci.func + 1] = Nil
       /\ \A k \in ci.func + 1 .. Len(stack) : s[k + 1] = stack[k]
  BY <1>7, <1>11 DEF f, n
<1>21. ci.kind # "script" BY <1>1
<1> QED BY <1>1, <1>11, <1>12, <1>13, <1>15, <1>16, <1>19, <1>20, <1>21

\* luaB_pcall calls its first argument with the others, or has none.
LEMMA PCallCallsKeeps ==
  ASSUME ApiInv, PCallCalls
  PROVE  ApiInv'
<1> DEFINE x == Thread
<1>1. ~raising /\ ci.kind = "pcall" /\ ci.status = "run" BY DEF PCallCalls
<1>2. CASE lua_gettop = 0
  <2>1. /\ Body(x) /\ x.stack = stack /\ Last(x.cis) = ci /\ x.size = size /\ globals \in Values
        /\ Len(stack) \in Nat /\ ci.top \in Nat /\ size \in Nat /\ ci.top <= size
    BY InnermostFacts
  <2>2. Raise(x, Str) /\ Str \in Values BY <1>2 DEF PCallCalls, Values, Strings
  <2> HIDE DEF x
  <2>3. ci.at = 0 /\ Len(stack) + 1 + LUA_MINSTACK <= ci.top
    <3>1. Runs(ci, Len(stack)) BY <1>1 DEF ApiInv
    <3> QED BY <3>1, <1>1 DEF Runs
  <2>4. Faulting(x) BY <1>1, <2>1, <2>3 DEF Faulting, InPcall
  <2>5. Len(x.stack) + 1 <= x.size BY <2>1, <2>3, Sizes
  <2> QED BY <2>1, <2>2, <2>4, <2>5, RaiseKeeps
<1>3. CASE lua_gettop # 0
  <2>1. PICK s \in Seq(Values), d \in CallInfo, func \in Nat :
          /\ Waitable(s, d, func, LUA_MULTRET)
          /\ luaD_precall(Waiting(s, d, func), func, LUA_MULTRET)
    BY <1>3, PCallWaits
  <2>2. LUA_MULTRET \in Nat \cup {LUA_MULTRET} OBVIOUS
  <2>3. ci.kind # "script" BY <1>1
  <2> QED BY <1>1, <2>1, <2>2, <2>3, PcallkKeeps
<1> QED BY <1>2, <1>3

-----------------------------------------------------------------------------
(* Scripts *)

\* A script uses a register more.
LEMMA ScriptLoadsKeeps ==
  ASSUME ApiInv, NEW v, ScriptLoads(v)
  PROVE  ApiInv'
<1> DEFINE n == Len(stack)
           x == Thread
           s == Append(stack, v)
           y == [x EXCEPT !.stack = s]
<1>1. ~raising /\ ci.kind = "script" /\ ci.status = "run" /\ Top < ci.top /\ v \in {Num, globals, vararg1}
  BY DEF ScriptLoads, ScriptRuns
<1>2. /\ x \in Threads /\ Body(x) /\ Nested(x) /\ x.stack = stack /\ x.cis = cis
      /\ x.jmps = jmps /\ x.errfunc = errfunc /\ x.size = size /\ ci = Last(cis)
      /\ stack \in Seq(Values) /\ n \in Nat /\ ci.func \in Nat /\ ci.top \in Nat /\ size \in Nat
      /\ 1 <= ci.func /\ ci.func <= n /\ ci.top <= size /\ ci \in CallInfo /\ globals \in Values
  BY InnermostFacts
<1>3. Runs(ci, n) BY <1>1 DEF ApiInv
<1>4. ci.top <= n + 1 + MaxStackSize BY <1>1, <1>3 DEF Runs
<1>5. v \in Values
  <2>1. CASE ci.func + 1 < base
    <3>1. ci.func + 1 \in 1 .. n BY <2>1, <1>2, <1>4, Sizes DEF base
    <3>2. vararg1 = stack[ci.func + 1] BY <2>1 DEF vararg1
    <3>3. stack[ci.func + 1] \in Values BY <3>1, <1>2
    <3> QED BY <3>2, <3>3, <1>1, <1>2 DEF Values
  <2>2. CASE ~(ci.func + 1 < base)
    <3>1. vararg1 = Nil BY <2>2 DEF vararg1
    <3> QED BY <3>1, <1>1, <1>2 DEF Values
  <2> QED BY <2>1, <2>2
<1>6. s \in Seq(Values) /\ Len(s) = n + 1 /\ \A i \in 1 .. n : s[i] = stack[i]
  BY <1>2, <1>5, AppendIs
<1>7. stack' = s /\ UNCHANGED <<size, cis, jmps, errfunc, raising, globals>> BY DEF ScriptLoads
<1> HIDE DEF x, s
<1>8. /\ y \in Threads /\ y.stack = s /\ y.cis = cis /\ y.jmps = jmps /\ y.errfunc = errfunc
      /\ y.size = size
  BY <1>2, <1>6 DEF Threads
<1> HIDE DEF y
<1>9. Body(y)
  <2>1. ~InPcall(ci) BY <1>1 DEF InPcall
  <2>2. /\ n \in Nat /\ Last(x.cis).func <= n /\ n <= Len(x.stack) /\ n <= Len(y.stack)
        /\ \A i \in 1 .. n : y.stack[i] = x.stack[i]
        /\ ~InPcall(Last(x.cis)) /\ x.size <= y.size
    BY <2>1, <1>2, <1>6, <1>8
  <2> HIDE DEF n
  <2> QED BY <2>2, <1>2, <1>8, StackChanged
<1>10. Runs(ci, Len(s))
  <2>1. Len(s) + 1 <= ci.top /\ ci.top <= Len(s) + 1 + MaxStackSize
    BY <1>1, <1>2, <1>4, <1>6, Sizes DEF Top
  <2> QED BY <2>1, <1>1, <1>3 DEF Runs
<1>11. Len(s) <= size BY <1>1, <1>2, <1>6 DEF Top
<1>12. Last(y.cis) = ci /\ raising' = FALSE /\ globals' \in Values BY <1>1, <1>2, <1>7, <1>8 DEF ApiInv
<1> QED BY <1>7, <1>8, <1>9, <1>10, <1>11, <1>12, StepTo

\* OP_CALL of a script suspends its frame, and the function can be called.
LEMMA ScriptWaits ==
  ASSUME ApiInv, NEW nargs \in Nat, NEW nres \in Nat, ScriptCalls(nargs, nres)
  PROVE  /\ ~raising /\ ci.kind = "script" /\ ci.status = "run" /\ Len(stack) + 1 <= size
         /\ \E y \in Threads, d \in CallInfo, ra \in Nat \ {0} :
               /\ ra = Len(stack) - nargs /\ ci.func < ra /\ ra <= Len(stack) /\ d.at = ra
               /\ d.kind = ci.kind /\ d.func = ci.func /\ d.nres = ci.nres
               /\ d.status = "calling" /\ d.exc = ci.exc
               /\ y.stack = stack /\ y.cis = Append(Front(cis), d) /\ y.size = size
               /\ Body(y) /\ Last(y.cis) = d /\ Callable(y, "java", ra, nres)
               /\ luaD_precall(y, ra, nres)
<1> DEFINE n == Len(stack)
           x == Thread
           ra == Top - nargs - 1
           d == [ci EXCEPT !.status = "calling", !.at = ra]
           y == InCi(x, d)
<1>1. /\ ~raising /\ ci.kind = "script" /\ ci.status = "run" /\ ra >= base /\ ra + nres <= ci.top
      /\ luaD_precall(y, ra, nres)
  BY DEF ScriptCalls, ScriptRuns
<1>2. /\ x \in Threads /\ Body(x) /\ Nested(x) /\ x.stack = stack /\ x.cis = cis
      /\ x.jmps = jmps /\ x.errfunc = errfunc /\ x.size = size /\ ci = Last(cis)
      /\ n \in Nat /\ ci.func \in Nat /\ ci.top \in Nat /\ size \in Nat
      /\ 1 <= ci.func /\ ci.top <= size /\ ci \in CallInfo /\ globals \in Values
      /\ cis \in Seq(CallInfo) /\ cis # <<>> /\ Len(cis) \in DOMAIN cis /\ ci = cis[Len(cis)]
  BY InnermostFacts
<1>3. n + 1 <= ci.top
  <2>1. Runs(ci, n) BY <1>1 DEF ApiInv
  <2> QED BY <2>1 DEF Runs
<1>4. ci.func + MaxStackSize < ci.top BY <1>1, <1>2 DEF Nested
<1>5. /\ ra \in Nat \ {0} /\ ci.func < ra /\ ra <= n /\ ci.top <= ra + MaxStackSize
  <2>1. ra = n - nargs /\ ci.top - MaxStackSize <= ra BY <1>1, <1>2 DEF Top, base
  <2> HIDE DEF ra
  <2>2. n \in Nat /\ nargs \in Nat /\ ci.func \in Nat /\ ci.top \in Nat BY <1>2
  <2>3. ci.func < ra /\ ci.top <= ra + MaxStackSize BY <2>1, <2>2, <1>4, Sizes
  <2>4. ra <= n /\ ra \in Nat \ {0} BY <2>1, <2>2, <2>3
  <2> QED BY <2>3, <2>4
<1>a. ra = n - nargs BY <1>2 DEF Top
<1> HIDE DEF ra
<1>6. /\ d \in CallInfo /\ d.kind = ci.kind /\ d.func = ci.func /\ d.nres = ci.nres
      /\ d.top = ci.top /\ d.status = "calling" /\ d.at = ra /\ d.exc = ci.exc
  BY <1>2, <1>5 DEF CallInfo
<1> HIDE DEF d, x
<1>7. Append(Front(cis), d) \in Seq(CallInfo) /\ Last(Append(Front(cis), d)) = d
  BY <1>2, <1>6, AgainIs
<1>8. /\ y \in Threads /\ y.stack = stack /\ y.cis = Append(Front(cis), d) /\ y.jmps = jmps
      /\ y.errfunc = errfunc /\ y.size = size
  BY <1>2, <1>7 DEF Threads, InCi
<1> HIDE DEF y
<1>9. Body(y)
  <2>1. PICK c : c = ci OBVIOUS
  <2>2. ~InPcall(c) /\ ~InPcall(d) BY <2>1, <1>1, <1>6 DEF InPcall
  <2>3. c = Last(x.cis) /\ y.cis = Append(Front(x.cis), d) /\ y.stack = x.stack /\ y.jmps = x.jmps
        /\ y.errfunc = x.errfunc /\ x.size <= y.size /\ d.kind = c.kind /\ d.func = c.func
        /\ d.nres = c.nres /\ d.func < d.at /\ c.top <= d.top /\ d.top <= y.size
    BY <2>1, <1>2, <1>5, <1>6, <1>8
  <2> QED BY <2>2, <2>3, <1>2, <1>6, <1>8, TopChanged
<1>10. Last(y.cis) = d BY <1>7, <1>8
<1>11. Callable(y, "java", ra, nres)
  <2>1. ra <= ra /\ ra # 0 /\ nres # LUA_MULTRET BY <1>5 DEF LUA_MULTRET
  <2>2. ~InPcall(d) BY <1>1, <1>6 DEF InPcall
  <2> QED BY <2>1, <2>2, <1>1, <1>5, <1>6, <1>8, <1>10 DEF Callable
<1>12. Len(stack) + 1 <= size BY <1>2, <1>3
<1> QED BY <1>1, <1>2, <1>5, <1>a, <1>6, <1>8, <1>9, <1>10, <1>11, <1>12

\* It keeps the invariant.
LEMMA ScriptCallsKeeps ==
  ASSUME ApiInv, NEW nargs \in Nat, NEW nres \in Nat, ScriptCalls(nargs, nres)
  PROVE  ApiInv'
<1>1. Len(stack) + 1 <= size BY ScriptWaits
<1>2. PICK y \in Threads, d \in CallInfo, ra \in Nat \ {0} :
        /\ d.status = "calling" /\ y.stack = stack /\ y.size = size
        /\ Body(y) /\ Last(y.cis) = d /\ Callable(y, "java", ra, nres)
        /\ luaD_precall(y, ra, nres)
  BY ScriptWaits
<1>3. Len(y.stack) + 1 <= y.size /\ Last(y.cis).status = "calling" BY <1>1, <1>2
<1>4. globals \in Values BY InnermostFacts
<1> QED BY <1>2, <1>3, <1>4, PrecallKeeps

-----------------------------------------------------------------------------
(* The message handler *)

\* Where an error is raised, the handler at errfunc is there.
LEMMA HandlerThere ==
  ASSUME ApiInv, jmps # <<>>, errfunc # 0
  PROVE  errfunc \in 1 .. Len(stack) /\ stack[errfunc] = Handler
<1> DEFINE x == Thread
           j == Last(x.jmps)
           c == x.cis[j.ci]
<1>1. /\ x \in Threads /\ Body(x) /\ x.stack = stack /\ x.jmps = jmps /\ x.errfunc = errfunc
      /\ Len(stack) \in Nat
  BY InnermostFacts
<1> HIDE DEF x
<1>2. j.ci \in DOMAIN x.cis /\ InPcall(c) /\ x.errfunc = HandlerOf(c) BY <1>1, Innermost
<1> HIDE DEF j
<1>3. c \in CallInfo BY <1>1, <1>2, ThreadTypes
<1>4. HandlersThere(x) BY <1>1 DEF Body
<1>5. InPcall(c) /\ c.kind \in JavaKinds => c.at <= Len(x.stack) /\ x.stack[c.at] = Handler
  BY <1>2, <1>4 DEF HandlersThere
<1> HIDE DEF c
<1>6. c.kind # "pcall" /\ c.kind # "script" /\ errfunc = c.at
  BY <1>1, <1>2 DEF HandlerOf, InPcall
<1>7. c.kind \in JavaKinds /\ c.at \in Nat BY <1>3, <1>6 DEF CallInfo, JavaKinds
<1>8. 1 <= c.at BY <1>6, <1>7
<1>9. c.at <= Len(stack) /\ stack[c.at] = Handler BY <1>1, <1>2, <1>5, <1>7
<1> QED BY <1>1, <1>6, <1>7, <1>8, <1>9

\* The thread y in which the message handler is called: it and the message are
\* on top.
Handling(y, err) ==
    /\ Body(y) /\ Faulting(y) /\ y.cis = cis /\ Last(y.cis) = ci /\ Callable(y, "handler", Len(stack), 1)
    /\ Len(y.stack) = Len(stack) + 1 /\ y.stack[Len(stack) + 1] = Last(stack)
    /\ \A i \in 1 .. Len(stack) - 1 : y.stack[i] = stack[i]
    /\ \/ /\ err \in {"overflow", "errerr"} /\ NoStack(y, err)
          /\ err = "overflow" => Len(y.stack) + 1 <= y.size
       \/ Enter(y, "handler", Len(stack), 1) /\ Len(y.stack) <= y.size + 1

\* Where an error is raised.
LEMMA RaisedFacts ==
  ASSUME ApiInv, raising
  PROVE  /\ ci.status \in {"run", "calling"} /\ ci.at # 0 /\ ci.at <= Len(stack)
         /\ (ci.kind = "host" => ci.status = "calling")
         /\ (InPcall(ci) => Callee(ci) <= Len(stack))
         /\ (ci.kind = "script" => ci.top <= Len(stack) + MaxStackSize)
         /\ ci.func < ci.at /\ Callee(ci) \in Nat
         /\ Faulting(Thread) /\ jmps # <<>> /\ stack # <<>> /\ Last(stack) \in Values
<1> DEFINE n == Len(stack)
           x == Thread
<1>1. Raises(ci, n) BY DEF ApiInv
<1>2. /\ Body(x) /\ x.stack = stack /\ x.cis = cis /\ x.jmps = jmps
      /\ stack \in Seq(Values) /\ n \in Nat /\ ci = Last(cis)
      /\ ci \in CallInfo /\ ci.func \in Nat /\ ci.top \in Nat /\ ci.at \in Nat
      /\ 1 <= ci.func /\ ci.func <= n /\ Nested(x) /\ Len(cis) \in DOMAIN cis /\ ci = cis[Len(cis)]
  BY InnermostFacts
<1>3. Callee(ci) \in Nat BY <1>2, CallInfoTypes
<1>4. /\ ci.status \in {"run", "calling"} /\ (ci.kind = "host" => ci.status = "calling")
      /\ ci.at # 0 /\ ci.at <= n
      /\ InPcall(ci) => Callee(ci) <= n
      /\ ci.kind = "script" => ci.top <= n + MaxStackSize
  BY <1>1 DEF Raises
<1>5. ci.func < ci.at BY <1>2, <1>4 DEF Nested
<1>6. Faulting(x)
  <2>1. ci.at <= n + 1 BY <1>2, <1>4
  <2>0. ci.kind = "script" => ci.top <= n + 1 + MaxStackSize
    <3>1. ci.top <= n + MaxStackSize => ci.top <= n + 1 + MaxStackSize
      BY <1>2, Sizes
    <3> QED BY <3>1, <1>4
  <2> HIDE DEF x
  <2> QED BY <2>0, <2>1, <1>2, <1>4 DEF Faulting
<1>7. jmps # <<>> BY <1>2, <1>6, FaultIsCaught
<1>8. stack # <<>> BY <1>2
<1>9. Last(stack) \in Values BY <1>2, <1>8, FrontIs
<1> QED BY <1>3, <1>4, <1>5, <1>6, <1>7, <1>8, <1>9

\* luaG_errormsg calls it.
LEMMA HandlerCalled ==
  ASSUME ApiInv, luaG_errormsg, errfunc # 0
  PROVE  \E y, err : y \in Threads /\ Handling(y, err)
<1> DEFINE n == Len(stack)
           msg == Last(stack)
           x == Thread
           s == Front(stack) \o <<stack[errfunc], msg>>
           z == [x EXCEPT !.stack = s]
           grown == luaD_checkstack(Len(z.stack), 0, size)
           y == [z EXCEPT !.size = grown.size]
<1>1. raising BY DEF luaG_errormsg
<1>2. /\ x \in Threads /\ Body(x) /\ x.stack = stack /\ x.cis = cis /\ x.jmps = jmps
      /\ x.errfunc = errfunc /\ x.size = size
      /\ stack \in Seq(Values) /\ n \in Nat
      /\ cis # <<>> /\ ci = Last(cis)
      /\ ci \in CallInfo /\ ci.func \in Nat /\ ci.top \in Nat /\ ci.at \in Nat
      /\ errfunc \in Nat /\ size \in Nat /\ size \in 0 .. ERRORSTACKSIZE /\ n <= size
      /\ 1 <= ci.func /\ ci.func <= n /\ Nested(x) /\ Len(cis) \in DOMAIN cis /\ ci = cis[Len(cis)]
  BY InnermostFacts
<1>3. /\ ci.status \in {"run", "calling"} /\ (ci.kind = "host" => ci.status = "calling")
      /\ ci.at # 0 /\ ci.at <= n
      /\ InPcall(ci) => Callee(ci) <= n
      /\ ci.kind = "script" => ci.top <= n + MaxStackSize
      /\ ci.func < ci.at /\ Callee(ci) \in Nat /\ jmps # <<>> /\ stack # <<>> /\ msg \in Values
  BY <1>1, RaisedFacts
<1>4. n \in Nat \ {0} BY <1>2
<1>5. stack[errfunc] \in Values BY <1>3, HandlerThere DEF Values
<1>6. /\ Front(stack) \in Seq(Values) /\ Len(Front(stack)) = n - 1
      /\ \A i \in 1 .. n - 1 : Front(stack)[i] = stack[i]
  BY <1>2, <1>3, FrontIs
<1>7. /\ s \in Seq(Values) /\ Len(s) = n + 1 /\ s[n + 1] = msg
      /\ \A i \in 1 .. n - 1 : s[i] = stack[i]
  <2> DEFINE a == Front(stack)
             b == <<stack[errfunc], msg>>
  <2>1. b \in Seq(Values) /\ Len(b) = 2 /\ b[2] = msg BY <1>3, <1>5
  <2>2. a \in Seq(Values) /\ b \in Seq(Values) BY <2>1, <1>6
  <2>a. Len(a) = n - 1 /\ \A i \in 1 .. n - 1 : a[i] = stack[i] BY <1>6
  <2>b. s = a \o b OBVIOUS
  <2> HIDE DEF a, b, s, msg
  <2>3. /\ a \o b \in Seq(Values) /\ Len(a \o b) = Len(a) + Len(b)
        /\ \A k \in 1 .. Len(a) : (a \o b)[k] = a[k]
        /\ \A k \in 1 .. Len(b) : (a \o b)[Len(a) + k] = b[k]
    BY <2>2, ConcatIs
  <2>4. s \in Seq(Values) /\ Len(s) = (n - 1) + 2 /\ (\A k \in 1 .. n - 1 : s[k] = a[k])
        /\ s[(n - 1) + 2] = b[2]
    <3>1. 2 \in 1 .. Len(b) BY <2>1
    <3> QED BY <3>1, <2>1, <2>3, <2>a, <2>b
  <2>5. (n - 1) + 2 = n + 1 BY <1>2
  <2> QED BY <2>1, <2>4, <2>5, <2>a
<1>8. \/ grown.err # "" /\ NoStack(y, grown.err)
      \/ grown.err = "" /\ Enter(y, "handler", Len(z.stack) - 1, 1)
  BY DEF luaG_errormsg
<1> HIDE DEF x, msg, s
<1>9. z \in Threads /\ z.stack = s /\ z.cis = cis /\ z.jmps = jmps /\ z.errfunc = errfunc
  BY <1>2, <1>7 DEF Threads
<1>10. Grown(grown, size, n + 1 + 1 + 0)
  <2>1. n + 1 \in Nat /\ Len(z.stack) = n + 1 BY <1>2, <1>7, <1>9
  <2> HIDE DEF z
  <2> QED BY <2>1, <1>2, CheckIs
<1> HIDE DEF grown, z
<1>11. PICK rs, err : rs = grown.size /\ err = grown.err OBVIOUS
<1>12. rs \in 0 .. ERRORSTACKSIZE /\ size <= rs /\ err \in {"", "overflow", "errerr"}
  BY <1>10, <1>11 DEF Grown
<1>13. rs \in Nat
  <2>1. rs \in 0 .. ERRORSTACKSIZE /\ ERRORSTACKSIZE \in Nat BY <1>12, Sizes
  <2> QED BY <2>1
<1>14. (err = "" => n + 1 + 1 + 0 <= rs) /\ (err = "overflow" => size <= LUAI_MAXSTACK /\ rs = ERRORSTACKSIZE)
  BY <1>10, <1>11 DEF Grown
<1>15. /\ y \in Threads /\ y.stack = s /\ y.cis = cis /\ y.jmps = jmps /\ y.errfunc = errfunc
       /\ y.size = rs
  BY <1>9, <1>11, <1>12 DEF Threads
<1> HIDE DEF y
<1>16. Body(y)
  <2>1. n - 1 \in Nat /\ ci.func <= n - 1 /\ n - 1 <= n /\ n - 1 <= n + 1
    BY <1>2, <1>3, <1>4
  <2>2. InPcall(ci) /\ ci.kind \in JavaKinds => ci.at <= n - 1
    <3>1. ASSUME InPcall(ci), ci.kind \in JavaKinds PROVE ci.at <= n - 1
      <4>1. Callee(ci) = ci.at + 1 BY <3>1 DEF JavaKinds, Callee
      <4>2. ci.at + 1 <= n BY <4>1, <3>1, <1>3
      <4> QED BY <4>2, <1>2
    <3> QED BY <3>1
  <2> DEFINE m == n - 1
  <2>3. /\ m \in Nat /\ Last(x.cis).func <= m /\ m <= Len(x.stack) /\ m <= Len(y.stack)
        /\ \A i \in 1 .. m : y.stack[i] = x.stack[i]
        /\ InPcall(Last(x.cis)) /\ Last(x.cis).kind \in JavaKinds => Last(x.cis).at <= m
        /\ x.size <= y.size
    BY <2>1, <2>2, <1>2, <1>7, <1>12, <1>15
  <2> HIDE DEF m, n
  <2> QED BY <2>3, <1>2, <1>15, StackChanged
<1>17. Last(y.cis) = ci /\ Len(y.stack) = n + 1 /\ y.stack[n + 1] = msg
       /\ \A i \in 1 .. n - 1 : y.stack[i] = stack[i]
  BY <1>2, <1>7, <1>15
<1>18. Faulting(y)
  <2>1. /\ ci.at <= n + 1 + 1 /\ (InPcall(ci) => Callee(ci) <= n + 1)
        /\ ci.kind = "script" => ci.top <= n + 1 + 1 + MaxStackSize
    BY <1>2, <1>3, Sizes
  <2> QED BY <2>1, <1>17, <1>3 DEF Faulting
<1>19. Callable(y, "handler", n, 1)
  <2>1. n <= Len(y.stack) BY <1>2, <1>17
  <2> QED BY <2>1, <1>17, <1>3 DEF Callable
<1>20. CASE err # ""
  <2>1. NoStack(y, err) /\ err \in {"overflow", "errerr"} BY <1>8, <1>11, <1>12, <1>20
  <2>2. err = "overflow" => Len(y.stack) + 1 <= y.size
    <3>1. ASSUME err = "overflow" PROVE n + 1 + 1 <= rs
      <4>1. size <= LUAI_MAXSTACK /\ rs = ERRORSTACKSIZE BY <1>14, <3>1
      <4> QED BY <4>1, <1>2, Sizes
    <3> QED BY <3>1, <1>15, <1>17
  <2>3. Handling(y, err) BY <2>1, <2>2, <1>15, <1>16, <1>17, <1>18, <1>19 DEF Handling, msg
  <2> QED BY <2>3, <1>15
<1>21. CASE err = ""
  <2>1. Enter(y, "handler", n, 1)
    <3>1. Enter(y, "handler", Len(z.stack) - 1, 1) BY <1>8, <1>11, <1>21
    <3>2. Len(z.stack) - 1 = n BY <1>2, <1>7, <1>9
    <3> QED BY <3>1, <3>2
  <2>2. Len(y.stack) <= y.size + 1
    <3>1. n + 1 + 1 + 0 <= rs BY <1>14, <1>21
    <3>2. n + 1 <= rs + 1 BY <3>1, <1>2, <1>13
    <3> QED BY <3>2, <1>15, <1>17
  <2>3. Handling(y, err) BY <2>1, <2>2, <1>15, <1>16, <1>17, <1>18, <1>19 DEF Handling, msg
  <2> QED BY <2>3, <1>15
<1> QED BY <1>20, <1>21

\* luaG_errormsg calls the message handler, or throws the message.
LEMMA ErrormsgKeeps ==
  ASSUME ApiInv, luaG_errormsg
  PROVE  ApiInv'
<1> DEFINE x == Thread
           msg == Last(stack)
<1>1. raising BY DEF luaG_errormsg
<1>2. /\ Body(x) /\ x.stack = stack /\ x.cis = cis /\ x.jmps = jmps /\ ci = Last(cis)
      /\ Len(stack) \in Nat /\ globals \in Values /\ 1 <= ci.func /\ ci.func <= Len(stack)
      /\ ci.func \in Nat
  BY InnermostFacts
<1>3. /\ (InPcall(ci) => Callee(ci) <= Len(stack)) /\ Callee(ci) \in Nat
      /\ jmps # <<>> /\ msg \in Values
  BY <1>1, RaisedFacts
<1>4. CASE errfunc = 0
  <2>1. Becomes(luaD_throw(x, msg), FALSE) BY <1>4 DEF luaG_errormsg
  <2>2. InPcall(ci) => Callee(ci) <= Len(stack) + 1 BY <1>2, <1>3
  <2> HIDE DEF x, msg
  <2> QED BY <2>1, <2>2, <1>2, <1>3, ThrowKeeps
<1>5. CASE errfunc # 0
  <2>1. PICK y, err : y \in Threads /\ Handling(y, err) BY <1>5, HandlerCalled
  <2>2. PICK n \in Nat \ {0} : n = Len(stack) BY <1>2
  <2>3. /\ Body(y) /\ Faulting(y) /\ Callable(y, "handler", n, 1)
        /\ \/ /\ err \in {"overflow", "errerr"} /\ NoStack(y, err)
              /\ err = "overflow" => Len(y.stack) + 1 <= y.size
           \/ Enter(y, "handler", n, 1) /\ Len(y.stack) <= y.size + 1
    BY <2>1, <2>2 DEF Handling
  <2>4. CASE NoStack(y, err) /\ err \in {"overflow", "errerr"} /\ (err = "overflow" => Len(y.stack) + 1 <= y.size)
    BY <2>3, <2>4, <1>2, NoStackKeeps
  <2>5. CASE Enter(y, "handler", n, 1) /\ Len(y.stack) <= y.size + 1
    <3>1. 1 \in Nat \cup {LUA_MULTRET} OBVIOUS
    <3> QED BY <3>1, <2>3, <2>5, <1>2, EnterKeeps
  <2> QED BY <2>3, <2>4, <2>5
<1> QED BY <1>4, <1>5

\* What the message handler returns,
HandlerResult(n) ==
    IF n >= 0 THEN SubSeq(stack, Top - n, Top - 1)
    ELSE IF lua_gettop = 0 THEN <<Str>>
    ELSE IF Value(lua_tolstring(stack, 1), 1) \in Strings THEN <<Traced>> ELSE <<Last(stack)>>

\* and the thread y that throws it: t is its stack.
Ending(y, t, n) ==
    /\ HandlerResult(n) \in Seq(Values) /\ t = luaD_poscall(stack \o HandlerResult(n), Top)
    /\ Body(y) /\ y.jmps = jmps /\ y.jmps # <<>> /\ y.cis = cis /\ y.stack = t
    /\ ci.nres = 1 /\ ~InPcall(ci) /\ Len(t) = ci.func /\ Last(t) \in Values
    /\ \A k \in 1 .. ci.func - 1 : t[k] = stack[k]
    /\ Becomes(luaD_throw(y, Last(t)), FALSE)

\* It has one result, in the place of its function.
LEMMA HandlerEnds ==
  ASSUME ApiInv, NEW n \in Int, HandlerReturns(n)
  PROVE  \E y, t : y \in Threads /\ Ending(y, t, n)
<1> DEFINE len == Len(stack)
           x == Thread
           result == HandlerResult(n)
           s == stack \o result
           t == luaD_poscall(s, Top)
           y == [x EXCEPT !.stack = t]
<1>1. /\ ~raising /\ ci.kind = "handler" /\ ci.status = "run"
      /\ n = -1 \/ (JavaRuns /\ Has(n))
      /\ Becomes(luaD_throw(y, Last(t)), FALSE)
  BY DEF HandlerReturns, HandlerResult
<1>2. /\ x \in Threads /\ Body(x) /\ x.stack = stack /\ x.cis = cis /\ x.jmps = jmps
      /\ x.errfunc = errfunc /\ x.size = size
      /\ stack \in Seq(Values) /\ len \in Nat /\ globals \in Values
      /\ cis \in Seq(CallInfo) /\ cis # <<>> /\ ci = Last(cis)
      /\ ci \in CallInfo /\ ci.func \in Nat /\ size \in Nat
      /\ 1 <= ci.func /\ ci.func <= len /\ Nested(x) /\ Len(cis) \in DOMAIN cis /\ ci = cis[Len(cis)]
      /\ ci.top <= size
  BY InnermostFacts
<1>3. ci.at = 0 /\ ~InPcall(ci) /\ ci.nres = 1
  <2>1. Runs(ci, len) BY <1>1 DEF ApiInv
  <2>2. x.cis[Len(cis)].nres = 1 BY <1>1, <1>2 DEF Nested
  <2> QED BY <2>1, <2>2, <1>1, <1>2 DEF Runs, InPcall
<1>4. Top = len + 1 /\ lua_gettop = len - ci.func BY <1>2 DEF Top, lua_gettop
<1>5. result \in Seq(Values)
  <2>1. CASE n >= 0
    <3>1. JavaRuns /\ Has(n) BY <1>1, <2>1
    <3>2. n <= len - ci.func BY <3>1, <1>4 DEF Has
    <3>3. result = SubSeq(stack, len + 1 - n, len) BY <2>1, <1>2, <1>4 DEF HandlerResult
    <3>4. len + 1 - n \in 1 .. len + 1 BY <2>1, <3>2, <1>2
    <3>5. SubSeq(stack, len + 1 - n, len) \in Seq(Values) BY <3>4, <1>2
    <3> QED BY <3>3, <3>5
  <2>2. CASE ~(n >= 0)
    <3>1. Str \in Values /\ Traced \in Values BY DEF Values, Strings
    <3>2. Last(stack) \in Values
      <4>1. stack # <<>> BY <1>2
      <4> QED BY <4>1, <1>2, FrontIs
    <3>3. <<Str>> \in Seq(Values) /\ <<Traced>> \in Seq(Values) /\ <<Last(stack)>> \in Seq(Values)
      BY <3>1, <3>2
    <3> QED BY <2>2, <3>3 DEF HandlerResult
  <2> QED BY <2>1, <2>2
<1> HIDE DEF result, x
<1>6. /\ s \in Seq(Values) /\ Len(s) = len + Len(result) /\ Len(result) \in Nat
      /\ \A k \in 1 .. len : s[k] = stack[k]
  BY <1>2, <1>5, ConcatIs
<1> HIDE DEF s
<1>7. /\ t \in Seq(Values)
      /\ Len(t) = ci.func - 1 + (IF ci.nres = LUA_MULTRET THEN Len(s) + 1 - Top ELSE ci.nres)
      /\ \A k \in 1 .. ci.func - 1 : t[k] = s[k]
  <2>1. /\ ci.func \in 1 .. Len(s) /\ Top \in Nat /\ ci.func < Top /\ Top <= Len(s) + 1
    BY <1>2, <1>4, <1>6
  <2> QED BY <2>1, <1>2, <1>6, PoscallIs
<1> HIDE DEF t
<1>8. Len(t) = ci.func /\ \A k \in 1 .. ci.func - 1 : t[k] = stack[k]
  <2>1. ci.nres # LUA_MULTRET BY <1>3 DEF LUA_MULTRET
  <2>2. Len(t) = ci.func - 1 + 1 BY <2>1, <1>3, <1>7
  <2>3. Len(t) = ci.func BY <2>2, <1>2
  <2>4. \A k \in 1 .. ci.func - 1 : k \in 1 .. len BY <1>2
  <2>5. \A k \in 1 .. ci.func - 1 : t[k] = stack[k] BY <2>4, <1>6, <1>7
  <2> QED BY <2>3, <2>5
<1>9. Last(t) \in Values
  <2>1. t # <<>> BY <1>2, <1>7, <1>8
  <2> QED BY <2>1, <1>7, FrontIs
<1>10. /\ y \in Threads /\ y.stack = t /\ y.cis = cis /\ y.jmps = jmps /\ y.errfunc = errfunc
       /\ y.size = size
  BY <1>2, <1>7 DEF Threads
<1> HIDE DEF y
<1>11. Nested(y) /\ Called(y) /\ HandlersThere(y)
  <2>1. PICK c : c = ci OBVIOUS
  <2>2. PICK m : m = Len(cis) OBVIOUS
  <2>3. m \in DOMAIN x.cis /\ Len(y.cis) = m /\ c = x.cis[m] /\ c = y.cis[m] BY <2>1, <2>2, <1>2, <1>10
  <2>4. \A k \in 1 .. m - 1 : y.cis[k] = x.cis[k] /\ x.cis[k].top <= y.size
    <3>1. \A k \in 1 .. m - 1 : k \in DOMAIN x.cis BY <2>2, <1>2
    <3>2. \A k \in DOMAIN x.cis : x.cis[k].top <= x.size BY <1>2 DEF Nested
    <3> QED BY <3>1, <3>2, <1>2, <1>10
  <2>5. ~InPcall(c) /\ c.at = 0 /\ c.top <= y.size BY <2>1, <1>2, <1>3, <1>10
  <2>6. c.func <= Len(y.stack) /\ \A i \in 1 .. c.func - 1 : y.stack[i] = x.stack[i]
    BY <2>1, <1>2, <1>8, <1>10
  <2>7. c.top <= c.top BY <2>1, <1>2, CallInfoTypes
  <2> QED BY <2>3, <2>4, <2>5, <2>6, <2>7, <1>2, <1>10, FramesCut
<1>12. Caught(y)
  <2>1. Caught(x) BY <1>2 DEF Body
  <2> QED BY <2>1, <1>2, <1>10, CaughtSame
<1>13. Body(y) BY <1>2, <1>10, <1>11, <1>12 DEF Body, Types
<1>14. y.jmps # <<>>
  <2>1. Faulting(x) BY <1>1, <1>2, <1>3 DEF Faulting
  <2> QED BY <2>1, <1>2, <1>10, FaultIsCaught
<1>15. Becomes(luaD_throw(y, Last(t)), FALSE) /\ t = luaD_poscall(stack \o HandlerResult(n), Top)
  BY <1>1 DEF t, s, result
<1>16. Ending(y, t, n)
  BY <1>2, <1>3, <1>5, <1>7, <1>8, <1>9, <1>10, <1>13, <1>14, <1>15 DEF Ending, result
<1> QED BY <1>10, <1>16

\* What the message handler returns is thrown.
LEMMA HandlerReturnsKeeps ==
  ASSUME ApiInv, NEW n \in Int, HandlerReturns(n)
  PROVE  ApiInv'
<1>1. PICK y, t : y \in Threads /\ Ending(y, t, n) BY HandlerEnds
<1>2. PICK v : v = Last(t) OBVIOUS
<1>3. ci = Last(cis) /\ globals \in Values BY InnermostFacts
<1>4. /\ Body(y) /\ y.jmps # <<>> /\ v \in Values /\ Becomes(luaD_throw(y, v), FALSE)
      /\ ~InPcall(Last(y.cis))
  BY <1>1, <1>2, <1>3 DEF Ending
<1> QED BY <1>3, <1>4, ThrowKeeps

-----------------------------------------------------------------------------
(* Every state *)

\* The states that programs start in.
LEMMA StartHolds == Init => ApiInv
<1> SUFFICES ASSUME Init PROVE ApiInv OBVIOUS
<1> DEFINE x == Thread
<1>1. PICK start \in Starts : stack = <<Nil>> \o start.vals BY DEF Init
<1>2. /\ size = BASIC_STACK_SIZE /\ cis = <<Host>> /\ jmps = <<>> /\ errfunc = 0
      /\ raising = FALSE /\ globals = PCall
  BY DEF Init
<1>3. /\ stack \in Seq(Values) /\ Len(stack) \in 1 .. LUA_MINSTACK + 1
  <2> DEFINE v == start.vals
             a == <<Nil>>
  <2>1. v \in Seq(Values) /\ Len(v) <= LUA_MINSTACK BY ApiPrograms
  <2>2. a \in Seq(Values) /\ Len(a) = 1 BY DEF Values
  <2> HIDE DEF a, v
  <2>3. a \o v \in Seq(Values) /\ Len(a \o v) = Len(a) + Len(v) BY <2>1, <2>2, ConcatIs
  <2>4. Len(v) \in Nat BY <2>1
  <2>5. stack = a \o v BY <1>1 DEF a, v
  <2> QED BY <2>1, <2>2, <2>3, <2>4, <2>5, Sizes
<1>4. /\ Host \in CallInfo /\ Host.kind = "host" /\ Host.func = 1 /\ Host.top = 2 + LUA_MINSTACK
      /\ Host.status = "run" /\ Host.at = 0
  BY Sizes DEF Host, NewCI, CallInfo
<1>5. ~InPcall(Host) BY <1>4 DEF InPcall
<1>6. /\ cis \in Seq(CallInfo) /\ cis # <<>> /\ Len(cis) = 1 /\ DOMAIN cis = {1} /\ cis[1] = Host
      /\ ci = Host
  BY <1>2, <1>4 DEF ci, Last
<1> HIDE DEF Host
<1>7. /\ x \in Threads /\ x.stack = stack /\ x.cis = cis /\ x.jmps = <<>> /\ x.errfunc = 0
      /\ x.size = BASIC_STACK_SIZE
  <2>1. BASIC_STACK_SIZE \in 0 .. ERRORSTACKSIZE BY Sizes
  <2>2. <<>> \in Seq(Catcher) OBVIOUS
  <2>3. 0 \in Nat OBVIOUS
  <2> QED BY <2>1, <2>2, <2>3, <1>2, <1>3, <1>6 DEF Thread, Threads
<1> HIDE DEF x
<1>8. 2 + LUA_MINSTACK <= BASIC_STACK_SIZE /\ Len(stack) + 1 <= 2 + LUA_MINSTACK /\ 1 <= Len(stack)
  BY <1>3, Sizes
<1>9. Nested(x)
  <2>1. ASSUME NEW k \in DOMAIN x.cis
        PROVE  LET c == x.cis[k] IN
          /\ 1 <= c.func /\ c.func <= Len(x.stack)
          /\ c.top <= x.size
          /\ c.kind = "pcall" => c.func + 2 <= c.top
          /\ c.kind = "script" => c.func + MaxStackSize < c.top
          /\ c.kind = "handler" => c.nres = 1
          /\ InPcall(c) => c.func + 1 < Callee(c) /\ Callee(c) < c.top
          /\ c.at # 0 => c.func < c.at
    <3>1. x.cis[k] = Host BY <1>6, <1>7
    <3>2. 1 <= Host.func /\ Host.func <= Len(x.stack) /\ Host.top <= x.size BY <1>4, <1>7, <1>8
    <3>3. Host.kind = "host" /\ ~InPcall(Host) /\ Host.at = 0 BY <1>4, <1>5
    <3> QED BY <3>1, <3>2, <3>3
  <2>2. \A k, m \in DOMAIN x.cis : ~(k < m) BY <1>6, <1>7
  <2> QED BY <2>1, <2>2 DEF Nested
<1>10. Called(x)
  <2>1. Len(x.cis) = 1 /\ x.cis[1] = Host BY <1>6, <1>7
  <2>2. 2 .. Len(x.cis) = {} BY <2>1
  <2> QED BY <2>1, <2>2, <1>4 DEF Called
<1>11. Caught(x)
  <2>1. DOMAIN x.jmps = {} /\ Len(x.jmps) = 0 BY <1>7
  <2>2. \A k \in DOMAIN x.cis : ~InPcall(x.cis[k]) BY <1>5, <1>6, <1>7
  <2>3. HandlerAt(x, Len(x.jmps)) = 0 BY <2>1 DEF HandlerAt
  <2> QED BY <2>1, <2>2, <2>3, <1>7 DEF Caught
<1>12. HandlersThere(x) BY <1>5, <1>6, <1>7 DEF HandlersThere
<1>13. Body(x) BY <1>6, <1>7, <1>9, <1>10, <1>11, <1>12 DEF Body, Types
<1>14. Runs(ci, Len(stack))
  <2>1. Host.kind # "script" /\ Host.kind # "pcall" /\ Host.status = "run" BY <1>4
  <2> QED BY <2>1, <1>4, <1>6, <1>8 DEF Runs
<1>15. Len(stack) <= size
  <2>1. Len(stack) <= BASIC_STACK_SIZE BY <1>3, <1>8, Sizes
  <2> QED BY <2>1, <1>2
<1>16. globals \in Values BY <1>2 DEF Values
<1> QED BY <1>2, <1>13, <1>14, <1>15, <1>16 DEF ApiInv, x

\* The collector leaves every CallInfo and every value its slot.
LEMMA SweepthreadKeeps ==
  ASSUME ApiInv, sweepthread
  PROVE  ApiInv'
<1> DEFINE x == Thread  y == Thread'  z == luaD_shrinkstack(Len(stack), cis, size)
<1>1. /\ ~raising /\ size' = z
      /\ UNCHANGED <<errorHandler, stack, cis, jmps, errfunc, raising, globals>>
  BY DEF sweepthread
<1>2. /\ x \in Threads /\ Body(x) /\ x.cis = cis /\ x.stack = stack
      /\ cis \in Seq(CallInfo) /\ Len(stack) \in Nat
      /\ size \in 0 .. ERRORSTACKSIZE /\ Len(stack) <= size
  BY InnermostFacts
<1>3. \A k \in DOMAIN cis : cis[k].top <= size
  BY <1>2, InnermostFacts DEF Nested
<1>4. /\ z \in 0 .. ERRORSTACKSIZE /\ Len(stack) <= z
      /\ \A k \in DOMAIN cis : cis[k].top <= z
  BY <1>2, <1>3, ShrinkIs
<1> HIDE DEF z
<1>5. /\ y = [stack |-> stack, cis |-> cis, jmps |-> jmps, errfunc |-> errfunc, size |-> z]
      /\ x = [stack |-> stack, cis |-> cis, jmps |-> jmps, errfunc |-> errfunc, size |-> size]
  BY <1>1 DEF Thread
<1> HIDE DEF x, y
<1>6. /\ y.stack = x.stack /\ y.cis = x.cis /\ y.jmps = x.jmps /\ y.errfunc = x.errfunc
      /\ y.size = z
  BY <1>5
<1>7. Types(y) BY <1>2, <1>4, <1>5 DEF Threads, Body, Types
<1>8. Nested(y)
  <2>1. Nested(x) BY <1>2 DEF Body
  <2>2. \A k \in DOMAIN y.cis : y.cis[k].top <= y.size BY <1>2, <1>4, <1>6
  <2> QED BY <1>6, <2>1, <2>2 DEF Nested
<1>9. Called(y) /\ Caught(y) /\ HandlersThere(y)
  <2>1. Called(x) /\ Caught(x) /\ HandlersThere(x) BY <1>2 DEF Body
  <2>2. \A k : HandlerAt(y, k) = HandlerAt(x, k) BY <1>6 DEF HandlerAt
  <2>3. Called(y) BY <1>6, <2>1 DEF Called
  <2>4. Caught(y) BY <1>6, <2>1, <2>2 DEF Caught
  <2> QED BY <1>6, <2>1, <2>3, <2>4 DEF HandlersThere
<1>10. Body(Thread)' BY <1>7, <1>8, <1>9 DEF Body, y
<1>11. ci' = ci BY <1>1 DEF ci
<1>12. Runs(ci, Len(stack)) /\ globals \in Values BY <1>1 DEF ApiInv
<1> QED BY <1>1, <1>4, <1>10, <1>11, <1>12 DEF ApiInv

\* A step that leaves all as it is.
LEMMA StutterKeeps == ApiInv /\ UNCHANGED vars => ApiInv'
BY DEF ApiInv, vars, Thread, ci

\* Every step keeps the invariant.
LEMMA StepsKeep == ApiInv /\ [Next]_vars => ApiInv'
<1> SUFFICES ASSUME ApiInv, [Next]_vars PROVE ApiInv' OBVIOUS
<1>0. MaxArgs \in Nat /\ \A n \in 0 .. MaxArgs : n \in Nat BY ApiPrograms
<1>1. CASE JavaMethod BY <1>1, JavaMethodKeeps
<1>2. ASSUME NEW n \in 0 .. MaxArgs, NEW nres \in -1 .. MaxArgs, luaPcall(n, nres)
      PROVE  ApiInv'
  <2>1. n \in Nat /\ nres \in Nat \cup {LUA_MULTRET} BY <1>0 DEF LUA_MULTRET
  <2> QED BY <2>1, <1>2, PcallKeeps
<1>3. CASE JavaStep
  <2>1. CASE AfterPcall BY <2>1, AfterPcallKeeps
  <2>2. CASE JavaCatches BY <2>2, CatchesKeeps
  <2>3. ASSUME NEW n \in 0 .. MaxArgs, JavaReturns(n) PROVE ApiInv'
    BY <2>3, <1>0, JavaReturnsKeeps
  <2>4. ASSUME NEW v \in Strings, JavaThrows(v) PROVE ApiInv'
    BY <2>4, JavaThrowsKeeps
  <2> QED BY <1>3, <2>1, <2>2, <2>3, <2>4 DEF JavaStep
<1>4. CASE ScriptStep
  <2>1. ASSUME NEW v, ScriptLoads(v) PROVE ApiInv' BY <2>1, ScriptLoadsKeeps
  <2>2. ASSUME NEW n \in 0 .. MaxArgs, NEW nres \in 0 .. MaxArgs, ScriptCalls(n, nres) PROVE ApiInv'
    BY <2>2, <1>0, ScriptCallsKeeps
  <2>3. ASSUME NEW n \in 0 .. MaxArgs, ScriptReturns(n) PROVE ApiInv'
    BY <2>3, <1>0, ScriptReturnsKeeps
  <2>4. ASSUME NEW v \in {Str, Nil}, ScriptRaises(v) PROVE ApiInv'
    BY <2>4, ScriptRaisesKeeps
  <2> QED BY <1>4, <2>1, <2>2, <2>3, <2>4 DEF ScriptStep
<1>5. CASE PCallStep
  <2>1. CASE PCallCalls BY <2>1, PCallCallsKeeps
  <2>2. CASE PCallReturns BY <2>2, PCallReturnsKeeps
  <2> QED BY <1>5, <2>1, <2>2 DEF PCallStep
<1>6. CASE ErrorStep
  <2>1. CASE luaG_errormsg BY <2>1, ErrormsgKeeps
  <2>2. ASSUME NEW n \in -1 .. MaxArgs, HandlerReturns(n) PROVE ApiInv'
    BY <2>2, <1>0, HandlerReturnsKeeps
  <2> QED BY <1>6, <2>1, <2>2 DEF ErrorStep
<1>7. CASE CollectorStep BY <1>7, SweepthreadKeeps DEF CollectorStep
<1>8. CASE UNCHANGED vars BY <1>8, StutterKeeps
<1> QED BY <1>1, <1>2, <1>3, <1>4, <1>5, <1>6, <1>7, <1>8 DEF Next

\* The frames of a state lie in its stack, each with the room that its program
\* may use, and every call has a caller that waits for it (Lua_State and
\* CallInfo as ldo.c and lapi.c change them).
THEOREM FramesStand == Spec => []ApiInv
<1>1. Init => ApiInv BY StartHolds
<1>2. ApiInv /\ [Next]_vars => ApiInv' BY StepsKeep
<1> QED BY <1>1, <1>2, PTL DEF Spec

\* No frame leaves the memory of the stack, and no Java function the room of
\* its frame.
THEOREM StackIsLargeEnough == Spec => []WithinStack
<1>1. ApiInv => WithinStack
  <2> SUFFICES ASSUME ApiInv PROVE WithinStack OBVIOUS
  <2>1. /\ Nested(Thread) /\ Thread.cis = cis /\ Thread.size = size /\ Len(stack) <= size
        /\ Len(stack) \in Nat
    BY InnermostFacts
  <2>2. \A k \in DOMAIN cis : cis[k].top <= size BY <2>1 DEF Nested
  <2>3. ~raising => Top <= ci.top
    <3>1. ~raising => Runs(ci, Len(stack)) BY DEF ApiInv
    <3> QED BY <3>1 DEF Runs, Top
  <2> QED BY <2>1, <2>2, <2>3 DEF WithinStack
<1> QED BY <1>1, FramesStand, PTL

\* errfunc is the slot of the handler that belongs to the innermost luaD_pcall.
THEOREM HandlersBelong == Spec => []HandlerOfCatcher
<1>1. ApiInv => HandlerOfCatcher
  <2> SUFFICES ASSUME ApiInv, jmps # <<>>
               PROVE  LET c == cis[Last(jmps).ci] IN
                      /\ c.status = "calling"
                      /\ errfunc = IF c.kind = "pcall" THEN 0 ELSE c.at
                      /\ errfunc # 0 => stack[errfunc] = Handler
    BY DEF HandlerOfCatcher
  <2> DEFINE x == Thread
             j == Last(jmps)
  <2>1. Body(x) /\ x.cis = cis /\ x.jmps = jmps /\ x.errfunc = errfunc BY InnermostFacts
  <2> HIDE DEF x
  <2>2. InPcall(x.cis[j.ci]) /\ x.errfunc = HandlerOf(x.cis[j.ci]) BY <2>1, Innermost
  <2>3. errfunc # 0 => stack[errfunc] = Handler BY HandlerThere
  <2> QED BY <2>1, <2>2, <2>3 DEF InPcall, HandlerOf
<1> QED BY <1>1, FramesStand, PTL

\* What Java code asks of the stack.
LEMMA Questions ==
  /\ _apiX(15, 0, 0).r = lua_gettop
  /\ \A k : _apiX(1, k, 0).r = lua_absindex(k)
  /\ \A k : _apiX(18, k, 0).r = LuaType(Value(stack, k))
  /\ \A k : _apiX(44, k, 0).r = lua_toboolean(stack, k)
  /\ \A k : _apiX(45, k, 0).r = lua_tointegerx(stack, k, 0)
  /\ \A k : _apiX(46, k, -1).r = lua_tointegerx(stack, k, -1)
BY DEF _apiX, Answers

\* The same of the functions that answer a string or a number.
LEMMA QuestionsMore ==
  /\ \A k : _xapi(47, k).r = lua_tonumberx(stack, k)
  /\ \A k : _xapi(49, k).r = IF Value(stack, k) \in Convertible THEN 1 ELSE 0
BY DEF _xapi, Answers, Leaves

\* The function that runs sees the slots above its own.
LEMMA SeenIs ==
  ASSUME ApiInv, JavaRuns
  PROVE  /\ Len(Vals(Len(cis))) = lua_gettop
         /\ \A i \in 1 .. lua_gettop : Vals(Len(cis))[i] = stack[ci.func + i]
<1> DEFINE f == ci.func
           n == Len(stack)
<1>1. /\ stack \in Seq(Values) /\ n \in Nat /\ f \in Nat /\ 1 <= f /\ f <= n
      /\ lua_gettop = n - f /\ ci.at = 0 /\ ci.status = "run"
  BY JavaFacts
<1>2. cis[Len(cis)] = ci BY InnermostFacts
<1>3. Vals(Len(cis)) = SubSeq(stack, f + 1, n) BY <1>1, <1>2 DEF Vals
<1> HIDE DEF f, n
<1>4. f + 1 \in Int /\ n \in Int /\ n = Len(stack) BY <1>1 DEF n
<1>5. /\ Len(SubSeq(stack, f + 1, n)) = n - f
      /\ \A i \in 1 .. n - f : SubSeq(stack, f + 1, n)[i] = stack[f + i]
  BY <1>1, <1>4
<1> QED BY <1>1, <1>3, <1>5 DEF f

\* The answers of the methods that only read are about the values that the
\* function that runs sees.
THEOREM AnswersStand == Spec => []AnswersRight
<1>1. ApiInv => AnswersRight
  <2> SUFFICES ASSUME ApiInv, JavaRuns
               PROVE  LET vals == Vals(Len(cis)) IN
    /\ _apiX(15, 0, 0).r = Len(vals)
    /\ \A k \in Valid :
        LET v == vals[IF k > 0 THEN k ELSE Len(vals) + 1 + k] IN
        /\ _apiX(1, k, 0).r = IF k > 0 THEN k ELSE Len(vals) + 1 + k
        /\ _apiX(18, k, 0).r = LuaType(v)
        /\ _apiX(44, k, 0).r = IF v \in {Nil, False} THEN 0 ELSE 1
        /\ LET num == v \in {Num, Numeral} IN
              /\ _xapi(47, k).r = IF num THEN 1 ELSE 0
              /\ _apiX(45, k, 0).r = IF num THEN 1 ELSE 0
              /\ _apiX(46, k, -1).r = IF num THEN 1 ELSE -1
        /\ _xapi(49, k).r = IF v \in Convertible THEN 1 ELSE 0
    /\ LuaType(Value(stack, Len(vals) + 1)) = -1
    BY DEF AnswersRight
  <2> DEFINE g == lua_gettop
             f == ci.func
             n == Len(stack)
             vals == Vals(Len(cis))
  <2>1. /\ n \in Nat /\ f \in Nat /\ 1 <= f /\ f <= n /\ g = n - f /\ n <= ERRORSTACKSIZE
    BY JavaFacts
  <2>2. Len(vals) = g /\ \A i \in 1 .. g : vals[i] = stack[f + i] BY SeenIs
  <2>3. LUAI_MAXSTACK \in Nat /\ ERRORSTACKSIZE \in Nat /\ ERRORSTACKSIZE <= LUAI_MAXSTACK + 999
    BY Sizes
  <2> HIDE DEF vals, n, f, g
  <2>4. ASSUME NEW k \in Valid, NEW i, i = IF k > 0 THEN k ELSE Len(vals) + 1 + k,
               NEW v, v = vals[i]
        PROVE  /\ lua_absindex(k) = i
               /\ Value(stack, k) = v /\ v \in Values
    <3>1. k \in Int /\ k # 0 /\ -g <= k /\ k <= g BY <2>1, JavaFacts DEF Valid, g
    <3>2. LUA_REGISTRYINDEX < k BY <2>1, <2>3, <3>1 DEF LUA_REGISTRYINDEX
    <3>3. /\ index2addr(stack, k) \in f + 1 .. n
          /\ Value(stack, k) = stack[index2addr(stack, k)] /\ Value(stack, k) \in Values
      BY IndexIs DEF f, n
    <3>4. i = (IF k > 0 THEN k ELSE g + 1 + k) BY <2>2, <2>4
    <3>5. i \in 1 .. g BY <2>1, <3>1, <3>4
    <3>6. index2addr(stack, k) = f + i
      <4>1. CASE k > 0
        <5>1. ~(f + k > n) BY <2>1, <3>1
        <5> QED BY <5>1, <4>1, <3>4 DEF index2addr, f, n
      <4>2. CASE ~(k > 0)
        <5>1. index2addr(stack, k) = n + 1 + k BY <4>2 DEF index2addr, n
        <5> QED BY <5>1, <4>2, <2>1, <3>1, <3>4
      <4> QED BY <4>1, <4>2
    <3>7. Value(stack, k) = v BY <2>2, <2>4, <3>3, <3>5, <3>6
    <3>8. lua_absindex(k) = i
      <4>1. CASE k > 0 BY <4>1, <3>4 DEF lua_absindex
      <4>2. CASE ~(k > 0)
        <5>1. ~(k <= LUA_REGISTRYINDEX) BY <3>1, <3>2, <2>3 DEF LUA_REGISTRYINDEX
        <5>2. lua_absindex(k) = Top - ci.func + k BY <5>1, <4>2 DEF lua_absindex
        <5>3. Top - ci.func + k = n + 1 - f + k BY <2>1, <3>1 DEF Top, n, f
        <5>4. n + 1 - f + k = i BY <4>2, <2>1, <3>1, <3>4
        <5> QED BY <5>2, <5>3, <5>4
      <4> QED BY <4>1, <4>2
    <3> QED BY <3>3, <3>7, <3>8
  <2>5. None \notin Values BY DEF None, Values, Strings, Nil, True, False, Num, Str, Numeral,
                                  Class, Traced, Env, Java, CallM, Handler, PCall, Script
  <2>6. ASSUME NEW k \in Valid, NEW i, i = IF k > 0 THEN k ELSE Len(vals) + 1 + k,
               NEW v, v = vals[i]
        PROVE  /\ _apiX(1, k, 0).r = i
               /\ _apiX(18, k, 0).r = LuaType(v)
               /\ _apiX(44, k, 0).r = IF v \in {Nil, False} THEN 0 ELSE 1
               /\ _xapi(47, k).r = IF v \in {Num, Numeral} THEN 1 ELSE 0
               /\ _apiX(45, k, 0).r = IF v \in {Num, Numeral} THEN 1 ELSE 0
               /\ _apiX(46, k, -1).r = IF v \in {Num, Numeral} THEN 1 ELSE -1
               /\ _xapi(49, k).r = IF v \in Convertible THEN 1 ELSE 0
    <3>1. lua_absindex(k) = i /\ Value(stack, k) = v /\ v # None BY <2>4, <2>5, <2>6
    <3>2. lua_tonumberx(stack, k) = IF v \in {Num, Numeral} THEN 1 ELSE 0
      BY <3>1 DEF lua_tonumberx
    <3>3. \A def : lua_tointegerx(stack, k, def) = IF v \in {Num, Numeral} THEN 1 ELSE def
      BY <3>2 DEF lua_tointegerx
    <3>4. lua_toboolean(stack, k) = IF v \in {Nil, False} THEN 0 ELSE 1
      BY <3>1 DEF lua_toboolean
    <3> QED BY <3>1, <3>2, <3>3, <3>4, Questions, QuestionsMore
  <2>7. _apiX(15, 0, 0).r = Len(vals) BY <2>2, Questions DEF g
  <2>8. LuaType(Value(stack, Len(vals) + 1)) = -1
    <3> DEFINE k == g + 1
    <3>1. k > 0 /\ f + k > n /\ k # LUA_REGISTRYINDEX BY <2>1, <2>3 DEF LUA_REGISTRYINDEX
    <3> HIDE DEF k
    <3>2. index2addr(stack, k) = 0 BY <3>1 DEF index2addr, f, n
    <3>3. Value(stack, k) = None BY <3>1, <3>2 DEF Value
    <3>4. LuaType(None) = -1
      <4>1. None \notin {Nil, True, False, Num, Java, Env, CallM, Handler, PCall, Script} \cup Strings
        BY <2>5 DEF Values
      <4>2. None # "registry" BY DEF None
      <4> QED BY <4>1, <4>2 DEF LuaType
    <3> QED BY <3>3, <3>4, <2>2 DEF k
  <2> QED BY <2>6, <2>7, <2>8 DEF vals
<1> QED BY <1>1, FramesStand, PTL
=============================================================================
