-------------------------- MODULE ExecTimeoutProofs --------------------------
(***************************************************************************)
(* Theorems about ExecTimeout, for any set of coroutines, any period and   *)
(* limit and any bounds, and with the rules each theorem names.            *)
(***************************************************************************)
EXTENDS ExecTimeout, SequenceTheorems, TLAPS

-----------------------------------------------------------------------------
(* The chain of threads *)

\* The last entry of a chain is one of its entries.
LEMMA LastIs ==
  ASSUME TypeOK, Running
  PROVE  /\ Len(chain) \in Nat /\ Len(chain) > 0
         /\ DOMAIN chain = 1..Len(chain)
         /\ Current = chain[Len(chain)]
         /\ Current \in LuaThreads
<1>1. chain \in Seq(LuaThreads) /\ chain # <<>>
  BY DEF TypeOK, Running
<1>2. Len(chain) \in Nat /\ Len(chain) > 0 /\ DOMAIN chain = 1..Len(chain)
  BY <1>1, LenProperties
<1>3. Last(chain) = chain[Len(chain)] /\ Last(chain) \in LuaThreads
  BY <1>1, <1>2, ElementOfSeq DEF Last
<1> QED BY <1>2, <1>3 DEF Current

\* A thread that is added becomes the last one and moves none.
LEMMA AppendIs ==
  ASSUME TypeOK, NEW e \in LuaThreads, chain' = Append(chain, e)
  PROVE  /\ chain' \in Seq(LuaThreads)
         /\ DOMAIN chain' = 1..Len(chain) + 1
         /\ DOMAIN chain = 1..Len(chain)
         /\ Len(chain) \in Nat
         /\ \A i \in DOMAIN chain : chain'[i] = chain[i]
         /\ chain'[Len(chain) + 1] = e
<1>1. chain \in Seq(LuaThreads)
  BY DEF TypeOK
<1>2. /\ chain' \in Seq(LuaThreads)
      /\ Len(chain') = Len(chain) + 1
      /\ \A i \in 1..Len(chain) : chain'[i] = chain[i]
      /\ chain'[Len(chain) + 1] = e
  BY <1>1, AppendProperties
<1> QED BY <1>1, <1>2, LenProperties

\* What is left without the last thread has not moved.
LEMMA FrontIs ==
  ASSUME TypeOK, Running, chain' = Front(chain)
  PROVE  /\ chain' \in Seq(LuaThreads)
         /\ DOMAIN chain' = 1..Len(chain) - 1
         /\ \A i \in DOMAIN chain' : chain'[i] = chain[i]
<1> DEFINE n == Len(chain)
<1>1. chain \in Seq(LuaThreads) /\ n \in Nat /\ n > 0
  BY LastIs DEF TypeOK
<1>2. chain' = SubSeq(chain, 1, n - 1)
  BY DEF Front
<1>3. /\ chain' \in Seq(LuaThreads)
      /\ Len(chain') = n - 1
      /\ \A i \in 1..n - 1 : chain'[i] = chain[i]
  <2>1. \A i \in 1..n - 1 : chain[i] \in LuaThreads BY <1>1, ElementOfSeq
  <2>2. n - 1 \in Int /\ n - 1 >= 0 BY <1>1
  <2> HIDE DEF n
  <2> QED BY <1>2, <2>1, <2>2, SubSeqProperties, Z3
<1> QED BY <1>1, <1>3, LenProperties

\* The thread that resumed the running one.
LEMMA ResumerIs ==
  ASSUME TypeOK, Running, Len(chain) > 1
  PROVE  Last(Front(chain)) \in LuaThreads
<1> DEFINE n == Len(chain)
<1>1. chain \in Seq(LuaThreads) /\ n \in Nat /\ n > 1
  BY LastIs DEF TypeOK
<1>2. Front(chain) = SubSeq(chain, 1, n - 1)
  BY DEF Front
<1>3. \A i \in 1..n - 1 : chain[i] \in LuaThreads BY <1>1, ElementOfSeq
<1>4. n - 1 \in Int /\ n - 1 >= 1 BY <1>1
<1> HIDE DEF n
<1>5. /\ Front(chain) \in Seq(LuaThreads)
      /\ Len(Front(chain)) = n - 1
  BY <1>2, <1>3, <1>4, SubSeqProperties, Z3
<1> QED BY <1>4, <1>5, ElementOfSeq DEF Last

\* A frame that is entered becomes the last one of its thread.
LEMMA PushIs ==
  ASSUME TypeOK, NEW t \in LuaThreads, NEW f \in Frames, Push(t, f)
  PROVE  /\ frames' \in [LuaThreads -> Seq(Frames)]
         /\ \A u \in LuaThreads \ {t} : frames'[u] = frames[u]
         /\ Len(frames[t]) \in Nat
         /\ DOMAIN frames[t] = 1..Len(frames[t])
         /\ DOMAIN frames'[t] = 1..Len(frames[t]) + 1
         /\ \A i \in DOMAIN frames[t] : frames'[t][i] = frames[t][i]
         /\ frames'[t][Len(frames[t]) + 1] = f
<1> DEFINE s == frames[t]
<1>1. frames \in [LuaThreads -> Seq(Frames)] /\ s \in Seq(Frames)
  BY DEF TypeOK
<1>2. /\ \A u \in LuaThreads \ {t} : frames'[u] = frames[u]
      /\ frames'[t] = Append(s, f)
      /\ DOMAIN frames' = LuaThreads
      /\ frames' = [u \in LuaThreads |-> frames'[u]]
  BY <1>1 DEF Push
<1> HIDE DEF s
<1>3. /\ Append(s, f) \in Seq(Frames)
      /\ Len(Append(s, f)) = Len(s) + 1
      /\ \A i \in 1..Len(s) : Append(s, f)[i] = s[i]
      /\ Append(s, f)[Len(s) + 1] = f
  BY <1>1, AppendProperties
<1>4. \A u \in LuaThreads : frames'[u] \in Seq(Frames)
  BY <1>1, <1>2, <1>3
<1> QED BY <1>1, <1>2, <1>3, <1>4, LenProperties DEF s

\* The frames of a thread that lost its last one have not moved.
LEMMA PopIs ==
  ASSUME TypeOK, NEW t \in LuaThreads, frames[t] # <<>>, Pop(t)
  PROVE  /\ frames' \in [LuaThreads -> Seq(Frames)]
         /\ \A u \in LuaThreads \ {t} : frames'[u] = frames[u]
         /\ DOMAIN frames'[t] \subseteq DOMAIN frames[t]
         /\ \A i \in DOMAIN frames'[t] :
               /\ frames'[t][i] = frames[t][i]
               /\ 1..i \subseteq DOMAIN frames'[t]
<1> DEFINE s == frames[t]
           n == Len(frames[t])
<1>1. frames \in [LuaThreads -> Seq(Frames)] /\ s \in Seq(Frames) /\ s # <<>>
  BY DEF TypeOK
<1>2. /\ \A u \in LuaThreads \ {t} : frames'[u] = frames[u]
      /\ frames'[t] = SubSeq(s, 1, n - 1)
      /\ frames' = [u \in LuaThreads |-> frames'[u]]
  BY <1>1 DEF Pop, Front
<1>3. n \in Nat /\ n > 0 /\ DOMAIN s = 1..n
  BY <1>1, LenProperties DEF s
<1>4. \A i \in 1..n - 1 : s[i] \in Frames BY <1>1, <1>3, ElementOfSeq
<1>5. n - 1 \in Int /\ n - 1 >= 0 /\ 1..n - 1 \subseteq 1..n
      /\ \A i \in 1..n - 1 : 1..i \subseteq 1..n - 1
  BY <1>3
<1> HIDE DEF s, n
<1>6. /\ frames'[t] \in Seq(Frames)
      /\ Len(frames'[t]) = n - 1
      /\ \A i \in 1..n - 1 : frames'[t][i] = s[i]
  BY <1>2, <1>4, <1>5, SubSeqProperties, Z3
<1>7. DOMAIN frames'[t] = 1..n - 1 BY <1>6, LenProperties
<1>8. \A u \in LuaThreads : frames'[u] \in Seq(Frames)
  BY <1>1, <1>2, <1>6
<1> QED BY <1>2, <1>3, <1>5, <1>6, <1>7, <1>8 DEF s

\* What luaG_errormsg does to the frames.
LEMMA ErrorMsgIs ==
  ASSUME TypeOK, NEW t \in LuaThreads, NEW f \in Handlers, ErrorMsg(t, f)
  PROVE  /\ UNCHANGED frames \/ Push(t, f)
         /\ frames' \in [LuaThreads -> Seq(Frames)]
         /\ erring' \in BOOLEAN
<1>1. f \in Frames BY DEF Frames
<1>2. UNCHANGED frames \/ Push(t, f) BY DEF ErrorMsg
<1>3. frames' \in [LuaThreads -> Seq(Frames)]
  BY <1>1, <1>2, PushIs DEF TypeOK
<1>4. erring' \in BOOLEAN BY DEF ErrorMsg
<1> QED BY <1>2, <1>3, <1>4

-----------------------------------------------------------------------------
(* Type correctness and the hook counts *)

\* An error is raised by a thread that runs.
ErrorRuns == erring => Running

\* None of the three holds by itself: a count that is 0 before it is counted
\* down would leave its range, and so would the last entry of an empty chain.
TInv == TypeOK /\ CountsDown /\ ErrorRuns

\* At first.
LEMMA InitTInv == Init => TInv
<1> SUFFICES ASSUME Init PROVE TInv
  OBVIOUS
<1>1. hook = [t \in LuaThreads |-> 0] /\ count = [t \in LuaThreads |-> 0]
  BY DEF Init
<1>2. CountsDown
  BY <1>1 DEF CountsDown
<1>3. /\ hook \in [LuaThreads -> {0, 1, Period}]
      /\ count \in [LuaThreads -> 0..Period]
      /\ frames \in [LuaThreads -> Seq(Frames)]
  BY <1>1, PeriodAssumption, TimesAssumption DEF Init
<1>4. chain \in Seq(LuaThreads)
  BY DEF Init
<1>5. {begun, start} \subseteq 0..now /\ now \in 0..MaxTime
  BY TimesAssumption DEF Init
<1> QED BY <1>2, <1>3, <1>4, <1>5 DEF TInv, TypeOK, Init, ErrorRuns

\* The count of a thread stays in its range when it is counted down.
LEMMA CountDownIs ==
  ASSUME TInv, NEW t \in LuaThreads
  PROVE  /\ CountDown(t) \in 0..Period
         /\ hook[t] # 0 => CountDown(t) \in 1..hook[t]
BY PeriodAssumption DEF TInv, TypeOK, CountsDown, CountDown, HookDue

\* A new hook starts its count.
LEMMA SetHookIs ==
  ASSUME TInv, NEW t \in LuaThreads, NEW n \in {0, 1, Period},
         SetHook(t, n)
  PROVE  /\ hook' \in [LuaThreads -> {0, 1, Period}]
         /\ count' \in [LuaThreads -> 0..Period]
         /\ CountsDown'
<1>1. /\ hook' \in [LuaThreads -> {0, 1, Period}]
      /\ count' \in [LuaThreads -> 0..Period]
  BY PeriodAssumption DEF TInv, TypeOK, SetHook
<1>2. ASSUME NEW u \in LuaThreads, hook'[u] # 0 PROVE count'[u] \in 1..hook'[u]
  <2>1. CASE u = t
    BY <1>1, <1>2, <2>1, PeriodAssumption DEF TInv, TypeOK, SetHook
  <2>2. CASE u # t
    BY <1>1, <1>2, <2>2 DEF TInv, TypeOK, SetHook, CountsDown
  <2> QED BY <2>1, <2>2
<1> QED BY <1>1, <1>2 DEF CountsDown

\* A thread that is counted down keeps its hook, and so does every other one.
LEMMA CountedIs ==
  ASSUME TInv, NEW t \in LuaThreads, UNCHANGED hook,
         count' = [count EXCEPT ![t] = CountDown(t)]
  PROVE  /\ count' \in [LuaThreads -> 0..Period]
         /\ CountsDown'
<1>1. count' \in [LuaThreads -> 0..Period]
  BY CountDownIs DEF TInv, TypeOK
<1>2. ASSUME NEW u \in LuaThreads, hook'[u] # 0 PROVE count'[u] \in 1..hook'[u]
  <2>1. CASE u = t
    BY <1>2, <2>1, CountDownIs DEF TInv, TypeOK
  <2>2. CASE u # t
    BY <1>2, <2>2 DEF TInv, TypeOK, CountsDown
  <2> QED BY <2>1, <2>2
<1> QED BY <1>1, <1>2 DEF CountsDown

\* What an instruction does to the threads keeps their types.
Effect == \/ Compute \/ EnterPcall \/ LeaveCall \/ LeaveHandler \/ Raise
          \/ \E c \in Coroutines : Resume(c)
          \/ Yield \/ Finish \/ BeginFinalizer

ThreadTypes == /\ frames \in [LuaThreads -> Seq(Frames)]
               /\ alive \subseteq Coroutines
               /\ spent \subseteq Coroutines \ alive
               /\ chain \in Seq(LuaThreads)
               /\ erring \in BOOLEAN

\* A thread that ends can no longer be resumed.
LEMMA LeaveTypes ==
  ASSUME TypeOK, Running, LeaveThread
  PROVE  /\ alive' \subseteq Coroutines
         /\ spent' \subseteq Coroutines \ alive'
         /\ chain' \in Seq(LuaThreads)
<1>1. chain' \in Seq(LuaThreads)
  BY FrontIs DEF LeaveThread
<1>2. {Current} \ {Main} \subseteq Coroutines
  BY LastIs DEF LuaThreads
<1> QED BY <1>1, <1>2 DEF LeaveThread, TypeOK

\* What the instruction does keeps the types, and the chain where an error is
\* thrown.
LEMMA EffectTypes ==
  ASSUME TypeOK, Running, ~erring, Effect
  PROVE  ThreadTypes' /\ (erring' => chain' = chain)
<1>1. Current \in LuaThreads
  BY LastIs
<1>2. CASE Compute
  BY <1>2 DEF Compute, threadVars, TypeOK, ThreadTypes
<1>3. CASE EnterPcall
  <2>1. PICK call \in Protected : Push(Current, call)
    BY <1>3 DEF EnterPcall
  <2>2. frames' \in [LuaThreads -> Seq(Frames)]
    BY <1>1, <2>1, PushIs DEF Frames
  <2> QED BY <1>3, <2>2 DEF EnterPcall, TypeOK, ThreadTypes
<1>4. CASE LeaveCall \/ LeaveHandler
  <2>1. frames[Current] # <<>> /\ Pop(Current)
    BY <1>4 DEF LeaveCall, LeaveHandler, TopIn
  <2>2. frames' \in [LuaThreads -> Seq(Frames)]
    BY <1>1, <2>1, PopIs
  <2> QED BY <1>4, <2>2 DEF LeaveCall, LeaveHandler, TypeOK, ThreadTypes
<1>5. CASE Raise
  <2>1. frames' \in [LuaThreads -> Seq(Frames)] /\ erring' \in BOOLEAN
    BY <1>1, <1>5, ErrorMsgIs DEF Raise, Handlers
  <2> QED BY <1>5, <2>1 DEF Raise, TypeOK, ThreadTypes
<1>6. ASSUME NEW c \in Coroutines, Resume(c)
      PROVE  ThreadTypes' /\ (erring' => chain' = chain)
  <2>1. c \in LuaThreads
    BY DEF LuaThreads
  <2>2. chain' \in Seq(LuaThreads)
    BY <1>6, <2>1, AppendIs DEF Resume
  <2> QED BY <1>6, <2>2 DEF Resume, TypeOK, ThreadTypes
<1>7. CASE Yield
  <2>1. chain' \in Seq(LuaThreads)
    BY <1>7, FrontIs DEF Yield
  <2> QED BY <1>7, <2>1 DEF Yield, TypeOK, ThreadTypes
<1>8. CASE Finish
  BY <1>8, LeaveTypes DEF Finish, TypeOK, ThreadTypes
<1>9. CASE BeginFinalizer
  <2>1. frames' \in [LuaThreads -> Seq(Frames)]
    BY <1>1, <1>9, PushIs DEF BeginFinalizer, Frames
  <2> QED BY <1>9, <2>1 DEF BeginFinalizer, TypeOK, ThreadTypes
<1> QED
  BY <1>2, <1>3, <1>4, <1>5, <1>6, <1>7, <1>8, <1>9 DEF Effect

\* One step per action.
LEMMA NextTInv == TInv /\ [Next]_vars => TInv'
<1> SUFFICES ASSUME TInv, [Next]_vars PROVE TInv'
  OBVIOUS
<1> USE DEF TInv, ErrorRuns, Running
<1>1. ASSUME Tick, UNCHANGED rules PROVE TInv'
  <2>1. CountsDown'
    BY <1>1 DEF Tick, CountsDown
  <2>2. now' \in 0..MaxTime /\ {begun', start'} \subseteq 0..now'
    BY <1>1, TimesAssumption DEF Tick, TypeOK
  <2> QED BY <1>1, <2>1, <2>2 DEF Tick, TypeOK, threadVars
<1>2. ASSUME NEW begin \in BOOLEAN, SetExecuteTimeout(begin), UNCHANGED rules
      PROVE  TInv'
  <2>1. Main \in LuaThreads
    BY DEF LuaThreads
  <2>2. /\ hook' \in [LuaThreads -> {0, 1, Period}]
        /\ count' \in [LuaThreads -> 0..Period]
        /\ CountsDown'
    BY <1>2, <2>1, SetHookIs DEF SetExecuteTimeout
  <2>3. {begun', start'} \subseteq 0..now'
    BY <1>2, TimesAssumption DEF SetExecuteTimeout, TypeOK
  <2>4. alive' \subseteq Coroutines /\ spent' \subseteq Coroutines \ alive'
    BY <1>2 DEF SetExecuteTimeout, TypeOK
  <2> QED BY <1>2, <2>2, <2>3, <2>4 DEF SetExecuteTimeout, TypeOK
<1>3. ASSUME Start, UNCHANGED rules PROVE TInv'
  <2>1. chain' \in Seq(LuaThreads)
    BY <1>3 DEF Start, LuaThreads
  <2>2. CountsDown'
    BY <1>3 DEF Start, CountsDown
  <2> QED BY <1>3, <2>1, <2>2 DEF Start, TypeOK, clockVars
<1>4. ASSUME Fire, UNCHANGED rules PROVE TInv'
  <2>1. Current \in LuaThreads
    BY <1>4, LastIs DEF Fire
  <2>2. /\ hook' \in [LuaThreads -> {0, 1, Period}]
        /\ count' \in [LuaThreads -> 0..Period]
        /\ CountsDown'
    BY <1>4, <2>1, SetHookIs DEF Fire
  <2>3. frames' \in [LuaThreads -> Seq(Frames)] /\ erring' \in BOOLEAN
    BY <1>4, <2>1, ErrorMsgIs DEF Fire, Handlers
  <2> QED BY <1>4, <2>2, <2>3 DEF Fire, TypeOK, clockVars
<1>5. ASSUME Execute, UNCHANGED rules PROVE TInv'
  <2>1. Current \in LuaThreads
    BY <1>5, LastIs DEF Execute
  <2>2. ThreadTypes' /\ (erring' => chain' = chain)
    <3>1. Effect BY <1>5 DEF Execute, Effect
    <3> QED BY <1>5, <3>1, EffectTypes DEF Execute
  <2>3. count' \in [LuaThreads -> 0..Period] /\ CountsDown'
    BY <1>5, <2>1, CountedIs DEF Execute
  <2> QED BY <1>5, <2>2, <2>3 DEF Execute, TypeOK, clockVars, ThreadTypes
<1>6. ASSUME NEW c \in Coroutines, NewThread(c), UNCHANGED rules PROVE TInv'
  <2>1. Current \in LuaThreads /\ c \in LuaThreads
    BY <1>6, LastIs DEF NewThread, LuaThreads
  <2>2. hook' \in [LuaThreads -> {0, 1, Period}]
    BY <1>6, <2>1 DEF NewThread, TypeOK
  <2>3. count' = [count EXCEPT ![Current] = CountDown(Current), ![c] = hook[Current]]
    BY <1>6 DEF NewThread
  <2>4. CountDown(Current) \in 0..Period /\ hook[Current] \in 0..Period
    <3>1. hook[Current] \in {0, 1, Period} BY <2>1 DEF TypeOK
    <3>2. hook[Current] \in 0..Period BY <3>1, PeriodAssumption
    <3>3. CountDown(Current) \in 0..Period BY <2>1, CountDownIs
    <3> QED BY <3>2, <3>3
  <2>5. count' \in [LuaThreads -> 0..Period]
    BY <2>1, <2>3, <2>4 DEF TypeOK
  <2>6. ASSUME NEW u \in LuaThreads, hook'[u] # 0
        PROVE  count'[u] \in 1..hook'[u]
    <3>1. CASE u = c
      <4>1. count'[u] = hook[Current] /\ hook'[u] = hook[Current]
        BY <1>6, <2>1, <2>3, <3>1 DEF NewThread, TypeOK
      <4> QED BY <2>6, <4>1, <2>4, PeriodAssumption
    <3>2. CASE u # c /\ u = Current
      <4>1. count'[u] = CountDown(u) /\ hook'[u] = hook[u]
        BY <1>6, <2>1, <2>3, <3>2 DEF NewThread, TypeOK
      <4> QED BY <2>6, <4>1, CountDownIs
    <3>3. CASE u # c /\ u # Current
      <4>1. count'[u] = count[u] /\ hook'[u] = hook[u]
        BY <1>6, <2>1, <2>3, <3>3 DEF NewThread, TypeOK
      <4> QED BY <2>6, <4>1 DEF CountsDown
    <3> QED BY <3>1, <3>2, <3>3
  <2>7. CountsDown'
    BY <2>6 DEF CountsDown
  <2> QED BY <1>6, <2>2, <2>5, <2>7 DEF NewThread, TypeOK, clockVars
<1>7. ASSUME Unwind, UNCHANGED rules PROVE TInv'
  <2>1. CountsDown'
    BY <1>7 DEF Unwind, CountsDown
  <2>2. Running /\ Current \in LuaThreads /\ Len(chain) \in Nat /\ Len(chain) > 0
    BY <1>7, LastIs DEF Unwind
  <2>3. CASE UnwindFrame
    <3>1. frames' \in [LuaThreads -> Seq(Frames)]
      BY <2>2, <2>3, PopIs DEF UnwindFrame
    <3>2. erring' \in BOOLEAN BY <2>3 DEF UnwindFrame, TopIn
    <3> QED BY <1>7, <2>1, <2>3, <3>1, <3>2 DEF Unwind, UnwindFrame, TypeOK, clockVars
  <2>4. CASE UnwindThread
    <3>1. /\ alive' \subseteq Coroutines
          /\ spent' \subseteq Coroutines \ alive'
          /\ chain' \in Seq(LuaThreads)
      BY <2>2, <2>4, LeaveTypes DEF UnwindThread
    <3>2. CASE erring' = FALSE /\ UNCHANGED frames
      BY <1>7, <2>1, <3>1, <3>2 DEF Unwind, TypeOK, clockVars
    <3>3. CASE Len(chain) > 1 /\ ErrorMsg(Last(Front(chain)), "handler")
      <4>1. frames' \in [LuaThreads -> Seq(Frames)] /\ erring' \in BOOLEAN
        BY <2>2, <3>3, ResumerIs, ErrorMsgIs DEF Handlers
      <4>2. Running'
        <5> DEFINE n == Len(chain)
        <5>1. n \in Nat /\ n > 1 BY <2>2, <3>3
        <5>2. DOMAIN chain' = 1..n - 1 BY <2>2, <2>4, FrontIs DEF UnwindThread, LeaveThread
        <5> HIDE DEF n
        <5>3. 1 \in 1..n - 1 BY <5>1
        <5>4. DOMAIN chain' # {} BY <5>2, <5>3
        <5>5. chain' = <<>> => DOMAIN chain' = {} OBVIOUS
        <5> QED BY <5>4, <5>5
      <4> QED BY <1>7, <2>1, <3>1, <4>1, <4>2 DEF Unwind, TypeOK, clockVars
    <3> QED BY <2>4, <3>2, <3>3 DEF UnwindThread
  <2> QED BY <1>7, <2>3, <2>4 DEF Unwind
<1>8. CASE UNCHANGED vars
  BY <1>8 DEF vars, moving, TypeOK, CountsDown
<1> QED
  BY <1>1, <1>2, <1>3, <1>4, <1>5, <1>6, <1>7, <1>8
     DEF Next, Step, Interpreter

\* The clock, the hooks and the threads keep their types, whatever scripts do.
THEOREM TypeCorrect == Spec => []TypeOK
<1>1. TInv => TypeOK BY DEF TInv
<1> QED BY <1>1, InitTInv, NextTInv, PTL DEF Spec

\* No thread with a hook can count past zero and run on for ever unchecked.
THEOREM CountsStayDown == Spec => []CountsDown
<1>1. TInv => CountsDown BY DEF TInv
<1> QED BY <1>1, InitTInv, NextTInv, PTL DEF Spec

-----------------------------------------------------------------------------
(* When the hook strikes, and what the script can do then *)

\* A thread is in the chain once.
ChainOnce == \A i, j \in DOMAIN chain : i < j => chain[i] # chain[j]

\* A coroutine in the chain can be resumed again later.
ChainAlive == \A i \in DOMAIN chain : chain[i] \in {Main} \cup alive

\* The hooks of all threads that may run belong to the timeout that is on.  One
\* that has struck did so with the present start time.
HooksOn ==
    "fresh" \in rules =>
        /\ on => start = begun
        /\ \A t \in {Main} \cup alive :
              /\ hook[t] # 0 => on
              /\ hook[t] = 1 => now - start >= Limit

SInv == TInv /\ ChainOnce /\ ChainAlive /\ HooksOn

\* At first only the main thread runs.
LEMMA InitSInv == Init => SInv
<1> SUFFICES ASSUME Init PROVE SInv
  OBVIOUS
<1>1. TInv
  BY InitTInv
<1>2. chain = <<>> /\ hook = [t \in LuaThreads |-> 0] /\ on = FALSE
  BY DEF Init
<1>3. DOMAIN chain = {}
  BY <1>2
<1>4. \A t \in {Main} \cup alive : hook[t] = 0
  BY <1>1, <1>2 DEF TInv, TypeOK, LuaThreads
<1> QED BY <1>1, <1>2, <1>3, <1>4 DEF SInv, ChainOnce, ChainAlive, HooksOn

\* The running thread leaves the chain; it may be the end of it.
LEMMA PopChain ==
  ASSUME TypeOK, Running, ChainOnce, ChainAlive, chain' = Front(chain),
         \A t \in alive \ alive' : t = Current
  PROVE  ChainOnce' /\ ChainAlive'
<1> DEFINE n == Len(chain)
<1>1. n \in Nat /\ n > 0 /\ DOMAIN chain = 1..n /\ Current = chain[n]
  BY LastIs
<1>2. /\ DOMAIN chain' = 1..n - 1
      /\ \A i \in DOMAIN chain' : chain'[i] = chain[i]
  BY FrontIs
<1> HIDE DEF n
<1>3. \A i \in 1..n - 1 : i \in 1..n /\ n \in 1..n /\ i < n
  BY <1>1
<1>4. ChainOnce'
  BY <1>1, <1>2, <1>3 DEF ChainOnce
<1>5. \A i \in DOMAIN chain' : chain'[i] \in {Main} \cup alive /\ chain'[i] # Current
  BY <1>1, <1>2, <1>3 DEF ChainOnce, ChainAlive
<1>6. ChainAlive'
  BY <1>5 DEF ChainAlive
<1> QED BY <1>4, <1>6

\* A coroutine that is not there joins the chain.
LEMMA PushChain ==
  ASSUME TypeOK, ChainOnce, ChainAlive, NEW c \in LuaThreads,
         chain' = Append(chain, c), UNCHANGED alive, c \in alive, ~InChain(c)
  PROVE  ChainOnce' /\ ChainAlive'
<1> DEFINE n == Len(chain)
<1>1. /\ n \in Nat /\ DOMAIN chain = 1..n /\ DOMAIN chain' = 1..n + 1
      /\ \A i \in DOMAIN chain : chain'[i] = chain[i]
      /\ chain'[n + 1] = c
  BY AppendIs
<1> HIDE DEF n
<1>2. \A i \in 1..n + 1 : i \in 1..n \/ i = n + 1
  BY <1>1
<1>3. \A i \in DOMAIN chain : chain[i] # c
  BY DEF InChain, Range
<1>4. ChainOnce'
  BY <1>1, <1>2, <1>3 DEF ChainOnce
<1>5. ChainAlive'
  BY <1>1, <1>2 DEF ChainAlive
<1> QED BY <1>4, <1>5

\* The running thread is the main thread or can be resumed.
LEMMA CurrentAlive ==
  ASSUME TypeOK, Running, ChainAlive
  PROVE  Current \in {Main} \cup alive
<1>1. Len(chain) \in DOMAIN chain /\ Current = chain[Len(chain)]
  BY LastIs
<1> QED BY <1>1 DEF ChainAlive

\* What the instruction does keeps the chain.
LEMMA EffectChain ==
  ASSUME TypeOK, Running, ChainOnce, ChainAlive, Effect
  PROVE  ChainOnce' /\ ChainAlive' /\ alive' \subseteq alive
<1>1. CASE Compute \/ EnterPcall \/ LeaveCall \/ LeaveHandler \/ Raise \/ BeginFinalizer
  BY <1>1 DEF Compute, EnterPcall, LeaveCall, LeaveHandler, Raise, BeginFinalizer,
              threadVars, ChainOnce, ChainAlive
<1>2. ASSUME NEW c \in Coroutines, Resume(c)
      PROVE  ChainOnce' /\ ChainAlive' /\ alive' \subseteq alive
  BY <1>2, PushChain DEF Resume, LuaThreads
<1>3. CASE Yield
  BY <1>3, PopChain DEF Yield
<1>4. CASE Finish
  BY <1>4, PopChain DEF Finish, LeaveThread
<1> QED
  BY <1>1, <1>2, <1>3, <1>4 DEF Effect

\* A step that leaves the clock, the timeout and the hooks alone, and revives no
\* coroutine, keeps HooksOn.
LEMMA SameHooks ==
  ASSUME HooksOn, UNCHANGED <<rules, hook, clockVars>>, alive' \subseteq alive
  PROVE  HooksOn'
BY DEF HooksOn, clockVars

\* One step per action.
LEMMA NextSInv == SInv /\ [Next]_vars => SInv'
<1> SUFFICES ASSUME SInv, [Next]_vars PROVE (ChainOnce /\ ChainAlive /\ HooksOn)'
  BY NextTInv DEF SInv
<1> USE DEF SInv
<1>a. TypeOK /\ hook \in [LuaThreads -> {0, 1, Period}] /\ alive \subseteq LuaThreads
      /\ Main \in LuaThreads
  BY DEF TInv, TypeOK, LuaThreads
<1>1. ASSUME Tick, UNCHANGED rules PROVE (ChainOnce /\ ChainAlive /\ HooksOn)'
  <2>1. ChainOnce' /\ ChainAlive'
    BY <1>1 DEF Tick, threadVars, ChainOnce, ChainAlive
  <2>2. now' = now + 1 /\ now \in Nat /\ start \in Nat /\ start' = start
    BY <1>1, <1>a, TimesAssumption DEF Tick, TypeOK
  <2>3. now - start >= Limit => now' - start' >= Limit
    BY <2>2, TimesAssumption
  <2>4. HooksOn'
    BY <1>1, <2>3 DEF Tick, threadVars, HooksOn
  <2> QED BY <2>1, <2>4
<1>2. ASSUME NEW begin \in BOOLEAN, SetExecuteTimeout(begin), UNCHANGED rules
      PROVE  (ChainOnce /\ ChainAlive /\ HooksOn)'
  <2>1. ChainOnce'
    BY <1>2 DEF SetExecuteTimeout, ChainOnce
  <2>2. CASE "fresh" \notin rules
    BY <1>2, <2>1, <2>2 DEF SetExecuteTimeout, ChainAlive, HooksOn
  <2>3. CASE "fresh" \in rules
    <3>1. alive' = {} /\ chain' = chain /\ on' = begin
      BY <1>2, <2>3 DEF SetExecuteTimeout
    <3>2. \A i \in DOMAIN chain : chain[i] = Main
      <4>1. \A c \in Coroutines : ~InChain(c)
        BY <1>2, <2>3 DEF SetExecuteTimeout
      <4>2. alive \subseteq Coroutines
        BY <1>a DEF TypeOK
      <4> QED BY <4>1, <4>2 DEF ChainAlive, InChain, Range
    <3>3. ChainAlive'
      BY <3>1, <3>2 DEF ChainAlive
    <3>4. hook'[Main] = IF begin THEN Period ELSE 0
      BY <1>2, <1>a DEF SetExecuteTimeout, SetHook
    <3>5. on' => start' = begun'
      BY <1>2 DEF SetExecuteTimeout
    <3>6. HooksOn'
      BY <3>1, <3>4, <3>5, PeriodAssumption DEF HooksOn
    <3> QED BY <2>1, <3>3, <3>6
  <2> QED BY <2>2, <2>3
<1>3. ASSUME Start, UNCHANGED rules PROVE (ChainOnce /\ ChainAlive /\ HooksOn)'
  <2>1. chain' = <<Main>> /\ UNCHANGED alive
    BY <1>3 DEF Start
  <2>2. DOMAIN chain' = {1} /\ chain'[1] = Main
    BY <2>1
  <2>3. ChainOnce' /\ ChainAlive'
    BY <2>2 DEF ChainOnce, ChainAlive
  <2> QED BY <1>3, <2>3, SameHooks DEF Start
<1>4. ASSUME Fire, UNCHANGED rules PROVE (ChainOnce /\ ChainAlive /\ HooksOn)'
  <2>1. ChainOnce' /\ ChainAlive'
    BY <1>4 DEF Fire, ChainOnce, ChainAlive
  <2>2. hook' = [hook EXCEPT ![Current] = 1]
    BY <1>4 DEF Fire, SetHook
  <2>3. hook[Current] # 0 /\ now - start >= Limit
    BY <1>4 DEF Fire, Fires, HookDue
  <2>4. Current \in {Main} \cup alive
    BY <1>4, <1>a, CurrentAlive DEF Fire
  <2>5. UNCHANGED <<alive, clockVars>>
    BY <1>4 DEF Fire
  <2>6. \A t \in {Main} \cup alive : hook'[t] = IF t = Current THEN 1 ELSE hook[t]
    BY <1>a, <2>2
  <2>7. HooksOn'
    BY <1>4, <2>3, <2>4, <2>5, <2>6 DEF HooksOn, clockVars
  <2> QED BY <2>1, <2>7
<1>5. ASSUME Execute, UNCHANGED rules PROVE (ChainOnce /\ ChainAlive /\ HooksOn)'
  <2>1. Effect
    BY <1>5 DEF Execute, Effect
  <2>2. ChainOnce' /\ ChainAlive' /\ alive' \subseteq alive
    BY <1>5, <1>a, <2>1, EffectChain DEF Execute
  <2> QED BY <1>5, <2>2, SameHooks DEF Execute
<1>6. ASSUME NEW c \in Coroutines, NewThread(c), UNCHANGED rules
      PROVE  (ChainOnce /\ ChainAlive /\ HooksOn)'
  <2>1. ChainOnce' /\ ChainAlive'
    BY <1>6 DEF NewThread, ChainOnce, ChainAlive
  <2>2. Current \in {Main} \cup alive
    BY <1>6, <1>a, CurrentAlive DEF NewThread
  <2>3. hook' = [hook EXCEPT ![c] = hook[Current]] /\ alive' = alive \cup {c}
    BY <1>6 DEF NewThread
  <2>4. c \in LuaThreads
    BY DEF LuaThreads
  <2>5. \A t \in {Main} \cup alive' :
           hook'[t] = IF t = c THEN hook[Current] ELSE hook[t]
    BY <1>a, <2>3, <2>4
  <2>6. HooksOn'
    BY <1>6, <2>2, <2>3, <2>5 DEF NewThread, HooksOn, clockVars
  <2> QED BY <2>1, <2>6
<1>7. ASSUME Unwind, UNCHANGED rules PROVE (ChainOnce /\ ChainAlive /\ HooksOn)'
  <2>1. Running
    BY <1>7 DEF Unwind, TInv, ErrorRuns
  <2>2. CASE UnwindFrame
    <3>1. UNCHANGED <<alive, chain>>
      BY <2>2 DEF UnwindFrame
    <3>2. ChainOnce' /\ ChainAlive'
      BY <3>1 DEF ChainOnce, ChainAlive
    <3> QED BY <1>7, <3>1, <3>2, SameHooks DEF Unwind
  <2>3. CASE UnwindThread
    <3>1. chain' = Front(chain) /\ alive' = alive \ {Current}
      BY <2>3 DEF UnwindThread, LeaveThread
    <3> QED BY <1>7, <1>a, <2>1, <3>1, PopChain, SameHooks DEF Unwind
  <2> QED BY <1>7, <2>2, <2>3 DEF Unwind
<1>8. CASE UNCHANGED vars
  BY <1>8 DEF vars, moving, ChainOnce, ChainAlive, HooksOn
<1> QED
  BY <1>1, <1>2, <1>3, <1>4, <1>5, <1>6, <1>7, <1>8
     DEF Next, Step, Interpreter

\* It holds in every behaviour.
LEMMA SpecSInv == Spec => []SInv
BY InitSInv, NextSInv, PTL DEF Spec

-----------------------------------------------------------------------------
(* When clockHook strikes, and what follows *)

\* Where the hook of the running thread strikes, the timeout is on and over.
LEMMA StrikeDue ==
  ASSUME SInv, Running, Fires(Current), "fresh" \in rules
  PROVE  on /\ now - begun >= Limit
<1>1. Current \in {Main} \cup alive
  BY CurrentAlive DEF SInv, TInv
<1>2. hook[Current] # 0 /\ now - start >= Limit
  BY DEF Fires, HookDue
<1> QED BY <1>1, <1>2 DEF SInv, HooksOn

\* clockHook (luajni.c) never ends a script early or without a timeout.
THEOREM StrikesOnlyWhenDue == Spec => StrikesWhenDue
<1>1. SInv => [Fire /\ "fresh" \in rules => on /\ now - begun >= Limit]_vars
  BY StrikeDue DEF Fire
<1> QED BY <1>1, SpecSInv, PTL DEF StrikesWhenDue

\* A thread in which clockHook has struck cannot run an instruction where hooks
\* are allowed: its count is 1, and the limit is still over.
LEMMA StruckFires ==
  ASSUME SInv, Running, AllowHook(Current), hook[Current] = 1, "fresh" \in rules
  PROVE  Fires(Current)
<1>1. Current \in LuaThreads
  BY LastIs DEF SInv, TInv
<1>2. count[Current] = 1
  <2>1. count[Current] \in 1..hook[Current]
    BY <1>1 DEF SInv, TInv, CountsDown
  <2> QED BY <2>1
<1>3. now - start >= Limit
  BY CurrentAlive DEF SInv, TInv, HooksOn
<1> QED BY <1>2, <1>3 DEF Fires, HookDue

\* A new frame is a way back only if it is a protected call and hooks are on.
LEMMA PushWays ==
  ASSUME TypeOK, NEW t \in LuaThreads, NEW u \in LuaThreads, NEW f \in Frames,
         Push(u, f), u = t => f \notin Protected \/ ~AllowHook(t)
  PROVE  WaysBack(t)' \subseteq WaysBack(t)
<1>1. CASE u # t
  <2>1. frames'[t] = frames[t] BY <1>1, PushIs
  <2> QED BY <2>1 DEF WaysBack
<1>2. CASE u = t
  <2> DEFINE n == Len(frames[t])
  <2>1. /\ n \in Nat /\ DOMAIN frames[t] = 1..n /\ DOMAIN frames'[t] = 1..n + 1
        /\ \A i \in DOMAIN frames[t] : frames'[t][i] = frames[t][i]
        /\ frames'[t][n + 1] = f
    BY <1>2, PushIs
  <2> HIDE DEF n
  <2>2. \A i \in 1..n + 1 : i \in 1..n \/ i = n + 1
    BY <2>1
  <2>3. \A i \in 1..n : \A j \in 1..i : j \in 1..n /\ j \in 1..n + 1
    BY <2>1
  <2>4. n + 1 \notin WaysBack(t)'
    <3>1. CASE f \notin Protected BY <2>1, <3>1 DEF WaysBack
    <3>2. CASE ~AllowHook(t)
      <4>1. PICK j \in 1..n : HookOff(frames[t][j]) BY <2>1, <3>2 DEF AllowHook
      <4>2. j \in 1..n + 1 /\ frames'[t][j] = frames[t][j] BY <2>1
      <4> QED BY <4>1, <4>2 DEF WaysBack
    <3> QED BY <1>2, <3>1, <3>2
  <2>5. \A i \in 1..n : i \in WaysBack(t)' => i \in WaysBack(t)
    BY <2>1, <2>3 DEF WaysBack
  <2>6. WaysBack(t)' \subseteq 1..n + 1 BY <2>1 DEF WaysBack
  <2> QED BY <2>2, <2>4, <2>5, <2>6
<1> QED BY <1>1, <1>2

\* A frame that ends leaves fewer.
LEMMA PopWays ==
  ASSUME TypeOK, NEW t \in LuaThreads, NEW u \in LuaThreads, frames[u] # <<>>, Pop(u)
  PROVE  WaysBack(t)' \subseteq WaysBack(t)
<1>1. CASE u # t
  <2>1. frames'[t] = frames[t] BY <1>1, PopIs
  <2> QED BY <2>1 DEF WaysBack
<1>2. CASE u = t
  BY <1>2, PopIs DEF WaysBack
<1> QED BY <1>1, <1>2

\* After clockHook has struck, the script enters no protected call there, nor
\* does a handler that the strike calls, in which it could go on.
THEOREM NoWayBackIntoScript == Spec => NoWayBack
<1>1. SInv /\ [Next]_vars
        => [\A t \in LuaThreads :
              "fresh" \in rules /\ hook[t] = 1 /\ hook'[t] = 1 =>
                 WaysBack(t)' \subseteq WaysBack(t)]_vars
  <2> SUFFICES ASSUME SInv, [Next]_vars, NEW t \in LuaThreads,
                      "fresh" \in rules, hook[t] = 1
               PROVE  WaysBack(t)' \subseteq WaysBack(t)
    OBVIOUS
  <2>a. TypeOK /\ Handlers \cap Protected = {} /\ "gc" \notin Protected
        /\ Handlers \cup {"gc"} \subseteq Frames /\ Protected \subseteq Frames
    BY DEF SInv, TInv, Handlers, Protected, Frames
  <2>b. Running => Current \in LuaThreads BY <2>a, LastIs
  <2>1. CASE UNCHANGED frames BY <2>1 DEF WaysBack
  <2>2. ASSUME NEW u \in LuaThreads, NEW f \in Handlers, ErrorMsg(u, f)
        PROVE  WaysBack(t)' \subseteq WaysBack(t)
    BY <2>1, <2>2, <2>a, ErrorMsgIs, PushWays
  <2>3. CASE Fire
    BY <2>2, <2>3, <2>b DEF Fire, Handlers
  <2>4. CASE Execute
    <3>0. Running /\ ~Fires(Current) BY <2>4 DEF Execute
    <3>1. CASE EnterPcall
      <4>1. PICK call \in Protected : Push(Current, call) BY <3>1 DEF EnterPcall
      <4>2. Current = t => ~AllowHook(t) BY <3>0, StruckFires
      <4> QED BY <2>a, <2>b, <3>0, <4>1, <4>2, PushWays
    <3>2. CASE LeaveCall \/ LeaveHandler
      BY <2>a, <2>b, <3>0, <3>2, PopWays DEF LeaveCall, LeaveHandler, TopIn
    <3>3. CASE Raise BY <2>2, <2>b, <3>0, <3>3 DEF Raise, Handlers
    <3>4. CASE BeginFinalizer
      BY <2>a, <2>b, <3>0, <3>4, PushWays DEF BeginFinalizer
    <3> QED
      BY <2>1, <2>4, <3>1, <3>2, <3>3, <3>4
         DEF Execute, Compute, Resume, Yield, Finish, threadVars
  <2>5. CASE Unwind
    <3>0. Running BY <2>5 DEF Unwind, SInv, TInv, ErrorRuns
    <3>1. CASE UnwindFrame BY <2>a, <2>b, <3>0, <3>1, PopWays DEF UnwindFrame
    <3>2. CASE UnwindThread
      BY <2>1, <2>2, <2>a, <3>0, <3>2, ResumerIs DEF UnwindThread, Handlers
    <3> QED BY <2>5, <3>1, <3>2 DEF Unwind
  <2> QED
    BY <2>1, <2>3, <2>4, <2>5
       DEF Next, Step, Interpreter, Tick, SetExecuteTimeout, Start, NewThread,
           threadVars, vars, moving
<1> QED BY <1>1, SpecSInv, PTL DEF Spec, NoWayBack
=============================================================================
