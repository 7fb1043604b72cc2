------------------------- MODULE StateManagerProofs -------------------------
(***************************************************************************)
(* Theorems about StateManager, for any set of threads and of states, any  *)
(* depth of nesting and the usage rules each theorem names.                *)
(***************************************************************************)
EXTENDS StateManager, DataLemmas

-----------------------------------------------------------------------------
(* Lemmas about data *)

\* getNextStateIndex always finds a slot: the first null, or one past the end.
LEMMA FirstFreeIs ==
  ASSUME NEW S, NEW s \in Seq(S)
  PROVE  /\ FirstFree(s) \in 1..Len(s) + 1
         /\ FirstFree(s) = Len(s) + 1 \/ s[FirstFree(s)] = Null
         /\ \A j \in 1..FirstFree(s) - 1 : s[j] # Null
<1> DEFINE T == {i \in 1..Len(s) + 1 : i = Len(s) + 1 \/ s[i] = Null}
<1>1. T \subseteq Nat /\ Len(s) + 1 \in T
  OBVIOUS
<1>2. PICK x \in T : \A y \in T : x <= y
  <2> HIDE DEF T
  <2> QED BY <1>1, LeastNatural
<1>3. \A j \in 1..x - 1 : s[j] # Null
  BY <1>2
<1> QED BY <1>2, <1>3 DEF FirstFree

\* ArrayList.add(int, E): what is before the index stays, the rest moves up.
LEMMA InsertAtIs ==
  ASSUME NEW S, NEW s \in Seq(S), NEW i \in 1..Len(s) + 1, NEW e \in S
  PROVE  /\ InsertAt(s, i, e) \in Seq(S)
         /\ DOMAIN InsertAt(s, i, e) = 1..Len(s) + 1
         /\ \A j \in 1..Len(s) + 1 : InsertAt(s, i, e)[j] =
               IF j < i THEN s[j] ELSE IF j = i THEN e ELSE s[j - 1]
<1> DEFINE a == SubSeq(s, 1, i - 1)
           b == SubSeq(s, i, Len(s))
<1>1. /\ a \in Seq(S)
      /\ Len(a) = i - 1
      /\ \A j \in 1..i - 1 : a[j] = s[j]
  <2>1. \A j \in 1..i - 1 : s[j] \in S BY ElementOfSeq
  <2> HIDE DEF a
  <2>2. i - 1 \in Int OBVIOUS
  <2> QED BY <2>1, <2>2, SubSeqProperties, Z3 DEF a
<1>2. /\ b \in Seq(S)
      /\ Len(b) = Len(s) - i + 1
      /\ \A j \in 1..Len(s) - i + 1 : b[j] = s[i + j - 1]
  <2>1. \A j \in i..Len(s) : s[j] \in S BY ElementOfSeq
  <2> HIDE DEF b
  <2>2. i \in Int /\ Len(s) \in Int OBVIOUS
  <2> QED BY <2>1, <2>2, SubSeqProperties, Z3 DEF b
<1>3. /\ <<e>> \in Seq(S) /\ Len(<<e>>) = 1 /\ <<e>>[1] = e
  OBVIOUS
<1> HIDE DEF a, b
<1> DEFINE c == a \o <<e>>
<1>4. /\ c \in Seq(S) /\ Len(c) = i
      /\ \A j \in 1..i : c[j] = IF j < i THEN s[j] ELSE e
  BY <1>1, <1>3, ConcatProperties
<1> HIDE DEF c
<1> DEFINE d == c \o b
<1>5. /\ d \in Seq(S) /\ Len(d) = Len(s) + 1
      /\ \A j \in 1..Len(s) + 1 : d[j] = IF j <= i THEN c[j] ELSE b[j - i]
  <2>1. /\ d \in Seq(S) /\ Len(d) = Len(c) + Len(b)
        /\ \A j \in 1..Len(c) + Len(b) :
              d[j] = IF j <= Len(c) THEN c[j] ELSE b[j - Len(c)]
    <3>1. b \in Seq(S) /\ c \in Seq(S) BY <1>2, <1>4
    <3> QED BY <3>1, ConcatProperties, Zenon
  <2>2. Len(c) + Len(b) = Len(s) + 1 /\ Len(c) = i BY <1>2, <1>4
  <2> HIDE DEF d
  <2> QED BY <2>1, <2>2
<1>6. InsertAt(s, i, e) = d
  BY DEF InsertAt, a, b, c
<1> HIDE DEF d
<1>7. ASSUME NEW j \in 1..Len(s) + 1
      PROVE  d[j] = IF j < i THEN s[j] ELSE IF j = i THEN e ELSE s[j - 1]
  <2>1. CASE j <= i BY <2>1, <1>4, <1>5
  <2>2. CASE j > i
    <3>1. j - i \in 1..Len(s) - i + 1 BY <2>2
    <3>2. b[j - i] = s[i + (j - i) - 1] BY <3>1, <1>2
    <3> QED BY <2>2, <3>2, <1>5
  <2> QED BY <2>1, <2>2
<1> QED BY <1>5, <1>6, <1>7, LenProperties

-----------------------------------------------------------------------------
(* What the three operations on a call stack do *)

\* Push adds one frame to the stack of t and leaves every other one.
LEMMA PushIs ==
  ASSUME TypeOK, NEW t \in Threads, NEW f \in Frame, Push(t, f)
  PROVE  /\ frames' \in [Threads -> Seq(Frame)]
         /\ \A u \in Threads : u # t => frames'[u] = frames[u]
         /\ DOMAIN frames'[t] = 1..Len(frames[t]) + 1
         /\ DOMAIN frames[t] = 1..Len(frames[t])
         /\ Len(frames[t]) \in Nat
         /\ \A i \in DOMAIN frames[t] : frames'[t][i] = frames[t][i]
         /\ frames'[t][Len(frames[t]) + 1] = f
<1>1. frames \in [Threads -> Seq(Frame)] /\ frames[t] \in Seq(Frame)
  BY DEF TypeOK
<1>2. frames'[t] = Append(frames[t], f)
  BY <1>1 DEF Push
<1>3. \A u \in Threads : u # t => frames'[u] = frames[u]
  BY <1>1 DEF Push
<1>4. /\ frames'[t] \in Seq(Frame)
      /\ Len(frames'[t]) = Len(frames[t]) + 1
      /\ \A i \in 1..Len(frames[t]) : frames'[t][i] = frames[t][i]
      /\ frames'[t][Len(frames[t]) + 1] = f
  BY <1>1, <1>2, AppendProperties
<1>5. frames' \in [Threads -> Seq(Frame)]
  BY <1>1, <1>2, <1>4 DEF Push
<1> QED BY <1>1, <1>3, <1>4, <1>5, LenProperties

\* Pop takes the last frame of t away and leaves every other one.
LEMMA PopIs ==
  ASSUME TypeOK, NEW t \in Threads, frames[t] # <<>>, Pop(t)
  PROVE  /\ frames' \in [Threads -> Seq(Frame)]
         /\ \A u \in Threads : u # t => frames'[u] = frames[u]
         /\ DOMAIN frames'[t] = 1..Len(frames[t]) - 1
         /\ DOMAIN frames[t] = 1..Len(frames[t])
         /\ Len(frames[t]) \in Nat /\ Len(frames[t]) > 0
         /\ \A i \in DOMAIN frames'[t] : frames'[t][i] = frames[t][i]
         /\ Top(t) = frames[t][Len(frames[t])]
<1> DEFINE n == Len(frames[t])
<1>1. frames \in [Threads -> Seq(Frame)] /\ frames[t] \in Seq(Frame)
  BY DEF TypeOK
<1>2. n \in Nat /\ n > 0
  BY <1>1
<1>3. frames'[t] = SubSeq(frames[t], 1, n - 1)
  BY <1>1 DEF Pop, Front
<1>4. \A u \in Threads : u # t => frames'[u] = frames[u]
  BY <1>1 DEF Pop
<1>5. /\ frames'[t] \in Seq(Frame)
      /\ Len(frames'[t]) = n - 1
      /\ \A i \in 1..n - 1 : frames'[t][i] = frames[t][i]
  <2>1. \A i \in 1..n - 1 : frames[t][i] \in Frame BY <1>1, <1>2, ElementOfSeq
  <2>2. n - 1 \in Int /\ n - 1 >= 0 BY <1>2
  <2> HIDE DEF n
  <2> QED BY <1>3, <2>1, <2>2, SubSeqProperties, Z3
<1>6. frames' \in [Threads -> Seq(Frame)]
  BY <1>1, <1>3, <1>5 DEF Pop, Front
<1> QED BY <1>1, <1>2, <1>4, <1>5, <1>6, LenProperties DEF Top, Last

\* Advance changes how far the close() in the last frame of t is, no more.
LEMMA AdvanceIs ==
  ASSUME TypeOK, NEW t \in Threads, NEW s \in Stages, frames[t] # <<>>,
         Advance(t, s)
  PROVE  /\ frames' \in [Threads -> Seq(Frame)]
         /\ \A u \in Threads : u # t => frames'[u] = frames[u]
         /\ DOMAIN frames'[t] = 1..Len(frames[t])
         /\ DOMAIN frames[t] = 1..Len(frames[t])
         /\ Len(frames[t]) \in Nat /\ Len(frames[t]) > 0
         /\ \A i \in DOMAIN frames[t] : frames'[t][i] =
               IF i = Len(frames[t]) THEN CloseFrame(Top(t).of, s)
                                     ELSE frames[t][i]
         /\ Top(t) = frames[t][Len(frames[t])]
         /\ Top(t) \in Frame
<1> DEFINE n == Len(frames[t])
           f == CloseFrame(Top(t).of, s)
<1>1. frames \in [Threads -> Seq(Frame)] /\ frames[t] \in Seq(Frame)
  BY DEF TypeOK
<1>2. n \in Nat /\ n > 0
  BY <1>1
<1>3. Top(t) = frames[t][n] /\ Top(t) \in Frame
  BY <1>1, <1>2, ElementOfSeq DEF Top, Last
<1>4. f \in Frame
  BY <1>3 DEF Frame, CloseFrame
<1>5. frames'[t] = [frames[t] EXCEPT ![n] = f]
  BY <1>1 DEF Advance, ReplaceAt
<1>6. \A u \in Threads : u # t => frames'[u] = frames[u]
  BY <1>1 DEF Advance
<1>7. /\ frames'[t] \in Seq(Frame)
      /\ Len(frames'[t]) = n
      /\ \A i \in 1..n : frames'[t][i] = IF i = n THEN f ELSE frames[t][i]
  <2> HIDE DEF f, n
  <2> QED BY <1>1, <1>2, <1>4, <1>5, ExceptSeq, Z3 DEF n
<1>8. frames' \in [Threads -> Seq(Frame)]
  BY <1>1, <1>5, <1>7 DEF Advance, ReplaceAt
<1> QED BY <1>1, <1>2, <1>3, <1>6, <1>7, <1>8, LenProperties

\* removeState puts null under the id of the state and changes no other slot.
LEMMA RemoveStateIs ==
  ASSUME TypeOK, NEW t \in Threads, RemoveState(t)
  PROVE  /\ states' \in Seq(LuaStates \cup {Null})
         /\ DOMAIN states = 1..Len(states)
         /\ DOMAIN states' = DOMAIN states
         /\ \A j \in DOMAIN states : states'[j] =
               IF j = stateId[Top(t).of] THEN Null ELSE states[j]
<1> DEFINE S == LuaStates \cup {Null}
           i == stateId[Top(t).of]
<1>1. states \in Seq(S) /\ Null \in S
  BY DEF TypeOK
<1>2. DOMAIN states = 1..Len(states)
  BY <1>1, LenProperties
<1>3. states' = IF i \in DOMAIN states THEN [states EXCEPT ![i] = Null] ELSE states
  BY DEF RemoveState
<1> HIDE DEF S, i
<1>4. CASE i \in DOMAIN states
  <2>1. /\ states' \in Seq(S) /\ Len(states') = Len(states)
        /\ \A j \in 1..Len(states) : states'[j] = IF j = i THEN Null ELSE states[j]
    BY <1>1, <1>2, <1>3, <1>4, ExceptSeq
  <2> QED BY <1>2, <2>1, LenProperties DEF S, i
<1>5. CASE i \notin DOMAIN states
  BY <1>1, <1>2, <1>3, <1>5 DEF S, i
<1> QED BY <1>4, <1>5

-----------------------------------------------------------------------------
(* Type correctness *)

\* At first no state is there.
LEMMA InitTypeOK == Init => TypeOK
BY DEF Init, TypeOK

\* Each of the nine kinds of step keeps every variable in its type.
LEMMA NextTypeOK == TypeOK /\ [Next]_vars => TypeOK'
<1> SUFFICES ASSUME TypeOK, [Next]_vars PROVE TypeOK'
  OBVIOUS
<1>1. ASSUME NEW t \in Threads, NEW L \in LuaStates, NewState(t, L)
      PROVE  TypeOK'
  <2> DEFINE S == LuaStates \cup {Null}
             i == FirstFree(states)
  <2>1. states \in Seq(S) BY DEF TypeOK
  <2>2. i \in 1..Len(states) + 1 BY <2>1, FirstFreeIs
  <2>3. states' \in Seq(S)
    <3> HIDE DEF i
    <3>1. L \in S OBVIOUS
    <3>2. InsertAt(states, i, L) \in Seq(S)
      <4> HIDE DEF S
      <4> QED BY <2>1, <2>2, <3>1, InsertAtIs
    <3> QED BY <1>1, <3>2 DEF NewState, Open, pushJNIEnv, i
  <2>4. i \in Nat BY <2>1, <2>2
  <2>5. stateId' \in [LuaStates -> Nat] BY <1>1, <2>4 DEF NewState, Open, pushJNIEnv, TypeOK
  <2>6. /\ luaState' \in [LuaStates -> BOOLEAN]
        /\ native' \in [LuaStates -> {"none", "open", "closing", "freed"}]
        /\ env' \in [LuaStates -> Threads \cup {Null}]
        /\ frames' \in [Threads -> Seq(Frame)]
    BY <1>1 DEF NewState, Open, pushJNIEnv, TypeOK
  <2> QED BY <2>3, <2>5, <2>6 DEF TypeOK
<1>2. ASSUME NEW t \in Threads, NEW L \in LuaStates, Call(t, L)
      PROVE  TypeOK'
  <2>1. LuaFrame(L) \in Frame BY DEF LuaFrame, Frame, Stages
  <2>2. Push(t, LuaFrame(L)) BY <1>2 DEF Call
  <2>3. frames' \in [Threads -> Seq(Frame)] BY <2>1, <2>2, PushIs
  <2> QED BY <1>2, <2>3 DEF Call, TypeOK
<1>3. ASSUME NEW t \in Threads, NEW L \in LuaStates, Callback(t, L)
      PROVE  TypeOK'
  <2> DEFINE M == states[stateId[L]]
  <2>1. M \in LuaStates BY <1>3 DEF Callback, GetState, getLuaStateId, TypeOK
  <2>2. JavaFrame(L, M) \in Frame BY <2>1 DEF JavaFrame, Frame, Stages
  <2>3. Push(t, JavaFrame(L, M)) BY <1>3 DEF Callback, GetState, getLuaStateId
  <2>4. frames' \in [Threads -> Seq(Frame)] BY <2>2, <2>3, PushIs
  <2> QED BY <1>3, <2>4 DEF Callback, GetState, getLuaStateId, TypeOK
<1>4. ASSUME NEW t \in Threads, NEW L \in LuaStates, BeginClose(t, L)
      PROVE  TypeOK'
  <2>1. CloseFrame(L, "tested") \in Frame BY DEF CloseFrame, Frame, Stages
  <2>2. Push(t, CloseFrame(L, "tested")) BY <1>4 DEF BeginClose
  <2>3. frames' \in [Threads -> Seq(Frame)] BY <2>1, <2>2, PushIs
  <2> QED BY <1>4, <2>3 DEF BeginClose, TypeOK
<1>5. ASSUME NEW t \in Threads, Return(t) PROVE TypeOK'
  <2>1. frames' \in [Threads -> Seq(Frame)] BY <1>5, PopIs DEF Return
  <2> QED BY <1>5, <2>1 DEF Return, TypeOK
<1>6. ASSUME NEW t \in Threads, RemoveState(t) PROVE TypeOK'
  <2>1. frames' \in [Threads -> Seq(Frame)]
    <3>1. /\ "removed" \in Stages /\ frames[t] # <<>>
          /\ Advance(t, "removed")
      BY <1>6 DEF RemoveState, Closing, Stages
    <3> QED BY <3>1, AdvanceIs
  <2>2. states' \in Seq(LuaStates \cup {Null}) BY <1>6, RemoveStateIs
  <2> QED BY <1>6, <2>1, <2>2 DEF RemoveState, TypeOK
<1>7. ASSUME NEW t \in Threads, NativeClose(t) PROVE TypeOK'
  <2>1. /\ "finalizing" \in Stages /\ frames[t] # <<>>
        /\ Advance(t, "finalizing")
    BY <1>7 DEF NativeClose, Closing, Stages
  <2>2. frames' \in [Threads -> Seq(Frame)] BY <2>1, AdvanceIs
  <2> QED BY <1>7, <2>2 DEF NativeClose, TypeOK
<1>8. ASSUME NEW t \in Threads, FreeNative(t) PROVE TypeOK'
  <2>1. "freed" \in Stages /\ frames[t] # <<>> /\ Advance(t, "freed")
    BY <1>8 DEF FreeNative, Closing, Stages
  <2>2. frames' \in [Threads -> Seq(Frame)] BY <2>1, AdvanceIs
  <2> QED BY <1>8, <2>2 DEF FreeNative, TypeOK
<1>9. ASSUME NEW t \in Threads, EndClose(t) PROVE TypeOK'
  <2>1. frames' \in [Threads -> Seq(Frame)]
    BY <1>9, PopIs DEF EndClose, Closing
  <2> QED BY <1>9, <2>1 DEF EndClose, TypeOK
<1>10. CASE UNCHANGED vars
  BY <1>10 DEF vars, TypeOK
<1> QED
  BY <1>1, <1>2, <1>3, <1>4, <1>5, <1>6, <1>7, <1>8, <1>9, <1>10 DEF Next, Step

\* The list, the ids, the pointers and the call stacks keep their types,
\* whatever the program does.
THEOREM TypeCorrect == Spec => []TypeOK
<1>1. Init => TypeOK BY InitTypeOK
<1>2. TypeOK /\ [Next]_vars => TypeOK' BY NextTypeOK
<1> QED BY <1>1, <1>2, PTL DEF Spec

-----------------------------------------------------------------------------
(* Ids never run past the end of the list *)

\* A frame works on a state that was created.
FramesCreated == \A t \in Threads : \A i \in DOMAIN frames[t] :
                    frames[t][i].of \in Created

\* An action that pushes a frame on a created state keeps FramesCreated.
LEMMA PushCreated ==
  ASSUME TypeOK, FramesCreated, NEW t \in Threads, NEW f \in Frame, Push(t, f),
         f.of \in Created, native' = native
  PROVE  FramesCreated'
<1>1. Created' = Created BY DEF Created
<1>2. ASSUME NEW u \in Threads, NEW i \in DOMAIN frames'[u]
      PROVE  frames'[u][i].of \in Created
  <2>1. CASE u # t BY <2>1, PushIs DEF FramesCreated
  <2>2. CASE u = t
    <3>1. /\ i \in 1..Len(frames[t]) + 1
          /\ DOMAIN frames[t] = 1..Len(frames[t])
          /\ Len(frames[t]) \in Nat
          /\ \A k \in DOMAIN frames[t] : frames'[t][k] = frames[t][k]
          /\ frames'[t][Len(frames[t]) + 1] = f
      BY <2>2, PushIs
    <3> QED BY <2>2, <3>1 DEF FramesCreated
  <2> QED BY <2>1, <2>2
<1> QED BY <1>1, <1>2 DEF FramesCreated

\* An action that pops a frame keeps FramesCreated.
LEMMA PopCreated ==
  ASSUME TypeOK, FramesCreated, NEW t \in Threads, frames[t] # <<>>, Pop(t),
         native' = native
  PROVE  FramesCreated'
<1>1. Created' = Created BY DEF Created
<1>2. ASSUME NEW u \in Threads, NEW i \in DOMAIN frames'[u]
      PROVE  frames'[u][i].of \in Created
  <2>1. CASE u # t BY <2>1, PopIs DEF FramesCreated
  <2>2. CASE u = t
    <3>1. i \in DOMAIN frames[t] /\ frames'[t][i] = frames[t][i]
      BY <2>2, PopIs
    <3> QED BY <2>2, <3>1 DEF FramesCreated
  <2> QED BY <2>1, <2>2
<1> QED BY <1>1, <1>2 DEF FramesCreated

\* A step of close() keeps FramesCreated.
LEMMA AdvanceCreated ==
  ASSUME TypeOK, FramesCreated, NEW t \in Threads, NEW s \in Stages,
         frames[t] # <<>>, Advance(t, s), Created' = Created
  PROVE  FramesCreated'
<1>1. Top(t).of \in Created
  BY AdvanceIs DEF FramesCreated
<1>2. ASSUME NEW u \in Threads, NEW i \in DOMAIN frames'[u]
      PROVE  frames'[u][i].of \in Created
  <2>1. CASE u # t BY <2>1, AdvanceIs DEF FramesCreated
  <2>2. CASE u = t
    <3>1. /\ i \in DOMAIN frames[t]
          /\ frames'[t][i] = IF i = Len(frames[t])
                                 THEN CloseFrame(Top(t).of, s) ELSE frames[t][i]
      BY <2>2, AdvanceIs
    <3>2. CloseFrame(Top(t).of, s).of = Top(t).of BY DEF CloseFrame
    <3> QED BY <2>2, <3>1, <3>2, <1>1 DEF FramesCreated
  <2> QED BY <2>1, <2>2
<1> QED BY <1>2 DEF FramesCreated

\* What every program keeps: frames on created states, ids within the list.
BInv == TypeOK /\ FramesCreated /\ IdInBounds

\* At first no state is there.
LEMMA InitBInv == Init => BInv
<1> SUFFICES ASSUME Init PROVE BInv OBVIOUS
<1>1. \A t \in Threads : DOMAIN frames[t] = {} BY DEF Init
<1>2. Created = {} BY DEF Init, Created
<1> QED BY <1>1, <1>2, InitTypeOK DEF BInv, FramesCreated, IdInBounds

\* Every step keeps it.
LEMMA NextBInv == BInv /\ [Next]_vars => BInv'
<1> SUFFICES ASSUME BInv, [Next]_vars PROVE BInv'
  OBVIOUS
<1> USE DEF BInv
<1>0. TypeOK' BY NextTypeOK
<1>1. ASSUME NEW t \in Threads, NEW L \in LuaStates, NewState(t, L)
      PROVE  FramesCreated' /\ IdInBounds'
  <2> DEFINE S == LuaStates \cup {Null}
             i == FirstFree(states)
  <2>1. states \in Seq(S) /\ L \in S BY DEF TypeOK
  <2>2. i \in 1..Len(states) + 1 BY <2>1, FirstFreeIs
  <2>3. DOMAIN states' = 1..Len(states) + 1
    <3>1. states' = InsertAt(states, i, L) BY <1>1 DEF NewState, Open, pushJNIEnv
    <3> HIDE DEF S, i
    <3>2. /\ InsertAt(states, i, L) \in Seq(S)
          /\ DOMAIN InsertAt(states, i, L) = 1..Len(states) + 1
      BY <2>1, <2>2, InsertAtIs
    <3> QED BY <3>1, <3>2
  <2>4. Created' = Created \cup {L} BY <1>1 DEF NewState, Open, pushJNIEnv, Created, TypeOK
  <2>5. DOMAIN states = 1..Len(states) /\ Len(states) \in Nat
    BY <2>1, LenProperties
  <2>6. \A M \in LuaStates : M # L => stateId'[M] = stateId[M]
    BY <1>1 DEF NewState, Open, pushJNIEnv, TypeOK
  <2>7. stateId'[L] = i BY <1>1 DEF NewState, Open, pushJNIEnv, TypeOK
  <2>8. IdInBounds'
    <3> HIDE DEF S, i
    <3> QED BY <2>2, <2>3, <2>4, <2>5, <2>6, <2>7 DEF IdInBounds, Created
  <2>9. frames' = frames BY <1>1 DEF NewState, Open, pushJNIEnv
  <2> QED BY <2>4, <2>8, <2>9 DEF FramesCreated
<1>2. ASSUME NEW t \in Threads, NEW L \in LuaStates, Call(t, L)
      PROVE  FramesCreated' /\ IdInBounds'
  <2>1. LuaFrame(L) \in Frame /\ LuaFrame(L).of = L
    BY DEF LuaFrame, Frame, Stages
  <2>2. FramesCreated' BY <1>2, <2>1, PushCreated DEF Call
  <2> QED BY <1>2, <2>2 DEF Call, IdInBounds, Created
<1>3. ASSUME NEW t \in Threads, NEW L \in LuaStates, Callback(t, L)
      PROVE  FramesCreated' /\ IdInBounds'
  <2> DEFINE M == states[stateId[L]]
  <2>1. M \in LuaStates BY <1>3 DEF Callback, GetState, getLuaStateId, TypeOK
  <2>2. JavaFrame(L, M) \in Frame /\ JavaFrame(L, M).of = L
    BY <2>1 DEF JavaFrame, Frame, Stages
  <2>3. L \in Created
    <3>1. frames[t] \in Seq(Frame) /\ frames[t] # <<>>
      BY <1>3 DEF TypeOK, Callback, GetState, getLuaStateId, InLua
    <3>2. Len(frames[t]) \in DOMAIN frames[t] BY <3>1
    <3> QED BY <1>3, <3>2 DEF FramesCreated, Callback, GetState, getLuaStateId, InLua, Top, Last
  <2>4. FramesCreated' BY <1>3, <2>2, <2>3, PushCreated DEF Callback, GetState, getLuaStateId
  <2> QED BY <1>3, <2>4 DEF Callback, GetState, getLuaStateId, IdInBounds, Created
<1>4. ASSUME NEW t \in Threads, NEW L \in LuaStates, BeginClose(t, L)
      PROVE  FramesCreated' /\ IdInBounds'
  <2>1. CloseFrame(L, "tested") \in Frame /\ CloseFrame(L, "tested").of = L
    BY DEF CloseFrame, Frame, Stages
  <2>2. FramesCreated' BY <1>4, <2>1, PushCreated DEF BeginClose
  <2> QED BY <1>4, <2>2 DEF BeginClose, IdInBounds, Created
<1>5. ASSUME NEW t \in Threads, Return(t) PROVE FramesCreated' /\ IdInBounds'
  <2>1. FramesCreated' BY <1>5, PopCreated DEF Return
  <2> QED BY <1>5, <2>1 DEF Return, IdInBounds, Created
<1>6. ASSUME NEW t \in Threads, RemoveState(t)
      PROVE  FramesCreated' /\ IdInBounds'
  <2>1. /\ "removed" \in Stages /\ frames[t] # <<>> /\ Advance(t, "removed")
        /\ Created' = Created
    BY <1>6 DEF RemoveState, Closing, Stages, Created
  <2>2. FramesCreated' BY <2>1, AdvanceCreated
  <2>3. DOMAIN states' = DOMAIN states BY <1>6, RemoveStateIs
  <2> QED BY <1>6, <2>2, <2>3 DEF RemoveState, IdInBounds, Created
<1>7. ASSUME NEW t \in Threads, NativeClose(t)
      PROVE  FramesCreated' /\ IdInBounds'
  <2>1. /\ "finalizing" \in Stages /\ frames[t] # <<>>
        /\ Advance(t, "finalizing")
    BY <1>7 DEF NativeClose, Closing, Stages
  <2>2. Created' = Created BY <1>7 DEF NativeClose, Created, TypeOK
  <2>3. FramesCreated' BY <2>1, <2>2, AdvanceCreated
  <2> QED BY <1>7, <2>2, <2>3 DEF NativeClose, IdInBounds
<1>8. ASSUME NEW t \in Threads, FreeNative(t)
      PROVE  FramesCreated' /\ IdInBounds'
  <2>1. "freed" \in Stages /\ frames[t] # <<>> /\ Advance(t, "freed")
    BY <1>8 DEF FreeNative, Closing, Stages
  <2>2. Top(t).of \in Created BY <2>1, AdvanceIs DEF FramesCreated
  <2>3. Created' = Created BY <1>8, <2>2 DEF FreeNative, Created, TypeOK
  <2>4. FramesCreated' BY <2>1, <2>3, AdvanceCreated
  <2> QED BY <1>8, <2>3, <2>4 DEF FreeNative, IdInBounds
<1>9. ASSUME NEW t \in Threads, EndClose(t) PROVE FramesCreated' /\ IdInBounds'
  <2>1. FramesCreated' BY <1>9, PopCreated DEF EndClose, Closing
  <2> QED BY <1>9, <2>1 DEF EndClose, IdInBounds, Created
<1>10. ASSUME UNCHANGED vars PROVE FramesCreated' /\ IdInBounds'
  BY <1>10 DEF vars, FramesCreated, IdInBounds, Created
<1> QED
  BY <1>0, <1>1, <1>2, <1>3, <1>4, <1>5, <1>6, <1>7, <1>8, <1>9, <1>10
     DEF Next, Step

\* Under no rule at all: an id that _open stored is never past the end of the
\* list, so getState answers a callback with a state or null, never with an
\* IndexOutOfBoundsException.
THEOREM IdsStayInBounds == Spec => []IdInBounds
<1>1. Init => BInv BY InitBInv
<1>2. BInv /\ [Next]_vars => BInv' BY NextBInv
<1>3. BInv => IdInBounds BY DEF BInv
<1> QED BY <1>1, <1>2, <1>3, PTL DEF Spec

-----------------------------------------------------------------------------
(* The running calls of close(), and how each kind of step changes them *)

\* The places of the close frames: a thread and a position in its stack.
Closers == {c \in Threads \X Nat : /\ c[2] \in DOMAIN frames[c[1]]
                                  /\ frames[c[1]][c[2]].kind = "close"}
Fr(c) == frames[c[1]][c[2]]

\* No close() began, ended or advanced.
SameClosers == Closers' = Closers /\ \A c \in Closers : Fr(c)' = Fr(c)

\* Unlisted, in terms of the running calls of close().
UnlistedByClosers == {L \in LuaStates :
    ~luaState[L] \/ \E c \in Closers : Fr(c).of = L /\ Fr(c).at # "tested"}

\* The two say the same.
LEMMA UnlistedIs == TypeOK => Unlisted = UnlistedByClosers
<1> SUFFICES ASSUME TypeOK PROVE Unlisted = UnlistedByClosers OBVIOUS
<1>1. ASSUME NEW t \in Threads, NEW i \in DOMAIN frames[t],
             frames[t][i].kind = "close"
      PROVE  <<t, i>> \in Closers /\ Fr(<<t, i>>) = frames[t][i]
  <2>1. DOMAIN frames[t] = 1..Len(frames[t]) /\ Len(frames[t]) \in Nat
    BY LenProperties DEF TypeOK
  <2> QED BY <1>1, <2>1 DEF Closers, Fr
<1>2. ASSUME NEW c \in Closers
      PROVE  \E t \in Threads : \E i \in DOMAIN frames[t] :
                frames[t][i].kind = "close" /\ frames[t][i] = Fr(c)
  BY DEF Closers, Fr
<1>3. ASSUME NEW L \in Unlisted PROVE L \in UnlistedByClosers
  <2>1. CASE ~luaState[L] BY <2>1 DEF Unlisted, UnlistedByClosers
  <2>2. CASE luaState[L]
    <3>1. PICK t \in Threads : \E i \in DOMAIN frames[t] :
             /\ frames[t][i].kind = "close" /\ frames[t][i].of = L
             /\ frames[t][i].at # "tested"
      BY <2>2 DEF Unlisted
    <3>2. PICK i \in DOMAIN frames[t] :
             /\ frames[t][i].kind = "close" /\ frames[t][i].of = L
             /\ frames[t][i].at # "tested"
      BY <3>1
    <3>3. PICK c \in Closers : Fr(c) = frames[t][i] BY <1>1, <3>2
    <3> QED BY <3>2, <3>3 DEF Unlisted, UnlistedByClosers
  <2> QED BY <2>1, <2>2
<1>4. ASSUME NEW L \in UnlistedByClosers PROVE L \in Unlisted
  BY <1>2 DEF Unlisted, UnlistedByClosers
<1> QED BY <1>3, <1>4

\* The frame of a running close() is in the type of frames.
LEMMA CloserFrame ==
  ASSUME TypeOK, NEW c \in Closers
  PROVE  Fr(c) \in Frame /\ Fr(c).of \in LuaStates
<1>1. frames[c[1]] \in Seq(Frame) /\ c[2] \in DOMAIN frames[c[1]]
  BY DEF TypeOK, Closers
<1>2. Fr(c) \in Frame
  BY <1>1 DEF Fr
<1> QED BY <1>2 DEF Frame

\* The places of the close frames are pairs: comparing pairs is enough.
LEMMA ClosersEqual ==
  ASSUME \A u \in Threads, i \in Nat : <<u, i>> \in Closers' <=> <<u, i>> \in Closers
  PROVE  Closers' = Closers
<1>1. ASSUME NEW c \in Closers PROVE c \in Closers'
  <2>1. PICK u \in Threads, i \in Nat : c = <<u, i>> BY DEF Closers
  <2> QED BY <2>1
<1>2. ASSUME NEW c \in Closers' PROVE c \in Closers
  <2>1. PICK u \in Threads, i \in Nat : c = <<u, i>> BY DEF Closers
  <2> QED BY <2>1
<1> QED BY <1>1, <1>2

\* A call into Lua or back into Java leaves the calls of close() alone.
LEMMA PushOther ==
  ASSUME TypeOK, NEW t \in Threads, NEW f \in Frame, f.kind # "close", Push(t, f)
  PROVE  SameClosers
<1> DEFINE n == Len(frames[t])
<1>1. /\ \A u \in Threads : u # t => frames'[u] = frames[u]
      /\ DOMAIN frames'[t] = 1..n + 1 /\ DOMAIN frames[t] = 1..n /\ n \in Nat
      /\ \A i \in DOMAIN frames[t] : frames'[t][i] = frames[t][i]
      /\ frames'[t][n + 1].kind # "close"
  BY PushIs
<1> HIDE DEF n
<1>2. ASSUME NEW u \in Threads, NEW i \in Nat
      PROVE  /\ <<u, i>> \in Closers' <=> <<u, i>> \in Closers
             /\ <<u, i>> \in Closers => frames'[u][i] = frames[u][i]
  <2>1. CASE u # t BY <1>1, <2>1 DEF Closers
  <2>2. CASE u = t BY <1>1, <2>2 DEF Closers
  <2> QED BY <2>1, <2>2
<1>3. Closers \subseteq Threads \X Nat /\ Closers' \subseteq Threads \X Nat
  BY DEF Closers
<1>4. Closers' = Closers
  <2>1. \A u \in Threads, i \in Nat : <<u, i>> \in Closers' <=> <<u, i>> \in Closers
    BY <1>2
  <2> QED BY <2>1, ClosersEqual, Zenon
<1>5. ASSUME NEW c \in Closers PROVE Fr(c)' = Fr(c)
  <2>1. PICK u \in Threads, i \in Nat : c = <<u, i>> BY <1>3
  <2> QED BY <1>2, <2>1 DEF Fr
<1> QED BY <1>4, <1>5 DEF SameClosers

\* So does a return from one.
LEMMA PopOther ==
  ASSUME TypeOK, NEW t \in Threads, frames[t] # <<>>, Top(t).kind # "close", Pop(t)
  PROVE  SameClosers
<1> DEFINE n == Len(frames[t])
<1>1. /\ \A u \in Threads : u # t => frames'[u] = frames[u]
      /\ DOMAIN frames'[t] = 1..n - 1 /\ DOMAIN frames[t] = 1..n /\ n \in Nat
      /\ \A i \in DOMAIN frames'[t] : frames'[t][i] = frames[t][i]
      /\ frames[t][n].kind # "close"
  BY PopIs
<1> HIDE DEF n
<1>2. ASSUME NEW u \in Threads, NEW i \in Nat
      PROVE  /\ <<u, i>> \in Closers' <=> <<u, i>> \in Closers
             /\ <<u, i>> \in Closers => frames'[u][i] = frames[u][i]
  <2>1. CASE u # t BY <1>1, <2>1 DEF Closers
  <2>2. CASE u = t BY <1>1, <2>2 DEF Closers
  <2> QED BY <2>1, <2>2
<1>3. Closers \subseteq Threads \X Nat /\ Closers' \subseteq Threads \X Nat
  BY DEF Closers
<1>4. Closers' = Closers
  <2>1. \A u \in Threads, i \in Nat : <<u, i>> \in Closers' <=> <<u, i>> \in Closers
    BY <1>2
  <2> QED BY <2>1, ClosersEqual, Zenon
<1>5. ASSUME NEW c \in Closers PROVE Fr(c)' = Fr(c)
  <2>1. PICK u \in Threads, i \in Nat : c = <<u, i>> BY <1>3
  <2> QED BY <1>2, <2>1 DEF Fr
<1> QED BY <1>4, <1>5 DEF SameClosers

\* A call of close() that passes its test is one more.
LEMMA PushClose ==
  ASSUME TypeOK, NEW t \in Threads, NEW L \in LuaStates,
         Push(t, CloseFrame(L, "tested"))
  PROVE  \E c \in Threads \X Nat :
            /\ c \notin Closers
            /\ Closers' = Closers \cup {c}
            /\ Fr(c)' = CloseFrame(L, "tested")
            /\ \A d \in Closers : Fr(d)' = Fr(d)
<1> DEFINE n == Len(frames[t])
           f == CloseFrame(L, "tested")
<1>0. f \in Frame /\ f.kind = "close"
  BY DEF CloseFrame, Frame, Stages
<1>1. /\ \A u \in Threads : u # t => frames'[u] = frames[u]
      /\ DOMAIN frames'[t] = 1..n + 1 /\ DOMAIN frames[t] = 1..n /\ n \in Nat
      /\ \A i \in DOMAIN frames[t] : frames'[t][i] = frames[t][i]
      /\ frames'[t][n + 1] = f
  BY <1>0, PushIs
<1> HIDE DEF n, f
<1>2. ASSUME NEW u \in Threads, NEW i \in Nat
      PROVE  /\ <<u, i>> \in Closers' <=> <<u, i>> \in Closers \/ (u = t /\ i = n + 1)
             /\ <<u, i>> \in Closers => frames'[u][i] = frames[u][i]
  <2>1. CASE u # t BY <1>1, <2>1 DEF Closers
  <2>2. CASE u = t BY <1>0, <1>1, <2>2 DEF Closers
  <2> QED BY <2>1, <2>2
<1>3. Closers \subseteq Threads \X Nat /\ Closers' \subseteq Threads \X Nat
  BY DEF Closers
<1>4. <<t, n + 1>> \in Threads \X Nat /\ <<t, n + 1>> \notin Closers
  BY <1>1 DEF Closers
<1>5. PICK c \in Threads \X Nat : c = <<t, n + 1>>
  BY <1>4
<1>6. Closers' = Closers \cup {c}
  BY <1>1, <1>2, <1>3, <1>4, <1>5
<1>7. ASSUME NEW d \in Closers PROVE Fr(d)' = Fr(d)
  <2>1. PICK u \in Threads, i \in Nat : d = <<u, i>> BY <1>3
  <2> QED BY <1>2, <2>1 DEF Fr
<1>8. Fr(c)' = f
  BY <1>1, <1>5 DEF Fr
<1>9. c \notin Closers
  BY <1>4, <1>5
<1> QED BY <1>6, <1>7, <1>8, <1>9 DEF f

\* The close() on top of a stack is one of the running ones.
LEMMA ClosingIs ==
  ASSUME TypeOK, NEW t \in Threads, NEW s, Closing(t, s)
  PROVE  /\ <<t, Len(frames[t])>> \in Closers
         /\ Fr(<<t, Len(frames[t])>>) = Top(t)
         /\ Top(t).at = s
         /\ Top(t).of \in LuaStates
<1>1. frames[t] \in Seq(Frame) /\ frames[t] # <<>>
  BY DEF TypeOK, Closing
<1>2. Len(frames[t]) \in DOMAIN frames[t] /\ Len(frames[t]) \in Nat
  BY <1>1
<1>3. Top(t) = frames[t][Len(frames[t])]
  BY DEF Top, Last
<1>4. Top(t) \in Frame
  BY <1>1, <1>2, <1>3
<1> QED BY <1>2, <1>3, <1>4 DEF Closing, Closers, Fr, Frame

\* A step inside close() changes how far that one is.
LEMMA AdvanceClose ==
  ASSUME TypeOK, NEW t \in Threads, NEW r, Closing(t, r), NEW s \in Stages,
         Advance(t, s)
  PROVE  /\ Closers' = Closers
         /\ \A c \in Closers : Fr(c)' = IF c = <<t, Len(frames[t])>>
                                           THEN CloseFrame(Top(t).of, s) ELSE Fr(c)
<1> DEFINE n == Len(frames[t])
           f == CloseFrame(Top(t).of, s)
<1>0. frames[t] # <<>> /\ Top(t).kind = "close" /\ f.kind = "close"
  BY DEF Closing, CloseFrame
<1>1. /\ \A u \in Threads : u # t => frames'[u] = frames[u]
      /\ DOMAIN frames'[t] = 1..n /\ DOMAIN frames[t] = 1..n
      /\ n \in Nat /\ n > 0
      /\ \A i \in DOMAIN frames[t] :
            frames'[t][i] = IF i = n THEN f ELSE frames[t][i]
      /\ frames[t][n] = Top(t)
  BY <1>0, AdvanceIs
<1> HIDE DEF n, f
<1>2. ASSUME NEW u \in Threads, NEW i \in Nat
      PROVE  /\ <<u, i>> \in Closers' <=> <<u, i>> \in Closers
             /\ <<u, i>> \in Closers =>
                   frames'[u][i] = IF u = t /\ i = n THEN f ELSE frames[u][i]
  <2>1. CASE u # t BY <1>1, <2>1 DEF Closers
  <2>2. CASE u = t BY <1>0, <1>1, <2>2 DEF Closers
  <2> QED BY <2>1, <2>2
<1>3. Closers \subseteq Threads \X Nat /\ Closers' \subseteq Threads \X Nat
  BY DEF Closers
<1>4. ASSUME NEW c \in Closers
      PROVE  Fr(c)' = IF c = <<t, n>> THEN f ELSE Fr(c)
  <2>1. PICK u \in Threads, i \in Nat : c = <<u, i>> BY <1>3
  <2> QED BY <1>2, <2>1 DEF Fr
<1>5. Closers' = Closers
  <2>1. \A u \in Threads, i \in Nat : <<u, i>> \in Closers' <=> <<u, i>> \in Closers
    BY <1>2
  <2> QED BY <2>1, ClosersEqual, Zenon
<1> QED BY <1>4, <1>5 DEF n, f

\* A close() that returns is one less.
LEMMA PopClose ==
  ASSUME TypeOK, NEW t \in Threads, NEW r, Closing(t, r), Pop(t)
  PROVE  /\ Closers' = Closers \ {<<t, Len(frames[t])>>}
         /\ \A c \in Closers' : Fr(c)' = Fr(c)
<1> DEFINE n == Len(frames[t])
<1>1. /\ \A u \in Threads : u # t => frames'[u] = frames[u]
      /\ DOMAIN frames'[t] = 1..n - 1 /\ DOMAIN frames[t] = 1..n /\ n \in Nat
      /\ \A i \in DOMAIN frames'[t] : frames'[t][i] = frames[t][i]
  BY PopIs DEF Closing
<1> HIDE DEF n
<1>2. ASSUME NEW u \in Threads, NEW i \in Nat
      PROVE  /\ <<u, i>> \in Closers' <=> <<u, i>> \in Closers /\ ~(u = t /\ i = n)
             /\ <<u, i>> \in Closers' => frames'[u][i] = frames[u][i]
  <2>1. CASE u # t BY <1>1, <2>1 DEF Closers
  <2>2. CASE u = t BY <1>1, <2>2 DEF Closers
  <2> QED BY <2>1, <2>2
<1>3. Closers \subseteq Threads \X Nat /\ Closers' \subseteq Threads \X Nat
  BY DEF Closers
<1> QED BY <1>2, <1>3 DEF Fr, n

-----------------------------------------------------------------------------
(* One close() for each state *)

\* No two running calls of close() work on one state.
OneCloser == \A c, d \in Closers : Fr(c).of = Fr(d).of => c = d

\* A running close() has not zeroed the pointer, and has not yet entered
\* lua_close while it is at its test or its removeState.
CloserState == \A c \in Closers :
    /\ luaState[Fr(c).of]
    /\ Fr(c).at \in {"tested", "removed"} => native[Fr(c).of] = "open"

\* A pointer that is not 0 is open, or its close() is running.
OpenOrClosing == \A L \in LuaStates :
    luaState[L] => native[L] = "open" \/ \E c \in Closers : Fr(c).of = L

CInv == BInv /\ OneCloser /\ CloserState /\ OpenOrClosing

\* With "onecloser" a close() begins only where none is running.
LEMMA BeginCloseAlone ==
  ASSUME TypeOK, "onecloser" \in Rules, NEW t \in Threads, NEW L \in LuaStates,
         BeginClose(t, L)
  PROVE  \A c \in Closers : Fr(c).of # L
<1>1. ~HasFrame(L, {"close"}) BY DEF BeginClose
<1> QED BY <1>1 DEF HasFrame, Closers, Fr

\* At first nothing is called.
LEMMA InitCInv == Init => CInv
<1> SUFFICES ASSUME Init PROVE CInv OBVIOUS
<1>1. Closers = {} BY DEF Init, Closers
<1>2. \A L \in LuaStates : ~luaState[L] BY DEF Init
<1> QED BY <1>1, <1>2, InitBInv DEF CInv, OneCloser, CloserState, OpenOrClosing

\* What a step does that begins, ends and advances no close().
LEMMA SameCInv ==
  ASSUME OneCloser, CloserState, OpenOrClosing, SameClosers,
         luaState' = luaState, native' = native
  PROVE  OneCloser' /\ CloserState' /\ OpenOrClosing'
BY DEF OneCloser, CloserState, OpenOrClosing, SameClosers

\* Every step keeps it.
LEMMA NextCInv ==
  ASSUME "onecloser" \in Rules
  PROVE  CInv /\ [Next]_vars => CInv'
<1> SUFFICES ASSUME CInv, [Next]_vars PROVE OneCloser' /\ CloserState' /\ OpenOrClosing'
  BY NextBInv DEF CInv
<1>0. TypeOK /\ OneCloser /\ CloserState /\ OpenOrClosing
  BY DEF CInv, BInv
<1>1. ASSUME NEW t \in Threads, NEW L \in LuaStates, NewState(t, L)
      PROVE  OneCloser' /\ CloserState' /\ OpenOrClosing'
  <2>1. Closers' = Closers /\ \A c \in Closers : Fr(c)' = Fr(c)
    BY <1>1 DEF NewState, Open, pushJNIEnv, Closers, Fr
  <2>2. \A c \in Closers : Fr(c).of # L
    <3>1. \A c \in Closers : Fr(c).of \in Created
      BY DEF CInv, BInv, FramesCreated, Closers, Fr
    <3> QED BY <1>1, <3>1 DEF NewState, Open, pushJNIEnv, Created
  <2>3. /\ \A M \in LuaStates : M # L => /\ luaState'[M] = luaState[M]
                                        /\ native'[M] = native[M]
        /\ native'[L] = "open"
    BY <1>0, <1>1 DEF NewState, Open, pushJNIEnv, TypeOK
  <2>4. \A c \in Closers : Fr(c).of \in LuaStates BY <1>0, CloserFrame
  <2> QED BY <1>0, <2>1, <2>2, <2>3, <2>4 DEF OneCloser, CloserState, OpenOrClosing
<1>2. ASSUME NEW t \in Threads, NEW L \in LuaStates, Call(t, L)
      PROVE  OneCloser' /\ CloserState' /\ OpenOrClosing'
  <2>1. LuaFrame(L) \in Frame /\ LuaFrame(L).kind # "close"
    BY DEF LuaFrame, Frame, Stages
  <2>2. SameClosers BY <1>0, <1>2, <2>1, PushOther DEF Call
  <2> QED BY <1>0, <1>2, <2>2, SameCInv DEF Call
<1>3. ASSUME NEW t \in Threads, NEW L \in LuaStates, Callback(t, L)
      PROVE  OneCloser' /\ CloserState' /\ OpenOrClosing'
  <2> DEFINE M == states[stateId[L]]
  <2>1. M \in LuaStates BY <1>0, <1>3 DEF Callback, GetState, getLuaStateId, TypeOK
  <2>2. JavaFrame(L, M) \in Frame /\ JavaFrame(L, M).kind # "close"
    BY <2>1 DEF JavaFrame, Frame, Stages
  <2>3. SameClosers BY <1>0, <1>3, <2>2, PushOther DEF Callback, GetState, getLuaStateId
  <2> QED BY <1>0, <1>3, <2>3, SameCInv DEF Callback, GetState, getLuaStateId
<1>4. ASSUME NEW t \in Threads, NEW L \in LuaStates, BeginClose(t, L)
      PROVE  OneCloser' /\ CloserState' /\ OpenOrClosing'
  <2>1. PICK c \in Threads \X Nat : /\ c \notin Closers
                                   /\ Closers' = Closers \cup {c}
                                   /\ Fr(c)' = CloseFrame(L, "tested")
                                   /\ \A d \in Closers : Fr(d)' = Fr(d)
    BY <1>0, <1>4, PushClose DEF BeginClose
  <2>2. \A d \in Closers : Fr(d).of # L BY <1>0, <1>4, BeginCloseAlone
  <2>3. luaState' = luaState /\ native' = native /\ luaState[L]
    BY <1>4 DEF BeginClose
  <2>4. native[L] = "open" BY <1>0, <2>2, <2>3 DEF OpenOrClosing
  <2>5. CloseFrame(L, "tested").of = L BY DEF CloseFrame
  <2>6. OneCloser' BY <1>0, <2>1, <2>2, <2>5 DEF OneCloser
  <2>7. CloserState' BY <1>0, <2>1, <2>3, <2>4, <2>5 DEF CloserState
  <2>8. OpenOrClosing' BY <1>0, <2>1, <2>3 DEF OpenOrClosing
  <2> QED BY <2>6, <2>7, <2>8
<1>5. ASSUME NEW t \in Threads, Return(t)
      PROVE  OneCloser' /\ CloserState' /\ OpenOrClosing'
  <2>1. SameClosers BY <1>0, <1>5, PopOther DEF Return
  <2> QED BY <1>0, <1>5, <2>1, SameCInv DEF Return
<1>6. ASSUME NEW t \in Threads, NEW r, NEW s \in Stages, Closing(t, r), Advance(t, s),
             luaState' = luaState,
             \A M \in LuaStates : M # Top(t).of => native'[M] = native[M],
             s = "removed" => r = "tested" /\ native' = native,
             s # "tested"
      PROVE  OneCloser' /\ CloserState' /\ OpenOrClosing'
  <2> DEFINE e == <<t, Len(frames[t])>>
             L == Top(t).of
  <2>1. /\ Closers' = Closers
        /\ \A c \in Closers : Fr(c)' = IF c = e THEN CloseFrame(L, s) ELSE Fr(c)
    BY <1>0, <1>6, AdvanceClose
  <2>2. e \in Closers /\ Fr(e).of = L /\ Fr(e).at = r /\ L \in LuaStates
    BY <1>0, <1>6, ClosingIs
  <2>3. CloseFrame(L, s).of = L /\ CloseFrame(L, s).at = s BY DEF CloseFrame
  <2>4. \A c \in Closers : Fr(c).of \in LuaStates BY <1>0, CloserFrame
  <2> HIDE DEF e, L
  <2>5. \A c \in Closers : Fr(c)'.of = Fr(c).of BY <2>1, <2>2, <2>3
  <2>6. OneCloser' BY <1>0, <2>1, <2>5 DEF OneCloser
  <2>7. OpenOrClosing'
    BY <1>0, <1>6, <2>1, <2>2, <2>5 DEF OpenOrClosing, L
  <2>8. ASSUME NEW c \in Closers
        PROVE  /\ luaState[Fr(c)'.of]
               /\ Fr(c)'.at \in {"tested", "removed"} => native'[Fr(c)'.of] = "open"
    <3>1. CASE c = e
      BY <1>0, <1>6, <3>1, <2>1, <2>2, <2>3 DEF CloserState
    <3>2. CASE c # e
      <4>1. Fr(c).of # L /\ Fr(c).of \in LuaStates
        BY <1>0, <2>2, <2>4, <3>2 DEF OneCloser
      <4> QED BY <1>0, <1>6, <3>2, <4>1, <2>1 DEF CloserState, L
    <3> QED BY <3>1, <3>2
  <2>9. CloserState' BY <1>6, <2>1, <2>8 DEF CloserState
  <2> QED BY <2>6, <2>7, <2>9
<1>7. ASSUME NEW t \in Threads, RemoveState(t)
      PROVE  OneCloser' /\ CloserState' /\ OpenOrClosing'
  BY <1>6, <1>7 DEF RemoveState, Stages
<1>8. ASSUME NEW t \in Threads, NativeClose(t)
      PROVE  OneCloser' /\ CloserState' /\ OpenOrClosing'
  <2>1. \A M \in LuaStates : M # Top(t).of => native'[M] = native[M]
    BY <1>0, <1>8 DEF NativeClose, TypeOK
  <2> QED BY <1>6, <1>8, <2>1 DEF NativeClose, Stages
<1>9. ASSUME NEW t \in Threads, FreeNative(t)
      PROVE  OneCloser' /\ CloserState' /\ OpenOrClosing'
  <2>1. \A M \in LuaStates : M # Top(t).of => native'[M] = native[M]
    BY <1>0, <1>9 DEF FreeNative, TypeOK
  <2> QED BY <1>6, <1>9, <2>1 DEF FreeNative, Stages
<1>10. ASSUME NEW t \in Threads, EndClose(t)
       PROVE  OneCloser' /\ CloserState' /\ OpenOrClosing'
  <2> DEFINE e == <<t, Len(frames[t])>>
             L == Top(t).of
  <2>1. Closers' = Closers \ {e} /\ \A c \in Closers' : Fr(c)' = Fr(c)
    BY <1>0, <1>10, PopClose DEF EndClose
  <2>2. e \in Closers /\ Fr(e).of = L /\ L \in LuaStates
    BY <1>0, <1>10, ClosingIs DEF EndClose
  <2>3. /\ native' = native /\ ~luaState'[L]
        /\ \A M \in LuaStates : M # L => luaState'[M] = luaState[M]
    BY <1>0, <1>10, <2>2 DEF EndClose, TypeOK
  <2>4. \A c \in Closers : Fr(c).of \in LuaStates BY <1>0, CloserFrame
  <2> HIDE DEF e, L
  <2>5. \A c \in Closers' : Fr(c).of # L BY <1>0, <2>1, <2>2 DEF OneCloser
  <2> QED BY <1>0, <2>1, <2>2, <2>3, <2>4, <2>5
          DEF OneCloser, CloserState, OpenOrClosing
<1>11. ASSUME UNCHANGED vars PROVE OneCloser' /\ CloserState' /\ OpenOrClosing'
  <2>1. SameClosers BY <1>11 DEF vars, SameClosers, Closers, Fr
  <2> QED BY <1>0, <1>11, <2>1, SameCInv DEF vars
<1> QED
  BY <1>1, <1>2, <1>3, <1>4, <1>5, <1>7, <1>8, <1>9, <1>10, <1>11 DEF Next, Step

\* When close() is never called on a state whose close() is running, lua_close
\* gets a pointer that is not 0, of a state that is open.
THEOREM ClosesOpenStates ==
  ASSUME "onecloser" \in Rules
  PROVE  Spec => []CloseTargetsOpen
<1>1. Init => CInv BY InitCInv
<1>2. CInv /\ [Next]_vars => CInv' BY NextCInv
<1>3. CInv => CloseTargetsOpen
  <2> SUFFICES ASSUME CInv, NEW t \in Threads, Closing(t, "removed")
               PROVE  luaState[Top(t).of] /\ native[Top(t).of] = "open"
    BY DEF CloseTargetsOpen
  <2>1. /\ <<t, Len(frames[t])>> \in Closers
        /\ Fr(<<t, Len(frames[t])>>) = Top(t) /\ Top(t).at = "removed"
    BY ClosingIs DEF CInv, BInv
  <2> QED BY <2>1 DEF CInv, CloserState
<1> QED BY <1>1, <1>2, <1>3, PTL DEF Spec

-----------------------------------------------------------------------------
(* The list agrees with the ids *)

RInv == CInv /\ RegistryAgrees /\ ListedOnce

\* A step that begins, ends and advances no close() changes nothing of which
\* states close() removed.
LEMMA SameUnlisted ==
  ASSUME TypeOK, TypeOK', SameClosers, luaState' = luaState
  PROVE  Unlisted' = Unlisted
<1>1. Unlisted = UnlistedByClosers BY UnlistedIs
<1>2. (TypeOK => Unlisted = UnlistedByClosers)' BY UnlistedIs, PTL
<1>3. UnlistedByClosers' = UnlistedByClosers
  BY DEF SameClosers, UnlistedByClosers
<1> QED BY <1>1, <1>2, <1>3

\* The list agrees still when neither it nor what it is compared with changes.
LEMMA SameRegistry ==
  ASSUME RegistryAgrees, ListedOnce, states' = states, stateId' = stateId,
         Created' = Created, Unlisted' = Unlisted
  PROVE  RegistryAgrees' /\ ListedOnce'
BY DEF RegistryAgrees, ListedOnce

\* At first no state is there.
LEMMA InitRInv == Init => RInv
<1> SUFFICES ASSUME Init PROVE RInv OBVIOUS
<1>1. Created = {} /\ states = <<>> BY DEF Init, Created
<1> QED BY <1>1, InitCInv DEF RInv, RegistryAgrees, ListedOnce

\* newState under "stacked": the slot it takes and all after it hold null, so
\* no listed state moves.
LEMMA NewStateIs ==
  ASSUME TypeOK, "stacked" \in Rules, NEW t \in Threads, NEW L \in LuaStates,
         NewState(t, L)
  PROVE  /\ stateId'[L] \in DOMAIN states' /\ states'[stateId'[L]] = L
         /\ stateId'[L] \in DOMAIN states => states[stateId'[L]] = Null
         /\ \A M \in LuaStates : M # L => stateId'[M] = stateId[M]
         /\ \A j \in DOMAIN states : j \in DOMAIN states'
         /\ \A j \in DOMAIN states : states[j] # Null => states'[j] = states[j]
         /\ \A j \in DOMAIN states' : j # stateId'[L] /\ states'[j] # Null =>
               j \in DOMAIN states /\ states[j] = states'[j]
<1> DEFINE S == LuaStates \cup {Null}
           i == FirstFree(states)
           n == Len(states)
<1>1. states \in Seq(S) /\ L \in S BY DEF TypeOK
<1>2. i \in 1..n + 1 /\ (i = n + 1 \/ states[i] = Null) BY <1>1, FirstFreeIs
<1>3. states' = InsertAt(states, i, L) BY DEF NewState, Open, pushJNIEnv
<1>4. DOMAIN states = 1..n /\ n \in Nat BY <1>1, LenProperties
<1>5. \A j \in 1..n : j >= i => states[j] = Null
  BY <1>4 DEF NewState, Open, pushJNIEnv, Stacked
<1>6. stateId'[L] = i /\ \A M \in LuaStates : M # L => stateId'[M] = stateId[M]
  BY DEF NewState, Open, pushJNIEnv, TypeOK
<1> HIDE DEF S, i
<1>7. /\ DOMAIN states' = 1..n + 1
      /\ \A j \in 1..n + 1 : states'[j] =
            IF j < i THEN states[j] ELSE IF j = i THEN L ELSE states[j - 1]
  <2>1. i \in 1..Len(states) + 1 BY <1>2
  <2>2. /\ InsertAt(states, i, L) \in Seq(S)
        /\ DOMAIN InsertAt(states, i, L) = 1..Len(states) + 1
    BY <1>1, <2>1, InsertAtIs
  <2>3. \A j \in 1..Len(states) + 1 : InsertAt(states, i, L)[j] =
           IF j < i THEN states[j] ELSE IF j = i THEN L ELSE states[j - 1]
    <3> HIDE DEF n
    <3> QED BY <1>1, <2>1, InsertAtIs, SMTT(30)
  <2> QED BY <1>3, <2>2, <2>3
<1> HIDE DEF n
<1>8. ASSUME NEW j \in 1..n, states[j] # Null PROVE states'[j] = states[j]
  <2>1. j < i BY <1>2, <1>4, <1>5, <1>8
  <2> QED BY <1>4, <1>7, <2>1
<1>9. ASSUME NEW j \in 1..n + 1, j # i, states'[j] # Null
      PROVE  j \in 1..n /\ states[j] = states'[j]
  <2>1. CASE j < i BY <1>2, <1>4, <1>7, <2>1
  <2>2. CASE j > i
    <3>1. j - 1 \in 1..n /\ j - 1 >= i BY <1>2, <1>4, <2>2
    <3>2. states'[j] = states[j - 1] BY <1>2, <1>7, <2>2
    <3> QED BY <1>5, <1>9, <3>1, <3>2
  <2> QED BY <1>2, <1>9, <2>1, <2>2
<1> QED BY <1>2, <1>4, <1>6, <1>7, <1>8, <1>9

\* Every step keeps it.
LEMMA NextRInv ==
  ASSUME {"stacked", "onecloser"} \subseteq Rules
  PROVE  RInv /\ [Next]_vars => RInv'
<1> SUFFICES ASSUME RInv, [Next]_vars PROVE RegistryAgrees' /\ ListedOnce'
  BY NextCInv DEF RInv
<1>0. TypeOK /\ TypeOK' /\ CInv /\ OneCloser /\ CloserState
  BY NextTypeOK DEF RInv, CInv, BInv
<1>a. RegistryAgrees /\ ListedOnce BY DEF RInv
<1>b. Created \subseteq LuaStates BY DEF Created
<1>c. Unlisted = UnlistedByClosers /\ Unlisted' = UnlistedByClosers'
  <2>1. (TypeOK => Unlisted = UnlistedByClosers)' BY UnlistedIs, PTL
  <2> QED BY <1>0, <2>1, UnlistedIs
<1>1. ASSUME NEW t \in Threads, NEW L \in LuaStates, NewState(t, L)
      PROVE  RegistryAgrees' /\ ListedOnce'
  <2>1. Created' = Created \cup {L} /\ L \notin Created
    BY <1>0, <1>1 DEF NewState, Open, pushJNIEnv, Created, TypeOK
  <2>2. SameClosers BY <1>1 DEF NewState, Open, pushJNIEnv, SameClosers, Closers, Fr
  <2>3. \A c \in Closers : Fr(c).of # L
    BY <1>0, <2>1 DEF CInv, BInv, FramesCreated, Closers, Fr
  <2>4. /\ luaState'[L]
        /\ \A M \in LuaStates : M # L => luaState'[M] = luaState[M]
    BY <1>0, <1>1 DEF NewState, Open, pushJNIEnv, TypeOK
  <2>5. Unlisted' = Unlisted \ {L}
    BY <1>c, <2>2, <2>3, <2>4 DEF SameClosers, UnlistedByClosers
  <2>6. RegistryAgrees'
    <3>1. ASSUME NEW M \in Created' \ Unlisted'
          PROVE  stateId'[M] \in DOMAIN states' /\ states'[stateId'[M]] = M
      <4>1. CASE M = L BY <1>0, <1>1, <4>1, NewStateIs
      <4>2. CASE M # L
        <5>1. M \in Created \ Unlisted BY <2>1, <2>5, <4>2
        <5>2. stateId[M] \in DOMAIN states /\ states[stateId[M]] = M
          BY <1>a, <5>1 DEF RegistryAgrees
        <5>3. M # Null /\ M \in LuaStates BY <1>b, <5>1, NullAssumption
        <5> QED BY <1>0, <1>1, <4>2, <5>2, <5>3, NewStateIs
      <4> QED BY <4>1, <4>2
    <3> QED BY <3>1 DEF RegistryAgrees
  <2>7. ListedOnce'
    <3>1. ASSUME NEW j \in DOMAIN states', states'[j] # Null
          PROVE  states'[j] \in Created' \ Unlisted' /\ stateId'[states'[j]] = j
      <4>1. CASE j = stateId'[L]
        <5>1. states'[j] = L BY <1>0, <1>1, <4>1, NewStateIs
        <5> QED BY <2>1, <2>5, <4>1, <5>1
      <4>2. CASE j # stateId'[L]
        <5>1. j \in DOMAIN states /\ states[j] = states'[j]
          BY <1>0, <1>1, <3>1, <4>2, NewStateIs
        <5>2. states[j] \in Created \ Unlisted /\ stateId[states[j]] = j
          BY <1>a, <3>1, <5>1 DEF ListedOnce
        <5>3. states[j] \in LuaStates /\ states[j] # L BY <1>b, <2>1, <5>2
        <5>4. stateId'[states[j]] = stateId[states[j]]
          BY <1>0, <1>1, <5>3, NewStateIs
        <5> QED BY <2>1, <2>5, <5>1, <5>2, <5>3, <5>4
      <4> QED BY <4>1, <4>2
    <3> QED BY <3>1 DEF ListedOnce
  <2> QED BY <2>6, <2>7
<1>2. ASSUME NEW t \in Threads, NEW L \in LuaStates, Call(t, L)
      PROVE  RegistryAgrees' /\ ListedOnce'
  <2>1. LuaFrame(L) \in Frame /\ LuaFrame(L).kind # "close"
    BY DEF LuaFrame, Frame, Stages
  <2>2. SameClosers BY <1>0, <1>2, <2>1, PushOther DEF Call
  <2>3. Unlisted' = Unlisted BY <1>0, <1>2, <2>2, SameUnlisted DEF Call
  <2> QED BY <1>2, <1>a, <2>3, SameRegistry DEF Call, Created
<1>3. ASSUME NEW t \in Threads, NEW L \in LuaStates, Callback(t, L)
      PROVE  RegistryAgrees' /\ ListedOnce'
  <2> DEFINE M == states[stateId[L]]
  <2>1. M \in LuaStates BY <1>0, <1>3 DEF Callback, GetState, getLuaStateId, TypeOK
  <2>2. JavaFrame(L, M) \in Frame /\ JavaFrame(L, M).kind # "close"
    BY <2>1 DEF JavaFrame, Frame, Stages
  <2>3. SameClosers BY <1>0, <1>3, <2>2, PushOther DEF Callback, GetState, getLuaStateId
  <2>4. Unlisted' = Unlisted BY <1>0, <1>3, <2>3, SameUnlisted DEF Callback, GetState, getLuaStateId
  <2> QED BY <1>3, <1>a, <2>4, SameRegistry DEF Callback, GetState, getLuaStateId, Created
<1>4. ASSUME NEW t \in Threads, NEW L \in LuaStates, BeginClose(t, L)
      PROVE  RegistryAgrees' /\ ListedOnce'
  <2>1. PICK c \in Threads \X Nat : /\ c \notin Closers
                                   /\ Closers' = Closers \cup {c}
                                   /\ Fr(c)' = CloseFrame(L, "tested")
                                   /\ \A d \in Closers : Fr(d)' = Fr(d)
    BY <1>0, <1>4, PushClose DEF BeginClose
  <2>2. CloseFrame(L, "tested").at = "tested" BY DEF CloseFrame
  <2>3. luaState' = luaState BY <1>4 DEF BeginClose
  <2>4. Unlisted' = Unlisted BY <1>c, <2>1, <2>2, <2>3 DEF UnlistedByClosers
  <2> QED BY <1>4, <1>a, <2>4, SameRegistry DEF BeginClose, Created
<1>5. ASSUME NEW t \in Threads, Return(t) PROVE RegistryAgrees' /\ ListedOnce'
  <2>1. SameClosers BY <1>0, <1>5, PopOther DEF Return
  <2>2. Unlisted' = Unlisted BY <1>0, <1>5, <2>1, SameUnlisted DEF Return
  <2> QED BY <1>5, <1>a, <2>2, SameRegistry DEF Return, Created
<1>6. ASSUME NEW t \in Threads, RemoveState(t)
      PROVE  RegistryAgrees' /\ ListedOnce'
  <2> DEFINE e == <<t, Len(frames[t])>>
             L == Top(t).of
  <2>1. Closing(t, "tested") /\ Advance(t, "removed") /\ "removed" \in Stages
    BY <1>6 DEF RemoveState, Stages
  <2>2. /\ Closers' = Closers
        /\ \A c \in Closers : Fr(c)' = IF c = e THEN CloseFrame(L, "removed")
                                               ELSE Fr(c)
    BY <1>0, <2>1, AdvanceClose
  <2>3. e \in Closers /\ Fr(e).of = L /\ Fr(e).at = "tested" /\ L \in LuaStates
    BY <1>0, <2>1, ClosingIs
  <2>4. L \in Created
    BY <1>0, <2>3 DEF CInv, BInv, FramesCreated, Closers, Fr
  <2>5. CloseFrame(L, "removed").of = L /\ CloseFrame(L, "removed").at = "removed"
    BY DEF CloseFrame
  <2>6. /\ luaState' = luaState /\ stateId' = stateId /\ Created' = Created
        /\ luaState[L]
    BY <1>0, <1>6, <2>3 DEF RemoveState, Created, CloserState
  <2>7. /\ DOMAIN states' = DOMAIN states
        /\ \A j \in DOMAIN states :
              states'[j] = IF j = stateId[L] THEN Null ELSE states[j]
    BY <1>0, <1>6, RemoveStateIs
  <2> HIDE DEF e, L
  <2>8. L \notin Unlisted
    BY <1>0, <1>c, <2>3, <2>6 DEF OneCloser, UnlistedByClosers
  <2>9. Unlisted' = Unlisted \cup {L}
    BY <1>c, <2>2, <2>3, <2>5, <2>6 DEF UnlistedByClosers
  <2>10. stateId[L] \in DOMAIN states /\ states[stateId[L]] = L
    BY <1>a, <2>4, <2>8 DEF RegistryAgrees
  <2>11. RegistryAgrees'
    <3>1. ASSUME NEW M \in Created \ Unlisted, M # L
          PROVE  stateId[M] \in DOMAIN states' /\ states'[stateId[M]] = M
      <4>1. stateId[M] \in DOMAIN states /\ states[stateId[M]] = M
        BY <1>a DEF RegistryAgrees
      <4>2. stateId[M] # stateId[L] BY <2>10, <3>1, <4>1
      <4> QED BY <2>7, <4>1, <4>2
    <3> QED BY <2>6, <2>9, <3>1 DEF RegistryAgrees
  <2>12. ListedOnce'
    <3>1. ASSUME NEW j \in DOMAIN states, states'[j] # Null
          PROVE  states'[j] \in Created \ Unlisted' /\ stateId[states'[j]] = j
      <4>1. states'[j] = states[j] /\ j # stateId[L] BY <2>7, <3>1
      <4>2. states[j] \in Created \ Unlisted /\ stateId[states[j]] = j
        BY <1>a, <3>1, <4>1 DEF ListedOnce
      <4>3. states[j] # L BY <4>1, <4>2
      <4> QED BY <2>9, <4>1, <4>2, <4>3
    <3> QED BY <2>6, <2>7, <3>1 DEF ListedOnce
  <2> QED BY <2>11, <2>12
<1>7. ASSUME NEW t \in Threads, NEW r, NEW s \in Stages, Closing(t, r), Advance(t, s),
             r # "tested", s # "tested", luaState' = luaState, states' = states,
             stateId' = stateId, Created' = Created
      PROVE  RegistryAgrees' /\ ListedOnce'
  <2> DEFINE e == <<t, Len(frames[t])>>
             L == Top(t).of
  <2>1. /\ Closers' = Closers
        /\ \A c \in Closers : Fr(c)' = IF c = e THEN CloseFrame(L, s) ELSE Fr(c)
    BY <1>0, <1>7, AdvanceClose
  <2>2. e \in Closers /\ Fr(e).of = L /\ Fr(e).at = r
    BY <1>0, <1>7, ClosingIs
  <2>3. CloseFrame(L, s).of = L /\ CloseFrame(L, s).at = s BY DEF CloseFrame
  <2> HIDE DEF e, L
  <2>4. Unlisted' = Unlisted
    BY <1>7, <1>c, <2>1, <2>2, <2>3 DEF UnlistedByClosers
  <2> QED BY <1>7, <1>a, <2>4, SameRegistry
<1>8. ASSUME NEW t \in Threads, NativeClose(t)
      PROVE  RegistryAgrees' /\ ListedOnce'
  <2>1. Created' = Created BY <1>0, <1>8 DEF NativeClose, Created, TypeOK
  <2> QED BY <1>7, <1>8, <2>1 DEF NativeClose, Stages
<1>9. ASSUME NEW t \in Threads, FreeNative(t)
      PROVE  RegistryAgrees' /\ ListedOnce'
  <2>1. Top(t).of \in Created
    <3>1. /\ <<t, Len(frames[t])>> \in Closers
          /\ Fr(<<t, Len(frames[t])>>) = Top(t)
      BY <1>0, <1>9, ClosingIs DEF FreeNative
    <3> QED BY <1>0, <3>1 DEF CInv, BInv, FramesCreated, Closers, Fr
  <2>2. Created' = Created BY <1>0, <1>9, <2>1 DEF FreeNative, Created, TypeOK
  <2> QED BY <1>7, <1>9, <2>2 DEF FreeNative, Stages
<1>10. ASSUME NEW t \in Threads, EndClose(t) PROVE RegistryAgrees' /\ ListedOnce'
  <2> DEFINE e == <<t, Len(frames[t])>>
             L == Top(t).of
  <2>1. Closers' = Closers \ {e} /\ \A c \in Closers' : Fr(c)' = Fr(c)
    BY <1>0, <1>10, PopClose DEF EndClose
  <2>2. e \in Closers /\ Fr(e).of = L /\ Fr(e).at = "freed" /\ L \in LuaStates
    BY <1>0, <1>10, ClosingIs DEF EndClose
  <2>3. /\ ~luaState'[L]
        /\ \A M \in LuaStates : M # L => luaState'[M] = luaState[M]
    BY <1>0, <1>10, <2>2 DEF EndClose, TypeOK
  <2> HIDE DEF e, L
  <2>4. Unlisted' = Unlisted
    BY <1>c, <2>1, <2>2, <2>3 DEF UnlistedByClosers
  <2> QED BY <1>10, <1>a, <2>4, SameRegistry DEF EndClose, Created
<1>11. ASSUME UNCHANGED vars PROVE RegistryAgrees' /\ ListedOnce'
  <2>1. SameClosers BY <1>11 DEF vars, SameClosers, Closers, Fr
  <2>2. Unlisted' = Unlisted BY <1>0, <1>11, <2>1, SameUnlisted DEF vars
  <2> QED BY <1>11, <1>a, <2>2, SameRegistry DEF vars, Created
<1> QED
  BY <1>1, <1>2, <1>3, <1>4, <1>5, <1>6, <1>8, <1>9, <1>10, <1>11 DEF Next, Step

\* With "stacked" and "onecloser": for as long as close() has not removed a
\* state, getState finds it under the id that _open stored for callbacks.
THEOREM RegistryStaysRight ==
  ASSUME {"stacked", "onecloser"} \subseteq Rules
  PROVE  Spec => []RegistryAgrees
<1>1. Init => RInv BY InitRInv
<1>2. RInv /\ [Next]_vars => RInv' BY NextRInv
<1>3. RInv => RegistryAgrees BY DEF RInv
<1> QED BY <1>1, <1>2, <1>3, PTL DEF Spec

\* And no slot ever shows a state that close() removed, or shows one twice.
THEOREM ListShowsEachOnce ==
  ASSUME {"stacked", "onecloser"} \subseteq Rules
  PROVE  Spec => []ListedOnce
<1>1. Init => RInv BY InitRInv
<1>2. RInv /\ [Next]_vars => RInv' BY NextRInv
<1>3. RInv => ListedOnce BY DEF RInv
<1> QED BY <1>1, <1>2, <1>3, PTL DEF Spec

-----------------------------------------------------------------------------
(* The list implements a registry whose bindings never move *)

\* A new state takes a free index.
LEMMA NewStateBinds ==
  ASSUME TypeOK, ListedOnce, "stacked" \in Rules, NEW t \in Threads,
         NEW L \in LuaStates, NewState(t, L)
  PROVE  Reg!Next
<1> DEFINE i == stateId'[L]
<1>1. /\ i \in DOMAIN states' /\ states'[i] = L
      /\ i \in DOMAIN states => states[i] = Null
      /\ \A j \in DOMAIN states : j \in DOMAIN states'
      /\ \A j \in DOMAIN states : states[j] # Null => states'[j] = states[j]
      /\ \A j \in DOMAIN states' : j # i /\ states'[j] # Null =>
             j \in DOMAIN states /\ states[j] = states'[j]
  BY NewStateIs
<1> HIDE DEF i
<1>2. L # Null BY NullAssumption
<1>3. DOMAIN Bound = {j \in DOMAIN states : states[j] # Null} BY DEF Bound
<1>4. DOMAIN Bound' = {j \in DOMAIN states' : states'[j] # Null} BY DEF Bound
<1>5. i \notin DOMAIN Bound BY <1>1, <1>3
<1>6. \A j \in DOMAIN Bound : Bound[j] # L
  BY DEF Bound, ListedOnce, NewState, Open, pushJNIEnv, Created
<1>7. DOMAIN Bound' = DOMAIN Bound \cup {i} BY <1>1, <1>2, <1>3, <1>4
<1>8. \A j \in DOMAIN Bound' : Bound'[j] = IF j = i THEN L ELSE Bound[j]
  <2>1. \A j \in DOMAIN Bound' : Bound'[j] = states'[j] BY DEF Bound
  <2>2. \A j \in DOMAIN Bound : Bound[j] = states[j] BY DEF Bound
  <2> QED BY <1>1, <1>3, <1>7, <2>1, <2>2
<1>9. Bound' = [j \in DOMAIN Bound \cup {i} |-> IF j = i THEN L ELSE Bound[j]]
  <2>1. Bound' = [j \in DOMAIN Bound' |-> Bound'[j]] BY DEF Bound
  <2> HIDE DEF Bound
  <2> QED BY <1>7, <1>8, <2>1
<1>10. Reg!Bind(i, L) /\ i \in DOMAIN Bound'
  <2> HIDE DEF Bound
  <2> QED BY <1>5, <1>6, <1>7, <1>9 DEF Reg!Bind
<1> QED BY <1>10 DEF Reg!Next

\* removeState frees the index of its state.
LEMMA RemoveStateUnbinds ==
  ASSUME RInv, NEW t \in Threads, RemoveState(t)
  PROVE  Reg!Next
<1> DEFINE L == Top(t).of
           i == stateId[L]
<1>0. TypeOK /\ RegistryAgrees /\ OneCloser /\ CloserState /\ FramesCreated
  BY DEF RInv, CInv, BInv
<1>1. /\ DOMAIN states' = DOMAIN states
      /\ \A j \in DOMAIN states : states'[j] = IF j = i THEN Null ELSE states[j]
  BY <1>0, RemoveStateIs
<1>2. PICK e \in Closers : Fr(e).of = L /\ Fr(e).at = "tested" /\ L \in LuaStates
  <2>1. Closing(t, "tested") BY DEF RemoveState
  <2>2. /\ <<t, Len(frames[t])>> \in Closers
        /\ Fr(<<t, Len(frames[t])>>) = Top(t)
        /\ Top(t).at = "tested" /\ Top(t).of \in LuaStates
    BY <1>0, <2>1, ClosingIs
  <2> QED BY <2>2
<1>3. L \in Created BY <1>0, <1>2 DEF FramesCreated, Closers, Fr
<1>4. L \notin Unlisted
  <2>1. Unlisted = UnlistedByClosers BY <1>0, UnlistedIs
  <2> QED BY <1>0, <1>2, <2>1 DEF OneCloser, CloserState, UnlistedByClosers
<1> HIDE DEF L
<1>5. i \in DOMAIN states /\ states[i] = L /\ L # Null
  BY <1>0, <1>2, <1>3, <1>4, NullAssumption DEF RegistryAgrees
<1> HIDE DEF i
<1>6. DOMAIN Bound = {j \in DOMAIN states : states[j] # Null} BY DEF Bound
<1>7. DOMAIN Bound' = {j \in DOMAIN states' : states'[j] # Null} BY DEF Bound
<1>8. i \in DOMAIN Bound /\ DOMAIN Bound' = DOMAIN Bound \ {i}
  BY <1>1, <1>5, <1>6, <1>7
<1>9. \A j \in DOMAIN Bound' : Bound'[j] = Bound[j]
  <2>1. \A j \in DOMAIN Bound' : Bound'[j] = states'[j] BY DEF Bound
  <2>2. \A j \in DOMAIN Bound : Bound[j] = states[j] BY DEF Bound
  <2> QED BY <1>1, <1>6, <1>8, <2>1, <2>2
<1>10. Bound' = [j \in DOMAIN Bound \ {i} |-> Bound[j]]
  <2>1. Bound' = [j \in DOMAIN Bound' |-> Bound'[j]] BY DEF Bound
  <2> HIDE DEF Bound
  <2> QED BY <1>8, <1>9, <2>1
<1>11. Reg!Unbind(i)
  <2> HIDE DEF Bound
  <2> QED BY <1>8, <1>10 DEF Reg!Unbind
<1> QED BY <1>8, <1>11 DEF Reg!Next

\* With "stacked" and "onecloser" the ArrayList is a partial map from ids to
\* states: an id is bound once, keeps its state, and is freed by removeState.
THEOREM RefinesRegistry ==
  ASSUME {"stacked", "onecloser"} \subseteq Rules
  PROVE  Spec => RegistryImplemented
<1>1. Init => Reg!Init
  <2> SUFFICES ASSUME Init PROVE Bound = [i \in {} |-> i] BY DEF Reg!Init
  <2>1. {j \in DOMAIN states : states[j] # Null} = {} BY DEF Init
  <2> QED BY <2>1 DEF Bound
<1>2. RInv /\ [Next]_vars => [Reg!Next]_Bound
  <2> SUFFICES ASSUME RInv, [Next]_vars PROVE Reg!Next \/ Bound' = Bound
    OBVIOUS
  <2>1. TypeOK /\ ListedOnce BY DEF RInv, CInv, BInv
  <2>2. ASSUME NEW t \in Threads, NEW L \in LuaStates, NewState(t, L)
        PROVE  Reg!Next
    BY <2>1, <2>2, NewStateBinds
  <2>3. ASSUME NEW t \in Threads, RemoveState(t) PROVE Reg!Next
    BY <2>3, RemoveStateUnbinds
  <2>4. ASSUME states' = states PROVE Bound' = Bound
    BY <2>4 DEF Bound
  <2> QED BY <2>2, <2>3, <2>4 DEF Next, Step, Call, Callback, BeginClose, Return,
             NativeClose, FreeNative, EndClose, vars
<1>3. Init => RInv BY InitRInv
<1>4. RInv /\ [Next]_vars => RInv' BY NextRInv
<1> QED BY <1>1, <1>2, <1>3, <1>4, PTL DEF Spec, RegistryImplemented, Reg!Spec

-----------------------------------------------------------------------------
(* What each kind of step does to single frames *)

\* After a step every frame is an old one, or the new one of the step.
LEMMA FramesAfterPush ==
  ASSUME TypeOK, NEW t \in Threads, NEW f \in Frame, Push(t, f),
         NEW u \in Threads, NEW i \in DOMAIN frames'[u]
  PROVE  \/ i \in DOMAIN frames[u] /\ frames'[u][i] = frames[u][i]
         \/ u = t /\ i = Len(frames[t]) + 1 /\ frames'[u][i] = f
<1>1. CASE u # t BY <1>1, PushIs
<1>2. CASE u = t
  <2>1. /\ i \in 1..Len(frames[t]) + 1
        /\ DOMAIN frames[t] = 1..Len(frames[t]) /\ Len(frames[t]) \in Nat
        /\ \A k \in DOMAIN frames[t] : frames'[t][k] = frames[t][k]
        /\ frames'[t][Len(frames[t]) + 1] = f
    BY <1>2, PushIs
  <2> QED BY <1>2, <2>1
<1> QED BY <1>1, <1>2

\* A call returns, and the others go on as they were.
LEMMA FramesAfterPop ==
  ASSUME TypeOK, NEW t \in Threads, frames[t] # <<>>, Pop(t),
         NEW u \in Threads, NEW i \in DOMAIN frames'[u]
  PROVE  i \in DOMAIN frames[u] /\ frames'[u][i] = frames[u][i]
<1>1. CASE u # t BY <1>1, PopIs
<1>2. CASE u = t BY <1>2, PopIs
<1> QED BY <1>1, <1>2

\* A call goes on, and the others are as they were.
LEMMA FramesAfterAdvance ==
  ASSUME TypeOK, NEW t \in Threads, NEW s \in Stages, frames[t] # <<>>, Advance(t, s),
         NEW u \in Threads, NEW i \in DOMAIN frames'[u]
  PROVE  /\ i \in DOMAIN frames[u]
         /\ \/ frames'[u][i] = frames[u][i]
            \/ /\ u = t /\ i = Len(frames[t])
               /\ frames'[u][i] = CloseFrame(frames[u][i].of, s)
<1>1. CASE u # t BY <1>1, AdvanceIs
<1>2. CASE u = t BY <1>2, AdvanceIs
<1> QED BY <1>1, <1>2

\* The innermost frame is one of the frames.
LEMMA TopIsFrame ==
  ASSUME TypeOK, NEW t \in Threads, frames[t] # <<>>
  PROVE  /\ Len(frames[t]) \in DOMAIN frames[t] /\ Len(frames[t]) \in Nat
         /\ DOMAIN frames[t] = 1..Len(frames[t])
         /\ Top(t) = frames[t][Len(frames[t])]
         /\ Top(t) \in Frame
<1>1. frames[t] \in Seq(Frame) BY DEF TypeOK
<1>2. Len(frames[t]) \in DOMAIN frames[t] /\ Len(frames[t]) \in Nat
      /\ DOMAIN frames[t] = 1..Len(frames[t])
  BY <1>1
<1> QED BY <1>1, <1>2 DEF Top, Last

-----------------------------------------------------------------------------
(* The JNIEnv that a callback uses *)

\* Under "confined" every frame is in the thread that opened its state, and
\* the registry of the state holds the JNIEnv of that thread.
FramesHome == \A t \in Threads : \A i \in DOMAIN frames[t] :
                 Home[frames[t][i].of] = t
EnvHome == \A L \in Created : env[L] = Home[L]

EInv == BInv /\ FramesHome /\ EnvHome

\* Every step keeps it.
LEMMA NextEInv ==
  ASSUME "confined" \in Rules
  PROVE  EInv /\ [Next]_vars => EInv'
<1> SUFFICES ASSUME EInv, [Next]_vars PROVE FramesHome' /\ EnvHome'
  BY NextBInv DEF EInv
<1>0. TypeOK /\ FramesHome /\ EnvHome /\ FramesCreated BY DEF EInv, BInv
<1>1. ASSUME NEW t \in Threads, NEW L \in LuaStates, NewState(t, L)
      PROVE  FramesHome' /\ EnvHome'
  <2>1. /\ Created' = Created \cup {L} /\ L \notin Created /\ Home[L] = t
        /\ frames' = frames /\ env' = [env EXCEPT ![L] = t]
    BY <1>0, <1>1 DEF NewState, Open, pushJNIEnv, Created, TypeOK, MayUse
  <2>2. EnvHome' BY <1>0, <2>1 DEF EnvHome, TypeOK, Created
  <2> QED BY <1>0, <2>1, <2>2 DEF FramesHome
<1>2. ASSUME NEW t \in Threads, NEW f \in Frame, Push(t, f), Home[f.of] = t,
             env' = env, native' = native
      PROVE  FramesHome' /\ EnvHome'
  <2>1. ASSUME NEW u \in Threads, NEW i \in DOMAIN frames'[u]
        PROVE  Home[frames'[u][i].of] = u
    BY <1>0, <1>2, <2>1, FramesAfterPush DEF FramesHome
  <2> QED BY <1>0, <1>2, <2>1 DEF FramesHome, EnvHome, Created
<1>3. ASSUME NEW t \in Threads, NEW L \in LuaStates, Call(t, L)
      PROVE  FramesHome' /\ EnvHome'
  <2>1. LuaFrame(L) \in Frame /\ LuaFrame(L).of = L BY DEF LuaFrame, Frame, Stages
  <2> QED BY <1>2, <1>3, <2>1 DEF Call, MayUse
<1>4. ASSUME NEW t \in Threads, NEW L \in LuaStates, Callback(t, L)
      PROVE  FramesHome' /\ EnvHome'
  <2>1. states[stateId[L]] \in LuaStates BY <1>0, <1>4 DEF Callback, GetState, getLuaStateId, TypeOK
  <2>2. /\ JavaFrame(L, states[stateId[L]]) \in Frame
        /\ JavaFrame(L, states[stateId[L]]).of = L
    BY <2>1 DEF JavaFrame, Frame, Stages
  <2>3. Home[L] = t
    <3>1. frames[t] # <<>> /\ Top(t).of = L BY <1>4 DEF Callback, InLua
    <3> QED BY <1>0, <3>1, TopIsFrame DEF FramesHome
  <2> QED BY <1>2, <1>4, <2>2, <2>3 DEF Callback, GetState, getLuaStateId
<1>5. ASSUME NEW t \in Threads, NEW L \in LuaStates, BeginClose(t, L)
      PROVE  FramesHome' /\ EnvHome'
  <2>1. CloseFrame(L, "tested") \in Frame /\ CloseFrame(L, "tested").of = L
    BY DEF CloseFrame, Frame, Stages
  <2> QED BY <1>2, <1>5, <2>1 DEF BeginClose, MayUse
<1>6. ASSUME NEW t \in Threads, frames[t] # <<>>, Pop(t), env' = env, native' = native
      PROVE  FramesHome' /\ EnvHome'
  <2>1. ASSUME NEW u \in Threads, NEW i \in DOMAIN frames'[u]
        PROVE  Home[frames'[u][i].of] = u
    BY <1>0, <1>6, <2>1, FramesAfterPop DEF FramesHome
  <2> QED BY <1>0, <1>6, <2>1 DEF FramesHome, EnvHome, Created
<1>7. ASSUME NEW t \in Threads, NEW s \in Stages, frames[t] # <<>>, Advance(t, s),
             env' = env, Created' = Created
      PROVE  FramesHome' /\ EnvHome'
  <2>1. ASSUME NEW u \in Threads, NEW i \in DOMAIN frames'[u]
        PROVE  Home[frames'[u][i].of] = u
    <3>1. /\ i \in DOMAIN frames[u]
          /\ \/ frames'[u][i] = frames[u][i]
             \/ frames'[u][i] = CloseFrame(frames[u][i].of, s)
      BY <1>0, <1>7, FramesAfterAdvance
    <3>2. CloseFrame(frames[u][i].of, s).of = frames[u][i].of BY DEF CloseFrame
    <3> QED BY <1>0, <3>1, <3>2 DEF FramesHome
  <2> QED BY <1>0, <1>7, <2>1 DEF FramesHome, EnvHome
<1>8. ASSUME NEW t \in Threads, RemoveState(t) PROVE FramesHome' /\ EnvHome'
  BY <1>7, <1>8 DEF RemoveState, Closing, Stages, Created
<1>9. ASSUME NEW t \in Threads, NativeClose(t) PROVE FramesHome' /\ EnvHome'
  <2>1. Created' = Created BY <1>0, <1>9 DEF NativeClose, Created, TypeOK
  <2> QED BY <1>7, <1>9, <2>1 DEF NativeClose, Closing, Stages
<1>10. ASSUME NEW t \in Threads, FreeNative(t) PROVE FramesHome' /\ EnvHome'
  <2>1. frames[t] # <<>> BY <1>10 DEF FreeNative, Closing
  <2>2. Top(t).of \in Created BY <1>0, <2>1, TopIsFrame DEF FramesCreated
  <2>3. Created' = Created BY <1>0, <1>10, <2>2 DEF FreeNative, Created, TypeOK
  <2> QED BY <1>7, <1>10, <2>3 DEF FreeNative, Closing, Stages
<1>11. ASSUME UNCHANGED vars PROVE FramesHome' /\ EnvHome'
  BY <1>0, <1>11 DEF vars, FramesHome, EnvHome, Created
<1> QED
  BY <1>1, <1>3, <1>4, <1>5, <1>6, <1>8, <1>9, <1>10, <1>11
     DEF Next, Step, Return, EndClose, Closing

\* With "confined" the JNIEnv that java_function_call reads from the registry
\* of its state is always the one of the thread it runs in.
THEOREM CallbacksUseOwnEnv ==
  ASSUME "confined" \in Rules
  PROVE  Spec => []EnvIsCallersOwn
<1>1. Init => EInv
  BY InitBInv DEF Init, EInv, FramesHome, EnvHome, Created
<1>2. EInv /\ [Next]_vars => EInv' BY NextEInv
<1>3. EInv => EnvIsCallersOwn
  BY DEF EInv, BInv, FramesHome, EnvHome, FramesCreated, EnvIsCallersOwn
<1> QED BY <1>1, <1>2, <1>3, PTL DEF Spec

-----------------------------------------------------------------------------
(* A Java function gets the LuaState of the interpreter that called it *)

\* The slot of a state that close() removed stays empty until lua_close has
\* ended: under "alone" nobody can take it before.
SlotGone == \A c \in Closers :
    Fr(c).at # "tested" /\ stateId[Fr(c).of] \in DOMAIN states =>
        states[stateId[Fr(c).of]] = Null

\* A state whose close() has come to "freed", or is over, is freed.
FreedIsFreed ==
    /\ \A c \in Closers : Fr(c).at = "freed" => native[Fr(c).of] = "freed"
    /\ \A L \in Created : ~luaState[L] => native[L] = "freed"

KInv == RInv /\ SlotGone /\ FreedIsFreed /\ CallbackOwner

\* What a step does that begins, ends and advances no close().
LEMMA SameKInv ==
  ASSUME SlotGone, FreedIsFreed, SameClosers, luaState' = luaState,
         native' = native, states' = states, stateId' = stateId
  PROVE  SlotGone' /\ FreedIsFreed'
BY DEF SlotGone, FreedIsFreed, SameClosers, Created

\* Steps that push no Java function keep CallbackOwner.
LEMMA PushOwner ==
  ASSUME TypeOK, CallbackOwner, NEW t \in Threads, NEW f \in Frame, Push(t, f),
         f.kind = "java" => f.self = f.of
  PROVE  CallbackOwner'
<1>1. ASSUME NEW u \in Threads, NEW i \in DOMAIN frames'[u], frames'[u][i].kind = "java"
      PROVE  frames'[u][i].self = frames'[u][i].of
  BY <1>1, FramesAfterPush DEF CallbackOwner
<1> QED BY <1>1 DEF CallbackOwner

\* No callback is added.
LEMMA PopOwner ==
  ASSUME TypeOK, CallbackOwner, NEW t \in Threads, frames[t] # <<>>, Pop(t)
  PROVE  CallbackOwner'
<1>1. ASSUME NEW u \in Threads, NEW i \in DOMAIN frames'[u], frames'[u][i].kind = "java"
      PROVE  frames'[u][i].self = frames'[u][i].of
  BY <1>1, FramesAfterPop DEF CallbackOwner
<1> QED BY <1>1 DEF CallbackOwner

\* No callback is added.
LEMMA AdvanceOwner ==
  ASSUME TypeOK, CallbackOwner, NEW t \in Threads, NEW s \in Stages,
         frames[t] # <<>>, Advance(t, s)
  PROVE  CallbackOwner'
<1>1. ASSUME NEW u \in Threads, NEW i \in DOMAIN frames'[u], frames'[u][i].kind = "java"
      PROVE  frames'[u][i].self = frames'[u][i].of
  <2>1. /\ i \in DOMAIN frames[u]
        /\ \/ frames'[u][i] = frames[u][i]
           \/ frames'[u][i] = CloseFrame(frames[u][i].of, s)
    BY FramesAfterAdvance
  <2>2. CloseFrame(frames[u][i].of, s).kind = "close" BY DEF CloseFrame
  <2> QED BY <1>1, <2>1, <2>2 DEF CallbackOwner
<1> QED BY <1>1 DEF CallbackOwner

\* getState answers the callback of L with L itself, or with null.
LEMMA FoundIsOwn ==
  ASSUME KInv, NEW L \in Created, native[L] # "freed",
         stateId[L] \in DOMAIN states, states[stateId[L]] # Null
  PROVE  states[stateId[L]] = L
<1>0. /\ TypeOK /\ RegistryAgrees /\ SlotGone /\ FreedIsFreed
      /\ Unlisted = UnlistedByClosers
  BY UnlistedIs DEF KInv, RInv, CInv, BInv
<1>1. CASE L \notin Unlisted BY <1>0, <1>1 DEF RegistryAgrees
<1>2. CASE L \in Unlisted
  <2>1. luaState[L] BY <1>0 DEF FreedIsFreed
  <2>2. PICK c \in Closers : Fr(c).of = L /\ Fr(c).at # "tested"
    BY <1>0, <1>2, <2>1 DEF UnlistedByClosers
  <2> QED BY <1>0, <2>2 DEF SlotGone
<1> QED BY <1>1, <1>2

\* Every step keeps it.
LEMMA NextKInv ==
  ASSUME {"stacked", "onecloser", "alone"} \subseteq Rules
  PROVE  KInv /\ [Next]_vars => KInv'
<1> SUFFICES ASSUME KInv, [Next]_vars
             PROVE  SlotGone' /\ FreedIsFreed' /\ CallbackOwner'
  BY NextRInv DEF KInv
<1>0. /\ TypeOK /\ FramesCreated /\ OneCloser /\ CloserState
      /\ SlotGone /\ FreedIsFreed /\ CallbackOwner
  BY DEF KInv, RInv, CInv, BInv
<1>1. ASSUME NEW t \in Threads, NEW L \in LuaStates, NewState(t, L)
      PROVE  SlotGone' /\ FreedIsFreed' /\ CallbackOwner'
  <2>1. Closers = {}
    <3>1. \A M \in LuaStates : ~HasFrame(M, {"close"}) BY <1>1 DEF NewState, Open, pushJNIEnv
    <3>2. ASSUME NEW c \in Closers PROVE FALSE
      <4>1. Fr(c).of \in LuaStates BY <1>0, CloserFrame
      <4> QED BY <3>1, <4>1 DEF HasFrame, Closers, Fr
    <3> QED BY <3>2
  <2>2. Closers' = {} /\ frames' = frames
    BY <1>1, <2>1 DEF NewState, Open, pushJNIEnv, Closers
  <2>3. FreedIsFreed'
    BY <1>0, <1>1, <2>2 DEF FreedIsFreed, NewState, Open, pushJNIEnv, Created, TypeOK
  <2> QED BY <1>0, <2>2, <2>3 DEF SlotGone, CallbackOwner
<1>2. ASSUME NEW t \in Threads, NEW L \in LuaStates, Call(t, L)
      PROVE  SlotGone' /\ FreedIsFreed' /\ CallbackOwner'
  <2>1. LuaFrame(L) \in Frame /\ LuaFrame(L).kind = "lua" /\ Push(t, LuaFrame(L))
    BY <1>2 DEF LuaFrame, Frame, Stages, Call
  <2>2. SameClosers BY <1>0, <2>1, PushOther
  <2>3. CallbackOwner' BY <1>0, <2>1, PushOwner
  <2> QED BY <1>0, <1>2, <2>2, <2>3, SameKInv DEF Call
<1>3. ASSUME NEW t \in Threads, NEW L \in LuaStates, Callback(t, L)
      PROVE  SlotGone' /\ FreedIsFreed' /\ CallbackOwner'
  <2>1. L \in Created
    <3>1. frames[t] # <<>> /\ Top(t).of = L BY <1>3 DEF Callback, InLua
    <3> QED BY <1>0, <3>1, TopIsFrame DEF FramesCreated
  <2>2. states[stateId[L]] = L BY <1>3, <2>1, FoundIsOwn DEF Callback, GetState, getLuaStateId
  <2>3. /\ JavaFrame(L, L) \in Frame /\ JavaFrame(L, L).kind = "java"
        /\ JavaFrame(L, L).self = JavaFrame(L, L).of
        /\ Push(t, JavaFrame(L, L))
    BY <1>3, <2>2 DEF JavaFrame, Frame, Stages, Callback, GetState, getLuaStateId
  <2>4. SameClosers BY <1>0, <2>3, PushOther
  <2>5. CallbackOwner' BY <1>0, <2>3, PushOwner
  <2> QED BY <1>0, <1>3, <2>4, <2>5, SameKInv DEF Callback, GetState, getLuaStateId
<1>4. ASSUME NEW t \in Threads, NEW L \in LuaStates, BeginClose(t, L)
      PROVE  SlotGone' /\ FreedIsFreed' /\ CallbackOwner'
  <2>1. PICK c \in Threads \X Nat : /\ c \notin Closers
                                   /\ Closers' = Closers \cup {c}
                                   /\ Fr(c)' = CloseFrame(L, "tested")
                                   /\ \A d \in Closers : Fr(d)' = Fr(d)
    BY <1>0, <1>4, PushClose DEF BeginClose
  <2>2. /\ CloseFrame(L, "tested") \in Frame
        /\ CloseFrame(L, "tested").kind = "close"
        /\ CloseFrame(L, "tested").at = "tested"
    BY DEF CloseFrame, Frame, Stages
  <2>3. SlotGone' BY <1>0, <1>4, <2>1, <2>2 DEF SlotGone, BeginClose
  <2>4. FreedIsFreed' BY <1>0, <1>4, <2>1, <2>2 DEF FreedIsFreed, BeginClose, Created
  <2>5. CallbackOwner' BY <1>0, <1>4, <2>2, PushOwner DEF BeginClose
  <2> QED BY <2>3, <2>4, <2>5
<1>5. ASSUME NEW t \in Threads, Return(t)
      PROVE  SlotGone' /\ FreedIsFreed' /\ CallbackOwner'
  <2>1. SameClosers /\ CallbackOwner' BY <1>0, <1>5, PopOther, PopOwner DEF Return
  <2> QED BY <1>0, <1>5, <2>1, SameKInv DEF Return
<1>6. ASSUME NEW t \in Threads, RemoveState(t)
      PROVE  SlotGone' /\ FreedIsFreed' /\ CallbackOwner'
  <2> DEFINE e == <<t, Len(frames[t])>>
             L == Top(t).of
  <2>1. /\ Closing(t, "tested") /\ Advance(t, "removed") /\ "removed" \in Stages
        /\ frames[t] # <<>>
    BY <1>6 DEF RemoveState, Stages, Closing
  <2>2. /\ Closers' = Closers
        /\ \A c \in Closers : Fr(c)' = IF c = e THEN CloseFrame(L, "removed")
                                               ELSE Fr(c)
    BY <1>0, <2>1, AdvanceClose
  <2>3. e \in Closers /\ Fr(e).of = L /\ L \in LuaStates BY <1>0, <2>1, ClosingIs
  <2>4. CloseFrame(L, "removed").of = L /\ CloseFrame(L, "removed").at = "removed"
    BY DEF CloseFrame
  <2>5. /\ DOMAIN states' = DOMAIN states
        /\ \A j \in DOMAIN states :
              states'[j] = IF j = stateId[L] THEN Null ELSE states[j]
    BY <1>0, <1>6, RemoveStateIs
  <2>6. CallbackOwner' BY <1>0, <2>1, AdvanceOwner
  <2>7. stateId' = stateId /\ luaState' = luaState /\ native' = native
    BY <1>6 DEF RemoveState
  <2> HIDE DEF e, L
  <2>8. SlotGone' BY <1>0, <2>2, <2>3, <2>4, <2>5, <2>7 DEF SlotGone
  <2>9. FreedIsFreed' BY <1>0, <2>2, <2>3, <2>4, <2>7 DEF FreedIsFreed, Created
  <2> QED BY <2>6, <2>8, <2>9
<1>7. ASSUME NEW t \in Threads, NativeClose(t)
      PROVE  SlotGone' /\ FreedIsFreed' /\ CallbackOwner'
  <2> DEFINE e == <<t, Len(frames[t])>>
             L == Top(t).of
  <2>1. /\ Closing(t, "removed") /\ Advance(t, "finalizing") /\ "finalizing" \in Stages
        /\ frames[t] # <<>>
    BY <1>7 DEF NativeClose, Stages, Closing
  <2>2. /\ Closers' = Closers
        /\ \A c \in Closers : Fr(c)' = IF c = e THEN CloseFrame(L, "finalizing")
                                               ELSE Fr(c)
    BY <1>0, <2>1, AdvanceClose
  <2>3. e \in Closers /\ Fr(e).of = L /\ Fr(e).at = "removed" /\ L \in LuaStates
    BY <1>0, <2>1, ClosingIs
  <2>4. CloseFrame(L, "finalizing").of = L /\ CloseFrame(L, "finalizing").at = "finalizing"
    BY DEF CloseFrame
  <2>5. CallbackOwner' BY <1>0, <2>1, AdvanceOwner
  <2>6. /\ stateId' = stateId /\ luaState' = luaState /\ states' = states
        /\ native[L] = "open" /\ luaState[L]
        /\ \A M \in LuaStates : M # L => native'[M] = native[M]
        /\ native'[L] = "closing"
    BY <1>0, <1>7, <2>3 DEF NativeClose, TypeOK
  <2>7. Created' = Created BY <2>6 DEF Created
  <2>8. \A c \in Closers : Fr(c).of \in LuaStates BY <1>0, CloserFrame
  <2> HIDE DEF e, L
  <2>9. SlotGone' BY <1>0, <2>2, <2>3, <2>4, <2>6 DEF SlotGone
  <2>10. \A L1 \in Created' : ~luaState'[L1] => native'[L1] = "freed"
    BY <1>0, <2>6, <2>7 DEF FreedIsFreed, Created
  <2>11. \A c \in Closers' : Fr(c)'.at = "freed" => native'[Fr(c)'.of] = "freed"
    BY <1>0, <2>2, <2>3, <2>4, <2>6, <2>8 DEF FreedIsFreed
  <2> QED BY <2>5, <2>9, <2>10, <2>11 DEF FreedIsFreed
<1>8. ASSUME NEW t \in Threads, FreeNative(t)
      PROVE  SlotGone' /\ FreedIsFreed' /\ CallbackOwner'
  <2> DEFINE e == <<t, Len(frames[t])>>
             L == Top(t).of
  <2>1. /\ Closing(t, "finalizing") /\ Advance(t, "freed") /\ "freed" \in Stages
        /\ frames[t] # <<>>
    BY <1>8 DEF FreeNative, Stages, Closing
  <2>2. /\ Closers' = Closers
        /\ \A c \in Closers : Fr(c)' = IF c = e THEN CloseFrame(L, "freed") ELSE Fr(c)
    BY <1>0, <2>1, AdvanceClose
  <2>3. /\ e \in Closers /\ Fr(e).of = L /\ Fr(e).at = "finalizing"
        /\ L \in LuaStates /\ L \in Created
    BY <1>0, <2>1, ClosingIs DEF FramesCreated, Closers, Fr
  <2>4. CloseFrame(L, "freed").of = L /\ CloseFrame(L, "freed").at = "freed"
    BY DEF CloseFrame
  <2>5. CallbackOwner' BY <1>0, <2>1, AdvanceOwner
  <2>6. /\ stateId' = stateId /\ luaState' = luaState /\ states' = states
        /\ \A M \in LuaStates : M # L => native'[M] = native[M]
        /\ native'[L] = "freed"
    BY <1>0, <1>8, <2>3 DEF FreeNative, TypeOK
  <2>7. Created' = Created BY <2>3, <2>6 DEF Created
  <2>8. \A c \in Closers : Fr(c).of \in LuaStates BY <1>0, CloserFrame
  <2> HIDE DEF e, L
  <2>9. SlotGone' BY <1>0, <2>2, <2>3, <2>4, <2>6 DEF SlotGone
  <2>10. \A L1 \in Created' : ~luaState'[L1] => native'[L1] = "freed"
    BY <1>0, <2>6, <2>7 DEF FreedIsFreed, Created
  <2>11. \A c \in Closers' : Fr(c)'.at = "freed" => native'[Fr(c)'.of] = "freed"
    BY <1>0, <2>2, <2>3, <2>4, <2>6, <2>8 DEF FreedIsFreed
  <2> QED BY <2>5, <2>9, <2>10, <2>11 DEF FreedIsFreed
<1>9. ASSUME NEW t \in Threads, EndClose(t)
      PROVE  SlotGone' /\ FreedIsFreed' /\ CallbackOwner'
  <2> DEFINE e == <<t, Len(frames[t])>>
             L == Top(t).of
  <2>1. Closers' = Closers \ {e} /\ \A c \in Closers' : Fr(c)' = Fr(c)
    BY <1>0, <1>9, PopClose DEF EndClose
  <2>2. e \in Closers /\ Fr(e).of = L /\ Fr(e).at = "freed" /\ L \in LuaStates
    BY <1>0, <1>9, ClosingIs DEF EndClose
  <2>3. /\ stateId' = stateId /\ native' = native /\ states' = states
        /\ \A M \in LuaStates : M # L => luaState'[M] = luaState[M]
    BY <1>0, <1>9, <2>2 DEF EndClose, TypeOK
  <2>4. CallbackOwner' BY <1>0, <1>9, PopOwner DEF EndClose, Closing
  <2> HIDE DEF e, L
  <2>5. native[L] = "freed" BY <1>0, <2>2 DEF FreedIsFreed
  <2> QED BY <1>0, <2>1, <2>3, <2>4, <2>5 DEF SlotGone, FreedIsFreed, Created
<1>10. ASSUME UNCHANGED vars PROVE SlotGone' /\ FreedIsFreed' /\ CallbackOwner'
  <2>1. SameClosers BY <1>10 DEF vars, SameClosers, Closers, Fr
  <2> QED BY <1>0, <1>10, <2>1, SameKInv DEF vars, CallbackOwner
<1> QED
  BY <1>1, <1>2, <1>3, <1>4, <1>5, <1>6, <1>7, <1>8, <1>9, <1>10 DEF Next, Step

\* With "stacked", "onecloser" and "alone" c_function hands a Java function the
\* LuaState whose interpreter called it, finalizers that lua_close runs included.
THEOREM CallbacksGetTheirOwner ==
  ASSUME {"stacked", "onecloser", "alone"} \subseteq Rules
  PROVE  Spec => []CallbackOwner
<1>1. Init => KInv
  <2> SUFFICES ASSUME Init PROVE KInv OBVIOUS
  <2>1. Closers = {} /\ Created = {} /\ \A t \in Threads : DOMAIN frames[t] = {}
    BY DEF Init, Closers, Created
  <2> QED BY <2>1, InitRInv DEF KInv, SlotGone, FreedIsFreed, CallbackOwner
<1>2. KInv /\ [Next]_vars => KInv' BY NextKInv
<1>3. KInv => CallbackOwner BY DEF KInv
<1> QED BY <1>1, <1>2, <1>3, PTL DEF Spec

-----------------------------------------------------------------------------
(* Nobody is inside a state that is freed *)

IsUse(f) == f.kind \in {"lua", "java"}

\* A state that some call is inside has a pointer that is not 0; and if its
\* close() runs, that is the lua_close that runs the call as a finalizer.
UsersHavePointer == \A t \in Threads : \A i \in DOMAIN frames[t] :
    IsUse(frames[t][i]) => luaState[frames[t][i].of]

UsersAboveCloser == \A t \in Threads : \A i \in DOMAIN frames[t] :
    IsUse(frames[t][i]) => \A c \in Closers :
        Fr(c).of = frames[t][i].of => /\ c[1] = t /\ c[2] \in 1..i - 1
                                      /\ Fr(c).at = "finalizing"

CloserShape == \A c \in Closers : Fr(c) = CloseFrame(Fr(c).of, Fr(c).at)

UInv == CInv /\ UsersHavePointer /\ UsersAboveCloser /\ CloserShape

\* Every step keeps it.
LEMMA NextUInv ==
  ASSUME {"quiescent", "onecloser"} \subseteq Rules
  PROVE  UInv /\ [Next]_vars => UInv'
<1> SUFFICES ASSUME UInv, [Next]_vars
             PROVE  UsersHavePointer' /\ UsersAboveCloser' /\ CloserShape'
  BY NextCInv DEF UInv
<1>0. /\ TypeOK /\ FramesCreated /\ OneCloser /\ CloserState
      /\ UsersHavePointer /\ UsersAboveCloser /\ CloserShape
  BY DEF UInv, CInv, BInv
<1>a. \A t \in Threads : DOMAIN frames[t] \subseteq Nat BY DEF TypeOK, UInv, CInv, BInv
<1>1. ASSUME NEW t \in Threads, NEW L \in LuaStates, NewState(t, L)
      PROVE  UsersHavePointer' /\ UsersAboveCloser' /\ CloserShape'
  <2>1. /\ frames' = frames /\ Closers' = Closers /\ \A c : Fr(c)' = Fr(c)
        /\ L \notin Created /\ luaState' = [luaState EXCEPT ![L] = TRUE]
    BY <1>1 DEF NewState, Open, pushJNIEnv, Closers, Fr, Created
  <2>2. UsersHavePointer'
    BY <1>0, <2>1 DEF UsersHavePointer, TypeOK, FramesCreated, Created
  <2> QED BY <1>0, <2>1, <2>2 DEF UsersAboveCloser, CloserShape
<1>2. ASSUME NEW t \in Threads, NEW f \in Frame, IsUse(f), Push(t, f),
             luaState' = luaState, luaState[f.of],
             \A c \in Closers : Fr(c).of = f.of =>
                c[1] = t /\ c[2] \in 1..Len(frames[t]) /\ Fr(c).at = "finalizing"
      PROVE  UsersHavePointer' /\ UsersAboveCloser' /\ CloserShape'
  <2>1. Closers' = Closers /\ \A c \in Closers : Fr(c)' = Fr(c)
    BY <1>0, <1>2, PushOther DEF SameClosers, IsUse
  <2>2. Len(frames[t]) \in Nat BY <1>0 DEF TypeOK
  <2>3. ASSUME NEW u \in Threads, NEW i \in DOMAIN frames'[u], IsUse(frames'[u][i])
        PROVE  /\ luaState[frames'[u][i].of]
               /\ \A c \in Closers : Fr(c).of = frames'[u][i].of =>
                     c[1] = u /\ c[2] \in 1..i - 1 /\ Fr(c).at = "finalizing"
    <3>1. CASE i \in DOMAIN frames[u] /\ frames'[u][i] = frames[u][i]
      BY <1>0, <2>3, <3>1 DEF UsersHavePointer, UsersAboveCloser
    <3>2. CASE u = t /\ i = Len(frames[t]) + 1 /\ frames'[u][i] = f
      BY <1>2, <2>2, <3>2
    <3> QED BY <1>0, <1>2, <3>1, <3>2, FramesAfterPush
  <2>4. CloserShape' BY <1>0, <2>1 DEF CloserShape
  <2> QED BY <1>2, <2>1, <2>3, <2>4 DEF UsersHavePointer, UsersAboveCloser
<1>3. ASSUME NEW t \in Threads, NEW L \in LuaStates, Call(t, L)
      PROVE  UsersHavePointer' /\ UsersAboveCloser' /\ CloserShape'
  <2>1. /\ LuaFrame(L) \in Frame /\ IsUse(LuaFrame(L)) /\ LuaFrame(L).of = L
        /\ Push(t, LuaFrame(L)) /\ luaState' = luaState /\ luaState[L]
        /\ ~HasFrame(L, {"close"})
    BY <1>3 DEF LuaFrame, Frame, Stages, Call, IsUse
  <2>2. \A c \in Closers : Fr(c).of # L BY <2>1 DEF HasFrame, Closers, Fr
  <2> QED BY <1>2, <2>1, <2>2
<1>4. ASSUME NEW t \in Threads, NEW L \in LuaStates, Callback(t, L)
      PROVE  UsersHavePointer' /\ UsersAboveCloser' /\ CloserShape'
  <2> DEFINE f == JavaFrame(L, states[stateId[L]])
             n == Len(frames[t])
  <2>1. states[stateId[L]] \in LuaStates BY <1>0, <1>4 DEF Callback, GetState, getLuaStateId, TypeOK
  <2>2. f \in Frame /\ IsUse(f) /\ f.of = L /\ Push(t, f) /\ luaState' = luaState
    BY <1>4, <2>1 DEF JavaFrame, Frame, Stages, Callback, GetState, getLuaStateId, IsUse
  <2>3. /\ frames[t] # <<>> /\ Top(t).of = L
        /\ (Top(t).kind = "lua" \/ (Top(t).kind = "close" /\ Top(t).at = "finalizing"))
    BY <1>4 DEF Callback, InLua
  <2>4. n \in DOMAIN frames[t] /\ Top(t) = frames[t][n] /\ n \in Nat /\ n >= 1
    BY <1>0, <2>3, TopIsFrame
  <2>5. CASE Top(t).kind = "lua"
    <3>1. IsUse(frames[t][n]) BY <2>4, <2>5 DEF IsUse
    <3> QED BY <1>0, <1>2, <2>2, <2>3, <2>4, <3>1 DEF UsersHavePointer, UsersAboveCloser
  <2>6. CASE Top(t).kind = "close" /\ Top(t).at = "finalizing"
    <3>1. Closing(t, "finalizing") BY <2>3, <2>6 DEF Closing
    <3>2. /\ <<t, n>> \in Closers /\ Fr(<<t, n>>).of = L
          /\ Fr(<<t, n>>).at = "finalizing"
      BY <1>0, <2>3, <3>1, ClosingIs
    <3>3. \A c \in Closers : Fr(c).of = L => c = <<t, n>>
      BY <1>0, <3>2 DEF OneCloser
    <3>4. luaState[L] BY <1>0, <3>2 DEF CloserState
    <3> QED BY <1>2, <2>2, <2>4, <3>2, <3>3, <3>4
  <2> QED BY <2>3, <2>5, <2>6
<1>5. ASSUME NEW t \in Threads, NEW L \in LuaStates, BeginClose(t, L)
      PROVE  UsersHavePointer' /\ UsersAboveCloser' /\ CloserShape'
  <2> DEFINE f == CloseFrame(L, "tested")
  <2>1. PICK c \in Threads \X Nat : /\ c \notin Closers
                                   /\ Closers' = Closers \cup {c}
                                   /\ Fr(c)' = f
                                   /\ \A d \in Closers : Fr(d)' = Fr(d)
    BY <1>0, <1>5, PushClose DEF BeginClose
  <2>2. /\ f \in Frame /\ ~IsUse(f) /\ f.of = L /\ f.at = "tested"
        /\ f = CloseFrame(f.of, f.at)
        /\ Push(t, f) /\ luaState' = luaState /\ ~HasFrame(L, {"lua", "java"})
    BY <1>5 DEF CloseFrame, Frame, Stages, BeginClose, IsUse
  <2> HIDE DEF f
  <2>3. ASSUME NEW u \in Threads, NEW i \in DOMAIN frames'[u], IsUse(frames'[u][i])
        PROVE  /\ luaState[frames'[u][i].of]
               /\ \A d \in Closers' : Fr(d)'.of = frames'[u][i].of =>
                     d[1] = u /\ d[2] \in 1..i - 1 /\ Fr(d)'.at = "finalizing"
    <3>1. i \in DOMAIN frames[u] /\ frames'[u][i] = frames[u][i]
      BY <1>0, <2>2, <2>3, FramesAfterPush
    <3>2. frames'[u][i].of # L
      BY <2>2, <2>3, <3>1 DEF HasFrame, IsUse
    <3> QED BY <1>0, <2>1, <2>2, <2>3, <3>1, <3>2 DEF UsersHavePointer, UsersAboveCloser
  <2>4. CloserShape' BY <1>0, <2>1, <2>2 DEF CloserShape
  <2> QED BY <2>2, <2>3, <2>4 DEF UsersHavePointer, UsersAboveCloser
<1>6. ASSUME NEW t \in Threads, Return(t)
      PROVE  UsersHavePointer' /\ UsersAboveCloser' /\ CloserShape'
  <2>1. Closers' = Closers /\ \A c \in Closers : Fr(c)' = Fr(c)
    BY <1>0, <1>6, PopOther DEF Return, SameClosers
  <2>2. ASSUME NEW u \in Threads, NEW i \in DOMAIN frames'[u], IsUse(frames'[u][i])
        PROVE  /\ luaState[frames'[u][i].of]
               /\ \A c \in Closers : Fr(c).of = frames'[u][i].of =>
                     c[1] = u /\ c[2] \in 1..i - 1 /\ Fr(c).at = "finalizing"
    BY <1>0, <1>6, <2>2, FramesAfterPop DEF UsersHavePointer, UsersAboveCloser, Return
  <2>3. luaState' = luaState BY <1>6 DEF Return
  <2>4. CloserShape' BY <1>0, <2>1 DEF CloserShape
  <2> QED BY <2>1, <2>2, <2>3, <2>4 DEF UsersHavePointer, UsersAboveCloser
\* A close() on top of a stack is on a state that no call is inside.
<1>7. ASSUME NEW t \in Threads, NEW r, Closing(t, r),
             NEW u \in Threads, NEW i \in DOMAIN frames[u], IsUse(frames[u][i])
      PROVE  frames[u][i].of # Top(t).of
  <2> DEFINE n == Len(frames[t])
  <2>1. <<t, n>> \in Closers /\ Fr(<<t, n>>).of = Top(t).of
    BY <1>0, <1>7, ClosingIs
  <2>2. CASE frames[u][i].of = Top(t).of
    <3>1. t = u /\ n \in 1..i - 1
      BY <1>0, <1>7, <2>1, <2>2 DEF UsersAboveCloser
    <3>2. i \in 1..n /\ n \in Nat
      BY <1>0, <1>7, <3>1, TopIsFrame DEF Closing
    <3> QED BY <3>1, <3>2
  <2> QED BY <2>2
<1>8. ASSUME NEW t \in Threads, NEW r, NEW s \in Stages, Closing(t, r), Advance(t, s),
             luaState' = luaState
      PROVE  UsersHavePointer' /\ UsersAboveCloser' /\ CloserShape'
  <2> DEFINE e == <<t, Len(frames[t])>>
             L == Top(t).of
  <2>1. /\ Closers' = Closers
        /\ \A c \in Closers : Fr(c)' = IF c = e THEN CloseFrame(L, s) ELSE Fr(c)
    BY <1>0, <1>8, AdvanceClose
  <2>2. e \in Closers /\ Fr(e).of = L BY <1>0, <1>8, ClosingIs
  <2>3. /\ CloseFrame(L, s).of = L /\ ~IsUse(CloseFrame(L, s))
        /\ CloseFrame(L, s) = CloseFrame(CloseFrame(L, s).of, CloseFrame(L, s).at)
    BY DEF CloseFrame, IsUse
  <2>4. ASSUME NEW u \in Threads, NEW i \in DOMAIN frames'[u], IsUse(frames'[u][i])
        PROVE  i \in DOMAIN frames[u] /\ frames'[u][i] = frames[u][i]
    <3>1. ~IsUse(CloseFrame(frames[u][i].of, s)) BY DEF CloseFrame, IsUse
    <3>2. frames[t] # <<>> BY <1>8 DEF Closing
    <3> QED BY <1>0, <1>8, <2>4, <3>1, <3>2, FramesAfterAdvance
  <2>5. ASSUME NEW u \in Threads, NEW i \in DOMAIN frames'[u], IsUse(frames'[u][i])
        PROVE  frames'[u][i].of # L
    <3>1. i \in DOMAIN frames[u] /\ frames'[u][i] = frames[u][i] BY <2>5, <2>4
    <3> QED BY <1>7, <1>8, <2>5, <3>1
  <2> HIDE DEF e, L
  <2>6. UsersHavePointer' BY <1>0, <1>8, <2>4 DEF UsersHavePointer
  <2>7. UsersAboveCloser'
    <3> SUFFICES ASSUME NEW u \in Threads, NEW i \in DOMAIN frames'[u],
                        IsUse(frames'[u][i]), NEW c \in Closers',
                        Fr(c)'.of = frames'[u][i].of
                 PROVE  c[1] = u /\ c[2] \in 1..i - 1 /\ Fr(c)'.at = "finalizing"
      BY DEF UsersAboveCloser
    <3>1. i \in DOMAIN frames[u] /\ frames'[u][i] = frames[u][i] BY <2>4
    <3>2. c # e BY <2>1, <2>2, <2>3, <2>5
    <3>3. Fr(c)' = Fr(c) /\ c \in Closers BY <2>1, <3>2
    <3> QED BY <1>0, <3>1, <3>3 DEF UsersAboveCloser
  <2>8. CloserShape' BY <1>0, <2>1, <2>2, <2>3 DEF CloserShape
  <2> QED BY <2>6, <2>7, <2>8
<1>9. ASSUME NEW t \in Threads, RemoveState(t)
      PROVE  UsersHavePointer' /\ UsersAboveCloser' /\ CloserShape'
  BY <1>8, <1>9 DEF RemoveState, Stages
<1>10. ASSUME NEW t \in Threads, NativeClose(t)
       PROVE  UsersHavePointer' /\ UsersAboveCloser' /\ CloserShape'
  BY <1>8, <1>10 DEF NativeClose, Stages
<1>11. ASSUME NEW t \in Threads, FreeNative(t)
       PROVE  UsersHavePointer' /\ UsersAboveCloser' /\ CloserShape'
  BY <1>8, <1>11 DEF FreeNative, Stages
<1>12. ASSUME NEW t \in Threads, EndClose(t)
       PROVE  UsersHavePointer' /\ UsersAboveCloser' /\ CloserShape'
  <2> DEFINE e == <<t, Len(frames[t])>>
             L == Top(t).of
  <2>1. Closers' = Closers \ {e} /\ \A c \in Closers' : Fr(c)' = Fr(c)
    BY <1>0, <1>12, PopClose DEF EndClose
  <2>2. L \in LuaStates BY <1>0, <1>12, ClosingIs DEF EndClose
  <2>3. \A M \in LuaStates : M # L => luaState'[M] = luaState[M]
    BY <1>0, <1>12, <2>2 DEF EndClose, TypeOK
  <2>4. ASSUME NEW u \in Threads, NEW i \in DOMAIN frames'[u], IsUse(frames'[u][i])
        PROVE  /\ i \in DOMAIN frames[u] /\ frames'[u][i] = frames[u][i]
               /\ frames[u][i].of # L /\ frames[u][i].of \in LuaStates
    <3>1. i \in DOMAIN frames[u] /\ frames'[u][i] = frames[u][i]
      BY <1>0, <1>12, FramesAfterPop DEF EndClose, Closing
    <3>2. frames[u][i].of # L BY <1>7, <1>12, <2>4, <3>1 DEF EndClose
    <3>3. frames[u][i].of \in LuaStates BY <1>0, <3>1 DEF FramesCreated, Created
    <3> QED BY <3>1, <3>2, <3>3
  <2> HIDE DEF e, L
  <2>5. UsersHavePointer' BY <1>0, <2>3, <2>4 DEF UsersHavePointer
  <2>6. UsersAboveCloser' BY <1>0, <2>1, <2>4 DEF UsersAboveCloser
  <2>7. CloserShape' BY <1>0, <2>1 DEF CloserShape
  <2> QED BY <2>5, <2>6, <2>7
<1>13. ASSUME UNCHANGED vars
       PROVE  UsersHavePointer' /\ UsersAboveCloser' /\ CloserShape'
  BY <1>0, <1>13 DEF vars, UsersHavePointer, UsersAboveCloser, CloserShape, Closers, Fr
<1> QED
  BY <1>1, <1>3, <1>4, <1>5, <1>6, <1>9, <1>10, <1>11, <1>12, <1>13 DEF Next, Step

\* With "quiescent" and "onecloser" every call into Lua and every Java function
\* that runs is inside a state that is open, or is a finalizer of the lua_close
\* below it in the same thread.
THEOREM UsersStayInOpenStates ==
  ASSUME {"quiescent", "onecloser"} \subseteq Rules
  PROVE  Spec => []UsedStatesOpen
<1>1. Init => UInv
  <2> SUFFICES ASSUME Init PROVE UInv OBVIOUS
  <2>1. Closers = {} /\ \A t \in Threads : DOMAIN frames[t] = {}
    BY DEF Init, Closers
  <2> QED BY <2>1, InitCInv DEF UInv, UsersHavePointer, UsersAboveCloser, CloserShape
<1>2. UInv /\ [Next]_vars => UInv' BY NextUInv
<1>3. UInv => UsedStatesOpen
  <2> SUFFICES ASSUME UInv, NEW t \in Threads, NEW i \in DOMAIN frames[t],
                      IsUse(frames[t][i]), native[frames[t][i].of] # "open"
               PROVE  \E j \in 1..i - 1 :
                         frames[t][j] = CloseFrame(frames[t][i].of, "finalizing")
    BY DEF UsedStatesOpen, IsUse
  <2> DEFINE L == frames[t][i].of
  <2>1. L \in LuaStates BY DEF UInv, CInv, BInv, FramesCreated, Created
  <2>2. luaState[L] BY DEF UInv, UsersHavePointer
  <2>3. PICK c \in Closers : Fr(c).of = L
    BY <2>1, <2>2 DEF UInv, CInv, OpenOrClosing
  <2>4. c[1] = t /\ c[2] \in 1..i - 1 /\ Fr(c).at = "finalizing"
    BY <2>3 DEF UInv, UsersAboveCloser
  <2>5. Fr(c) = CloseFrame(L, "finalizing") BY <2>3, <2>4 DEF UInv, CloserShape
  <2> QED BY <2>4, <2>5 DEF Fr
<1> QED BY <1>1, <1>2, <1>3, PTL DEF Spec

-----------------------------------------------------------------------------
(* Who may take a state out of the list *)

\* With "stacked" and "onecloser" a state leaves the list in the removeState of
\* its own close() only.
THEOREM OnlyOwnCloseUnlists ==
  ASSUME {"stacked", "onecloser"} \subseteq Rules
  PROVE  Spec => OnlyCloseUnlists
<1> DEFINE Unlists == \A i \in DOMAIN states : LET L == states[i] IN
               L # Null /\ (\A j \in DOMAIN states' : states'[j] # L)
                  => \E t \in Threads : Closing(t, "tested") /\ Top(t).of = L
<1>1. RInv /\ [Next]_vars => [Unlists]_vars
  <2> SUFFICES ASSUME RInv, [Next]_vars, NEW i \in DOMAIN states, states[i] # Null,
                      \A j \in DOMAIN states' : states'[j] # states[i]
               PROVE  \E t \in Threads : Closing(t, "tested") /\ Top(t).of = states[i]
    OBVIOUS
  <2>0. /\ TypeOK /\ RegistryAgrees /\ ListedOnce /\ OneCloser /\ CloserState
        /\ FramesCreated
    BY DEF RInv, CInv, BInv
  <2>1. ASSUME NEW t \in Threads, NEW L \in LuaStates, NewState(t, L) PROVE FALSE
    BY <2>0, <2>1, NewStateIs
  <2>2. ASSUME NEW t \in Threads, RemoveState(t)
        PROVE  Closing(t, "tested") /\ Top(t).of = states[i]
    <3> DEFINE e == <<t, Len(frames[t])>>
               L == Top(t).of
    <3>1. Closing(t, "tested") BY <2>2 DEF RemoveState
    <3>2. /\ DOMAIN states' = DOMAIN states
          /\ \A j \in DOMAIN states : states'[j] = IF j = stateId[L] THEN Null
                                                                     ELSE states[j]
      BY <2>0, <2>2, RemoveStateIs
    <3>3. i = stateId[L] BY <3>2
    <3>4. e \in Closers /\ Fr(e).of = L /\ Fr(e).at = "tested" /\ L \in LuaStates
      BY <2>0, <3>1, ClosingIs
    <3>5. L \in Created BY <2>0, <3>4 DEF FramesCreated, Closers, Fr
    <3>6. L \notin Unlisted
      <4>1. Unlisted = UnlistedByClosers BY <2>0, UnlistedIs
      <4> QED BY <2>0, <3>4, <4>1 DEF OneCloser, CloserState, UnlistedByClosers
    <3> HIDE DEF e, L
    <3>7. states[stateId[L]] = L BY <2>0, <3>5, <3>6 DEF RegistryAgrees
    <3> QED BY <3>1, <3>3, <3>7 DEF L
  <2>3. states' # states OBVIOUS
  <2> QED BY <2>1, <2>2, <2>3 DEF Next, Step, Call, Callback, BeginClose, Return,
             NativeClose, FreeNative, EndClose, vars
<1>2. Init => RInv BY InitRInv
<1>3. RInv /\ [Next]_vars => RInv' BY NextRInv
<1> QED BY <1>1, <1>2, <1>3, PTL DEF Spec, OnlyCloseUnlists
=============================================================================
