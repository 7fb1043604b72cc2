---------------------------- MODULE StateManager ----------------------------
(***************************************************************************)
(* LuaStateManager.java, the life cycle of LuaState.java and the callbacks *)
(* of luajni.c that find their LuaState by its id.                         *)
(*                                                                         *)
(* Each Java thread has a stack of frames: a call into the interpreter     *)
(* ("lua"), a Java function that the interpreter called back ("java"), and *)
(* LuaState.close() with the point it has reached.  newState, getState and *)
(* removeState hold the lock of the class, so each is one step.  close()   *)
(* holds no lock: its test, its removeState, its _close and its assignment *)
(* are four steps, and lua_close runs the finalizers of the state, which   *)
(* may call Java functions back, between the third and the fourth.         *)
(*                                                                         *)
(* Rules names the usage rules the Java program obeys.  The code checks    *)
(* none of them; a property that needs one says so.                        *)
(*                                                                         *)
(* A definition whose name has a suffix after an underscore is a faulty    *)
(* variant of the one that follows it: the mistake its comment names, which *)
(* PROJECT.json pairs with the property that must detect it.               *)
(***************************************************************************)
EXTENDS Naturals, SequencesExt

CONSTANTS Threads,      \* the Java threads of the program
          LuaStates,    \* the LuaState objects it may create
          Null,         \* Java's null, and the owner of no state
          MaxDepth,     \* bound on the frames of one thread
          Home,         \* under "confined", the one thread that opens a state
          Rules         \* the usage rules the program obeys

\* "stacked":    a state is opened only while no open state has a larger
\*               index than a free slot
\* "onecloser":  close() is not called on a state whose close() is running
\* "quiescent":  close() is not called on a state that some thread is using,
\*               and a state is not used once its close() was called
\* "alone":      no state is opened while a close() is running
\* "confined":   a state is used by the thread that opened it only
AllRules == {"stacked", "onecloser", "quiescent", "alone", "confined"}

ASSUME NullAssumption == Null \notin LuaStates \cup Threads
ASSUME HomeAssumption == Home \in [LuaStates -> Threads]
ASSUME DepthAssumption == MaxDepth \in Nat
ASSUME RulesAssumption == Rules \subseteq AllRules

VARIABLES states,       \* LuaStateManager.states; entry i+1 has index i
          stateId,      \* LuaState.stateId, also kept in the native registry
          luaState,     \* whether LuaState.luaState is not 0
          native,       \* the lua_State itself
          env,          \* the thread whose JNIEnv the native registry holds
          frames        \* the call stack of each thread

vars == <<states, stateId, luaState, native, env, frames>>

Created == {L \in LuaStates : native[L] # "none"}

-----------------------------------------------------------------------------
\* Frames.  "of" is the state the frame works on, "self" the LuaState that a
\* Java function was given, "at" how far a close() is.

LuaFrame(L)      == [kind |-> "lua",   of |-> L, self |-> L, at |-> "running"]
JavaFrame(L, M)  == [kind |-> "java",  of |-> L, self |-> M, at |-> "running"]
CloseFrame(L, s) == [kind |-> "close", of |-> L, self |-> L, at |-> s]

Stages == {"running", "tested", "removed", "finalizing", "freed"}

Frame == [kind : {"lua", "java", "close"}, of : LuaStates, self : LuaStates,
          at : Stages]

Top(t)     == Last(frames[t])
Push(t, f) == frames' = [frames EXCEPT ![t] = Append(@, f)]
Pop(t)     == frames' = [frames EXCEPT ![t] = Front(@)]

\* Thread t executes Java code: its own, or that of a Java function.
InJava(t) == frames[t] # <<>> => Top(t).kind = "java"

\* The interpreter of L runs in thread t: called by it, or as a finalizer.
InLua(t, L) == /\ frames[t] # <<>>
               /\ Top(t).of = L
               /\ \/ Top(t).kind = "lua"
                  \/ Top(t).kind = "close" /\ Top(t).at = "finalizing"

\* Thread t is inside close(), before the step that leaves stage s.
Closing(t, s) == /\ frames[t] # <<>>
                 /\ Top(t).kind = "close"
                 /\ Top(t).at = s

Advance(t, s) ==
    frames' = [frames EXCEPT ![t] = ReplaceAt(@, Len(@), CloseFrame(Top(t).of, s))]

HasFrame(L, kinds) == \E t \in Threads : \E i \in DOMAIN frames[t] :
                         frames[t][i].of = L /\ frames[t][i].kind \in kinds

MayUse(t, L) == "confined" \in Rules => Home[L] = t

-----------------------------------------------------------------------------
\* getNextStateIndex: the first slot that holds null, or the one past the end.
FirstFree(s) == CHOOSE i \in 1..Len(s) + 1 :
                   /\ i = Len(s) + 1 \/ s[i] = Null
                   /\ \A j \in 1..i - 1 : s[j] # Null

\* ArrayList.add(int, E) shifts the entry at the index, and those after it.
Stacked(s) == \A j \in DOMAIN s : j >= FirstFree(s) => s[j] = Null

\* getState: the LuaState of an id, or null.  Beyond the list it throws, which
\* no id is (theorem IdsStayInBounds).
GetState(i) == IF i \in DOMAIN states THEN states[i] ELSE Null

\* What the native registry of L holds under LUAJAVA_STATEID and LUAJAVA_JNIENV.
getLuaStateId(L) == stateId[L]
getEnvFromState(L) == env[L]

pushJNIEnv(t, L) == env' = [env EXCEPT ![L] = t]

\* _open: a new lua_State whose registry holds the id and the JNIEnv.
Open(t, L, i) ==
    /\ stateId' = [stateId EXCEPT ![L] = i]
    /\ luaState' = [luaState EXCEPT ![L] = TRUE]
    /\ native' = [native EXCEPT ![L] = "open"]
    /\ pushJNIEnv(t, L)

Init == /\ states = <<>>
        /\ stateId = [L \in LuaStates |-> 0]
        /\ luaState = [L \in LuaStates |-> FALSE]
        /\ native = [L \in LuaStates |-> "none"]
        /\ env = [L \in LuaStates |-> Null]
        /\ frames = [t \in Threads |-> <<>>]

\* Adds every state at the front of the list.
NewState_AddFirst(t, L) ==
    /\ InJava(t)
    /\ native[L] = "none"
    /\ states' = <<L>> \o states
    /\ stateId' = [stateId EXCEPT ![L] = 1]
    /\ luaState' = [luaState EXCEPT ![L] = TRUE]
    /\ native' = [native EXCEPT ![L] = "open"]
    /\ env' = [env EXCEPT ![L] = t]
    /\ UNCHANGED frames

\* Keeps the JNIEnv of the first thread in a static, as initJNICache does.
NewState_StaticEnv(t, L) ==
    /\ InJava(t)
    /\ native[L] = "none"
    /\ MayUse(t, L)
    /\ Stacked(states)
    /\ states' = InsertAt(states, FirstFree(states), L)
    /\ stateId' = [stateId EXCEPT ![L] = FirstFree(states)]
    /\ luaState' = [luaState EXCEPT ![L] = TRUE]
    /\ native' = [native EXCEPT ![L] = "open"]
    /\ env' = [env EXCEPT ![L] =
                  IF Created = {} THEN t ELSE env[CHOOSE M \in Created : TRUE]]
    /\ UNCHANGED frames

\* LuaStateManager.newState, the constructor of LuaState and _open.
NewState(t, L) ==
    /\ InJava(t)
    /\ native[L] = "none"
    /\ MayUse(t, L)
    /\ "stacked" \in Rules => Stacked(states)
    /\ "alone" \in Rules => \A M \in LuaStates : ~HasFrame(M, {"close"})
    /\ LET i == FirstFree(states)
       IN  states' = InsertAt(states, i, L) /\ Open(t, L, i)
    /\ UNCHANGED frames

\* luaPcall, or any other method of LuaState that can run Lua code.
Call(t, L) ==
    /\ InJava(t)
    /\ Len(frames[t]) < MaxDepth
    /\ L \in Created
    /\ MayUse(t, L)
    /\ "quiescent" \in Rules => luaState[L] /\ ~HasFrame(L, {"close"})
    /\ Push(t, LuaFrame(L))
    /\ UNCHANGED <<states, stateId, luaState, native, env>>

\* c_function without its test for null.
Callback_NoNullTest(t, L) ==
    /\ InLua(t, L)
    /\ native[L] # "freed"
    /\ Len(frames[t]) < MaxDepth
    /\ Push(t, JavaFrame(L, states[stateId[L]]))
    /\ UNCHANGED <<states, stateId, luaState, native, env>>

\* getState off by one.
Callback_NextSlot(t, L) ==
    /\ InLua(t, L)
    /\ native[L] # "freed"
    /\ Len(frames[t]) < MaxDepth
    /\ stateId[L] + 1 \in DOMAIN states
    /\ states[stateId[L] + 1] # Null
    /\ Push(t, JavaFrame(L, states[stateId[L] + 1]))
    /\ UNCHANGED <<states, stateId, luaState, native, env>>

\* java_function_call: c_function asks getState for the LuaState of the id.
\* A null is answered with a Lua error and leaves everything as it was.
Callback(t, L) ==
    /\ InLua(t, L)
    /\ native[L] # "freed"      \* undefined in a freed state: not followed
    /\ Len(frames[t]) < MaxDepth
    /\ getEnvFromState(L) # Null
    /\ GetState(getLuaStateId(L)) # Null
    /\ Push(t, JavaFrame(L, GetState(getLuaStateId(L))))
    /\ UNCHANGED <<states, stateId, luaState, native, env>>

\* The call into Lua or the Java function returns, or throws.
Return(t) ==
    /\ frames[t] # <<>>
    /\ Top(t).kind \in {"lua", "java"}
    /\ Pop(t)
    /\ UNCHANGED <<states, stateId, luaState, native, env>>

\* LuaState.close, its test of luaState.
BeginClose(t, L) ==
    /\ InJava(t)
    /\ Len(frames[t]) < MaxDepth
    /\ L \in Created
    /\ MayUse(t, L)
    /\ "onecloser" \in Rules => ~HasFrame(L, {"close"})
    /\ "quiescent" \in Rules => ~HasFrame(L, {"lua", "java"})
    /\ luaState[L]
    /\ Push(t, CloseFrame(L, "tested"))
    /\ UNCHANGED <<states, stateId, luaState, native, env>>

\* removeState that takes the entry out of the list.
RemoveState_Shrinks(t) ==
    /\ Closing(t, "tested")
    /\ states' = RemoveAt(states, stateId[Top(t).of])
    /\ Advance(t, "removed")
    /\ UNCHANGED <<stateId, luaState, native, env>>

\* removeState off by one.
RemoveState_NextSlot(t) ==
    /\ Closing(t, "tested")
    /\ LET i == stateId[Top(t).of] + 1
       IN  states' = IF i \in DOMAIN states THEN [states EXCEPT ![i] = Null]
                                            ELSE states
    /\ Advance(t, "removed")
    /\ UNCHANGED <<stateId, luaState, native, env>>

\* LuaStateManager.removeState.
RemoveState(t) ==
    /\ Closing(t, "tested")
    /\ LET i == stateId[Top(t).of]
       IN  states' = IF i \in DOMAIN states THEN [states EXCEPT ![i] = Null]
                                            ELSE states
    /\ Advance(t, "removed")
    /\ UNCHANGED <<stateId, luaState, native, env>>

\* _close enters lua_close.  Of a state that is not open, or of a pointer that
\* became 0 since the test, this is undefined: the run is followed no further.
NativeClose(t) ==
    /\ Closing(t, "removed")
    /\ luaState[Top(t).of]
    /\ native[Top(t).of] = "open"
    /\ native' = [native EXCEPT ![Top(t).of] = "closing"]
    /\ Advance(t, "finalizing")
    /\ UNCHANGED <<states, stateId, luaState, env>>

\* lua_close has run the finalizers and frees the state.
FreeNative(t) ==
    /\ Closing(t, "finalizing")
    /\ native' = [native EXCEPT ![Top(t).of] = "freed"]
    /\ Advance(t, "freed")
    /\ UNCHANGED <<states, stateId, luaState, env>>

\* close() that keeps the pointer.
EndClose_KeepsPointer(t) ==
    /\ Closing(t, "freed")
    /\ Pop(t)
    /\ UNCHANGED <<states, stateId, luaState, native, env>>

\* LuaState.close forgets the pointer and returns.
EndClose(t) ==
    /\ Closing(t, "freed")
    /\ luaState' = [luaState EXCEPT ![Top(t).of] = FALSE]
    /\ Pop(t)
    /\ UNCHANGED <<states, stateId, native, env>>

Step(t) == \/ \E L \in LuaStates : \/ NewState(t, L)
                                   \/ Call(t, L)
                                   \/ Callback(t, L)
                                   \/ BeginClose(t, L)
           \/ Return(t)
           \/ RemoveState(t)
           \/ NativeClose(t)
           \/ FreeNative(t)
           \/ EndClose(t)

Next == \E t \in Threads : Step(t)

Spec == Init /\ [][Next]_vars

-----------------------------------------------------------------------------
(* Properties *)

\* Every variable has the type the comments above give it.
TypeOK ==
    /\ states \in Seq(LuaStates \cup {Null})
    /\ stateId \in [LuaStates -> Nat]
    /\ luaState \in [LuaStates -> BOOLEAN]
    /\ native \in [LuaStates -> {"none", "open", "closing", "freed"}]
    /\ env \in [LuaStates -> Threads \cup {Null}]
    /\ frames \in [Threads -> Seq(Frame)]

\* The states whose close() has called removeState, or has returned.
Unlisted == {L \in LuaStates :
    \/ ~luaState[L]
    \/ \E t \in Threads : \E i \in DOMAIN frames[t] :
          /\ frames[t][i].kind = "close"
          /\ frames[t][i].of = L
          /\ frames[t][i].at # "tested"}

\* getState finds a state under the id it was opened with for as long as its
\* close() has not removed it.  Needs "stacked": add() shifts what follows a
\* reused slot.  Needs "onecloser": a second close() clears a slot that may
\* have been reused.
RegistryAgrees ==
    \A L \in Created \ Unlisted : /\ stateId[L] \in DOMAIN states
                                 /\ states[stateId[L]] = L

\* No id, of this state or of another, leads to a state that close() removed,
\* and no two ids lead to one state.
ListedOnce ==
    \A i \in DOMAIN states : states[i] # Null =>
        /\ states[i] \in Created \ Unlisted
        /\ stateId[states[i]] = i

\* getState and removeState never run past the end of the list, whatever the
\* program does: the list does not shrink, so c_function sees a null and not
\* an IndexOutOfBoundsException that its try does not cover.
IdInBounds == \A L \in Created : stateId[L] \in DOMAIN states

\* "Closes state and removes the object from the LuaStateFactory": the state
\* that leaves the list is the one whose close() is at its removeState.
OnlyCloseUnlists ==
    [][\A i \in DOMAIN states : LET L == states[i] IN
          L # Null /\ (\A j \in DOMAIN states' : states'[j] # L)
             => \E t \in Threads : Closing(t, "tested") /\ Top(t).of = L]_vars

\* lua_close gets a state that is open: never 0 and never the same one twice.
\* Needs "onecloser", as the test and the assignment of luaState are apart.
CloseTargetsOpen ==
    \A t \in Threads : Closing(t, "removed") =>
        luaState[Top(t).of] /\ native[Top(t).of] = "open"

\* A Java function is given the LuaState of the interpreter that called it.
\* Needs "alone" besides: between removeState and the end of lua_close a state
\* runs finalizers under an id that newState may already have given away.
CallbackOwner ==
    \A t \in Threads : \A i \in DOMAIN frames[t] :
        frames[t][i].kind = "java" => frames[t][i].self = frames[t][i].of

\* Nobody is inside a state that was freed, or that another call is freeing.
\* Needs "quiescent" and "onecloser".
UsedStatesOpen ==
    \A t \in Threads : \A i \in DOMAIN frames[t] :
        frames[t][i].kind \in {"lua", "java"} =>
            \/ native[frames[t][i].of] = "open"
            \/ \E j \in 1..i - 1 : 
                  frames[t][j] = CloseFrame(frames[t][i].of, "finalizing")

\* The JNIEnv that a callback uses is the one of the thread it runs in: _open
\* stores it and nothing renews it.  Needs "confined".
EnvIsCallersOwn ==
    \A t \in Threads : \A i \in DOMAIN frames[t] :
        frames[t][i].kind = "java" => env[frames[t][i].of] = t

\* The list of states is a map from ids to states whose bindings never move.
Bound == [i \in {j \in DOMAIN states : states[j] # Null} |-> states[i]]
Reg   == INSTANCE Registry WITH bound <- Bound
RegistryImplemented == Reg!Spec

\* "Array with all luaState's instances": every state that is open, and not
\* yet removed by its close(), is found under its id.
AllInstancesListed == RegistryAgrees
=============================================================================
