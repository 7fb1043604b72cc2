----------------------------- MODULE Coroutines -----------------------------
(***************************************************************************)
(* Calls, protected calls and coroutines of the interpreter (ldo.c), and   *)
(* the Java functions that run between them.                               *)
(*                                                                         *)
(* All Lua threads of a state share one C stack.  cstack holds what of it  *)
(* matters, innermost last: a luaD_call, the luaD_rawrunprotected of a     *)
(* luaD_pcall ("raw") or of a lua_resume ("res"), and a Java function that *)
(* java_function_call called.  A "raw" and a "res" are what errorJmp points *)
(* to: luaD_throw cuts the C stack there.                                  *)
(*                                                                         *)
(* ci is the list of CallInfos of each Lua thread.  An entry is "lua" for a *)
(* Lua function, or names the C function: "ccall" calls back without a     *)
(* continuation (table.sort), "pcallk" and "pcallc" are pcall with and     *)
(* without one, "resume" is coroutine.resume, "java" java_function_call.   *)
(* When a coroutine yields its part of the C stack is gone and its         *)
(* CallInfos are all that is left; unroll goes on from them.               *)
(*                                                                         *)
(* Calls between Lua functions do not touch the C stack: "lua" stands for  *)
(* any number of them.  LuaState holds the main thread, and every method   *)
(* of it works on that thread, whichever thread called the Java function.  *)
(***************************************************************************)
EXTENDS Integers, SequencesExt

CONSTANTS Main,             \* the main thread of the Lua state
          Coroutines,       \* the coroutines of its scripts
          MaxCcalls,        \* LUAI_MAXCCALLS
          Width,            \* values of an unsigned short
          MaxDepth,         \* bound on the length of cstack
          MaxCallInfos,     \* bound on the CallInfos of a thread
          RuleSets          \* what the programs considered refrain from

\* "nostray":   coroutine.resume is not called on a coroutine that is running
\*              or that waits for one it resumed
\* "protected": a Java function fails in luaPcall only, or by an exception
AllRules == {"nostray", "protected"}

ASSUME ThreadsAssumption == Main \notin Coroutines
ASSUME LimitsAssumption == /\ {MaxCcalls, Width, MaxDepth, MaxCallInfos} \subseteq Nat \ {0}
                           /\ MaxCcalls + MaxCcalls \div 8 < Width
\* The C stack ends long before it holds as many calls as an unsigned short
\* counts: a luaD_call with its luaV_execute takes some hundred bytes of it.
ASSUME DepthAssumption == MaxDepth + 1 < Width
ASSUME CoroutineRulesAssumption == RuleSets \subseteq SUBSET AllRules

VARIABLES rules,        \* what scripts and Java functions refrain from
          ci,           \* the CallInfos of each thread
          status,       \* of each coroutine
          nny,          \* "number of non-yieldable calls in stack"
          nCcalls,      \* "number of nested C calls"
          cstack        \* the C stack

moving == <<ci, status, nny, nCcalls, cstack>>

vars == <<rules, moving>>

LuaThreads == {Main} \cup Coroutines

-----------------------------------------------------------------------------
\* Entries of cstack.  "ny" of a call: it does not allow a yield.  cc and ny of
\* a raw or res: nCcalls and nny to restore.  depth: the CallInfos that the
\* thread had before, which a raw keeps.

Call(t, ny, depth)     == [kind |-> "call", thread |-> t, ny |-> ny, cc |-> 0, depth |-> depth]
Raw(t, cc, ny, depth)  == [kind |-> "raw",  thread |-> t, ny |-> ny, cc |-> cc, depth |-> depth]
Res(c, cc)             == [kind |-> "res",  thread |-> c, ny |-> 0,  cc |-> cc, depth |-> 0]
Java(t, depth)         == [kind |-> "java", thread |-> t, ny |-> 0,  cc |-> 0, depth |-> depth]

Innermost == Last(cstack)

\* Java code runs: the program's own or a Java function.
InJava == cstack # <<>> => Innermost.kind = "java"

\* The interpreter runs thread t.
InLua(t) == /\ cstack # <<>>
            /\ Innermost.kind \in {"call", "res"}
            /\ Innermost.thread = t

\* errorJmp of t.
JumpTarget(t) == Max({0} \cup {i \in DOMAIN cstack :
                        cstack[i].kind \in {"raw", "res"} /\ cstack[i].thread = t})

OnStack(t) == \E i \in DOMAIN cstack : cstack[i].thread = t

Wrapped(n) == n % Width

\* luaD_call: the C stack is full, or an error is handled at its end.
TooDeep(n) == n = MaxCcalls \/ n >= MaxCcalls + MaxCcalls \div 8

Init == /\ rules \in RuleSets
        /\ ci = [t \in LuaThreads |-> <<>>]
        /\ status = [c \in Coroutines |-> "new"]
        /\ nny = [t \in LuaThreads |-> 1]
        /\ nCcalls = [t \in LuaThreads |-> 0]
        /\ cstack = <<>>

-----------------------------------------------------------------------------
\* lua_resume of c, entry j of cstack, comes to its end: coroutine.resume
\* returns in the thread that called it.
EndResume(c, j, s, newStatus) ==
    LET f == cstack[j - 1].thread
    IN  /\ cstack' = SubSeq(cstack, 1, j - 1)
        /\ ci' = [ci EXCEPT ![c] = s, ![f] = Front(@)]
        /\ status' = [status EXCEPT ![c] = newStatus]
        /\ nny' = [nny EXCEPT ![c] = 1]
        /\ nCcalls' = [nCcalls EXCEPT ![c] = Wrapped(cstack[j].cc - 1)]

\* Fault: nny is left as it is.
EndPcall_KeepsNny(t, j, s) ==
    LET raw == cstack[j]
    IN  /\ cstack' = SubSeq(cstack, 1, j - 1)
        /\ ci' = [ci EXCEPT ![t] = SubSeq(s, 1, raw.depth)]
        /\ nCcalls' = [nCcalls EXCEPT ![t] = raw.cc]
        /\ UNCHANGED <<status, nny>>

\* luaD_pcall returns with an error, to the C function that called it.
EndPcall(t, j, s) ==
    LET raw == cstack[j]
    IN  /\ cstack' = SubSeq(cstack, 1, j - 1)
        /\ ci' = [ci EXCEPT ![t] = SubSeq(s, 1, raw.depth)]
        /\ nny' = [nny EXCEPT ![t] = raw.ny]
        /\ nCcalls' = [nCcalls EXCEPT ![t] = raw.cc]
        /\ UNCHANGED status

\* recover: the innermost pcall with a continuation, entry k of s, gets the
\* error, and unroll finishes it.
Recover(c, j, s, k) ==
    /\ cstack' = SubSeq(cstack, 1, j)
    /\ ci' = [ci EXCEPT ![c] = SubSeq(s, 1, k - 1)]
    /\ nny' = [nny EXCEPT ![c] = 0]
    /\ nCcalls' = [nCcalls EXCEPT ![c] = Wrapped(cstack[j].cc - 1)]
    /\ UNCHANGED status

\* Fault: lua_resume does not mark the thread as dead.
Throw_NotDead(t, s) ==
    LET j == JumpTarget(t)
        pcalls == {i \in DOMAIN s : s[i] = "pcallk"}
    IN  /\ j # 0
        /\ \/ cstack[j].kind = "raw" /\ EndPcall(t, j, s)
           \/ /\ cstack[j].kind = "res" /\ pcalls = {}
              /\ EndResume(t, j, s, "running")
           \/ /\ cstack[j].kind = "res" /\ pcalls # {}
              /\ Recover(t, j, s, Max(pcalls))

\* luaD_throw of an error in thread t, whose CallInfos are s by now.
Throw(t, s) ==
    LET j == JumpTarget(t)
        pcalls == {i \in DOMAIN s : s[i] = "pcallk"}
    IN  /\ j # 0
        /\ \/ /\ cstack[j].kind = "raw"
              /\ EndPcall(t, j, s)
           \/ /\ cstack[j].kind = "res"
              /\ pcalls = {}
              /\ EndResume(t, j, s, "dead")
           \/ /\ cstack[j].kind = "res"
              /\ pcalls # {}
              /\ Recover(t, j, s, Max(pcalls))

\* luaD_call of a Lua function in thread t, called by what s has at its end;
\* before lists what luaD_pcall has put on the C stack.
DoCall(t, s, before, ny) ==
    LET n == Wrapped(nCcalls[t] + 1)
    IN  /\ Len(cstack) + Len(before) < MaxDepth
        /\ Len(s) < MaxCallInfos
        /\ ~TooDeep(n)
        /\ cstack' = cstack \o before \o <<Call(t, ny, Len(ci[t]))>>
        /\ ci' = [ci EXCEPT ![t] = s \o <<"lua">>]
        /\ nny' = [nny EXCEPT ![t] = Wrapped(@ + ny)]
        /\ nCcalls' = [nCcalls EXCEPT ![t] = n]
        /\ UNCHANGED status

-----------------------------------------------------------------------------
\* luaPcall of a Java program or function.  When the C stack is full the call
\* fails at once and nothing is changed.
JavaPcall ==
    /\ InJava
    /\ DoCall(Main, ci[Main],
              <<Raw(Main, nCcalls[Main], nny[Main], Len(ci[Main]))>>, 1)

\* A script calls a Java function.
JavaCall(t) ==
    /\ InLua(t)
    /\ Len(cstack) < MaxDepth
    /\ cstack' = Append(cstack, Java(t, Len(ci[t])))
    /\ ci' = [ci EXCEPT ![t] = Append(@, "java")]
    /\ UNCHANGED <<status, nny, nCcalls>>

JavaReturn ==
    /\ cstack # <<>> /\ Innermost.kind = "java"
    /\ cstack' = Front(cstack)
    /\ ci' = [ci EXCEPT ![Innermost.thread] = Front(@)]
    /\ UNCHANGED <<status, nny, nCcalls>>

\* It throws an exception: java_function_call calls lua_error.
JavaThrow ==
    /\ cstack # <<>> /\ Innermost.kind = "java"
    /\ Throw(Innermost.thread, ci[Innermost.thread])

\* Another method of its LuaState raises an error.
JavaFail ==
    /\ "protected" \notin rules
    /\ cstack # <<>> /\ Innermost.kind = "java"
    /\ Throw(Main, ci[Main])

-----------------------------------------------------------------------------
\* A script calls pcall: lua_pcallk.
Pcall(t) ==
    /\ InLua(t)
    /\ \/ /\ nny[t] = 0
          /\ DoCall(t, Append(ci[t], "pcallk"), <<>>, 0)
       \/ /\ nny[t] > 0
          /\ DoCall(t, Append(ci[t], "pcallc"),
                    <<Raw(t, nCcalls[t], nny[t], Len(ci[t]))>>, 1)

\* Fault: table.sort allows a yield.
CallBack_Yieldable(t) ==
    /\ InLua(t)
    /\ DoCall(t, Append(ci[t], "ccall"), <<>>, 0)

\* A script calls a C function that calls a Lua function back.
CallBack(t) ==
    /\ InLua(t)
    /\ DoCall(t, Append(ci[t], "ccall"), <<>>, 1)

\* An instruction calls a metamethod, and may be finished after a yield.
Metamethod(t) ==
    /\ InLua(t)
    /\ DoCall(t, ci[t], <<>>, 0)

\* One of these three when the C stack is full: an error in t, which the pcall
\* that was being called catches if it was marked CIST_YPCALL.
CallTooDeep(t) ==
    /\ InLua(t)
    /\ TooDeep(Wrapped(nCcalls[t] + 1))
    /\ \/ Throw(t, ci[t])
       \/ nny[t] = 0 /\ Throw(t, Append(ci[t], "pcallk"))

\* A script raises an error.
Error(t) == InLua(t) /\ Throw(t, ci[t])

\* The function that luaD_call called returns; so does the C function that
\* called luaD_call, and luaD_pcall if there is one.
Return(t) ==
    /\ InLua(t)
    /\ Innermost.kind = "call"
    /\ LET s == Front(ci[t])
           raw == Len(cstack) > 1 /\ cstack[Len(cstack) - 1].kind = "raw"
           outer == Len(cstack) - (IF raw THEN 2 ELSE 1)
       IN  /\ cstack' = SubSeq(cstack, 1, outer)
           /\ ci' = [ci EXCEPT ![t] =
                        IF s # <<>> /\ Last(s) \in {"ccall", "pcallk", "pcallc"}
                        THEN Front(s) ELSE s]
           /\ nny' = [nny EXCEPT ![t] = Wrapped(@ - Innermost.ny)]
           /\ nCcalls' = [nCcalls EXCEPT ![t] =
                             IF raw THEN cstack[outer + 1].cc ELSE Wrapped(@ - 1)]
           /\ UNCHANGED status

\* A function returns that unroll, or resume, runs: the coroutine ends, or an
\* interrupted instruction goes on, or finishCcall finishes the interrupted
\* pcall.  Without a continuation finishCcall calls a null pointer: the run is
\* followed no further.
Unroll(c) ==
    /\ InLua(c)
    /\ Innermost.kind = "res"
    /\ LET s == Front(ci[c])
       IN  \/ /\ s = <<>>
              /\ EndResume(c, Len(cstack), s, "dead")
           \/ /\ s # <<>> /\ Last(s) = "lua"
              /\ ci' = [ci EXCEPT ![c] = s]
              /\ UNCHANGED <<status, nny, nCcalls, cstack>>
           \/ /\ s # <<>> /\ Last(s) = "pcallk"
              /\ ci' = [ci EXCEPT ![c] = Front(s)]
              /\ nCcalls' = [nCcalls EXCEPT ![c] = Wrapped(@ - 1)]
              /\ UNCHANGED <<status, nny, cstack>>

-----------------------------------------------------------------------------
\* coroutine.resume of a coroutine that can go on.
Resume(t, c) ==
    LET n == Wrapped(nCcalls[t] + 1)
    IN  /\ InLua(t)
        /\ Len(cstack) < MaxDepth
        /\ n < MaxCcalls
        /\ \/ /\ status[c] = "new"
              /\ ci' = [ci EXCEPT ![t] = Append(@, "resume"), ![c] = <<"lua">>]
              /\ nCcalls' = [nCcalls EXCEPT ![c] = n]
           \/ /\ status[c] = "suspended"
              /\ ci' = [ci EXCEPT ![t] = Append(@, "resume")]
              /\ nCcalls' = [nCcalls EXCEPT ![c] = Wrapped(n - 1)]
        /\ status' = [status EXCEPT ![c] = "running"]
        /\ nny' = [nny EXCEPT ![c] = 0]
        /\ cstack' = Append(cstack, Res(c, n))

\* lua_resume fails by resume_error, of a coroutine that is not suspended or
\* because the C stack is full; coroutine.resume returns false and a message.
ResumeError(t, c) ==
    /\ InLua(t)
    /\ status[c] # "dead"
    /\ "nostray" \in rules => status[c] # "running"
    /\ status[c] = "running" \/ Wrapped(nCcalls[t] + 1) >= MaxCcalls
    /\ nny' = [nny EXCEPT ![c] = 1]
    /\ nCcalls' = [nCcalls EXCEPT ![c] = nCcalls[t]]
    /\ UNCHANGED <<ci, status, cstack>>

\* coroutine.yield: the C stack of the coroutine is given up.  In a call that
\* does not allow a yield it is an error, as any other.  (A yield that a "raw"
\* catches, possible after a stray resume, is followed no further.)
Yield(c) ==
    /\ InLua(c)
    /\ nny[c] = 0
    /\ LET j == JumpTarget(c)
       IN  /\ cstack[j].kind = "res"
           /\ EndResume(c, j, ci[c], "suspended")

Step ==
    \/ JavaPcall
    \/ JavaReturn
    \/ JavaThrow
    \/ JavaFail
    \/ \E t \in LuaThreads : \/ JavaCall(t)
                             \/ Pcall(t)
                             \/ CallBack(t)
                             \/ Metamethod(t)
                             \/ CallTooDeep(t)
                             \/ Error(t)
                             \/ Return(t)
                             \/ \E c \in Coroutines : Resume(t, c) \/ ResumeError(t, c)
    \/ \E c \in Coroutines : Unroll(c) \/ Yield(c)

Next == Step /\ UNCHANGED rules

Spec == Init /\ [][Next]_vars

-----------------------------------------------------------------------------
(* Properties *)

\* nny is the "number of non-yieldable calls in stack" of a thread that is on
\* the C stack, and 1 besides for the main thread, which never yields.  Needs
\* "nostray", as lua_resume ends with nny = 1, whatever it was, and "protected".
NnyCounts ==
    {"nostray", "protected"} \subseteq rules =>
    \A t \in LuaThreads :
        nny[t] = (IF t = Main \/ ~OnStack(t) THEN 1 ELSE 0)
                 + Cardinality({i \in DOMAIN cstack :
                       /\ cstack[i].kind = "call"
                       /\ cstack[i].thread = t
                       /\ cstack[i].ny = 1})

\* Whatever a coroutine was doing when it yielded, unroll can finish it.  Needs
\* "nostray".
YieldsFinishable ==
    \A c \in Coroutines : "nostray" \in rules /\ status[c] = "suspended" =>
        Range(ci[c]) \subseteq {"lua", "pcallk"}

\* A coroutine runs if and only if its lua_resume is on the C stack, and waits
\* for as many resumes and Java functions as are there.  Needs "protected": an
\* error that a Java function of a coroutine raises in the main thread cuts the
\* C stack below the coroutine, which is left running for ever.
RunningOnStack == "protected" \in rules =>
    /\ \A c \in Coroutines : status[c] = "running" <=>
          \E i \in DOMAIN cstack : cstack[i] = Res(c, cstack[i].cc)
    /\ \A t \in LuaThreads :
          Cardinality({i \in DOMAIN ci[t] : ci[t][i] = "resume"})
             = Cardinality({i \in DOMAIN cstack : i > 1 /\ cstack[i].kind = "res"
                                               /\ cstack[i - 1].thread = t})
=============================================================================
