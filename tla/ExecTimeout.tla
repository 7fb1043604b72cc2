---------------------------- MODULE ExecTimeout ----------------------------
(***************************************************************************)
(* LuaState.setExecuteTimeout: a debug hook that ends a script that runs   *)
(* too long.                                                               *)
(*                                                                         *)
(* _timeout stores the processor time and the limit in the global          *)
(* _hversion and sets clockHook as the count hook of the main thread.  A   *)
(* hook belongs to one Lua thread; lua_newthread copies it to the coroutine *)
(* it makes.  The interpreter counts the instructions of a thread down and *)
(* runs the hook at zero, unless the thread is inside a finalizer: GCTM    *)
(* clears allowhook, and the count starts again all the same.  When the    *)
(* limit is over clockHook sets the count of its thread to 1 and raises an *)
(* error, which a protected call of the script may catch, which kills a    *)
(* coroutine, and which ends the script when nothing catches it.  If the   *)
(* protected call is an xpcall, its message handler runs first: inside the *)
(* hook, and so without hooks.                                             *)
(*                                                                         *)
(* chain holds the Lua threads that run, main thread first, each resumed by *)
(* the one before it.  frames holds, for each thread, what an error in it  *)
(* meets, innermost last: protected calls, finalizers (GCTM calls them     *)
(* protected) and message handlers.  Time is counted in units of clock()   *)
(* and ends at MaxTime.                                                    *)
(***************************************************************************)
EXTENDS Naturals, SequencesExt, FiniteSets

CONSTANTS Main,             \* the main thread of the Lua state
          Coroutines,       \* the coroutines that scripts may create
          Period,           \* instructions between two runs of the hook
          Limit,            \* the argument timeoutSec
          MaxTime,          \* bound on the clock
          MaxDepth,         \* bound on the frames of all threads (LUAI_MAXCCALLS)
          RuleSets          \* what the scripts considered refrain from

\* "fresh":        a coroutine is not resumed after the next setExecuteTimeout
\* "nofinalizers": no finalizer of a script runs
\* "nohandlers":   scripts call pcall and not xpcall
AllRules == {"fresh", "nofinalizers", "nohandlers"}

ASSUME MainAssumption == Main \notin Coroutines
ASSUME PeriodAssumption == Period \in Nat \ {0, 1}
ASSUME TimesAssumption == {Limit, MaxTime, MaxDepth} \subseteq Nat
ASSUME TimeoutRulesAssumption == RuleSets \subseteq SUBSET AllRules

VARIABLES rules,        \* what the scripts refrain from
          now,          \* clock()
          on,           \* setExecuteTimeout(true, ...) was called last
          begun,        \* when setExecuteTimeout(true, ...) was called last
          start,        \* first half of _hversion
          hook,         \* basehookcount of each thread; 0: it has no hook
          count,        \* hookcount of each thread
          frames,       \* what an error in each thread meets
          alive,        \* coroutines that were created and can be resumed
          spent,        \* coroutines that cannot be resumed any more
          chain,        \* the threads that run
          erring        \* an error has been thrown and is on its way

moving == <<now, on, begun, start, hook, count, frames, alive, spent, chain, erring>>

vars == <<rules, moving>>

clockVars  == <<now, on, begun, start>>
threadVars == <<frames, alive, spent, chain>>

LuaThreads == {Main} \cup Coroutines

Protected == {"pcall", "xpcall"}
Handlers  == {"handler", "hookhandler"}     \* the second: clockHook raised the error
Frames    == Protected \cup Handlers \cup {"gc"}

Running == chain # <<>>
Current == Last(chain)
InChain(t) == t \in Range(chain)

TopIn(t, kinds) == frames[t] # <<>> /\ Last(frames[t]) \in kinds

\* As many frames as the C stack holds: lua_resume passes nCcalls on.
Full == Cardinality({p \in LuaThreads \X (1..MaxDepth) : p[2] <= Len(frames[p[1]])}) = MaxDepth

HookOff(f) == f \in {"gc", "hookhandler"}

\* allowhook of t.
AllowHook(t) == \A i \in DOMAIN frames[t] : ~HookOff(frames[t][i])

-----------------------------------------------------------------------------
Init == /\ rules \in RuleSets
        /\ now = 0
        /\ on = FALSE
        /\ begun = 0
        /\ start = 0
        /\ hook = [t \in LuaThreads |-> 0]
        /\ count = [t \in LuaThreads |-> 0]
        /\ frames = [t \in LuaThreads |-> <<>>]
        /\ alive = {}
        /\ spent = {}
        /\ chain = <<>>
        /\ erring = FALSE

Tick == /\ now < MaxTime
        /\ now' = now + 1
        /\ UNCHANGED <<on, begun, start, hook, count, erring, threadVars>>

\* lua_sethook(L, ..., n)
SetHook(t, n) == /\ hook' = [hook EXCEPT ![t] = n]
                 /\ count' = [count EXCEPT ![t] = n]

\* _timeout, called by the program or by a Java function of a script.
SetExecuteTimeout(begin) ==
    /\ ~erring
    /\ begin => now + Limit <= MaxTime
    /\ "fresh" \in rules => \A c \in Coroutines : ~InChain(c)
    /\ on' = begin
    /\ begun' = IF begin THEN now ELSE begun
    /\ start' = IF begin THEN now ELSE 0
    /\ SetHook(Main, IF begin THEN Period ELSE 0)
    /\ spent' = IF "fresh" \in rules THEN spent \cup alive ELSE spent
    /\ alive' = IF "fresh" \in rules THEN {} ELSE alive
    /\ UNCHANGED <<now, frames, chain, erring>>

\* luaPcall starts a script.  Its own message handler, java_function_errhandler,
\* is a C function that returns at once and is left out.
Start == /\ ~Running
         /\ chain' = <<Main>>
         /\ UNCHANGED <<frames, alive, spent>>
         /\ UNCHANGED <<hook, count, erring, clockVars>>

-----------------------------------------------------------------------------
\* luaV_execute, before each instruction: count down and run the hook at zero.

HookDue(t) == hook[t] # 0 /\ count[t] = 1

\* clockHook that compares the clock with the limit.
Fires_Absolute(t) == HookDue(t) /\ AllowHook(t) /\ now >= Limit

\* clockHook finds that the limit is over.
Fires(t) == HookDue(t) /\ AllowHook(t) /\ now - start >= Limit

\* traceexec without resethookcount.
CountDown_NoReset(t) == IF hook[t] = 0 THEN count[t] ELSE count[t] - 1

CountDown(t) == IF hook[t] = 0 THEN count[t]
                ELSE IF HookDue(t) THEN hook[t] ELSE count[t] - 1

Push(t, frame) == frames' = [frames EXCEPT ![t] = Append(@, frame)]
Pop(t)         == frames' = [frames EXCEPT ![t] = Front(@)]

\* errfunc of t: a handler that runs has left it as it was, GCTM and
\* lua_newthread have set it to 0.
HandlerDue(t) == /\ TopIn(t, {"xpcall"} \cup Handlers)
                 /\ ~Full

\* luaG_errormsg: the message handler is called where the error is raised, and
\* the error is thrown when it returns; where no call fits it is thrown now.
ErrorMsg(t, handler) ==
    /\ IF HandlerDue(t) THEN Push(t, handler) ELSE UNCHANGED frames
    /\ erring' = ~HandlerDue(t)

\* clockHook sets the count of the hook and not the count that is running.
Fire_OldCount == /\ Running /\ ~erring
                 /\ Fires(Current)
                 /\ hook' = [hook EXCEPT ![Current] = 1]
                 /\ count' = [count EXCEPT ![Current] = CountDown(Current)]
                 /\ ErrorMsg(Current, "hookhandler")
                 /\ UNCHANGED <<alive, spent, chain, clockVars>>

Fire == /\ Running /\ ~erring
        /\ Fires(Current)
        /\ SetHook(Current, 1)
        /\ ErrorMsg(Current, "hookhandler")
        /\ UNCHANGED <<alive, spent, chain, clockVars>>

\* What an instruction may do to the threads.  Each of these is one effect.

Compute == UNCHANGED <<threadVars, erring>>

EnterPcall ==
    /\ ~Full
    /\ \E call \in Protected :
          /\ "nohandlers" \in rules => call = "pcall"
          /\ Push(Current, call)
    /\ UNCHANGED <<alive, spent, chain, erring>>

\* A protected call or a finalizer returns.
LeaveCall == /\ TopIn(Current, Protected \cup {"gc"})
             /\ Pop(Current)
             /\ UNCHANGED <<alive, spent, chain, erring>>

\* A message handler returns: luaG_errormsg throws the error.
LeaveHandler == /\ TopIn(Current, Handlers)
                /\ Pop(Current)
                /\ erring' = TRUE
                /\ UNCHANGED <<alive, spent, chain>>

\* The script raises an error of its own.
Raise == /\ ErrorMsg(Current, "handler")
         /\ UNCHANGED <<alive, spent, chain>>

Resume(c) == /\ c \in alive
             /\ ~InChain(c)
             /\ chain' = Append(chain, c)
             /\ UNCHANGED <<frames, alive, spent, erring>>

\* Not out of a finalizer or a handler, which have no continuation.
Yield == /\ Current # Main
         /\ Range(frames[Current]) \subseteq Protected
         /\ chain' = Front(chain)
         /\ UNCHANGED <<frames, alive, spent, erring>>

\* The coroutine or the script is over.
LeaveThread == /\ chain' = Front(chain)
               /\ spent' = spent \cup ({Current} \ {Main})
               /\ alive' = alive \ {Current}

\* The function at the bottom of a coroutine or of the script returns.
Finish == /\ frames[Current] = <<>>
          /\ LeaveThread
          /\ UNCHANGED <<frames, erring>>

\* The collector runs a finalizer in the current thread.
BeginFinalizer == /\ "nofinalizers" \notin rules
                  /\ ~Full
                  /\ Push(Current, "gc")
                  /\ UNCHANGED <<alive, spent, chain, erring>>

Execute ==
    /\ Running /\ ~erring
    /\ ~Fires(Current)
    /\ count' = [count EXCEPT ![Current] = CountDown(Current)]
    /\ \/ Compute
       \/ EnterPcall
       \/ LeaveCall
       \/ LeaveHandler
       \/ Raise
       \/ \E c \in Coroutines : Resume(c)
       \/ Yield
       \/ Finish
       \/ BeginFinalizer
    /\ UNCHANGED <<hook, clockVars>>

\* lua_newthread that leaves the hook out.
NewThread_NoHook(c) ==
    /\ Running /\ ~erring
    /\ ~Fires(Current)
    /\ c \notin alive \cup spent
    /\ hook' = [hook EXCEPT ![c] = 0]
    /\ count' = [count EXCEPT ![Current] = CountDown(Current), ![c] = 0]
    /\ alive' = alive \cup {c}
    /\ UNCHANGED <<frames, spent, chain, erring, clockVars>>

\* lua_newthread copies the hook of the thread that creates the coroutine.
NewThread(c) ==
    /\ Running /\ ~erring
    /\ ~Fires(Current)
    /\ c \notin alive \cup spent
    /\ hook' = [hook EXCEPT ![c] = hook[Current]]
    /\ count' = [count EXCEPT ![Current] = CountDown(Current),
                              ![c] = hook[Current]]
    /\ alive' = alive \cup {c}
    /\ UNCHANGED <<frames, spent, chain, erring, clockVars>>

\* A thrown error ends the innermost frame of the current thread.  A protected
\* call catches it; GCTM sends it on.
UnwindFrame ==
    /\ frames[Current] # <<>>
    /\ erring' = ~TopIn(Current, Protected)
    /\ Pop(Current)
    /\ UNCHANGED <<alive, spent, chain>>

\* It ends a thread that has none: the thread that resumed the coroutine gets a
\* result from coroutine.resume, and an error from a function of coroutine.wrap.
UnwindThread ==
    /\ frames[Current] = <<>>
    /\ LeaveThread
    /\ \/ erring' = FALSE /\ UNCHANGED frames
       \/ Len(chain) > 1 /\ ErrorMsg(Last(Front(chain)), "handler")

Unwind == /\ erring
          /\ UnwindFrame \/ UnwindThread
          /\ UNCHANGED <<hook, count, clockVars>>

Interpreter == \/ Fire
               \/ Execute
               \/ \E c \in Coroutines : NewThread(c)
               \/ Unwind

Step == \/ Tick
        \/ \E begin \in BOOLEAN : SetExecuteTimeout(begin)
        \/ Start
        \/ Interpreter

Next == Step /\ UNCHANGED rules

Spec == Init /\ [][Next]_vars

\* Processor time goes on, and so does the interpreter.
FairSpec == Spec /\ WF_moving(Tick) /\ WF_moving(Interpreter)

-----------------------------------------------------------------------------
(* Properties *)

\* Every variable has the type the comments above give it.
TypeOK ==
    /\ rules \in RuleSets
    /\ now \in 0..MaxTime
    /\ on \in BOOLEAN
    /\ {begun, start} \subseteq 0..now
    /\ hook \in [LuaThreads -> {0, 1, Period}]
    /\ count \in [LuaThreads -> 0..Period]
    /\ frames \in [LuaThreads -> Seq(Frames)]
    /\ alive \subseteq Coroutines
    /\ spent \subseteq Coroutines \ alive
    /\ chain \in Seq(LuaThreads)
    /\ erring \in BOOLEAN

\* The count of a thread with a hook never passes zero unseen.
CountsDown == \A t \in LuaThreads : hook[t] # 0 => count[t] \in 1..hook[t]

\* clockHook strikes only while a timeout is on and its limit is over.  Needs
\* "fresh": a coroutine keeps the hook when setExecuteTimeout(false, ...) takes
\* it from the main thread, and then finds the start time 0.
StrikesWhenDue == [][Fire /\ "fresh" \in rules => on /\ now - begun >= Limit]_vars

\* The protected calls in which the script may go on: the others end with the
\* finalizer or the handler of a strike that they are in.
WaysBack(t) == {i \in DOMAIN frames[t] :
                   /\ frames[t][i] \in Protected
                   /\ \A j \in 1..i : ~HookOff(frames[t][j])}

\* Once clockHook has struck in a thread, the script gets no new protected call
\* there, in which it could go on, until the timeout is set anew: not in the
\* handlers that the strike calls either.  Needs "fresh" as well.
NoWayBack ==
    [][\A t \in LuaThreads :
          "fresh" \in rules /\ hook[t] = 1 /\ hook'[t] = 1 => WaysBack(t)' \subseteq WaysBack(t)]_vars

\* A script that runs under a timeout ends.  Needs "fresh", as a coroutine from
\* before has no hook; "nofinalizers", as the count may reach zero inside
\* finalizers every time; and "nohandlers", as nothing ends a handler that the
\* strike itself calls.
TimeoutEnds == rules = AllRules /\ on /\ Running ~> ~on \/ ~Running
=============================================================================
