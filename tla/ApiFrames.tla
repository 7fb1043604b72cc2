----------------------------- MODULE ApiFrames ------------------------------
(***************************************************************************)
(* What the Lua stack promises to Java code, as far as LuaState shows it:  *)
(* every activation has a sequence of values of its own, which nobody else *)
(* can read or change; a call takes the function and its arguments off the *)
(* end of it and puts exactly the results, or one error value, there; an   *)
(* error goes to the innermost protected call, past the message handler    *)
(* when this call is luaPcall.                                             *)
(*                                                                         *)
(* frames are the activations, innermost last: the Java code that holds    *)
(* the LuaState ("host"), Java functions ("java"), message handlers        *)
(* ("handler"), scripts ("script") and calls of pcall ("pcall").  Nothing  *)
(* here knows of slots, stack sizes or CallInfos.  ApiStack implements it. *)
(***************************************************************************)
EXTENDS Integers, SequencesExt

CONSTANTS ErrorHandlers,    \* kinds of LuaErrorHandler: "default", "custom"
          Starts            \* how programs start: vals, the values pushed by then

VARIABLES errorHandler,     \* the LuaErrorHandler of the state
          frames,           \* the activations, innermost last
          globals,          \* the value of the global that programs use
          raised,           \* an error value on its way, or None
          call              \* what happened last: the method of LuaState or the
                            \* step m, with its arguments

vars == <<errorHandler, frames, globals, raised, call>>

MULTRET == -1

\* Values.  Str also is the name of the global.
None == "none"
Nil == "nil"
True == "true"
False == "false"
Num == "number"
Str == "string"
Numeral == "numeral"            \* the string that a number converts to
Class == "class name"           \* of an exception without a message
Traced == "traceback"           \* a message with a traceback
Env == "global table"
Java == "java function"
PCall == "pcall"
Script == "script"

Strings == {Str, Numeral, Class, Traced}
Convertible == Strings \cup {Num}
Callable == {Java, PCall, Script}
Values == Convertible \cup Callable \cup {Nil, True, False, Env}

ToStr(v) == IF v = Num THEN Numeral ELSE v

JavaKinds == {"host", "java", "handler"}

Frame(kind, vals, want) ==
    [kind |-> kind, vals |-> vals, want |-> want, status |-> "run", exc |-> None]

Inner == Last(frames)
SetInner(f) == frames' = Append(Front(frames), f)
JavaRuns == raised = None /\ Inner.kind \in JavaKinds /\ Inner.status = "run" /\ Inner.exc = None

Drop(vals, n) == SubSeq(vals, 1, Len(vals) - n)
Take(vals, n) == SubSeq(vals, Len(vals) - n + 1, Len(vals))
Pad(vals, n) == [k \in 1 .. n |-> IF k <= Len(vals) THEN vals[k] ELSE Nil]

-----------------------------------------------------------------------------
\* The methods of LuaState that concern the values of the caller alone: i and
\* j are indices or numbers, v a value.

Abs(vals, i) == IF i > 0 THEN i ELSE Len(vals) + 1 + i

Get(k) == IF k = Str THEN globals ELSE Nil

After(vals, m, i, j, v) ==
    CASE m \in {"luaPush", "luaLoad"} -> Append(vals, v)
      [] m = "luaPushvalue" -> Append(vals, vals[Abs(vals, i)])
      [] m = "luaInsert" -> InsertAt(Front(vals), Abs(vals, i), Last(vals))
      [] m = "luaRemove" -> RemoveAt(vals, Abs(vals, i))
      [] m = "luaReplace" -> Front([vals EXCEPT ![Abs(vals, i)] = Last(vals)])
      [] m = "luaCopy" -> [vals EXCEPT ![Abs(vals, j)] = vals[Abs(vals, i)]]
      [] m = "luaSettop" -> Pad(vals, IF i >= 0 THEN i ELSE Len(vals) + 1 + i)
      [] m = "luaPop" -> Drop(vals, i)
      [] m = "luaTostring" -> [vals EXCEPT ![Abs(vals, i)] = ToStr(@)]
      [] m = "luaConcat" -> IF i = 1 THEN vals ELSE Append(Drop(vals, i), Str)
      [] m = "luaOp" -> Append(Drop(vals, IF i = 6 THEN 1 ELSE 2), Num)
      [] m = "luaLen" -> Append(vals, Num)
      [] m \in {"luaGetglobal", "luaGetfield"} -> Append(vals, globals)
      [] m \in {"luaGettable", "luaRawget"} -> Append(Front(vals), Get(Last(vals)))
      [] m = "luaRawgeti" -> Append(vals, Env)
      [] m = "luaNext" -> IF Last(vals) = Nil /\ globals # Nil THEN Front(vals) \o <<Str, globals>>
                                                               ELSE Front(vals)
      [] m \in {"luaSetglobal", "luaSetfield"} -> Drop(vals, 1)
      [] m \in {"luaSettable", "luaRawset"} -> Drop(vals, 2)
      [] m = "luaCheckStack" -> vals

Setters == {"luaSetglobal", "luaSetfield", "luaSettable", "luaRawset"}

Methods == Setters \cup
    {"luaPush", "luaLoad", "luaPushvalue", "luaInsert", "luaRemove", "luaReplace", "luaCopy",
     "luaSettop", "luaPop", "luaTostring", "luaConcat", "luaOp", "luaLen", "luaGetglobal",
     "luaGetfield", "luaGettable", "luaRawget", "luaRawgeti", "luaNext", "luaCheckStack"}

Method(c) ==
    /\ c.m \in Methods
    /\ JavaRuns
    /\ SetInner([Inner EXCEPT !.vals = After(@, c.m, c.i, c.j, c.v)])
    /\ globals' = IF c.m \in Setters THEN Last(Inner.vals) ELSE globals
    /\ UNCHANGED <<errorHandler, raised>>

-----------------------------------------------------------------------------
\* Calls.

\* The protected call among the activations fs that an error reaches, and what
\* it leaves there.
Catcher(fs) == LET cs == {i \in DOMAIN fs : fs[i].status = "calling" /\ fs[i].kind # "script"}
               IN CHOOSE i \in cs : \A k \in cs : k <= i

Delivered(fs, v) ==
    Append(SubSeq(fs, 1, Catcher(fs) - 1),
           [fs[Catcher(fs)] EXCEPT !.vals = Append(@, v), !.status = "failed"])

Callee(f, args, want) ==
    CASE f = Java -> Frame("java", <<Java>> \o args, want)
      [] f = Script -> Frame("script", args, want)
      [] f = PCall -> Frame("pcall", args, want)

\* vals ends in a function and its n arguments.  What is no function fails,
\* and so does a call for which there is no stack: past no message handler
\* while one runs out of stack already.
Calls(vals, n, want) ==
    LET f == vals[Len(vals) - n]
        caller == [Inner EXCEPT !.vals = Drop(vals, n + 1), !.status = "calling"]
    IN \/ /\ f \in Callable
          /\ frames' = Front(frames) \o <<caller, Callee(f, Take(vals, n), want)>>
          /\ UNCHANGED raised
       \/ SetInner(caller) /\ raised' = Str
       \/ frames' = Delivered(Append(Front(frames), caller), Str) /\ UNCHANGED raised

LuaPcall(c) ==
    /\ c.m = "luaPcall"
    /\ JavaRuns /\ c.i < Len(Inner.vals)
    /\ Calls(Inner.vals, c.i, c.j)
    /\ UNCHANGED <<errorHandler, globals>>

ScriptRuns == raised = None /\ Inner.kind = "script" /\ Inner.status = "run"

ScriptLoads(c) ==
    /\ c.m = "ScriptLoads"
    /\ ScriptRuns
    /\ SetInner([Inner EXCEPT !.vals = Append(@, c.v)])
    /\ UNCHANGED <<errorHandler, globals, raised>>

ScriptCalls(c) ==
    /\ c.m = "ScriptCalls"
    /\ ScriptRuns /\ c.i < Len(Inner.vals)
    /\ Calls(Inner.vals, c.i, c.j)
    /\ UNCHANGED <<errorHandler, globals>>

\* pcall calls its first argument and keeps a place for its own first result.
PCallCalls(c) ==
    /\ c.m = "PCallCalls"
    /\ raised = None /\ Inner.kind = "pcall" /\ Inner.status = "run"
    /\ IF Inner.vals = <<>>
       THEN raised' = Str /\ UNCHANGED frames
       ELSE Calls(<<Nil>> \o Inner.vals, Len(Inner.vals) - 1, MULTRET)
    /\ UNCHANGED <<errorHandler, globals>>

\* The results go to the caller, cut or padded to what it asked for.
Returns(results) ==
    LET caller == frames[Len(frames) - 1]
        given == IF Inner.want = MULTRET THEN results ELSE Pad(results, Inner.want)
    IN frames' = Append(SubSeq(frames, 1, Len(frames) - 2),
                        [caller EXCEPT !.vals = @ \o given,
                                       !.status = IF caller.kind = "script" THEN "run" ELSE "ok"])

Return(c) ==
    /\ c.m = "Return"
    /\ \/ JavaRuns /\ Inner.kind = "java"
       \/ ScriptRuns
    /\ c.i <= Len(Inner.vals)
    /\ Returns(Take(Inner.vals, c.i))
    /\ UNCHANGED <<errorHandler, globals, raised>>

\* Java goes on after luaPcall: the default handler turns the error into an
\* exception and takes it off, a handler that returns null leaves it.
AfterPcall(c) ==
    /\ c.m = "AfterPcall"
    /\ raised = None /\ Inner.kind \in JavaKinds /\ Inner.status \in {"ok", "failed"}
    /\ LET v == Last(Inner.vals)
           threw == Inner.status = "failed" /\ errorHandler = "default"
       IN SetInner(IF threw THEN [Inner EXCEPT !.status = "run", !.vals = Front(@),
                                      !.exc = IF v \in Convertible THEN ToStr(v) ELSE "null"]
                            ELSE [Inner EXCEPT !.status = "run"])
    /\ UNCHANGED <<errorHandler, globals, raised>>

PCallReturns(c) ==
    /\ c.m = "PCallReturns"
    /\ raised = None /\ Inner.kind = "pcall" /\ Inner.status \in {"ok", "failed"}
    /\ \/ Returns([Inner.vals EXCEPT ![1] = IF Inner.status = "ok" THEN True ELSE False])
       \/ Returns(<<False, Str>>)         \* no stack for the results
    /\ UNCHANGED <<errorHandler, globals, raised>>

-----------------------------------------------------------------------------
\* Errors.

Caught(v) == frames' = Delivered(frames, v)

ScriptRaises(c) ==
    /\ c.m = "ScriptRaises"
    /\ ScriptRuns
    /\ raised' = c.v
    /\ UNCHANGED <<errorHandler, frames, globals>>

\* A Java function throws, or does not catch what luaPcall threw.
Throws(c) ==
    /\ c.m = "Throws"
    /\ raised = None /\ Inner.kind = "java" /\ Inner.status = "run"
    /\ CASE Inner.exc = None -> c.v \in {Str, Class}
         [] Inner.exc = "null" -> c.v = Class
         [] OTHER -> c.v = Inner.exc
    /\ raised' = c.v
    /\ UNCHANGED <<errorHandler, frames, globals>>

Catches(c) ==
    /\ c.m = "Catches"
    /\ raised = None /\ Inner.kind \in JavaKinds /\ Inner.exc # None
    /\ SetInner([Inner EXCEPT !.exc = None])
    /\ UNCHANGED <<errorHandler, globals, raised>>

\* luaPcall has a message handler, pcall has none.  Without stack for the
\* handler the message is another one.
ToHandler(c) ==
    /\ c.m = "luaG_errormsg"
    /\ raised # None /\ frames[Catcher(frames)].kind \in JavaKinds
    /\ frames' = Append(frames, Frame("handler", <<raised>>, 1)) /\ raised' = None
    /\ UNCHANGED <<errorHandler, globals>>

ToCatcher(c) ==
    /\ c.m = "luaG_errormsg"
    /\ raised # None /\ frames[Catcher(frames)].kind = "pcall"
    /\ Caught(raised) /\ raised' = None
    /\ UNCHANGED <<errorHandler, globals>>

NoStackForHandler(c) ==
    /\ c.m = "luaG_errormsg"
    /\ raised # None
    /\ \/ raised' = Str /\ UNCHANGED frames
       \/ raised' = None /\ Caught(Str)
    /\ UNCHANGED <<errorHandler, globals>>

\* The message handler of Java returns n values, or leaves it (-1) to add a
\* traceback to the message.
HandlerReturns(c) ==
    /\ c.m = "HandlerReturns"
    /\ raised = None /\ Inner.kind = "handler" /\ Inner.status = "run"
    /\ \/ /\ JavaRuns /\ c.i \in 0 .. Len(Inner.vals)
          /\ Caught(IF c.i = 0 THEN Nil ELSE Take(Inner.vals, c.i)[1])
       \/ /\ c.i = -1
          /\ Caught(IF Inner.vals = <<>> THEN Str
                    ELSE IF Inner.vals[1] \in Convertible THEN Traced ELSE Last(Inner.vals))
    /\ UNCHANGED <<errorHandler, globals, raised>>

\* The collector may shrink the stack, which no caller sees.
Collects(c) ==
    /\ c.m = "sweepthread"
    /\ raised = None
    /\ UNCHANGED <<errorHandler, frames, globals, raised>>

-----------------------------------------------------------------------------
Init == /\ errorHandler \in ErrorHandlers
        /\ \E start \in Starts : frames = <<Frame("host", start.vals, 0)>>
        /\ globals = PCall
        /\ raised = None
        /\ call = [m |-> "", i |-> 0, j |-> 0, v |-> None]

Step(c) == \/ Collects(c) \/ Method(c) \/ LuaPcall(c) \/ AfterPcall(c) \/ Catches(c) \/ Throws(c)
           \/ ScriptLoads(c) \/ ScriptCalls(c) \/ ScriptRaises(c) \/ Return(c)
           \/ PCallCalls(c) \/ PCallReturns(c)
           \/ ToHandler(c) \/ ToCatcher(c) \/ NoStackForHandler(c) \/ HandlerReturns(c)

Next == Step(call')

Spec == Init /\ [][Next]_vars
=============================================================================
