------------------------------ MODULE ApiStack ------------------------------
(***************************************************************************)
(* The stack of a Lua state as Java code works on it: LuaState.java, its   *)
(* natives in luajni.c, the functions of lapi.c that these call, and the   *)
(* calls, returns and errors of ldo.c below them.                          *)
(*                                                                         *)
(* stack is L->stack up to L->top, its first slot the function slot of the *)
(* host; a pointer into it is an index.  cis are the CallInfos, innermost  *)
(* last; jmps are the luaD_pcalls on the C stack.  A CallInfo also keeps   *)
(* what the C or Java code that runs in it has in local variables: at, the *)
(* slot from which on its current call uses the stack (the handler in case *)
(* 23 of _apiX), and exc, an exception that luaPcall threw.                *)
(*                                                                         *)
(* Programs are arbitrary as long as they keep the rules that lua.h asks   *)
(* for and LuaState does not check: valid indices, values of the right     *)
(* type, no method that raises an error outside luaPcall, and no more      *)
(* values than the frame has room for, one slot spared.                    *)
(***************************************************************************)
EXTENDS Integers, SequencesExt

CONSTANTS LUA_MINSTACK,     \* slots a Java function may use without asking
          EXTRA_STACK,      \* slots beyond stack_last
          BASIC_STACK_SIZE, LUAI_MAXSTACK,
          ERRORSTACKSIZE,   \* size while an overflow is handled
          MaxStackSize,     \* maxstacksize of the scripts
          ErrorHandlers,    \* kinds of LuaErrorHandler: "default", "custom"
          Pushed,           \* values that Java code pushes
          Asked,            \* numbers of slots that Java code asks for
          MaxArgs,          \* bound on arguments and fixed results of calls
          MaxValues,        \* bound on the values that Java code pushes
          Starts            \* how programs start: the values vals that the host has
                            \* pushed, a bound work on the methods that it, Java
                            \* functions and scripts use besides calls, a bound
                            \* calls on the calls that these make

\* ERRORSTACKSIZE is LUAI_MAXSTACK + 200.
ASSUME StackSizes ==
    /\ {LUA_MINSTACK, EXTRA_STACK, MaxStackSize} \subseteq Nat \ {0} /\ EXTRA_STACK > 1
    /\ {BASIC_STACK_SIZE, LUAI_MAXSTACK, ERRORSTACKSIZE} \subseteq Nat
    /\ BASIC_STACK_SIZE >= LUA_MINSTACK + EXTRA_STACK + 2
    /\ BASIC_STACK_SIZE <= LUAI_MAXSTACK
    /\ ERRORSTACKSIZE \in LUAI_MAXSTACK + EXTRA_STACK .. LUAI_MAXSTACK + 999

VARIABLES errorHandler,     \* the LuaErrorHandler of the state
          stack,            \* the slots in use
          size,             \* L->stacksize
          cis,              \* the CallInfos
          jmps,             \* the protected calls on the C stack
          errfunc,          \* slot of the message handler, 0 for none
          raising,          \* luaG_errormsg is to be called, for the top value
          globals,          \* the value of the global that programs use
          call,             \* the method of LuaState or the step taken last
          budget            \* what is left of the bounds of the program

vars == <<errorHandler, stack, size, cis, jmps, errfunc, raising, globals, call, budget>>

LUA_MULTRET == -1
LUA_REGISTRYINDEX == -LUAI_MAXSTACK - 1000

\* Values.  Str also is the name of the global.
None == "none"
Nil == "nil"
True == "true"
False == "false"
Num == "number"
Str == "string"
Numeral == "numeral"
Class == "class name"
Traced == "traceback"
Env == "global table"
Java == "java function"
CallM == "java_function_call"
Handler == "java_function_errhandler"
PCall == "pcall"
Script == "script"

Strings == {Str, Numeral, Class, Traced}
Values == {Nil, True, False, Num, Env, Java, CallM, Handler, PCall, Script} \cup Strings
Convertible == Strings \cup {Num}
JavaKinds == {"host", "java", "handler"}

ASSUME ApiPrograms ==
    /\ {MaxArgs, MaxValues} \subseteq Nat /\ Asked \subseteq Nat
    /\ Pushed \subseteq {Nil, True, False, Num, Str, Java}
    /\ \A start \in Starts : start.vals \in Seq(Values) /\ Len(start.vals) <= LUA_MINSTACK

ci == Last(cis)
Top == Len(stack) + 1                           \* L->top
stack_last(sz) == 1 + sz - EXTRA_STACK

SetCi(c) == cis' = Append(Front(cis), c)

-----------------------------------------------------------------------------
\* lapi.c.  s is the stack that the running function works on.

index2addr(s, idx) ==
    IF idx > 0 THEN IF ci.func + idx > Len(s) THEN 0 ELSE ci.func + idx
    ELSE Len(s) + 1 + idx

\* The value at an index; None where nothing is valid.
Value(s, idx) == IF idx = LUA_REGISTRYINDEX THEN "registry"
                 ELSE LET o == index2addr(s, idx) IN IF o = 0 THEN None ELSE s[o]

lua_gettop == Top - (ci.func + 1)

\* Faulty variant: a negative index counts from the last value, not from the top.
lua_absindex_FromLast(idx) == IF idx > 0 \/ idx <= LUA_REGISTRYINDEX THEN idx ELSE lua_gettop + idx

lua_absindex(idx) == IF idx > 0 \/ idx <= LUA_REGISTRYINDEX THEN idx ELSE Top - ci.func + idx

lua_settop(s, idx) ==
    IF idx >= 0 THEN [k \in 1 .. ci.func + idx |-> IF k <= Len(s) THEN s[k] ELSE Nil]
    ELSE SubSeq(s, 1, Len(s) + idx + 1)

lua_pop(s, n) == lua_settop(s, -n - 1)

lua_remove(s, idx) ==
    LET p == index2addr(s, idx)
    IN [k \in 1 .. Len(s) - 1 |-> IF k < p THEN s[k] ELSE s[k + 1]]

lua_insert(s, idx) ==
    LET p == index2addr(s, idx)
    IN [k \in 1 .. Len(s) |-> IF k > p THEN s[k - 1] ELSE IF k = p THEN Last(s) ELSE s[k]]

moveto(s, v, idx) == [s EXCEPT ![index2addr(s, idx)] = v]
lua_replace(s, idx) == Front(moveto(s, Last(s), idx))
lua_copy(s, from, to) == moveto(s, Value(s, from), to)
lua_pushvalue(s, idx) == Append(s, Value(s, idx))

LuaType(v) ==
    CASE v = None -> -1
      [] v = Nil -> 0
      [] v \in {True, False} -> 1
      [] v = Num -> 3
      [] v \in Strings -> 4
      [] v \in {Env, "registry"} -> 5
      [] v \in {CallM, Handler, PCall, Script} -> 6
      [] v = Java -> 7

lua_pushnil(s) == Append(s, Nil)
lua_pushinteger(s) == Append(s, Num)
lua_pushnumber(s) == Append(s, Num)
lua_pushstring(s) == Append(s, Str)
lua_pushboolean(s, b) == Append(s, IF b # 0 THEN True ELSE False)
lua_pushcclosure(s, f) == Append(s, f)

lua_toboolean(s, idx) == IF Value(s, idx) \in {None, Nil, False} THEN 0 ELSE 1
lua_rawequal(s, i, j) == IF Value(s, i) # None /\ Value(s, i) = Value(s, j) THEN 1 ELSE 0

\* What converts to a number: 1 stands for the number of Num and of Numeral.
lua_tonumberx(s, idx) == IF Value(s, idx) \in {Num, Numeral} THEN 1 ELSE 0
lua_tointegerx(s, idx, def) == IF lua_tonumberx(s, idx) = 1 THEN 1 ELSE def

\* Of a number the slot itself becomes its string.
lua_tolstring(s, idx) == IF Value(s, idx) = Num THEN moveto(s, Numeral, idx) ELSE s

LUA_OPUNM == 6
lua_arith(s, op) == Append(SubSeq(s, 1, Len(s) - (IF op = LUA_OPUNM THEN 1 ELSE 2)), Num)

lua_concat(s, n) == IF n >= 2 THEN Append(SubSeq(s, 1, Len(s) - n), Str)
                    ELSE IF n = 0 THEN Append(s, Str) ELSE s

\* The table is the global table, its only key Str.
Field(k) == IF k = Str THEN globals ELSE Nil
lua_getglobal(s) == Append(s, globals)
lua_gettable(s) == Append(Front(s), Field(Last(s)))
lua_rawget(s) == Append(Front(s), Field(Last(s)))
lua_len(s) == Append(s, Num)
lua_rawgeti(s, t, n) == Append(s, IF t = LUA_REGISTRYINDEX /\ n = 2 THEN Env ELSE Nil)
lua_next(s) == IF Last(s) = Nil /\ globals # Nil THEN Append(Front(s), Str) \o <<globals>> ELSE Front(s)
lua_rawset(s) == SubSeq(s, 1, Len(s) - 2)

-----------------------------------------------------------------------------
\* The stack in ldo.c.  A call may find no stack: "overflow" is the error of
\* that name, "errerr" LUA_ERRERR, when the overflow is being handled.

Smaller(m, n) == IF m < n THEN m ELSE n
Larger(m, n) == IF m > n THEN m ELSE n

luaD_growstack(len, n, sz) ==
    LET needed == len + n + EXTRA_STACK
        newsize == Larger(Smaller(2 * sz, LUAI_MAXSTACK), needed)
    IN IF sz > LUAI_MAXSTACK THEN [size |-> sz, err |-> "errerr"]
       ELSE IF newsize > LUAI_MAXSTACK THEN [size |-> ERRORSTACKSIZE, err |-> "overflow"]
       ELSE [size |-> newsize, err |-> ""]

luaD_checkstack(len, n, sz) ==
    IF stack_last(sz) - (len + 1) <= n THEN luaD_growstack(len, n, sz) ELSE [size |-> sz, err |-> ""]

stackinuse(len, calls) == Max({len + 1} \cup {calls[k].top : k \in DOMAIN calls})

\* Faulty variant: only the values in use count, not the room of the calls.
luaD_shrinkstack_ToTop(len, calls, sz) == Smaller(sz, len + 2 * EXTRA_STACK)

luaD_shrinkstack(len, calls, sz) ==
    LET inuse == stackinuse(len, calls)
        goodsize == Smaller(inuse + inuse \div 8 + 2 * EXTRA_STACK, LUAI_MAXSTACK)
    IN IF inuse > LUAI_MAXSTACK \/ goodsize >= sz THEN sz ELSE goodsize

lua_checkstack(n) ==
    LET grown == luaD_growstack(Len(stack), n, size)
    IN IF stack_last(size) - Top > n THEN [ok |-> TRUE, size |-> size]
       ELSE IF Len(stack) + EXTRA_STACK > LUAI_MAXSTACK - n THEN [ok |-> FALSE, size |-> size]
       ELSE [ok |-> grown.err = "", size |-> grown.size]

-----------------------------------------------------------------------------
\* luajni.c, _apiX and the cases of _xapi that are about the stack: the stack,
\* the global and the result after a call.

Leaves(s) == [s |-> s, g |-> globals, r |-> 0]
Answers(r) == [s |-> stack, g |-> globals, r |-> r]
Stores(s, v) == [s |-> s, g |-> v, r |-> 0]

_apiX(type, p1, p2) ==
    CASE type = 1 -> Answers(lua_absindex(p1))
      [] type = 2 -> Leaves(lua_arith(stack, p1))
      [] type = 6 -> Leaves(lua_concat(stack, p1))
      [] type = 7 -> Leaves(lua_copy(stack, p1, p2))
      [] type = 14 -> Leaves(lua_gettable(stack))
      [] type = 15 -> Answers(lua_gettop)
      [] type = 17 -> Leaves(lua_insert(stack, p1))
      [] type \in {18, 51} -> Answers(LuaType(Value(stack, p1)))
      [] type = 20 -> Leaves(lua_len(stack))
      [] type = 22 -> Leaves(lua_next(stack))
      [] type = 24 -> Leaves(lua_pop(stack, p1))
      [] type = 25 -> Leaves(lua_pushboolean(stack, p1))
      [] type = 26 -> Leaves(lua_pushinteger(stack))
      [] type = 28 -> Leaves(lua_pushnil(stack))
      [] type = 30 -> Leaves(lua_pushvalue(stack, p1))
      [] type = 31 -> Answers(lua_rawequal(stack, p1, p2))
      [] type = 32 -> Leaves(lua_rawget(stack))
      [] type = 33 -> Leaves(lua_rawgeti(stack, p1, p2))
      [] type = 35 -> Stores(lua_rawset(stack), Last(stack))
      [] type = 37 -> Leaves(lua_remove(stack, p1))
      [] type = 38 -> Leaves(lua_replace(stack, p1))
      [] type = 42 -> Leaves(lua_settop(stack, p1))
      [] type = 44 -> Answers(lua_toboolean(stack, p1))
      [] type = 45 -> Answers(lua_tointegerx(stack, p1, 0))
      [] type = 46 -> Answers(lua_tointegerx(stack, p1, p2))

\* r of 49 is the string that Java gets, here as 1, or 0 for null.
_xapi(api, p1) ==
    CASE api \in {11, 12} -> Leaves(lua_getglobal(stack))
      [] api = 27 -> Leaves(lua_pushstring(stack))
      [] api = 29 -> Leaves(lua_pushnumber(stack))
      [] api \in {39, 40} -> Stores(Front(stack), Last(stack))
      [] api = 49 -> [Leaves(lua_tolstring(stack, p1))
                        EXCEPT !.r = IF Value(stack, p1) \in Convertible THEN 1 ELSE 0]
      [] api = 47 -> Answers(lua_tonumberx(stack, p1))
      [] api = 53 -> Leaves(Append(stack, Java))

-----------------------------------------------------------------------------
\* LuaState.java.  A program calls a method where its arguments are legal.

JavaRuns == /\ ~raising /\ ci.kind \in JavaKinds /\ ci.status = "run" /\ ci.exc = None
            /\ ci.kind = "handler" => errorHandler = "custom"

Valid == {k \in -lua_gettop .. lua_gettop : k # 0}
Is(v, k) == Value(stack, k) = v
Room(n) == Top + n < ci.top
Has(n) == n <= lua_gettop

Calling(m, i, j, v) == call' = [m |-> m, i |-> i, j |-> j, v |-> v]

Method(m, i, j, v, x) ==
    /\ stack' = x.s /\ globals' = x.g
    /\ Calling(m, i, j, v)
    /\ UNCHANGED <<errorHandler, size, cis, jmps, errfunc, raising>>

luaPushnil == _apiX(28, 0, 0)
luaPushboolean(b) == _apiX(25, IF b = True THEN 1 ELSE 0, 0)
luaPushinteger == _apiX(26, 1, 0)
luaPushnumber == _xapi(29, 0)
luaPushstring(v) == IF v = Nil THEN luaPushnil ELSE _xapi(27, 0)
luaPushFunction == _xapi(53, 0)

luaPush(v) == CASE v \in {Nil, Str} -> luaPushstring(v)
                [] v \in {True, False} -> luaPushboolean(v)
                [] v = Num -> luaPushinteger
                [] v = Java -> luaPushFunction

luaPushvalue(k) == Method("luaPushvalue", k, 0, None, _apiX(30, k, 0))
luaInsert(k) == Method("luaInsert", k, 0, None, _apiX(17, k, 0))
luaRemove(k) == Method("luaRemove", k, 0, None, _apiX(37, k, 0))
luaReplace(k) == Method("luaReplace", k, 0, None, _apiX(38, k, 0))
luaCopy(from, to) == Method("luaCopy", from, to, None, _apiX(7, from, to))
luaSettop(k) == Method("luaSettop", k, 0, None, _apiX(42, k, 0))
luaPop(n) == Method("luaPop", n, 0, None, _apiX(24, n, 0))
luaTostring(k) == Method("luaTostring", k, 0, None, _xapi(49, k))
luaConcat(n) == Method("luaConcat", n, 0, None, _apiX(6, n, 0))
luaOp(op) == Method("luaOp", op, 0, None, _apiX(2, op, 0))
luaLen(k) == Method("luaLen", k, 0, None, _apiX(20, k, 0))
luaGetglobal == Method("luaGetglobal", 0, 0, None, _xapi(12, 0))
luaSetglobal == Method("luaSetglobal", 0, 0, None, _xapi(40, 0))
luaGetfield(k) == Method("luaGetfield", k, 0, None, _xapi(11, k))
luaSetfield(k) == Method("luaSetfield", k, 0, None, _xapi(39, k))
luaGettable(k) == Method("luaGettable", k, 0, None, _apiX(14, k, 0))
luaRawget(k) == Method("luaRawget", k, 0, None, _apiX(32, k, 0))
luaRawset(k) == Method("luaRawset", k, 0, None, _apiX(35, k, 0))
luaRawgeti(t, n) == Method("luaRawgeti", t, n, None, _apiX(33, t, n))
luaNext(k) == Method("luaNext", k, 0, None, _apiX(22, k, 0))

\* Methods that leave no more values than there were, and those that push.
Rearranges ==
    \/ \E k \in Valid :
          \/ luaInsert(k) \/ luaRemove(k) \/ luaReplace(k) \/ luaTostring(k)
          \/ Is(Env, k) /\ Last(stack) \in {Nil, Str} /\ luaNext(k) /\ Room(1)
          \/ Is(Env, k) /\ (luaGettable(k) \/ luaRawget(k))
          \/ Is(Env, k) /\ luaSetfield(k)
          \/ Is(Env, k) /\ Has(2) /\ stack[Len(stack) - 1] = Str /\ luaRawset(k)
          \/ \E k2 \in Valid : luaCopy(k, k2)
    \/ Has(1) /\ luaSetglobal
    \/ \E n \in 0 .. lua_gettop : luaPop(n) \/ luaSettop(-n - 1)
    \/ Has(1) /\ Is(Num, -1) /\ luaOp(LUA_OPUNM)
    \/ Has(2) /\ Is(Num, -1) /\ Is(Num, -2) /\ luaOp(0)
    \/ \E n \in 1 .. lua_gettop : (n = 1 \/ \A k \in -n .. -1 : Value(stack, k) \in Convertible) /\ luaConcat(n)

Pushes ==
    /\ lua_gettop < MaxValues
    /\ \/ \E v \in Pushed : Room(IF v = Java THEN 4 ELSE 1) /\ Method("luaPush", 0, 0, v, luaPush(v))
       \/ /\ Room(1)
          /\ \/ Num \in Pushed /\ Method("luaPush", 0, 0, Num, luaPushnumber)
             \/ \E k \in Valid : \/ luaPushvalue(k)
                                 \/ Value(stack, k) \in Strings /\ luaLen(k)
                                 \/ Is(Env, k) /\ luaGetfield(k)
             \/ luaGetglobal \/ luaConcat(0) \/ luaRawgeti(LUA_REGISTRYINDEX, 2)
             \/ luaSettop(lua_gettop + 1)

luaCheckStack(n) ==
    LET x == lua_checkstack(n) IN
    /\ size' = x.size
    /\ SetCi([ci EXCEPT !.top = IF x.ok /\ @ < Top + n THEN Top + n ELSE @])
    /\ Calling("luaCheckStack", n, 0, None)
    /\ UNCHANGED <<errorHandler, stack, jmps, errfunc, raising, globals>>

\* lua_load pushes the chunk or an error message; a loader that throws makes
\* an empty chunk, since c_loader catches the exception and returns null.
luaLoad(v) ==
    /\ Room(1) /\ lua_gettop < MaxValues
    /\ Method("luaLoad", 0, 0, v, Leaves(Append(stack, v)))

JavaMethod == JavaRuns /\ (Rearranges \/ Pushes \/ \E n \in Asked : luaCheckStack(n)
                                               \/ \E v \in {Script, Str} : luaLoad(v))

-----------------------------------------------------------------------------
\* Errors.

\* What a call or an error changes of the Lua thread.
Thread == [stack |-> stack, cis |-> cis, jmps |-> jmps, errfunc |-> errfunc, size |-> size]

Becomes(x, r) ==
    /\ stack' = x.stack /\ cis' = x.cis /\ jmps' = x.jmps /\ errfunc' = x.errfunc
    /\ size' = x.size /\ raising' = r
    /\ UNCHANGED <<errorHandler, globals>>

InCi(x, c) == [x EXCEPT !.cis = Append(Front(@), c)]

\* Faulty variant: the message lands on top of what the call left there.
luaD_throw_OnTop(x, v) ==
    LET jmp == Last(x.jmps)
        back == [SubSeq(x.cis, 1, jmp.ci) EXCEPT ![jmp.ci].status = "failed"]
    IN [stack |-> x.stack, cis |-> back, jmps |-> Front(x.jmps), errfunc |-> jmp.errfunc,
        size |-> luaD_shrinkstack(Len(x.stack), back, x.size)]

\* Faulty variant: the message handler of the caller does not come back.
luaD_throw_KeepsHandler(x, v) ==
    LET jmp == Last(x.jmps)
        s == Append(SubSeq(x.stack, 1, jmp.oldtop - 1), v)
        back == [SubSeq(x.cis, 1, jmp.ci) EXCEPT ![jmp.ci].status = "failed"]
    IN [stack |-> s, cis |-> back, jmps |-> Front(x.jmps), errfunc |-> x.errfunc,
        size |-> luaD_shrinkstack(Len(s), back, x.size)]

\* To the innermost luaD_pcall: its caller goes on with the message v in the
\* place of the function it called.
luaD_throw(x, v) ==
    LET jmp == Last(x.jmps)
        s == Append(SubSeq(x.stack, 1, jmp.oldtop - 1), v)
        back == [SubSeq(x.cis, 1, jmp.ci) EXCEPT ![jmp.ci].status = "failed"]
    IN [stack |-> s, cis |-> back, jmps |-> Front(x.jmps), errfunc |-> jmp.errfunc,
        size |-> luaD_shrinkstack(Len(s), back, x.size)]

\* The message v is pushed and luaG_errormsg follows.
Raise(x, v) ==
    LET c == Last(x.cis)
    IN Becomes([InCi(x, [c EXCEPT !.at = IF @ = 0 THEN Len(x.stack) + 1 ELSE @])
                  EXCEPT !.stack = Append(@, v)], TRUE)

NoStack(x, err) == IF err = "overflow" THEN Raise(x, Str) ELSE Becomes(luaD_throw(x, Str), FALSE)

-----------------------------------------------------------------------------
\* Calls and returns.

NewCI(kind, func, nres, top) ==
    [kind |-> kind, func |-> func, nres |-> nres, top |-> top, status |-> "run", at |-> 0,
     exc |-> None]

\* luaD_precall of a function that is no callable object.
Enter(x, kind, func, nres) ==
    LET room == IF kind = "script" THEN MaxStackSize ELSE LUA_MINSTACK
        grown == luaD_checkstack(Len(x.stack), room, x.size)
        y == [x EXCEPT !.size = grown.size]
    IN IF grown.err # "" THEN NoStack(y, grown.err)
       ELSE Becomes([y EXCEPT !.cis = Append(@, NewCI(kind, func, nres, Len(x.stack) + 1 + room))], FALSE)

\* The object of a __call metamethod becomes the first argument.
tryfuncTM(x, func) == [x EXCEPT !.stack = InsertAt(@, func, CallM)]

luaD_precall(x, func, nres) ==
    LET f == x.stack[func]
        shifted == tryfuncTM(x, func)
        grown == luaD_checkstack(Len(shifted.stack), 0, x.size)
        y == [shifted EXCEPT !.size = grown.size]
    IN CASE f = Script -> Enter(x, "script", func, nres)
         [] f = PCall -> Enter(x, "pcall", func, nres)
         [] f = Java -> IF grown.err # "" THEN NoStack(y, grown.err) ELSE Enter(y, "java", func, nres)
         [] OTHER -> Raise(x, Str)

lua_pcallk(s, nargs, nres, ef, at) ==
    LET caller == [ci EXCEPT !.status = "calling", !.at = at]
        func == Len(s) - nargs
        x == [stack |-> s, cis |-> Append(Front(cis), caller), errfunc |-> ef, size |-> size,
              jmps |-> Append(jmps, [ci |-> Len(cis), oldtop |-> func, errfunc |-> errfunc])]
    IN luaD_precall(x, func, nres)

\* _apiX, case 23: the message handler goes below the function.
luaPcall(nargs, nres) ==
    LET base == lua_gettop - nargs
        s == lua_insert(lua_pushcclosure(stack, Handler), base)
        handler == index2addr(s, base)
    IN /\ JavaRuns /\ Has(nargs + 1)
       /\ Room(1) /\ (nres # LUA_MULTRET => Room(nres - nargs))
       /\ lua_pcallk(s, nargs, nres, handler, handler)
       /\ Calling("luaPcall", nargs, nres, None)

\* _apiX goes on: it removes the handler.  An error becomes an exception.
AfterPcall ==
    LET s == lua_remove(stack, ci.at - ci.func)
        c == [ci EXCEPT !.status = "run", !.at = 0]
        v == lua_tolstring(s, -1)
        threw == ci.status = "failed" /\ errorHandler = "default"
    IN /\ ~raising /\ ci.kind \in JavaKinds /\ ci.status \in {"ok", "failed"}
       /\ stack' = IF threw THEN lua_pop(v, 1) ELSE s
       /\ SetCi(IF threw THEN [c EXCEPT !.exc = IF Last(v) \in Strings THEN Last(v) ELSE "null"] ELSE c)
       /\ UNCHANGED <<errorHandler, size, jmps, errfunc, raising, globals>>

luaD_poscall(s, first) ==
    LET results == SubSeq(s, first, Len(s))
        wanted == IF ci.nres = LUA_MULTRET THEN Len(results) ELSE ci.nres
    IN SubSeq(s, 1, ci.func - 1)
         \o [k \in 1 .. wanted |-> IF k <= Len(results) THEN results[k] ELSE Nil]

\* After an error it has nothing to do: the caller has room for the message.
adjustresults(c, nres, s) == IF nres = LUA_MULTRET THEN Larger(c.top, Len(s) + 1) ELSE c.top

\* Back in the caller: a script, or a native function in lua_pcallk.
Returns(x, first) ==
    LET t == luaD_poscall(x.stack, first)
        caller == cis[Len(cis) - 1]
        before == SubSeq(cis, 1, Len(cis) - 2)
        back == IF caller.kind = "script" THEN [caller EXCEPT !.status = "run", !.at = 0]
                ELSE [caller EXCEPT !.status = "ok", !.top = adjustresults(caller, ci.nres, t)]
        y == [x EXCEPT !.stack = t, !.cis = Append(before, back)]
    IN Becomes(IF caller.kind = "script" THEN y
               ELSE [y EXCEPT !.jmps = Front(@), !.errfunc = Last(jmps).errfunc], FALSE)

JavaReturns(n) == JavaRuns /\ ci.kind = "java" /\ Has(n) /\ Returns(Thread, Top - n)

\* c_function: handleJavaException pushes the message, java_function_call
\* raises it.
JavaThrows(v) ==
    /\ ~raising /\ ci.kind = "java" /\ ci.status = "run" /\ Room(0)
    /\ CASE ci.exc = None -> v \in {Str, Class}
         [] ci.exc = "null" -> v = Class
         [] OTHER -> v = ci.exc
    /\ Raise(Thread, v)

JavaCatches ==
    /\ ~raising /\ ci.kind \in JavaKinds /\ ci.exc # None
    /\ SetCi([ci EXCEPT !.exc = None])
    /\ UNCHANGED <<errorHandler, stack, size, jmps, errfunc, raising, globals>>

\* luaB_pcall
PCallCalls ==
    /\ ~raising /\ ci.kind = "pcall" /\ ci.status = "run"
    /\ IF lua_gettop = 0 THEN Raise(Thread, Str)
       ELSE LET s == lua_insert(lua_pushnil(stack), 1)
            IN lua_pcallk(s, lua_gettop - 1, LUA_MULTRET, 0, ci.func + 2)

\* finishpcall
PCallReturns ==
    LET grown == lua_checkstack(1)
        ok == IF ci.status = "ok" THEN 1 ELSE 0
        s == IF grown.ok THEN lua_replace(lua_pushboolean(stack, ok), 1)
             ELSE lua_settop(stack, 0) \o <<False, Str>>
    IN /\ ~raising /\ ci.kind = "pcall" /\ ci.status \in {"ok", "failed"}
       /\ Returns([Thread EXCEPT !.stack = s, !.size = grown.size], ci.func + 1)

-----------------------------------------------------------------------------
\* Scripts: a vararg function whose registers are the slots from base on.  The
\* compiler reserves them for the results of a call as well.

ScriptRuns == ~raising /\ ci.kind = "script" /\ ci.status = "run"
base == ci.top - MaxStackSize
vararg1 == IF ci.func + 1 < base THEN stack[ci.func + 1] ELSE Nil

ScriptLoads(v) ==
    /\ ScriptRuns /\ Top < ci.top /\ v \in {Num, globals, vararg1}
    /\ stack' = Append(stack, v)
    /\ UNCHANGED <<errorHandler, size, cis, jmps, errfunc, raising, globals>>

ScriptCalls(nargs, nres) ==
    LET ra == Top - nargs - 1
    IN /\ ScriptRuns /\ ra >= base /\ ra + nres <= ci.top
       /\ luaD_precall(InCi(Thread, [ci EXCEPT !.status = "calling", !.at = ra]), ra, nres)

ScriptReturns(n) == ScriptRuns /\ Top - n >= base /\ Returns(Thread, Top - n)

ScriptRaises(v) == ScriptRuns /\ v \in {Str, Nil} /\ Raise(Thread, v)

-----------------------------------------------------------------------------
\* The message handler.

luaG_errormsg ==
    LET msg == Last(stack)
        x == [Thread EXCEPT !.stack = Front(stack) \o <<stack[errfunc], msg>>]
        grown == luaD_checkstack(Len(x.stack), 0, size)
        y == [x EXCEPT !.size = grown.size]
    IN /\ raising
       /\ IF errfunc = 0 THEN Becomes(luaD_throw(Thread, msg), FALSE)
          ELSE IF grown.err # "" THEN NoStack(y, grown.err)
          ELSE Enter(y, "handler", Len(x.stack) - 1, 1)

\* java_function_errhandler: what the LuaErrorHandler returns, or for -1 the
\* message with a traceback.  luaG_errormsg then throws it.
HandlerReturns(n) ==
    LET s == lua_tolstring(stack, 1)
        result == IF n >= 0 THEN SubSeq(stack, Top - n, Top - 1)
                  ELSE IF lua_gettop = 0 THEN <<Str>>
                  ELSE IF Value(s, 1) \in Strings THEN <<Traced>> ELSE <<Last(stack)>>
        t == luaD_poscall(stack \o result, Top)
    IN /\ ~raising /\ ci.kind = "handler" /\ ci.status = "run"
       /\ n = -1 \/ (JavaRuns /\ Has(n))
       /\ Becomes(luaD_throw([Thread EXCEPT !.stack = t], Last(t)), FALSE)

-----------------------------------------------------------------------------
\* At the end of a cycle of the collector, which makes its steps where what
\* runs allocates something, and at the end of luaD_call.
sweepthread ==
    /\ ~raising
    /\ size' = luaD_shrinkstack(Len(stack), cis, size)
    /\ UNCHANGED <<errorHandler, stack, cis, jmps, errfunc, raising, globals>>

-----------------------------------------------------------------------------
Host == NewCI("host", 1, 0, 2 + LUA_MINSTACK)

Init == /\ errorHandler \in ErrorHandlers
        /\ \E start \in Starts : stack = <<Nil>> \o start.vals /\ budget = start
        /\ size = BASIC_STACK_SIZE
        /\ cis = <<Host>> /\ jmps = <<>> /\ errfunc = 0 /\ raising = FALSE
        /\ globals = PCall
        /\ call = [m |-> "", i |-> 0, j |-> 0, v |-> None]

MayCall == budget.calls > 0 /\ budget' = [budget EXCEPT !.calls = @ - 1]
Works == budget.work > 0 /\ budget' = [budget EXCEPT !.work = @ - 1]
Does(m) == Calling(m, 0, 0, None)

JavaStep ==
    /\ UNCHANGED budget
    /\ \/ Does("AfterPcall") /\ AfterPcall
       \/ Does("Catches") /\ JavaCatches
       \/ \E n \in 0 .. MaxArgs : Calling("Return", n, 0, None) /\ JavaReturns(n)
       \/ \E v \in Strings : Calling("Throws", 0, 0, v) /\ JavaThrows(v)

ScriptStep ==
    /\ ScriptRuns
    /\ \/ Works /\ \E v \in {Num, globals, vararg1} : Calling("ScriptLoads", 0, 0, v) /\ ScriptLoads(v)
       \/ MayCall /\ \E n, nres \in 0 .. MaxArgs : Calling("ScriptCalls", n, nres, None) /\ ScriptCalls(n, nres)
       \/ UNCHANGED budget /\ \E n \in 0 .. MaxArgs : Calling("Return", n, 0, None) /\ ScriptReturns(n)
       \/ UNCHANGED budget /\ \E v \in {Str, Nil} : Calling("ScriptRaises", 0, 0, v) /\ ScriptRaises(v)

PCallStep ==
    /\ UNCHANGED budget
    /\ \/ Does("PCallCalls") /\ PCallCalls
       \/ Does("PCallReturns") /\ PCallReturns

ErrorStep ==
    /\ UNCHANGED budget
    /\ \/ Does("luaG_errormsg") /\ luaG_errormsg
       \/ \E n \in -1 .. MaxArgs : Calling("HandlerReturns", n, 0, None) /\ HandlerReturns(n)

CollectorStep == UNCHANGED budget /\ Does("sweepthread") /\ sweepthread

Next == \/ Works /\ JavaMethod
        \/ MayCall /\ \E n \in 0 .. MaxArgs, nres \in -1 .. MaxArgs : luaPcall(n, nres)
        \/ JavaStep \/ ScriptStep \/ PCallStep \/ ErrorStep \/ CollectorStep

Spec == Init /\ [][Next]_vars

-----------------------------------------------------------------------------
\* The frames that a caller sees.

Vals(k) ==
    LET c == cis[k]
        after == c.status \in {"ok", "failed"}
        top == IF c.at # 0 /\ ~after THEN c.at - 1 ELSE Len(stack)
        seen == SubSeq(stack, c.func + 1, top)
    IN IF after /\ c.kind \in JavaKinds THEN RemoveAt(seen, c.at - c.func) ELSE seen

Frames == [k \in DOMAIN cis |->
             [kind |-> cis[k].kind, vals |-> Vals(k), want |-> cis[k].nres,
              status |-> cis[k].status, exc |-> cis[k].exc]]

AF == INSTANCE ApiFrames WITH frames <- Frames, raised <- IF raising THEN Last(stack) ELSE None

\* The stack that calls, returns, errors, lua_insert and the like move about
\* is one sequence of values for each activation: no caller's value is read,
\* lost or overwritten by what it called, a call leaves exactly its results or
\* one message, and an error reaches the innermost protected call by way of
\* the message handler that belongs to it.
FramesImplemented == AF!Spec

\* api_check in api_incr_top and lua_checkstack: what runs is within its
\* CallInfo, and every CallInfo is within the memory of the stack, also after
\* errors shrank it and while the error of an overflow is being handled.
WithinStack ==
    /\ ~raising /\ ci.kind # "script" => Top <= ci.top
    /\ \A k \in DOMAIN cis : cis[k].top <= size
    /\ Len(stack) <= size

\* lua_assert in stackinuse and luaD_precall: every CallInfo also leaves the
\* extra slots of the stack free.
ExtraSlotsFree == \A k \in DOMAIN cis : cis[k].top <= stack_last(size)

\* Where a script or a Java function runs, luaD_throw has somewhere to go, and
\* the handler at errfunc is the one of the innermost luaPcall, or none.
HandlerOfCatcher ==
    jmps # <<>> =>
        LET c == cis[Last(jmps).ci] IN
        /\ c.status = "calling"
        /\ errfunc = IF c.kind = "pcall" THEN 0 ELSE c.at
        /\ errfunc # 0 => stack[errfunc] = Handler

\* What the methods that only read answer about every index.
AnswersRight ==
    JavaRuns => LET vals == Vals(Len(cis)) IN
    /\ _apiX(15, 0, 0).r = Len(vals)
    /\ \A k \in Valid :
        LET v == vals[IF k > 0 THEN k ELSE Len(vals) + 1 + k] IN
        /\ _apiX(1, k, 0).r = IF k > 0 THEN k ELSE Len(vals) + 1 + k
        /\ _apiX(18, k, 0).r = LuaType(v)
        /\ _apiX(44, k, 0).r = IF v \in {Nil, False} THEN 0 ELSE 1
        /\ LET num == v \in {Num, Numeral} IN
              /\ _xapi(47, k).r = IF num THEN 1 ELSE 0
              /\ _apiX(45, k, 0).r = IF num THEN 1 ELSE 0
              /\ _apiX(46, k, -1).r = IF num THEN 1 ELSE -1
        /\ _xapi(49, k).r = IF v \in Convertible THEN 1 ELSE 0
    /\ LuaType(Value(stack, Len(vals) + 1)) = -1

View == <<errorHandler, stack, size, cis, jmps, errfunc, raising, globals, budget>>
=============================================================================
