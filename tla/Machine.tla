------------------------------ MODULE Machine ------------------------------
(***************************************************************************)
(* The Lua virtual machine, lvm.c, on the code of lparser.c, with the      *)
(* calls of ldo.c and the upvalues of lfunc.c: one action per instruction. *)
(* A native function and a metamethod run in one step, but may yield: the  *)
(* machine then goes on by luaV_finishOp and not where it stopped, and     *)
(* both ways must come to the same.                                        *)
(***************************************************************************)
EXTENDS CodeGen, Source

CONSTANTS Compile(_),  \* the compiler: the main function of a chunk, as of luaY_parser
          Meaning(_),  \* what a chunk means, as Result of module Source
          Chunks,      \* the chunks the model runs, a sequence
          Heap0,       \* the tables at the start: 1 is _ENV
          Args,        \* the arguments of a chunk
          LUA_MINSTACK, EXTRA_STACK,
          Rules,       \* what programs keep to: "lefirst", or nothing
          Slack,       \* how much larger than its first frame the stack starts
          StackSlots   \* bound: the slots the model of the stack has

VARIABLES chunk,   \* the chunk that runs, an index of Chunks
          stack,   \* the Lua stack: slot -> value
          last,    \* L->stack_last: the slots from there on are reserve
          top,     \* L->top
          ci,      \* the frames: [func, base, top, pc, nresults, then]
          heap,    \* tables tab, closures clo, upvalues upval, cached closures cache
          out,     \* what native functions were called with, in order
          native,  \* the native function that runs, or NoNative
          status,  \* "run", "done" or the error that ended the run
          inStack  \* no frame has reached past the end of the stack

vars == <<chunk, stack, last, top, ci, heap, out, native, status, inStack>>

(* The main function of each chunk, and of the one that runs. *)
Program == Chunks
Heap == Heap0
Each(F(_), seq) == [i \in DOMAIN seq |-> F(seq[i])]
Compiled == Each(Compile, Program)
main == Compiled[chunk]

NoNative == [then |-> "none"]
Slots == 0 .. StackSlots - 1

----------------------------------------------------------------------------
(* The current frame and instruction; the operands. *)

Frame == ci[Len(ci)]
base == Frame.base
Fun == heap.clo[stack[Frame.func][2]]

RECURSIVE ProtoAt(_, _)
ProtoAt(p, path) == IF path = <<>> THEN p ELSE ProtoAt(p.p[Head(path)], Tail(path))
Proto == ProtoAt(main, Fun.path)

Running == status = "run" /\ native = NoNative
Inst == Proto.code[Frame.pc + 1]
Op(op) == Running /\ Inst.op = op
RA == base + Inst.a
RB == base + Inst.b
Kst(n) == Proto.k[n + 1]
RKV(n) == IF ISK(n) THEN Kst(n - BITRK) ELSE stack[base + n]
RKB == RKV(Inst.b)
RKC == RKV(Inst.c)

Upval(i) == heap.upval[Fun.upvals[i + 1]]
upvalue(u) == IF u.open THEN stack[u.at] ELSE u.v

(* savedpc after the fetch and n more. *)
Skip(n) == ci' = [ci EXCEPT ![Len(ci)].pc = @ + 1 + n]

(* luaF_close: the open upvalues from level on take their values with them. *)
luaF_close(h, level) ==
    [h EXCEPT !.upval = [i \in DOMAIN @ |->
        IF @[i].open /\ @[i].at >= level
        THEN [open |-> FALSE, at |-> 0, v |-> stack[@[i].at]] ELSE @[i]]]

(* luaD_checkstack with the stack in use up to tp: last after it. *)
checked(tp, n) ==
    LET size == last + EXTRA_STACK
        need == tp + n + EXTRA_STACK
    IN  CASE last - tp > n -> last
          [] last - tp <= n /\ need <= 2 * size -> 2 * size - EXTRA_STACK
          [] OTHER -> need - EXTRA_STACK

Fails(what) ==
    /\ status' = what
    /\ UNCHANGED <<chunk, stack, last, top, ci, heap, out, native, inStack>>

----------------------------------------------------------------------------
(* Instructions that only move values *)

Load(v, skip) ==
    /\ stack' = [stack EXCEPT ![RA] = v]
    /\ Skip(skip)
    /\ UNCHANGED <<chunk, last, top, heap, out, native, status, inStack>>

OpMove == Op("MOVE") /\ Load(stack[RB], 0)
OpLoadK == Op("LOADK") /\ Load(Kst(Inst.b), 0)
OpLoadBool == Op("LOADBOOL") /\ Load(Bool(Inst.b = 1), Inst.c)
OpGetUpval == Op("GETUPVAL") /\ Load(upvalue(Upval(Inst.b)), 0)
OpNot == Op("NOT") /\ Load(Bool(IsFalse(stack[RB])), 0)

LoadMany(first, vs) == [i \in Slots |-> IF i \in first .. first + Len(vs) - 1
                                        THEN vs[i - first + 1] ELSE stack[i]]

OpLoadNil ==
    /\ Op("LOADNIL")
    /\ stack' = LoadMany(RA, [i \in 1 .. Inst.b + 1 |-> Nil])
    /\ Skip(0)
    /\ UNCHANGED <<chunk, last, top, heap, out, native, status, inStack>>

OpSetUpval ==
    /\ Op("SETUPVAL")
    /\ IF Upval(Inst.b).open
       THEN /\ stack' = [stack EXCEPT ![Upval(Inst.b).at] = stack[RA]]
            /\ heap' = heap
       ELSE /\ heap' = [heap EXCEPT !.upval[Fun.upvals[Inst.b + 1]].v = stack[RA]]
            /\ stack' = stack
    /\ Skip(0)
    /\ UNCHANGED <<chunk, last, top, out, native, status, inStack>>

OpNewTable ==
    /\ Op("NEWTABLE")
    /\ heap' = [heap EXCEPT !.tab = Append(@, [h |-> <<>>, meta |-> 0])]
    /\ stack' = [stack EXCEPT ![RA] = <<"table", Len(heap.tab) + 1>>]
    /\ Skip(0)
    /\ UNCHANGED <<chunk, last, top, out, native, status, inStack>>

OpSetList ==
    /\ Op("SETLIST")
    /\ LET n     == IF Inst.b = 0 THEN top - RA - 1 ELSE Inst.b
           first == (Inst.c - 1) * LFIELDS_PER_FLUSH
       IN  heap' = [heap EXCEPT !.tab = FoldLeft(
                        LAMBDA tab, i : SetRaw(tab, stack[RA], Num(first + i), stack[RA + i]),
                        @, [i \in 1 .. n |-> i])]
    /\ top' = Frame.top
    /\ Skip(0)
    /\ UNCHANGED <<chunk, stack, last, out, native, status, inStack>>

OpVararg ==
    /\ Op("VARARG")
    /\ LET n == base - Frame.func - Proto.numparams - 1
           b == IF Inst.b = 0 THEN n ELSE Inst.b - 1
       IN  /\ stack' = LoadMany(RA, [j \in 1 .. b |->
                            IF j <= n THEN stack[base - n + j - 1] ELSE Nil])
           /\ top' = IF Inst.b = 0 THEN RA + n ELSE top
           /\ last' = IF Inst.b = 0 THEN checked(top, n) ELSE last
    /\ Skip(0)
    /\ UNCHANGED <<chunk, heap, out, native, status, inStack>>

(* pushclosure, and getcached: a closure is used again when it would capture *)
(* the same variables.                                                       *)
(* The open upvalue of a slot, of which there is one at most. *)
luaF_findupval(upvals, at) == {u \in DOMAIN upvals : upvals[u].open /\ upvals[u].at = at}

OpClosure ==
    /\ Op("CLOSURE")
    /\ LET path == Append(Fun.path, Inst.b + 1)
           ups  == Proto.p[Inst.b + 1].upvalues
           new  == SetToSortSeq({base + ups[i].idx : i \in {i \in DOMAIN ups :
                        ups[i].instack /\ luaF_findupval(heap.upval, base + ups[i].idx) = {}}},
                      LAMBDA x, y : x < y)
           upv  == heap.upval \o [i \in DOMAIN new |-> [open |-> TRUE, at |-> new[i], v |-> Nil]]
           caps == [i \in DOMAIN ups |-> IF ups[i].instack
                                         THEN CHOOSE u \in luaF_findupval(upv, base + ups[i].idx) : TRUE
                                         ELSE Fun.upvals[ups[i].idx + 1]]
           cached == path \in DOMAIN heap.cache /\ heap.clo[heap.cache[path]].upvals = caps
           id   == IF cached THEN heap.cache[path] ELSE Len(heap.clo) + 1
       IN  /\ heap' = IF cached THEN heap
                      ELSE [heap EXCEPT !.upval = upv,
                                        !.clo = Append(@, [path |-> path, upvals |-> caps]),
                                        !.cache = (path :> id) @@ @]
           /\ stack' = [stack EXCEPT ![RA] = <<"lua", id>>]
    /\ Skip(0)
    /\ UNCHANGED <<chunk, last, top, out, native, status, inStack>>

----------------------------------------------------------------------------
(* Jumps and tests *)

(* dojump on instruction j, from the position after it and e. *)
Jump(j, e) ==
    /\ heap' = IF j.a > 0 THEN luaF_close(heap, base + j.a - 1) ELSE heap
    /\ Skip(j.b + e)

NextInst == Proto.code[Frame.pc + 2]

(* A test takes the jump that follows it or skips it. *)
Test(taken) ==
    IF taken THEN Jump(NextInst, 1) ELSE Skip(1) /\ heap' = heap

OpJmp ==
    /\ Op("JMP")
    /\ Jump(Inst, 0)
    /\ UNCHANGED <<chunk, stack, last, top, out, native, status, inStack>>

OpTest ==
    /\ Op("TEST")
    /\ Test(IsFalse(stack[RA]) # (Inst.c = 1))
    /\ UNCHANGED <<chunk, stack, last, top, out, native, status, inStack>>

OpTestSet ==
    /\ Op("TESTSET")
    /\ LET taken == IsFalse(stack[RB]) # (Inst.c = 1)
       IN  /\ Test(taken)
           /\ stack' = IF taken THEN [stack EXCEPT ![RA] = stack[RB]] ELSE stack
    /\ UNCHANGED <<chunk, last, top, out, native, status, inStack>>

OpForPrep ==
    /\ Op("FORPREP")
    /\ IF \E i \in 0 .. 2 : stack[RA + i][1] # "num" THEN Fails("for")
       ELSE /\ stack' = [stack EXCEPT ![RA] = Num(@[2] - stack[RA + 2][2])]
            /\ Skip(Inst.b)
            /\ UNCHANGED <<chunk, last, top, heap, out, native, status, inStack>>

OpForLoop ==
    /\ Op("FORLOOP")
    /\ LET step == stack[RA + 2][2]
           idx  == stack[RA][2] + step
           goes == IF step > 0 THEN idx <= stack[RA + 1][2] ELSE stack[RA + 1][2] <= idx
       IN  /\ stack' = IF goes THEN [stack EXCEPT ![RA] = Num(idx), ![RA + 3] = Num(idx)] ELSE stack
           /\ Skip(IF goes THEN Inst.b ELSE 0)
    /\ UNCHANGED <<chunk, last, top, heap, out, native, status, inStack>>

OpTForLoop ==
    /\ Op("TFORLOOP")
    /\ LET goes == stack[RA + 1] # Nil
       IN  /\ stack' = IF goes THEN [stack EXCEPT ![RA] = stack[RA + 1]] ELSE stack
           /\ Skip(IF goes THEN Inst.b ELSE 0)
    /\ UNCHANGED <<chunk, last, top, heap, out, native, status, inStack>>

----------------------------------------------------------------------------
(* Metamethods: luaV_xxx and callTM *)

(* callTM: pushes handler h with its arguments at slot at and runs it; then  *)
(* names the code that waits for it, nres how many results it wants.  The    *)
(* reserve EXTRA_STACK always has room for the three or four slots, and the  *)
(* growth of the stack by luaD_checkstack (lvm.c:92) is left out.            *)
CallTM(h, args, at, nres, then) ==
    /\ stack' = LoadMany(at, <<h>> \o args)
    /\ top' = at + 1 + Len(args)
    /\ out' = Append(out, << <<"str", h[2]>> >> \o args)
    /\ native' = [func |-> at, nresults |-> nres, v |-> NativeResult(h[2], args), then |-> then]
    /\ Skip(0)
    /\ UNCHANGED <<chunk, last, heap, status, inStack>>

(* luaV_gettable from t: where the chain of __index ends, a value, a handler *)
(* or an error.                                                              *)
RECURSIVE gettable(_, _)
gettable(t, key) ==
    LET tm == Meta(heap.tab, t, "__index")
    IN  CASE t[1] = "table" /\ (Raw(heap.tab, t, key) # Nil \/ tm = Nil) ->
                [found |-> TRUE, v |-> Raw(heap.tab, t, key), t |-> t]
          [] t[1] # "table" /\ tm = Nil -> [found |-> FALSE, v |-> Nil, t |-> t]
          [] tm[1] \in {"c", "lua"} -> [found |-> FALSE, v |-> tm, t |-> t]
          [] OTHER -> gettable(tm, key)

GetTable(t, key, stk) ==
    LET g == gettable(t, key)
    IN  CASE g.found ->
                /\ stack' = [stk EXCEPT ![RA] = g.v]
                /\ Skip(0)
                /\ UNCHANGED <<chunk, last, top, heap, out, native, status, inStack>>
          [] ~g.found /\ g.v = Nil -> Fails("index")
          [] OTHER -> /\ stack' = [i \in Slots |->
                             CASE i = top -> g.v [] i = top + 1 -> g.t
                               [] i = top + 2 -> key [] OTHER -> stk[i]]
                      /\ top' = top + 3
                      /\ out' = Append(out, << <<"str", g.v[2]>>, g.t, key>>)
                      /\ native' = [func |-> top, nresults |-> 1, then |-> "ra",
                                    v |-> NativeResult(g.v[2], <<g.t, key>>)]
                      /\ Skip(0)
                      /\ UNCHANGED <<chunk, last, heap, status, inStack>>

OpGetTabUp == Op("GETTABUP") /\ GetTable(upvalue(Upval(Inst.b)), RKC, stack)
OpGetTable == Op("GETTABLE") /\ GetTable(stack[RB], RKC, stack)
OpSelf ==
    /\ Op("SELF")
    /\ GetTable(stack[RB], RKC, [stack EXCEPT ![RA + 1] = stack[RB]])

RECURSIVE settable(_, _)
settable(t, key) ==
    LET tm == Meta(heap.tab, t, "__newindex")
    IN  CASE t[1] = "table" /\ (Raw(heap.tab, t, key) # Nil \/ tm = Nil) ->
                [raw |-> TRUE, tm |-> Nil, t |-> t]
          [] t[1] # "table" /\ tm = Nil -> [raw |-> FALSE, tm |-> Nil, t |-> t]
          [] tm[1] \in {"c", "lua"} -> [raw |-> FALSE, tm |-> tm, t |-> t]
          [] OTHER -> settable(tm, key)

SetTable(t, key, v) ==
    LET s == settable(t, key)
    IN  CASE s.raw ->
                /\ heap' = [heap EXCEPT !.tab = SetRaw(@, s.t, key, v)]
                /\ Skip(0)
                /\ UNCHANGED <<chunk, stack, last, top, out, native, status, inStack>>
          [] ~s.raw /\ s.tm = Nil -> Fails("index")
          [] OTHER -> CallTM(s.tm, <<s.t, key, v>>, top, 0, "none needed")

OpSetTabUp == Op("SETTABUP") /\ SetTable(upvalue(Upval(Inst.a)), RKB, RKC)
OpSetTable == Op("SETTABLE") /\ SetTable(stack[RA], RKB, RKC)

binTM(p1, p2, event) ==
    IF Meta(heap.tab, p1, event) # Nil THEN Meta(heap.tab, p1, event) ELSE Meta(heap.tab, p2, event)

event(op) == CASE op = "ADD" -> "__add" [] op = "SUB" -> "__sub" [] op = "MUL" -> "__mul"
               [] op = "MOD" -> "__mod" [] op = "POW" -> "__pow" [] op = "UNM" -> "__unm"

OpArith ==
    /\ Running /\ Inst.op \in {"ADD", "SUB", "MUL", "MOD", "POW", "UNM"}
    /\ LET b == IF Inst.op = "UNM" THEN stack[RB] ELSE RKB
           c == IF Inst.op = "UNM" THEN stack[RB] ELSE RKC
           h == binTM(b, c, event(Inst.op))
       IN  CASE b[1] = "num" /\ c[1] = "num" -> Load(Num(ArithNum(Inst.op, b[2], c[2])), 0)
             [] ~(b[1] = "num" /\ c[1] = "num") /\ h # Nil -> CallTM(h, <<b, c>>, top, 1, "ra")
             [] OTHER -> Fails("arith")

OpLen ==
    /\ Op("LEN")
    /\ LET b == stack[RB]
           h == Meta(heap.tab, b, "__len")
       IN  CASE b[1] = "str" -> Load(Num(Len(b[2])), 0)
             [] b[1] # "str" /\ h # Nil -> CallTM(h, <<b, b>>, top, 1, "ra")
             [] b[1] = "table" /\ h = Nil -> Load(Num(Border(heap.tab, b)), 0)
             [] OTHER -> Fails("len")

(* The outcome of a comparison against A. *)
Compare(res) ==
    /\ Test(res = (Inst.a = 1))
    /\ UNCHANGED <<chunk, stack, last, top, out, native, status, inStack>>

(* Two tables are compared by a metamethod only if both have the same one. *)
get_equalTM(v, w) ==
    LET h == Meta(heap.tab, v, "__eq")
    IN  IF h = Meta(heap.tab, w, "__eq") THEN h ELSE Nil

OpEq ==
    /\ Op("EQ")
    /\ LET h == get_equalTM(RKB, RKC)
       IN  IF RKB = RKC \/ RKB[1] # "table" \/ RKC[1] # "table" \/ h = Nil
           THEN Compare(RKB = RKC)
           ELSE CallTM(h, <<RKB, RKC>>, top, 1, "test")

OpLt ==
    /\ Op("LT")
    /\ LET h == binTM(RKB, RKC, "__lt")
       IN  CASE RKB[1] = "num" /\ RKC[1] = "num" -> Compare(RKB[2] < RKC[2])
             [] ~(RKB[1] = "num" /\ RKC[1] = "num") /\ h # Nil ->
                    CallTM(h, <<RKB, RKC>>, top, 1, "test")
             [] OTHER -> Fails("compare")

OpLe ==
    /\ Op("LE")
    /\ LET le == binTM(RKB, RKC, "__le")
           lt == binTM(RKC, RKB, "__lt")
       IN  CASE RKB[1] = "num" /\ RKC[1] = "num" -> Compare(RKB[2] <= RKC[2])
             [] ~(RKB[1] = "num" /\ RKC[1] = "num") /\ le # Nil ->
                    CallTM(le, <<RKB, RKC>>, top, 1, "test")
             [] ~(RKB[1] = "num" /\ RKC[1] = "num") /\ le = Nil /\ lt # Nil ->
                    CallTM(lt, <<RKC, RKB>>, top, 1, "testnot")
             [] OTHER -> Fails("compare")

----------------------------------------------------------------------------
(* Concatenation *)

IsStr(v) == v[1] \in {"str", "num"}

(* luaV_concat on the total values below top, until one is left or a         *)
(* metamethod or an error stops it.                                          *)
RECURSIVE luaV_concat(_, _, _)
luaV_concat(stk, tp, total) ==
    LET a == stk[tp - 2]
        b == stk[tp - 1]
        \* as many strings as possible
        n == Max({m \in 2 .. total : \A i \in 1 .. m : IsStr(stk[tp - i])})
        strs == [i \in 1 .. n |-> Str(stk[tp - n + i - 1])]
    IN  CASE total = 1 -> [stack |-> stk, top |-> tp, total |-> 1]
          [] total > 1 /\ ~(IsStr(a) /\ IsStr(b)) -> [stack |-> stk, top |-> tp, total |-> total]
          [] total > 1 /\ IsStr(a) /\ IsStr(b) /\ Str(b) = "" ->
                luaV_concat([stk EXCEPT ![tp - 2] = <<"str", Str(a)>>], tp - 1, total - 1)
          [] total > 1 /\ IsStr(a) /\ IsStr(b) /\ Str(b) # "" /\ Str(a) = "" ->
                luaV_concat([stk EXCEPT ![tp - 2] = <<"str", Str(b)>>], tp - 1, total - 1)
          [] OTHER -> luaV_concat([stk EXCEPT ![tp - n] = <<"str", FoldLeft(\o, "", strs)>>],
                                  tp - n + 1, total - n + 1)

(* Goes on with OP_CONCAT instruction i on total values below tp. *)
Concat(i, stk, tp, total) ==
    LET r == luaV_concat(stk, tp, total)
        a == r.stack[r.top - 2]
        b == r.stack[r.top - 1]
        h == binTM(a, b, "__concat")
    IN  CASE r.total = 1 ->
                /\ stack' = [r.stack EXCEPT ![base + i.a] = r.stack[base + i.b]]
                /\ top' = Frame.top
                /\ native' = NoNative
                /\ UNCHANGED <<out, status>>
          [] r.total > 1 /\ h # Nil ->
                /\ stack' = [r.stack EXCEPT ![r.top] = h, ![r.top + 1] = a, ![r.top + 2] = b]
                /\ top' = r.top + 3
                /\ out' = Append(out, << <<"str", h[2]>>, a, b>>)
                /\ native' = [func |-> r.top, nresults |-> 1, v |-> NativeResult(h[2], <<a, b>>),
                              then |-> "concat", total |-> r.total]
                /\ UNCHANGED status
          [] OTHER -> /\ status' = "concat"
                      /\ native' = NoNative
                      /\ UNCHANGED <<stack, top, out>>

OpConcat ==
    /\ Op("CONCAT")
    /\ Concat(Inst, stack, RA - Inst.a + Inst.c + 1, Inst.c - Inst.b + 1)
    /\ Skip(0)
    /\ UNCHANGED <<chunk, last, heap, inStack>>

----------------------------------------------------------------------------
(* Calls *)

(* luaD_poscall: the results vs in place of the function at func. *)
PosCall(func, wanted, vs) ==
    LET n == IF wanted = -1 THEN Len(vs) ELSE wanted
    IN  [stack |-> LoadMany(func, Adjust(vs, n)), top |-> func + n]

Fetched == [ci EXCEPT ![Len(ci)].pc = @ + 1]

(* luaD_precall of the value at func with arguments up to tp; a native       *)
(* function runs at once.  then names the code that waits for the results.   *)
PreCall(func, tp, nresults, then, stk0) ==
    LET v    == stk0[func]
        tm   == Meta(heap.tab, v, "__call")
        hole == v[1] \notin {"lua", "c"}
        \* tryfuncTM: the handler takes the place of the value, which becomes its first argument
        stk  == IF hole THEN [i \in Slots |-> CASE i = func -> tm
                                                [] i > func /\ i <= tp -> stk0[i - 1]
                                                [] OTHER -> stk0[i]] ELSE stk0
        f    == stk[func]
        tp1  == IF hole THEN tp + 1 ELSE tp
        args == [i \in 1 .. tp1 - func - 1 |-> stk[func + i]]
        p    == ProtoAt(main, heap.clo[f[2]].path)
        n    == IF Len(args) < p.numparams THEN p.numparams ELSE Len(args)
        full == Adjust(args, n)
        \* adjust_varargs: the fixed parameters move above the arguments
        b    == IF p.is_vararg THEN func + 1 + n ELSE func + 1
        moved == IF p.is_vararg
                 THEN [i \in 1 .. n |-> IF i <= p.numparams THEN Nil ELSE full[i]]
                      \o SubSeq(full, 1, p.numparams)
                 ELSE full
        new  == [func |-> func, base |-> b, top |-> b + p.maxstack, pc |-> 0,
                 nresults |-> nresults, then |-> then]
    IN  CASE hole /\ tm = Nil -> Fails("call")
          [] f[1] = "c" ->
                /\ out' = Append(out, << <<"str", f[2]>> >> \o args)
                /\ native' = [func |-> func, nresults |-> nresults,
                              v |-> NativeResult(f[2], args), then |-> then]
                /\ stack' = stk
                /\ top' = tp1
                /\ ci' = Fetched
                /\ last' = checked(tp1, LUA_MINSTACK)
                /\ inStack' = (inStack /\ tp1 + LUA_MINSTACK <= last')
                /\ UNCHANGED <<chunk, heap, status>>
          [] OTHER ->
                /\ stack' = [i \in Slots |-> IF i \in func + 1 .. func + Len(moved)
                                             THEN moved[i - func] ELSE stk[i]]
                /\ top' = new.top
                /\ ci' = Append(Fetched, new)
                /\ last' = checked(tp1, p.maxstack)
                /\ inStack' = (inStack /\ new.top <= last')
                /\ UNCHANGED <<chunk, heap, out, native, status>>

ArgsTop == IF Inst.b # 0 THEN RA + Inst.b ELSE top

OpCall ==
    /\ Op("CALL")
    /\ PreCall(RA, ArgsTop, Inst.c - 1, "call", stack)

OpTForCall ==
    /\ Op("TFORCALL")
    /\ PreCall(RA + 3, RA + 6, Inst.c, "tforcall",
               LoadMany(RA + 3, <<stack[RA], stack[RA + 1], stack[RA + 2]>>))

(* A tail call: the frame of the called function takes the place of the      *)
(* caller's, whose upvalues are closed first.                                *)
OpTailCall ==
    /\ Op("TAILCALL")
    /\ LET v == stack[RA]
           p == ProtoAt(main, heap.clo[v[2]].path)
           args == [i \in 1 .. ArgsTop - RA - 1 |-> stack[RA + i]]
           n    == IF Len(args) < p.numparams THEN p.numparams ELSE Len(args)
           full == Adjust(args, n)
           b    == IF p.is_vararg THEN Frame.func + 1 + n ELSE Frame.func + 1
           moved == IF p.is_vararg
                    THEN [i \in 1 .. n |-> IF i <= p.numparams THEN Nil ELSE full[i]]
                         \o SubSeq(full, 1, p.numparams)
                    ELSE full
       IN  IF v[1] # "lua" THEN PreCall(RA, ArgsTop, -1, "tailcall", stack)
           ELSE
             /\ heap' = IF Proto.p # <<>> THEN luaF_close(heap, base) ELSE heap
             /\ stack' = LoadMany(Frame.func, <<v>> \o moved)
             /\ top' = b + p.maxstack
             /\ ci' = [ci EXCEPT ![Len(ci)].base = b, ![Len(ci)].top = b + p.maxstack,
                                 ![Len(ci)].pc = 0]
             /\ last' = checked(ArgsTop, p.maxstack)
             /\ inStack' = (inStack /\ RA + (b - Frame.func) + p.maxstack <= last')
             /\ UNCHANGED <<chunk, out, native, status>>

OpReturn ==
    /\ Op("RETURN")
    /\ LET n  == IF Inst.b # 0 THEN Inst.b - 1 ELSE top - RA
           vs == [i \in 1 .. n |-> stack[RA + i - 1]]
           r  == PosCall(Frame.func, Frame.nresults, vs)
           caller == ci[Len(ci) - 1]
       IN  /\ heap' = IF Proto.p # <<>> THEN luaF_close(heap, base) ELSE heap
           /\ stack' = r.stack
           /\ ci' = Front(ci)
           /\ top' = IF Frame.then = "tforcall" \/ (Frame.then = "call" /\ Frame.nresults # -1)
                     THEN caller.top ELSE r.top
           /\ status' = IF Frame.then = "host" THEN "done" ELSE "run"
    /\ UNCHANGED <<chunk, last, out, native, inStack>>

----------------------------------------------------------------------------
(* The end of a native function: the code that called it goes on ... *)

Interrupted == Proto.code[Frame.pc]
Done == PosCall(native.func, native.nresults, native.v)

(* A test by metamethod: pc stands on the jump that follows the test. *)
AfterTest(res, stk, tp) ==
    LET j == Proto.code[Frame.pc + 1]
    IN  /\ IF res = (Interrupted.a = 1)
           THEN Jump(j, 0)
           ELSE Skip(0) /\ heap' = heap
        /\ stack' = stk
        /\ top' = tp
        /\ native' = NoNative
        /\ UNCHANGED <<out, status>>

NativeReturns ==
    /\ status = "run" /\ native # NoNative
    /\ LET i   == Interrupted
           stk == Done.stack
           v   == stk[Done.top - 1]
       IN  CASE native.then = "ra" ->
                    /\ stack' = [stk EXCEPT ![base + i.a] = v]
                    /\ top' = Done.top - 1
                    /\ native' = NoNative
                    /\ UNCHANGED <<ci, heap, out, status>>
             [] native.then \in {"test", "testnot"} ->
                    AfterTest(IsFalse(v) = (native.then = "testnot"), stk, Done.top - 1)
             [] native.then = "concat" ->
                    /\ Concat(i, [stk EXCEPT ![Done.top - 3] = v], Done.top - 2, native.total - 1)
                    /\ UNCHANGED <<ci, heap>>
             [] OTHER ->
                    /\ stack' = stk
                    /\ top' = CASE native.then = "call" /\ native.nresults >= 0 -> Frame.top
                                [] native.then = "tforcall" -> Frame.top
                                [] OTHER -> Done.top
                    /\ native' = NoNative
                    /\ UNCHANGED <<ci, heap, out, status>>
    /\ UNCHANGED <<chunk, last, inStack>>

(* ... or, when it has yielded and is resumed, luaV_finishOp does.  Whether  *)
(* a <= was made by "<" it guesses from the first operand: the result is     *)
(* inverted if that has no __le, though the second may have had one.  It is  *)
(* read as a register also when it is a constant: what lies there is         *)
(* anything.                                                                 *)
leOperand(i) == IF ISK(i.b) THEN {Nil} \cup {<<"table", t>> : t \in DOMAIN heap.tab}
                ELSE {stack[base + i.b]}
Inverted(i) == IF i.op = "LE" THEN {Meta(heap.tab, v, "__le") = Nil : v \in leOperand(i)} ELSE {FALSE}

(* Rule lefirst: a metamethod of <= does not yield where the guess can be    *)
(* wrong, for an __le of the second operand alone or after a constant.       *)
MayYield ==
    "lefirst" \in Rules /\ Interrupted.op = "LE" => Inverted(Interrupted) = {native.then = "testnot"}

NativeYields ==
    /\ status = "run" /\ native # NoNative
    /\ MayYield
    /\ LET i   == Interrupted
           stk == Done.stack
           tp  == Done.top
       IN  CASE i.op \in {"ADD", "SUB", "MUL", "MOD", "POW", "UNM", "LEN",
                          "GETTABUP", "GETTABLE", "SELF"} ->
                    /\ stack' = [stk EXCEPT ![base + i.a] = stk[tp - 1]]
                    /\ top' = tp - 1
                    /\ native' = NoNative
                    /\ UNCHANGED <<ci, heap, out, status>>
             [] i.op \in {"LE", "LT", "EQ"} ->
                    \E inverted \in Inverted(i) :
                        LET res == IsFalse(stk[tp - 1]) = inverted
                        IN  /\ ci' = IF res = (i.a = 1) THEN ci ELSE Fetched
                            /\ stack' = stk
                            /\ top' = tp - 1
                            /\ native' = NoNative
                            /\ UNCHANGED <<heap, out, status>>
             [] i.op = "CONCAT" ->
                    /\ Concat(i, [stk EXCEPT ![tp - 3] = stk[tp - 1]], tp - 2,
                              tp - 2 - (base + i.b))
                    /\ UNCHANGED <<ci, heap>>
             [] OTHER ->
                    /\ stack' = stk
                    /\ top' = IF i.op = "TFORCALL" \/ (i.op = "CALL" /\ i.c - 1 >= 0)
                              THEN Frame.top ELSE tp
                    /\ native' = NoNative
                    /\ UNCHANGED <<ci, heap, out, status>>
    /\ UNCHANGED <<chunk, last, inStack>>

----------------------------------------------------------------------------
(* A chunk is compiled and called with Args; its closure is at slot 1. *)

Init ==
    /\ chunk \in DOMAIN Program
    /\ LET b == 2 + Len(Args)
       IN  /\ stack = [i \in Slots |-> CASE i = 1 -> <<"lua", 1>>
                                         [] i > 1 /\ i < b -> Args[i - 1]
                                         [] OTHER -> Nil]
           /\ ci = << [func |-> 0, base |-> 1, top |-> b, pc |-> 0, nresults |-> 0, then |-> "host"],
                      [func |-> 1, base |-> b, top |-> b + main.maxstack, pc |-> 0,
                       nresults |-> -1, then |-> "host"] >>
           /\ top = b + main.maxstack
           /\ \E slack \in Slack : last = b + main.maxstack + slack
    /\ heap = [tab |-> Heap, clo |-> << [path |-> <<>>, upvals |-> <<1>>] >>,
               upval |-> << [open |-> FALSE, at |-> 0, v |-> <<"table", 1>>] >>, cache |-> <<>>]
    /\ out = <<>>
    /\ native = NoNative
    /\ status = IF main.err = "" THEN "run" ELSE main.err
    /\ inStack = TRUE

Next ==
    \/ OpMove \/ OpLoadK \/ OpLoadBool \/ OpLoadNil \/ OpGetUpval \/ OpSetUpval \/ OpNot
    \/ OpGetTabUp \/ OpGetTable \/ OpSelf \/ OpSetTabUp \/ OpSetTable \/ OpNewTable \/ OpSetList
    \/ OpArith \/ OpLen \/ OpConcat \/ OpEq \/ OpLt \/ OpLe
    \/ OpJmp \/ OpTest \/ OpTestSet \/ OpForPrep \/ OpForLoop \/ OpTForCall \/ OpTForLoop
    \/ OpCall \/ OpTailCall \/ OpReturn \/ OpClosure \/ OpVararg
    \/ NativeReturns \/ NativeYields

Spec == Init /\ [][Next]_vars /\ WF_vars(Next)

----------------------------------------------------------------------------
(* What the chunks mean, and what the machine made of one. *)

Meanings == Each(Meaning, Program)

Shown(vs) == [i \in DOMAIN vs |-> IF vs[i][1] = "lua" THEN <<"lua">> ELSE vs[i]]
ShownAll(seq) == [i \in DOMAIN seq |-> Shown(seq[i])]
Results == [i \in 1 .. top - 1 |-> stack[i]]

(* A compiled chunk does what its source means: the same calls with the same *)
(* arguments in the same order, the same results, and it fails exactly when  *)
(* and as the source does.  So it does whichever native functions and        *)
(* metamethods yield on the way, except those that rule lefirst names, whose *)
(* results luaV_finishOp inverts when it should not (lvm.c:430-432).         *)
MeansTheSame ==
    LET m == Meanings[chunk]
    IN  /\ status = "done" => /\ m.sig \in {ok, <<"return">>}
                              /\ ShownAll(out) = ShownAll(m.st.out)
                              /\ Shown(Results) = Shown(m.v)
        /\ status \notin {"run", "done"} /\ main.err = "" =>
                m.sig = <<"error", status>> /\ ShownAll(out) = ShownAll(m.st.out)

(* The compiler rejects a chunk exactly when its gotos, breaks or labels are *)
(* illegal: a jump into the scope of a local, a label that is not visible or *)
(* defined twice (closegoto, undefgoto, checkrepeated of lparser.c).         *)
RejectsIllegal == (main.err = "") = Legal(Program[chunk])

(* No lua_assert of lcode.c and lparser.c fails on any path of the compiler: *)
(* registers are freed in the order they were taken, a statement leaves no   *)
(* temporary behind, jump lists end at code that exists.                     *)
RECURSIVE assertions(_)
assertions(p) == p.ok /\ \A i \in DOMAIN p.p : assertions(p.p[i])
Asserted == Each(assertions, Compiled)
AssertionsHold == main.err = "" => Asserted[chunk]

(* The machine checks no operand: each register, constant, upvalue and jump  *)
(* of the code must exist, a test must stand before its jump, and a list of  *)
(* results up to the top must come right before the one instruction that     *)
(* takes it, where no jump lands in between.                                 *)
registers(i) ==
    CASE i.op \in {"MOVE", "NOT", "UNM", "LEN", "TESTSET"} -> {i.a, i.b}
      [] i.op \in {"LOADK", "LOADBOOL", "GETUPVAL", "SETUPVAL", "NEWTABLE", "TEST", "CLOSURE"} -> {i.a}
      [] i.op = "LOADNIL"  -> {i.a + i.b}
      [] i.op = "GETTABUP" -> {i.a, i.c}
      [] i.op = "SETTABUP" -> {i.b, i.c}
      [] i.op \in {"GETTABLE", "SETTABLE", "ADD", "SUB", "MUL", "MOD", "POW", "CONCAT"} -> {i.a, i.b, i.c}
      [] i.op = "SELF"     -> {i.a + 1, i.b, i.c}
      [] i.op \in {"EQ", "LT", "LE"} -> {i.b, i.c}
      [] i.op \in {"FORPREP", "FORLOOP"} -> {i.a + 3}
      [] i.op = "TFORCALL" -> {i.a + 2 + i.c, i.a + 5}
      [] i.op = "TFORLOOP" -> {i.a + 1}
      [] i.op = "SETLIST"  -> {i.a + i.b}
      [] i.op = "VARARG"   -> {i.a, i.a + i.b - 2}
      [] i.op \in {"CALL", "TAILCALL"} -> {i.a, i.a + i.b - 1, i.a + i.c - 2}
      [] i.op = "RETURN"   -> {i.a + i.b - 2}
      [] i.op = "JMP"      -> {i.a - 1}

opensList(i) == (i.op = "CALL" /\ i.c = 0) \/ (i.op \in {"VARARG", "TAILCALL"} /\ (i.op = "VARARG" => i.b = 0))
takesList(i) == i.op \in {"CALL", "TAILCALL", "RETURN", "SETLIST"} /\ i.b = 0

RECURSIVE safe(_)
safe(p) ==
    LET code == p.code
        fits(r) == IF ISK(r) THEN r - BITRK < Len(p.k) ELSE r < p.maxstack
        jumps_to(pc) == IF code[pc].op \in {"JMP", "FORPREP", "FORLOOP", "TFORLOOP"}
                        THEN {pc + 1 + code[pc].b}
                        ELSE IF code[pc].op = "LOADBOOL" /\ code[pc].c = 1 THEN {pc + 2} ELSE {}
        next(pc) == code[pc + 1]
    IN  /\ Last(code).op = "RETURN"
        /\ \A pc \in DOMAIN code :
             LET i == code[pc] IN
             /\ \A r \in registers(i) : fits(r)
             /\ i.op = "LOADK" => i.b < Len(p.k)
             /\ i.op = "CLOSURE" => i.b < Len(p.p)
             /\ i.op \in {"GETUPVAL", "SETUPVAL", "GETTABUP"} => i.b < Len(p.upvalues)
             /\ i.op = "SETTABUP" => i.a < Len(p.upvalues)
             /\ testTMode(i.op) => next(pc).op = "JMP"
             /\ i.op = "TFORCALL" => next(pc).op = "TFORLOOP" /\ next(pc).a = i.a + 2
             /\ i.op = "FORPREP" => code[pc + 1 + i.b].op = "FORLOOP" /\ code[pc + 1 + i.b].a = i.a
             /\ opensList(i) => takesList(next(pc))
             /\ takesList(i) => pc > 1 /\ opensList(code[pc - 1])
             /\ \A t \in jumps_to(pc) : t \in DOMAIN code /\ ~takesList(code[t])
        /\ \A i \in DOMAIN p.p : safe(p.p[i])
Safe == Each(safe, Compiled)
CodeSafe == main.err = "" => Safe[chunk]

(* A variable that a closure shares stays on the stack exactly as long as it *)
(* is in scope, by the compiler's own record of its scope: each way out of a *)
(* block, a loop or a function closes it, and it has one upvalue.            *)
active(p, pc) == Cardinality({i \in DOMAIN p.locvars : p.locvars[i].startpc <= pc /\ pc < p.locvars[i].endpc})
SharedWhileInScope ==
    status = "run" =>
        \A u \in DOMAIN heap.upval : heap.upval[u].open =>
            /\ \A w \in DOMAIN heap.upval \ {u} :
                    ~(heap.upval[w].open /\ heap.upval[w].at = heap.upval[u].at)
            /\ \E i \in 2 .. Len(ci) :
                    LET p == ProtoAt(main, heap.clo[stack[ci[i].func][2]].path)
                    IN  heap.upval[u].at - ci[i].base \in 0 .. active(p, ci[i].pc) - 1
=============================================================================
