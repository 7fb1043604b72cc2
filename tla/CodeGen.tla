------------------------------ MODULE CodeGen ------------------------------
(***************************************************************************)
(* The code generator of the Lua compiler, lcode.c, over the instruction   *)
(* set of lopcodes.h.  A function under compilation is a record f:         *)
(*   code        the instructions so far, [op, a, b, c]; b also holds sBx  *)
(*   jpc         the list of pending jumps to the next instruction         *)
(*   lasttarget  the last position taken as a jump target                  *)
(*   freereg     the first free register                                   *)
(*   maxstack    the registers the function needs                          *)
(*   nactvar     the active local variables, one register each            *)
(*   k           its constants                                             *)
(*   ok          no lua_assert of the compiler has failed so far           *)
(* and lparser.c adds fields of its own.  A jump list is threaded through  *)
(* the code: the sBx of a jump is the offset of the next one, NO_JUMP ends *)
(* it.  An expression is a record e (expdesc), and operators on            *)
(* expressions map a pair x = [f, e] to such a pair.                       *)
(***************************************************************************)
EXTENDS Integers, Sequences, SequencesExt

CONSTANTS MAXINDEXRK,         \* the last constant an instruction can name
          LFIELDS_PER_FLUSH,  \* items of a constructor per OP_SETLIST
          MAXSTACK            \* registers of a function

ASSUME CodeGenAssumption ==
    MAXINDEXRK \in Nat /\ LFIELDS_PER_FLUSH \in Nat \ {0} /\ MAXSTACK \in Nat

NO_JUMP == -1
NO_REG == 255
BITRK == 256
ISK(r) == r >= BITRK
RKASK(i) == i + BITRK

testTMode(op) == op \in {"EQ", "LT", "LE", "TEST", "TESTSET"}

Nil == <<"nil">>
Num(n) == <<"num", n>>
Bool(b) == <<"bool", b>>

(* luaO_arith on the numbers of the model. *)
ArithNum(op, n, m) ==
    CASE op = "ADD" -> n + m
      [] op = "SUB" -> n - m
      [] op = "MUL" -> n * m
      [] op = "MOD" -> IF m > 0 THEN n % m ELSE -((-n) % (-m))
      [] op = "POW" -> n ^ m
      [] op = "UNM" -> -n

----------------------------------------------------------------------------
(* Functions, code and jump lists *)

Pc(f) == Len(f.code)

getcode(x) == x.f.code[x.e.info + 1]
lua_assert(f, p) == [f EXCEPT !.ok = @ /\ p]

getjump(f, pc) ==
    LET offset == f.code[pc + 1].b
    IN  IF offset = NO_JUMP THEN NO_JUMP ELSE pc + 1 + offset

RECURSIVE jumps(_, _)
jumps(f, list) ==
    IF list = NO_JUMP THEN <<>> ELSE <<list>> \o jumps(f, getjump(f, list))

fixjump(f, pc, dest) == [f EXCEPT !.code[pc + 1].b = dest - (pc + 1)]

getjumpcontrol(f, pc) ==
    IF pc >= 1 /\ testTMode(f.code[pc].op) THEN pc - 1 ELSE pc

isTestSet(f, j) == f.code[getjumpcontrol(f, j) + 1].op = "TESTSET"

need_value(f, list) == \E j \in ToSet(jumps(f, list)) : ~isTestSet(f, j)

patchtestreg(f, node, reg) ==
    LET at == getjumpcontrol(f, node) + 1
        i  == f.code[at]
    IN  CASE i.op # "TESTSET" -> f
          [] i.op = "TESTSET" /\ reg # NO_REG /\ reg # i.b ->
                [f EXCEPT !.code[at].a = reg]
          [] OTHER -> [f EXCEPT !.code[at] =
                          [op |-> "TEST", a |-> i.b, b |-> 0, c |-> i.c]]

removevalues(f, list) ==
    FoldLeft(LAMBDA g, j : patchtestreg(g, j, NO_REG), f, jumps(f, list))

patchlistaux(f, list, vtarget, reg, dtarget) ==
    FoldLeft(LAMBDA g, j : fixjump(patchtestreg(g, j, reg), j,
                                   IF isTestSet(g, j) THEN vtarget ELSE dtarget),
             f, jumps(f, list))

(* luaK_concat leaves the list joined(l1, l2) in l1. *)
joined(l1, l2) == IF l1 = NO_JUMP THEN l2 ELSE l1

luaK_concat(f, l1, l2) ==
    IF l1 = NO_JUMP \/ l2 = NO_JUMP THEN f
    ELSE fixjump(f, Last(jumps(f, l1)), l2)

luaK_getlabel(f) == [f EXCEPT !.lasttarget = Pc(f)]

luaK_patchtohere(f, list) ==
    [luaK_concat(luaK_getlabel(f), f.jpc, list) EXCEPT !.jpc = joined(@, list)]

luaK_patchlist(f, list, target) ==
    IF target = Pc(f) THEN luaK_patchtohere(f, list)
    ELSE patchlistaux(lua_assert(f, target < Pc(f)), list, target, NO_REG, target)

luaK_patchclose(f, list, level) ==
    FoldLeft(LAMBDA g, j :
                LET i == g.code[j + 1]
                IN  [lua_assert(g, i.op = "JMP" /\ (i.a = 0 \/ i.a >= level + 1))
                        EXCEPT !.code[j + 1].a = level + 1],
             f, jumps(f, list))

dischargejpc(f) ==
    [patchlistaux(f, f.jpc, Pc(f), NO_REG, Pc(f)) EXCEPT !.jpc = NO_JUMP]

(* luaK_code: the new instruction is at Pc(f). *)
luaK_code(f, op, a, b, c) ==
    [dischargejpc(f) EXCEPT
        !.code = Append(@, [op |-> op, a |-> a, b |-> b, c |-> c])]

(* luaK_jump: the jumps pending here are put on hold in the new one, at Pc(f). *)
luaK_jump(f) ==
    luaK_concat(luaK_code([f EXCEPT !.jpc = NO_JUMP], "JMP", 0, NO_JUMP, 0),
                Pc(f), f.jpc)

condjump(f, op, a, b, c) == luaK_jump(luaK_code(f, op, a, b, c))

luaK_ret(f, first, nret) == luaK_code(f, "RETURN", first, nret + 1, 0)

luaK_nil(f, from, n) ==
    LET l        == from + n - 1
        previous == Last(f.code)
        pfrom    == previous.a
        pl       == pfrom + previous.b
        low      == IF pfrom < from THEN pfrom ELSE from
        high     == IF pl > l THEN pl ELSE l
    IN  IF /\ Pc(f) > f.lasttarget
           /\ Pc(f) > 0
           /\ previous.op = "LOADNIL"
           /\ \/ pfrom <= from /\ from <= pl + 1
              \/ from <= pfrom /\ pfrom <= l + 1
        THEN [f EXCEPT !.code[Pc(f)].a = low, !.code[Pc(f)].b = high - low]
        ELSE luaK_code(f, "LOADNIL", from, n - 1, 0)

----------------------------------------------------------------------------
(* Registers and constants *)

luaK_reserveregs(f, n) ==
    LET new == f.freereg + n
    IN  [f EXCEPT !.freereg = new,
                  !.maxstack = IF new > @ THEN new ELSE @,
                  !.err = IF new > f.maxstack /\ new >= MAXSTACK
                          THEN "function or expression too complex" ELSE @]

freereg(f, reg) ==
    IF ~ISK(reg) /\ reg >= f.nactvar
    THEN [lua_assert(f, reg = f.freereg - 1) EXCEPT !.freereg = @ - 1]
    ELSE f

freeexp(f, e) == IF e.k = "VNONRELOC" THEN freereg(f, e.info) ELSE f

(* addk: the index of constant v, and f with v among its constants. *)
kindex(f, v) ==
    IF Contains(f.k, v) THEN (CHOOSE i \in DOMAIN f.k : f.k[i] = v) - 1 ELSE Len(f.k)

addk(f, v) == IF Contains(f.k, v) THEN f ELSE [f EXCEPT !.k = Append(@, v)]

----------------------------------------------------------------------------
(* Expressions *)

init_exp(k, i) == [k |-> k, info |-> i, tab |-> 0, idx |-> 0, vt |-> "VVOID",
                   t |-> NO_JUMP, f |-> NO_JUMP]
hasjumps(e) == e.t # e.f
isnumeral(e) == e.k = "VKNUM" /\ e.t = NO_JUMP /\ e.f = NO_JUMP
X(f, e) == [f |-> f, e |-> e]
as(x, k, i) == [x EXCEPT !.e.k = k, !.e.info = i]
(* Emits an instruction whose result register is still open. *)
relocable(x, op, b, c) ==
    as(X(luaK_code(x.f, op, 0, b, c), x.e), "VRELOCABLE", Pc(x.f))

(* The constant an expression of kind VK, VKNUM, VNIL, VTRUE or VFALSE is. *)
constant(x) ==
    CASE x.e.k = "VNIL"   -> Nil
      [] x.e.k = "VTRUE"  -> Bool(TRUE)
      [] x.e.k = "VFALSE" -> Bool(FALSE)
      [] x.e.k = "VKNUM"  -> Num(x.e.info)
      [] x.e.k = "VK"     -> x.f.k[x.e.info + 1]

luaK_setreturns(x, nresults) ==
    CASE x.e.k = "VCALL"   -> [x EXCEPT !.f.code[x.e.info + 1].c = nresults + 1]
      [] x.e.k = "VVARARG" ->
            [x EXCEPT !.f = luaK_reserveregs(
                [@ EXCEPT !.code[x.e.info + 1].b = nresults + 1,
                          !.code[x.e.info + 1].a = x.f.freereg], 1)]
      [] OTHER -> x

luaK_setoneret(x) ==
    CASE x.e.k = "VCALL"   -> as(x, "VNONRELOC", getcode(x).a)
      [] x.e.k = "VVARARG" ->
            as([x EXCEPT !.f.code[x.e.info + 1].b = 2], "VRELOCABLE", x.e.info)
      [] OTHER -> x

luaK_dischargevars(x) ==
    CASE x.e.k = "VLOCAL" -> as(x, "VNONRELOC", x.e.info)
      [] x.e.k = "VUPVAL" -> relocable(x, "GETUPVAL", x.e.info, 0)
      [] x.e.k = "VINDEXED" ->
            LET g == freereg(x.f, x.e.idx)
            IN  IF x.e.vt = "VLOCAL"
                THEN relocable([x EXCEPT !.f = freereg(g, x.e.tab)],
                               "GETTABLE", x.e.tab, x.e.idx)
                ELSE relocable([x EXCEPT !.f = g], "GETTABUP", x.e.tab, x.e.idx)
      [] OTHER -> luaK_setoneret(x)

discharge2reg(x0, reg) ==
    LET x == luaK_dischargevars(x0)
        g == CASE x.e.k = "VNIL" -> luaK_nil(x.f, reg, 1)
               [] x.e.k \in {"VTRUE", "VFALSE"} ->
                    luaK_code(x.f, "LOADBOOL", reg, IF x.e.k = "VTRUE" THEN 1 ELSE 0, 0)
               [] x.e.k = "VK" -> luaK_code(x.f, "LOADK", reg, x.e.info, 0)
               [] x.e.k = "VKNUM" ->
                    luaK_code(addk(x.f, constant(x)), "LOADK", reg, kindex(x.f, constant(x)), 0)
               [] x.e.k = "VRELOCABLE" -> [x.f EXCEPT !.code[x.e.info + 1].a = reg]
               [] x.e.k = "VNONRELOC" ->
                    IF reg = x.e.info THEN x.f
                    ELSE luaK_code(x.f, "MOVE", reg, x.e.info, 0)
               [] OTHER -> x.f
    IN  IF x.e.k \in {"VVOID", "VJMP"} THEN X(g, x.e)
        ELSE as(X(g, x.e), "VNONRELOC", reg)

discharge2anyreg(x) ==
    IF x.e.k = "VNONRELOC" THEN x
    ELSE discharge2reg([x EXCEPT !.f = luaK_reserveregs(@, 1)], x.f.freereg)

code_label(f, a, b, jump) == luaK_code(luaK_getlabel(f), "LOADBOOL", a, b, jump)

exp2reg(x0, reg) ==
    LET d    == discharge2reg(x0, reg)
        isj  == d.e.k = "VJMP"
        x    == IF isj THEN X(luaK_concat(d.f, d.e.t, d.e.info),
                              [d.e EXCEPT !.t = joined(@, d.e.info)])
                ELSE d
        need == need_value(x.f, x.e.t) \/ need_value(x.f, x.e.f)
        fj   == IF isj THEN NO_JUMP ELSE Pc(x.f)
        g1   == IF isj THEN x.f ELSE luaK_jump(x.f)
        g2   == code_label(code_label(g1, reg, 0, 1), reg, 1, 0)
        g    == luaK_getlabel(IF need THEN luaK_patchtohere(g2, fj) ELSE x.f)
        p_f  == IF need THEN Pc(g1) ELSE NO_JUMP
        p_t  == IF need THEN Pc(g1) + 1 ELSE NO_JUMP
        h    == patchlistaux(patchlistaux(g, x.e.f, Pc(g), reg, p_f),
                             x.e.t, Pc(g), reg, p_t)
    IN  X(IF hasjumps(x.e) THEN h ELSE x.f, init_exp("VNONRELOC", reg))

luaK_exp2nextreg(x0) ==
    LET x == luaK_dischargevars(x0)
        g == luaK_reserveregs(freeexp(x.f, x.e), 1)
    IN  exp2reg(X(g, x.e), g.freereg - 1)

luaK_exp2anyreg(x0) ==
    LET x == luaK_dischargevars(x0)
    IN  CASE x.e.k = "VNONRELOC" /\ ~hasjumps(x.e) -> x
          [] /\ x.e.k = "VNONRELOC" /\ hasjumps(x.e)
             /\ x.e.info >= x.f.nactvar -> exp2reg(x, x.e.info)
          [] OTHER -> luaK_exp2nextreg(x)

luaK_exp2anyregup(x) ==
    IF x.e.k # "VUPVAL" \/ hasjumps(x.e) THEN luaK_exp2anyreg(x) ELSE x

luaK_exp2val(x) ==
    IF hasjumps(x.e) THEN luaK_exp2anyreg(x) ELSE luaK_dischargevars(x)

(* luaK_exp2RK leaves x.e a constant in range or a register: RK(x.e) names it. *)
RK(e) == IF e.k = "VK" THEN RKASK(e.info) ELSE e.info

luaK_exp2RK(x0) ==
    LET x  == luaK_exp2val(x0)
        i  == kindex(x.f, constant(x))
        xk == as([x EXCEPT !.f = addk(@, constant(x))], "VK", i)
    IN  CASE x.e.k \in {"VTRUE", "VFALSE", "VNIL"} /\ Len(x.f.k) <= MAXINDEXRK -> xk
          [] x.e.k = "VKNUM" -> IF i <= MAXINDEXRK THEN xk ELSE luaK_exp2anyreg(xk)
          [] x.e.k = "VK" /\ x.e.info <= MAXINDEXRK -> x
          [] OTHER -> luaK_exp2anyreg(x)

(* Stores x.e into variable var. *)
luaK_storevar(x, var) ==
    CASE var.k = "VLOCAL" -> exp2reg([x EXCEPT !.f = freeexp(@, x.e)], var.info).f
      [] var.k = "VUPVAL" ->
            LET y == luaK_exp2anyreg(x)
            IN  freeexp(luaK_code(y.f, "SETUPVAL", y.e.info, var.info, 0), y.e)
      [] var.k = "VINDEXED" ->
            LET y == luaK_exp2RK(x)
            IN  freeexp(luaK_code(y.f, IF var.vt = "VLOCAL" THEN "SETTABLE" ELSE "SETTABUP",
                                  var.tab, var.idx, RK(y.e)), y.e)

luaK_self(x0, key) ==
    LET x    == luaK_exp2anyreg(x0)
        g    == freeexp(x.f, x.e)
        base == g.freereg
        kx   == luaK_exp2RK(X(luaK_reserveregs(g, 2), key))
    IN  X(freeexp(luaK_code(kx.f, "SELF", base, x.e.info, RK(kx.e)), kx.e),
          [x.e EXCEPT !.k = "VNONRELOC", !.info = base])

luaK_indexed(x, key) ==
    LET kx == luaK_exp2RK(X(lua_assert(x.f, ~hasjumps(x.e)), key))
    IN  X(kx.f, [x.e EXCEPT !.k = "VINDEXED", !.tab = x.e.info, !.idx = RK(kx.e),
                            !.vt = IF x.e.k = "VUPVAL" THEN "VUPVAL" ELSE "VLOCAL"])

----------------------------------------------------------------------------
(* Conditions and operators *)

invertjump(x) ==
    LET at == getjumpcontrol(x.f, x.e.info) + 1
        op == x.f.code[at].op
    IN  [x EXCEPT !.f = [lua_assert(@, op \in {"EQ", "LT", "LE"})
                            EXCEPT !.code[at].a = 1 - @]]

(* jumponcond: a jump taken when x.e is cond; the last instruction is the jump. *)
jumponcond(x, cond) ==
    IF x.e.k = "VRELOCABLE" /\ getcode(x).op = "NOT"
    THEN condjump([x.f EXCEPT !.code = Front(@)], "TEST", getcode(x).b, 0, 1 - cond)
    ELSE LET y == discharge2anyreg(x)
         IN  condjump(freeexp(y.f, y.e), "TESTSET", NO_REG, y.e.info, cond)

luaK_goiftrue(x0) ==
    LET x  == luaK_dischargevars(x0)
        g  == CASE x.e.k = "VJMP" -> invertjump(x).f
                [] x.e.k \in {"VK", "VKNUM", "VTRUE"} -> x.f
                [] OTHER -> jumponcond(x, 0)
        pc == CASE x.e.k = "VJMP" -> x.e.info
                [] x.e.k \in {"VK", "VKNUM", "VTRUE"} -> NO_JUMP
                [] OTHER -> Pc(g) - 1
    IN  X(luaK_patchtohere(luaK_concat(g, x.e.f, pc), x.e.t),
          [x.e EXCEPT !.f = joined(@, pc), !.t = NO_JUMP])

luaK_goiffalse(x0) ==
    LET x  == luaK_dischargevars(x0)
        g  == IF x.e.k \in {"VJMP", "VNIL", "VFALSE"} THEN x.f ELSE jumponcond(x, 1)
        pc == CASE x.e.k = "VJMP" -> x.e.info
                [] x.e.k \in {"VNIL", "VFALSE"} -> NO_JUMP
                [] OTHER -> Pc(g) - 1
    IN  X(luaK_patchtohere(luaK_concat(g, x.e.t, pc), x.e.f),
          [x.e EXCEPT !.t = joined(@, pc), !.f = NO_JUMP])

(* Faulty variant: a not keeps the values that jumps out of its operand carry. *)
codenot_KeepsValues(x0) ==
    LET x == luaK_dischargevars(x0)
        y == discharge2anyreg(x)
        z == CASE x.e.k \in {"VNIL", "VFALSE"} -> [x EXCEPT !.e.k = "VTRUE"]
               [] x.e.k \in {"VK", "VKNUM", "VTRUE"} -> [x EXCEPT !.e.k = "VFALSE"]
               [] x.e.k = "VJMP" -> invertjump(x)
               [] OTHER -> relocable([y EXCEPT !.f = freeexp(@, y.e)], "NOT", y.e.info, 0)
    IN  [z EXCEPT !.e.t = z.e.f, !.e.f = z.e.t]

codenot(x0) ==
    LET x == luaK_dischargevars(x0)
        y == discharge2anyreg(x)
        z == CASE x.e.k \in {"VNIL", "VFALSE"} -> [x EXCEPT !.e.k = "VTRUE"]
               [] x.e.k \in {"VK", "VKNUM", "VTRUE"} -> [x EXCEPT !.e.k = "VFALSE"]
               [] x.e.k = "VJMP" -> invertjump(x)
               [] OTHER -> relocable([y EXCEPT !.f = freeexp(@, y.e)], "NOT", y.e.info, 0)
    IN  X(removevalues(removevalues(z.f, z.e.t), z.e.f),
          [z.e EXCEPT !.t = z.e.f, !.f = z.e.t])

constfolding(op, e1, e2) ==
    isnumeral(e1) /\ isnumeral(e2) /\ ~(op \in {"DIV", "MOD"} /\ e2.info = 0)

(* Faulty variant: the operands are freed in the order of the source. *)
freeexps_InOrder(f, e1, e2, o1, o2) == freeexp(freeexp(f, e1), e2)

(* Frees the registers of the operands of an operator, the higher one first. *)
freeexps(f, e1, e2, o1, o2) ==
    IF o1 > o2 THEN freeexp(freeexp(f, e1), e2) ELSE freeexp(freeexp(f, e2), e1)

codearith(f, op, e1, e2) ==
    LET unary == op \in {"UNM", "LEN"}
        x2    == IF unary THEN X(f, e2) ELSE luaK_exp2RK(X(f, e2))
        o2    == IF unary THEN 0 ELSE RK(x2.e)
        x1    == luaK_exp2RK(X(x2.f, e1))
        g     == freeexps(x1.f, x1.e, x2.e, RK(x1.e), o2)
    IN  IF constfolding(op, e1, e2)
        THEN X(f, [e1 EXCEPT !.info = ArithNum(op, e1.info, e2.info)])
        ELSE relocable(X(g, x1.e), op, RK(x1.e), o2)

codecomp(f, op, cond, e1, e2) ==
    LET x1   == luaK_exp2RK(X(f, e1))
        x2   == luaK_exp2RK(X(x1.f, e2))
        g    == freeexp(freeexp(x2.f, x2.e), x1.e)
        swap == cond = 0 /\ op # "EQ"
        h    == condjump(g, op, IF swap THEN 1 ELSE cond,
                         IF swap THEN RK(x2.e) ELSE RK(x1.e),
                         IF swap THEN RK(x1.e) ELSE RK(x2.e))
    IN  as(X(h, x1.e), "VJMP", Pc(h) - 1)

luaK_prefix(x, op) ==
    LET e2 == init_exp("VKNUM", 0)
        y  == luaK_exp2anyreg(x)
    IN  CASE op = "not" -> codenot(x)
          [] op = "-" /\ isnumeral(x.e) -> [x EXCEPT !.e.info = -@]
          [] op = "-" /\ ~isnumeral(x.e) -> codearith(y.f, "UNM", y.e, e2)
          [] op = "#" -> codearith(y.f, "LEN", y.e, e2)

arithop == [o \in {"+", "-", "*", "%", "^"} |->
               CASE o = "+" -> "ADD" [] o = "-" -> "SUB" [] o = "*" -> "MUL"
                 [] o = "%" -> "MOD" [] o = "^" -> "POW"]
compop == [o \in {"==", "<", "<=", "~=", ">", ">="} |->
               CASE o \in {"==", "~="} -> "EQ" [] o \in {"<", ">"} -> "LT"
                 [] o \in {"<=", ">="} -> "LE"]

luaK_infix(x, op) ==
    CASE op = "and" -> luaK_goiftrue(x)
      [] op = "or"  -> luaK_goiffalse(x)
      [] op = ".."  -> luaK_exp2nextreg(x)
      [] op \in DOMAIN arithop -> IF isnumeral(x.e) THEN x ELSE luaK_exp2RK(x)
      [] op \in DOMAIN compop -> luaK_exp2RK(x)

(* The operands are e1 and x2.e; x2.f is the function after both. *)
luaK_posfix(op, e1, x2) ==
    CASE op = "and" ->
            LET y == luaK_dischargevars([x2 EXCEPT !.f = lua_assert(@, e1.t = NO_JUMP)])
            IN  X(luaK_concat(y.f, y.e.f, e1.f), [y.e EXCEPT !.f = joined(@, e1.f)])
      [] op = "or" ->
            LET y == luaK_dischargevars([x2 EXCEPT !.f = lua_assert(@, e1.f = NO_JUMP)])
            IN  X(luaK_concat(y.f, y.e.t, e1.t), [y.e EXCEPT !.t = joined(@, e1.t)])
      [] op = ".." ->
            LET y == luaK_exp2val(x2)
                n == luaK_exp2nextreg(y)
            IN  IF y.e.k = "VRELOCABLE" /\ getcode(y).op = "CONCAT"
                THEN as(X([freeexp(lua_assert(y.f, e1.info = getcode(y).b - 1), e1)
                              EXCEPT !.code[y.e.info + 1].b = e1.info], e1),
                        "VRELOCABLE", y.e.info)
                ELSE codearith(n.f, "CONCAT", e1, n.e)
      [] op \in DOMAIN arithop -> codearith(x2.f, arithop[op], e1, x2.e)
      [] op \in DOMAIN compop ->
            codecomp(x2.f, compop[op], IF op \in {"==", "<", "<="} THEN 1 ELSE 0, e1, x2.e)

luaK_setlist(f, base, nelems, tostore) ==
    [luaK_code(f, "SETLIST", base, IF tostore = -1 THEN 0 ELSE tostore,
               (nelems - 1) \div LFIELDS_PER_FLUSH + 1)
        EXCEPT !.freereg = base + 1]
=============================================================================
