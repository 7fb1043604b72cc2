------------------------------ MODULE Parser -------------------------------
(***************************************************************************)
(* The Lua parser, lparser.c, over a syntax tree in place of the tokens:   *)
(* an expression is the sequence of its operators and simple expressions,  *)
(* a statement a tuple that starts with its keyword (module Source lists   *)
(* the forms).  The parser makes one pass and generates code as it goes.   *)
(* Its state s (LexState with Dyndata) is                                  *)
(*   fs   the functions being compiled, the innermost last                 *)
(*   gt   the pending gotos, [name, nactvar, pc]                           *)
(*   lb   the active labels, [name, nactvar, pc]                           *)
(* and to a function of CodeGen it adds its blocks bl, its local variables *)
(* locvars with the scope of each, the ones in scope or declared (actvar,  *)
(* indexes into locvars), its upvalues, its nested functions p and the     *)
(* first error.                                                            *)
(***************************************************************************)
EXTENDS CodeGen

CONSTANTS MAXVARS, MAXUPVAL

Cur(s) == Last(s.fs)
Put(s, f) == [s EXCEPT !.fs[Len(s.fs)] = f]
Y(s, e) == [s |-> s, e |-> e]
(* Applies an operator of CodeGen to an expression of the current function. *)
Gen(y, Op(_)) ==
    LET x == Op(X(Cur(y.s), y.e)) IN Y(Put(y.s, x.f), x.e)
On(s, Op(_)) == Put(s, Op(Cur(s)))

failf(f, msg) == [f EXCEPT !.err = IF @ = "" THEN msg ELSE @]
semerror(s, msg) == On(s, LAMBDA f : failf(f, msg))
checklimit(f, v, l, what) == IF v > l THEN failf(f, what) ELSE f

hasmultret(k) == k \in {"VCALL", "VVARARG"}
vkisvar(k) == k \in {"VLOCAL", "VUPVAL", "VINDEXED"}
luaK_setmultret(x) == luaK_setreturns(x, -1)

----------------------------------------------------------------------------
(* Local variables and upvalues *)

new_localvar(s, name) ==
    On(s, LAMBDA f :
        [checklimit(f, Len(f.actvar) + 1, MAXVARS, "local variables") EXCEPT
            !.locvars = Append(@, [name |-> name, startpc |-> 0, endpc |-> 0]),
            !.actvar = Append(@, Len(f.locvars) + 1)])

new_localvars(s, names) == FoldLeft(new_localvar, s, names)

adjustlocalvars(s, nvars) ==
    On(s, LAMBDA f :
        [f EXCEPT !.nactvar = @ + nvars,
                  !.locvars = [i \in DOMAIN @ |->
                      IF \E j \in f.nactvar + 1 .. f.nactvar + nvars : f.actvar[j] = i
                      THEN [@[i] EXCEPT !.startpc = Pc(f)] ELSE @[i]]])

removevars(f, tolevel) ==
    [f EXCEPT !.nactvar = tolevel,
              !.actvar = SubSeq(@, 1, Len(@) - (f.nactvar - tolevel)),
              !.locvars = [i \in DOMAIN @ |->
                  IF \E j \in tolevel + 1 .. f.nactvar : f.actvar[j] = i
                  THEN [@[i] EXCEPT !.endpc = Pc(f)] ELSE @[i]]]

named(f, n) == {i \in 1 .. f.nactvar : f.locvars[f.actvar[i]].name = n}
searchvar(f, n) == IF named(f, n) = {} THEN -1 ELSE Max(named(f, n)) - 1

searchupvalue(f, n) ==
    LET found == {i \in DOMAIN f.upvalues : f.upvalues[i].name = n}
    IN  IF found = {} THEN -1 ELSE Min(found) - 1

newupvalue(f, n, var) ==
    [checklimit(f, Len(f.upvalues) + 1, MAXUPVAL, "upvalues") EXCEPT
        !.upvalues = Append(@, [name |-> n, instack |-> var.k = "VLOCAL", idx |-> var.info])]

markupval(f, level) ==
    [f EXCEPT !.bl[Max({i \in DOMAIN f.bl : f.bl[i].nactvar <= level})].upval = TRUE]

(* Finds variable n from the function at level i of fs outwards; an upvalue  *)
(* is added to every function between.                                       *)
RECURSIVE singlevaraux(_, _, _, _)
singlevaraux(fs, n, i, base) ==
    IF i = 0 THEN [fs |-> fs, e |-> init_exp("VVOID", 0)]
    ELSE
      LET f   == fs[i]
          v   == searchvar(f, n)
          idx == searchupvalue(f, n)
          up  == singlevaraux(fs, n, i - 1, FALSE)
      IN  CASE v >= 0 -> [fs |-> IF base THEN fs ELSE [fs EXCEPT ![i] = markupval(f, v)],
                          e |-> init_exp("VLOCAL", v)]
            [] v < 0 /\ idx >= 0 -> [fs |-> fs, e |-> init_exp("VUPVAL", idx)]
            [] v < 0 /\ idx < 0 /\ up.e.k = "VVOID" -> up
            [] OTHER -> [fs |-> [up.fs EXCEPT ![i] = newupvalue(f, n, up.e)],
                         e |-> init_exp("VUPVAL", Len(f.upvalues))]

stringK(s, str) == Y(On(s, LAMBDA f : addk(f, <<"str", str>>)),
                     init_exp("VK", kindex(Cur(s), <<"str", str>>)))

indexed(y, ky) == LET x == luaK_indexed(X(Cur(ky.s), y.e), ky.e) IN Y(Put(ky.s, x.f), x.e)

singlevar(s, n) ==
    LET v   == singlevaraux(s.fs, n, Len(s.fs), TRUE)
        env == singlevaraux(v.fs, "_ENV", Len(s.fs), TRUE)
    IN  IF v.e.k # "VVOID" THEN Y([s EXCEPT !.fs = v.fs], v.e)
        ELSE indexed(Y(s, env.e), stringK([s EXCEPT !.fs = env.fs], n))

adjust_assign(y, nvars, nexps) ==
    LET extra == nvars - nexps
        multi == IF extra + 1 < 0 THEN 0 ELSE extra + 1
        open  == Gen(y, LAMBDA x : luaK_setreturns(x, multi)).s
        close == IF y.e.k = "VVOID" THEN y.s ELSE Gen(y, luaK_exp2nextreg).s
    IN  CASE hasmultret(y.e.k) ->
                IF multi > 1 THEN On(open, LAMBDA f : luaK_reserveregs(f, multi - 1)) ELSE open
          [] ~hasmultret(y.e.k) /\ extra > 0 ->
                On(close, LAMBDA f : luaK_nil(luaK_reserveregs(f, extra), f.freereg, extra))
          [] OTHER -> close

----------------------------------------------------------------------------
(* Blocks, labels and gotos *)

newlabelentry(s, name, pc) == [name |-> name, nactvar |-> Cur(s).nactvar, pc |-> pc]

(* Faulty variant: a goto may enter the scope of a local. *)
closegoto_AnyScope(s, g, label) ==
    [On(s, LAMBDA f : luaK_patchlist(f, s.gt[g].pc, label.pc)) EXCEPT !.gt = RemoveAt(@, g)]

closegoto(s, g, label) ==
    LET gt == s.gt[g]
        s1 == IF gt.nactvar < label.nactvar
              THEN semerror(s, "jumps into the scope of local") ELSE s
    IN  [On(s1, LAMBDA f : luaK_patchlist(f, gt.pc, label.pc)) EXCEPT !.gt = RemoveAt(@, g)]

(* findlabel closes goto g when the current block has its label. *)
findlabel(s, g) ==
    LET bl   == Last(Cur(s).bl)
        gt   == s.gt[g]
        lbs  == {i \in bl.firstlabel + 1 .. Len(s.lb) : s.lb[i].name = gt.name}
        lb   == s.lb[Min(lbs)]
        leaves == gt.nactvar > lb.nactvar /\ (bl.upval \/ Len(s.lb) > bl.firstlabel)
    IN  IF lbs = {} THEN s
        ELSE closegoto(IF leaves THEN On(s, LAMBDA f : luaK_patchclose(f, gt.pc, lb.nactvar))
                       ELSE s, g, lb)

RECURSIVE findgotosfrom(_, _, _)
findgotosfrom(s, label, i) ==
    CASE i > Len(s.gt) -> s
      [] i <= Len(s.gt) /\ s.gt[i].name = label.name ->
            findgotosfrom(closegoto(s, i, label), label, i)
      [] OTHER -> findgotosfrom(s, label, i + 1)

findgotos(s, label) == findgotosfrom(s, label, Last(Cur(s).bl).firstgoto + 1)

RECURSIVE movegotosout(_, _, _)
movegotosout(s, bl, i) ==
    IF i > Len(s.gt) THEN s
    ELSE
      LET gt == s.gt[i]
          s1 == IF gt.nactvar > bl.nactvar
                THEN [IF bl.upval THEN On(s, LAMBDA f : luaK_patchclose(f, gt.pc, bl.nactvar))
                      ELSE s EXCEPT !.gt[i].nactvar = bl.nactvar]
                ELSE s
          s2 == findlabel(s1, i)
      IN  movegotosout(s2, bl, IF Len(s2.gt) < Len(s1.gt) THEN i ELSE i + 1)

enterblock(s, isloop) ==
    On(s, LAMBDA f :
        [lua_assert(f, f.freereg = f.nactvar) EXCEPT
            !.bl = Append(@, [isloop |-> isloop, nactvar |-> f.nactvar, upval |-> FALSE,
                              firstlabel |-> Len(s.lb), firstgoto |-> Len(s.gt)])])

breaklabel(s) ==
    LET l == newlabelentry(s, "break", Pc(Cur(s)))
    IN  findgotos([s EXCEPT !.lb = Append(@, l)], l)

leaveblock(s) ==
    LET bl    == Last(Cur(s).bl)
        inner == Len(Cur(s).bl) > 1
        s1 == IF inner /\ bl.upval
              THEN On(s, LAMBDA f : LET j == Pc(f)
                                    IN  luaK_patchtohere(luaK_patchclose(luaK_jump(f), j, bl.nactvar), j))
              ELSE s
        s2 == IF bl.isloop THEN breaklabel(s1) ELSE s1
        s3 == [On(s2, LAMBDA f : [removevars([f EXCEPT !.bl = Front(@)], bl.nactvar)
                                    EXCEPT !.freereg = bl.nactvar])
                EXCEPT !.lb = SubSeq(@, 1, bl.firstlabel)]
    IN  CASE inner -> movegotosout(s3, bl, bl.firstgoto + 1)
          [] ~inner /\ bl.firstgoto < Len(s3.gt) -> semerror(s3, "no visible label for goto")
          [] OTHER -> s3

open_func(s) ==
    enterblock([s EXCEPT !.fs = Append(@,
        [code |-> <<>>, jpc |-> NO_JUMP, lasttarget |-> 0, freereg |-> 0, maxstack |-> 2,
         nactvar |-> 0, actvar |-> <<>>, locvars |-> <<>>, k |-> <<>>, p |-> <<>>,
         upvalues |-> <<>>, bl |-> <<>>, numparams |-> 0, is_vararg |-> FALSE,
         ok |-> TRUE, err |-> ""])], FALSE)

close_func(s) == leaveblock(On(s, LAMBDA f : luaK_ret(f, 0, 0)))

(* codeclosure: child becomes a nested function of the current one. *)
codeclosure(s, child) ==
    Gen(Y(On(s, LAMBDA f :
            luaK_code([failf(lua_assert(f, child.ok), child.err) EXCEPT !.p = Append(@, child)],
                      "CLOSURE", 0, Len(f.p), 0)),
          init_exp("VRELOCABLE", Pc(Cur(s)))), luaK_exp2nextreg)

----------------------------------------------------------------------------
(* Expressions *)

priority == [o \in {"+", "-", "*", "%", "^", "..", "==", "<", "<=", "~=", ">", ">=",
                    "and", "or"} |->
    CASE o \in {"+", "-"} -> <<6, 6>> [] o \in {"*", "%"} -> <<7, 7>>
      [] o = "^" -> <<10, 9>> [] o = ".." -> <<5, 4>>
      [] o \in DOMAIN compop -> <<3, 3>> [] o = "and" -> <<2, 2>> [] o = "or" -> <<1, 1>>]
UNARY_PRIORITY == 8
unop == {"not", "-", "#"}

RECURSIVE subexpr(_, _, _), binaries(_, _, _, _), simpleexp(_, _), primaryexp(_, _, _),
          constructor(_, _, _, _), explist(_, _), body(_, _, _), statlist(_, _, _),
          statement(_, _, _), ifclauses(_, _, _, _), lhslist(_, _, _)

expr(s, toks) == LET r == subexpr(s, toks, 0) IN Y(r.s, r.e)

(* subexpr reads the longest expression whose operators bind tighter than limit. *)
subexpr(s, toks, limit) ==
    LET op == Head(toks)[1]
        r  == subexpr(s, Tail(toks), UNARY_PRIORITY)
        u  == Gen(r, LAMBDA x : luaK_prefix(x, op))
        y  == simpleexp(s, Head(toks))
    IN  IF op \in unop THEN binaries(u.s, u.e, r.rest, limit)
        ELSE binaries(y.s, y.e, Tail(toks), limit)

binaries(s, e, toks, limit) ==
    IF toks = <<>> \/ priority[toks[1][1]][1] <= limit
    THEN [s |-> s, e |-> e, rest |-> toks]
    ELSE
      LET op == toks[1][1]
          y  == Gen(Y(s, e), LAMBDA x : luaK_infix(x, op))
          r  == subexpr(y.s, Tail(toks), priority[op][2])
          z  == Gen(r, LAMBDA x2 : luaK_posfix(op, y.e, x2))
      IN  binaries(z.s, z.e, r.rest, limit)

prefixexp(s, t) ==
    CASE t[1] = "name"  -> singlevar(s, t[2])
      [] t[1] = "paren" -> Gen(expr(s, t[2]), luaK_dischargevars)

simpleexp(s, t) ==
    CASE t[1] = "num"   -> Y(s, init_exp("VKNUM", t[2]))
      [] t[1] = "str"   -> stringK(s, t[2])
      [] t[1] = "nil"   -> Y(s, init_exp("VNIL", 0))
      [] t[1] = "true"  -> Y(s, init_exp("VTRUE", 0))
      [] t[1] = "false" -> Y(s, init_exp("VFALSE", 0))
      [] t[1] = "..."   ->
            Y(On(s, LAMBDA f : luaK_code(IF f.is_vararg THEN f
                                         ELSE failf(f, "cannot use ... outside a vararg function"),
                                         "VARARG", 0, 1, 0)),
              init_exp("VVARARG", Pc(Cur(s))))
      [] t[1] = "table" ->
            LET tab == Gen(Y(On(s, LAMBDA f : luaK_code(f, "NEWTABLE", 0, 0, 0)),
                             init_exp("VRELOCABLE", Pc(Cur(s)))), luaK_exp2nextreg)
            IN  Y(constructor(Y(tab.s, init_exp("VVOID", 0)), t[2], tab.e.info,
                              [na |-> 0, nh |-> 0, tostore |-> 0, pc |-> Pc(Cur(s))]), tab.e)
      [] t[1] = "function" -> body(s, t, FALSE)
      [] OTHER -> LET v == prefixexp(s, t) IN primaryexp(v.s, v.e, t[3])

(* funcargs: the call of the function in register v.e.info. *)
funcargs(v, args) ==
    LET a    == IF args = <<>> THEN Y(v.s, init_exp("VVOID", 0)) ELSE explist(v.s, args)
        open == hasmultret(a.e.k)
        z    == CASE open -> Gen(a, luaK_setmultret).s
                  [] ~open /\ a.e.k # "VVOID" -> Gen(a, luaK_exp2nextreg).s
                  [] OTHER -> a.s
        base == v.e.info
        n    == IF open THEN 0 ELSE Cur(z).freereg - base
    IN  Y(On(z, LAMBDA f : [luaK_code(lua_assert(f, v.e.k = "VNONRELOC"), "CALL", base, n, 2)
                                EXCEPT !.freereg = base + 1]),
          init_exp("VCALL", Pc(Cur(z))))

(* The suffixes of a primary expression: .name, [exp], :name(args), (args). *)
primaryexp(s, e, suffixes) ==
    IF suffixes = <<>> THEN Y(s, e)
    ELSE
      LET sf  == Head(suffixes)
          up  == Gen(Y(s, e), luaK_exp2anyregup)
          key == Gen(expr(up.s, sf[2]), luaK_exp2val)
          fn  == Gen(Y(s, e), luaK_exp2nextreg)
          nm  == stringK(s, sf[2])
          v   == CASE sf[1] = "." -> indexed(up, stringK(up.s, sf[2]))
                   [] sf[1] = "[" -> indexed(up, key)
                   [] sf[1] = "(" -> funcargs(fn, sf[2])
                   [] sf[1] = ":" ->
                        funcargs(Gen(Y(nm.s, e), LAMBDA x : luaK_self(x, nm.e)), sf[3])
      IN  primaryexp(v.s, v.e, Tail(suffixes))

(* The fields of a constructor: <<"item", exp>> or <<"field", key exp, exp>>. *)
(* v is the last item read (cc.v), reg the table's register.                 *)
constructor(v, fields, reg, cc) ==
    LET next  == Gen(v, luaK_exp2nextreg).s
        full  == cc.tostore = LFIELDS_PER_FLUSH
        s1    == CASE v.e.k = "VVOID" -> v.s
                   [] v.e.k # "VVOID" /\ full ->
                        On(next, LAMBDA f : luaK_setlist(f, reg, cc.na, cc.tostore))
                   [] OTHER -> next
        cc1   == IF v.e.k # "VVOID" /\ full THEN [cc EXCEPT !.tostore = 0] ELSE cc
        fd    == Head(fields)
        key   == Gen(Gen(expr(s1, fd[2]), luaK_exp2val), luaK_exp2RK)
        val   == Gen(expr(key.s, fd[3]), luaK_exp2RK)
        set   == On(val.s, LAMBDA f : [luaK_code(f, "SETTABLE", reg, RK(key.e), RK(val.e))
                                        EXCEPT !.freereg = Cur(s1).freereg])
        open  == hasmultret(v.e.k)
        last  == CASE cc.tostore = 0 -> v.s
                   [] cc.tostore > 0 /\ open ->
                        On(Gen(v, luaK_setmultret).s, LAMBDA f : luaK_setlist(f, reg, cc.na, -1))
                   [] OTHER ->
                        On(IF v.e.k = "VVOID" THEN v.s ELSE next,
                           LAMBDA f : luaK_setlist(f, reg, cc.na, cc.tostore))
    IN  CASE fields = <<>> ->
                On(last, LAMBDA f :
                    [f EXCEPT !.code[cc.pc + 1].b = IF cc.tostore > 0 /\ open THEN cc.na - 1 ELSE cc.na,
                              !.code[cc.pc + 1].c = cc.nh])
          [] fields # <<>> /\ fd[1] = "item" ->
                constructor(expr(s1, fd[2]), Tail(fields), reg,
                            [cc1 EXCEPT !.na = @ + 1, !.tostore = @ + 1])
          [] OTHER ->
                constructor(Y(set, init_exp("VVOID", 0)), Tail(fields), reg,
                            [cc1 EXCEPT !.nh = @ + 1])

explist(s, exps) ==
    LET v == expr(s, Head(exps))
    IN  IF Len(exps) = 1 THEN v ELSE explist(Gen(v, luaK_exp2nextreg).s, Tail(exps))

(* <<"function", params, is_vararg, block>> *)
body(s, t, ismethod) ==
    LET s1 == open_func(s)
        s2 == IF ismethod THEN adjustlocalvars(new_localvar(s1, "self"), 1) ELSE s1
        s3 == adjustlocalvars(new_localvars(s2, t[2]), Len(t[2]))
        s4 == On(s3, LAMBDA f : luaK_reserveregs(
                  [f EXCEPT !.is_vararg = t[3], !.numparams = f.nactvar], f.nactvar))
        s5 == close_func(statlist(s4, t[4], FALSE))
    IN  codeclosure([s5 EXCEPT !.fs = Front(@)], Cur(s5))

----------------------------------------------------------------------------
(* Statements *)

block(s, stats) == leaveblock(statlist(enterblock(s, FALSE), stats, FALSE))

(* cond leaves in e.f the jumps taken when the condition is false. *)
cond(s, toks) ==
    LET v == expr(s, toks)
    IN  Gen([v EXCEPT !.e.k = IF @ = "VNIL" THEN "VFALSE" ELSE @], luaK_goiftrue)

(* check_conflict: the earlier targets lhs that use variable v get a safe copy. *)
check_conflict(f, lhs, v) ==
    LET tab(h) == h.k = "VINDEXED" /\ h.vt = v.k /\ h.tab = v.info
        idx(h) == h.k = "VINDEXED" /\ v.k = "VLOCAL" /\ h.idx = v.info
        extra  == f.freereg
    IN  [lhs |-> [i \in DOMAIN lhs |->
                    LET h == IF tab(lhs[i]) THEN [lhs[i] EXCEPT !.vt = "VLOCAL", !.tab = extra]
                             ELSE lhs[i]
                    IN  IF idx(h) THEN [h EXCEPT !.idx = extra] ELSE h],
         f   |-> IF \E i \in DOMAIN lhs : tab(lhs[i]) \/ idx(lhs[i])
                 THEN luaK_reserveregs(luaK_code(f, IF v.k = "VLOCAL" THEN "MOVE" ELSE "GETUPVAL",
                                                 extra, v.info, 0), 1)
                 ELSE f]

lhslist(s, targets, lhs) ==
    IF targets = <<>> THEN [s |-> s, lhs |-> lhs]
    ELSE
      LET v == simpleexp(s, Head(targets))
          c == IF v.e.k = "VINDEXED" \/ lhs = <<>> THEN [lhs |-> lhs, f |-> Cur(v.s)]
               ELSE check_conflict(Cur(v.s), lhs, v.e)
      IN  lhslist(Put(v.s, IF vkisvar(v.e.k) THEN c.f ELSE failf(c.f, "syntax error")),
                  Tail(targets), Append(c.lhs, v.e))

assignment(s, targets, exps) ==
    LET l     == lhslist(s, targets, <<>>)
        e     == explist(l.s, exps)
        extra == Len(exps) - Len(targets)
        one   == Gen(e, luaK_setoneret)
        s1    == IF extra = 0
                 THEN Put(one.s, luaK_storevar(X(Cur(one.s), one.e), Last(l.lhs)))
                 ELSE On(adjust_assign(e, Len(targets), Len(exps)),
                         LAMBDA f : [f EXCEPT !.freereg = IF extra > 0 THEN @ - extra ELSE @])
        rest  == IF extra = 0 THEN Front(l.lhs) ELSE l.lhs
        store(var, f) == luaK_storevar(X(f, init_exp("VNONRELOC", f.freereg - 1)), var)
    IN  On(s1, LAMBDA f : FoldRight(store, rest, f))

gotostat(s, pc, name) ==
    LET g == newlabelentry(s, name, pc)
    IN  findlabel([s EXCEPT !.gt = Append(@, g)], Len(s.gt) + 1)

gotoname(st) == IF st[1] = "break" THEN "break" ELSE st[2]

checkrepeated(s, name) ==
    IF \E i \in Last(Cur(s).bl).firstlabel + 1 .. Len(s.lb) : s.lb[i].name = name
    THEN semerror(s, "label already defined") ELSE s

whilestat(s, toks, stats) ==
    LET start == Pc(Cur(s))
        c     == cond(On(s, luaK_getlabel), toks)
        b     == block(enterblock(c.s, TRUE), stats)
        j     == Pc(Cur(b))
        loop  == On(b, LAMBDA f : luaK_patchlist(luaK_jump(f), j, start))
    IN  On(leaveblock(loop), LAMBDA f : luaK_patchtohere(f, c.e.f))

(* Faulty variant: the jump back of a repeat leaves the upvalues open. *)
repeatstat_StaysOpen(s, stats, toks) ==
    LET start == Pc(Cur(s))
        s1    == enterblock(enterblock(On(s, luaK_getlabel), TRUE), FALSE)
        c     == cond(statlist(s1, stats, TRUE), toks)
    IN  leaveblock(On(leaveblock(c.s), LAMBDA f : luaK_patchlist(f, c.e.f, start)))

repeatstat(s, stats, toks) ==
    LET start == Pc(Cur(s))
        s1    == enterblock(enterblock(On(s, luaK_getlabel), TRUE), FALSE)
        c     == cond(statlist(s1, stats, TRUE), toks)
        bl2   == Last(Cur(c.s).bl)
        s2    == IF bl2.upval THEN On(c.s, LAMBDA f : luaK_patchclose(f, c.e.f, bl2.nactvar))
                 ELSE c.s
    IN  leaveblock(On(leaveblock(s2), LAMBDA f : luaK_patchlist(f, c.e.f, start)))

forbody(s, base, nvars, isnum, stats) ==
    LET s1   == adjustlocalvars(s, 3)
        prep == Pc(Cur(s1))
        s2   == On(s1, LAMBDA f : IF isnum THEN luaK_code(f, "FORPREP", base, NO_JUMP, 0)
                                  ELSE luaK_jump(f))
        s3   == On(adjustlocalvars(enterblock(s2, FALSE), nvars),
                   LAMBDA f : luaK_reserveregs(f, nvars))
        s4   == On(leaveblock(block(s3, stats)), LAMBDA f : luaK_patchtohere(f, prep))
        s5   == On(s4, LAMBDA f :
                    IF isnum THEN luaK_code(f, "FORLOOP", base, NO_JUMP, 0)
                    ELSE luaK_code(luaK_code(f, "TFORCALL", base, 0, nvars),
                                   "TFORLOOP", base + 2, NO_JUMP, 0))
    IN  On(s5, LAMBDA f : luaK_patchlist(f, Pc(f) - 1, prep + 1))

exp1(s, toks) == Gen(expr(s, toks), luaK_exp2nextreg).s

fornum(s, var, exps, stats) ==
    LET s1 == new_localvars(s, <<"(for index)", "(for limit)", "(for step)", var>>)
        s2 == FoldLeft(exp1, s1, exps)
        s3 == IF Len(exps) = 3 THEN s2
              ELSE On(s2, LAMBDA f : luaK_reserveregs(
                        luaK_code(addk(f, Num(1)), "LOADK", f.freereg, kindex(f, Num(1)), 0), 1))
    IN  forbody(s3, Cur(s).freereg, 1, TRUE, stats)

(* Faulty variant: no registers are set aside to call the generator. *)
forlist_NoSpace(s, vars, exps, stats) ==
    LET s1 == new_localvars(s, <<"(for generator)", "(for state)", "(for control)">> \o vars)
        s2 == adjust_assign(explist(s1, exps), 3, Len(exps))
    IN  forbody(s2, Cur(s).freereg, Len(vars), FALSE, stats)

forlist(s, vars, exps, stats) ==
    LET s1 == new_localvars(s, <<"(for generator)", "(for state)", "(for control)">> \o vars)
        s2 == adjust_assign(explist(s1, exps), 3, Len(exps))
        s3 == On(s2, LAMBDA f : [luaK_reserveregs(f, 3) EXCEPT !.freereg = f.freereg])
    IN  forbody(s3, Cur(s).freereg, Len(vars), FALSE, stats)

(* forstat: the scope that break leaves holds the control variables. *)
forstat(s, st) ==
    LET s1 == enterblock(s, TRUE)
    IN  leaveblock(IF st[1] = "fornum" THEN fornum(s1, st[2], st[3], st[4])
                                       ELSE forlist(s1, st[2], st[3], st[4]))

(* One <<condition, block>> of an if; more tells that an else part follows. *)
test_then_block(s, clause, escapes, more) ==
    LET v     == expr(s, clause[1])
        stats == clause[2]
        jumps_away == stats # <<>> /\ Head(stats)[1] \in {"goto", "break"}
        gf    == Gen(v, luaK_goiffalse)
        away  == gotostat(enterblock(gf.s, FALSE), gf.e.t, gotoname(Head(stats)))
        gt    == Gen(v, luaK_goiftrue)
        s1    == IF jumps_away THEN On(away, luaK_jump) ELSE enterblock(gt.s, FALSE)
        jf    == IF jumps_away THEN Pc(Cur(away)) ELSE gt.e.f
        s2    == leaveblock(statlist(s1, IF jumps_away THEN Tail(stats) ELSE stats, FALSE))
        j     == Pc(Cur(s2))
        s3    == IF more THEN On(s2, LAMBDA f : luaK_concat(luaK_jump(f), escapes, j)) ELSE s2
    IN  IF jumps_away /\ Len(stats) = 1
        THEN [s |-> leaveblock(away), escapes |-> escapes]
        ELSE [s |-> On(s3, LAMBDA f : luaK_patchtohere(f, jf)),
              escapes |-> IF more THEN joined(escapes, j) ELSE escapes]

ifclauses(s, clauses, else, escapes) ==
    LET t    == test_then_block(s, Head(clauses), escapes, Len(clauses) > 1 \/ else # <<>>)
        last == IF else = <<>> THEN t.s ELSE block(t.s, else[1])
    IN  IF Len(clauses) > 1 THEN ifclauses(t.s, Tail(clauses), else, t.escapes)
        ELSE On(last, LAMBDA f : luaK_patchtohere(f, t.escapes))

localfunc(s, name, fn) ==
    LET b == body(adjustlocalvars(new_localvar(s, name), 1), fn, FALSE)
    IN  On(b.s, LAMBDA f : [f EXCEPT !.locvars[f.actvar[b.e.info + 1]].startpc = Pc(f)])

localstat(s, names, exps) ==
    LET s1 == new_localvars(s, names)
        e  == IF exps = <<>> THEN Y(s1, init_exp("VVOID", 0)) ELSE explist(s1, exps)
    IN  adjustlocalvars(adjust_assign(e, Len(names), Len(exps)), Len(names))

funcstat(s, target, ismethod, fn) ==
    LET v == simpleexp(s, target)
        b == body(v.s, fn, ismethod)
    IN  Put(b.s, luaK_storevar(X(Cur(b.s), b.e), v.e))

exprstat(s, call) ==
    LET v == simpleexp(s, call)
    IN  On(v.s, LAMBDA f : [f EXCEPT !.code[v.e.info + 1].c = 1])

retstat(s, exps) ==
    LET e    == explist(s, exps)
        open == hasmultret(e.e.k)
        m    == Gen(e, luaK_setmultret)
        tail == On(m.s, LAMBDA f : IF e.e.k = "VCALL" /\ Len(exps) = 1
                                   THEN [lua_assert(f, f.code[m.e.info + 1].a = f.nactvar)
                                            EXCEPT !.code[m.e.info + 1].op = "TAILCALL"]
                                   ELSE f)
        one  == Gen(e, luaK_exp2anyreg)
        all  == On(Gen(e, luaK_exp2nextreg).s,
                   LAMBDA f : lua_assert(f, Len(exps) = f.freereg - f.nactvar))
    IN  CASE exps = <<>> -> On(s, LAMBDA f : luaK_ret(f, 0, 0))
          [] exps # <<>> /\ open -> On(tail, LAMBDA f : luaK_ret(f, f.nactvar, -1))
          [] exps # <<>> /\ ~open /\ Len(exps) = 1 ->
                On(one.s, LAMBDA f : luaK_ret(f, one.e.info, 1))
          [] OTHER -> On(all, LAMBDA f : luaK_ret(f, f.nactvar, Len(exps)))

(* A label takes the labels that follow it first; at the end of a block that *)
(* no until closes, the locals count as out of scope.                        *)
labelstat(s, stats, until) ==
    LET name  == Head(stats)[2]
        l     == newlabelentry(s, name, Pc(Cur(s)))
        at    == Len(s.lb) + 1
        more  == Len(stats) > 1 /\ stats[2][1] = "label"
        s1    == [checkrepeated(s, name) EXCEPT !.lb = Append(@, l)]
        r     == IF more THEN statement(s1, Tail(stats), until) ELSE [s |-> s1, rest |-> Tail(stats)]
        l1    == IF r.rest = <<>> /\ ~until
                 THEN [l EXCEPT !.nactvar = Last(Cur(r.s).bl).nactvar] ELSE l
    IN  [s |-> findgotos([r.s EXCEPT !.lb[at] = l1], l1), rest |-> r.rest]

(* Compiles the first of stats, and tells which ones are left. *)
statement(s, stats, until) ==
    LET st == Head(stats)
        lab == labelstat(s, stats, until)
        s1 == CASE st[1] = "if"       -> ifclauses(s, st[2], st[3], NO_JUMP)
                [] st[1] = "while"    -> whilestat(s, st[2], st[3])
                [] st[1] = "do"       -> block(s, st[2])
                [] st[1] \in {"fornum", "forlist"} -> forstat(s, st)
                [] st[1] = "repeat"   -> repeatstat(s, st[2], st[3])
                [] st[1] = "function" -> funcstat(s, st[2], st[3], st[4])
                [] st[1] = "localfunc" -> localfunc(s, st[2], st[3])
                [] st[1] = "local"    -> localstat(s, st[2], st[3])
                [] st[1] = "label"    -> lab.s
                [] st[1] = "return"   -> retstat(s, st[2])
                [] st[1] \in {"break", "goto"} ->
                        gotostat(On(s, luaK_jump), Pc(Cur(s)), gotoname(st))
                [] st[1] = "call"     -> exprstat(s, st[2])
                [] st[1] = "assign"   -> assignment(s, st[2], st[3])
    IN  [s |-> On(s1, LAMBDA f :
                    [lua_assert(f, f.maxstack >= f.freereg /\ f.freereg >= f.nactvar)
                        EXCEPT !.freereg = f.nactvar]),
         rest |-> IF st[1] = "label" THEN lab.rest ELSE Tail(stats)]

statlist(s, stats, until) ==
    IF stats = <<>> THEN s
    ELSE LET r == statement(s, stats, until) IN statlist(r.s, r.rest, until)

(* The main function of a chunk is a vararg function with one upvalue, _ENV. *)
open_mainfunc(s) ==
    On(open_func(s),
       LAMBDA f : newupvalue([f EXCEPT !.is_vararg = TRUE], "_ENV", init_exp("VLOCAL", 0)))

luaY_parser(chunk) ==
    LET s == open_mainfunc([fs |-> <<>>, gt |-> <<>>, lb |-> <<>>])
        f == Cur(close_func(statlist(s, chunk, FALSE)))
    IN  lua_assert(f, Len(f.upvalues) = 1)
=============================================================================
