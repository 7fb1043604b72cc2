------------------------------- MODULE Source ------------------------------
(***************************************************************************)
(* What a Lua chunk means, stated on its syntax tree and without a stack,  *)
(* registers or jumps: the specification that the compiler (Parser) and    *)
(* the virtual machine (Machine) implement together.  Every local variable *)
(* is a cell of its own, and a goto unwinds to the block of its label.     *)
(*                                                                         *)
(* Statements   <<"local", names, exps>>      <<"assign", targets, exps>>  *)
(*   <<"call", exp>>  <<"do", block>>  <<"while", exp, block>>             *)
(*   <<"repeat", block, exp>>  <<"if", clauses, else>>                     *)
(*   <<"fornum", name, exps, block>>  <<"forlist", names, exps, block>>    *)
(*   <<"localfunc", name, fn>>  <<"function", target, ismethod, fn>>       *)
(*   <<"return", exps>>  <<"break">>  <<"goto", l>>  <<"label", l>>        *)
(* Expressions  a sequence of operators <<"+">> and of                     *)
(*   <<"nil">> <<"true">> <<"false">> <<"num", n>> <<"str", s>> <<"...">>  *)
(*   <<"function", params, is_vararg, block>>                              *)
(*   <<"table", fields>>   fields <<"item", exp>>, <<"field", exp, exp>>   *)
(*   <<"name", n, suffixes>>  <<"paren", exp, suffixes>>                   *)
(*       suffixes <<".", n>> <<"[", exp>> <<"(", args>> <<":", n, args>>   *)
(***************************************************************************)
EXTENDS Integers, Sequences, FiniteSets, TLC, SequencesExt, FiniteSetsExt

NilV == <<"nil">>
True == <<"bool", TRUE>>
False == <<"bool", FALSE>>
IsFalse(v) == v \in {NilV, False}

----------------------------------------------------------------------------
(* The heap: tables [h, meta], and the library the chunks of the model use. *)

Raw(tab, t, k) == IF k \in DOMAIN tab[t[2]].h THEN tab[t[2]].h[k] ELSE NilV

SetRaw(tab, t, k, v) == [tab EXCEPT ![t[2]].h = (k :> v) @@ @]

Meta(tab, v, event) ==
    IF v[1] = "table" /\ tab[v[2]].meta # 0
    THEN Raw(tab, <<"table", tab[v[2]].meta>>, <<"str", event>>) ELSE NilV

(* The border of a table without holes. *)
Border(tab, t) ==
    LET ns == {n \in 0 .. Cardinality(DOMAIN tab[t[2]].h) :
                 \A i \in 1 .. n : Raw(tab, t, <<"num", i>>) # NilV}
    IN  Max(ns)

(* Native functions: what each returns.  out returns its arguments, iter     *)
(* counts up to its first one, and a metamethod returns what its event needs.*)
NativeResult(name, args) ==
    CASE name = "out" -> args
      [] name = "iter" -> IF args[2][2] < args[1][2]
                          THEN << <<"num", args[2][2] + 1>>, <<"num", 10 + args[2][2]>> >>
                          ELSE <<>>
      [] name \in {"__lt", "__eq"} -> <<True>>
      [] name = "__le" -> <<NilV>>
      [] name = "__concat" -> << <<"str", "c">> >>
      [] name = "__newindex" -> <<>>
      [] OTHER -> << <<"num", 7>> >>

Arith(op, n, m) ==
    CASE op = "+" -> n + m [] op = "-" -> n - m [] op = "*" -> n * m
      [] op = "%" -> IF m > 0 THEN n % m ELSE -((-n) % (-m))
      [] op = "^" -> n ^ m

EventOf == [o \in {"+", "-", "*", "%", "^", "..", "<", "<=", "=="} |->
    CASE o = "+" -> "__add" [] o = "-" -> "__sub" [] o = "*" -> "__mul"
      [] o = "%" -> "__mod" [] o = "^" -> "__pow" [] o = ".." -> "__concat"
      [] o = "<" -> "__lt" [] o = "<=" -> "__le" [] o = "==" -> "__eq"]

Str(v) == IF v[1] = "num" THEN ToString(v[2]) ELSE v[2]

----------------------------------------------------------------------------
(* The operators, by precedence from the lowest: the manual's table. *)

Levels == << {"or"}, {"and"}, {"<", ">", "<=", ">=", "~=", "=="}, {".."},
             {"+", "-"}, {"*", "%"}, {"^"} >>
Unary == {"not", "-", "#"}
IsOp(t) == t[1] \in Unary \cup UNION {Levels[i] : i \in DOMAIN Levels}
Binary(toks) == {i \in 2 .. Len(toks) - 1 : IsOp(toks[i]) /\ ~IsOp(toks[i - 1])}
At(toks, lev) == {i \in Binary(toks) : toks[i][1] \in Levels[lev]}

(* Where the last operator to apply stands; 1 for a unary one, 0 for none. *)
SplitAt(toks) ==
    LET low == {lev \in 1 .. 6 : At(toks, lev) # {}}
        lev == Min(low)
    IN  CASE low # {} -> IF lev = 4 THEN Min(At(toks, 4)) ELSE Max(At(toks, lev))
          [] low = {} /\ IsOp(toks[1]) -> 1
          [] low = {} /\ ~IsOp(toks[1]) /\ At(toks, 7) # {} -> Min(At(toks, 7))
          [] OTHER -> 0

----------------------------------------------------------------------------
(* Evaluation.  st = [cell, tab, fun, out, fuel]; a result r = [st, v, sig]  *)
(* has the values v and tells how the evaluation ended.                      *)

ok == <<"ok">>
R(st, v) == [st |-> st, v |-> v, sig |-> ok]
Fail(st, what) == [st |-> st, v |-> <<>>, sig |-> <<"error", what>>]
Signal(st, sig) == [st |-> st, v |-> <<>>, sig |-> sig]
Ok(r) == r.sig = ok
One(r) == IF Ok(r) THEN [r EXCEPT !.v = IF @ = <<>> THEN <<NilV>> ELSE <<@[1]>>] ELSE r
Adjust(v, n) == [i \in 1 .. n |-> IF i <= Len(v) THEN v[i] ELSE NilV]

NewCell(st, v) == [st EXCEPT !.cell = Append(@, v)]
(* Declares names with the values v in environment env. *)
Declare(st, env, names, v) ==
    [st  |-> [st EXCEPT !.cell = @ \o Adjust(v, Len(names))],
     env |-> [env EXCEPT !.var = [n \in ToSet(names) |->
                Len(st.cell) + Max({i \in DOMAIN names : names[i] = n})] @@ @]]

Native(st, name, args) ==
    R([st EXCEPT !.out = Append(@, << <<"str", name>> >> \o args)], NativeResult(name, args))

(* The result of handler(a, b) as one value. *)
Handler(st, h, a, b) == One(Native(st, h[2], <<a, b>>))

RECURSIVE Index(_, _, _), SetIndex(_, _, _, _)
Index(st, t, k) ==
    LET h == Meta(st.tab, t, "__index")
    IN  CASE t[1] = "table" /\ (Raw(st.tab, t, k) # NilV \/ h = NilV) -> R(st, <<Raw(st.tab, t, k)>>)
          [] t[1] # "table" -> Fail(st, "index")
          [] h[1] = "c" -> Handler(st, h, t, k)
          [] OTHER -> Index(st, h, k)

SetIndex(st, t, k, v) ==
    LET h == Meta(st.tab, t, "__newindex")
    IN  CASE t[1] = "table" /\ (Raw(st.tab, t, k) # NilV \/ h = NilV) ->
                R([st EXCEPT !.tab = SetRaw(@, t, k, v)], <<>>)
          [] t[1] # "table" -> Fail(st, "index")
          [] h[1] = "c" -> Native(st, h[2], <<t, k, v>>)
          [] OTHER -> SetIndex(st, h, k, v)

FirstMeta(st, a, b, event) ==
    IF Meta(st.tab, a, event) # NilV THEN Meta(st.tab, a, event) ELSE Meta(st.tab, b, event)

Truth(r, negated) ==
    IF Ok(r) THEN [r EXCEPT !.v = << <<"bool", IsFalse(@[1]) = negated>> >>] ELSE r

Less(st, a, b) ==
    LET h == FirstMeta(st, a, b, "__lt")
    IN  CASE a[1] = "num" /\ b[1] = "num" -> R(st, << <<"bool", a[2] < b[2]>> >>)
          [] h # NilV -> Truth(Handler(st, h, a, b), FALSE)
          [] OTHER -> Fail(st, "compare")

LessEqual(st, a, b) ==
    LET h == FirstMeta(st, a, b, "__le")
    IN  CASE a[1] = "num" /\ b[1] = "num" -> R(st, << <<"bool", a[2] <= b[2]>> >>)
          [] h # NilV -> Truth(Handler(st, h, a, b), FALSE)
          [] OTHER -> LET r == Less(st, b, a) IN Truth(r, TRUE)

Equal(st, a, b) ==
    LET h == Meta(st.tab, a, "__eq")
    IN  IF a = b \/ a[1] # "table" \/ b[1] # "table" \/ h = NilV \/ h # Meta(st.tab, b, "__eq")
        THEN R(st, << <<"bool", a = b>> >>)
        ELSE Truth(Handler(st, h, a, b), FALSE)

BinaryOp(st, op, a, b) ==
    LET h == FirstMeta(st, a, b, EventOf[op])
    IN  CASE op \in {"+", "-", "*", "%", "^"} /\ a[1] = "num" /\ b[1] = "num" ->
                R(st, << <<"num", Arith(op, a[2], b[2])>> >>)
          [] op = ".." /\ a[1] \in {"num", "str"} /\ b[1] \in {"num", "str"} ->
                R(st, << <<"str", Str(a) \o Str(b)>> >>)
          [] op = "==" -> Equal(st, a, b)
          [] op = "~=" -> Truth(Equal(st, a, b), TRUE)
          [] op = "<"  -> Less(st, a, b)
          [] op = ">"  -> Less(st, b, a)
          [] op = "<=" -> LessEqual(st, a, b)
          [] op = ">=" -> LessEqual(st, b, a)
          [] h # NilV  -> Handler(st, h, a, b)
          [] OTHER -> Fail(st, IF op = ".." THEN "concat" ELSE "arith")

UnaryOp(st, op, a) ==
    LET h == Meta(st.tab, a, IF op = "-" THEN "__unm" ELSE "__len")
    IN  CASE op = "not" -> R(st, << <<"bool", IsFalse(a)>> >>)
          [] op = "-" /\ a[1] = "num" -> R(st, << <<"num", -a[2]>> >>)
          [] op = "#" /\ a[1] = "str" -> R(st, << <<"num", Len(a[2])>> >>)
          [] op # "not" /\ h # NilV -> Handler(st, h, a, a)
          [] op = "#" /\ a[1] = "table" -> R(st, << <<"num", Border(st.tab, a)>> >>)
          [] OTHER -> Fail(st, IF op = "-" THEN "arith" ELSE "len")

RECURSIVE Ev(_, _, _), Exps(_, _, _, _), Simple(_, _, _), Suffixed(_, _, _, _), Fields(_, _, _, _, _),
          Call(_, _, _), Block(_, _, _), Run(_, _, _, _), Stat(_, _, _), Store(_, _, _),
          Targets(_, _, _, _), While(_, _, _, _), Repeat(_, _, _, _), If(_, _, _, _),
          ForNum(_, _, _, _, _, _), ForList(_, _, _, _, _)

Ev(st, env, toks) ==
    LET i  == SplitAt(toks)
        op == toks[i][1]
        a  == One(Ev(st, env, SubSeq(toks, 1, i - 1)))
        b  == One(Ev(a.st, env, SubSeq(toks, i + 1, Len(toks))))
        u  == One(Ev(st, env, Tail(toks)))
    IN  CASE i = 0 -> Simple(st, env, toks[1])
          [] i = 1 -> IF Ok(u) THEN UnaryOp(u.st, op, u.v[1]) ELSE u
          [] i > 1 /\ ~Ok(a) -> a
          [] i > 1 /\ Ok(a) /\ op \in {"and", "or"} /\ (op = "and") = IsFalse(a.v[1]) -> a
          [] i > 1 /\ Ok(a) /\ op \in {"and", "or"} /\ (op = "and") # IsFalse(a.v[1]) -> b
          [] OTHER -> IF Ok(b) THEN BinaryOp(b.st, op, a.v[1], b.v[1]) ELSE b

(* A list of expressions: each gives one value, the last one all of its own. *)
Exps(st, env, exps, v) ==
    LET r == Ev(st, env, Head(exps))
    IN  CASE exps = <<>> -> R(st, v)
          [] exps # <<>> /\ ~Ok(r) -> r
          [] exps # <<>> /\ Ok(r) /\ Len(exps) = 1 -> [r EXCEPT !.v = v \o @]
          [] OTHER -> Exps(r.st, env, Tail(exps), v \o One(r).v)

Closure(st, env, params, va, block) ==
    R([st EXCEPT !.fun = Append(@, [params |-> params, va |-> va, block |-> block, var |-> env.var])],
      << <<"lua", Len(st.fun) + 1>> >>)

Simple(st, env, t) ==
    LET p == Ev(st, env, t[2])
    IN  CASE t[1] = "nil"   -> R(st, <<NilV>>)
          [] t[1] = "true"  -> R(st, <<True>>)
          [] t[1] = "false" -> R(st, <<False>>)
          [] t[1] \in {"num", "str"} -> R(st, <<t>>)
          [] t[1] = "..."   -> R(st, env.va)
          [] t[1] = "function" -> Closure(st, env, t[2], t[3], t[4])
          [] t[1] = "table" ->
                Fields([st EXCEPT !.tab = Append(@, [h |-> <<>>, meta |-> 0])], env,
                       <<"table", Len(st.tab) + 1>>, t[2], <<>>)
          [] t[1] = "name" ->
                IF t[2] \in DOMAIN env.var
                THEN Suffixed(st, env, R(st, <<st.cell[env.var[t[2]]]>>), t[3])
                ELSE Suffixed(st, env, Index(st, st.cell[env.var["_ENV"]], <<"str", t[2]>>), t[3])
          [] t[1] = "paren" -> Suffixed(p.st, env, One(p), t[3])

(* The keyed fields are set in order, the items once all are evaluated. *)
Fields(st, env, t, fields, items) ==
    LET f == Head(fields)
        r == Ev(st, env, f[2])
        w == One(Ev(r.st, env, f[3]))
    IN  CASE fields = <<>> ->
                R([st EXCEPT !.tab = FoldLeft(LAMBDA tab, i : SetRaw(tab, t, <<"num", i>>, items[i]),
                                              @, [i \in DOMAIN items |-> i])], <<t>>)
          [] fields # <<>> /\ ~Ok(r) -> r
          [] fields # <<>> /\ Ok(r) /\ f[1] = "item" ->
                Fields(r.st, env, t, Tail(fields),
                       items \o (IF Len(fields) = 1 THEN r.v ELSE One(r).v))
          [] OTHER -> IF Ok(w) THEN Fields([w.st EXCEPT !.tab = SetRaw(@, t, One(r).v[1], w.v[1])],
                                           env, t, Tail(fields), items)
                      ELSE w

Suffixed(st, env, r, suffixes) ==
    LET sf == Head(suffixes)
        o  == One(r).v[1]
        k  == One(Ev(r.st, env, sf[2]))
        m  == Index(r.st, o, <<"str", sf[2]>>)
        a  == IF sf[1] = "(" THEN Exps(r.st, env, sf[2], <<>>) ELSE Exps(m.st, env, sf[3], <<o>>)
        x  == CASE sf[1] = "." -> m
                [] sf[1] = "[" -> IF Ok(k) THEN Index(k.st, o, k.v[1]) ELSE k
                [] sf[1] = "(" -> IF Ok(a) THEN Call(a.st, o, a.v) ELSE a
                [] sf[1] = ":" -> CASE ~Ok(m) -> m
                                    [] Ok(m) /\ ~Ok(a) -> a
                                    [] OTHER -> Call(a.st, m.v[1], a.v)
    IN  IF ~Ok(r) \/ suffixes = <<>> THEN r ELSE Suffixed(x.st, env, x, Tail(suffixes))

Call(st, f, args) ==
    LET c == st.fun[f[2]]
        d == Declare(st, [var |-> c.var, va |-> IF c.va THEN SubSeq(args, Len(c.params) + 1, Len(args))
                                                ELSE <<>>], c.params, args)
        r == Block(d.st, d.env, c.block)
        h == Meta(st.tab, f, "__call")
    IN  CASE f[1] = "c"   -> Native(st, f[2], args)
          [] f[1] = "lua" -> IF r.sig = <<"return">> THEN [r EXCEPT !.sig = ok] ELSE r
          [] h # NilV     -> Native(st, h[2], <<f>> \o args)
          [] OTHER -> Fail(st, "call")

(* A block: a local declares a variable for the rest of it; a goto to one of *)
(* its labels goes on there, in the scope of that label.                     *)
Block(st, env, stats) == Run(st, <<env>>, stats, 1)

Run(st, envs, stats, i) ==
    LET r == Stat(st, envs[i], stats[i])
        labels == {j \in DOMAIN stats : stats[j] = <<"label", r.sig[2]>>}
        j == CHOOSE n \in labels : TRUE
    IN  CASE i > Len(stats) -> [st |-> st, v |-> <<>>, sig |-> ok, env |-> envs[i]]
          [] i <= Len(stats) /\ r.sig = ok -> Run(r.st, Append(SubSeq(envs, 1, i), r.env), stats, i + 1)
          [] i <= Len(stats) /\ r.sig[1] = "goto" /\ labels # {} ->
                IF j <= i THEN Run(r.st, SubSeq(envs, 1, j), stats, j)
                ELSE Run(r.st, envs \o [n \in 1 .. j - i |-> envs[i]], stats, j)
          [] OTHER -> r

(* Every loop and goto burns fuel; a chunk that needs more is not judged. *)
Burn(st) == [st EXCEPT !.fuel = @ - 1]
Leave(r, env) == [st |-> r.st, v |-> r.v, sig |-> r.sig, env |-> env]
AfterLoop(r) == IF r.sig = <<"break">> THEN [r EXCEPT !.sig = ok] ELSE r

While(st, env, toks, block) ==
    LET c == One(Ev(st, env, toks))
        b == Block(Burn(c.st), env, block)
    IN  CASE st.fuel = 0 -> Fail(st, "fuel")
          [] st.fuel > 0 /\ (~Ok(c) \/ IsFalse(c.v[1])) -> c
          [] OTHER -> IF Ok(b) THEN While(b.st, env, toks, block) ELSE b

Repeat(st, env, block, toks) ==
    LET b == Block(Burn(st), env, block)
        c == One(Ev(b.st, b.env, toks))
    IN  CASE st.fuel = 0 -> Fail(st, "fuel")
          [] st.fuel > 0 /\ ~Ok(b) -> b
          [] OTHER -> IF Ok(c) /\ IsFalse(c.v[1]) THEN Repeat(c.st, env, block, toks) ELSE c

If(st, env, clauses, else) ==
    LET c == One(Ev(st, env, clauses[1][1]))
    IN  CASE clauses = <<>> -> IF else = <<>> THEN R(st, <<>>) ELSE Block(st, env, else[1])
          [] clauses # <<>> /\ ~Ok(c) -> c
          [] clauses # <<>> /\ Ok(c) /\ ~IsFalse(c.v[1]) -> Block(c.st, env, clauses[1][2])
          [] OTHER -> If(c.st, env, Tail(clauses), else)

ForNum(st, env, name, i, ctl, block) ==
    LET d == Declare(st, env, <<name>>, << <<"num", i>> >>)
        b == Block(Burn(d.st), d.env, block)
    IN  CASE st.fuel = 0 -> Fail(st, "fuel")
          [] st.fuel > 0 /\ IF ctl.step > 0 THEN i > ctl.limit ELSE i < ctl.limit -> R(st, <<>>)
          [] OTHER -> IF Ok(b) THEN ForNum(b.st, env, name, i + ctl.step, ctl, block) ELSE b

ForList(st, env, names, ctl, block) ==
    LET c == Call(st, ctl[1], <<ctl[2], ctl[3]>>)
        v == Adjust(c.v, Len(names))
        d == Declare(c.st, env, names, v)
        b == Block(Burn(d.st), d.env, block)
    IN  CASE st.fuel = 0 -> Fail(st, "fuel")
          [] st.fuel > 0 /\ ~Ok(c) -> c
          [] st.fuel > 0 /\ Ok(c) /\ v[1] = NilV -> R(c.st, <<>>)
          [] OTHER -> IF Ok(b) THEN ForList(b.st, env, names, <<ctl[1], ctl[2], v[1]>>, block) ELSE b

(* A target of an assignment as <<"cell", c>> or <<"at", table, key>>. *)
Targets(st, env, targets, refs) ==
    LET t == Head(targets)
        last == Last(t[3])
        o == One(Simple(st, env, [t EXCEPT ![3] = Front(@)]))
        k == IF last[1] = "[" THEN One(Ev(o.st, env, last[2])) ELSE R(o.st, << <<"str", last[2]>> >>)
    IN  CASE targets = <<>> -> R(st, refs)
          [] targets # <<>> /\ t[3] = <<>> /\ t[2] \in DOMAIN env.var ->
                Targets(st, env, Tail(targets), Append(refs, <<"cell", env.var[t[2]]>>))
          [] targets # <<>> /\ t[3] = <<>> /\ t[2] \notin DOMAIN env.var ->
                Targets(st, env, Tail(targets),
                        Append(refs, <<"at", st.cell[env.var["_ENV"]], <<"str", t[2]>> >>))
          [] targets # <<>> /\ t[3] # <<>> /\ ~(Ok(o) /\ Ok(k)) -> IF Ok(o) THEN k ELSE o
          [] OTHER -> Targets(k.st, env, Tail(targets), Append(refs, <<"at", o.v[1], k.v[1]>>))

(* The assignments of one statement take effect from the last to the first. *)
Store(st, refs, v) ==
    LET n == Len(refs)
        r == IF refs[n][1] = "cell" THEN R([st EXCEPT !.cell[refs[n][2]] = v[n]], <<>>)
             ELSE SetIndex(st, refs[n][2], refs[n][3], v[n])
    IN  CASE refs = <<>> -> R(st, <<>>)
          [] OTHER -> IF Ok(r) THEN Store(r.st, Front(refs), v) ELSE r

Stat(st, env, s) ==
    LET e == Exps(st, env, s[3], <<>>)
        d == Declare(e.st, env, s[2], e.v)
        t == Targets(st, env, s[2], <<>>)
        w == Exps(t.st, env, s[3], <<>>)
        fd == Declare(st, env, <<s[2]>>, <<NilV>>)
        f  == Closure(fd.st, fd.env, s[3][2], s[3][3], s[3][4])
        ft == Targets(st, env, <<s[2]>>, <<>>)
        params == IF s[3] THEN <<"self">> \o s[4][2] ELSE s[4][2]
        fc == Closure(ft.st, env, params, s[4][3], s[4][4])
        ret == Exps(st, env, s[2], <<>>)
    IN  CASE s[1] = "local"  -> IF Ok(e) THEN Leave(R(d.st, <<>>), d.env) ELSE Leave(e, env)
          [] s[1] = "localfunc" ->
                Leave(R([f.st EXCEPT !.cell[Len(fd.st.cell)] = f.v[1]], <<>>), fd.env)
          [] s[1] = "assign" ->
                Leave(CASE ~Ok(t) -> t
                        [] Ok(t) /\ ~Ok(w) -> w
                        [] OTHER -> Store(w.st, t.v, Adjust(w.v, Len(t.v))), env)
          [] s[1] = "function" -> Leave(IF Ok(ft) THEN Store(fc.st, ft.v, fc.v) ELSE ft, env)
          [] s[1] = "call"   -> Leave(Simple(st, env, s[2]), env)
          [] s[1] = "do"     -> Leave(Block(st, env, s[2]), env)
          [] s[1] = "while"  -> Leave(AfterLoop(While(st, env, s[2], s[3])), env)
          [] s[1] = "repeat" -> Leave(AfterLoop(Repeat(st, env, s[2], s[3])), env)
          [] s[1] = "if"     -> Leave(If(st, env, s[2], s[3]), env)
          [] s[1] = "fornum" ->
                LET c == Exps(st, env, s[3], <<>>)
                IN  Leave(CASE ~Ok(c) -> c
                            [] Ok(c) /\ (\E i \in 1 .. 2 : c.v[i][1] # "num") -> Fail(c.st, "for")
                            [] OTHER -> AfterLoop(ForNum(c.st, env, s[2], c.v[1][2],
                                            [limit |-> c.v[2][2],
                                             step |-> IF Len(c.v) > 2 THEN c.v[3][2] ELSE 1], s[4])), env)
          [] s[1] = "forlist" -> LET c == Exps(st, env, s[3], <<>>)
                                 IN  Leave(IF Ok(c) THEN AfterLoop(ForList(c.st, env, s[2], Adjust(c.v, 3), s[4]))
                                           ELSE c, env)
          [] s[1] = "return" -> Leave(IF Ok(ret) THEN [ret EXCEPT !.sig = <<"return">>] ELSE ret, env)
          [] s[1] = "break"  -> Leave(Signal(st, <<"break">>), env)
          [] s[1] = "goto"   -> Leave(IF st.fuel = 0 THEN Fail(st, "fuel") ELSE Signal(Burn(st), s), env)
          [] s[1] = "label"  -> Leave(R(st, <<>>), env)

(* The run of a chunk with arguments args over heap tab, whose table 1 is _ENV. *)
Result(chunk, tab, args, fuel) ==
    LET st == [cell |-> << <<"table", 1>> >>, tab |-> tab, fun |-> <<>>, out |-> <<>>, fuel |-> fuel]
    IN  Block(st, [var |-> "_ENV" :> 1, va |-> args], chunk)

----------------------------------------------------------------------------
(* Which chunks are legal: every goto has a visible label that it reaches    *)
(* without entering the scope of a local, every break is in a loop, and a    *)
(* block has no label twice.                                                 *)

RECURSIVE Escapes(_, _), Inner(_)

Illegal == "illegal"

(* The gotos that leave a statement; a break counts as a goto to break. *)
Inner(s) ==
    CASE s[1] = "goto"   -> {s[2]}
      [] s[1] = "break"  -> {"break"}
      [] s[1] = "do"     -> Escapes(s[2], FALSE)
      [] s[1] = "while"  -> Escapes(s[3], FALSE) \ {"break"}
      [] s[1] = "repeat" -> Escapes(s[2], TRUE) \ {"break"}
      [] s[1] \in {"fornum", "forlist"} -> Escapes(s[4], FALSE) \ {"break"}
      [] s[1] = "if"     -> UNION {Escapes(s[2][i][2], FALSE) : i \in DOMAIN s[2]}
                              \cup UNION {Escapes(s[3][i], FALSE) : i \in DOMAIN s[3]}
      [] OTHER -> {}

Escapes(stats, until) ==
    LET labels(n) == {j \in DOMAIN stats : stats[j] = <<"label", n>>}
        atEnd(j)  == ~until /\ \A n \in j .. Len(stats) : stats[n][1] = "label"
        declares(n) == stats[n][1] \in {"local", "localfunc"}
        reaches(i, j) == j <= i \/ atEnd(j) \/ ~\E n \in i + 1 .. j - 1 : declares(n)
    IN  UNION {{IF labels(n) = {} THEN n ELSE Illegal :
                    n \in {n \in Inner(stats[i]) : \A j \in labels(n) : ~reaches(i, j)}} :
                i \in DOMAIN stats}
        \cup {Illegal : j \in {j \in DOMAIN stats : stats[j][1] = "label"
                                                   /\ Cardinality(labels(stats[j][2])) > 1}}

Legal(chunk) == Escapes(chunk, FALSE) = {}
=============================================================================
