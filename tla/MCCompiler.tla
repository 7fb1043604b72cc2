----------------------------- MODULE MCCompiler ----------------------------
(***************************************************************************)
(* Chunks for the compiler and the virtual machine: families of short      *)
(* chunks, each over all choices of its parts.                             *)
(***************************************************************************)
EXTENDS Machine, Parser

CONSTANT Fuel   \* bound: the loops and gotos a chunk may take

MCMeaning(c) ==
    LET r == Result(c, Heap, Args, Fuel)
    IN  IF Legal(c) THEN r ELSE Fail([out |-> <<>>], "illegal")

----------------------------------------------------------------------------
(* Syntax *)

N(n) == <<"name", n, <<>>>>
V(n) == <<N(n)>>
K(n) == << <<"num", n>> >>
S(s) == << <<"str", s>> >>
NIL == << <<"nil">> >>
TRU == << <<"true">> >>
FLS == << <<"false">> >>
DOTS == << <<"...">> >>
CallOf(f, args) == <<"name", f, << <<"(", args>> >> >>
C(f, args) == <<CallOf(f, args)>>
Do(f, args) == <<"call", CallOf(f, args)>>
Field(t, n) == << <<"name", t, << <<".", n>> >> >> >>
Item(t, k) == << <<"name", t, << <<"[", k>> >> >> >>
Fn(params, b) == << <<"function", params, FALSE, b>> >>
Local(n, e) == <<"local", <<n>>, <<e>>>>
Set(n, e) == <<"assign", <<N(n)>>, <<e>>>>
Ret(e) == <<"return", <<e>>>>
If1(c, b) == <<"if", << <<c, b>> >>, <<>>>>
Bin(a, op, b) == a \o << <<op>> >> \o b
Goto(l) == <<"goto", l>>
Label(l) == <<"label", l>>

(* The choices i of 0 .. from the lists: one of each, the first list fastest. *)
RECURSIVE Choose(_, _), Size(_)
Choose(i, lists) ==
    IF lists = <<>> THEN <<>>
    ELSE <<Head(lists)[(i % Len(Head(lists))) + 1]>> \o Choose(i \div Len(Head(lists)), Tail(lists))
Size(lists) == IF lists = <<>> THEN 1 ELSE Len(Head(lists)) * Size(Tail(lists))
All(F(_), lists) == [i \in 1 .. Size(lists) |-> F(Choose(i - 1, lists))]

----------------------------------------------------------------------------
(* Conditions: every way to use a value that jumps decide. *)

Operands == <<V("a"), V("b"), C("f", <<V("b")>>), NIL, K(1), Bin(V("a"), "<", K(2)),
              << <<"not">>, N("a")>> >>
Logic == <<"and", "or">>
Pre == << Local("a", K(1)), <<"local", <<"b">>, <<>> >>, Local("f", Fn(<<"x">>, <<Do("out", <<V("x")>>), Ret(V("x"))>>)) >>
Use(e) == << <<Ret(e)>>,
             <<Local("x", e), Ret(V("x"))>>,
             <<If1(e, <<Do("out", <<K(1)>>)>>)>>,
             <<Set("b", e), <<"return", <<V("a"), V("b")>>>>>>,
             <<Set("g", e), Do("out", <<V("g"), e>>)>>,
             <<Ret(<< <<"not">>, <<"paren", e, <<>>>> >>)>>,
             << <<"while", e, <<Do("out", <<K(3)>>), <<"break">> >> >> >>,
             << <<"repeat", <<Local("z", K(1))>>, Bin(<< <<"paren", e, <<>>>> >>, "or", K(1))>> >>,
             <<Ret(Bin(<< <<"paren", e, <<>>>> >>, "==", V("b")))>> >>

Conditions2 ==
    All(LAMBDA c : Pre \o Use(Bin(c[1], c[2], c[3]))[c[4]],
        <<Operands, Logic, Operands, [i \in 1 .. 9 |-> i]>>)
Conditions3 ==
    All(LAMBDA c : Pre \o Use(Bin(c[1], c[2], Bin(c[3], c[4], c[5])))[c[6]],
        <<SubSeq(Operands, 1, 3), Logic, SubSeq(Operands, 1, 2) \o <<Operands[6]>>, Logic,
          <<V("b"), Operands[6], Operands[7]>>, <<1, 3, 5>>>>)

(* Operators: how they group, with a folded constant or a variable on each side. *)

Ops == <<"+", "-", "*", "%", "^", "..", "<", "==", "and">>
Arithmetics ==
    All(LAMBDA c : << Local("a", K(2)),
                      Ret(c[1] \o c[2] \o << <<c[3]>> >> \o c[4] \o V("a") \o << <<c[5]>> >> \o c[6]) >>,
        << << <<>>, << <<"-">> >> >>, <<V("a"), K(3)>>, Ops,
           << <<>>, << <<"not">> >> >>, Ops, <<V("a"), K(3)>> >>)

----------------------------------------------------------------------------
(* Assignments whose targets use one another, to locals and to upvalues. *)

Lvalues == << N("i"), N("t"), <<"name", "t", << <<"[", V("i")>> >> >>, N("g"),
              <<"name", "t", << <<".", "x">> >> >>, <<"name", "s", << <<"[", K(1)>> >> >> >>
Rvalues == << <<K(7)>>, <<Bin(V("i"), "+", K(1)), V("t")>>, <<C("out", <<K(8), K(9)>>)>>,
              <<Field("t", "x"), DOTS>>, <<K(1), NIL, C("out", <<>>), K(4)>> >>
AssignPre == << <<"local", <<"i", "t">>, <<K(1), << <<"table", << <<"item", K(10)>>, <<"item", K(20)>> >> >> >> >> >>,
                Local("s", V("t")) >>
AssignPost == << Do("out", <<V("i"), V("g"), Item("s", K(1)), Item("s", K(2)), Field("s", "x")>>),
                 Ret(Bin(V("s"), "==", V("t"))) >>
Wrapped(inClosure, stats) ==
    IF inClosure THEN <<Local("f", << <<"function", <<>>, TRUE, stats>> >>), Do("f", <<DOTS>>)>> ELSE stats
Assignments ==
    All(LAMBDA c : AssignPre \o Wrapped(c[1], << <<"assign", c[2], c[3]>> >>) \o AssignPost,
        << <<FALSE, TRUE>>, All(LAMBDA l : l, <<Lvalues, Lvalues>>), Rvalues>>)
    \o All(LAMBDA c : AssignPre \o Wrapped(c[1], << <<"assign", c[2], c[3]>> >>) \o AssignPost,
        << <<FALSE, TRUE>>, All(LAMBDA l : l, <<SubSeq(Lvalues, 1, 4), SubSeq(Lvalues, 2, 5), SubSeq(Lvalues, 1, 3)>>),
           <<Rvalues[2], Rvalues[5]>> >>)

----------------------------------------------------------------------------
(* Table constructors: items and fields in any order, the last item open or not. *)

Fieldlets == << <<"item", K(1)>>, <<"item", C("out", <<K(2), K(3)>>)>>, <<"item", DOTS>>,
                <<"field", S("x"), V("a")>>, <<"field", Bin(V("a"), "..", S("k")), C("out", <<V("a")>>)>> >>
Table(fields) ==
    << Local("a", K(4)), Local("t", << <<"table", fields>> >>),
       <<"return", <<Field("t", "x"), Item("t", S("4k")), Item("t", K(1)), Item("t", K(2)), Item("t", K(3)),
                     Item("t", K(4)), Item("t", K(5)), Item("t", K(6))>> >> >>
Constructors ==
    <<Table(<<>>)>> \o All(Table, <<Fieldlets, Fieldlets>>) \o All(Table, <<Fieldlets, Fieldlets, Fieldlets>>)
    \o All(Table, <<SubSeq(Fieldlets, 1, 2), Fieldlets, SubSeq(Fieldlets, 1, 4), SubSeq(Fieldlets, 2, 4)>>)
    \o All(Table, << <<Fieldlets[1]>>, <<Fieldlets[2]>>, <<Fieldlets[1]>>, <<Fieldlets[1]>>, Fieldlets >>)

----------------------------------------------------------------------------
(* Functions, calls and the uses of their results. *)

Vararg(params, b) == << <<"function", params, TRUE, b>> >>
Callees ==
    << Fn(<<>>, <<>>), Fn(<<"x", "y">>, << <<"return", <<V("y"), V("x")>> >> >>),
       Vararg(<<>>, <<Ret(DOTS)>>), Vararg(<<"x">>, << <<"return", <<DOTS, V("x")>> >> >>),
       Vararg(<<"x">>, << <<"local", <<"p", "q">>, <<DOTS>> >>, <<"return", <<V("q"), V("p"), V("x")>> >> >>),
       Vararg(<<"x">>, <<Ret(C("out", <<V("x"), DOTS>>))>>),
       Fn(<<"n">>, <<If1(Bin(V("n"), "==", K(1)), <<Ret(K(0))>>), Ret(C("f", <<Bin(V("n"), "-", K(1))>>))>>),
       Fn(<<"n">>, <<If1(Bin(V("n"), ">", K(1)), <<Ret(Bin(V("n"), "+", C("f", <<Bin(V("n"), "-", K(1))>>)))>>),
                     Ret(V("n"))>>),
       << <<"name", "o", <<>> >> >>, NIL >>
ArgLists == << <<>>, <<K(3)>>, <<K(3), K(2), K(1)>>, <<DOTS>>, <<K(3), DOTS>>, <<C("out", <<K(2), K(1)>>)>>,
               <<C("out", <<K(2), K(1)>>), K(9)>>, << << <<"paren", DOTS, <<>> >> >> >> >>
Uses(e) ==
    << <<Ret(e)>>, <<Ret(<< <<"paren", e, <<>> >> >>)>>, << <<"call", e[1]>> >>,
       << <<"local", <<"p", "q">>, <<e>> >>, <<"return", <<V("q"), V("p")>> >> >>,
       << <<"return", <<e, K(9)>> >> >>, << <<"return", <<K(9), e>> >> >>,
       << <<"return", << << <<"name", "out", << <<"(", <<K(1), e>> >> >> >> >> >> >> >>,
       << <<"assign", <<N("g"), N("h")>>, <<e>> >>, <<"return", <<V("h"), V("g")>> >> >> >>
Calls ==
    All(LAMBDA c : << <<"local", <<"f">>, <<>> >>, <<"assign", <<N("f")>>, <<c[1]>> >> >>
                   \o Uses(C("f", c[2]))[c[3]],
        <<Callees, ArgLists, [i \in 1 .. 8 |-> i]>>)
Methods ==
    All(LAMBDA c : << Local("t", << <<"table", << <<"field", S("x"), K(5)>> >> >> >>),
                      <<"function", <<"name", "t", << <<".", "m">> >> >>, TRUE,
                        <<"function", <<"y">>, TRUE, << <<"return", <<Field("self", "x"), V("y"), DOTS>> >> >> >> >> >>
                   \o Uses(<< <<"name", "t", << <<":", "m", c[1]>> >> >> >>)[c[2]],
        <<ArgLists, [i \in 1 .. 8 |-> i]>>)

----------------------------------------------------------------------------
(* Loops: each way around, what a closure of the body keeps, each way out. *)

Inc(n) == Set(n, Bin(V(n), "+", K(1)))
Around(b) ==
    << <<"fornum", "i", <<K(1), K(3)>>, b>>, <<"fornum", "i", <<K(3), K(2), <<<<"-">>, <<"num", 1>>>> >>, b>>,
       <<"forlist", <<"i", "v">>, <<V("iter"), K(2), K(0)>>, b>>,
       <<"forlist", <<"i">>, <<Fn(<<"s">>, <<If1(Bin(V("n"), "<", V("s")), <<Ret(V("n"))>>)>>), K(3)>>, b>>,
       <<"while", Bin(V("n"), "<", K(3)), << <<"local", <<"i">>, <<V("n")>> >> >> \o b>>,
       <<"repeat", << <<"local", <<"i">>, <<V("n")>> >> >> \o b, Bin(V("i"), ">=", K(2))>>,
       <<"repeat", b, Bin(Bin(V("n"), ">=", K(2)), "and", V("z"))>> >>
Keeps ==
    << <<>>, <<Set("f", Fn(<<>>, <<Inc("z"), Ret(V("z"))>>))>>,
       <<Set("f", Fn(<<>>, <<Ret(Bin(V("n"), "*", V("i")))>>))>>,
       << <<"do", <<Local("w", V("z")), Set("f", Fn(<<>>, <<Inc("w"), Ret(Bin(V("w"), "+", V("z")))>>))>> >> >> >>
Outs ==
    << <<>>, <<If1(Bin(V("n"), "==", K(2)), << <<"break">> >>)>>,
       <<If1(Bin(V("n"), "==", K(2)), <<Goto("continue")>>), Do("out", <<V("z")>>), Label("continue")>>,
       <<If1(Bin(V("n"), "==", K(2)), <<Ret(V("f"))>>)>>,
       <<If1(Bin(V("n"), "<", K(4)), <<Inc("n"), Goto("over")>>)>>,
       <<If1(Bin(V("n"), "~=", K(1)), <<Local("u", V("n")), Set("f", Fn(<<>>, <<Ret(V("u"))>>)), <<"break">> >>)>>,
       << <<"if", << <<Bin(V("n"), "==", K(1)), <<Do("out", <<V("i")>>)>> >>,
                     <<Bin(V("n"), "==", K(2)), << <<"break">> >> >> >>, << <<Do("out", <<V("n")>>)>> >> >> >> >>
Loops ==
    All(LAMBDA c : << Local("n", K(0)), <<"local", <<"f">>, <<>> >>, Label("over"),
                      Around(<<Inc("n"), Local("z", V("n"))>> \o c[1] \o c[2])[c[3]],
                      If1(V("f"), <<Do("out", <<C("f", <<>>), C("f", <<>>)>>)>>), Ret(V("n")) >>,
        <<Keeps, Outs, [i \in 1 .. 7 |-> i]>>)

----------------------------------------------------------------------------
(* Gotos: sequences of labels, locals, closures and jumps that end. *)

JumpOnce(l) == <<Inc("n"), If1(Bin(V("n"), "<", K(4)), <<Goto(l)>>)>>
Keep == Set("f", Fn(<<>>, <<Inc("z"), Ret(V("z"))>>))
Steps ==
    << <<Label("L")>>, <<Local("z", V("n"))>>, JumpOnce("L"), <<Keep>>,
       << <<"do", <<Local("z", V("n")), Keep>> \o JumpOnce("L")>> >>, << <<"do", <<Label("L"), Inc("n")>> >> >>,
       << <<"repeat", <<Inc("n"), If1(Bin(V("n"), "<", K(2)), <<Goto("L")>>), Local("y", V("n")), Label("L")>>,
            Bin(V("n"), ">", K(3))>> >> >>
Gotos ==
    All(LAMBDA c : << Local("n", K(0)), <<"do", c[1] \o c[2] \o c[3] \o c[4]>>,
                      If1(V("f"), << Do("out", <<C("f", <<>>)>>) >>), Ret(V("n")) >>,
        <<Steps, Steps, Steps, Steps>>)

----------------------------------------------------------------------------
(* Metamethods, each of which may yield, and errors. *)

Lo == V("o")
Events ==
    << Bin(Lo, "+", K(1)), Bin(K(1), "+", Lo), Bin(Lo, "..", K(1)), Bin(K(1), "..", Bin(K(2), "..", Bin(Lo, "..", K(3)))),
       Bin(S(""), "..", Bin(K(2), "..", S(""))), Bin(Lo, "<", V("a")), Bin(V("a"), "<", Lo), Bin(Lo, ">", V("a")),
       Bin(Lo, "<=", V("a")), Bin(V("a"), "<=", Lo), Bin(V("a"), ">=", Lo), Bin(Lo, "==", V("p")), Bin(Lo, "~=", V("p")),
       << <<"-">> >> \o Lo, << <<"#">> >> \o Lo, Field("o", "x"), Item("o", V("a")),
       << <<"name", "o", << <<":", "x", <<V("a")>> >> >> >> >>, C("o", <<V("a")>>),
       Bin(V("a"), "<", S("s")), Bin(V("a"), "+", NIL), << <<"#">> >> \o V("a"), Field("a", "x"),
       Bin(Lo, "*", V("a")), Bin(V("a"), "..", TRU), << <<"-">> >> \o S("s") >>
Metas ==
    All(LAMBDA c : Pre \o <<Do("out", <<V("a")>>)>> \o Use(c[1])[c[2]], <<Events, [i \in 1 .. 9 |-> i]>>)
    \o All(LAMBDA c : Pre \o Use(Bin(c[1], c[2], V("a")))[c[3]], <<SubSeq(Events, 6, 13), Logic, [i \in 1 .. 9 |-> i]>>)
    \o All(LAMBDA c : Pre \o << <<"assign", c[1], <<V("a"), V("b")>> >>, Do("out", <<Field("o", "x")>>) >>,
           << << <<Field("o", "x")[1], Field("a", "x")[1]>>, <<N("b"), Item("o", V("a"))[1]>>,
                 <<Field("p", "x")[1], Field("p", "x")[1]>> >> >>)

(* Comparisons: of numbers, of o with __lt alone and of q with __le alone,   *)
(* on either side, and of constants with them.                               *)
Compared == <<V("a"), Lo, V("q"), K(1)>>
Orders ==
    All(LAMBDA c : Pre \o Use(Bin(c[1], c[2], c[3]))[c[4]],
        <<Compared, << "<", "<=", ">", ">=" >>, Compared, [i \in 1 .. 9 |-> i]>>)

(* Names and scopes. *)
Scopes ==
    << << Local("_ENV", << <<"table", << <<"field", S("x"), K(1)>> >> >> >>), Inc("x"), Ret(V("x")) >>,
       << Local("x", K(1)), <<"localfunc", "f", <<"function", <<"n">>, FALSE,
            << Local("g", Fn(<<>>, <<Ret(Fn(<<>>, <<Inc("x"), Inc("n"), <<"return", <<V("x"), V("n")>> >> >>))>>)),
               Ret(C("g", <<>>)) >> >> >>,
          Local("p", C("f", <<K(5)>>)), Local("q", C("f", <<K(7)>>)),
          Do("out", <<C("p", <<>>), C("q", <<>>)>>), <<"return", <<V("x"), C("p", <<>>)>> >> >>,
       << <<"localfunc", "f", <<"function", <<"n">>, FALSE,
            << If1(Bin(V("n"), "<", K(1)), <<Ret(K(0))>>), Ret(C("f", <<Bin(V("n"), "-", K(1))>>)) >> >> >>,
          <<"return", <<C("f", <<K(3)>>)>> >> >>,
       << Local("f", Fn(<<>>, <<Ret(V("f"))>>)), Ret(C("f", <<>>)) >>,
       << Local("x", K(1)), Local("x", Bin(V("x"), "+", K(1))), <<"do", <<Local("x", K(9)), Inc("x")>> >>, Ret(V("x")) >>,
       << <<"local", <<"a", "a">>, <<K(1), K(2)>> >>, Ret(V("a")) >>,
       << <<"break">> >>, << <<"do", << <<"break">> >> >> >>, <<Label("L"), Label("L")>>,
       << <<"fornum", "i", <<S("a"), K(2)>>, <<>> >> >>, << <<"fornum", "i", <<K(1), K(0)>>, <<Do("out", <<K(1)>>)>> >> >>,
       << <<"fornum", "i", <<K(2), K(1)>>, <<Ret(V("i"))>> >>, Ret(DOTS) >>,
       << Set("m", << <<"table", <<>> >> >>),
          <<"function", <<"name", "m", << <<".", "f">> >> >>, FALSE, <<"function", <<"x">>, FALSE, <<Ret(V("x"))>> >> >>,
          Ret(<< <<"name", "m", << <<".", "f">>, <<"(", <<K(3)>> >> >> >> >>) >> >>

MCChunks ==
    LET all == Conditions2 \o Conditions3 \o Arithmetics \o Assignments \o Constructors \o Calls
               \o Methods \o Loops \o Gotos \o Metas \o Orders \o Scopes
    IN  all

----------------------------------------------------------------------------
MCHeap0 ==
    << [h |-> (<<"str", "out">> :> <<"c", "out">>) @@ (<<"str", "iter">> :> <<"c", "iter">>)
              @@ (<<"str", "o">> :> <<"table", 3>>)
              @@ (<<"str", "p">> :> <<"table", 4>>)
              @@ (<<"str", "q">> :> <<"table", 6>>), meta |-> 0],
       [h |-> [e \in {<<"str", n>> : n \in {"__add", "__lt", "__concat", "__index", "__newindex",
                                            "__call", "__len", "__unm", "__eq"}} |-> <<"c", e[2]>>],
        meta |-> 0],
       [h |-> <<>>, meta |-> 2], [h |-> <<>>, meta |-> 2],
       [h |-> <<"str", "__le">> :> <<"c", "__le">>, meta |-> 0], [h |-> <<>>, meta |-> 5] >>
MCArgs == << <<"num", 5>>, <<"num", 6>> >>
=============================================================================
