------------------------------ MODULE MCStrings -----------------------------
(***************************************************************************)
(* Every short pattern of these items, and some longer ones, against short *)
(* subjects.                                                               *)
(***************************************************************************)
EXTENDS Strings

CONSTANTS Find(_, _, _, _, _), Gmatch(_, _), Gsub(_, _, _, _),   \* what is checked: the functions of Strings
          Subjects, Patterns, Indices, Limits

M == INSTANCE PatternMeaning WITH MaxCaptures <- LUA_MAXCAPTURES

VARIABLES pattern, subject,
          meaning   \* what the pattern means for the subject: the first match from each index, all matches

vars == <<pattern, subject, meaning>>

MCChars == <<"1", "]", "a", "b">>
MCLetters == {"a", "b"}
MCDigits == {"1"}
Every == ToSet(MCChars)

SubjectsUpTo(n) == UNION {[1 .. k -> {"a", "b"}] : k \in 0 .. n}
MCSubjects == SubjectsUpTo(3) \cup {<<"a", "b", "a", "b">>, <<"a", "a", "b", "b">>, <<"b", "a", "a", "b">>,
                                    <<"a", "1", "]", "b">>, <<"1", "a", "]">>}

Letter == <<"%", "a">>
Set == <<"[", "a", "-", "b", "]">>
NotA == <<"[", "^", "a", "]">>
Odd == <<"[", "]", "%", "d", "]">>

A(rep) == M!One(<<"a">>, {"a"}, rep)
B(rep) == M!One(<<"b">>, {"b"}, rep)
Dot(rep) == M!One(<<".">>, Every, rep)

\* Items for patterns of up to three of them.
Common == {A(<<>>), A(<<"*">>), A(<<"-">>), Dot(<<"?">>), Dot(<<"+">>), B(<<>>),
           M!Open, M!Close, M!Here, M!Back(1, "1")}
\* More for patterns of up to two.
Rare == {M!One(Letter, MCLetters, <<"*">>), M!One(<<"%", "A">>, Every \ MCLetters, <<>>),
         M!One(<<"%", "D">>, Every \ MCDigits, <<"-">>), M!One(<<"%", "]">>, {"]"}, <<"?">>),
         M!One(Set, MCLetters, <<"+">>), M!One(NotA, Every \ {"a"}, <<"*">>), M!One(Odd, {"]", "1"}, <<>>),
         M!Frontier(Set, MCLetters), M!Frontier(NotA, (Every \ {"a"}) \cup {""}), M!Balanced("a", "b"),
         M!End, M!Back(2, "2"), M!Broken(<<"%">>), M!Broken(<<"[", "a">>), M!Broken(<<"%", "b", "a">>),
         M!Broken(<<"%", "f", "a">>)}
Final == {"end", "broken"}

Short == {<<>>} \cup {<<i>> : i \in Common \cup Rare} \cup ((Common \cup Rare) \X (Common \cup Rare))
           \cup (Common \X Common \X Common)
Long == {<<M!Open, Dot(<<"*">>), M!Close, M!Back(1, "1"), M!End>>,
         <<M!Open, M!Open, A(<<"*">>), M!Close, B(<<"?">>), M!Close, M!Back(2, "2")>>,
         <<M!Open, A(<<"-">>), M!Close, M!Open, A(<<"*">>), M!Close, B(<<>>)>>,
         <<M!Here, M!Open, A(<<>>), M!Close, M!Open, M!Balanced("a", "b"), M!Close>>,
         <<M!Open, M!Open, A(<<>>), M!Here, M!Close, Dot(<<>>), M!Close, B(<<"-">>), M!End>>,
         <<M!Here, M!Here, M!Here, M!Here>>, <<M!Here, A(<<"*">>), M!Back(1, "1")>>,
         <<M!Open, B(<<"*">>), M!Open, A(<<>>), M!Close, M!Back(2, "2")>>}

\* "(" and ")" side by side are the item Here.
Writable(p) == \A k \in 1 .. Len(p) - 1 : /\ p[k].kind \notin Final
                                          /\ ~(p[k].kind = "open" /\ p[k + 1].kind = "close")

MCPatterns ==
    LET items == {p \in Short \cup Long : Writable(p)}
    IN {[items |-> p, anchored |-> FALSE] : p \in items}
         \cup {[items |-> p, anchored |-> TRUE] : p \in {q \in items : Len(q) = 2}}

\* Replacements: a text in which "%0" and "%1" may stand, or a table or a
\* function that has "b" for the matches of field.
Parts == {<<>>, <<"b">>, <<"%0", "1">>, <<"%1", "%">>}
PartText(c) == CASE c = "%0" -> <<"%", "0">>
                 [] c = "%1" -> <<"%", "1">>
                 [] c = "%" -> <<"%", "%">>
                 [] OTHER -> <<c>>
Replacements ==
    {[tr |-> "string", parts |-> p, news |-> FlattenSeq([k \in DOMAIN p |-> PartText(p[k])]), field |-> {}] : p \in Parts}
      \cup {[tr |-> t, parts |-> <<>>, news |-> <<"b">>, field |-> {<<>>, <<"a">>, <<"b", "a">>}] : t \in {"table", "function"}}

MCIndices == {-5, -2, -1, 0, 1, 2, 5}
MCLimits == {0, 1, 2, 9}

-----------------------------------------------------------------------------
Written == (IF pattern.anchored THEN <<"^">> ELSE <<>>) \o M!TextOf(pattern.items)

Means(p, src) ==
    IF ~M!WellFormed(p.items) THEN [from |-> <<>>, all |-> <<>>]
    ELSE [from |-> [i \in Indices |->
                       LET s == M!FirstIndex(i, Len(src))
                       IN M!FirstOf(p.items, src, s, IF p.anchored THEN s ELSE Len(src) + 1)],
          all |-> M!AllFrom(p.items, src, 1)]

Init == pattern \in Patterns /\ subject = <<>> /\ meaning = Means(pattern, <<>>)
Next == subject = <<>> /\ \E src \in Subjects : subject' = src /\ meaning' = Means(pattern, src) /\ UNCHANGED pattern
Spec == Init /\ [][Next]_vars

\* string.match, string.find and string.gmatch give what the pattern means: the
\* leftmost match, of these the one that prefers what the earlier items prefer,
\* and its captures; whatever captures the matcher had set and given up before.
\* A pattern that is malformed is never matched.
MatchesAsMeant ==
    IF M!WellFormed(pattern.items)
    THEN /\ \A i \in Indices :
               LET m == meaning.from[i]
                   found == Find(subject, Written, i, TRUE, FALSE)
                   matched == Find(subject, Written, i, FALSE, FALSE)
               IN IF m.start = 0 \/ i > Len(subject) + 1 THEN found = Nothing /\ matched = Nothing
                  ELSE /\ found = Result(m.start, m.e - 1, m.caps)
                       /\ matched = Result(m.start, m.e - 1, M!ValuesOf(subject, m))
         /\ LET all == meaning.all
            IN Gmatch(subject, Written) = IF pattern.anchored THEN <<>>
                                          ELSE [k \in DOMAIN all |-> M!ValuesOf(subject, all[k])]
    ELSE /\ \A i \in Indices : Find(subject, Written, i, FALSE, FALSE) \in {Nothing, Wrong}
         /\ \A caps \in ToSet(Gmatch(subject, Written)) : Fails(caps)

\* What stands for match m.
Replacing(repl, m) ==
    LET whole == SubSeq(subject, m.start, m.e - 1)
        first == M!ValuesOf(subject, m)[1]
        part(c) == CASE c = "%0" -> whole [] c = "%1" -> AsText(first) [] OTHER -> <<c>>
    IN IF repl.tr = "string" THEN FlattenSeq([k \in DOMAIN repl.parts |-> part(repl.parts[k])])
       ELSE IF first.kind = "string" /\ first.val \in repl.field THEN repl.news ELSE whole

\* string.gsub replaces the matches that gmatch lists, the first max_s of them,
\* copies every other character once, and counts what it replaced; with an
\* anchor there is one match at most, at the start.
GsubReplacesMatches ==
    M!WellFormed(pattern.items) =>
        LET all == IF ~pattern.anchored THEN meaning.all
                   ELSE IF meaning.from[1].start = 0 THEN <<>> ELSE <<meaning.from[1]>>
            left(n) == SubSeq(all, 1, Min({n, Len(all)}))
            next(ms, k) == IF k = 0 THEN 1 ELSE ms[k].e
            text(repl, ms) ==
                FlattenSeq([k \in DOMAIN ms |-> SubSeq(subject, next(ms, k - 1), ms[k].start - 1) \o Replacing(repl, ms[k])])
                  \o SubSeq(subject, next(ms, Len(ms)), Len(subject))
        IN \A repl \in Replacements, n \in Limits :
              Gsub(subject, Written, repl, n) = [b |-> text(repl, left(n)), n |-> Len(left(n))]

\* string.sub and string.byte take the characters whose places, from either end,
\* are in the range asked for, whatever the indices; string.reverse mirrors
\* them; and a plain find gives the first place from an index on where
\* string.sub gives back the text.  The pattern plays no part: one is enough.
SubstringsRight ==
    pattern.items = <<>> =>
    LET n == Len(subject)
        taken(i, j) == SelectSeq([k \in 1 .. n |-> k], LAMBDA k : M!InRange(i, k, j, n))
    IN \A i, j \in Indices :
          LET sub == [k \in DOMAIN taken(i, j) |-> subject[taken(i, j)[k]]]
              from == M!FirstIndex(i, n)
              hits == {k \in from .. n + 1 - Len(sub) : str_sub(subject, k, k + Len(sub) - 1) = sub}
          IN /\ str_sub(subject, i, j) = sub
             /\ j # 0 => str_byte(subject, i, j) = sub
             /\ i # 0 /\ j # 0 => str_reverse(str_sub(str_reverse(subject), -j, -i)) = sub
             /\ Find(subject, sub, i, TRUE, TRUE) =
                   IF hits = {} THEN Nothing ELSE Result(Min(hits), Min(hits) + Len(sub) - 1, <<>>)
=============================================================================
