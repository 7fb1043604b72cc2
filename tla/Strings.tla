------------------------------ MODULE Strings -------------------------------
(***************************************************************************)
(* The string library of scripts, lstrlib.c: substrings, and find, match,  *)
(* gmatch and gsub with the backtracking matcher below them.               *)
(*                                                                         *)
(* A string is a sequence of characters, and a pointer into it an index:   *)
(* Len + 1 is the terminator, 0 is NULL, and ERROR stands for the call of  *)
(* luaL_error, after which nothing goes on.  ms is the MatchState: src,    *)
(* pat and the captures [init, len], whose number is ms->level.            *)
(***************************************************************************)
EXTENDS Integers, SequencesExt

CONSTANTS LUA_MAXCAPTURES,
          Chars,            \* the characters in their order
          Letters, Digits   \* classes of them, what isalpha and isdigit say

CAP_UNFINISHED == -1
CAP_POSITION == -2
NULL == 0
ERROR == -1

L_ESC == "%"
SPECIALS == {"^", "$", "*", "+", "?", ".", "(", "[", "%", "-"}

\* The character at i; "" is the terminator.
At(s, i) == IF i = Len(s) + 1 THEN "" ELSE s[i]

-----------------------------------------------------------------------------
\* Faulty variant: -1 is the position after the last character.
posrelat_FromEnd(pos, len) == IF pos >= 0 THEN pos ELSE IF -pos > len THEN 0 ELSE len + pos + 2

posrelat(pos, len) == IF pos >= 0 THEN pos ELSE IF -pos > len THEN 0 ELSE len + pos + 1

str_sub(s, i, j) ==
    LET start == Max({1, posrelat(i, Len(s))})
        end == Min({Len(s), posrelat(j, Len(s))})
    IN IF start <= end THEN SubSeq(s, start, end) ELSE <<>>

str_reverse(s) == [k \in DOMAIN s |-> s[Len(s) + 1 - k]]

\* The bytes, which come to no more than a table of arguments has slots for.
str_byte(s, i, j) ==
    LET posi == Max({1, posrelat(i, Len(s))})
        pose == Min({Len(s), posrelat(j, Len(s))})
    IN IF posi > pose THEN <<>> ELSE [k \in 1 .. pose - posi + 1 |-> s[posi + k - 1]]

\* n copies with sep between them.
str_rep(s, n, sep) ==
    IF n <= 0 THEN <<>> ELSE FlattenSeq([k \in 1 .. n - 1 |-> s \o sep]) \o s

-----------------------------------------------------------------------------
\* Classes.  An index is ERROR when the pattern is malformed.

\* The end of the set from p on: at least one member, which may be "]".
RECURSIVE SetEnd(_, _)
SetEnd(pat, p) ==
    LET q == IF pat[p] = L_ESC /\ p < Len(pat) THEN p + 2 ELSE p + 1
    IN IF p = Len(pat) + 1 THEN ERROR
       ELSE IF At(pat, q) = "]" THEN q + 1
       ELSE SetEnd(pat, q)

classend(pat, p) ==
    CASE pat[p] = L_ESC -> IF p = Len(pat) THEN ERROR ELSE p + 2
      [] pat[p] = "[" -> SetEnd(pat, IF At(pat, p + 1) = "^" THEN p + 2 ELSE p + 1)
      [] OTHER -> p + 1

match_class(c, cl) ==
    CASE cl = "a" -> c \in Letters
      [] cl = "A" -> c \notin Letters
      [] cl = "d" -> c \in Digits
      [] cl = "D" -> c \notin Digits
      [] OTHER -> cl = c

Between(x, c, y) == \E i, j, k \in DOMAIN Chars :
                       /\ Chars[i] = x /\ Chars[j] = c /\ Chars[k] = y
                       /\ i <= j /\ j <= k

RECURSIVE InSet(_, _, _, _)
InSet(c, pat, p, ec) ==
    /\ p < ec
    /\ IF pat[p] = L_ESC THEN match_class(c, pat[p + 1]) \/ InSet(c, pat, p + 2, ec)
       ELSE IF pat[p + 1] = "-" /\ p + 2 < ec THEN Between(pat[p], c, pat[p + 2]) \/ InSet(c, pat, p + 3, ec)
       ELSE pat[p] = c \/ InSet(c, pat, p + 1, ec)

\* ec is the closing bracket.
matchbracketclass(c, pat, p, ec) ==
    IF pat[p + 1] = "^" THEN ~InSet(c, pat, p + 2, ec) ELSE InSet(c, pat, p + 1, ec)

singlematch(c, pat, p, ep) ==
    CASE pat[p] = "." -> TRUE
      [] pat[p] = L_ESC -> match_class(c, pat[p + 1])
      [] pat[p] = "[" -> matchbracketclass(c, pat, p, ep - 1)
      [] OTHER -> pat[p] = c

-----------------------------------------------------------------------------
\* The matcher.  e is the end of the match, NULL or ERROR; ms what the captures
\* are by then.

Res(e, ms) == [e |-> e, ms |-> ms]

RECURSIVE match(_, _, _)

Level(ms) == Len(ms.cap)
Unfinished(ms) == {l \in DOMAIN ms.cap : ms.cap[l].len = CAP_UNFINISHED}

start_capture(ms, s, p, what) ==
    LET r == match([ms EXCEPT !.cap = Append(@, [init |-> s, len |-> what])], s, p)
    IN IF Level(ms) >= LUA_MAXCAPTURES THEN Res(ERROR, ms)
       ELSE IF r.e = NULL THEN [r EXCEPT !.ms.cap = Front(@)] ELSE r

\* Faulty variant: a capture that did not lead to a match stays closed.
end_capture_StaysClosed(ms, s, p) ==
    LET l == Max(Unfinished(ms))
        r == match([ms EXCEPT !.cap[l].len = s - ms.cap[l].init], s, p)
    IN IF Unfinished(ms) = {} THEN Res(ERROR, ms) ELSE r

end_capture(ms, s, p) ==
    LET l == Max(Unfinished(ms))
        r == match([ms EXCEPT !.cap[l].len = s - ms.cap[l].init], s, p)
    IN IF Unfinished(ms) = {} THEN Res(ERROR, ms)
       ELSE IF r.e = NULL THEN [r EXCEPT !.ms.cap[l].len = CAP_UNFINISHED] ELSE r

\* A position capture has a length that no rest of the subject has.
match_capture(ms, s, l) ==
    LET c == ms.cap[l] IN
    IF l \notin DOMAIN ms.cap \ Unfinished(ms) THEN ERROR
    ELSE IF /\ c.len # CAP_POSITION /\ Len(ms.src) + 1 - s >= c.len
            /\ \A k \in 0 .. c.len - 1 : ms.src[c.init + k] = ms.src[s + k]
         THEN s + c.len ELSE NULL

matchbalance(ms, s, p) ==
    LET b == ms.pat[p]
        e == ms.pat[p + 1]
        cont[k \in s .. Len(ms.src)] ==
            IF k = s THEN 1
            ELSE cont[k - 1] + (IF ms.src[k] = e THEN -1 ELSE IF ms.src[k] = b THEN 1 ELSE 0)
        ends == {k \in s + 1 .. Len(ms.src) : cont[k] = 0}
    IN IF p >= Len(ms.pat) THEN ERROR
       ELSE IF At(ms.src, s) # b \/ ends = {} THEN NULL
       ELSE Min(ends) + 1

Single(ms, s, p, ep) == s <= Len(ms.src) /\ singlematch(ms.src[s], ms.pat, p, ep)

\* From the longest repetition down to none.
RECURSIVE Shrink(_, _, _, _)
Shrink(ms, s, i, ep) ==
    LET r == match(ms, s + i, ep + 1)
    IN IF r.e # NULL \/ i = 0 THEN r ELSE Shrink(r.ms, s, i - 1, ep)

max_expand(ms, s, p, ep) ==
    LET fits == {n \in 0 .. Len(ms.src) + 1 - s : \A k \in 0 .. n - 1 : Single(ms, s + k, p, ep)}
    IN Shrink(ms, s, Max(fits), ep)

RECURSIVE min_expand(_, _, _, _)
min_expand(ms, s, p, ep) ==
    LET r == match(ms, s, ep + 1)
    IN IF r.e # NULL \/ ~Single(ms, s, p, ep) THEN r ELSE min_expand(r.ms, s + 1, p, ep)

\* The rest of the pattern from p, or the end of this attempt.
Then(ms, s, p) == IF s \in {NULL, ERROR} THEN Res(s, ms) ELSE match(ms, s, p)

frontier(ms, s, p) ==
    LET ep == classend(ms.pat, p)
        previous == IF s = 1 THEN "" ELSE ms.src[s - 1]
    IN IF At(ms.pat, p) # "[" \/ ep = ERROR THEN Res(ERROR, ms)
       ELSE IF \/ matchbracketclass(previous, ms.pat, p, ep - 1)
               \/ ~matchbracketclass(At(ms.src, s), ms.pat, p, ep - 1) THEN Res(NULL, ms)
       ELSE match(ms, s, ep)

\* dflt: a class with its optional suffix.
Item(ms, s, p) ==
    LET ep == classend(ms.pat, p)
        m == Single(ms, s, p, ep)
        r == match(ms, s + 1, ep + 1)
    IN IF ep = ERROR THEN Res(ERROR, ms)
       ELSE CASE At(ms.pat, ep) = "?" -> IF m /\ r.e # NULL THEN r
                                         ELSE match(IF m THEN r.ms ELSE ms, s, ep + 1)
              [] At(ms.pat, ep) = "*" -> max_expand(ms, s, p, ep)
              [] At(ms.pat, ep) = "+" -> IF m THEN max_expand(ms, s + 1, p, ep) ELSE Res(NULL, ms)
              [] At(ms.pat, ep) = "-" -> min_expand(ms, s, p, ep)
              [] OTHER -> IF m THEN match(ms, s + 1, ep) ELSE Res(NULL, ms)

\* The number that a digit stands for.
Numerals == <<"1", "2", "3", "4", "5", "6", "7", "8", "9">>
IsDigit(c) == c \in ToSet(Numerals) \cup {"0"}
NumberOf(c) == IF c = "0" THEN 0 ELSE CHOOSE n \in DOMAIN Numerals : Numerals[n] = c

match(ms, s, p) ==
    LET c == At(ms.pat, p)
        d == At(ms.pat, p + 1)
    IN CASE c = "" -> Res(s, ms)
         [] c = "(" -> IF d = ")" THEN start_capture(ms, s, p + 2, CAP_POSITION)
                                  ELSE start_capture(ms, s, p + 1, CAP_UNFINISHED)
         [] c = ")" -> end_capture(ms, s, p + 1)
         [] c = "$" /\ p = Len(ms.pat) -> Res(IF s = Len(ms.src) + 1 THEN s ELSE NULL, ms)
         [] c = L_ESC /\ d = "b" -> Then(ms, matchbalance(ms, s, p + 2), p + 4)
         [] c = L_ESC /\ d = "f" -> frontier(ms, s, p + 2)
         [] c = L_ESC /\ IsDigit(d) -> Then(ms, match_capture(ms, s, NumberOf(d)), p + 2)
         [] OTHER -> Item(ms, s, p)

-----------------------------------------------------------------------------
\* The values that a match pushes, of which a position is one, an error another.

Text(str) == [kind |-> "string", val |-> str]
Position(n) == [kind |-> "position", val |-> n]
Failure == [kind |-> "error", val |-> <<"error">>]

\* Captures count from 1 here.
push_onecapture(ms, i, s, e) ==
    IF i > Level(ms) THEN IF i = 1 THEN Text(SubSeq(ms.src, s, e - 1)) ELSE Failure
    ELSE LET c == ms.cap[i]
         IN CASE c.len = CAP_UNFINISHED -> Failure
              [] c.len = CAP_POSITION -> Position(c.init)
              [] OTHER -> Text(SubSeq(ms.src, c.init, c.init + c.len - 1))

\* s is NULL when the whole match is no value.
push_captures(ms, s, e) ==
    [i \in 1 .. (IF Level(ms) = 0 /\ s # NULL THEN 1 ELSE Level(ms)) |-> push_onecapture(ms, i, s, e)]

Fails(values) == \E i \in DOMAIN values : values[i].kind = "error"

-----------------------------------------------------------------------------
\* find and match.  The result has where the match is, which match leaves out,
\* and the captures; start is NULL for nil and ERROR for an error.

Result(start, e, caps) == [start |-> start, e |-> e, caps |-> caps]
Nothing == Result(NULL, NULL, <<>>)
Wrong == Result(ERROR, NULL, <<>>)

State(src, pat) == [src |-> src, pat |-> pat, cap |-> <<>>]
Anchored(pat) == At(pat, 1) = "^"
Unanchored(pat) == IF Anchored(pat) THEN Tail(pat) ELSE pat

\* The first match from s1 on.
RECURSIVE Attempts(_, _, _)
Attempts(ms, s1, anchor) ==
    LET r == match([ms EXCEPT !.cap = <<>>], s1, 1)
    IN IF r.e # NULL THEN [start |-> s1, e |-> r.e, ms |-> r.ms]
       ELSE IF s1 <= Len(ms.src) /\ ~anchor THEN Attempts(r.ms, s1 + 1, anchor)
       ELSE [start |-> NULL, e |-> NULL, ms |-> ms]

lmemfind(s, from, p) ==
    LET hits == {k \in from .. Len(s) + 1 - Len(p) : \A i \in DOMAIN p : s[k + i - 1] = p[i]}
    IN IF hits = {} THEN NULL ELSE Min(hits)

nospecials(p) == ToSet(p) \cap SPECIALS = {}

str_find_aux(s, pat, i, find, plain) ==
    LET init == Max({1, posrelat(i, Len(s))})
        s2 == lmemfind(s, init, pat)
        m == Attempts(State(s, Unanchored(pat)), init, Anchored(pat))
        caps == push_captures(m.ms, IF find THEN NULL ELSE m.start, m.e)
    IN IF init > Len(s) + 1 THEN Nothing
       ELSE IF find /\ (plain \/ nospecials(pat))
       THEN IF s2 = NULL THEN Nothing ELSE Result(s2, s2 + Len(pat) - 1, <<>>)
       ELSE IF m.start = NULL THEN Nothing
       ELSE IF m.e = ERROR \/ Fails(caps) THEN Wrong
       ELSE Result(m.start, m.e - 1, caps)

-----------------------------------------------------------------------------
\* gmatch: what its calls return, from src on.  After an empty match the next
\* one starts a character later.
RECURSIVE gmatch_aux(_, _, _)
gmatch_aux(s, pat, src) ==
    LET m == Attempts(State(s, pat), src, FALSE)
    IN IF src > Len(s) + 1 \/ m.start = NULL THEN <<>>
       ELSE IF m.e = ERROR THEN <<<<Failure>>>>
       ELSE <<push_captures(m.ms, m.start, m.e)>>
              \o gmatch_aux(s, pat, IF m.e = m.start THEN m.e + 1 ELSE m.e)

gmatch(s, pat) == gmatch_aux(s, pat, 1)

\* gsub.  A replacement is a string news, in which % and a digit is a capture;
\* a table that has the text news at the keys field; or a function that returns
\* news when its first argument is in field.  An error leaves "error" in the
\* buffer.

AsText(value) == IF value.kind = "position" THEN <<Numerals[value.val]>> ELSE value.val

RECURSIVE add_s(_, _, _, _)
add_s(ms, news, s, e) ==
    LET d == At(news, 2)
        rest(k) == add_s(ms, SubSeq(news, k, Len(news)), s, e)
    IN IF news = <<>> THEN <<>>
       ELSE IF news[1] # L_ESC THEN <<news[1]>> \o rest(2)
       ELSE IF ~IsDigit(d) THEN <<(IF d = L_ESC THEN d ELSE "error")>> \o rest(3)
       ELSE (IF d = "0" THEN SubSeq(ms.src, s, e - 1) ELSE AsText(push_onecapture(ms, NumberOf(d), s, e)))
              \o rest(3)

add_value(ms, s, e, repl) ==
    LET args == IF repl.tr = "function" THEN push_captures(ms, s, e) ELSE <<push_onecapture(ms, 1, s, e)>>
    IN IF repl.tr = "string" THEN add_s(ms, repl.news, s, e)
       ELSE IF Fails(args) THEN <<"error">>
       ELSE IF args[1].kind = "string" /\ args[1].val \in repl.field THEN repl.news
       ELSE SubSeq(ms.src, s, e - 1)

\* Faulty variant: after an empty match the character there is not copied.
RECURSIVE Replaced_LosesChar(_, _, _, _, _)
Replaced_LosesChar(ms, src, left, anchor, repl) ==
    LET r == match(ms, src, 1)
        add == IF r.e = NULL THEN <<>> ELSE add_value(r.ms, src, r.e, repl)
        copy == IF src > Len(ms.src) \/ r.e # NULL THEN <<>> ELSE <<ms.src[src]>>
        next == IF r.e > src THEN r.e ELSE src + Len(copy)
        n == IF r.e = NULL THEN 0 ELSE 1
        more == IF anchor \/ next = src THEN [b |-> SubSeq(ms.src, next, Len(ms.src)), n |-> 0]
                ELSE Replaced_LosesChar(ms, next, left - n, anchor, repl)
    IN IF left = 0 THEN [b |-> SubSeq(ms.src, src, Len(ms.src)), n |-> 0]
       ELSE IF r.e = ERROR THEN [b |-> <<"error">>, n |-> 0]
       ELSE [b |-> add \o copy \o more.b, n |-> n + more.n]

\* The text from src on with left replacements at most, and their number.
RECURSIVE Replaced(_, _, _, _, _)
Replaced(ms, src, left, anchor, repl) ==
    LET r == match(ms, src, 1)
        add == IF r.e = NULL THEN <<>> ELSE add_value(r.ms, src, r.e, repl)
        copy == IF src > Len(ms.src) \/ r.e > src THEN <<>> ELSE <<ms.src[src]>>
        next == IF r.e > src THEN r.e ELSE src + Len(copy)
        n == IF r.e = NULL THEN 0 ELSE 1
        more == IF anchor \/ next = src THEN [b |-> SubSeq(ms.src, next, Len(ms.src)), n |-> 0]
                ELSE Replaced(ms, next, left - n, anchor, repl)
    IN IF left = 0 THEN [b |-> SubSeq(ms.src, src, Len(ms.src)), n |-> 0]
       ELSE IF r.e = ERROR THEN [b |-> <<"error">>, n |-> 0]
       ELSE [b |-> add \o copy \o more.b, n |-> n + more.n]

str_gsub(s, pat, repl, max_s) == Replaced(State(s, Unanchored(pat)), 1, max_s, Anchored(pat), repl)
=============================================================================
