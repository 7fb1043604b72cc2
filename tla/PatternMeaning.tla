--------------------------- MODULE PatternMeaning ---------------------------
(***************************************************************************)
(* What a pattern of the string library means, independently of how        *)
(* lstrlib.c looks for it.                                                 *)
(*                                                                         *)
(* A pattern is a sequence of items.  A way to match it at s gives each    *)
(* item the number of characters it takes: way[k] of them, from Pos(s,     *)
(* way, k) on.  Of two ways, the better one gives more to the first item   *)
(* they differ in, or less when this item is lazy.                         *)
(***************************************************************************)
EXTENDS Integers, SequencesExt

CONSTANT MaxCaptures

\* kind: "one" (characters of set, as often as rep says), "open", "close" and
\* "here" (captures), "back" (the text of capture x again), "balanced" (from an
\* x to its y), "frontier" (a border of set), "end" (of the subject), "broken".
\* text is how the item is written.
Item(kind, text, set, rep, x, y) ==
    [kind |-> kind, text |-> text, set |-> set, rep |-> rep, x |-> x, y |-> y]

One(text, set, rep) == Item("one", text \o rep, set, rep, "", "")
Mark(kind, text) == Item(kind, text, {}, <<>>, "", "")
Open == Mark("open", <<"(">>)
Close == Mark("close", <<")">>)
Here == Mark("here", <<"(", ")">>)
End == Mark("end", <<"$">>)
Broken(text) == Mark("broken", text)
Back(l, digit) == Item("back", <<"%", digit>>, {}, <<>>, l, "")
Balanced(x, y) == Item("balanced", <<"%", "b", x, y>>, {}, <<>>, x, y)
Frontier(text, set) == Item("frontier", <<"%", "f">> \o text, set, <<>>, "", "")

TextOf(items) == FlattenSeq([k \in DOMAIN items |-> items[k].text])

-----------------------------------------------------------------------------
\* Captures are numbered by where they open.
Captures(items) == SelectSeq([k \in DOMAIN items |-> k], LAMBDA k : items[k].kind \in {"open", "here"})

Count(items, kind, i, j) == Cardinality({k \in i .. j : items[k].kind = kind})

\* The item that closes what item k opens, one past the last if there is none.
Closes(items, k) ==
    LET at == {c \in k .. Len(items) : Count(items, "open", k, c) = Count(items, "close", k, c)}
    IN IF at = {} THEN Len(items) + 1 ELSE Min(at)

\* Capture l is over before item k.
Over(items, l, k) ==
    /\ l \in DOMAIN Captures(items)
    /\ LET o == Captures(items)[l]
       IN o < k /\ (items[o].kind = "here" \/ Closes(items, o) < k)

WellFormed(items) ==
    /\ Len(Captures(items)) <= MaxCaptures
    /\ \A k \in DOMAIN items :
          /\ items[k].kind # "broken"
          /\ items[k].kind = "open" => Closes(items, k) <= Len(items)
          /\ items[k].kind = "close" => Count(items, "close", 1, k) <= Count(items, "open", 1, k)
          /\ items[k].kind = "back" => Over(items, items[k].x, k)

-----------------------------------------------------------------------------
Pos(s, way, k) == s + FoldSeq(LAMBDA x, y : x + y, 0, SubSeq(way, 1, k - 1))

\* The text of capture l, which is over.
CapturedText(items, src, s, way, l) ==
    LET o == Captures(items)[l]
    IN SubSeq(src, Pos(s, way, o), Pos(s, way, Closes(items, o)) - 1)

CharAt(src, i) == IF i \in DOMAIN src THEN src[i] ELSE ""

Often(rep) == CASE rep = <<>> -> {1}
                [] rep = <<"?">> -> {0, 1}
                [] rep = <<"+">> -> Nat \ {0}
                [] OTHER -> Nat

\* The last item of way fits where it stands.
Fits(items, src, s, way) ==
    LET k == Len(way)
        it == items[k]
        n == way[k]
        from == Pos(s, way, k)
        depth(j) == Cardinality({i \in from .. j : src[i] = it.x}) - Cardinality({i \in from .. j : src[i] = it.y})
    IN /\ from + n <= Len(src) + 1
       /\ CASE it.kind = "one" -> n \in Often(it.rep) /\ \A j \in from .. from + n - 1 : src[j] \in it.set
            [] it.kind = "back" -> /\ items[Captures(items)[it.x]].kind = "open"
                                   /\ SubSeq(src, from, from + n - 1) = CapturedText(items, src, s, way, it.x)
            [] it.kind = "balanced" -> /\ n > 1 /\ src[from] = it.x
                                       /\ depth(from + n - 1) = 0
                                       /\ \A j \in from .. from + n - 2 : depth(j) # 0
            [] it.kind = "frontier" -> n = 0 /\ CharAt(src, from - 1) \notin it.set /\ CharAt(src, from) \in it.set
            [] it.kind = "end" -> n = 0 /\ from = Len(src) + 1
            [] OTHER -> n = 0

\* The ways of the first k items.
RECURSIVE Ways(_, _, _, _)
Ways(items, src, s, k) ==
    IF k = 0 THEN {<<>>}
    ELSE LET before == Ways(items, src, s, k - 1)
         IN {way \in {Append(w, n) : w \in before, n \in 0 .. Len(src)} : Fits(items, src, s, way)}

Better(items, v, w) ==
    \E k \in DOMAIN v :
       /\ \A j \in 1 .. k - 1 : v[j] = w[j]
       /\ IF items[k].rep = <<"-">> THEN v[k] < w[k] ELSE v[k] > w[k]

Best(items, ways) == CHOOSE v \in ways : \A w \in ways \ {v} : Better(items, v, w)

\* A match is [start, e, caps], from start to before e; start is 0 if there is
\* none.  A capture is a text or a position.
MatchAt(items, src, s, ways) ==
    LET way == Best(items, ways)
        caps == Captures(items)
    IN [start |-> s, e |-> Pos(s, way, Len(items) + 1),
        caps |-> [l \in DOMAIN caps |->
                     IF items[caps[l]].kind = "here" THEN [kind |-> "position", val |-> Pos(s, way, caps[l])]
                     ELSE [kind |-> "string", val |-> CapturedText(items, src, s, way, l)]]]

\* The first match that starts in starts.
RECURSIVE FirstOf(_, _, _, _)
FirstOf(items, src, s, last) ==
    LET ways == Ways(items, src, s, Len(items))
    IN IF s > last THEN [start |-> 0, e |-> 0, caps |-> <<>>]
       ELSE IF ways # {} THEN MatchAt(items, src, s, ways)
       ELSE FirstOf(items, src, s + 1, last)

\* The matches one after the other: the next one starts at the end of the last,
\* or a character further if the last was empty.
RECURSIVE AllFrom(_, _, _)
AllFrom(items, src, s) ==
    LET m == FirstOf(items, src, s, Len(src) + 1)
    IN IF s > Len(src) + 1 THEN <<>>
       ELSE IF m.start = 0 THEN <<>>
       ELSE <<m>> \o AllFrom(items, src, IF m.e = m.start THEN m.e + 1 ELSE m.e)

\* What the captures of a match are for who asked: the whole match if it has none.
ValuesOf(src, m) ==
    IF m.caps # <<>> THEN m.caps ELSE <<[kind |-> "string", val |-> SubSeq(src, m.start, m.e - 1)]>>

-----------------------------------------------------------------------------
\* An index counts from 1 on, or from -1 backwards.
InRange(i, k, j, len) ==
    /\ IF i < 0 THEN k - len - 1 >= i ELSE k >= i
    /\ IF j < 0 THEN k - len - 1 <= j ELSE k <= j

FirstIndex(i, len) == IF i > 0 THEN i ELSE IF i = 0 \/ i < -len THEN 1 ELSE len + 1 + i
=============================================================================
