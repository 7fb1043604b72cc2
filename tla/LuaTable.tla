------------------------------ MODULE LuaTable ------------------------------
(***************************************************************************)
(* A Lua table, ltable.c: an array part and a hash part of nodes that      *)
(* chain the keys of one main position, after Brent.  The collector may    *)
(* make the key of a cleared field dead; a traversal with next goes on     *)
(* from such a key all the same.                                           *)
(*                                                                         *)
(* Nodes are numbered from 1, and 0 is NULL.  lastfree counts the nodes    *)
(* below the pointer of that name.  A table with dummy has the one node    *)
(* dummynode.                                                              *)
(***************************************************************************)
EXTENDS Integers, SequencesExt

CONSTANTS Ints, Strs, Objs,     \* the keys: integers, strings, other objects
          Hash,                 \* their hashes, before the modulus
          Nil,
          MAXBITS, MAX_INT,
          Hints                 \* sizes <<narray, nhash>> that new tables ask for

Keys == Ints \cup Strs \cup Objs

ASSUME KeysApart == /\ Ints \subseteq 1 .. MAX_INT /\ Nil \notin Keys
                    /\ Hash \in [Keys -> Nat] /\ MAXBITS \in Nat

VARIABLES t,                \* the table
          constructing,     \* its constructor runs
          found,            \* what luaH_get answers for every key, a function of t
          cursor,           \* the last key of the traversal: Nil at its beginning
          seen, must, going, did \* as in TableMap

vars == <<t, found, constructing, cursor, seen, must, going, did>>

\* The value that a program stores at a key tells where it belongs.
Value(k) == k

-----------------------------------------------------------------------------
sizenode(x) == Len(x.node)
freshnode == [key |-> Nil, dead |-> FALSE, val |-> Nil, next |-> 0]

mainposition(x, k) ==
    (Hash[k] % (IF k \in Strs THEN sizenode(x)
                 ELSE IF sizenode(x) = 1 THEN 1 ELSE sizenode(x) - 1)) + 1

\* The nodes from p on, n at most.
RECURSIVE Nodes(_, _, _)
Nodes(x, p, n) == IF p = 0 \/ n = 0 THEN <<>> ELSE <<p>> \o Nodes(x, x.node[p].next, n - 1)

Chain(x, p) == Nodes(x, p, sizenode(x))

\* The first node of the chain of k whose key is k, or 0: for lookups a dead
\* key is no key, for next it is.
Find(x, k, alsoDead) ==
    LET c == Chain(x, mainposition(x, k))
        hits == {i \in DOMAIN c : x.node[c[i]].key = k /\ (alsoDead \/ ~x.node[c[i]].dead)}
    IN IF hits = {} THEN 0 ELSE c[Min(hits)]

InArray(x, k) == k \in Ints /\ k <= Len(x.array)

luaH_get(x, k) ==
    IF InArray(x, k) THEN x.array[k]
    ELSE LET n == Find(x, k, FALSE) IN IF n = 0 THEN Nil ELSE x.node[n].val

luaH_getint(x, i) == IF i \in Ints THEN luaH_get(x, i) ELSE Nil

-----------------------------------------------------------------------------
\* New keys.

getfreepos(x) == Max({0} \cup {n \in 1 .. x.lastfree : x.node[n].key = Nil})

\* The colliding node moves to n and leaves mp free.
Displace(x, mp, n) ==
    LET c == Chain(x, mainposition(x, x.node[mp].key))
        before == CHOOSE p \in ToSet(c) : x.node[p].next = mp
    IN [x EXCEPT !.node[n] = x.node[mp], !.node[before].next = n, !.node[mp].next = 0]

Fill(x, n, k, v) == [x EXCEPT !.node[n] = [@ EXCEPT !.key = k, !.dead = FALSE, !.val = v]]

\* luaH_newkey and the assignment of v, up to rehash: full when no node is free.
luaH_newkey(x, k, v) ==
    LET mp == mainposition(x, k)
        n == getfreepos(x)
        y == [x EXCEPT !.lastfree = n - 1]
    IN IF x.node[mp].val = Nil /\ ~x.dummy THEN Fill(x, mp, k, v)
       ELSE IF n = 0 THEN [x EXCEPT !.full = TRUE]
       ELSE IF mainposition(x, x.node[mp].key) # mp THEN Fill(Displace(y, mp, n), mp, k, v)
       ELSE Fill([y EXCEPT !.node[n].next = x.node[mp].next, !.node[mp].next = n], n, k, v)

Store(x, k, v) ==
    LET n == Find(x, k, FALSE)
    IN IF InArray(x, k) THEN [x EXCEPT !.array[k] = v]
       ELSE IF n # 0 THEN [x EXCEPT !.node[n].val = v]
       ELSE luaH_newkey(x, k, v)

-----------------------------------------------------------------------------
\* Rehash.

ceillog2(k) == CHOOSE i \in 0 .. MAXBITS : 2^i >= k /\ (i = 0 \/ 2^(i - 1) < k)

\* Faulty variant: exactly half of the array part in use is enough.
computesizes_AtLeastHalf(nums, narray) ==
    LET loop[i \in 0 .. MAXBITS + 1] ==
            IF i = 0 THEN [a |-> 0, n |-> 0, na |-> 0, stop |-> FALSE]
            ELSE LET s == loop[i - 1]
                     upto == s.a + nums[i - 1]
                     fits == nums[i - 1] > 0 /\ upto >= 2^(i - 1) \div 2
                 IN IF s.stop \/ 2^(i - 1) \div 2 >= narray THEN [s EXCEPT !.stop = TRUE]
                    ELSE [a |-> upto, n |-> IF fits THEN 2^(i - 1) ELSE s.n,
                          na |-> IF fits THEN upto ELSE s.na, stop |-> upto = narray]
    IN loop[MAXBITS + 1]

\* The size of the array part and how many keys go there, when nums[i] of the
\* narray integer keys are in (2^(i-1), 2^i].
computesizes(nums, narray) ==
    LET loop[i \in 0 .. MAXBITS + 1] ==
            IF i = 0 THEN [a |-> 0, n |-> 0, na |-> 0, stop |-> FALSE]
            ELSE LET s == loop[i - 1]
                     upto == s.a + nums[i - 1]
                     fits == nums[i - 1] > 0 /\ upto > 2^(i - 1) \div 2
                 IN IF s.stop \/ 2^(i - 1) \div 2 >= narray THEN [s EXCEPT !.stop = TRUE]
                    ELSE [a |-> upto, n |-> IF fits THEN 2^(i - 1) ELSE s.n,
                          na |-> IF fits THEN upto ELSE s.na, stop |-> upto = narray]
    IN loop[MAXBITS + 1]

setnodevector(x, size) ==
    LET n == IF size = 0 THEN 1 ELSE 2^ceillog2(size)
    IN [x EXCEPT !.node = [i \in 1 .. n |-> freshnode], !.dummy = (size = 0),
                 !.lastfree = IF size = 0 THEN 0 ELSE n]

setarrayvector(x, size) ==
    [x EXCEPT !.array = [i \in 1 .. size |-> IF i <= Len(@) THEN @[i] ELSE Nil]]

\* What is to be stored again: the slice that the array loses, from its
\* first, then the old nodes, from the last.
luaH_resize(x, nasize, nhsize) ==
    LET again == [i \in 1 .. Max({0, Len(x.array) - nasize}) |->
                    [key |-> nasize + i, val |-> x.array[nasize + i]]]
                 \o [i \in 1 .. sizenode(x) |->
                      [key |-> x.node[sizenode(x) + 1 - i].key, val |-> x.node[sizenode(x) + 1 - i].val]]
        new == setnodevector(setarrayvector(x, nasize), nhsize)
    IN FoldLeft(LAMBDA y, e : Store(y, e.key, e.val), new, SelectSeq(again, LAMBDA e : e.val # Nil))

luaH_resizearray(x, nasize) == luaH_resize(x, nasize, IF x.dummy THEN 0 ELSE sizenode(x))

\* What is counted: the indices in use in the array part, the nodes in use, and
\* which keys could be in an array part.
numusearray(x) == {k \in 1 .. Len(x.array) : x.array[k] # Nil}
numusehash(x) == {n \in 1 .. sizenode(x) : x.node[n].val # Nil}
countint(k) == k \in Ints /\ k <= 2^MAXBITS

\* Faulty variant: the new key has no node of its own.
rehash_ForgetsKey(x, ek) ==
    LET used == numusearray(x)
        hashed == numusehash(x)
        ints == {k \in used \cup {x.node[n].key : n \in hashed} \cup {ek} : countint(k)}
        nums == [i \in 0 .. MAXBITS |-> Cardinality({k \in ints : ceillog2(k) = i})]
        sizes == computesizes(nums, Cardinality(ints))
    IN luaH_resize(x, sizes.n, Max({0, Cardinality(used) + Cardinality(hashed) - sizes.na}))

\* The sizes that fit the keys in use and the new key ek.
rehash(x, ek) ==
    LET used == numusearray(x)
        hashed == numusehash(x)
        ints == {k \in used \cup {x.node[n].key : n \in hashed} \cup {ek} : countint(k)}
        nums == [i \in 0 .. MAXBITS |-> Cardinality({k \in ints : ceillog2(k) = i})]
        sizes == computesizes(nums, Cardinality(ints))
    IN luaH_resize(x, sizes.n, Cardinality(used) + Cardinality(hashed) + 1 - sizes.na)

luaH_set(x, k, v) == LET y == Store(x, k, v) IN IF y.full THEN Store(rehash(x, k), k, v) ELSE y

-----------------------------------------------------------------------------
\* The length.

\* Halves i < j, of which i is present or 0 and j is absent.
Search(x, from, to) ==
    LET step[d \in 1 .. MAX_INT + 1, i \in 0 .. MAX_INT + 1] ==
            IF d <= 1 THEN i
            ELSE LET m == (i + i + d) \div 2
                 IN IF luaH_getint(x, m) = Nil THEN step[m - i, i] ELSE step[i + d - m, m]
    IN step[to - from, from]

unbound_search(x, j) ==
    LET double[i \in 0 .. MAX_INT, k \in 1 .. MAX_INT + 1] ==
            IF luaH_getint(x, k) = Nil THEN Search(x, i, k)
            ELSE IF 2 * k > MAX_INT THEN (CHOOSE n \in 1 .. MAX_INT + 1 :
                                            /\ luaH_getint(x, n) = Nil
                                            /\ \A m \in 1 .. n - 1 : luaH_getint(x, m) # Nil) - 1
            ELSE double[k, 2 * k]
    IN double[j, j + 1]

\* Faulty variant: a full array part ends the search.
luaH_getn_ArrayOnly(x) ==
    LET j == Len(x.array)
    IN IF j > 0 /\ x.array[j] = Nil THEN Search(x, 0, j) ELSE j

luaH_getn(x) ==
    LET j == Len(x.array)
    IN IF j > 0 /\ x.array[j] = Nil THEN Search(x, 0, j)
       ELSE IF x.dummy THEN j
       ELSE unbound_search(x, j)

-----------------------------------------------------------------------------
\* Traversal.  Positions count the array first, from 1; 0 is before the first,
\* -1 is the error "invalid key to 'next'".

\* Faulty variant: a dead key is not found.
findindex_LiveOnly(x, k) ==
    IF k = Nil THEN 0
    ELSE IF InArray(x, k) THEN k
    ELSE LET n == Find(x, k, FALSE) IN IF n = 0 THEN -1 ELSE Len(x.array) + n

findindex(x, k) ==
    IF k = Nil THEN 0
    ELSE IF InArray(x, k) THEN k
    ELSE LET n == Find(x, k, TRUE) IN IF n = 0 THEN -1 ELSE Len(x.array) + n

KeyAt(x, p) == IF p <= Len(x.array) THEN p ELSE x.node[p - Len(x.array)].key
ValueAt(x, p) == IF p <= Len(x.array) THEN x.array[p] ELSE x.node[p - Len(x.array)].val

\* The position of the field after key k, 0 after the last one, -1 for the error.
luaH_next(x, k) ==
    LET i == findindex(x, k)
        after == {p \in i + 1 .. Len(x.array) + sizenode(x) : ValueAt(x, p) # Nil}
    IN IF i = -1 THEN -1 ELSE IF after = {} THEN 0 ELSE Min(after)

-----------------------------------------------------------------------------
Contents(x) == [k \in Keys |-> luaH_get(x, k)]
Fields == {k \in Keys : found[k] # Nil}

luaH_new == setnodevector([array |-> <<>>, node |-> <<>>, lastfree |-> 0, dummy |-> TRUE, full |-> FALSE], 0)

Init == /\ \E hint \in Hints : t = luaH_resize(luaH_new, hint[1], hint[2])
        /\ found = Contents(t)
        /\ constructing = TRUE
        /\ cursor = Nil /\ seen = {} /\ must = {} /\ going = FALSE
        /\ did = [m |-> "", ks |-> {}]

\* What an assignment to ks, of them cleared to nil, does to a traversal:
\* programs go on with next only if no field is new.
Affects(ks, cleared) ==
    LET goes == going /\ ks \subseteq Fields IN
    /\ going' = goes
    /\ cursor' = IF goes THEN cursor ELSE Nil
    /\ seen' = IF ks \subseteq Fields THEN seen ELSE {}
    /\ must' = IF ks \subseteq Fields THEN must \ cleared ELSE {}

Does(m, ks) == did' = [m |-> m, ks |-> ks]

Set(k) == t' = luaH_set(t, k, Value(k)) /\ Affects({k}, {}) /\ Does("Set", {k}) /\ UNCHANGED constructing
Clear(k) == t' = luaH_set(t, k, Nil) /\ Affects({k}, {k}) /\ Does("Clear", {k}) /\ UNCHANGED constructing

\* OP_SETLIST: the items up to n, the last one first.
SetList(n) ==
    LET sized == IF n > Len(t.array) THEN luaH_resizearray(t, n) ELSE t IN
    /\ constructing
    /\ t' = FoldLeft(LAMBDA x, k : luaH_set(x, k, Value(k)), sized, [i \in 1 .. n |-> n + 1 - i])
    /\ Affects(1 .. n, {}) /\ Does("Set", 1 .. n)
    /\ UNCHANGED constructing

EndConstructor == /\ constructing /\ constructing' = FALSE
                  /\ Does("Inside", {}) /\ UNCHANGED <<t, cursor, seen, must, going>>

\* removeentry in lgc.c, whether or not the key is in use elsewhere.
KeyDies(n) ==
    /\ t.node[n].val = Nil /\ t.node[n].key \in Strs \cup Objs /\ ~t.node[n].dead
    /\ t' = [t EXCEPT !.node[n].dead = TRUE]
    /\ Does("Inside", {}) /\ UNCHANGED <<constructing, cursor, seen, must, going>>

Begin == /\ ~constructing /\ ~going
         /\ going' = TRUE /\ must' = Fields /\ seen' = {} /\ cursor' = Nil
         /\ Does("Begin", {}) /\ UNCHANGED <<t, constructing>>

TNext ==
    LET p == luaH_next(t, cursor) IN
    /\ going /\ UNCHANGED <<t, constructing>>
    /\ CASE p = -1 -> Does("Error", {}) /\ UNCHANGED <<going, seen, must, cursor>>
         [] p = 0 -> Does("End", {}) /\ going' = FALSE /\ seen' = {} /\ must' = {} /\ cursor' = Nil
         [] OTHER -> /\ Does("Visit", {KeyAt(t, p)})
                     /\ cursor' = KeyAt(t, p) /\ seen' = seen \cup {KeyAt(t, p)}
                     /\ UNCHANGED <<must, going>>

Operation == \/ \E k \in Keys : Set(k) \/ (~constructing /\ Clear(k))
             \/ \E n \in Ints : SetList(n)
             \/ EndConstructor
             \/ \E n \in DOMAIN t.node : KeyDies(n)
             \/ Begin \/ TNext

Next == Operation /\ found' = Contents(t')

Spec == Init /\ [][Next]_vars

-----------------------------------------------------------------------------
\* A table is a map, and next a traversal of it: whatever chains, moved nodes,
\* rehashes and dead keys there are, an assignment changes one key and every
\* field is found by the search function of its key; next returns each field
\* once and never fails, also after fields were cleared and their keys died.
TM == INSTANCE TableMap WITH map <- found

MapImplemented == TM!Spec

\* The length is a border: a field is there and the next integer is not.
BorderFound ==
    LET n == luaH_getn(t)
    IN (n = 0 \/ luaH_getint(t, n) # Nil) /\ luaH_getint(t, n + 1) = Nil

\* A rehash always leaves room: storing the keys again never needs another
\* one, which would start from a table that is half stored.
RehashLeavesRoom == ~t.full

\* After a rehash the array part has the largest size, a power of two, of
\* which more than half is in use by the keys stored before and the new one,
\* whatever was counted in slices.  More than half is what the test and the
\* comment at ltable.c:197 say; ltable.c:11-13 says at least half, and a table
\* with exactly half in use shows that the code does not mean that.
ArraySizeOptimal ==
    [][~constructing /\ Fields \subseteq Fields' /\ Fields # Fields' /\ Len(t.array) # Len(t'.array)
         => LET ks == Ints \cap Fields'
                sizes == {n \in {2^i : i \in 0 .. MAXBITS} : 2 * Cardinality(ks \cap 1 .. n) > n}
            IN Len(t'.array) = Max({0} \cup sizes)]_vars

View == <<t, constructing, cursor, seen, must, going>>
=============================================================================
