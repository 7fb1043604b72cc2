-------------------------- MODULE GarbageCollector --------------------------
(***************************************************************************)
(* The incremental collector of lgc.c and the program that runs between    *)
(* its steps.                                                              *)
(*                                                                         *)
(* Objects are linked in the lists allgc, finobj and tobefnz.  A cycle     *)
(* marks what can be reached (pause, propagate), finishes in one step      *)
(* (Atomic), flips the white colour, and sweeps the lists (sweepudata,     *)
(* sweep): an object of the other white is dead.  Meanwhile the program    *)
(* creates objects, stores and drops references, gives objects finalizers  *)
(* and has them called.  Write barriers keep what it does from misleading  *)
(* the marking.                                                            *)
(*                                                                         *)
(* entries holds what an object refers to, as pairs of a key and a value;  *)
(* a reference that is no table entry, or one whose key is no object, has  *)
(* the key NoKey.  Main is the main thread: its stack, the registry and    *)
(* the metatables of basic types, which are all written without barrier    *)
(* and marked again in the atomic step.  Strings have no references and    *)
(* lists of their own and are left out, and so is the generational mode.   *)
(*                                                                         *)
(* A definition whose name has a suffix after an underscore is a faulty    *)
(* variant of the one that follows it, named in its comment.               *)
(***************************************************************************)
EXTENDS Naturals, FiniteSets, SequencesExt, Lists

CONSTANTS Main,         \* the main thread of the Lua state
          Objects,      \* the other objects, used again once freed
          NoKey,        \* the key of an entry that has no object for a key
          Programs      \* the programs considered

\* A table with both keys and values weak is "allweak".
WeakKinds == {"weakvalue", "ephemeron", "allweak"}
TableKinds == {"table"} \cup WeakKinds
Kinds == {"function", "userdata", "thread"} \cup TableKinds

\* "atonce":   an object gets its finalizer when it is created, or never
\* "noescape": no object that gets its finalizer later escapes a sweep by it
\* "strong":   a table with weak references has no finalizer
\* "settled":  a table with weak keys that was traversed and is in allweak gets
\*             no value that is not marked
\* "plain":    the keys of a table with weak values are no objects
AllRules == {"atonce", "noescape", "strong", "settled", "plain"}

All  == Objects \cup {Main}
Keys == Objects \cup {NoKey}

\* A program has the kind of each object, bounds on what it does (the objects
\* it creates, how many entries each may have, which get a finalizer, whether
\* it has everything collected at once), and the rules it follows.
ProgramType == [kind: [All -> Kinds], room: [Objects -> Nat],
                creates: SUBSET Objects, finalizable: SUBSET Objects,
                fullgcs: BOOLEAN, rules: SUBSET AllRules]

ASSUME GcNamesAssumption == /\ Main \notin Objects
                            /\ NoKey \notin All
                            /\ {"allgc", "finobj"} \cap Objects = {}
ASSUME GcProgramsAssumption ==
    \A p \in Programs : p \in ProgramType /\ p.kind[Main] = "thread"

VARIABLES program,      \* the one of Programs that runs
          entries,      \* what each object refers to
          marked,       \* its colour, "white" for currentwhite, or "free"
          finalized,    \* objects with FINALIZEDBIT
          gcstate,      \* what singlestep does next
          fullgc,       \* how far a luaC_fullgc is, if one is running
          gray, grayagain, weak, ephemeron, allweak,    \* the gray lists
          allgc, finobj, tobefnz,                       \* the object lists
          sweepgc       \* the field that leads to the next object to sweep:
                        \* a list's head or the next field of an object

kind  == program.kind
rules == program.rules

heap  == <<entries, marked, finalized, allgc, finobj, tobefnz>>
grays == <<gray, grayagain, weak, ephemeron, allweak>>
phase == <<gcstate, fullgc, sweepgc>>

moving == <<heap, grays, phase>>
vars   == <<program, moving>>

-----------------------------------------------------------------------------
\* References.

Refs(o) == {e[2] : e \in entries[o]} \cup ({e[1] : e \in entries[o]} \ {NoKey})

\* The objects of S and those that references lead to from there: to part any
\* other from S a reference must be cut.
Reach(S) ==
    LET refs == UNION {{o} \X Refs(o) : o \in All}
        LeadsOut(N) == \E r \in refs : r[1] \in N /\ r[2] \notin N
    IN  {o \in All : \A N \in SUBSET (All \ {o}) : S \subseteq N => LeadsOut(N)}

\* What the program can get hold of, and what it and its finalizers can.
Accessible == Reach({Main})
Live       == Reach({Main} \cup Range(tobefnz))

Whites      == {"white", "otherwhite"}
Sweeping    == gcstate \in {"sweepstring", "sweepudata", "sweep"}
Invariant   == gcstate = "propagate"            \* keepinvariant

IsWhite(o)  == marked[o] \in Whites
Allocated   == {o \in All : marked[o] # "free"}

\* What the traversal of o marks, with the objects of M marked.
Traversed(o, M) ==
    CASE kind[o] = "weakvalue" -> {e[1] : e \in entries[o]} \ {NoKey}
      [] kind[o] = "ephemeron" -> {e[2] : e \in {f \in entries[o] : f[1] \in M \cup {NoKey}}}
      [] kind[o] = "allweak"   -> {}
      [] OTHER                 -> Refs(o)

\* The colour of an object that was traversed: weak tables and threads stay gray.
Done(o) == IF kind[o] \in WeakKinds \cup {"thread"} THEN "gray" ELSE "black"

-----------------------------------------------------------------------------
\* reallymarkobject of all white objects of S, where m are the colours: a
\* userdata becomes black at once, and its metatable is marked with it.
Marks(m, S) ==
    LET W == {o \in S : m[o] \in Whites}
        N == W \cup {t \in UNION {Refs(u) : u \in {o \in W : kind[o] = "userdata"}} :
                        m[t] \in Whites}
    IN  [o \in All |-> IF o \notin N THEN m[o]
                       ELSE IF kind[o] = "userdata" THEN "black" ELSE "gray"]

NewlyGray(m, n) == {o \in All : m[o] \in Whites /\ n[o] = "gray"}

Mark(S) == /\ marked' = Marks(marked, S)
           /\ gray' = gray \cup NewlyGray(marked, Marks(marked, S))

Init == /\ program \in Programs
        /\ entries = [o \in All |-> {}]
        /\ marked = [o \in All |-> IF o = Main THEN "white" ELSE "free"]
        /\ finalized = {}
        /\ gcstate = "pause"
        /\ fullgc = "no"
        /\ gray = {} /\ grayagain = {}
        /\ weak = {} /\ ephemeron = {} /\ allweak = {}
        /\ allgc = <<>> /\ finobj = <<>> /\ tobefnz = <<>>
        /\ sweepgc = "allgc"

-----------------------------------------------------------------------------
(* The program *)

\* A luaC_fullgc returns before the program goes on.
Program == fullgc = "no"

\* luaC_newobj; the program has the object on its stack.
New(o) ==
    /\ Program
    /\ o \in program.creates
    /\ marked[o] = "free"
    /\ marked' = [marked EXCEPT ![o] = "white"]
    /\ allgc' = <<o>> \o allgc
    /\ entries' = [entries EXCEPT ![Main] = @ \cup {<<NoKey, o>>}]
    /\ UNCHANGED <<finalized, finobj, tobefnz, grays, phase>>

\* lua_newuserdata and then luaL_setmetatable with a metatable that has a __gc,
\* as newprefile calls them: the collector makes no step between the two, so
\* that luaC_checkfinalizer finds the object as luaC_newobj has left it.
NewFinalizable(o) ==
    /\ Program
    /\ o \in program.creates \cap program.finalizable
    /\ kind[o] \in {"userdata"} \cup TableKinds
    /\ "strong" \in rules => kind[o] \notin WeakKinds
    /\ marked[o] = "free"
    /\ marked' = [marked EXCEPT ![o] = "white"]
    /\ finobj' = <<o>> \o finobj
    /\ entries' = [entries EXCEPT ![Main] = @ \cup {<<NoKey, o>>}]
    /\ UNCHANGED <<finalized, allgc, tobefnz, grays, phase>>

\* The write barriers, for the reference of o to v.

\* luaC_barrierback that leaves the table out of the list.
BarrierBack_NotListed(o) ==
    /\ marked' = [marked EXCEPT ![o] = "gray"]
    /\ UNCHANGED grays

BarrierBack(o) ==
    /\ marked' = [marked EXCEPT ![o] = "gray"]
    /\ grayagain' = grayagain \cup {o}
    /\ UNCHANGED <<gray, weak, ephemeron, allweak>>

Barrier(o, v) ==
    \/ /\ Invariant
       /\ Mark({v})
       /\ UNCHANGED <<grayagain, weak, ephemeron, allweak>>
    \/ /\ ~Invariant
       /\ marked' = [marked EXCEPT ![o] = "white"]
       /\ UNCHANGED grays

\* luaC_barrierback only where the table is black and marking goes on.
NeedsBarrier(o, V) == marked[o] = "black" /\ \E v \in V : IsWhite(v)

\* A value that no traversal will see any more: the table is in allweak, which
\* retraversegrays leaves alone, and clearvalues will take the entry out.
Misses(o, v) == Invariant /\ kind[o] = "ephemeron" /\ o \in allweak /\ IsWhite(v)

\* The program stores a reference, in its own stack or that of a coroutine,
\* in a table, an upvalue of a C function, or as metatable of a userdata.
Store(o, k, v) ==
    /\ Program
    /\ k # NoKey => kind[o] \in WeakKinds
    /\ kind[o] = "userdata" => kind[v] \in TableKinds
    /\ "settled" \in rules => ~Misses(o, v)
    /\ "plain" \in rules /\ kind[o] = "weakvalue" => k = NoKey
    /\ LET old == {e \in entries[o] : e[1] = k /\ k # NoKey}
           new == (entries[o] \ old) \cup {<<k, v>>}
       IN  /\ o # Main => Cardinality(new) <= program.room[o]
           /\ entries' = [entries EXCEPT ![o] = new]
    /\ IF NeedsBarrier(o, {k, v} \ {NoKey})
         THEN IF kind[o] \in TableKinds
                THEN BarrierBack(o) ELSE Barrier(o, v)
         ELSE UNCHANGED <<marked, grays>>
    /\ UNCHANGED <<finalized, allgc, finobj, tobefnz, phase>>

\* It drops one.
Drop(o, e) ==
    /\ Program
    /\ entries' = [entries EXCEPT ![o] = @ \ {e}]
    /\ UNCHANGED <<marked, finalized, allgc, finobj, tobefnz, grays, phase>>

\* luaC_checkfinalizer that does not take the object out of allgc.
CheckFinalizer_StaysLinked(o) ==
    /\ Program
    /\ o \in (program.finalizable \cap Range(allgc)) \ finalized
    /\ kind[o] \in {"userdata"} \cup TableKinds
    /\ finobj' = <<o>> \o finobj
    /\ UNCHANGED <<entries, marked, finalized, allgc, tobefnz, grays, phase>>

\* In finobj the sweep will not come to o, which may be black still: unless
\* it is about to begin that list.  Or it goes on in finobj, as o was the last
\* object that it swept, and all that followed o in allgc are left out.
Escapes(o) == \/ gcstate \in {"sweepudata", "sweep"} /\ sweepgc # "finobj" /\ marked[o] # "white"
              \/ sweepgc = o

\* luaC_checkfinalizer: setmetatable with a metatable that has a __gc.
CheckFinalizer(o) ==
    /\ Program
    /\ kind[o] \in {"userdata"} \cup TableKinds
    /\ "atonce" \notin rules
    /\ "noescape" \in rules => ~Escapes(o)
    /\ "strong" \in rules => kind[o] \notin WeakKinds
    /\ o \in (program.finalizable \cap Range(allgc)) \ finalized
    /\ allgc' = Without(allgc, {o})
    /\ finobj' = <<o>> \o finobj
    /\ UNCHANGED <<entries, marked, finalized, tobefnz, grays, phase>>

\* udata2finalize that leaves the colour as it is.
Finalize_KeepsColour ==
    /\ Program
    /\ tobefnz # <<>>
    /\ LET o == Head(tobefnz)
       IN  /\ allgc' = <<o>> \o allgc
           /\ entries' = [entries EXCEPT ![Main] = @ \cup {<<NoKey, o>>}]
    /\ tobefnz' = Tail(tobefnz)
    /\ UNCHANGED <<marked, finalized, finobj, grays, phase>>

\* GCTM: udata2finalize takes the next object back to allgc and its finalizer
\* gets it on the stack.
Finalize ==
    /\ Program
    /\ tobefnz # <<>>
    /\ LET o == Head(tobefnz)
       IN  /\ allgc' = <<o>> \o allgc
           /\ marked' = IF Invariant THEN marked ELSE [marked EXCEPT ![o] = "white"]
           /\ entries' = [entries EXCEPT ![Main] = @ \cup {<<NoKey, o>>}]
    /\ tobefnz' = Tail(tobefnz)
    /\ UNCHANGED <<finalized, finobj, grays, phase>>

-----------------------------------------------------------------------------
(* The collector: singlestep *)

\* GCSpause: markroot.
MarkRoot ==
    /\ gcstate = "pause"
    /\ gcstate' = "propagate"
    /\ LET m == [o \in All |-> IF o \in Range(tobefnz) THEN "white" ELSE marked[o]]
           n == Marks(m, {Main} \cup Range(tobefnz))
       IN  /\ marked' = n
           /\ gray' = NewlyGray(m, n)
    /\ grayagain' = {} /\ weak' = {} /\ ephemeron' = {} /\ allweak' = {}
    /\ UNCHANGED <<entries, finalized, allgc, finobj, tobefnz>>
    /\ UNCHANGED <<fullgc, sweepgc>>

\* GCSpropagate: propagatemark of one gray object.
PropagateMark(o) ==
    /\ gcstate = "propagate"
    /\ o \in gray
    /\ LET M == {x \in All : ~IsWhite(x)}
           m == [marked EXCEPT ![o] = Done(o)]
           n == Marks(m, Traversed(o, M))
           whitekeys == {e \in entries[o] : e[1] \notin M \cup {NoKey}}
           to == CASE kind[o] = "thread" -> "grayagain"
                   [] kind[o] = "allweak" -> "allweak"
                   [] kind[o] = "weakvalue" ->
                        IF \E e \in entries[o] : n[e[2]] \in Whites
                        THEN "weak" ELSE "grayagain"
                   [] kind[o] = "ephemeron" ->
                        IF \E e \in whitekeys : n[e[2]] \in Whites
                        THEN "ephemeron"
                        ELSE IF whitekeys # {} THEN "allweak" ELSE "grayagain"
                   [] OTHER -> "none"
           Link(list, name) == IF to = name THEN list \cup {o} ELSE list
       IN  /\ marked' = n
           /\ gray' = (gray \ {o}) \cup NewlyGray(m, n)
           /\ grayagain' = Link(grayagain, "grayagain")
           /\ weak' = Link(weak, "weak")
           /\ ephemeron' = Link(ephemeron, "ephemeron")
           /\ allweak' = Link(allweak, "allweak")
    /\ UNCHANGED <<entries, finalized, allgc, finobj, tobefnz, phase>>

\* What is marked when the objects of M are and those of T, and all that get
\* marked, have been traversed, ephemerons until nothing changes.
Propagated(T, M) ==
    LET closed == {N \in SUBSET All :
            M \subseteq N /\ \A x \in T \cup (N \ M) : Traversed(x, N) \subseteq N}
    IN  {o \in All : \A N \in closed : o \in N}

\* iscleared that does not know that strings and numbers are never weak.
MarkedKeys_OnlyObjects(o, M) == {e \in entries[o] : e[1] \in M}

\* The entries of o whose key, or whose value, is marked.
MarkedKeys(o, M)   == {e \in entries[o] : e[1] \in M \cup {NoKey}}
MarkedValues(o, M) == {e \in entries[o] : e[2] \in M}

\* The current white and the other one change places.
Flipped(c) == CASE c = "white" -> "otherwhite" [] c = "otherwhite" -> "white" [] OTHER -> c

\* atomic: retraversegrays and convergeephemerons mark M1; clearvalues clears
\* weak tables; separatetobefnz moves the dead objects with a finalizer;
\* markbeingfnz and the propagation mark M2; clearkeys clears ephemerons and
\* clearvalues what was resurrected.  The lists of gray objects mean nothing
\* afterwards.  A weak table that waits in tobefnz since an earlier cycle and is
\* in a list of weak tables is linked in a second one by its only gclist: the
\* lists may be circles now, or cut short, and the run is followed no further
\* ("strong" keeps programs from it).
Atomic ==
    /\ gcstate = "propagate"
    /\ gray = {}
    /\ LET M0 == {o \in All : ~IsWhite(o)}
           T1 == grayagain \cup weak \cup ephemeron
           M1 == Propagated(T1, M0)
           V1 == T1 \cup (M1 \ M0)                  \* traversed by now
           due == Without(finobj, M1)
           fnz == Range(tobefnz) \cup Range(due)
           T2 == fnz \cup {o \in V1 : kind[o] = "ephemeron"}
           M2 == Propagated(T2, M1 \cup fnz)
           V2 == fnz \cup (M2 \ M1)                 \* resurrected
           stale == allweak \ V1                    \* not traversed again
           Weak(o, k) == kind[o] = k /\ o \in V1 \cup V2 \cup stale
           relinked == {o \in Range(tobefnz) :
                          \/ kind[o] = "allweak"
                          \/ kind[o] = "ephemeron" /\ o \in stale
                          \/ kind[o] = "ephemeron" /\ entries[o] # MarkedKeys(o, M1)
                          \/ kind[o] = "weakvalue" /\ entries[o] # MarkedValues(o, M1)}
       IN  /\ entries' =
                [o \in All |->
                   CASE Weak(o, "weakvalue") ->
                          MarkedValues(o, IF o \in V1 THEN M1 ELSE M2)
                     [] Weak(o, "allweak") ->
                          MarkedValues(o, IF o \in V1 \cup stale THEN M1 ELSE M2)
                             \cap MarkedKeys(o, M2)
                     [] Weak(o, "ephemeron") ->
                          (IF o \in stale THEN MarkedValues(o, M1) ELSE entries[o])
                             \cap MarkedKeys(o, M2)
                     [] OTHER -> entries[o]]
           /\ marked' = [o \in All |-> IF o \in V1 \cup V2 THEN Done(o)
                                       ELSE Flipped(marked[o])]
           /\ finalized' = finalized \cup Range(due)
           /\ finobj' = Keep(finobj, M1)
           /\ tobefnz' = tobefnz \o due
           /\ gcstate' = IF relinked = {} THEN "sweepstring" ELSE "relinked"
    /\ grayagain' = {} /\ weak' = {} /\ ephemeron' = {} /\ allweak' = {}
    /\ UNCHANGED <<gray, allgc, fullgc, sweepgc>>

\* GCSsweepstring: the strings are swept.
SweepStrings ==
    /\ gcstate = "sweepstring"
    /\ gcstate' = "sweepudata"
    /\ sweepgc' = "finobj"
    /\ UNCHANGED <<heap, grays, fullgc>>

After(s, o) == SubSeq(s, (CHOOSE i \in DOMAIN s : s[i] = o) + 1, Len(s))

\* The objects that *sweepgc leads to.
ToSweep == CASE sweepgc = "finobj"         -> finobj
             [] sweepgc = "allgc"          -> allgc
             [] sweepgc \in Range(finobj)  -> After(finobj, sweepgc)
             [] sweepgc \in Range(allgc)   -> After(allgc, sweepgc)
             [] OTHER                      -> <<>>

\* GCSsweepudata and GCSsweep, one object of sweeplist (the code takes GCSWEEPMAX
\* of them in a step, and the program may go on after any of those): a dead object is freed,
\* any other gets the current white.
SweepObject ==
    /\ gcstate \in {"sweepudata", "sweep"}
    /\ ToSweep # <<>>
    /\ LET o == Head(ToSweep)
       IN  \/ /\ marked[o] = "otherwhite"
              /\ marked' = [marked EXCEPT ![o] = "free"]
              /\ entries' = [entries EXCEPT ![o] = {}]
              /\ finalized' = finalized \ {o}
              /\ finobj' = Without(finobj, {o})
              /\ allgc' = Without(allgc, {o})
              /\ UNCHANGED sweepgc
           \/ /\ marked[o] # "otherwhite"
              /\ marked' = [marked EXCEPT ![o] = "white"]
              /\ sweepgc' = o
              /\ UNCHANGED <<entries, finalized, finobj, allgc>>
    /\ UNCHANGED <<tobefnz, grays, gcstate, fullgc>>

\* The end of finobj.
SweepNextList ==
    /\ gcstate = "sweepudata"
    /\ ToSweep = <<>>
    /\ gcstate' = "sweep"
    /\ sweepgc' = "allgc"
    /\ UNCHANGED <<heap, grays, fullgc>>

\* The end of allgc: the main thread is swept and the cycle is over.  A
\* luaC_fullgc that has finished a cycle begun before runs another one.
EndCycle ==
    /\ gcstate = "sweep"
    /\ ToSweep = <<>>
    /\ gcstate' = "pause"
    /\ sweepgc' = "allgc"
    /\ marked' = [marked EXCEPT ![Main] = "white"]
    /\ fullgc' = IF fullgc = "finish" THEN "run" ELSE "no"
    /\ UNCHANGED <<entries, finalized, allgc, finobj, tobefnz, grays>>

SingleStep == \/ MarkRoot
              \/ \E o \in All : PropagateMark(o)
              \/ Atomic
              \/ SweepStrings
              \/ SweepObject
              \/ SweepNextList
              \/ EndCycle

\* luaC_fullgc that takes the cycle it finds for its own.
BeginFullGC_NoFinish ==
    /\ program.fullgcs
    /\ fullgc = "no"
    /\ gcstate # "relinked"
    /\ fullgc' = "run"
    /\ gcstate' = IF Invariant THEN "sweepstring" ELSE gcstate
    /\ UNCHANGED <<heap, grays, sweepgc>>

\* luaC_fullgc, asked for or in an emergency: while objects are marked it
\* sweeps them all to make them white again.
BeginFullGC ==
    /\ program.fullgcs
    /\ fullgc = "no"
    /\ gcstate # "relinked"
    /\ fullgc' = IF gcstate = "pause" THEN "run" ELSE "finish"
    /\ gcstate' = IF Invariant THEN "sweepstring" ELSE gcstate
    /\ UNCHANGED <<heap, grays, sweepgc>>

\* What the program does with what it can get hold of.
Use == LET A == Accessible
       IN  \E o \in A :
             \/ \E v \in A \ {Main}, k \in {NoKey} \cup (A \ {Main}) : Store(o, k, v)
             \/ \E e \in entries[o] : Drop(o, e)
             \/ o # Main /\ CheckFinalizer(o)

Step == \/ \E o \in Objects : New(o)
        \/ \E o \in Objects : NewFinalizable(o)
        \/ Use
        \/ Finalize
        \/ SingleStep
        \/ BeginFullGC

Next == Step /\ UNCHANGED program

Spec == Init /\ [][Next]_vars

-----------------------------------------------------------------------------
(* Properties *)

\* Every variable has the type the comments above give it, and each object is
\* linked once, in one of the three lists.
TypeOK ==
    /\ program \in Programs
    /\ entries \in [All -> SUBSET (Keys \X Objects)]
    /\ marked \in [All -> Whites \cup {"free", "gray", "black"}]
    /\ finalized \subseteq Objects
    /\ gcstate \in {"pause", "propagate", "sweepstring", "sweepudata", "sweep", "relinked"}
    /\ fullgc \in {"no", "finish", "run"}
    /\ gray \cup grayagain \cup weak \cup ephemeron \cup allweak \subseteq All
    /\ {allgc, finobj, tobefnz} \subseteq Seq(Objects)
    /\ IsInjective(allgc \o finobj \o tobefnz)
    /\ Range(allgc \o finobj \o tobefnz) = Allocated \ {Main}
    /\ sweepgc \in Objects \cup {"allgc", "finobj"}

\* What the invariants below need: every object that gets a finalizer gets it at
\* once, or none escapes a sweep by it.
NoneEscapes == {"atonce", "noescape"} \cap rules # {}

\* "The main invariant of the garbage collector, while marking objects, is that
\* a black object can never point to a white one.  Moreover, any gray object
\* must be in a gray list."  As long as nothing escapes a sweep.
MainInvariant ==
    NoneEscapes /\ Invariant =>
        /\ \A o \in All : marked[o] = "black" => \A v \in Refs(o) : ~IsWhite(v)
        /\ \A o \in All : marked[o] = "gray" =>
              o \in gray \cup grayagain \cup weak \cup ephemeron \cup allweak

\* Nothing that the program or a finalizer that is due can get hold of, through
\* weak tables as well, is freed or about to be: "!isdead(g, v) && !isdead(g, o)"
\* of luaC_barrier_.
NeverDead == \A o \in Live : marked[o] # "free" /\ ~(Sweeping /\ marked[o] = "otherwhite")

\* As long as nothing escapes a sweep.
NoDangling == NoneEscapes => NeverDead

\* What is accessible without the help of weak references; a value counts if
\* the weak key it belongs to does.
Strong == Propagated({Main}, {Main})

\* The collector takes an entry out of a table only if its weak key or its weak
\* value is not strongly accessible.  As long as nothing escapes a sweep, and with
\* "settled": a table with weak keys that was traversed and linked in allweak is
\* not traversed again.
EntriesKept ==
    [][ NoneEscapes /\ "settled" \in rules /\ Invariant /\ gcstate' # gcstate =>
        \A o \in Strong : \A e \in entries[o] \ entries'[o] :
            \/ kind[o] \in {"ephemeron", "allweak"} /\ e[1] \notin Strong \cup {NoKey}
            \/ kind[o] \in {"weakvalue", "allweak"} /\ e[2] \notin Strong ]_vars

\* A luaC_fullgc frees everything that cannot be reached, in whatever phase it
\* finds the collector; what it leaves can be, or waits for its finalizer.
\* As long as nothing escapes a sweep, and with "plain": a table with weak values
\* marks the keys of entries that it loses then.
FullGCCollects ==
    [][ NoneEscapes /\ "plain" \in rules /\ fullgc = "run" /\ fullgc' = "no" =>
        Allocated' \subseteq Live' ]_vars
=============================================================================
