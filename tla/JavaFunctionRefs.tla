-------------------------- MODULE JavaFunctionRefs --------------------------
(***************************************************************************)
(* The Java functions that a LuaState hands to its interpreter.            *)
(*                                                                         *)
(* luaPushFunction wraps a Java object in a userdata: it takes a JNI global *)
(* reference, allocates the userdata and gives it a metatable whose __gc is *)
(* java_function_gc, which deletes the reference.  From then on the        *)
(* collector decides when the reference goes: lgc.c keeps the objects with *)
(* a finalizer in the list finobj, newest first, moves those it finds dead *)
(* to the end of the list tobefnz and calls their finalizers from there.   *)
(* Scripts have finalizers too, on tables, and those run script code: they *)
(* may call the Java functions they can reach, keep them, make new ones and *)
(* new tables, start the collector or fail.                                *)
(*                                                                         *)
(* Tables that have no finalizer are the paths by which those that have one *)
(* refer to each other and to functions.  What is freed is made again later, *)
(* so there is no end to the objects of a program.                         *)
(*                                                                         *)
(* stack holds what is under way: a luaPushFunction that has its reference *)
(* and not yet its metatable, or a finalizer of a script.  Its last entry  *)
(* is the innermost one.                                                   *)
(*                                                                         *)
(* rules names what the program and its scripts refrain from.  The code    *)
(* enforces none of it; a property that needs a rule says so.              *)
(***************************************************************************)
EXTENDS Naturals, FiniteSets, SequencesExt, Lists

CONSTANTS Wrappers,     \* the userdata that stand for Java functions
          Tables,       \* the tables of scripts that get a __gc
          MaxDepth,     \* bound on the length of stack
          MaxRefs,      \* bound on the objects that a table refers to
          RuleSets      \* the usage rules of the programs considered

\* "orderly":    a table with a __gc refers to older objects (and itself) only
\* "nosave":     a finalizer stores nothing, in no table and no global
\* "nocollect":  a finalizer does not start the collector
\* "noerrors":   no finalizer fails and no allocation fails
\* "noclosing":  finalizers that lua_close runs push no functions and make no
\*               tables with a __gc
\* "noglobals":  they use what their table refers to and what finalizers made
\*               since, and nothing else of the program's
AllRules == {"orderly", "nosave", "nocollect", "noerrors", "noclosing", "noglobals"}

ASSUME ObjectsAssumption == Wrappers \cap Tables = {}
ASSUME RefsBoundsAssumption == {MaxDepth, MaxRefs} \subseteq Nat
ASSUME RefsRulesAssumption == RuleSets \subseteq SUBSET AllRules

VARIABLES rules,        \* the usage rules the program obeys
          ref,          \* the JNI global reference of each wrapper
          finobj,       \* objects with a finalizer, newest first
          tobefnz,      \* objects whose finalizer is due, the next one first
          finalized,    \* objects with FINALIZEDBIT: were moved to tobefnz
          roots,        \* objects in globals or on a stack
          field,        \* the objects each table refers to
          stack,        \* pushes and finalizers that are under way
          phase         \* of the lua_State: open, closing or closed

moving == <<ref, finobj, tobefnz, finalized, roots, field, stack, phase>>

vars == <<rules, moving>>

Objects == Wrappers \cup Tables

Separated == Range(finobj) \cup Range(tobefnz)       \* SEPARATED is set

-----------------------------------------------------------------------------
PushFrame(w) == [kind |-> "push", obj |-> w]
GcFrame(T)   == [kind |-> "gc", obj |-> T]

Running == {stack[i].obj : i \in {j \in DOMAIN stack : stack[j].kind = "gc"}}

TopIs(kind) == stack # <<>> /\ Last(stack).kind = kind

\* What S leads to.
Reach(S) ==
    {o \in Objects : \A C \in SUBSET Objects :
        S \subseteq C /\ (\A T \in C \cap Tables : field[T] \subseteq C) => o \in C}

\* What is in use: markroot starts from the same objects.
Accessible == Reach(roots \cup Running)

\* What a script may name.  BeginClose empties finobj: what is in it later was
\* made by finalizers.
Nameable == IF phase = "closing" /\ "noglobals" \in rules
            THEN Reach(Running \cup (roots \cap Range(finobj)))
            ELSE Accessible

\* A script runs: the program's own or a finalizer's.
Script == IF stack = <<>> THEN phase = "open" ELSE TopIs("gc")

\* GCTM leaves the collector running.
Collecting_NotStopped == stack = <<>> => phase = "open"

\* The interpreter allocates, or is asked to collect; GCTM clears gcrunning
\* for the time a finalizer runs.
Collecting == /\ stack = <<>> => phase = "open"
              /\ "nocollect" \in rules => Running = {}

-----------------------------------------------------------------------------
Init == /\ rules \in RuleSets
        /\ ref = [w \in Wrappers |-> "none"]
        /\ finobj = <<>>
        /\ tobefnz = <<>>
        /\ finalized = {}
        /\ roots = {}
        /\ field = [T \in Tables |-> {}]
        /\ stack = <<>>
        /\ phase = "open"

\* luaPushFunction up to NewGlobalRef.
BeginPush(w) ==
    /\ Script
    /\ "noclosing" \in rules => phase = "open"
    /\ Len(stack) < MaxDepth
    /\ ref[w] = "none"
    /\ ref' = [ref EXCEPT ![w] = "live"]
    /\ stack' = Append(stack, PushFrame(w))
    /\ UNCHANGED <<finobj, tobefnz, finalized, roots, field, phase>>

\* luaC_checkfinalizer without its test of FINALIZEDBIT.
CheckFinalizer_Again(o) ==
    finobj' = IF o \in Separated THEN finobj ELSE <<o>> \o finobj

\* luaC_checkfinalizer: the object enters finobj unless it is in a list
\* already or was in tobefnz before.
CheckFinalizer(o) ==
    finobj' = IF o \in Separated \/ o \in finalized THEN finobj
                                                   ELSE <<o>> \o finobj

\* luaPushFunction has created the userdata and its metatable; the function
\* is on the stack of the caller.
EndPush ==
    /\ TopIs("push")
    /\ CheckFinalizer(Last(stack).obj)
    /\ roots' = roots \cup {Last(stack).obj}
    /\ stack' = Front(stack)
    /\ UNCHANGED <<ref, tobefnz, finalized, field, phase>>

\* An allocation of luaPushFunction fails: the error leaves it.
AbortPush ==
    /\ TopIs("push")
    /\ "noerrors" \notin rules
    /\ stack' = Front(stack)
    /\ UNCHANGED <<ref, finobj, tobefnz, finalized, roots, field, phase>>

\* A script makes a table with a __gc.
NewTable(T) ==
    /\ Script
    /\ "noclosing" \in rules => phase = "open"
    /\ T \notin Separated \cup finalized
    /\ CheckFinalizer(T)
    /\ roots' = roots \cup {T}
    /\ UNCHANGED <<ref, tobefnz, finalized, field, stack, phase>>

\* A script sets the metatable of an object once more.
SetMetatable(o) ==
    /\ Script
    /\ o \in Nameable
    /\ CheckFinalizer(o)
    /\ UNCHANGED <<ref, tobefnz, finalized, roots, field, stack, phase>>

\* A script makes a table refer to another object.
Store(T, o) ==
    /\ Script
    /\ T # o
    /\ {T, o} \subseteq Nameable
    /\ Cardinality(field[T]) < MaxRefs
    /\ "orderly" \in rules =>
          \E i, j \in DOMAIN finobj : i < j /\ finobj[i] = T /\ finobj[j] = o
    /\ "nosave" \in rules => Running = {}
    /\ field' = [field EXCEPT ![T] = @ \cup {o}]
    /\ UNCHANGED <<ref, finobj, tobefnz, finalized, roots, stack, phase>>

\* A script puts an object it can name into a global.
Save(o) ==
    /\ Script
    /\ o \in Nameable
    /\ "nosave" \in rules => Running = {}
    /\ roots' = roots \cup {o}
    /\ UNCHANGED <<ref, finobj, tobefnz, finalized, field, stack, phase>>

\* A script drops an object: from its globals, or from a table.
Drop(o) ==
    /\ Script
    /\ \/ roots' = roots \ {o} /\ UNCHANGED field
       \/ \E T \in Tables \cap Nameable :
             field' = [field EXCEPT ![T] = @ \ {o}] /\ UNCHANGED roots
    /\ UNCHANGED <<ref, finobj, tobefnz, finalized, stack, phase>>

-----------------------------------------------------------------------------
\* What a collection may find dead: it is not in use, nothing that is due leads
\* to it, and neither does what is left in finobj.  What died while the cycle was
\* under way may have been marked; then so has what it leads to.
Dead(S) == S \cap Reach(roots \cup Running \cup Range(tobefnz) \cup (Range(finobj) \ S)) = {}

\* separatetobefnz that links at the head of tobefnz what it should link at the
\* end, and so loses what was due.
Collect_Overwrites ==
    /\ Collecting
    /\ \E dead \in SUBSET Range(finobj) \ {{}} :
          /\ Dead(dead)
          /\ finobj' = Without(finobj, dead)
          /\ tobefnz' = Keep(finobj, dead)
          /\ finalized' = finalized \cup dead
    /\ UNCHANGED <<ref, roots, field, stack, phase>>

\* atomic: separatetobefnz moves the dead objects.  markroot and atomic mark
\* what tobefnz holds first.
Collect ==
    /\ Collecting
    /\ \E dead \in SUBSET Range(finobj) \ {{}} :
          /\ Dead(dead)
          /\ finobj' = Without(finobj, dead)
          /\ tobefnz' = tobefnz \o Keep(finobj, dead)
          /\ finalized' = finalized \cup dead
    /\ UNCHANGED <<ref, roots, field, stack, phase>>

\* sweeplist: objects whose finalizer was called and that nothing leads to any
\* more are freed.  A new object may take their place.
Sweep ==
    /\ Collecting
    /\ LET freed == finalized \ Reach(roots \cup Running \cup Separated)
       IN  /\ freed # {}
           /\ ref' = [w \in Wrappers |-> IF w \in freed THEN "none" ELSE ref[w]]
           /\ field' = [T \in Tables |-> IF T \in freed THEN {} ELSE field[T]]
           /\ finalized' = finalized \ freed
    /\ UNCHANGED <<finobj, tobefnz, roots, stack, phase>>

\* callallpendingfinalizers and luaC_forcestep call GCTM.
Finalizing == /\ tobefnz # <<>>
              /\ Collecting \/ stack = <<>>

\* GCTM of a wrapper: java_function_gc deletes its reference.
DeleteRef ==
    /\ Finalizing
    /\ Head(tobefnz) \in Wrappers
    /\ tobefnz' = Tail(tobefnz)
    /\ ref' = [ref EXCEPT ![Head(tobefnz)] = "deleted"]
    /\ UNCHANGED <<finobj, finalized, roots, field, stack, phase>>

\* GCTM of a table: the finalizer of the script starts.
BeginFinalizer ==
    /\ Finalizing
    /\ Head(tobefnz) \in Tables
    /\ Len(stack) < MaxDepth
    /\ tobefnz' = Tail(tobefnz)
    /\ stack' = Append(stack, GcFrame(Head(tobefnz)))
    /\ UNCHANGED <<ref, finobj, finalized, roots, field, phase>>

EndFinalizer ==
    /\ TopIs("gc")
    /\ stack' = Front(stack)
    /\ UNCHANGED <<ref, finobj, tobefnz, finalized, roots, field, phase>>

\* A finalizer fails in a collection that a luaPushFunction set off: GCTM sends
\* its error on, through that luaPushFunction.
FailFinalizer ==
    /\ TopIs("gc")
    /\ "noerrors" \notin rules
    /\ Len(stack) > 1
    /\ stack[Len(stack) - 1].kind = "push"
    /\ stack' = SubSeq(stack, 1, Len(stack) - 2)
    /\ UNCHANGED <<ref, finobj, tobefnz, finalized, roots, field, phase>>

\* luaC_freeallobjects that separates the dead objects only.
BeginClose_OnlyDead ==
    /\ phase = "open"
    /\ stack = <<>>
    /\ phase' = "closing"
    /\ LET kept == Reach(roots \cup Range(tobefnz))
       IN  /\ finobj' = Keep(finobj, kept)
           /\ tobefnz' = tobefnz \o Without(finobj, kept)
           /\ finalized' = finalized \cup (Range(finobj) \ kept)
    /\ UNCHANGED <<ref, roots, field, stack>>

\* lua_close: luaC_freeallobjects separates all objects with a finalizer.
BeginClose ==
    /\ phase = "open"
    /\ stack = <<>>
    /\ phase' = "closing"
    /\ finobj' = <<>>
    /\ tobefnz' = tobefnz \o finobj
    /\ finalized' = finalized \cup Range(finobj)
    /\ UNCHANGED <<ref, roots, field, stack>>

\* All finalizers have run: it frees the objects of all lists and calls no
\* finalizer.
EndClose ==
    /\ phase = "closing"
    /\ stack = <<>>
    /\ tobefnz = <<>>
    /\ phase' = "closed"
    /\ finobj' = <<>>
    /\ finalized' = {}
    /\ roots' = {}
    /\ field' = [T \in Tables |-> {}]
    /\ UNCHANGED <<ref, tobefnz, stack>>

Step ==
    \/ \E w \in Wrappers : BeginPush(w)
    \/ \E T \in Tables, o \in Objects : Store(T, o)
    \/ EndPush
    \/ AbortPush
    \/ \E T \in Tables : NewTable(T)
    \/ \E o \in Objects : SetMetatable(o) \/ Save(o) \/ Drop(o)
    \/ Collect
    \/ Sweep
    \/ DeleteRef
    \/ BeginFinalizer
    \/ EndFinalizer
    \/ FailFinalizer
    \/ BeginClose
    \/ EndClose

Next == Step /\ UNCHANGED rules

\* callallpendingfinalizers, called by lua_close.
FinalizeAll == phase = "closing" /\ stack = <<>> /\ (DeleteRef \/ BeginFinalizer)

\* The thread that is in lua_close goes on, and each finalizer returns.
Fairness == /\ WF_moving(FinalizeAll)
            /\ WF_moving(phase = "closing" /\ EndPush)
            /\ WF_moving(EndClose)
            /\ SF_moving(phase = "closing" /\ EndFinalizer)

Spec == Init /\ [][Next]_vars

FairSpec == Spec /\ Fairness

-----------------------------------------------------------------------------
(* Properties *)

\* A reference is deleted once: what waits for java_function_gc has a live
\* one and waits once.
DueOnce ==
    /\ \A w \in Wrappers \cap Separated : ref[w] = "live"
    /\ IsInjective(finobj \o tobefnz)

\* A Java function that a script can name, the program's or a finalizer's, also
\* one that lua_close runs, has a live reference.  Needs "orderly", as the newest
\* object is finalized first; "nosave", as an object that a finalizer keeps is not
\* finalized again; "nocollect", as only the stopped collector keeps what a
\* running finalizer refers to from being finalized under it; and "noglobals", as
\* lua_close also finalizes what the program still uses.
CallableLive ==
    {"orderly", "nosave", "nocollect", "noglobals"} \subseteq rules =>
    \A w \in Wrappers \cap Nameable : ref[w] = "live"

\* A live reference is one that a push under way or the collector will see to.
\* Needs "noerrors" and "noclosing".
EveryRefOwned ==
    {"noerrors", "noclosing"} \subseteq rules =>
    \A w \in Wrappers : ref[w] = "live" =>
        w \in Separated \/ PushFrame(w) \in Range(stack)

\* lua_close leaves no reference behind.  Needs the same two.
AllReleased ==
    {"noerrors", "noclosing"} \subseteq rules /\ phase = "closed" =>
    \A w \in Wrappers : ref[w] # "live"

\* lua_close ends: as no object is finalized twice, finalizers that keep
\* objects, set metatables and start the collector cannot feed it for ever.
\* Needs "noclosing" or "nocollect": a finalizer that makes a table with a __gc,
\* drops it and starts the collector leaves one more finalizer to run.
CloseEnds == phase = "closing" /\ {"noclosing", "nocollect"} \cap rules # {}
             ~> phase = "closed"
=============================================================================
