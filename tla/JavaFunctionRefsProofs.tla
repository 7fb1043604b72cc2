----------------------- MODULE JavaFunctionRefsProofs -----------------------
(***************************************************************************)
(* Theorems about JavaFunctionRefs, for any sets of wrappers and tables,   *)
(* any depth of nesting and the usage rules each theorem names.            *)
(***************************************************************************)
EXTENDS JavaFunctionRefs, DataLemmas

Frame == {PushFrame(w) : w \in Wrappers} \cup {GcFrame(T) : T \in Tables}

TypeOK ==
    /\ rules \subseteq AllRules
    /\ ref \in [Wrappers -> {"none", "live", "deleted"}]
    /\ finobj \in Seq(Objects) /\ tobefnz \in Seq(Objects)
    /\ finalized \subseteq Objects /\ roots \subseteq Objects
    /\ field \in [Tables -> SUBSET Objects]
    /\ stack \in Seq(Frame)
    /\ phase \in {"open", "closing", "closed"}

\* An object is in one list, once; FINALIZEDBIT is that of what was moved to
\* tobefnz, and keeps it from entering finobj again.
ListsOK ==
    /\ IsInjective(finobj) /\ IsInjective(tobefnz)
    /\ Range(finobj) \cap Range(tobefnz) = {}
    /\ Range(tobefnz) \subseteq finalized
    /\ Range(finobj) \cap finalized = {}

IsPush(i) == stack[i].kind = "push"

\* A push under way has a live reference of its own, which the collector does
\* not know yet.
PushesOK ==
    /\ \A i \in DOMAIN stack : IsPush(i) =>
          /\ ref[stack[i].obj] = "live"
          /\ stack[i].obj \notin Separated \cup finalized
    /\ \A i, j \in DOMAIN stack :
          IsPush(i) /\ IsPush(j) /\ stack[i].obj = stack[j].obj => i = j

\* What waits for java_function_gc has a live reference, and what it was called
\* for had one.
RefsOK == \A w \in Wrappers : /\ w \in Separated => ref[w] = "live"
                              /\ w \in finalized => ref[w] # "none"

\* What has been made, as far as it has a finalizer.
Known == Separated \cup finalized

\* What a script can name, but for what is new, is in one of these.
Named == roots \cup Running \cup UNION {field[T] : T \in Tables}

\* All of these, and the tables that refer to something, have been made.
NamedOK == Named \cup {T \in Tables : field[T] # {}} \subseteq Known

ClosedOK == phase = "closed" =>
    stack = <<>> /\ finobj = <<>> /\ tobefnz = <<>> /\ roots = {}

DueInv == TypeOK /\ ListsOK /\ PushesOK /\ RefsOK /\ NamedOK /\ ClosedOK

-----------------------------------------------------------------------------
(* What the steps do to the lists *)

\* luaC_checkfinalizer puts an object into finobj unless it is in a list or was
\* in tobefnz, and keeps the lists right.
LEMMA CheckFinalizerIs ==
  ASSUME TypeOK, ListsOK, NEW o \in Objects, CheckFinalizer(o),
         UNCHANGED <<tobefnz, finalized>>
  PROVE  /\ finobj' \in Seq(Objects)
         /\ Separated' = Separated \cup ({o} \ finalized)
         /\ ListsOK'
         /\ finobj' = finobj \/ finobj' = <<o>> \o finobj
<1>1. finobj \in Seq(Objects) BY DEF TypeOK
<1>2. CASE o \in Separated \/ o \in finalized
  <2>1. finobj' = finobj BY <1>2 DEF CheckFinalizer
  <2> QED BY <1>1, <1>2, <2>1 DEF Separated, ListsOK
<1>3. CASE ~(o \in Separated \/ o \in finalized)
  <2>1. finobj' = <<o>> \o finobj BY <1>3 DEF CheckFinalizer
  <2>2. /\ finobj' \in Seq(Objects)
        /\ Range(finobj') = Range(finobj) \cup {o}
        /\ IsInjective(finobj') <=> IsInjective(finobj) /\ o \notin Range(finobj)
    BY <1>1, <2>1, ConsMembers
  <2> QED BY <1>3, <2>1, <2>2 DEF Separated, ListsOK
<1> QED BY <1>2, <1>3

\* separatetobefnz moves objects from finobj to the end of tobefnz.
LEMMA SeparateIs ==
  ASSUME TypeOK, ListsOK, NEW dead, dead \subseteq Range(finobj),
         finobj' = Without(finobj, dead),
         tobefnz' = tobefnz \o Keep(finobj, dead),
         finalized' = finalized \cup dead
  PROVE  /\ finobj' \in Seq(Objects) /\ tobefnz' \in Seq(Objects)
         /\ finalized' \subseteq Objects
         /\ Separated' = Separated
         /\ Range(finobj') = Range(finobj) \ dead
         /\ Range(tobefnz') = Range(tobefnz) \cup dead
         /\ ListsOK'
<1>1. finobj \in Seq(Objects) /\ tobefnz \in Seq(Objects) /\ finalized \subseteq Objects
  BY DEF TypeOK
<1> DEFINE k == Keep(finobj, dead)
<1>2. k \in Seq(Objects) /\ Range(k) = dead /\ IsInjective(k)
  BY <1>1, KeepMembers DEF ListsOK
<1>3. /\ finobj' \in Seq(Objects) /\ Range(finobj') = Range(finobj) \ dead
      /\ IsInjective(finobj')
  BY <1>1, WithoutMembers DEF ListsOK
<1> HIDE DEF k
<1>4. /\ tobefnz' \in Seq(Objects)
      /\ Range(tobefnz') = Range(tobefnz) \cup Range(k)
      /\ IsInjective(tobefnz') <=>
            /\ IsInjective(tobefnz) /\ IsInjective(k)
            /\ Range(tobefnz) \cap Range(k) = {}
  <2>1. tobefnz' = tobefnz \o k BY DEF k
  <2> QED BY <1>1, <1>2, <2>1, ConcatMembers
<1>5. dead \subseteq Objects BY <1>1 DEF Range
<1> QED BY <1>1, <1>2, <1>3, <1>4, <1>5 DEF Separated, ListsOK

\* GCTM takes the first object of tobefnz.
LEMMA TakeIs ==
  ASSUME TypeOK, ListsOK, tobefnz # <<>>, tobefnz' = Tail(tobefnz),
         UNCHANGED <<finobj, finalized>>
  PROVE  /\ tobefnz' \in Seq(Objects) /\ Head(tobefnz) \in Objects
         /\ Head(tobefnz) \in Separated
         /\ Separated' = Separated \ {Head(tobefnz)}
         /\ Head(tobefnz) \in finalized
         /\ ListsOK'
<1>1. tobefnz \in Seq(Objects) BY DEF TypeOK
<1>2. /\ Head(tobefnz) \in Objects /\ tobefnz' \in Seq(Objects)
      /\ Range(tobefnz) = Range(tobefnz') \cup {Head(tobefnz)}
      /\ IsInjective(tobefnz') /\ Head(tobefnz) \notin Range(tobefnz')
  BY <1>1, TailMembers DEF ListsOK
<1> QED BY <1>2 DEF Separated, ListsOK

-----------------------------------------------------------------------------
(* References are deleted once *)

\* The two kinds of frames.
LEMMA FrameIs ==
  /\ \A w \in Wrappers : /\ PushFrame(w) \in Frame
                         /\ PushFrame(w).kind = "push" /\ PushFrame(w).obj = w
  /\ \A T \in Tables : /\ GcFrame(T) \in Frame
                       /\ GcFrame(T).kind = "gc" /\ GcFrame(T).obj = T
  /\ \A f \in Frame : \/ f.kind = "push" /\ f.obj \in Wrappers /\ f = PushFrame(f.obj)
                      \/ f.kind = "gc" /\ f.obj \in Tables /\ f = GcFrame(f.obj)
<1>1. \A w \in Wrappers : /\ PushFrame(w) \in Frame
                         /\ PushFrame(w).kind = "push" /\ PushFrame(w).obj = w
  BY DEF Frame, PushFrame
<1>2. \A T \in Tables : /\ GcFrame(T) \in Frame
                       /\ GcFrame(T).kind = "gc" /\ GcFrame(T).obj = T
  BY DEF Frame, GcFrame
<1>3. ASSUME NEW f \in Frame
      PROVE  \/ f.kind = "push" /\ f.obj \in Wrappers /\ f = PushFrame(f.obj)
             \/ f.kind = "gc" /\ f.obj \in Tables /\ f = GcFrame(f.obj)
  <2>1. CASE \E w \in Wrappers : f = PushFrame(w) BY <1>1, <2>1
  <2>2. CASE \E T \in Tables : f = GcFrame(T) BY <1>2, <2>2
  <2> QED BY <2>1, <2>2 DEF Frame
<1> QED BY <1>1, <1>2, <1>3

\* A push or a finalizer begins.
LEMMA PushIs ==
  ASSUME TypeOK, NEW f \in Frame, stack' = Append(stack, f)
  PROVE  /\ stack' \in Seq(Frame)
         /\ Len(stack) \in Nat /\ DOMAIN stack = 1..Len(stack)
         /\ DOMAIN stack' = 1..Len(stack) + 1 /\ Len(stack') = Len(stack) + 1
         /\ \A i \in DOMAIN stack : i \in DOMAIN stack' /\ stack'[i] = stack[i]
         /\ stack'[Len(stack) + 1] = f
         /\ \A i \in DOMAIN stack' : i = Len(stack) + 1 \/ i \in DOMAIN stack
  BY DEF TypeOK

\* Some of the innermost end.
LEMMA PopIs ==
  ASSUME TypeOK, NEW n \in 0..Len(stack), stack' = SubSeq(stack, 1, n)
  PROVE  /\ stack' \in Seq(Frame)
         /\ Len(stack') = n /\ DOMAIN stack' = 1..n
         /\ \A i \in DOMAIN stack' : i \in DOMAIN stack /\ stack'[i] = stack[i]
<1>1. stack \in Seq(Frame) BY DEF TypeOK
<1> QED BY <1>1, PrefixIs

\* The innermost one ends.
LEMMA PopOneIs ==
  ASSUME TypeOK, stack # <<>>, stack' = Front(stack)
  PROVE  /\ stack' \in Seq(Frame)
         /\ Len(stack) \in DOMAIN stack /\ Last(stack) = stack[Len(stack)]
         /\ Last(stack) \in Frame
         /\ Len(stack) \in Nat /\ Len(stack') = Len(stack) - 1
         /\ DOMAIN stack' = 1..Len(stack) - 1 /\ DOMAIN stack = 1..Len(stack)
         /\ \A i \in DOMAIN stack' :
               i \in DOMAIN stack /\ i # Len(stack) /\ stack'[i] = stack[i]
<1>1. stack \in Seq(Frame) /\ Len(stack) - 1 \in 0..Len(stack) /\ Len(stack) \in Nat
      /\ DOMAIN stack = 1..Len(stack) /\ Len(stack) # 0
  BY DEF TypeOK
<1>2. stack' = SubSeq(stack, 1, Len(stack) - 1) BY DEF Front
<1>3. /\ stack' \in Seq(Frame)
      /\ Len(stack') = Len(stack) - 1 /\ DOMAIN stack' = 1..Len(stack) - 1
      /\ \A i \in DOMAIN stack' : i \in DOMAIN stack /\ stack'[i] = stack[i]
  BY <1>1, <1>2, PopIs
<1>4. Last(stack) = stack[Len(stack)] BY DEF Last
<1>5. Last(stack) \in Frame BY <1>1, <1>4
<1> QED BY <1>1, <1>3, <1>4, <1>5

\* A push or a finalizer ends, in one of the three ways.
LEMMA EndsAre ==
  ASSUME TypeOK, AbortPush \/ EndFinalizer \/ FailFinalizer
  PROVE  /\ stack' \in Seq(Frame)
         /\ \A i \in DOMAIN stack' : i \in DOMAIN stack /\ stack'[i] = stack[i]
<1>1. CASE AbortPush \/ EndFinalizer
  BY <1>1, PopOneIs DEF AbortPush, EndFinalizer, TopIs
<1>2. CASE FailFinalizer
  <2>1. stack' = SubSeq(stack, 1, Len(stack) - 2) /\ Len(stack) > 1
    BY <1>2 DEF FailFinalizer
  <2>2. Len(stack) \in Nat BY DEF TypeOK
  <2>3. Len(stack) - 2 \in 0..Len(stack) BY <2>1, <2>2
  <2> QED BY <2>1, <2>3, PopIs
<1> QED BY <1>1, <1>2

\* At first there are no references.
LEMMA InitDueInv == ASSUME Init PROVE DueInv
<1>1. rules \subseteq AllRules BY RefsRulesAssumption DEF Init
<1>2. Range(<<>>) = {} /\ IsInjective(<<>>) BY DEF Range, IsInjective
<1>3. Separated = {} BY <1>2 DEF Init, Separated
<1> QED BY <1>1, <1>2, <1>3 DEF Init, DueInv, TypeOK, ListsOK, PushesOK, RefsOK,
           NamedOK, Named, Running, ClosedOK, IsPush

\* Frames that stay keep PushesOK if nothing of theirs enters a list.
LEMMA FewerPushes ==
  ASSUME TypeOK, PushesOK,
         \A i \in DOMAIN stack' : i \in DOMAIN stack /\ stack'[i] = stack[i],
         \A w \in Wrappers : ref[w] = "live" /\ w \notin Separated \cup finalized =>
            \/ ref'[w] = "live" /\ w \notin Separated' \cup finalized'
            \/ \A i \in DOMAIN stack' : stack'[i] # PushFrame(w)
  PROVE  PushesOK'
<1>1. ASSUME NEW i \in DOMAIN stack', IsPush(i)'
      PROVE  /\ IsPush(i) /\ i \in DOMAIN stack /\ stack'[i].obj = stack[i].obj
             /\ ref'[stack'[i].obj] = "live"
             /\ stack'[i].obj \notin Separated' \cup finalized'
  <2>1. i \in DOMAIN stack /\ stack'[i] = stack[i] /\ IsPush(i)
    BY <1>1 DEF IsPush
  <2>2. stack[i] \in Frame BY <2>1 DEF TypeOK
  <2>3. stack[i].obj \in Wrappers /\ stack[i] = PushFrame(stack[i].obj)
    BY <2>1, <2>2, FrameIs DEF IsPush
  <2> QED BY <2>1, <2>3 DEF PushesOK
<1> QED BY <1>1 DEF PushesOK

\* What S leads to is in every closed set around S, and the objects it leads to
\* are such a set.
LEMMA ReachIs ==
  ASSUME TypeOK, NEW S
  PROVE  /\ Reach(S) \subseteq Objects
         /\ S \cap Objects \subseteq Reach(S)
         /\ \A T \in Reach(S) \cap Tables : field[T] \subseteq Reach(S)
         /\ \A C \in SUBSET Objects :
               S \subseteq C /\ (\A T \in C \cap Tables : field[T] \subseteq C)
                  => Reach(S) \subseteq C
<1>1. \A T \in Tables : field[T] \subseteq Objects BY DEF TypeOK
<1>2. ASSUME NEW T \in Reach(S) \cap Tables, NEW o \in field[T] PROVE o \in Reach(S)
  <2>1. o \in Objects BY <1>1
  <2>2. SUFFICES ASSUME NEW C \in SUBSET Objects, S \subseteq C,
                        \A U \in C \cap Tables : field[U] \subseteq C
                 PROVE  o \in C
    BY <2>1 DEF Reach
  <2>3. T \in C BY <2>2 DEF Reach
  <2> QED BY <2>2, <2>3
<1>3. Reach(S) \subseteq Objects /\ S \cap Objects \subseteq Reach(S) BY DEF Reach
<1>4. ASSUME NEW C \in SUBSET Objects, S \subseteq C,
             \A T \in C \cap Tables : field[T] \subseteq C
      PROVE  Reach(S) \subseteq C
  BY <1>4 DEF Reach
<1> QED BY <1>2, <1>3, <1>4

\* The tables whose finalizers run.
LEMMA RunningIs ==
  ASSUME TypeOK
  PROVE  /\ Running \subseteq Tables
         /\ stack = <<>> => Running = {}
         /\ \A i \in DOMAIN stack : stack[i].kind = "gc" => stack[i].obj \in Running
<1>1. ASSUME NEW i \in DOMAIN stack, stack[i].kind = "gc" PROVE stack[i].obj \in Tables
  <2>1. stack[i] \in Frame BY DEF TypeOK
  <2> QED BY <1>1, <2>1, FrameIs
<1> QED BY <1>1 DEF Running

\* Frames that go leave fewer finalizers running.
LEMMA RunningFewer ==
  ASSUME TypeOK, \A i \in DOMAIN stack' : i \in DOMAIN stack /\ stack'[i] = stack[i]
  PROVE  Running' \subseteq Running
  BY DEF Running

\* A frame that comes adds its table, if it is that of a finalizer.
LEMMA RunningMore ==
  ASSUME TypeOK, NEW f \in Frame, stack' = Append(stack, f)
  PROVE  Running' = Running \cup {o \in {f.obj} : f.kind = "gc"}
<1>1. /\ Len(stack) + 1 \in DOMAIN stack' /\ stack'[Len(stack) + 1] = f
      /\ \A i \in DOMAIN stack : i \in DOMAIN stack' /\ stack'[i] = stack[i]
      /\ \A i \in DOMAIN stack' : i = Len(stack) + 1 \/ i \in DOMAIN stack
  BY PushIs
<1>2. Running' \subseteq Running \cup {o \in {f.obj} : f.kind = "gc"}
  BY <1>1 DEF Running
<1>3. Running \subseteq Running' /\ (f.kind = "gc" => f.obj \in Running')
  BY <1>1 DEF Running
<1> QED BY <1>2, <1>3

\* What a script can name is among the named.
LEMMA NameableIsNamed ==
  ASSUME TypeOK
  PROVE  Nameable \subseteq Named /\ Nameable \subseteq Objects
<1>1. Named \subseteq Objects BY RunningIs DEF TypeOK, Named, Objects
<1>2. \A T \in Named \cap Tables : field[T] \subseteq Named BY DEF Named
<1>3. roots \cup Running \subseteq Named BY DEF Named
<1>4. \A S : S \subseteq Named => Reach(S) \subseteq Named BY <1>1, <1>2, ReachIs
<1>5. Nameable \subseteq Named BY <1>3, <1>4 DEF Nameable, Accessible
<1> QED BY <1>1, <1>5

\* Nothing is under way when the state is closed.
LEMMA NotClosed ==
  ASSUME ClosedOK
  PROVE  /\ Script => phase # "closed"
         /\ Collecting => phase # "closed"
         /\ (stack # <<>> \/ tobefnz # <<>>) => phase # "closed"
  BY DEF ClosedOK, Script, Collecting, TopIs

\* What keeps the named known.
LEMMA NamedStays ==
  ASSUME NamedOK, Known \subseteq Known', Named' \subseteq Named \cup Known',
         \A T \in Tables : field'[T] # {} => field[T] # {} \/ T \in Known'
  PROVE  NamedOK'
  BY DEF NamedOK

\* Every step keeps it.
LEMMA NextDueInv == ASSUME DueInv, [Next]_vars PROVE DueInv'
<1>0. TypeOK /\ ListsOK /\ PushesOK /\ RefsOK /\ NamedOK /\ ClosedOK BY DEF DueInv
<1> USE DEF moving
<1>1. ASSUME NEW w \in Wrappers, BeginPush(w), rules' = rules PROVE DueInv'
  <2>1. /\ phase # "closed" /\ phase' = phase /\ ref[w] = "none"
        /\ stack' = Append(stack, PushFrame(w)) /\ PushFrame(w) \in Frame
        /\ ref' = [ref EXCEPT ![w] = "live"]
        /\ UNCHANGED <<finobj, tobefnz, finalized, roots, field, Separated>>
    BY <1>0, <1>1, NotClosed, FrameIs DEF BeginPush, Separated
  <2>2. w \notin Separated \cup finalized BY <1>0, <2>1 DEF RefsOK
  <2>3. TypeOK'
    <3>1. stack' \in Seq(Frame) BY <1>0, <2>1, PushIs
    <3> QED BY <1>0, <1>1, <2>1, <3>1 DEF TypeOK
  <2>4. PushesOK'
    <3>1. ref'[w] = "live" /\ \A x \in Wrappers : x # w => ref'[x] = ref[x]
      BY <1>0, <2>1 DEF TypeOK
    <3>2. ASSUME NEW i \in DOMAIN stack, IsPush(i)
          PROVE  /\ stack[i].obj # w /\ ref'[stack[i].obj] = "live"
                 /\ stack[i].obj \notin Separated \cup finalized
      <4>1. stack[i] \in Frame BY <1>0 DEF TypeOK
      <4>2. stack[i].obj \in Wrappers BY <3>2, <4>1, FrameIs DEF IsPush
      <4> QED BY <1>0, <2>1, <3>1, <3>2, <4>2 DEF PushesOK
    <3> DEFINE n == Len(stack) + 1
    <3>3. /\ \A i \in DOMAIN stack : stack'[i] = stack[i]
          /\ stack'[n] = PushFrame(w)
          /\ \A i \in DOMAIN stack' : i = n \/ i \in DOMAIN stack
      BY <1>0, <2>1, PushIs
    <3>4. stack'[n].obj = w BY <3>3, FrameIs
    <3> HIDE DEF n
    <3>5. \A i \in DOMAIN stack' : IsPush(i)' => i = n \/ (i \in DOMAIN stack /\ IsPush(i))
      BY <3>3 DEF IsPush
    <3> QED BY <1>0, <2>1, <2>2, <3>1, <3>2, <3>3, <3>4, <3>5 DEF PushesOK
  <2>5. RefsOK' BY <1>0, <2>1, <2>2 DEF RefsOK, TypeOK
  <2>6. NamedOK'
    <3>1. Running' = Running BY <1>0, <2>1, FrameIs, RunningMore
    <3> QED BY <1>0, <2>1, <3>1, NamedStays DEF Named, Known
  <2> QED BY <1>0, <2>1, <2>3, <2>4, <2>5, <2>6 DEF DueInv, ListsOK, ClosedOK
<1>2. ASSUME EndPush, rules' = rules PROVE DueInv'
  <2> DEFINE o == Last(stack).obj
  <2>1. /\ stack # <<>> /\ phase # "closed" /\ phase' = phase
        /\ stack' = Front(stack) /\ CheckFinalizer(o) /\ Last(stack).kind = "push"
        /\ roots' = roots \cup {o}
        /\ UNCHANGED <<ref, tobefnz, finalized, field>>
    BY <1>0, <1>2, NotClosed DEF EndPush, TopIs
  <2>2. /\ stack' \in Seq(Frame) /\ Len(stack) \in DOMAIN stack
        /\ Last(stack) = stack[Len(stack)] /\ Last(stack) \in Frame
        /\ \A i \in DOMAIN stack' :
              i \in DOMAIN stack /\ i # Len(stack) /\ stack'[i] = stack[i]
    BY <1>0, <2>1, PopOneIs
  <2>3. o \in Wrappers BY <2>1, <2>2, FrameIs
  <2> HIDE DEF o
  <2>4. o \in Objects BY <2>3 DEF Objects
  <2>5. finobj' \in Seq(Objects) /\ Separated' = Separated \cup ({o} \ finalized) /\ ListsOK'
    BY <1>0, <2>1, <2>4, CheckFinalizerIs
  <2>6. ref[o] = "live" /\ \A i \in DOMAIN stack' : stack'[i] # PushFrame(o)
    <3>1. IsPush(Len(stack)) /\ stack[Len(stack)].obj = o
      BY <2>1, <2>2 DEF IsPush, o
    <3>2. ref[o] = "live" BY <1>0, <2>2, <3>1 DEF PushesOK
    <3>3. ASSUME NEW i \in DOMAIN stack', stack'[i] = PushFrame(o) PROVE FALSE
      <4>1. i \in DOMAIN stack /\ i # Len(stack) /\ IsPush(i) /\ stack[i].obj = o
        BY <2>2, <2>3, <3>3, FrameIs DEF IsPush
      <4> QED BY <1>0, <2>2, <3>1, <4>1 DEF PushesOK
    <3> QED BY <3>2, <3>3
  <2>7. TypeOK' BY <1>0, <1>2, <2>1, <2>2, <2>4, <2>5 DEF TypeOK
  <2>8. PushesOK'
    <3>1. \A w \in Wrappers : ref[w] = "live" /\ w \notin Separated \cup finalized =>
            \/ ref'[w] = "live" /\ w \notin Separated' \cup finalized'
            \/ \A i \in DOMAIN stack' : stack'[i] # PushFrame(w)
      BY <2>1, <2>5, <2>6
    <3> QED BY <1>0, <2>2, <3>1, FewerPushes
  <2>9. RefsOK' BY <1>0, <2>1, <2>5, <2>6 DEF RefsOK
  <2>10. NamedOK'
    <3>1. Running' \subseteq Running BY <1>0, <2>2, RunningFewer
    <3>2. Known' = Known \cup {o} BY <2>1, <2>5 DEF Known
    <3>3. Named' \subseteq Named \cup {o} BY <2>1, <3>1 DEF Named
    <3> QED BY <1>0, <2>1, <3>2, <3>3, NamedStays
  <2> QED BY <2>1, <2>5, <2>7, <2>8, <2>9, <2>10 DEF DueInv, ClosedOK
<1>3. ASSUME AbortPush \/ EndFinalizer \/ FailFinalizer, rules' = rules PROVE DueInv'
  <2>1. /\ stack # <<>> /\ phase # "closed" /\ phase' = phase
        /\ UNCHANGED <<ref, finobj, tobefnz, finalized, roots, field, Separated>>
    BY <1>0, <1>3, NotClosed DEF AbortPush, EndFinalizer, FailFinalizer, TopIs, Separated
  <2>2. /\ stack' \in Seq(Frame)
        /\ \A i \in DOMAIN stack' : i \in DOMAIN stack /\ stack'[i] = stack[i]
    BY <1>0, <1>3, EndsAre
  <2>3. TypeOK' BY <1>0, <1>3, <2>1, <2>2 DEF TypeOK
  <2>4. PushesOK' BY <1>0, <2>1, <2>2, FewerPushes
  <2>5. RefsOK' BY <1>0, <2>1 DEF RefsOK
  <2>6. NamedOK'
    <3>1. Running' \subseteq Running BY <1>0, <2>2, RunningFewer
    <3> QED BY <1>0, <2>1, <3>1, NamedStays DEF Named, Known
  <2> QED BY <1>0, <2>1, <2>3, <2>4, <2>5, <2>6 DEF DueInv, ListsOK, ClosedOK
<1>4. ASSUME NEW o \in Objects, rules' = rules,
             SetMetatable(o) \/ (o \in Tables /\ NewTable(o))
      PROVE  DueInv'
  <2>1. /\ phase # "closed" /\ phase' = phase /\ CheckFinalizer(o)
        /\ roots' = roots \/ (o \in Tables /\ roots' = roots \cup {o})
        /\ UNCHANGED <<ref, tobefnz, finalized, field, stack>>
        /\ o \in Wrappers => o \in Named
    BY <1>0, <1>4, NotClosed, NameableIsNamed, ObjectsAssumption DEF SetMetatable, NewTable
  <2>2. finobj' \in Seq(Objects) /\ Separated' = Separated \cup ({o} \ finalized) /\ ListsOK'
    BY <1>0, <2>1, CheckFinalizerIs
  <2>3. \A w \in Wrappers : w \in Separated' => w \in Separated
    BY <1>0, <2>1, <2>2 DEF NamedOK, Known
  <2>4. TypeOK' BY <1>0, <1>4, <2>1, <2>2 DEF TypeOK
  <2>5. PushesOK'
    <3>1. \A w \in Wrappers : ref[w] = "live" /\ w \notin Separated \cup finalized =>
             ref'[w] = "live" /\ w \notin Separated' \cup finalized'
      BY <2>1, <2>3
    <3> QED BY <1>0, <2>1, <3>1, FewerPushes
  <2>6. RefsOK' BY <1>0, <2>1, <2>3 DEF RefsOK
  <2>7. NamedOK'
    <3>1. Known' = Known \cup {o} BY <2>1, <2>2 DEF Known
    <3>2. Running' = Running BY <2>1 DEF Running
    <3>3. Named' \subseteq Named \cup {o} BY <2>1, <3>2 DEF Named
    <3> QED BY <1>0, <2>1, <3>1, <3>3, NamedStays
  <2> QED BY <1>0, <2>1, <2>2, <2>4, <2>5, <2>6, <2>7 DEF DueInv, ClosedOK
<1>5. ASSUME rules' = rules,
             \/ \E T \in Tables, o \in Objects : Store(T, o)
             \/ \E o \in Objects : Save(o) \/ Drop(o)
      PROVE  DueInv'
  <2>1. /\ phase # "closed" /\ phase' = phase
        /\ UNCHANGED <<ref, finobj, tobefnz, finalized, stack, Separated>>
    BY <1>0, <1>5, NotClosed DEF Store, Save, Drop, Separated
  <2>2. Running' = Running /\ Known' = Known BY <2>1 DEF Running, Known
  <2>3. /\ field' \in [Tables -> SUBSET Objects] /\ roots' \subseteq Objects
        /\ Named' \subseteq Named
        /\ \A T \in Tables : field'[T] # {} => field[T] # {} \/ T \in Known
    <3>1. ASSUME NEW T \in Tables, NEW o \in Objects, Store(T, o)
          PROVE  /\ field' \in [Tables -> SUBSET Objects] /\ roots' \subseteq Objects
                 /\ Named' \subseteq Named
                 /\ \A U \in Tables : field'[U] # {} => field[U] # {} \/ U \in Known
      <4>1. /\ roots' = roots /\ {T, o} \subseteq Named
            /\ field' = [field EXCEPT ![T] = @ \cup {o}]
        BY <1>0, <3>1, NameableIsNamed DEF Store
      <4>2. T \in Known BY <1>0, <4>1 DEF NamedOK
      <4>3. \A U \in Tables : field'[U] = IF U = T THEN field[U] \cup {o} ELSE field[U]
        BY <1>0, <4>1 DEF TypeOK
      <4>4. Named' \subseteq Named BY <2>2, <4>1, <4>3 DEF Named
      <4> QED BY <1>0, <4>1, <4>2, <4>3, <4>4 DEF TypeOK
    <3>2. ASSUME NEW o \in Objects, Save(o)
          PROVE  /\ field' \in [Tables -> SUBSET Objects] /\ roots' \subseteq Objects
                 /\ Named' \subseteq Named
                 /\ \A U \in Tables : field'[U] # {} => field[U] # {} \/ U \in Known
      <4>1. field' = field /\ roots' = roots \cup {o} /\ o \in Named
        BY <1>0, <3>2, NameableIsNamed DEF Save
      <4> QED BY <1>0, <2>2, <4>1 DEF TypeOK, Named
    <3>3. ASSUME NEW o \in Objects, Drop(o)
          PROVE  /\ field' \in [Tables -> SUBSET Objects] /\ roots' \subseteq Objects
                 /\ Named' \subseteq Named
                 /\ \A U \in Tables : field'[U] # {} => field[U] # {} \/ U \in Known
      <4>1. CASE roots' = roots \ {o} /\ UNCHANGED field
        BY <1>0, <2>2, <4>1 DEF TypeOK, Named
      <4>2. ASSUME NEW T \in Tables, field' = [field EXCEPT ![T] = @ \ {o}], roots' = roots
            PROVE  /\ field' \in [Tables -> SUBSET Objects] /\ roots' \subseteq Objects
                   /\ Named' \subseteq Named
                   /\ \A U \in Tables : field'[U] # {} => field[U] # {} \/ U \in Known
        <5>1. \A U \in Tables : field'[U] \subseteq field[U] BY <1>0, <4>2 DEF TypeOK
        <5> QED BY <1>0, <2>2, <4>2, <5>1 DEF TypeOK, Named
      <4> QED BY <3>3, <4>1, <4>2 DEF Drop
    <3> QED BY <1>5, <3>1, <3>2, <3>3
  <2>4. TypeOK' BY <1>0, <1>5, <2>1, <2>3 DEF TypeOK
  <2>5. PushesOK' BY <1>0, <2>1, FewerPushes
  <2>6. RefsOK' BY <1>0, <2>1 DEF RefsOK
  <2>7. NamedOK' BY <1>0, <2>2, <2>3, NamedStays
  <2> QED BY <1>0, <2>1, <2>4, <2>5, <2>6, <2>7 DEF DueInv, ListsOK, ClosedOK
<1>6. ASSUME Collect \/ BeginClose, rules' = rules PROVE DueInv'
  <2>1. /\ phase # "closed" /\ phase' # "closed" /\ phase' \in {"open", "closing"}
        /\ UNCHANGED <<ref, roots, field, stack>>
    BY <1>0, <1>6, NotClosed DEF Collect, BeginClose, TypeOK
  <2>2. /\ finobj' \in Seq(Objects) /\ tobefnz' \in Seq(Objects)
        /\ finalized' \subseteq Objects /\ Separated' = Separated /\ ListsOK'
        /\ finalized \subseteq finalized' /\ finalized' \subseteq finalized \cup Separated
    <3>1. CASE Collect
      <4>1. PICK dead \in SUBSET Range(finobj) \ {{}} :
              /\ finobj' = Without(finobj, dead)
              /\ tobefnz' = tobefnz \o Keep(finobj, dead)
              /\ finalized' = finalized \cup dead
        BY <3>1 DEF Collect
      <4> QED BY <1>0, <4>1, SeparateIs DEF Separated
    <3>2. CASE BeginClose
      <4>1. /\ finobj' = <<>> /\ tobefnz' = tobefnz \o finobj
            /\ finalized' = finalized \cup Range(finobj)
        BY <3>2 DEF BeginClose
      <4>2. finobj \in Seq(Objects) /\ tobefnz \in Seq(Objects) BY <1>0 DEF TypeOK
      <4>3. /\ tobefnz' \in Seq(Objects) /\ Range(tobefnz') = Range(tobefnz) \cup Range(finobj)
            /\ IsInjective(tobefnz')
        BY <1>0, <4>1, <4>2, ConcatMembers DEF ListsOK
      <4>4. Range(<<>>) = {} /\ IsInjective(<<>>) BY DEF Range, IsInjective
      <4>5. finobj' \in Seq(Objects) BY <4>1
      <4>6. Range(finobj) \subseteq Objects BY <4>2 DEF Range
      <4> QED BY <1>0, <4>1, <4>3, <4>4, <4>5, <4>6 DEF Separated, ListsOK, TypeOK
    <3> QED BY <1>6, <3>1, <3>2
  <2>3. TypeOK' BY <1>0, <1>6, <2>1, <2>2 DEF TypeOK
  <2>4. PushesOK'
    <3>1. \A w \in Wrappers : w \notin Separated \cup finalized => w \notin Separated' \cup finalized'
      BY <2>2
    <3> QED BY <1>0, <2>1, <3>1, FewerPushes
  <2>5. RefsOK' BY <1>0, <2>1, <2>2 DEF RefsOK
  <2>6. NamedOK'
    <3>1. Named' = Named BY <2>1 DEF Named, Running
    <3> QED BY <1>0, <2>1, <2>2, <3>1, NamedStays DEF Known
  <2> QED BY <2>1, <2>2, <2>3, <2>4, <2>5, <2>6 DEF DueInv, ClosedOK
<1>7. ASSUME DeleteRef \/ BeginFinalizer, rules' = rules PROVE DueInv'
  <2> DEFINE o == Head(tobefnz)
  <2>1. /\ phase # "closed" /\ phase' = phase /\ tobefnz # <<>> /\ tobefnz' = Tail(tobefnz)
        /\ UNCHANGED <<finobj, finalized, roots, field>>
    BY <1>0, <1>7, NotClosed DEF DeleteRef, BeginFinalizer, Finalizing
  <2>2. /\ tobefnz' \in Seq(Objects) /\ o \in Objects /\ o \in Separated
        /\ Separated' = Separated \ {o} /\ o \in finalized /\ ListsOK'
    BY <1>0, <2>1, TakeIs
  <2> HIDE DEF o
  <2>3. CASE DeleteRef
    <3>1. o \in Wrappers /\ ref' = [ref EXCEPT ![o] = "deleted"] /\ stack' = stack
      BY <2>3 DEF DeleteRef, o
    <3>2. \A w \in Wrappers : ref'[w] = IF w = o THEN "deleted" ELSE ref[w]
      BY <1>0, <3>1 DEF TypeOK
    <3>3. TypeOK' BY <1>0, <1>7, <2>1, <2>2, <3>1 DEF TypeOK
    <3>4. PushesOK'
      <4>1. \A w \in Wrappers : ref[w] = "live" /\ w \notin Separated \cup finalized =>
               ref'[w] = "live" /\ w \notin Separated' \cup finalized'
        BY <2>1, <2>2, <3>2
      <4> QED BY <1>0, <3>1, <4>1, FewerPushes
    <3>5. RefsOK' BY <1>0, <2>1, <2>2, <3>2 DEF RefsOK
    <3>6. NamedOK'
      <4>1. Named' = Named BY <2>1, <3>1 DEF Named, Running
      <4> QED BY <1>0, <2>1, <2>2, <4>1, NamedStays DEF Known
    <3> QED BY <2>1, <2>2, <3>3, <3>4, <3>5, <3>6 DEF DueInv, ClosedOK
  <2>4. CASE BeginFinalizer
    <3>1. /\ o \in Tables /\ ref' = ref /\ stack' = Append(stack, GcFrame(o))
          /\ GcFrame(o) \in Frame /\ GcFrame(o).kind = "gc"
      BY <2>4, FrameIs DEF BeginFinalizer, o
    <3>2. /\ stack' \in Seq(Frame)
          /\ \A i \in DOMAIN stack : i \in DOMAIN stack' /\ stack'[i] = stack[i]
          /\ stack'[Len(stack) + 1] = GcFrame(o)
          /\ \A i \in DOMAIN stack' : i = Len(stack) + 1 \/ i \in DOMAIN stack
      BY <1>0, <3>1, PushIs
    <3>3. TypeOK' BY <1>0, <1>7, <2>1, <2>2, <3>1, <3>2 DEF TypeOK
    <3>4. PushesOK'
      <4>1. \A i \in DOMAIN stack' :
               IsPush(i)' => IsPush(i) /\ i \in DOMAIN stack /\ stack'[i] = stack[i]
        BY <3>1, <3>2 DEF IsPush
      <4> QED BY <1>0, <2>1, <2>2, <3>1, <4>1 DEF PushesOK
    <3>5. RefsOK' BY <1>0, <2>1, <2>2, <3>1 DEF RefsOK
    <3>6. NamedOK'
      <4>1. Running' = Running \cup {o} BY <1>0, <3>1, FrameIs, RunningMore
      <4>2. Named' = Named \cup {o} BY <2>1, <4>1 DEF Named
      <4>3. o \in Known' /\ Known' = Known BY <2>1, <2>2 DEF Known
      <4> QED BY <1>0, <2>1, <4>2, <4>3, NamedStays
    <3> QED BY <2>1, <2>2, <3>3, <3>4, <3>5, <3>6 DEF DueInv, ClosedOK
  <2> QED BY <1>7, <2>3, <2>4
<1>8. ASSUME EndClose, rules' = rules PROVE DueInv'
  <2>1. /\ phase' = "closed" /\ stack = <<>> /\ tobefnz = <<>> /\ finobj' = <<>>
        /\ roots' = {} /\ finalized' = {} /\ field' = [T \in Tables |-> {}]
        /\ UNCHANGED <<ref, tobefnz, stack>>
    BY <1>8 DEF EndClose
  <2>2. Range(<<>>) = {} /\ IsInjective(<<>>) BY DEF Range, IsInjective
  <2>3. Separated' = {} BY <2>1, <2>2 DEF Separated
  <2>4. ListsOK' BY <2>1, <2>2 DEF ListsOK
  <2>5. TypeOK' BY <1>0, <1>8, <2>1 DEF TypeOK
  <2>6. PushesOK' BY <2>1 DEF PushesOK
  <2>7. RefsOK' BY <1>0, <2>1, <2>3 DEF RefsOK
  <2>8. NamedOK' BY <2>1 DEF NamedOK, Named, Running
  <2> QED BY <2>1, <2>4, <2>5, <2>6, <2>7, <2>8 DEF DueInv, ClosedOK
<1>10. ASSUME Sweep, rules' = rules PROVE DueInv'
  <2> DEFINE kept == Reach(roots \cup Running \cup Separated)
             freed == finalized \ kept
  <2>1. /\ phase # "closed"
        /\ ref' = [w \in Wrappers |-> IF w \in freed THEN "none" ELSE ref[w]]
        /\ field' = [T \in Tables |-> IF T \in freed THEN {} ELSE field[T]]
        /\ finalized' = finalized \ freed
        /\ UNCHANGED <<finobj, tobefnz, roots, stack, phase, Separated, Running>>
    BY <1>0, <1>10, NotClosed DEF Sweep, Separated, Running
  <2>2. roots \cup Running \cup Separated \subseteq Objects
    <3>1. Range(finobj) \subseteq Objects /\ Range(tobefnz) \subseteq Objects
      BY <1>0 DEF TypeOK, Range
    <3> QED BY <1>0, <3>1, RunningIs DEF TypeOK, Separated, Objects
  <2>3. /\ roots \cup Running \cup Separated \subseteq kept
        /\ \A T \in kept \cap Tables : field[T] \subseteq kept
    BY <1>0, <2>2, ReachIs
  <2> HIDE DEF kept
  <2>4. TypeOK' BY <1>0, <1>10, <2>1 DEF TypeOK
  <2>5. ListsOK' BY <1>0, <2>1, <2>3 DEF ListsOK, Separated
  <2>6. PushesOK'
    <3>1. \A w \in Wrappers : ref[w] = "live" /\ w \notin Separated \cup finalized =>
             ref'[w] = "live" /\ w \notin Separated' \cup finalized'
      BY <2>1
    <3> QED BY <1>0, <2>1, <3>1, FewerPushes
  <2>7. RefsOK' BY <1>0, <2>1, <2>3 DEF RefsOK
  <2>8. NamedOK'
    <3>1. \A T \in Tables : field'[T] # {} => T \in Known' /\ T \in kept
      <4>1. SUFFICES ASSUME NEW T \in Tables, field'[T] # {} PROVE T \in Known' /\ T \in kept
        OBVIOUS
      <4>2. T \notin freed /\ field[T] # {} BY <2>1, <4>1
      <4>3. T \in Separated \cup finalized BY <1>0, <4>2 DEF NamedOK, Known
      <4> QED BY <2>1, <2>3, <4>2, <4>3 DEF Known
    <3>2. Named' \subseteq kept
      <4>1. \A T \in Tables : field'[T] \subseteq kept BY <2>1, <2>3, <3>1
      <4> QED BY <2>1, <2>3, <4>1 DEF Named
    <3>3. Named' \subseteq Named BY <2>1 DEF Named
    <3> QED BY <1>0, <2>1, <3>1, <3>2, <3>3 DEF NamedOK, Known
  <2> QED BY <1>0, <2>1, <2>4, <2>5, <2>6, <2>7, <2>8 DEF DueInv, ClosedOK
<1>9. CASE UNCHANGED vars
  <2>1. UNCHANGED <<rules, ref, finobj, tobefnz, finalized, roots, field, stack, phase>>
    BY <1>9 DEF vars
  <2>2. Separated' = Separated /\ Running' = Running BY <2>1 DEF Separated, Running
  <2> QED BY <1>0, <2>1, <2>2 DEF DueInv, TypeOK, ListsOK, PushesOK, RefsOK, NamedOK,
             Named, Known, ClosedOK, IsPush
<1> QED BY <1>1, <1>2, <1>3, <1>4, <1>5, <1>6, <1>7, <1>8, <1>9, <1>10
        DEF Next, Step, Objects

\* A reference is deleted once: what waits for java_function_gc has a live one
\* and waits once, whatever finalizers and scripts do.
THEOREM RefsDeletedOnce == Spec => []DueOnce
<1>1. ASSUME DueInv PROVE DueOnce
  <2>1. finobj \in Seq(Objects) /\ tobefnz \in Seq(Objects) BY <1>1 DEF DueInv, TypeOK
  <2>2. IsInjective(finobj \o tobefnz)
    BY <1>1, <2>1, ConcatMembers DEF DueInv, ListsOK
  <2> QED BY <1>1, <2>2 DEF DueInv, RefsOK, DueOnce
<1>2. Init => DueInv BY InitDueInv
<1>3. DueInv /\ [Next]_vars => DueInv' BY NextDueInv
<1> QED BY <1>1, <1>2, <1>3, PTL DEF Spec

-----------------------------------------------------------------------------
(* No reference is lost *)

\* Under "noclosing" lua_close finds no push under way and no new wrapper.
ClosingQuiet == "noclosing" \in rules /\ phase # "open" =>
    /\ \A i \in DOMAIN stack : ~IsPush(i)
    /\ \A w \in Wrappers : w \notin Range(finobj)

OwnInv == ClosingQuiet /\ EveryRefOwned

\* Every step keeps it.
LEMMA NextClosingQuiet ==
  ASSUME DueInv, ClosingQuiet, [Next]_vars
  PROVE  ClosingQuiet'
<1>0. TypeOK /\ ListsOK /\ PushesOK /\ RefsOK /\ NamedOK /\ ClosedOK BY DEF DueInv
<1> USE DEF moving
<1>1. SUFFICES ASSUME "noclosing" \in rules, rules' = rules, phase' # "open"
               PROVE  /\ \A i \in DOMAIN stack' : ~IsPush(i)'
                      /\ \A w \in Wrappers : w \notin Range(finobj')
  BY DEF ClosingQuiet, Next, vars
<1>2. ASSUME NEW w \in Wrappers, BeginPush(w) PROVE FALSE
  BY <1>1, <1>2 DEF BeginPush
<1>3. ASSUME EndPush PROVE FALSE
  <2>1. phase # "open" /\ stack # <<>> /\ Last(stack).kind = "push" /\ stack' = Front(stack)
    BY <1>1, <1>3 DEF EndPush, TopIs
  <2>2. Len(stack) \in DOMAIN stack /\ Last(stack) = stack[Len(stack)]
    BY <1>0, <2>1, PopOneIs
  <2> QED BY <1>1, <2>1, <2>2 DEF ClosingQuiet, IsPush
<1>4. CASE AbortPush \/ EndFinalizer \/ FailFinalizer
  <2>1. stack # <<>> /\ phase' = phase /\ finobj' = finobj
    BY <1>4 DEF AbortPush, EndFinalizer, FailFinalizer, TopIs
  <2>2. \A i \in DOMAIN stack' : i \in DOMAIN stack /\ stack'[i] = stack[i]
    BY <1>0, <1>4, EndsAre
  <2> QED BY <1>1, <2>1, <2>2 DEF ClosingQuiet, IsPush
<1>5. ASSUME NEW o \in Objects, SetMetatable(o) \/ (o \in Tables /\ NewTable(o))
      PROVE  /\ \A i \in DOMAIN stack' : ~IsPush(i)'
             /\ \A w \in Wrappers : w \notin Range(finobj')
  <2>1. /\ phase # "closed" /\ phase' = phase /\ CheckFinalizer(o) /\ stack' = stack
        /\ o \in Wrappers => o \in Named
    BY <1>0, <1>5, NotClosed, NameableIsNamed, ObjectsAssumption DEF SetMetatable, NewTable
  <2>2. finobj' = finobj \/ (o \notin Wrappers /\ finobj' = <<o>> \o finobj)
    BY <1>0, <2>1 DEF CheckFinalizer, NamedOK, Known
  <2>3. finobj \in Seq(Objects) BY <1>0 DEF TypeOK
  <2>4. \A w \in Wrappers : w \in Range(finobj') => w \in Range(finobj)
    <3>1. CASE finobj' = <<o>> \o finobj /\ o \notin Wrappers
      <4>1. Range(finobj') = Range(finobj) \cup {o} BY <2>3, <3>1, ConsMembers
      <4> QED BY <3>1, <4>1
    <3> QED BY <2>2, <3>1
  <2> QED BY <1>1, <2>1, <2>4 DEF ClosingQuiet, IsPush
<1>6. CASE Collect
  <2>1. phase' = phase /\ stack' = stack BY <1>6 DEF Collect
  <2>2. Range(finobj') \subseteq Range(finobj)
    <3>1. PICK dead : finobj' = Without(finobj, dead) BY <1>6 DEF Collect
    <3>2. finobj \in Seq(Objects) BY <1>0 DEF TypeOK
    <3> QED BY <3>1, <3>2, WithoutMembers
  <2> QED BY <1>1, <2>1, <2>2 DEF ClosingQuiet, IsPush
<1>7. CASE BeginClose \/ EndClose
  <2>1. stack' = <<>> /\ finobj' = <<>> BY <1>7 DEF BeginClose, EndClose
  <2> QED BY <2>1 DEF Range
<1>8. CASE BeginFinalizer
  <2>1. /\ Head(tobefnz) \in Tables /\ stack' = Append(stack, GcFrame(Head(tobefnz)))
        /\ phase' = phase /\ finobj' = finobj
    BY <1>8 DEF BeginFinalizer
  <2>2. \A i \in DOMAIN stack' :
           stack'[i].kind = "gc" \/ (i \in DOMAIN stack /\ stack'[i] = stack[i])
    BY <1>0, <2>1, FrameIs, PushIs
  <2> QED BY <1>1, <2>1, <2>2 DEF ClosingQuiet, IsPush
<1>9. CASE \/ UNCHANGED vars \/ DeleteRef \/ Sweep
           \/ \E T \in Tables, o \in Objects : Store(T, o)
           \/ \E o \in Objects : Save(o) \/ Drop(o)
  <2>1. phase' = phase /\ stack' = stack /\ finobj' = finobj
    BY <1>9 DEF vars, DeleteRef, Sweep, Store, Save, Drop
  <2> QED BY <1>1, <2>1 DEF ClosingQuiet, IsPush
<1> QED BY <1>2, <1>3, <1>4, <1>5, <1>6, <1>7, <1>8, <1>9 DEF Next, Step, Objects

\* Every step keeps it.
LEMMA NextEveryRefOwned ==
  ASSUME DueInv, DueInv', OwnInv, [Next]_vars
  PROVE  EveryRefOwned'
<1>0. TypeOK /\ ListsOK /\ PushesOK /\ RefsOK /\ NamedOK /\ ClosedOK BY DEF DueInv
<1> USE DEF moving
<1>1. SUFFICES ASSUME {"noerrors", "noclosing"} \subseteq rules, rules' = rules,
                      NEW w \in Wrappers, ref'[w] = "live"
               PROVE  w \in Separated' \/ PushFrame(w) \in Range(stack')
  BY DEF EveryRefOwned, Next, vars
<1>2. ref[w] = "live" => w \in Separated \/ \E i \in DOMAIN stack : stack[i] = PushFrame(w)
  BY <1>1 DEF OwnInv, EveryRefOwned, Range
<1>3. ASSUME NEW x \in Wrappers, BeginPush(x)
      PROVE  w \in Separated' \/ PushFrame(w) \in Range(stack')
  <2>1. /\ stack' = Append(stack, PushFrame(x)) /\ PushFrame(x) \in Frame
        /\ ref' = [ref EXCEPT ![x] = "live"] /\ Separated' = Separated
    BY <1>3, FrameIs DEF BeginPush, Separated
  <2>2. /\ \A i \in DOMAIN stack : i \in DOMAIN stack' /\ stack'[i] = stack[i]
        /\ Len(stack) + 1 \in DOMAIN stack' /\ stack'[Len(stack) + 1] = PushFrame(x)
    BY <1>0, <2>1, PushIs
  <2>3. w = x \/ ref[w] = "live" BY <1>0, <1>1, <2>1 DEF TypeOK
  <2> QED BY <1>2, <2>1, <2>2, <2>3 DEF Range
<1>4. CASE EndPush
  <2> DEFINE o == Last(stack).obj
  <2>1. /\ stack # <<>> /\ stack' = Front(stack) /\ CheckFinalizer(o) /\ ref' = ref
        /\ Last(stack).kind = "push" /\ UNCHANGED <<tobefnz, finalized>>
    BY <1>4 DEF EndPush, TopIs
  <2>2. /\ Len(stack) \in DOMAIN stack /\ Last(stack) = stack[Len(stack)]
        /\ Last(stack) \in Frame
        /\ DOMAIN stack' = 1..Len(stack) - 1 /\ DOMAIN stack = 1..Len(stack)
        /\ Len(stack) \in Nat
        /\ \A i \in DOMAIN stack' : stack'[i] = stack[i]
    BY <1>0, <2>1, PopOneIs
  <2>3. o \in Wrappers /\ Last(stack) = PushFrame(o) BY <2>1, <2>2, FrameIs
  <2>4. o \notin finalized BY <1>0, <2>1, <2>2 DEF PushesOK, IsPush
  <2> HIDE DEF o
  <2>5. Separated' = Separated \cup {o}
    BY <1>0, <2>1, <2>3, <2>4, CheckFinalizerIs DEF Objects
  <2>6. ASSUME NEW i \in DOMAIN stack, stack[i] = PushFrame(w), w # o
        PROVE  PushFrame(w) \in Range(stack')
    <3>1. i # Len(stack)
      <4>1. PushFrame(w).obj = w /\ PushFrame(o).obj = o BY <2>3, FrameIs
      <4> QED BY <2>2, <2>3, <2>6, <4>1
    <3>2. i \in DOMAIN stack' BY <2>2, <3>1
    <3> QED BY <2>2, <2>6, <3>2 DEF Range
  <2> QED BY <1>1, <1>2, <2>1, <2>5, <2>6
<1>5. ASSUME AbortPush \/ FailFinalizer PROVE FALSE
  BY <1>1, <1>5 DEF AbortPush, FailFinalizer
<1>6. CASE EndFinalizer
  <2>1. /\ stack # <<>> /\ stack' = Front(stack) /\ Last(stack).kind = "gc"
        /\ ref' = ref /\ Separated' = Separated
    BY <1>6 DEF EndFinalizer, TopIs, Separated
  <2>2. /\ Last(stack) = stack[Len(stack)] /\ Len(stack) \in Nat
        /\ DOMAIN stack' = 1..Len(stack) - 1 /\ DOMAIN stack = 1..Len(stack)
        /\ \A i \in DOMAIN stack' : stack'[i] = stack[i]
    BY <1>0, <2>1, PopOneIs
  <2>3. ASSUME NEW i \in DOMAIN stack, stack[i] = PushFrame(w)
        PROVE  PushFrame(w) \in Range(stack')
    <3>1. i # Len(stack) BY <1>1, <2>1, <2>2, <2>3, FrameIs
    <3>2. i \in DOMAIN stack' BY <2>2, <3>1
    <3> QED BY <2>2, <2>3, <3>2 DEF Range
  <2> QED BY <1>1, <1>2, <2>1, <2>3
<1>7. ASSUME NEW o \in Objects, SetMetatable(o) \/ (o \in Tables /\ NewTable(o))
      PROVE  w \in Separated' \/ PushFrame(w) \in Range(stack')
  <2>1. CheckFinalizer(o) /\ UNCHANGED <<ref, tobefnz, finalized, stack>>
    BY <1>7 DEF SetMetatable, NewTable
  <2>2. Separated \subseteq Separated' BY <1>0, <2>1, CheckFinalizerIs
  <2> QED BY <1>1, <1>2, <2>1, <2>2 DEF Range
<1>8. CASE Collect
  <2>1. PICK dead \in SUBSET Range(finobj) \ {{}} :
          /\ finobj' = Without(finobj, dead)
          /\ tobefnz' = tobefnz \o Keep(finobj, dead)
          /\ finalized' = finalized \cup dead
    BY <1>8 DEF Collect
  <2>2. Separated' = Separated BY <1>0, <2>1, SeparateIs
  <2>3. ref' = ref /\ stack' = stack BY <1>8 DEF Collect
  <2> QED BY <1>1, <1>2, <2>2, <2>3 DEF Range
<1>9. CASE DeleteRef \/ BeginFinalizer
  <2> DEFINE o == Head(tobefnz)
  <2>1. tobefnz # <<>> /\ tobefnz' = Tail(tobefnz) /\ UNCHANGED <<finobj, finalized>>
    BY <1>9 DEF DeleteRef, BeginFinalizer, Finalizing
  <2>2. Separated' = Separated \ {o} BY <1>0, <2>1, TakeIs
  <2>3. \/ o \in Wrappers /\ ref' = [ref EXCEPT ![o] = "deleted"] /\ stack' = stack
        \/ o \in Tables /\ ref' = ref /\ stack' = Append(stack, GcFrame(o))
    BY <1>9 DEF DeleteRef, BeginFinalizer
  <2> HIDE DEF o
  <2>4. ref[w] = "live" /\ w # o
    BY <1>0, <1>1, <2>3, ObjectsAssumption DEF TypeOK
  <2>5. \A i \in DOMAIN stack : i \in DOMAIN stack' /\ stack'[i] = stack[i]
    BY <1>0, <2>3, FrameIs, PushIs
  <2> QED BY <1>2, <2>2, <2>4, <2>5 DEF Range
<1>10. CASE BeginClose
  <2>1. /\ finobj' = <<>> /\ tobefnz' = tobefnz \o finobj /\ ref' = ref /\ stack' = stack
    BY <1>10 DEF BeginClose
  <2>2. Separated \subseteq Separated'
    <3>1. Range(tobefnz') = Range(tobefnz) \cup Range(finobj)
      BY <1>0, <2>1, ConcatMembers DEF TypeOK
    <3> QED BY <3>1 DEF Separated
  <2> QED BY <1>1, <1>2, <2>1, <2>2 DEF Range
<1>11. ASSUME EndClose PROVE FALSE
  <2>1. phase = "closing" /\ stack = <<>> /\ tobefnz = <<>> /\ ref' = ref
    BY <1>11 DEF EndClose
  <2>2. w \in Separated BY <1>1, <1>2, <2>1
  <2>3. w \in Range(finobj) BY <2>1, <2>2 DEF Separated, Range
  <2> QED BY <1>1, <2>1, <2>3 DEF OwnInv, ClosingQuiet
<1>12. CASE \/ UNCHANGED vars
            \/ \E T \in Tables, o \in Objects : Store(T, o)
            \/ \E o \in Objects : Save(o) \/ Drop(o)
  <2>1. ref' = ref /\ stack' = stack /\ Separated' = Separated
    BY <1>12 DEF vars, Store, Save, Drop, Separated
  <2> QED BY <1>1, <1>2, <2>1 DEF Range
<1>13. CASE Sweep
  <2>1. stack' = stack /\ Separated' = Separated /\ (ref'[w] = "live" => ref[w] = "live")
    BY <1>13 DEF Sweep, Separated
  <2> QED BY <1>1, <1>2, <2>1 DEF Range
<1> QED BY <1>3, <1>4, <1>5, <1>6, <1>7, <1>8, <1>9, <1>10, <1>11, <1>12, <1>13
        DEF Next, Step, Objects

\* Both hold in every behaviour.
LEMMA OwnInvHolds == Spec => [](DueInv /\ OwnInv)
<1>1. ASSUME Init PROVE OwnInv BY <1>1 DEF Init, OwnInv, ClosingQuiet, EveryRefOwned
<1>2. ASSUME DueInv, OwnInv, [Next]_vars PROVE OwnInv'
  <2>1. DueInv' BY <1>2, NextDueInv
  <2> QED BY <1>2, <2>1, NextClosingQuiet, NextEveryRefOwned DEF OwnInv
<1>3. Init => DueInv BY InitDueInv
<1>4. DueInv /\ [Next]_vars => DueInv' BY NextDueInv
<1> QED BY <1>1, <1>2, <1>3, <1>4, PTL DEF Spec

\* Programs without errors whose finalizers push no functions during lua_close:
\* a live reference belongs to a push under way or to a userdata that the
\* collector still has to finalize.
THEOREM RefsStayOwned == Spec => []EveryRefOwned
<1>1. DueInv /\ OwnInv => EveryRefOwned BY DEF OwnInv
<1> QED BY <1>1, OwnInvHolds, PTL

\* The same programs: lua_close leaves no reference behind.
THEOREM CloseReleasesAll == Spec => []AllReleased
<1>1. ASSUME DueInv, OwnInv PROVE AllReleased
  <2>1. SUFFICES ASSUME {"noerrors", "noclosing"} \subseteq rules, phase = "closed",
                        NEW w \in Wrappers, ref[w] = "live"
                 PROVE  FALSE
    BY DEF AllReleased
  <2>2. stack = <<>> /\ finobj = <<>> /\ tobefnz = <<>> BY <1>1, <2>1 DEF DueInv, ClosedOK
  <2>3. w \in Separated \/ PushFrame(w) \in Range(stack)
    BY <1>1, <2>1 DEF OwnInv, EveryRefOwned
  <2> QED BY <2>2, <2>3 DEF Separated, Range
<1> QED BY <1>1, OwnInvHolds, PTL

-----------------------------------------------------------------------------
(* What can be called has its reference *)

\* T comes before w in tobefnz followed by finobj: its finalizer runs first.
Before(T, w) ==
    \/ \E i, j \in DOMAIN tobefnz : i < j /\ tobefnz[i] = T /\ tobefnz[j] = w
    \/ T \in Range(tobefnz) /\ w \in Range(finobj)
    \/ \E i, j \in DOMAIN finobj : i < j /\ finobj[i] = T /\ finobj[j] = w

Careful == {"orderly", "nosave", "nocollect", "noglobals"} \subseteq rules

\* What the program holds is not due to be finalized.
RootsNotDue == phase = "open" => roots \subseteq Range(finobj)

\* What a running finalizer refers to waits, as no finalizer is started meanwhile.
RunningWaits == \A T \in Running : field[T] \subseteq Separated

Ordered == \A T \in Tables \cap Separated : \A o \in field[T] : Before(T, o)

CallInv == Careful => RootsNotDue /\ RunningWaits /\ Ordered

\* Both are in tobefnz or will be.
LEMMA BeforeIsSeparated ==
  ASSUME NEW T, NEW w, Before(T, w)
  PROVE  T \in Separated /\ w \in Separated
  BY DEF Before, Separated, Range

\* No object is in the lists twice.
LEMMA NotBeforeItself ==
  ASSUME TypeOK, ListsOK, NEW o
  PROVE  ~Before(o, o)
<1>1. /\ DOMAIN finobj = 1..Len(finobj) /\ Len(finobj) \in Nat
      /\ DOMAIN tobefnz = 1..Len(tobefnz) /\ Len(tobefnz) \in Nat
  BY DEF TypeOK
<1>2. ~\E i, j \in DOMAIN tobefnz : i < j /\ tobefnz[i] = o /\ tobefnz[j] = o
  BY <1>1 DEF ListsOK, IsInjective
<1>3. ~\E i, j \in DOMAIN finobj : i < j /\ finobj[i] = o /\ finobj[j] = o
  BY <1>1 DEF ListsOK, IsInjective
<1>4. ~(o \in Range(tobefnz) /\ o \in Range(finobj)) BY DEF ListsOK
<1> QED BY <1>2, <1>3, <1>4 DEF Before

\* luaC_checkfinalizer puts its object before all others.
LEMMA BeforeAfterCheck ==
  ASSUME TypeOK, NEW T, NEW w, Before(T, w), NEW o \in Objects,
         CheckFinalizer(o), tobefnz' = tobefnz
  PROVE  Before(T, w)'
<1>1. finobj \in Seq(Objects) BY DEF TypeOK
<1>2. CASE finobj' = finobj BY <1>2 DEF Before
<1>3. CASE finobj' = <<o>> \o finobj
  <2>1. /\ DOMAIN finobj' = 1..Len(finobj) + 1 /\ DOMAIN finobj = 1..Len(finobj)
        /\ Len(finobj) \in Nat
        /\ \A i \in DOMAIN finobj : finobj'[i + 1] = finobj[i]
    BY <1>1, <1>3
  <2>2. \A i \in DOMAIN finobj : i + 1 \in DOMAIN finobj' /\ finobj'[i + 1] = finobj[i]
    BY <2>1
  <2>3. Range(finobj) \subseteq Range(finobj') BY <2>2 DEF Range
  <2>4. ASSUME NEW i \in DOMAIN finobj, NEW j \in DOMAIN finobj,
               i < j, finobj[i] = T, finobj[j] = w
        PROVE  Before(T, w)'
    <3>1. i + 1 < j + 1 BY <2>1, <2>4
    <3> QED BY <2>2, <2>4, <3>1 DEF Before
  <2> QED BY <2>3, <2>4 DEF Before
<1> QED BY <1>2, <1>3 DEF CheckFinalizer

\* Objects that move to the end of tobefnz, and those that stay, keep their
\* order.
LEMMA BeforeAfterMove ==
  ASSUME TypeOK, NEW T, NEW w, Before(T, w), NEW k \in Seq(Objects),
         tobefnz' = tobefnz \o k,
         \A o \in Range(finobj) : o \in Range(finobj') \/ o \in Range(k),
         \A i, j \in DOMAIN finobj :
            i < j /\ finobj[i] \in Range(k) /\ finobj[j] \in Range(k) =>
               \E a, b \in DOMAIN k : a < b /\ k[a] = finobj[i] /\ k[b] = finobj[j],
         \A i, j \in DOMAIN finobj :
            i < j /\ finobj[i] \notin Range(k) /\ finobj[j] \notin Range(k) =>
               \E a, b \in DOMAIN finobj' :
                  a < b /\ finobj'[a] = finobj[i] /\ finobj'[b] = finobj[j],
         T \in Range(finobj) \ Range(k) => w \notin Range(k)
  PROVE  Before(T, w)'
<1> DEFINE m == Len(tobefnz)
<1>1. tobefnz \in Seq(Objects) BY DEF TypeOK
<1>2. /\ m \in Nat /\ DOMAIN tobefnz = 1..m /\ Len(k) \in Nat /\ DOMAIN k = 1..Len(k)
      /\ DOMAIN tobefnz' = 1..m + Len(k)
      /\ \A i \in 1..m : tobefnz'[i] = tobefnz[i]
      /\ \A i \in 1..Len(k) : tobefnz'[m + i] = k[i]
  BY <1>1
<1> HIDE DEF m
<1>3. \A i \in 1..m : i \in DOMAIN tobefnz' BY <1>2
<1>4. \A i \in 1..Len(k) : m + i \in DOMAIN tobefnz' BY <1>2
<1>5. ASSUME NEW i \in DOMAIN tobefnz, NEW j \in DOMAIN tobefnz,
             i < j, tobefnz[i] = T, tobefnz[j] = w
      PROVE  Before(T, w)'
  BY <1>2, <1>3, <1>5 DEF Before
<1>6. ASSUME T \in Range(tobefnz), w \in Range(finobj) PROVE Before(T, w)'
  <2>1. PICK i \in 1..m : tobefnz[i] = T BY <1>2, <1>6 DEF Range
  <2>2. CASE w \in Range(k)
    <3>1. PICK j \in 1..Len(k) : k[j] = w BY <1>2, <2>2 DEF Range
    <3>2. i < m + j BY <1>2
    <3>3. /\ i \in DOMAIN tobefnz' /\ tobefnz'[i] = T
          /\ m + j \in DOMAIN tobefnz' /\ tobefnz'[m + j] = w
      BY <1>2, <1>3, <1>4, <2>1, <3>1
    <3> QED BY <3>2, <3>3 DEF Before
  <2>3. CASE w \notin Range(k)
    <3>1. w \in Range(finobj') BY <1>6, <2>3
    <3>2. T \in Range(tobefnz') BY <1>2, <1>3, <2>1 DEF Range
    <3> QED BY <3>1, <3>2 DEF Before
  <2> QED BY <2>2, <2>3
<1>7. ASSUME NEW i \in DOMAIN finobj, NEW j \in DOMAIN finobj,
             i < j, finobj[i] = T, finobj[j] = w
      PROVE  Before(T, w)'
  <2>1. T \in Range(finobj) /\ w \in Range(finobj) BY <1>7 DEF Range
  <2>2. CASE T \notin Range(k)
    <3>1. w \notin Range(k) BY <2>1, <2>2
    <3> QED BY <1>7, <2>2, <3>1 DEF Before
  <2>3. CASE T \in Range(k) /\ w \in Range(k)
    <3>1. PICK a \in DOMAIN k, b \in DOMAIN k : a < b /\ k[a] = T /\ k[b] = w
      BY <1>7, <2>3
    <3>2. m + a < m + b BY <1>2, <3>1
    <3>3. /\ m + a \in DOMAIN tobefnz' /\ tobefnz'[m + a] = T
          /\ m + b \in DOMAIN tobefnz' /\ tobefnz'[m + b] = w
      BY <1>2, <1>4, <3>1
    <3> QED BY <3>2, <3>3 DEF Before
  <2>4. CASE T \in Range(k) /\ w \notin Range(k)
    <3>1. w \in Range(finobj') BY <2>1, <2>4
    <3>2. PICK a \in 1..Len(k) : k[a] = T BY <1>2, <2>4 DEF Range
    <3>3. T \in Range(tobefnz') BY <1>2, <1>4, <3>2 DEF Range
    <3> QED BY <3>1, <3>3 DEF Before
  <2> QED BY <2>2, <2>3, <2>4
<1> QED BY <1>5, <1>6, <1>7 DEF Before

\* The finalizer of the first object starts; the others keep their order.
LEMMA BeforeAfterTake ==
  ASSUME TypeOK, NEW T, NEW w, Before(T, w), tobefnz # <<>>,
         tobefnz' = Tail(tobefnz), finobj' = finobj, T # Head(tobefnz)
  PROVE  Before(T, w)'
<1>1. tobefnz \in Seq(Objects) BY DEF TypeOK
<1>2. /\ Len(tobefnz) \in Nat /\ DOMAIN tobefnz = 1..Len(tobefnz)
      /\ DOMAIN tobefnz' = 1..Len(tobefnz) - 1 /\ tobefnz[1] = Head(tobefnz)
      /\ \A i \in DOMAIN tobefnz' : tobefnz'[i] = tobefnz[i + 1]
  BY <1>1
<1>3. ASSUME NEW i \in DOMAIN tobefnz, NEW j \in DOMAIN tobefnz,
             i < j, tobefnz[i] = T, tobefnz[j] = w
      PROVE  Before(T, w)'
  <2>1. i # 1 BY <1>2, <1>3
  <2>2. /\ i - 1 \in DOMAIN tobefnz' /\ (i - 1) + 1 = i
        /\ j - 1 \in DOMAIN tobefnz' /\ (j - 1) + 1 = j /\ i - 1 < j - 1
    BY <1>2, <1>3, <2>1
  <2>3. tobefnz'[i - 1] = T /\ tobefnz'[j - 1] = w BY <1>2, <1>3, <2>2
  <2> QED BY <2>2, <2>3 DEF Before
<1>4. ASSUME T \in Range(tobefnz), w \in Range(finobj) PROVE Before(T, w)'
  <2>1. Range(tobefnz) = Range(tobefnz') \cup {Head(tobefnz)} BY <1>1, TailMembers
  <2> QED BY <1>4, <2>1 DEF Before
<1> QED BY <1>3, <1>4 DEF Before

\* What is in tobefnz or finobj leads to nothing else; neither does what is in
\* finobj.
LEMMA SeparatedIsClosed ==
  ASSUME TypeOK, ListsOK, Ordered
  PROVE  /\ \A T \in Separated \cap Tables : field[T] \subseteq Separated
         /\ \A T \in Range(finobj) \cap Tables : field[T] \subseteq Range(finobj)
         /\ Separated \subseteq Objects
<1>1. ASSUME NEW T \in Separated \cap Tables, NEW o \in field[T] PROVE o \in Separated
  BY <1>1, BeforeIsSeparated DEF Ordered
<1>2. ASSUME NEW T \in Range(finobj) \cap Tables, NEW o \in field[T]
      PROVE  o \in Range(finobj)
  <2>1. Before(T, o) BY <1>2 DEF Ordered, Separated
  <2>2. T \notin Range(tobefnz) BY <1>2 DEF ListsOK
  <2>3. ~ \E i, j \in DOMAIN tobefnz : i < j /\ tobefnz[i] = T /\ tobefnz[j] = o
    BY <2>2 DEF Range
  <2> QED BY <2>1, <2>2, <2>3 DEF Before, Range
<1>3. Separated \subseteq Objects BY DEF TypeOK, Separated, Range
<1> QED BY <1>1, <1>2, <1>3

\* What the program leads to is not due, and what a finalizer may name waits.
LEMMA NameableWaits ==
  ASSUME TypeOK, ListsOK, RootsNotDue, RunningWaits, Ordered
  PROVE  /\ phase = "open" /\ Running = {} => Nameable \subseteq Range(finobj)
         /\ phase = "open" => Nameable \subseteq Running \cup Separated
         /\ phase = "closing" /\ Careful => Nameable \subseteq Running \cup Separated
<1>1. /\ \A T \in Separated \cap Tables : field[T] \subseteq Separated
      /\ \A T \in Range(finobj) \cap Tables : field[T] \subseteq Range(finobj)
      /\ Separated \subseteq Objects
  BY SeparatedIsClosed
<1>2. Range(finobj) \subseteq Separated BY DEF Separated
<1>3. CASE phase = "open" /\ Running = {}
  <2>1. roots \cup Running \subseteq Range(finobj) BY <1>3 DEF RootsNotDue
  <2>2. Reach(roots \cup Running) \subseteq Range(finobj) BY <1>1, <1>2, <2>1, ReachIs
  <2> QED BY <1>2, <1>3, <2>2 DEF Nameable, Accessible
<1> DEFINE C == Running \cup Separated
<1>4. C \in SUBSET Objects BY <1>1, RunningIs DEF Objects
<1>5. \A T \in C \cap Tables : field[T] \subseteq C BY <1>1 DEF RunningWaits
<1>6. \A S : S \subseteq C => Reach(S) \subseteq C
  <2> HIDE DEF C
  <2> QED BY <1>4, <1>5, ReachIs
<1>7. CASE phase = "open"
  <2>1. roots \cup Running \subseteq C BY <1>2, <1>7 DEF RootsNotDue
  <2> QED BY <1>3, <1>6, <1>7, <2>1 DEF Nameable, Accessible
<1>8. CASE phase = "closing" /\ Careful
  <2>1. Running \cup (roots \cap Range(finobj)) \subseteq C BY <1>2
  <2> QED BY <1>6, <1>8, <2>1 DEF Nameable, Careful
<1> QED BY <1>3, <1>7, <1>8

\* No finalizer runs in a step that no running finalizer may take.
LEMMA CarefulIsAlone ==
  ASSUME TypeOK, Careful
  PROVE  /\ \A T \in Tables, o \in Objects : Store(T, o) => Running = {} /\ phase = "open"
         /\ \A o \in Objects : Save(o) => Running = {} /\ phase = "open"
         /\ Collect \/ DeleteRef \/ BeginFinalizer \/ BeginClose \/ EndClose => Running = {}
<1>1. stack = <<>> => Running = {} BY RunningIs
<1>2. TopIs("gc") => Running # {}
  <2>1. SUFFICES ASSUME stack # <<>>, Last(stack).kind = "gc" PROVE Running # {}
    BY DEF TopIs
  <2>2. Len(stack) \in DOMAIN stack /\ Last(stack) = stack[Len(stack)]
    BY <2>1 DEF TypeOK, Last
  <2> QED BY <2>1, <2>2, RunningIs
<1>3. \A T \in Tables, o \in Objects : Store(T, o) => Running = {} /\ phase = "open"
  BY <1>2 DEF Careful, Store, Script
<1>4. \A o \in Objects : Save(o) => Running = {} /\ phase = "open"
  BY <1>2 DEF Careful, Save, Script
<1>5. Collect \/ DeleteRef \/ BeginFinalizer \/ BeginClose \/ EndClose => Running = {}
  BY <1>1 DEF Careful, Collect, DeleteRef, BeginFinalizer, BeginClose, EndClose,
     Finalizing, Collecting
<1> QED BY <1>3, <1>4, <1>5

\* Steps that leave lists and phase alone, take references away and start no
\* finalizer.
LEMMA CallInvQuiet ==
  ASSUME TypeOK, RootsNotDue, RunningWaits, Ordered,
         UNCHANGED <<finobj, tobefnz, phase>>,
         \A T \in Tables : field'[T] \subseteq field[T],
         roots' \subseteq roots, Running' \subseteq Running
  PROVE  RootsNotDue' /\ RunningWaits' /\ Ordered'
<1>1. Separated' = Separated /\ \A T, o : Before(T, o) => Before(T, o)'
  BY DEF Separated, Before
<1>2. RootsNotDue' BY DEF RootsNotDue
<1>3. Running \subseteq Tables BY RunningIs
<1>4. RunningWaits'
  <2>1. SUFFICES ASSUME NEW T \in Running', NEW o \in field'[T] PROVE o \in Separated
    BY <1>1 DEF RunningWaits
  <2>2. T \in Running /\ o \in field[T] BY <1>3, <2>1
  <2> QED BY <2>2 DEF RunningWaits
<1>5. Ordered'
  <2>1. SUFFICES ASSUME NEW T \in Tables \cap Separated, NEW o \in field'[T]
                 PROVE  Before(T, o)'
    BY <1>1 DEF Ordered
  <2>2. o \in field[T] BY <2>1
  <2> QED BY <1>1, <2>1, <2>2 DEF Ordered
<1> QED BY <1>2, <1>4, <1>5

\* Every step keeps it.
LEMMA NextCallInv ==
  ASSUME DueInv, DueInv', CallInv, [Next]_vars
  PROVE  CallInv'
<1>0. TypeOK /\ ListsOK /\ PushesOK /\ RefsOK /\ NamedOK /\ ClosedOK BY DEF DueInv
<1> DEFINE Parts == RootsNotDue /\ RunningWaits /\ Ordered
<1> USE DEF moving
<1>1. SUFFICES ASSUME Careful, rules' = rules PROVE Parts'
  BY DEF CallInv, Careful, Next, vars
<1>2. RootsNotDue /\ RunningWaits /\ Ordered BY <1>1 DEF CallInv
<1> HIDE DEF Parts
<1>a. ASSUME RootsNotDue', RunningWaits', Ordered' PROVE Parts'
  BY <1>a DEF Parts
<1>3. ASSUME NEW x \in Wrappers, BeginPush(x) PROVE Parts'
  <2>1. /\ stack' = Append(stack, PushFrame(x)) /\ PushFrame(x) \in Frame
        /\ PushFrame(x).kind = "push"
        /\ UNCHANGED <<finobj, tobefnz, field, phase, roots>>
    BY <1>3, FrameIs DEF BeginPush
  <2>2. Running' \subseteq Running BY <1>0, <2>1, RunningMore
  <2> QED BY <1>0, <1>2, <1>a, <2>1, <2>2, CallInvQuiet
<1>4. CASE AbortPush \/ EndFinalizer \/ FailFinalizer
  <2>1. UNCHANGED <<finobj, tobefnz, field, phase, roots>>
    BY <1>4 DEF AbortPush, EndFinalizer, FailFinalizer
  <2>2. \A i \in DOMAIN stack' : i \in DOMAIN stack /\ stack'[i] = stack[i]
    BY <1>0, <1>4, EndsAre
  <2>3. Running' \subseteq Running BY <1>0, <2>2, RunningFewer
  <2> QED BY <1>0, <1>2, <1>a, <2>1, <2>3, CallInvQuiet
<1>5. ASSUME NEW o \in Objects, CheckFinalizer(o), phase' = phase,
             UNCHANGED <<tobefnz, finalized, field>>,
             Running' \subseteq Running,
             \/ roots' = roots
             \/ roots' = roots \cup {o} /\ o \notin Known
      PROVE  Parts'
  <2>1. /\ finobj' \in Seq(Objects)
        /\ Separated' = Separated \cup ({o} \ finalized)
        /\ finobj' = finobj \/ finobj' = <<o>> \o finobj
    BY <1>0, <1>5, CheckFinalizerIs
  <2>2. /\ Range(finobj) \subseteq Range(finobj')
        /\ o \notin Known => o \in Range(finobj')
    <3>1. finobj \in Seq(Objects) BY <1>0 DEF TypeOK
    <3>2. Range(<<o>> \o finobj) = Range(finobj) \cup {o} BY <3>1, ConsMembers
    <3> QED BY <1>5, <2>1, <3>2 DEF CheckFinalizer, Known
  <2>3. RootsNotDue' BY <1>2, <1>5, <2>2 DEF RootsNotDue
  <2>4. RunningWaits' BY <1>2, <1>5, <2>1 DEF RunningWaits
  <2>5. Ordered'
    <3>1. SUFFICES ASSUME NEW T \in Tables \cap Separated', NEW x \in field[T]
                   PROVE  Before(T, x)'
      BY <1>5 DEF Ordered
    <3>2. T \in Known BY <1>0, <3>1 DEF NamedOK
    <3>3. T \in Separated BY <2>1, <3>1, <3>2 DEF Known
    <3>4. Before(T, x) BY <1>2, <3>1, <3>3 DEF Ordered
    <3> QED BY <1>0, <1>5, <3>4, BeforeAfterCheck
  <2> QED BY <1>a, <2>3, <2>4, <2>5
<1>6. CASE EndPush
  <2> DEFINE o == Last(stack).obj
  <2>1. /\ stack # <<>> /\ phase' = phase
        /\ stack' = Front(stack) /\ CheckFinalizer(o) /\ Last(stack).kind = "push"
        /\ roots' = roots \cup {o}
        /\ UNCHANGED <<tobefnz, finalized, field>>
    BY <1>6 DEF EndPush, TopIs
  <2>2. /\ Len(stack) \in DOMAIN stack /\ Last(stack) = stack[Len(stack)]
        /\ Last(stack) \in Frame
        /\ \A i \in DOMAIN stack' : i \in DOMAIN stack /\ stack'[i] = stack[i]
    BY <1>0, <2>1, PopOneIs
  <2>3. o \in Wrappers /\ o \notin Known
    BY <1>0, <2>1, <2>2, FrameIs DEF PushesOK, IsPush, Known
  <2>4. Running' \subseteq Running BY <1>0, <2>2, RunningFewer
  <2> HIDE DEF o
  <2>5. o \in Objects BY <2>3 DEF Objects
  <2> QED BY <1>5, <2>1, <2>3, <2>4, <2>5
<1>7. ASSUME NEW o \in Objects, SetMetatable(o) \/ (o \in Tables /\ NewTable(o))
      PROVE  Parts'
  <2>1. /\ phase' = phase /\ CheckFinalizer(o) /\ stack' = stack
        /\ \/ roots' = roots
           \/ roots' = roots \cup {o} /\ o \notin Known
        /\ UNCHANGED <<tobefnz, finalized, field>>
    BY <1>7 DEF SetMetatable, NewTable, Known
  <2>2. Running' \subseteq Running BY <2>1 DEF Running
  <2> QED BY <1>5, <2>1, <2>2
<1>8. ASSUME NEW T \in Tables, NEW o \in Objects, Store(T, o) PROVE Parts'
  <2>1. Running = {} BY <1>0, <1>1, <1>8, CarefulIsAlone
  <2>2. /\ field' = [field EXCEPT ![T] = @ \cup {o}]
        /\ UNCHANGED <<finobj, tobefnz, roots, phase, stack, Separated>>
    BY <1>8 DEF Store, Separated
  <2>3. Before(T, o) BY <1>1, <1>8 DEF Store, Careful, Before
  <2>4. \A S \in Tables : field'[S] = IF S = T THEN field[S] \cup {o} ELSE field[S]
    BY <1>0, <2>2 DEF TypeOK
  <2>5. \A S, x : Before(S, x)' <=> Before(S, x) BY <2>2 DEF Before
  <2>6. Running' = {} BY <2>1, <2>2 DEF Running
  <2>7. RootsNotDue' BY <1>2, <2>2 DEF RootsNotDue
  <2>8. RunningWaits' BY <2>6 DEF RunningWaits
  <2>9. Ordered' BY <1>2, <2>2, <2>3, <2>4, <2>5 DEF Ordered
  <2> QED BY <1>a, <2>7, <2>8, <2>9
<1>9. ASSUME NEW o \in Objects, Save(o) PROVE Parts'
  <2>1. Running = {} /\ phase = "open" BY <1>0, <1>1, <1>9, CarefulIsAlone
  <2>2. /\ o \in Nameable /\ roots' = roots \cup {o}
        /\ UNCHANGED <<finobj, tobefnz, field, phase, stack, Separated>>
    BY <1>9 DEF Save, Separated
  <2>3. o \in Range(finobj) BY <1>0, <1>2, <2>1, <2>2, NameableWaits
  <2>4. \A S, x : Before(S, x)' <=> Before(S, x) BY <2>2 DEF Before
  <2>5. Running' = {} BY <2>1, <2>2 DEF Running
  <2>6. RootsNotDue' BY <1>2, <2>2, <2>3 DEF RootsNotDue
  <2>7. RunningWaits' BY <2>5 DEF RunningWaits
  <2>8. Ordered' BY <1>2, <2>2, <2>4 DEF Ordered
  <2> QED BY <1>a, <2>6, <2>7, <2>8
<1>10. ASSUME NEW o \in Objects, Drop(o) PROVE Parts'
  <2>1. UNCHANGED <<finobj, tobefnz, phase, stack>> BY <1>10 DEF Drop
  <2>2. Running' \subseteq Running BY <2>1 DEF Running
  <2>3. roots' \subseteq roots /\ \A S \in Tables : field'[S] \subseteq field[S]
    BY <1>0, <1>10 DEF Drop, TypeOK
  <2> QED BY <1>0, <1>2, <1>a, <2>1, <2>2, <2>3, CallInvQuiet
<1>11. CASE Collect
  <2>1. PICK dead \in SUBSET Range(finobj) \ {{}} :
          /\ Dead(dead)
          /\ finobj' = Without(finobj, dead)
          /\ tobefnz' = tobefnz \o Keep(finobj, dead)
          /\ finalized' = finalized \cup dead
    BY <1>11 DEF Collect
  <2>2. UNCHANGED <<roots, field, stack, phase>> BY <1>11 DEF Collect
  <2>3. Running = {} /\ Running' = {}
    BY <1>0, <1>1, <1>11, <2>2, CarefulIsAlone DEF Running
  <2>4. /\ Separated' = Separated /\ Range(finobj') = Range(finobj) \ dead
        /\ dead \subseteq Range(finobj)
    BY <1>0, <2>1, SeparateIs
  <2>5. /\ roots \cap dead = {}
        /\ \A T \in (Range(finobj) \ dead) \cap Tables : field[T] \cap dead = {}
    <3> DEFINE S == roots \cup Running \cup Range(tobefnz) \cup (Range(finobj) \ dead)
    <3>1. dead \cap Reach(S) = {} BY <2>1 DEF Dead
    <3>2. Range(finobj) \subseteq Objects BY <1>0 DEF TypeOK, Range
    <3>3. roots \subseteq S \cap Objects /\ Range(finobj) \ dead \subseteq S \cap Objects
      BY <1>0, <3>2 DEF TypeOK
    <3> HIDE DEF S
    <3>4. /\ S \cap Objects \subseteq Reach(S)
          /\ \A T \in Reach(S) \cap Tables : field[T] \subseteq Reach(S)
      BY <1>0, ReachIs
    <3> QED BY <3>1, <3>3, <3>4
  <2>6. RootsNotDue' BY <1>2, <2>2, <2>4, <2>5 DEF RootsNotDue
  <2>7. RunningWaits' BY <2>3 DEF RunningWaits
  <2>8. Ordered'
    <3>1. SUFFICES ASSUME NEW T \in Tables \cap Separated, NEW w \in field[T]
                   PROVE  Before(T, w)'
      BY <2>2, <2>4 DEF Ordered
    <3>2. Before(T, w) BY <1>2, <3>1 DEF Ordered
    <3> DEFINE k == Keep(finobj, dead)
    <3>3. finobj \in Seq(Objects) BY <1>0 DEF TypeOK
    <3> HIDE DEF k
    <3>4. /\ k \in Seq(Objects) /\ Range(k) = Range(finobj) \cap dead
          /\ \A i, j \in DOMAIN finobj : i < j /\ finobj[i] \in dead /\ finobj[j] \in dead =>
                \E a, b \in DOMAIN k : a < b /\ k[a] = finobj[i] /\ k[b] = finobj[j]
      <4>1. k = Keep(finobj, dead) BY DEF k
      <4>2. /\ Keep(finobj, dead) \in Seq(Objects)
            /\ Range(Keep(finobj, dead)) = Range(finobj) \cap dead
        BY <3>3, KeepMembers
      <4>3. ASSUME NEW i \in DOMAIN finobj, NEW j \in DOMAIN finobj,
                   i < j, finobj[i] \in dead, finobj[j] \in dead
            PROVE  \E a, b \in DOMAIN Keep(finobj, dead) :
                      /\ a < b
                      /\ Keep(finobj, dead)[a] = finobj[i]
                      /\ Keep(finobj, dead)[b] = finobj[j]
        BY <3>3, <4>3, KeepOrder, SMTT(30)
      <4> QED BY <4>1, <4>2, <4>3
    <3>5. \A i, j \in DOMAIN finobj : i < j /\ finobj[i] \notin dead /\ finobj[j] \notin dead =>
             \E a, b \in DOMAIN finobj' :
                a < b /\ finobj'[a] = finobj[i] /\ finobj'[b] = finobj[j]
      BY <2>1, <3>3, WithoutMembers
    <3>6. tobefnz' = tobefnz \o k BY <2>1 DEF k
    <3>7. Range(k) = dead BY <2>4, <3>4
    <3>8. T \in Range(finobj) \ dead => w \notin dead BY <2>5, <3>1
    <3>9. \A o \in Range(finobj) : o \in Range(finobj') \/ o \in dead BY <2>4
    <3> QED BY <1>0, <3>2, <3>4, <3>5, <3>6, <3>7, <3>8, <3>9, BeforeAfterMove
  <2> QED BY <1>a, <2>6, <2>7, <2>8
<1>12. CASE BeginClose
  <2>1. /\ phase' = "closing" /\ finobj' = <<>> /\ tobefnz' = tobefnz \o finobj
        /\ finalized' = finalized \cup Range(finobj) /\ UNCHANGED <<field, stack>>
    BY <1>12 DEF BeginClose
  <2>2. Running' = {}
    BY <1>0, <1>1, <1>12, <2>1, CarefulIsAlone DEF Running
  <2>3. finobj \in Seq(Objects) /\ tobefnz \in Seq(Objects) BY <1>0 DEF TypeOK
  <2>4. Separated' = Separated
    <3>1. Range(tobefnz') = Range(tobefnz) \cup Range(finobj)
      BY <2>1, <2>3, ConcatMembers
    <3>2. Range(finobj') = {} BY <2>1 DEF Range
    <3> QED BY <3>1, <3>2 DEF Separated
  <2>5. RootsNotDue' /\ RunningWaits' BY <2>1, <2>2 DEF RootsNotDue, RunningWaits
  <2>6. Ordered'
    <3>1. SUFFICES ASSUME NEW T \in Tables \cap Separated, NEW w \in field[T]
                   PROVE  Before(T, w)'
      BY <2>1, <2>4 DEF Ordered
    <3>2. Before(T, w) BY <1>2, <3>1 DEF Ordered
    <3>3. \A i \in DOMAIN finobj : finobj[i] \in Range(finobj) BY DEF Range
    <3> QED BY <1>0, <2>1, <2>3, <3>2, <3>3, BeforeAfterMove
  <2> QED BY <1>a, <2>5, <2>6
<1>13. CASE DeleteRef \/ BeginFinalizer
  <2> DEFINE o == Head(tobefnz)
  <2>1. /\ tobefnz # <<>> /\ tobefnz' = Tail(tobefnz)
        /\ UNCHANGED <<finobj, finalized, roots, field, phase>>
    BY <1>13 DEF DeleteRef, BeginFinalizer, Finalizing
  <2>2. /\ o \in Separated /\ Separated' = Separated \ {o}
    BY <1>0, <2>1, TakeIs
  <2>3. Running = {} BY <1>0, <1>1, <1>13, CarefulIsAlone
  <2>4. \/ stack' = stack
        \/ o \in Tables /\ stack' = Append(stack, GcFrame(o))
    BY <1>13 DEF DeleteRef, BeginFinalizer
  <2>a. ~Before(o, o) BY <1>0, NotBeforeItself
  <2> HIDE DEF o
  <2>5. Running' \subseteq {o} \cap Tables
    <3>1. CASE stack' = stack BY <2>3, <3>1 DEF Running
    <3>2. CASE o \in Tables /\ stack' = Append(stack, GcFrame(o))
      <4>1. Running' \subseteq Running \cup {o} BY <1>0, <3>2, FrameIs, RunningMore
      <4> QED BY <2>3, <3>2, <4>1
    <3> QED BY <2>4, <3>1, <3>2
  <2>6. RootsNotDue' BY <1>2, <2>1 DEF RootsNotDue
  <2>7. RunningWaits'
    <3>1. SUFFICES ASSUME o \in Tables, NEW w \in field[o] PROVE w \in Separated'
      BY <2>1, <2>5 DEF RunningWaits
    <3>2. Before(o, w) BY <1>2, <2>2, <3>1 DEF Ordered
    <3>3. w \in Separated /\ w # o BY <2>a, <3>2, BeforeIsSeparated
    <3> QED BY <2>2, <3>3
  <2>8. Ordered'
    <3>1. SUFFICES ASSUME NEW T \in Tables \cap Separated', NEW w \in field[T]
                   PROVE  Before(T, w)'
      BY <2>1 DEF Ordered
    <3>2. Before(T, w) /\ T # o BY <1>2, <2>2, <3>1 DEF Ordered
    <3> QED BY <1>0, <2>1, <3>2, BeforeAfterTake DEF o
  <2> QED BY <1>a, <2>6, <2>7, <2>8
<1>14. CASE EndClose
  <2>1. phase' = "closed" /\ finobj' = <<>> /\ tobefnz' = <<>> /\ stack' = <<>>
    BY <1>14 DEF EndClose
  <2>2. Separated' = {} /\ Running' = {} BY <2>1 DEF Separated, Running, Range
  <2> QED BY <1>a, <2>1, <2>2 DEF RootsNotDue, RunningWaits, Ordered
<1>15. CASE UNCHANGED vars
  <2>1. UNCHANGED <<finobj, tobefnz, field, phase, roots, stack>>
    BY <1>15 DEF vars
  <2>2. Running' \subseteq Running BY <2>1 DEF Running
  <2> QED BY <1>0, <1>2, <1>a, <2>1, <2>2, CallInvQuiet
<1>16. CASE Sweep
  <2>1. PICK freed :
          /\ field' = [T \in Tables |-> IF T \in freed THEN {} ELSE field[T]]
          /\ UNCHANGED <<finobj, tobefnz, phase, roots, stack>>
    BY <1>16 DEF Sweep
  <2>2. \A T \in Tables : field'[T] \subseteq field[T] BY <2>1
  <2>3. Running' \subseteq Running BY <2>1 DEF Running
  <2> QED BY <1>0, <1>2, <1>a, <2>1, <2>2, <2>3, CallInvQuiet
<1> QED BY <1>3, <1>4, <1>6, <1>7, <1>8, <1>9, <1>10, <1>11, <1>12, <1>13, <1>14, <1>15,
           <1>16
        DEF Next, Step, Objects

\* Programs whose tables refer to older objects, whose finalizers keep nothing and
\* do not start the collector, and whose finalizers that lua_close runs leave
\* globals alone: a Java function that a script can name, the program's or a
\* finalizer's, has a live reference, whatever tables lead to it.
THEOREM CallablesStayLive == Spec => []CallableLive
<1>1. ASSUME Init PROVE CallInv
  <2>1. roots = {} /\ finobj = <<>> /\ tobefnz = <<>> /\ stack = <<>>
    BY <1>1 DEF Init
  <2>2. Running = {} /\ Separated = {} BY <2>1 DEF Running, Separated, Range
  <2> QED BY <2>1, <2>2 DEF CallInv, RootsNotDue, RunningWaits, Ordered
<1>2. ASSUME DueInv, CallInv, [Next]_vars PROVE DueInv' /\ CallInv'
  BY <1>2, NextDueInv, NextCallInv
<1>3. ASSUME DueInv, CallInv PROVE CallableLive
  <2>1. TypeOK /\ ListsOK /\ RefsOK /\ ClosedOK BY <1>3 DEF DueInv
  <2>2. SUFFICES ASSUME Careful, NEW w \in Wrappers, w \in Nameable
                 PROVE  ref[w] = "live"
    BY DEF CallableLive, Careful
  <2>3. RootsNotDue /\ RunningWaits /\ Ordered BY <1>3, <2>2 DEF CallInv
  <2>4. w \notin Running BY <2>1, RunningIs, ObjectsAssumption
  <2>5. CASE phase # "closed"
    <3>1. phase \in {"open", "closing"} BY <2>1, <2>5 DEF TypeOK
    <3>2. w \in Separated BY <2>1, <2>2, <2>3, <2>4, <3>1, NameableWaits
    <3> QED BY <2>1, <3>2 DEF RefsOK
  <2>6. CASE phase = "closed"
    <3>1. roots \cup Running = {} BY <2>1, <2>6, RunningIs DEF ClosedOK
    <3>2. Reach({}) \subseteq {} BY <2>1, ReachIs
    <3> QED BY <2>2, <2>6, <3>1, <3>2 DEF Nameable, Accessible
  <2> QED BY <2>5, <2>6
<1>4. Init => DueInv BY InitDueInv
<1> QED BY <1>1, <1>2, <1>3, <1>4, PTL DEF Spec
=============================================================================
