# bma.lua: a TLA+ model of the Lua bridge and of the interpreter below it

bma.lua lets Java programs run Lua scripts. It is a Java library
(`src/javalib`), a JNI library (`src/jni/luajni.c`) and Lua 5.2.0
(`src/lua-5.2.0`), compiled into one shared object. This directory holds TLA+
modules of its components, TLC configurations that check them on small
instances, and proofs that TLAPS checks for every instance.

Paths below are relative to `src/`; `javalib/X.java` stands for
`javalib/src/main/java/bma/lua/javalib/X.java`, `lgc.c` and the like for
`lua-5.2.0/lgc.c`. `PROJECT.json` maps every definition to the lines it models.

## 1. The system

    Java threads
      |  newState, luaPcall, luaPushFunction, setExecuteTimeout, close
      v
    LuaStateManager --ids--> LuaState --lua_State*--> luajni.c --> Lua C API
      ^                        ^                         |            |
      |  getState(id)          | c_function(id, ...)     |            v
      +------------------------+---- java_function_call <----- interpreter
                                     java_function_gc   <----- collector
                                     clockHook          <----- count hook

| Component | State | Operations | Hard because | What makes it correct |
|---|---|---|---|---|
| Life cycle of the Lua states (`LuaStateManager.java`, `LuaState.java`, `_open`, `_close`) | list of states, id and pointer of each, JNIEnv and id in the native registry | newState, getState, removeState, close, callbacks | several Java threads; close() takes no lock and runs finalizers that call back; ids are reused | an id leads to its state while the state lives; a native state is closed once and not used afterwards |
| Java functions as Lua values (`luajni.c`, `lgc.c`) | JNI global references; lists finobj and tobefnz | luaPushFunction, java_function_gc, finalizers of scripts, lua_close | finalizers run at any allocation, in an order scripts can observe, may fail, resurrect, start the collector | a function that can be named has its reference; a reference is deleted once, and in the end |
| Execution timeout (`luajni.c`, `lvm.c`, `ldebug.c`) | `_hversion`, hook and count of every thread | setExecuteTimeout, clockHook | hooks belong to threads, the timeout to the state; scripts catch errors; finalizers disable hooks | strikes when and only when due; a script that was struck ends |
| Calls, protected calls, coroutines (`ldo.c`, `lapi.c`, `lcorolib.c`) | CallInfo lists, nny, nCcalls, status, the C stack | luaD_call, luaD_pcall, luaD_throw, recover, lua_resume, lua_yieldk, unroll | longjmp through all of it; one C stack for all threads; Java frames in between | yields only where they can be finished; depth bounded; status agrees with the stack |
| Call bridge and API stack (`LuaState.java`, `luajni.c`, `LuaErrorHandler*.java`, `lapi.c`, `ldo.c`) | the slots of the stack and its size, CallInfos, errfunc, the exception of a call | methods of LuaState, luaPcall, java_function_call, java_function_errhandler, luaD_precall, luaD_poscall, luaD_growstack, luaD_shrinkstack | errors cross two languages; the handler may fail itself; the stack grows, overflows and shrinks under everybody | a call sees and changes its own values only; every failure reaches the right caller through the right handler; nobody leaves the stack |
| Garbage collector (`lgc.c`) | colours, gray lists, allgc, finobj, sweep pointers, phase, debt | singlestep, barriers, sweeps, emergency and generational cycles | incremental: the program changes what is being marked | nothing reachable is freed; everything else is freed in the end |
| Tables (`ltable.c`) | array part, nodes with chains and a free pointer | get, set, newkey, rehash, next, getn | collisions, moved nodes, dead keys, traversals of tables that change | get returns what was set; next returns each field once; a length is a border |
| Compiler (`llex.c`, `lparser.c`, `lcode.c`) | blocks, pending gotos and jumps, registers, one function per level | statements and expressions, in one pass | patch lists threaded through the code they patch; registers by stack discipline; goto | the code does what the source means and keeps what the machine assumes |
| Virtual machine and closures (`lvm.c`, `lfunc.c`, `ltm.c`) | frames, open upvalues | the instructions, metamethods, luaV_finishOp, luaF_close | yields in the middle of an instruction; variables that move from the stack to the heap | the same; a variable is shared as long as it is in scope |
| String library (`lstrlib.c`) | captures of a match | sub, byte, reverse, find, match, gmatch, gsub | backtracking undoes captures; empty matches; indices from both ends | the match is the preferred one and its captures are its own |
| String table (`lstring.c`) | interned chains | intern, resize | strings the collector has given up are used again | equal short strings are one object |
| Streams, dump, undump (`lzio.c`, `ldump.c`, `lundump.c`), loading (`LuaState.luaLoad`) | buffer and rest of a chunk | luaZ_fill, luaZ_read | chunks of any size, errors of the loader | the parser sees the concatenation of the chunks |
| Others | | | | libraries of scripts, byte access to userdata, debug information, front ends, build files: see section 7 |

Interactions: every Java method takes the `lua_State*` of its LuaState, the main
thread of the state, whichever coroutine called the Java function
(`JavaFail` in Coroutines). The collector runs inside any allocation and calls
finalizers, which are calls like any other. Hooks run inside luaV_execute, unless
a finalizer or another hook runs. lua_close runs all finalizers.

The list `hazards` in `PROJECT.json` has everything we found that is hard to test, at
its line, with the properties that cover it or the reason why none does.

## 2. The modules

| Module | What it models | Composition |
|---|---|---|
| `Registry` | what LuaStateManager promises: a map from ids to states whose bindings never move | |
| `StateManager` | list of states, close() in its four steps, callbacks by id, several Java threads | implements `Registry` |
| `StateManagerProofs` | theorems about it | |
| `JavaFunctionRefs` | JNI references of Java functions, finobj/tobefnz, finalizers, lua_close | |
| `JavaFunctionRefsProofs` | theorems about it | |
| `ExecTimeout` | clockHook and the hook counts of all Lua threads | |
| `ExecTimeoutProofs` | theorems about it | |
| `Coroutines` | CallInfos, C stack, pcall, resume, yield and unroll, Java functions between them | |
| `CoroutinesProofs` | theorems about it: the invariant of the C stack and the call lists, then nny, yields and status | |
| `GarbageCollector` | colours, gray lists, weak tables, sweeping, finalizers and barriers of lgc.c, and the program between its steps | |
| `GarbageCollectorProofs` | theorems about it | |
| `ApiFrames` | what the stack promises to Java code: each activation has a sequence of values of its own | |
| `ApiStack` | slots, CallInfos, protected calls, message handlers, growth and shrinking of the stack; the methods of LuaState on it; pcall and scripts | implements `ApiFrames` |
| `ApiStackProofs` | theorems about it | |
| `ApiFramesProofs` | the proof that it implements `ApiFrames` | |
| `CodeGen` | the code generator, lcode.c | |
| `Parser` | the parser, lparser.c, on syntax trees | uses `CodeGen` |
| `Source` | what a chunk means, without stack, registers and jumps | |
| `Machine` | the virtual machine, one action per instruction | runs what `Parser` compiles, compares with `Source` |
| `TableMap` | what a table promises: a map with a traversal | |
| `LuaTable` | array part, nodes, rehash, length, next, dead keys | implements `TableMap` |
| `Strings` | substrings, find, match, gmatch and gsub with their matcher | |
| `PatternMeaning` | what a pattern means, without a matcher | |
| `Lists`, `DataLemmas` | lemmas about sequences, injective lists, least closed sets and finite sets that the proofs share | |
| `MC...` | the values of the constants and the symmetry sets | |

A definition with a suffix after an underscore (`RemoveState_Shrinks`) is a faulty
variant of the one that follows it. `PROJECT.json` pairs it with a property that
detects it; no specification uses it.

### Usage rules

The code assumes things about the programs that use it, which it does not check.
The modules name these as *rules*: elements of a set that guards the actions of the program.
StateManager and Machine have the constant `Rules`; the other modules choose `rules` from the
constant `RuleSets` in `Init`, so that one run covers programs that obey
different rules, and GarbageCollector chooses a `program`, whose rules are a part of it. A property names the rules it needs, and each of them is
necessary: without it TLC finds the property violated (for strong: a deadlock).
ApiStack has its rules in the guards of the program's actions, and they are those of the manual: indices are valid
and values of the type a method asks for; a method that may raise an error is called inside luaPcall only; a frame pushes no more
than it has room for, one slot spared, as the natives of LuaState need one (luaPushFunction: four); a Java
function returns no more results than it has values; what it throws is an Exception and no Error.

| Module | Rule | The program refrains from | Needed by |
|---|---|---|---|
| StateManager | stacked | opening a state while a free slot lies in front of an open state | RegistryAgrees, RegistryImplemented, CallbackOwner |
| | onecloser | calling close() on a state whose close() runs | RegistryAgrees, RegistryImplemented, OnlyCloseUnlists |
| | quiescent | closing a state that is in use, using a closed one | UsedStatesOpen |
| | alone | opening a state while a close() runs | CallbackOwner |
| | confined | using a state in another thread than the one that opened it | EnvIsCallersOwn |
| JavaFunctionRefs | orderly | letting a table with `__gc` refer, also by way of other tables, to newer objects | CallableLive |
| | nosave | storing objects from finalizers | CallableLive |
| | nocollect | starting the collector from finalizers | CallableLive, CloseEnds (or noclosing) |
| | noerrors | errors in finalizers, failing allocations | EveryRefOwned, AllReleased |
| | noclosing | pushing functions and making tables with `__gc` in finalizers that lua_close runs | EveryRefOwned, AllReleased, CloseEnds (or nocollect) |
| | noglobals | using, in finalizers that lua_close runs, what is not reached from their object or made since | CallableLive |
| ExecTimeout | fresh | resuming a coroutine from before the last setExecuteTimeout | StrikesWhenDue, NoWayBack, TimeoutEnds |
| | nofinalizers | finalizers written in Lua | TimeoutEnds |
| | nohandlers | `xpcall` | TimeoutEnds |
| Coroutines | nostray | `coroutine.resume` of a coroutine that is running | NnyCounts, YieldsFinishable |
| | protected | errors of a Java function outside luaPcall, other than exceptions | NnyCounts, RunningOnStack |
| GarbageCollector | atonce, or noescape | atonce: giving an object a finalizer after the collector has had a turn since its creation. noescape: only where the object, or what follows it in `allgc`, escapes the sweep by that | MainInvariant, NoDangling, EntriesKept, FullGCCollects |
| | settled | storing an unmarked value in a table with weak keys that the collector has traversed and linked in `allweak` | EntriesKept |
| | strong | finalizers of weak tables | absence of deadlock: cycles end |
| | plain | objects as keys of a table with weak values | FullGCCollects |
| Machine | lefirst | yielding from a metamethod of `<=` or `>=` that is an `__le` of the second operand alone, or that is called with a constant as the first operand | MeansTheSame |

### StateManager

Each Java thread has a stack of frames: a call into the interpreter, a Java
function called back, or a close() with the point it has reached. newState, getState and
removeState are `synchronized` and one step each (`Open`, which newState calls, is in it). `close()` is not: its test
(`BeginClose`), removeState (`RemoveState`), the entry into lua_close
(`NativeClose`), the freeing after the finalizers (`FreeNative`) and
`luaState = 0` (`EndClose`) are separate steps, and between the third and the fourth
the finalizers of the state may call Java functions (`Callback`).
`NewState` inserts like `ArrayList.add(int, E)`, as the code does: entries after the index move.
`Callback` takes the LuaState that getState answers for the id stored by
`_open`. What follows the closing of a state that is not open, or a callback in a freed state,
is undefined in C and not followed.

### JavaFunctionRefs

`BeginPush`/`EndPush`/`AbortPush` are luaPushFunction before and after its
allocations, during which the collector runs. `Collect` is the atomic step of a
collection: it moves objects that are not marked from finobj to the end of
tobefnz (separatetobefnz); any subset of the unreachable objects that keeps what its
complement refers to may be moved, as objects that died during the cycle may
be marked. `Sweep` frees the objects whose finalizer was called and that nothing leads to;
they can then be made again, so that a program of two tables has no end of them. A table with a
`__gc` refers to any objects, `Store` by `Store`; a table without one is a path between them and has no
name of its own. `DeleteRef` is GCTM of a wrapper; `BeginFinalizer`, `EndFinalizer` and
`FailFinalizer` are GCTM of a table with a `__gc` of a script. While a script
finalizer runs GCTM has stopped the collector, unless the finalizer starts it
by hand (`Collecting`). `BeginClose` and `EndClose` are luaC_freeallobjects: the
finalizers that lua_close runs between them do all that others do, and `Nameable` is what they can call.

### ExecTimeout

`SetExecuteTimeout` stores the time and sets the hook of the main thread;
`NewThread` copies the hook of its creator. Each instruction is `Fire`, when the count is at zero,
the hook is allowed and the limit is over, or one of the effects in `Execute`,
with `CountDown`. A hook count that comes to zero in a finalizer, or before the limit, starts
again. `frames` holds what an error in a thread meets: pcall, xpcall (and `load` with a reader, which is like either), finalizers, and
message handlers that run. `ErrorMsg` is luaG_errormsg: under an xpcall the handler is called where the error is raised, for the error of
clockHook inside the hook, without hooks. It may do what any script may but yield. When it returns, `LeaveHandler` throws the error; an error in it calls it again (`Raise`) until the C stack is full.
`Unwind` carries a thrown error to the innermost protected call, the end of the
coroutine or that of the script, and past finalizers and handlers. Instructions take no time of their own:
`Tick` advances `clock()` whenever it likes.

### Coroutines

`cstack` is the C stack that all threads share, `ci` the CallInfos of each
thread; `Throw` cuts both as luaD_throw does, by longjmp to the innermost "raw"
(luaD_pcall) or "res" (lua_resume) of the thread. `Recover` is the pcall of a coroutine that
an error reaches after a yield; `Unroll` finishes what a yield interrupted. nny
and nCcalls are counters of width `Width` that go below zero
by wrapping, as unsigned shorts do. Calls of Lua functions by Lua functions use
no C stack and are one entry "lua".

### GarbageCollector

Each case of singlestep is an action: `MarkRoot`, `PropagateMark` of one gray object,
`Atomic`, `SweepStrings`, `SweepObject`, `SweepNextList`, `EndCycle`. `Atomic` is one step in the code too; its inner
order is kept (values cleared, objects separated, resurrected ones marked, keys cleared), and the
propagation inside it (`Propagated`) is given as the least set that is closed under traversal, which does not depend on
the order of the gray lists. It is defined by what cannot be left out (an object is in it unless some closed set omits it) and not by
iteration, so that its two properties, that it is closed and that it is the least such set, are one step away in a proof. Between two steps the program does anything with what it can reach: `New`, `Store` with
the barrier its object calls for, `Drop`, `CheckFinalizer`; `NewFinalizable` creates an object and gives it its finalizer before the collector
has a turn (liolib.c's files); `Finalize` is GCTM. `Escapes` says what goes wrong in CheckFinalizer while lists are swept. What is checked and proved of the heap is
about runs without it (`NoneEscapes`): those of programs that follow atonce, so that it cannot happen, and those of any other program up to the first
time it does. `Misses` is the same for tables in `allweak`. `BeginFullGC` is
luaC_fullgc, whose cycles run while the program waits, both when asked for and in an emergency. Colours are relative to
currentwhite, so the flip swaps the names. `sweepgc` is a list's head or the object whose `next` field it points at, so that
what is swept follows the object when it moves to another list. sweeplist takes GCSWEEPMAX = 40 objects in a step, the
model one: with three objects, the program's chance to act in the middle of a list would never come otherwise. A table's
entry is a pair of a key and a value; keys that are no objects (strings, numbers) are `NoKey`, and array parts
are not told from such entries.

The state "relinked" stands for what follows when a weak table with a finalizer, waiting in tobefnz since
an earlier cycle, is linked a second time by markbeingfnz: the lists may be circles, and nothing is said of what the code does then.

### ApiStack

`stack` is L->stack up to L->top, so that a pointer is an index and moving the stack changes nothing but `size`. `cis` are
the CallInfos, `jmps` the luaD_pcalls on the C stack. Every method of LuaState that works on the stack is an action of a
Java function that runs: `_apiX` and `_xapi` first make the slots their natives use, then do what lapi.c does, so that
`luaPop` or `luaInsert` is a sequence of moves of slots and not an operation on a list. `luaPcall` pushes the handler,
inserts it below the function and calls lua_pcallk (case 23); the handler is removed after it. `Enter` is luaD_precall with
luaD_checkstack, adjust_varargs and tryfuncTM; `luaD_throw` cuts CallInfos and slots to the innermost protected call, restores errfunc and
shrinks the stack. `sweepthread` is the end of a cycle of the collector, which shrinks the stack of the main thread too. It is a step of its own,
possible wherever something runs (in an emergency, as when the stack itself is being moved, the code leaves the stack alone), as nearly every method allocates and luaD_call ends with luaC_checkGC, and as what it computes does not
depend on where in a method it comes; `ApiFrames` sees nothing of it (`Collects`). An error first calls `luaG_errormsg` where it is raised, on top of everything. `NoStack` is the
overflow: the stack becomes ERRORSTACKSIZE long, and a second overflow in it is LUA_ERRERR. One global stands for all
of them; createtable, rawseti, userdata and setmetatable are left out. A
script calls where its registers have room for the results that it asks for, as its compiler reserves them (`ra + nres <= ci.top`); the CallInfo of a native
caller grows with the results of LUA_MULTRET when they arrive (`adjustresults`).

`ApiFrames` knows of none of this. Its refinement mapping (`Frames`, `Vals`) reads from the slots the values
that each frame may see: those above its function, without the handler, and up to the function of its present call. A call of `ApiFrames` starts an
activation or fails; if it fails for want of stack while an overflow is being handled already (LUA_ERRERR), the error
goes past every message handler to the innermost protected call in that step.

### CodeGen, Parser, Source, Machine

`Parser` walks a syntax tree in the order in which lparser.c reads tokens, and calls the operators of `CodeGen`, which
are the functions of lcode.c; both carry the FuncState and the expdesc of the code as records and change them in the same order, as jump
lists and registers depend on it. An assertion of the source that fails clears `ok`. `Machine` runs the code
one instruction to an action, with a stack of slots, frames, open upvalues, and luaD_call and luaD_poscall. Native functions and metamethods are one
step, and may yield at that step: the machine then goes on by `luaV_finishOp`, as unroll does, in place of the rest of the instruction. It
does not yield there under rule *lefirst* where luaV_finishOp gets the result of `<=` wrong (section 5). callTM grows the stack when its three or
four values need the reserve (`lvm.c:92`), which the model leaves to the reserve. `Source` is the
reference: an evaluation of the tree in which each variable is a cell. Numbers are small integers without division.

### LuaTable

`luaH_newkey`, `luaH_resize` and `rehash` work on nodes and indexes of nodes as the code does, with Brent's variation and the free
pointer; `computesizes` gets the counts by slices of powers of two. `KeyDies` is the collector
at a cleared field, at any time, whether or not the key is referred to elsewhere (a key that is in use is only kept alive in fewer cases).
`SetList` is OP_SETLIST of a constructor, which presizes the array. A traversal goes on while the program
assigns to fields that exist and clears others, and ends for the property when it adds one. A step is labelled in `did`, so
that `TableMap` needs no guess which of its steps it was.

### Strings, PatternMeaning

`Strings` is the matcher with its backtracking: `match` calls itself for the rest of the pattern and undoes
captures when that fails. `PatternMeaning` has no matcher: a way to match gives each item of the pattern a number of characters, all ways that
fit are compared, and the one that gives more to the first item in which they differ (less to a lazy one) is
the meaning. The run compares both on every pattern and subject of the bounds.

## 3. The runs

| Run | Module, bounds | What it checks and shows |
|---|---|---|
| registry | StateManager; 2 threads, 3 states, 2 frames per thread | under stacked and onecloser: ids stay right, removeState drops no other state; the list implements `Registry` |
| usage_rules | StateManager; the same, 3 frames | under all rules: a callback gets its own LuaState, nobody is inside a freed state, the stored JNIEnv is that of the running thread |
| slot_reuse_shifts (violation) | StateManager without stacked | finding 1 |
| function_refs | JavaFunctionRefs; 2 functions, 2 tables with `__gc` that refer to one object each at a time, stack of 3 | references are deleted once; a function that can be named, also in lua_close, is live; none is lost; lua_close ends and leaves none |
| timeout | ExecTimeout; 2 coroutines, period 2, limit 1, 3 clock values, 3 protected calls, handlers and finalizers at a time | the counts stay right; clockHook strikes when due; what it struck does not get back into a protected call, nor do its message handlers; a script under a timeout ends |
| coroutines | Coroutines; 2 coroutines, C stack of 5, 4 CallInfos per thread | nny counts exactly; what yields can be finished; status agrees with the C stack |
| collector | GarbageCollector; programs with 2 objects of chosen kinds, one entry each, and one with a table with weak keys, a key and a value | black objects refer to no white ones while marking; nothing that is accessible is freed; weak tables lose only dead entries; a full collection frees everything else, under plain; all this as long as no object escapes a sweep; no cycle gets stuck |
| compiler | CodeGen, Parser, Machine, Source; 7601 chunks, each native call with and without a yield | compiled code does what its source means; illegal gotos and labels, and only those, are rejected; no assertion of the compiler fails; the code is well formed; a closure shares a variable exactly while it is in scope |
| api_stack | ApiStack; 3 values, calls of 1 argument, a stack of 12 to 19 slots and 25 in an overflow, 6 starts of up to 4 nested calls | the stack implements `ApiFrames`; nobody leaves the stack; luaD_throw finds the right handler; methods that read answer right |
| shrink_in_overflow (violation) | ApiStack, the same bounds | finding 2 |
| tables | LuaTable; keys 1..3, a string and an object that collide, two constructors | a table implements `TableMap`, with a traversal through dead keys; a length is a border; rehash leaves room and chooses the best array size |
| strings | Strings, PatternMeaning; 2104 patterns of up to 3 items (some of up to 7), 20 subjects of up to 4 characters, 3 captures | find, match, gmatch and gsub give the meaning of the pattern; malformed patterns never match; substrings and plain searches are right for every index |

Why the bounds are enough:

- *registry, usage_rules.* A slot is reused (one state closed, another opened), one more state
  is affected by it, and both threads can be in close() or in a callback: three states, two threads.
  Depth 2 is a program call with a callback or a close() in a callback; depth 3, where callbacks
  are the question, is a call, a callback and a close() or a call in it.
- *function_refs.* An order of finalization needs two objects on each side; depth
  3 is a push inside a finalizer inside a collection of another push. One reference of each table gives chains of tables
  that end in a function, and cycles; two would add no order of finalization. The theorems have no such bound.
- *timeout.* Period 2 lets a count be at rest, running and at zero; clock values 0..2 with limit 1 leave
  room for a timeout that is set anew after one that was over; two coroutines can resume each other and
  be made before and after the timeout. Three frames are an xpcall, the handler of a strike and a protected call in it.
- *coroutines.* Five entries hold a call, a resume, a call back, a second resume and a pcall
  in it. `MaxCcalls` 5 makes the overflow of the C stack happen within them, `Width` 16 leaves room for its
  error zone (`MaxCcalls + MaxCcalls \div 8`) and for counts below zero to be recognised.
- *collector.* In four of the programs full collections begin at any point (`fullgcs`), in the others
  they are left out to keep the run short; one follows atonce. A violated barrier needs an object that refers and one that is referred to; weak keys need a third. The main
  thread may refer to all of them, and objects are created, freed and used again without limit, so that several
  cycles follow each other. Each kind that is traversed in its own way occurs.
- *compiler.* Families of chunks, each over all choices of its parts: conditions with every operand in every
  position, assignments, constructors, calls, loops, gotos, scopes, metamethods. Limits are small (a constant beyond
  `MAXINDEXRK` 2, flush after 2 items) so that each is crossed.
- *api_stack.* The first stack is one frame too short for what programs ask, and LUAI_MAXSTACK two frames above:
  growth, overflow, LUA_ERRERR, failing and succeeding lua_checkstack all happen. Not reached: a pcall
  (luaB_pcall) that finds no slot for its result.
- *tables.* Three integers and two colliding keys give arrays of 0, 1, 2 and 4, nodes of 1, 2 and 4, each kind of
  collision, and rehashes that grow, shrink and move keys between the parts.
- *strings.* Every pair of 26 items and every triple of the 10 common ones (captures, repetitions, a back reference), with the
  longer patterns that need more: nested captures, lazy before greedy, more captures than there may be.

Threads, states and coroutines are symmetric where no constant tells them apart,
and symmetry is used for safety only. `CHECK_DEADLOCK FALSE` is set where the system may stop: a program may
have closed all its states, run out of bounded depth, or simply do nothing more; compiler and strings stop after
one chunk and one subject.

### Fairness

Safety runs assume none. Two liveness properties do:

- `CloseEnds`: the thread that is in lua_close goes on with its loop (weak fairness), and a finalizer that
  runs returns (strong, as the collector it may start can go on in between). The Java thread runs C code
  that waits for nothing; a finalizer that loops for ever would hang lua_close for certain. Objects are freed and made again
  without end, so the loop ends for the rules' sake and not for want of objects.
- `TimeoutEnds`: `clock()` goes on and the interpreter executes instructions. Processor time advances because
  the script uses it. Nothing is assumed of what the script does.

## 4. What is proved

TLAPS checks the following for all values of the constants: any number of threads, states, functions, coroutines and
objects, any bounds and sizes. The assumptions are those that the modules name. Null values, the main thread and the
global table are no members of the sets they are not in. Bounds are natural numbers, and the period of the hook is at least 2.
A stack is first smaller than LUAI_MAXSTACK, has 2 extra slots at least, and ERRORSTACKSIZE adds these
(`StackSizes`: 20, 5, 40, 1000000 and 1000200 in the code). The bound `MaxDepth` on the C stack is below the width of
an unsigned short (`DepthAssumption`: entries of `luaV_execute` take some hundred bytes each of a stack of
at most a few megabytes, so there are fewer than 65536; the counts themselves, which are bounded by nothing in the code, are
modelled with their width).

Where a theorem needs a usage rule, the rule is its hypothesis or, where the property itself asks for it
(`NoneEscapes => ...`), part of the property. No theorem assumes more than the run that checks the same property.

| Module | Theorem | Property | Invariant it rests on |
|---|---|---|---|
| `StateManagerProofs` | TypeCorrect, IdsStayInBounds | `TypeOK`, (`IdInBounds`) | `BInv` |
| | ClosesOpenStates | (`CloseTargetsOpen`) | `CInv` |
| | RegistryStaysRight, ListShowsEachOnce | `RegistryAgrees`, (`ListedOnce`) | `RInv` |
| | RefinesRegistry, OnlyOwnCloseUnlists | `RegistryImplemented`, `OnlyCloseUnlists` | `RInv` |
| | CallbacksGetTheirOwner | `CallbackOwner` | `KInv` |
| | CallbacksUseOwnEnv | `EnvIsCallersOwn` | `EInv` |
| | UsersStayInOpenStates | `UsedStatesOpen` | `UInv` |
| `JavaFunctionRefsProofs` | RefsDeletedOnce | `DueOnce` | `DueInv` |
| | RefsStayOwned, CloseReleasesAll | `EveryRefOwned`, `AllReleased` | `OwnInv` |
| | CallablesStayLive | `CallableLive` | `CallInv` |
| `ExecTimeoutProofs` | TypeCorrect, CountsStayDown | (`TypeOK`), `CountsDown` | `TInv` |
| | StrikesOnlyWhenDue, NoWayBackIntoScript | `StrikesWhenDue`, `NoWayBack` | `SInv` |
| `CoroutinesProofs` | CStackFits | (`FramesInv`) | itself |
| | NonYieldableCounted, YieldsCanBeFinished, CoroutinesRunOnStack | `NnyCounts`, `YieldsFinishable`, `RunningOnStack` | `CoroutineInv` |
| `GarbageCollectorProofs` | TypesCorrect, BlackPointsToNoWhite, NothingDangles, OnlyDeadEntriesCleared | `TypeOK`, `MainInvariant`, `NoDangling`, `EntriesKept` | `GcInv` |
| | FullGCLeavesLive | `FullGCCollects` | `CollectInv` |
| `ApiStackProofs` | FramesStand | (`ApiInv`) | itself |
| | StackIsLargeEnough, HandlersBelong, AnswersStand | `WithinStack`, `HandlerOfCatcher`, `AnswersRight` | `ApiInv` |
| `ApiFramesProofs` | StackImplementsFrames | `FramesImplemented` | `ApiInv` |

What is in parentheses is proved and not run, as TLC would only repeat it. `Lists` and `DataLemmas` hold what the proofs
share: sequences that are cut, filtered, extended or put together, lists without duplicates, finite sets and their sizes, and
the smallest set that is closed under a relation.

**StateManager.** Each invariant stands on the ones before.

1. `BInv`: types, and every frame belongs to a state that was opened. No rule.
2. `CInv` (onecloser): each state has at most one close() in all stacks, and its stage determines `luaState` and
   `native`. `CloseTargetsOpen` alone is not inductive: it says nothing of the stages before "removed".
3. `RInv` (stacked too): both directions of the list. Neither is inductive alone: removeState clears
   the slot of an id, and only `ListedOnce` tells that no other state is found there.
4. `KInv` (alone too): the slot of a removed state stays empty until its close() ends, and a close() that is over has freed its state.
   So a finalizer that lua_close runs gets no LuaState where it could get another one's (`CallbackOwner`).
5. `EInv` (confined, on `BInv`): the frames of a state are in the stack of the thread that opened it, whose JNIEnv is stored.
6. `UInv` (quiescent, on `CInv`): who uses a state has its pointer, or runs above the lua_close of that state in the same stack.

`RefinesRegistry` shows that every step is a step of `Registry` or leaves its map alone.

**JavaFunctionRefs.** `DueInv` (no rule) says that an object is in one list, once, that FINALIZEDBIT keeps what left tobefnz from
coming back, that a push under way has a live reference of its own, and that what waits for java_function_gc has one. `OwnInv` adds
that lua_close finds no push under way and that nothing new comes into finobj. `CallInv` is about careful programs: what is
in use, and what it leads to, is not due while the state is open (`RootsNotDue`); a table comes before what it refers to in the order of finalization
(`Ordered`), also when lua_close appends all of finobj to tobefnz, so that this still waits, with all that it leads to, when the finalizer of the table runs
(`RunningWaits`). From `Separated`, which is closed under references by `Ordered`, nothing released is reached.

**ExecTimeout.** `TInv` is types, `CountsDown` and "an error is under way only while a script runs". `SInv`
adds that a thread is in the chain once and can be
resumed again, and under fresh `HooksOn`: a thread has a hook only while the timeout is on, and one whose count is 1 was struck,
with the present start time. `NoWayBack` follows: a struck thread has count 1 and the limit is still over, so it runs instructions only inside a finalizer or
the handler of a strike, and a protected call in there is no way back (`PushWays`).

**Coroutines.** `FramesInv` is what ldo.c takes for granted when it jumps: which entry of the C stack may stand on which, that a
coroutine's entries are one block, and for each entry which CallInfos of its thread are its own (`Shape`,
`Layout`), so that `luaD_throw` and `unroll` cut both at the same place. `NnyFits` counts the calls that do
not allow a yield, for each thread and for each place where luaD_pcall will restore nny; `ResumesFit` does so for
coroutine.resume; `Held` gives each CallInfo that unroll could not finish its reason on the C stack. Each is
about every luaD_pcall on the stack and not only the innermost, because an error may go to any.

**GarbageCollector.** `AnyInv` (no rule) is types, the marks of the gray lists and the main thread. `IntactInv` is about runs in which
no object escapes a sweep (`NoneEscapes`): what is neither free nor of the other white (`Safe`) refers to nothing that is (`SafeClosed`, what the
barriers and the atomic step keep up, and the argument for `NoDangling`); there is one white between a sweep and the next atomic step; what a
sweep has behind it is white (`SweptWhite`, which an object that gets its finalizer keeps unless it escapes: `SweepGoesOn`); and `MainInvariant` itself. `SettledInv` is about ephemerons in `allweak`, which are not
traversed again. `RunInv` bounds the marks of a full collection from above, in whatever phase it
found the collector: it marks only what the traversals get to from the main thread and from objects that wait for their finalizers, so that after the atomic step what is
not given up can be reached.

**ApiStack.** `ApiInv` is `Body`, which relates stack, CallInfos and luaD_pcalls, and a part about the innermost frame (`Runs`, or `Raises`
while an error is under way). `Nested`: frames lie above each other, each call above what its caller keeps;
the room of a script ends at most MaxStackSize above the function it calls, which is why what it pushes stays in the stack after an error shrank it.
`Called`: a function was called where its caller waits, and fits there with its results; that of a script is in the slot of the call
and has a fixed number of results, so that they come to lie where the script counts on them. `Caught`: the luaD_pcalls are those of
the frames that wait in one, in their order, and each keeps the errfunc of the one before. This is `HandlerOfCatcher` for all of them; for
the innermost alone it is not inductive, as luaD_throw brings back the next. `HandlersThere` is about slots: a handler
is below the function, so nothing that the function does reaches it.

`StackImplementsFrames` follows in `ApiFramesProofs`. `FramesOf` gives each CallInfo the frame that callers see (`Seen`), so each action has to be shown
to change the frames as `ApiFrames` says. Methods touch the values of the innermost frame only (`Above`), as no other frame reaches above
the function of its call. A call cuts its function and arguments off the caller's values and makes them a frame; a return
puts the results back there, for luaPcall with the handler between the caller's values and the results until `RemoveAt` takes it out. An
error delivers its value to the frame of the innermost luaD_pcall, which is the innermost protected frame that waits, by `Caught`;
a message handler is no frame, and the call of one is a stutter or delivers the error.

The step of a failing call did not go through at first. `ApiFrames` had every error meet a message handler, but luaD_growstack
throws LUA_ERRERR without one (`ldo.c:178`, an overflow while one is being handled). TLC confirmed it on a start with a
little more work than the run had, and `ApiFrames` now says so; the start `<<Num, Num, Java>>` of `MCApiStack` keeps the case in the run.

Only model-checked:

- `BorderFound`, `RehashLeavesRoom`, `ArraySizeOptimal` and the refinement of `TableMap` for LuaTable, whose `rehash` and `getn` are loops over data.
- The compiler, the machine and the matcher (`MeansTheSame`, `MatchesAsMeant` and the like): what a recursive definition computes
  for every input needs induction over data, which the provers at hand can not do with an operator as a parameter.
- Liveness under fairness (`CloseEnds`, `TimeoutEnds`) and the absence of deadlock (ENABLED).

## 5. Findings

1. **slot_reuse_shifts** (`LuaStateManager.java:50`): `states.add(i, L)` inserts where `set(i, L)` is
   meant. A state opened into the slot of a closed one moves every later state away from its id.
2. **shrink_in_overflow** (`ldo.c:209`): luaD_shrinkstack leaves the stack alone only if more than LUAI_MAXSTACK slots are
   in use. An error caught while an overflow is handled, or a cycle of the collector that ends there (`lgc.c:672`, the run's
   trace), therefore shrinks it although a CallInfo that still runs ends
   above stack_last, which `ldo.c:198` asserts can not be. A build with assertions fails there for
   `xpcall` of an endless recursion with a handler that itself runs `pcall(table.sort, ...)`.

The following disagreements have no run here. They are the reasons of rules in section 2, and a rule that is dropped in the
`.cfg` of its module shows them:

- *onecloser* (`LuaState.java:146`): close() tests `luaState` and clears it three statements later. Two
  threads can both pass the test; the second drops a state that is not its own and frees the native state twice.
- *nostray* (`ldo.c:547`): lua_resume resets nny of a thread it refuses to resume, also of the one that is running, which
  can then yield inside `table.sort` and has no continuation (`ldo.c:403` asserts it has).
- *noescape* (`lgc.c:837`): an object that gets its `__gc` while lists are swept can escape the sweep, alone (it is put in the list
  that was swept already) or with all objects behind it (it was the last one swept), stays black, and what it refers to is freed in the next cycle. The
  program does not see the phase of the collector, so it cannot keep to noescape on purpose; it can keep to *atonce*, as
  `newprefile` does (`liolib.c:153-158`). The wrappers of Java functions do not: luajni.c makes a metatable and strings
  between lua_newuserdata and lua_setmetatable (`luajni.c:702-721`), and each of these may let the collector make a step. Nor do
  scripts: the table in `setmetatable({}, mt)` is there before OP_NEWTABLE lets the collector have its turn.
- *noclosing, nocollect* (`lgc.c:887`): a finalizer that lua_close runs makes a table with the same `__gc`, drops it and calls `collectgarbage`: one more
  finalizer is due, and lua_close does not end.
- *orderly, noglobals* (`lgc.c:748`, 897): the newest object is finalized first, and lua_close finalizes all of them; a finalizer that runs later and calls a
  newer Java function, or one in a global, uses a reference that `java_function_gc` has deleted.
- *nohandlers* (`ldebug.c:564`, `luajni.c:340`): luaL_error in clockHook calls the message handler of an xpcall inside luaD_hook, where `allowhook` is 0 (`ldo.c:230`).
  `xpcall(loop, loop)` runs for ever under a timeout.
- *lefirst* (`lvm.c:430-432`): after a yield luaV_finishOp takes the metamethod of `<=` for a `__lt` with its operands exchanged, and
  inverts the result, when the first operand has no `__le`. For `t <= q`, where only `q` has one, luaV_lessequal had called that
  `__le`, and the result comes out inverted. If the first operand is a constant, as in `1 <= q`, it is looked for in a register that does not exist, and
  the assertion of lines 428-429, "metamethod should not be called when operand is K", fails; it
  fails for `1 < q` as well, though the result is right there.
- *nofinalizers* (`lgc.c:779`): in a finalizer that loops no hook runs either, and the timeout never strikes.
- (no rule) `ldo.c:516` and 406: nCcalls is decremented for calls that it does not include, so
  that it bounds nothing in nested coroutines, or wraps and refuses calls.
- (no rule) `luajni.c:338`: `timeoutSec` is compared with a difference of `clock()` values.
- (no rule) `ltable.c:11-13` says that the size of the array is "the largest `n' such that at least half the slots between 0 and n are in
  use". computesizes (`ltable.c:197`) asks for more than half, and so does `ArraySizeOptimal`: with the keys 2 and 5 alone, the array has no slots and not
  two. The mutant `computesizes_AtLeastHalf` is the code that the comment describes.
- (not modelled) `ldo.c:326-337`: the missing fixed arguments of a function with varargs are filled in before adjust_varargs lays out its frame,
  and luaD_checkstack has not counted them: the top of the frame may exceed stack_last by their number.
- (not modelled) `luajni.c:522`: luaIscfunction passes p2, which is 0, as the index.
- (not modelled) `LuaState.java:512`: a loader that throws gives null, which lua_load takes for an empty chunk.

Without a run of their own, but the reason of a rule: a table with weak keys that is linked in `allweak` during
propagation and written afterwards loses the new entry, though its key lives (settled: retraversegrays,
`lgc.c:559-568`, does not visit `allweak`); a weak table with a `__gc` that survives in tobefnz from one cycle into
the next is linked in two gray lists by its one `gclist`, and clearkeys follows a circle (strong: `lgc.c:306-312`);
the key of an entry that a table with weak values loses is kept until the next cycle, also by a full collection
(plain: traverseweakvalue marks it, `lgc.c:360`, and clearvalues removes the entry without it, `lgc.c:621-637`).
The last one came from a proof of `FullGCCollects` that did not go through; TLC then found it with three objects. It is
memory that is freed a cycle later than it could be, so no finding.

Not a run, as nothing depends on it: the comment of `LuaState.isOpen` (`LuaState.java:158-160`)
says that it answers true when the state is closed; it answers true when it is open.

## 6. Plan

What would come next, in this order:

1. `StringTable` (`lstring.c` with the sweep of strings), `ChunkReader` (`luaLoad`, `java_function_loader`, `lzio.c`, `lundump.c`),
   `table.sort` and `luaL_ref` against reference definitions.
2. Proofs: `RehashLeavesRoom` and the refinement of `TableMap` for LuaTable, once its nodes are given without recursion.
3. The values of several threads in ApiStack, so that lua_xmove and yields are in it.

## 7. Not modelled

- *Coroutines:* message handlers (ApiStack has them), yields from hooks, lua_yieldk and lua_callk with a continuation (no function of
  this library passes one). What happens after a null continuation was
  called, or after a "raw" caught a yield, is undefined and not followed.
- *JavaFunctionRefs:* scripts that call `__gc` by hand or change the metatable of a Java function; the colours of
  the collector, which GarbageCollector has.
- *GarbageCollector:* the generational mode, strings (no references, lists of their own), open and closed upvalues and
  prototypes with their barriers, dead keys, the debt that decides when a step is due, lua_close (JavaFunctionRefs).
- *ApiStack:* coroutines, createtable, rawseti, userdata, setmetatable and luaLoad of anything but a
  function that exists; errors of memory; what follows when a program breaks its rules.
- *Compiler and virtual machine:* the lexer, line and debug information, coercions between numbers and strings, division,
  tail calls that reuse a C function's frame, `__gc` and `__mode`, chunks beyond the families of the run.
- *LuaTable:* numbers that are no integers, errors of memory in the middle of a resize, the cache of absent metamethods.
- *Strings:* upper and lower case, the classes other than letters and digits, string.format, string.rep beyond memory.
- *ExecTimeout:* scripts that write the global `_hversion`, hooks set by `debug.sethook`.
- The lexer, number conversion, formatting: data without an
  order of events. Files, processes and the operating system's clock: I/O. `lua.c`, `luac.c`: command line
  front ends that the Java library does not contain. Build files.
