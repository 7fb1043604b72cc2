SPECIFICATION Spec
CONSTANTS
    Compile <- luaY_parser
    Meaning <- MCMeaning
    Chunks <- MCChunks
    Heap0 <- MCHeap0
    Args <- MCArgs
    MAXINDEXRK = 2
    LFIELDS_PER_FLUSH = 2
    MAXSTACK = 250
    MAXVARS = 200
    MAXUPVAL = 255
    LUA_MINSTACK = 4
    EXTRA_STACK = 2
    Rules = {"lefirst"}
    Slack = {1}
    StackSlots = 60
    Fuel = 30
INVARIANT MeansTheSame RejectsIllegal AssertionsHold CodeSafe SharedWhileInScope
CHECK_DEADLOCK FALSE
