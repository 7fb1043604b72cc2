CONSTANTS
    LUA_MINSTACK = 5
    EXTRA_STACK = 5
    BASIC_STACK_SIZE = 12
    LUAI_MAXSTACK = 19
    ERRORSTACKSIZE = 25
    MaxStackSize = 2
    Asked = {2, 6, 9}
    MaxArgs = 1
    MaxValues = 3
    ErrorHandlers <- MCErrorHandlers
    Pushed <- MCPushed
    Starts <- MCStarts
SPECIFICATION Spec
VIEW View
CHECK_DEADLOCK FALSE
INVARIANT ExtraSlotsFree
