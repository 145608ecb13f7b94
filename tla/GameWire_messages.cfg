CONSTANTS
    Pages = 8
    Prefixes = 16
    Locals = 2
    Globals = 3
    Safe = 7
    VeeTsah = 9
    Second = 2
    Eternity = 4
    Replaced = TRUE
    Nesting = 30
    NetItems <- MCNetItems
    EngineItems <- MCEngineItems
    Rank <- MCRank
    Now <- MCNow
    Buffers <- MCBuffers
SPECIFICATION Spec
INVARIANTS TypeOK EchoFaithful OnlyCulpritsEndIt HookInAge
CHECK_DEADLOCK FALSE
