SPECIFICATION Spec
CONSTANTS
    KeyOrder <- MCKeyOrder
    UNSUPPORTED = {"contains"}
    ENUM_INLINE_MAX = 2
    MAX_EXPANDED_NODES = 24
    MAX_SCHEMA_DEPTH = 8
INVARIANTS   DocumentsMeanTheSame
CHECK_DEADLOCK FALSE
