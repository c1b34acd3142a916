\* Slots shrink above 4 (10000 in the code), so growth from 4 to 16 and back
\* happens; words of two bits, with the last word partly used and wholly used.
SPECIFICATION MCSpec
CONSTANTS
    Undef = Undef
    Threw = Threw
    v1 = v1
    v2 = v2
    a1 = a1
    a2 = a2
    a3 = a3
    k1 = k1
    k2 = k2
    k3 = k3
    k4 = k4
    Value = {v1, v2}
    Key = {k1, k2, k3, k4}
    ShrinkAbove = 4
    MaxItems = 8
    DumpSizes = {0, 5}
    Marked = {v2}
    Initial <- MCInitial
    Elem = {10, 20, 21, 30, 40, 41, 50, 60}
    Rank <- MCRank
    ShrinkEvery = 1
    MaxCalls = 12
    Offered = {10, 21, 50}
    Inputs <- MCInputs
    MaxReplaced = 3
    Capacity = 3
    Varied = {k1}
    Plain = v1
    Column = {k1, k2}
    Arrays = {a1, a2, a3}
    Replaced = {k1}
    MaxRows = 2
    WORD = 2
    Capacities = {3, 4}
    Item = {1, 2, 3}
    H1 <- MCH1
    H2 <- MCH2
    MinBits = 4
    MAX_BITS = 16
    FilterCapacity = 3
    MaxAdded = 3
INVARIANT StructuresSound
PROPERTIES ContainersRefine TreesRefine BitsAreSets
