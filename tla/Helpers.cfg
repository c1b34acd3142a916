\* A pool of two instances, one made in advance, whose factory makes four;
\* counter fields of two bits, and two draws from the random pool before a refill.
SPECIFICATION Spec
CONSTANTS
    Undef = Undef
    N = 3
    Limits = {1, 2}
    MaxSize = 2
    MinSize = 1
    MaxMade = 4
    MaxFrames = 2
    Key = {k1, k2}
    Obj = {o1, o2, o3}
    MaxRefs = 4
    Clock = {0, 1, 2, 3}
    LOW = 4
    HIGH = 4
    POOL_SIZE = 25
    RANDOM_BYTES = 10
    MaxInMs = 8
    Arg = {v1, v2}
    Value = {v1}
    MaxDepth = 2
    MaxCalls = 4
    t1 = t1
    t2 = t2
    t3 = t3
    t4 = t4
    s0 = s0
    s1 = s1
    Node = {t1, t2, t3, t4}
    Shrinks <- MCShrinks
    arb <- MCArb
    Configs <- MCConfigs
    Returns = {"true", "false", "throws", "promise"}
    Command = {t3, t4}
    CommandShrinks <- MCCommandShrinks
    State = {s0, s1}
    First = s0
    TestLimits <- MCTestLimits
    ATTEMPTS = 1
    Input = {t2, t3, t4}
    InputShrinks <- MCInputShrinks
    Seed <- MCSeed
    FuzzLimits <- MCFuzzLimits
    MaxWalk = 2
    MaxRunsBound = 4
INVARIANTS PoolSound SlotsBalanced CallsLimited FailuresReproduce
PROPERTIES PoolResolves KeepsLive Ascending
CHECK_DEADLOCK FALSE
