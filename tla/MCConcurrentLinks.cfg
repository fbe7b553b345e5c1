CONSTANTS
    Quarters = 4
    Physical = {0, 31, 32, 64}
    MemPerLink = {0, 1, 8}
    Reserve = {0, 1}
    EnvCaps = {0, 1, 3}
    CpuCounts = {1, 2, 4}
    NoCapDefault = 1000
SPECIFICATION Spec
INVARIANT TypeOK
INVARIANT ResultIsSafeParallelism
INVARIANT EnvCapHonoured
CHECK_DEADLOCK FALSE
