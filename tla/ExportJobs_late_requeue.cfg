\* A process dies and the two survivors return its job to the queue at once.
CONSTANTS
    u1 = u1
    Jobs = {j1}
    Users = {u1}
    Owner <- OneOwner
    Workers = {w1, w2}
    NoWorker = NoWorker
    NoJob = NoJob
    Sweepers = {daily, login}
    ClaimTimeout = 2
    MaxBuild = 2
    Ttl = 2
    AgeOut = 3
    MaxCrashes = 1
SPECIFICATION Spec
INVARIANTS
    OneBuilderPerJob
