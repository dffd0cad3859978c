\* Two processes, two jobs, nobody dies.
CONSTANTS
    u1 = u1
    Jobs = {j1, j2}
    Users = {u1}
    Owner <- OneOwner
    Workers = {w1, w2}
    NoWorker = NoWorker
    NoJob = NoJob
    Sweepers = {daily, login}
    ClaimTimeout = 1
    MaxBuild = 1
    Ttl = 1
    AgeOut = 2
    MaxCrashes = 0
SPECIFICATION Spec
SYMMETRY Alike
INVARIANTS
    OneBuilderPerJob
    ServedFileIsWhole
    DoneRowHasItsFile
PROPERTIES
    MailTellsTheOutcome
    OutcomeIsFinal
    KeepsThePromise
