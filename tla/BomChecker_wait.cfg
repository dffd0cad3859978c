\* One file that needs the agent, one job and two checks; one request may be lost.
CONSTANTS
    Files = {bom}
    Known = {}
    Shareable = {bom}
    Jobs = {j1}
    Checks = {1, 2}
    None = None
    MaxLosses = 1
    Patience = 2
    ListPatience = 1
SPECIFICATION LiveSpec
INVARIANTS
    TypeOK
    PollingIsAlive
    
PROPERTIES
    WaitEnds
    ReadingRowsGo
