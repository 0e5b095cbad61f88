CONSTANTS
    web = web
    NoRule = NoRule
    Ids = {web}
    MainChains = {"INPUT"}
    FirstSets = {"missing", "legacy", "alien"}
    MaxEdits = 1
    MaxFaults = 1
    MaxClears = 1
    MaxWork = 2
SPECIFICATION FairSpec
INVARIANTS TypeOK SchemaIsWhole
PROPERTIES EventuallyWired RepairWires NeverHalfWired ForeignKept ClearIsComplete
