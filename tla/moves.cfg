CONSTANTS
    None = None
    web = web
    app = app
    app2 = app2
    api = api
    off = off
    odd = odd
    x = x
    y = y
    z = z
    Containers = {web, app}
    Addrs = {x, y, z}
    Names <- MCNames
    NameOf <- MCNameOf
    Label <- MCLabel
    BadPolicy = {}
    RulesTo <- MCRulesTo
    DependsOn = {web}
    Pool <- PoolMove
    FirstStates <- FirstAny
    MaxChanges = 3
    MaxFaults = 0
    MaxCrashes = 0
    MaxBreaks = 0
    MaxReplay = 2
SPECIFICATION Spec
INVARIANTS TypeOK NoStaleAllow HandledMeansEnforced
PROPERTY PassRemovesDeparted
