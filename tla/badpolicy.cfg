CONSTANTS
    None = None
    web = web
    app = app
    app2 = app2
    api = api
    off = off
    odd = odd
    x = x
    y = y
    z = z
    Containers = {web, app}
    Addrs = {x, y, z}
    Names <- MCNames
    NameOf <- MCNameOf
    Label <- MCLabel
    BadPolicy = {app}
    RulesTo <- MCRulesTo
    DependsOn = {}
    Pool <- PoolApart
    FirstStates <- FirstAny
    MaxChanges = 0
    MaxFaults = 0
    MaxCrashes = 0
    MaxBreaks = 0
    MaxReplay = 0
SPECIFICATION Spec
PROPERTY PassQuarantines
