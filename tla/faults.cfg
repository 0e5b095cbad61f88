CONSTANTS
    None = None
    web = web
    app = app
    app2 = app2
    api = api
    off = off
    odd = odd
    x = x
    y = y
    z = z
    Containers = {web, app}
    Addrs = {x, y, z}
    Names <- MCNames
    NameOf <- MCNameOf
    Label <- MCLabel
    BadPolicy = {}
    RulesTo <- MCRulesTo
    DependsOn = {}
    Pool <- PoolApart
    FirstStates <- FirstAny
    MaxChanges = 1
    MaxFaults = 2
    MaxCrashes = 1
    MaxBreaks = 1
    MaxReplay = 1
SPECIFICATION FairSpec
INVARIANT FailClosed
PROPERTIES FirewallSpec PassEnforces EventuallyConverged
