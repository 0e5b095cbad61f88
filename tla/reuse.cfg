CONSTANTS
    None = None
    web = web
    app = app
    app2 = app2
    api = api
    off = off
    odd = odd
    x = x
    y = y
    z = z
    Containers = {web, app, app2, off, odd}
    Addrs = {x, y, z}
    Names <- MCNames
    NameOf <- MCNameOf
    Label <- MCLabel
    BadPolicy = {}
    RulesTo <- MCRulesTo
    DependsOn = {}
    Pool <- PoolReuse
    FirstStates <- FirstReuse
    MaxChanges = 3
    MaxFaults = 0
    MaxCrashes = 0
    MaxBreaks = 1
    MaxReplay = 0
SPECIFICATION FairSpec
INVARIANT EdgesPaired
PROPERTIES PassEnforces OnlyOwnerUnmaps DisplacedIsQuarantined EventuallyConverged
