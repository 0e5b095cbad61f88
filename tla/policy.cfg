CONSTANTS
    a = a
    b = b
    c = c
    AddrTop = 5
    PortTop = 4
    NoEndpoint = NoEndpoint
    NoAddr = NoAddr
    NoNetID = NoNetID
    NoNet = NoNet
    Blank = Blank
    HostNet = 9
    AllNetworks = AllNetworks
    ComposeName <- MCComposeName
    Ids = {a, b, c}
    None = None
    Unset = Unset
    Unreadable = Unreadable
    NoProject = 0
    LocalAddr = 0
    AnyAddr = AnyAddr
    NoPort = NoPort
    Worlds <- MCWorlds
    Packets <- MCPackets
SPECIFICATION Spec
INVARIANTS TypeOK SelectorsExact ScopeHolds OutboundIsPolicy InboundIsPolicy RepliesFollow EdgesAuthorized AbsentPeersHarmless
