CONSTANTS
    None = None
    web = web
    app = app
    Containers = {web, app}
    Depth = 1
    MaxEvents = 2
SPECIFICATION FairSpec
INVARIANTS TypeOK IdleIsReapable NoSendOnClosed ReconcileAlone StartWaitsForDie OneLanePerContainer
PROPERTIES EventuallyHandled StopReturns
