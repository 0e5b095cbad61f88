CONSTANTS
    None = None
    creator = creator
    deleter = deleter
    watcher = watcher
    web = web
    app = app
    Threads = {creator, deleter, watcher}
    Ids = {web, app}
    Calls <- MCCalls
    Reconciler = {watcher}
    FirstAllows = {web}
SPECIFICATION FairSpec
INVARIANTS Exclusion Registered
PROPERTIES DeleteIsFinal CallsReturn
