CONSTANTS
    None = None
    creator = creator
    deleter = deleter
    watcher = watcher
    web = web
    app = app
    Threads = {creator, deleter, watcher}
    Ids = {web}
    Calls <- LoneCalls
    Reconciler = {watcher}
    FirstAllows = {web}
SPECIFICATION Spec
PROPERTY ShutdownPreserves
CHECK_DEADLOCK FALSE
