\* Loading services, lookups, function creation, yields, while
\* threads await loadInitrd.
SPECIFICATION Spec
CONSTANTS
    c1 = c1
    c2 = c2
    c3 = c3
    app = app
    Calls = {c1, c2, c3}
    NULL = NULL
    FREE = FREE
    NoName = NoName
    hlib = hlib
    loader = loader
    main = main
    loadInitrd = loadInitrd
    crash = crash
    Names = {hlib, loader, main, loadInitrd, crash, app}
    Programs = {hlib, loader, app}
    Vectors = {32}
    Data = {1}
    Codes = {}
    UserCalls = {"loadFromInitrd", "await", "request", "getService", "getServiceId", "createFunction", "getFunction", "getEvent", "stackContains", "unknown", "io"}
    UserNames = {app, main, NoName}
    MaxServices = 3
    MaxFunctions = 2
    MaxEvents = 2
    MaxSubscriptions = 1
    MaxFaultHandlers = 0
SYMMETRY CallSymmetry
INVARIANTS
    IdIsPosition
    CallerSuspended
    AnswersHold
