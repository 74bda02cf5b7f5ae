\* Requests, forks, returns and faults of threads in two services.
SPECIFICATION Spec
CONSTANTS
    c1 = c1
    c2 = c2
    c3 = c3
    c4 = c4
    Calls = {c1, c2, c3, c4}
    NULL = NULL
    FREE = FREE
    NoName = NoName
    hlib = hlib
    loader = loader
    main = main
    loadInitrd = loadInitrd
    crash = crash
    Names = {hlib, loader, main, loadInitrd, crash}
    Programs = {hlib, loader}
    Vectors = {32}
    Data = {1, 2}
    Codes = {7}
    UserCalls = {"request", "fork", "subscribeInterrupt"}
    UserNames = {loader}
    MaxServices = 2
    MaxFunctions = 1
    MaxEvents = 2
    MaxSubscriptions = 0
    MaxFaultHandlers = 1
SYMMETRY CallSymmetry
INVARIANTS
    NoDangling
    NoLostThread
    ChainEnds
PROPERTIES
    AnswerStable
