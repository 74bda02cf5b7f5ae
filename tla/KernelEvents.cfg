\* Events: creation, subscription, await by code, fire, interrupts.
SPECIFICATION Spec
CONSTANTS
    c1 = c1
    c2 = c2
    c3 = c3
    Calls = {c1, c2, c3}
    NULL = NULL
    FREE = FREE
    NoName = NoName
    hlib = hlib
    loader = loader
    main = main
    loadInitrd = loadInitrd
    crash = crash
    Names = {hlib, loader, main, loadInitrd, crash}
    Programs = {hlib, loader}
    Vectors = {32}
    Data = {1}
    Codes = {7}
    UserCalls = {"getEvent", "createEvent", "subscribeEvent", "await", "fireEvent", "subscribeInterrupt"}
    UserNames = {loader, NoName}
    MaxServices = 2
    MaxFunctions = 1
    MaxEvents = 2
    MaxSubscriptions = 1
    MaxFaultHandlers = 0
SYMMETRY CallSymmetry
INVARIANTS
    TypeOK
    OnePlace
    NoLostThread
    LookupsHold
PROPERTIES
    FireWakesAll
