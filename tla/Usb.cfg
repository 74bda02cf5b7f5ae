\* The PCI scan, the controller's rings and the set-up of a storage device.
SPECIFICATION MCSpec
CONSTANTS
    Machines <- PciMachines
    Buses = {0, 1, 2}
    HostBuses = 2
    DeviceSlots = 2
    FunctionSlots = 3
    Configurations <- DeviceConfigurations
    BlockSizes = {256, 512, 4096}
    SectorSize = 512
    Clients = {"c1", "c2"}
    Initializer = "c1"
    Size = 5
    EventSize = 4
    Ports = {1}
    ConnectEvents = {1}
    Memories <- RingPages
INVARIANTS
    ScanComplete
    TransfersInOrder
PROPERTIES
    RingsAreQueues
    Completes
CHECK_DEADLOCK FALSE
