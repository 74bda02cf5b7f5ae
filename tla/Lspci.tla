-------------------------------- MODULE Lspci --------------------------------
(***************************************************************************)
(* The lspci service: a depth-first scan of the PCI buses through the      *)
(* configuration ports, which follows bridges, and the functions by which  *)
(* the usb service then walks over the devices found. The hardware, one    *)
(* configuration space for every function that answers, is external.       *)
(*                                                                         *)
(* The scan runs inside main, which the loader waits for: no other thread  *)
(* uses the ports meanwhile. A step is a call of checkFunction or the end  *)
(* of a loop.                                                              *)
(***************************************************************************)
EXTENDS Integers, Sequences, FiniteSets, SequencesExt

CONSTANTS
    Machines,           \* the functions' configuration spaces
    Buses,              \* bus numbers checkedBuses has room for, 0 .. n (256)
    HostBuses,          \* buses scanned on a machine with several host bridges (8)
    DeviceSlots,        \* devices on a bus (32)
    FunctionSlots       \* functions of a device (8)

\* What the registers of a function can say; a secondary bus has a number.
Function == [class : Nat, subclass : Nat, multi : BOOLEAN, secondary : Buses, master : BOOLEAN]

ASSUME PciAssumption ==
    /\ {HostBuses, DeviceSlots, FunctionSlots} \subseteq Nat \ {0}
    /\ IsFiniteSet(Buses) /\ 0 .. HostBuses - 1 \subseteq Buses
    /\ \A machine \in Machines :
        /\ DOMAIN machine \subseteq Buses \X (0 .. DeviceSlots - 1) \X (0 .. FunctionSlots - 1)
        /\ \A a \in DOMAIN machine : machine[a] \in Function

VARIABLES
    pci,                \* address -> [class, subclass, multi, secondary, master]
    stack,              \* calls of checkBus, the innermost last
    hosts,              \* buses initializePci has still to scan
    checkedBuses,
    pciDevices,         \* addresses in the order found
    initialized,
    usb,                \* the usb service: next device id, or "done"
    started             \* devices it has initialised, in order

pciVars == <<pci, stack, hosts, checkedBuses, pciDevices, initialized, usb, started>>

Address(bus, device, function) == <<bus, device, function>>
BridgeClass == [class |-> 6, subclass |-> 4]
XhciClass == [class |-> 12, subclass |-> 3]
Kind(a) == [class |-> pci[a].class, subclass |-> pci[a].subclass]
Present(a) == a \in DOMAIN pci
Classified(a) == Present(a) /\ pci[a].class \notin {0, 255}

\* A function that does not answer reads as all ones: its header has the bit of
\* a multifunction device.
Multi(bus, device) ==
    LET a == Address(bus, device, 0) IN IF Present(a) THEN pci[a].multi ELSE TRUE

\* initializePci, first part.
PciInit ==
    /\ pci \in Machines
    /\ stack = <<>>
    /\ hosts = IF Multi(0, 0) THEN [i \in 1 .. HostBuses |-> i - 1] ELSE <<0>>
    /\ checkedBuses = {} /\ pciDevices = <<>>
    /\ initialized = FALSE /\ usb = 0 /\ started = <<>>

Scan(bus) == [bus |-> bus, device |-> 0, function |-> 0]

\* Mutant: a bus is scanned whenever a bridge leads to it.
CheckBusAgain(bus, calls) ==
    checkedBuses' = checkedBuses \cup {bus} /\ stack' = Append(calls, Scan(bus))

\* checkBus, called from a loop whose state is the last of the calls.
checkBus(bus, calls) ==
    \/ bus \in checkedBuses /\ stack' = calls /\ UNCHANGED checkedBuses
    \/ /\ bus \notin checkedBuses
       /\ checkedBuses' = checkedBuses \cup {bus} /\ stack' = Append(calls, Scan(bus))

Top == stack[Len(stack)]
Here == Address(Top.bus, Top.device, Top.function)

\* checkDevice: the next function of a multifunction device, or the next device.
Advanced(call) ==
    IF /\ Present(Address(call.bus, call.device, 0)) /\ Multi(call.bus, call.device)
       /\ call.function + 1 < FunctionSlots
    THEN [call EXCEPT !.function = @ + 1]
    ELSE [call EXCEPT !.device = @ + 1, !.function = 0]

\* A function that has a class is listed; the bus behind a bridge is scanned
\* before the next function.
checkFunction ==
    LET next == [stack EXCEPT ![Len(stack)] = Advanced(@)] IN
    /\ stack # <<>> /\ Top.device < DeviceSlots
    /\ \/ /\ ~Classified(Here)
          /\ stack' = next /\ UNCHANGED <<checkedBuses, pciDevices>>
       \/ /\ Classified(Here)
          /\ pciDevices' = Append(pciDevices, Here)
          /\ \/ Kind(Here) = BridgeClass /\ checkBus(pci[Here].secondary, next)
             \/ Kind(Here) # BridgeClass /\ stack' = next /\ UNCHANGED checkedBuses
    /\ UNCHANGED <<pci, hosts, initialized, usb, started>>

\* The loop of checkBus ends.
ReturnBus ==
    /\ stack # <<>> /\ Top.device = DeviceSlots
    /\ stack' = Front(stack)
    /\ UNCHANGED <<pci, hosts, checkedBuses, pciDevices, initialized, usb, started>>

\* initializePci: the next bus, or the end of the scan.
initializePci ==
    /\ stack = <<>> /\ ~initialized
    /\ \/ /\ hosts # <<>> /\ checkBus(Head(hosts), <<>>) /\ hosts' = Tail(hosts)
          /\ UNCHANGED initialized
       \/ /\ hosts = <<>> /\ initialized' = TRUE /\ UNCHANGED <<hosts, stack, checkedBuses>>
    /\ UNCHANGED <<pci, pciDevices, usb, started>>

\* GET_HEADER: 0 behind the last device; its class is never 0.
getDeviceClass(id) ==
    IF id >= Len(pciDevices) THEN [class |-> 0, subclass |-> 0] ELSE Kind(pciDevices[id + 1])

enableBusMaster(id) ==
    pci' = [pci EXCEPT ![pciDevices[id + 1]].master = TRUE]

Done == -1

\* A round of the usb service's loop over the devices, and its checkDevice.
usbInitialize ==
    LET class == getDeviceClass(usb) IN
    /\ initialized /\ usb # Done
    /\ \/ class.class = 0 /\ usb' = Done /\ UNCHANGED <<pci, started>>
       \/ /\ class.class # 0 /\ usb' = usb + 1
          /\ \/ class = XhciClass /\ enableBusMaster(usb)
                /\ started' = Append(started, pciDevices[usb + 1])
             \/ class # XhciClass /\ UNCHANGED <<pci, started>>
    /\ UNCHANGED <<stack, hosts, checkedBuses, pciDevices, initialized>>

PciNext == checkFunction \/ ReturnBus \/ initializePci \/ usbInitialize
PciSpec == PciInit /\ [][PciNext]_pciVars

-----------------------------------------------------------------------------
\* Buses that lead from the given ones over bridges that answer.
Answers(a) ==
    /\ Present(a) /\ Present(Address(a[1], a[2], 0))
    /\ a[3] = 0 \/ Multi(a[1], a[2])
Reachable ==
    LET within[n \in 0 .. Cardinality(Buses)] ==
            IF n = 0 THEN IF Multi(0, 0) THEN 0 .. HostBuses - 1 ELSE {0}
            ELSE within[n - 1] \cup
                 {pci[a].secondary : a \in {a \in DOMAIN pci :
                    Answers(a) /\ Kind(a) = BridgeClass /\ a[1] \in within[n - 1]}}
    IN  within[Cardinality(Buses)]

\* However the bridges are connected, in circles too, the scan lists every
\* function that answers on a bus it can reach, and lists it once.
FoundOnce ==
    initialized =>
        /\ IsInjective(pciDevices)
        /\ ToSet(pciDevices) = {a \in DOMAIN pci :
                Answers(a) /\ a[1] \in Reachable /\ Classified(a)}

\* Device ids are dense: the loop that ends at the first id without a class has
\* started every controller on the way, with bus mastering switched on.
ControllersStarted ==
    usb = Done =>
        /\ ToSet(started) = {a \in ToSet(pciDevices) : Kind(a) = XhciClass}
        /\ \A a \in ToSet(started) : pci[a].master

\* The scan lists every function on the buses it can reach once, whatever way
\* the bridges are connected, and the usb service starts every controller.
ScanComplete == FoundOnce /\ ControllersStarted

=============================================================================
