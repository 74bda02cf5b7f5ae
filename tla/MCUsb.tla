-------------------------------- MODULE MCUsb --------------------------------
(***************************************************************************)
(* The way to a USB device, for TLC: a behaviour is one of the PCI scan    *)
(* that finds the controller, the controller's rings, or the set-up of a   *)
(* device's interfaces, whichever Init chooses.                            *)
(*                                                                         *)
(* PCI: every machine with some of five functions on three buses, which    *)
(* are controllers, bridges (one leads back to its own bus, one on to a    *)
(* bus that is scanned anyway) or multifunction devices without a class.   *)
(* Rings: five entries with the link, so that transfers of up to three     *)
(* TRBs wrap in every position, and three event entries, so that the event *)
(* ring fills. Devices: configurations with one or two interfaces in       *)
(* either order of endpoints, with descriptors of other types between.     *)
(***************************************************************************)
EXTENDS Lspci, Storage, Xhci

VARIABLE which

all == <<which, pciVars, ringVars, storageVars>>

-----------------------------------------------------------------------------
PciFunction(class, subclass, multi, secondary) ==
    [class |-> class, subclass |-> subclass, multi |-> multi, secondary |-> secondary,
     master |-> FALSE]
PciKinds == {PciFunction(12, 3, FALSE, 0), PciFunction(0, 0, TRUE, 0),
             PciFunction(6, 4, FALSE, 0), PciFunction(6, 4, TRUE, 2)}
PciSlots == {<<0, 0, 0>>, <<0, 0, 2>>, <<1, 0, 0>>, <<2, 1, 0>>, <<2, 1, 1>>}

PciMachines == UNION {[slots -> PciKinds] : slots \in SUBSET PciSlots}

Interface(count, kind) == [type |-> 4, count |-> count, kind |-> kind]
Endpoint(number, direction) == [type |-> 5, number |-> number, in |-> direction]
Companion == [type |-> 48, count |-> 0]
Configuration == [type |-> 2, count |-> 0]
BootKeyboard == <<3, 1, 1>>

DeviceConfigurations == {
    <<Configuration, Interface(2, BulkOnly), Endpoint(1, 1), Endpoint(2, 0)>>,
    <<Configuration, Interface(2, BulkOnly), Endpoint(1, 0), Companion, Endpoint(1, 1),
      Companion>>,
    <<Configuration, Interface(2, BulkOnly), Endpoint(2, 0), Endpoint(3, 1),
      Interface(1, BootKeyboard), Endpoint(1, 1)>>,
    <<Configuration, Interface(2, <<8, 6, 98>>), Endpoint(1, 1), Endpoint(2, 0),
      Interface(4, BulkOnly), Endpoint(1, 1), Endpoint(2, 0), Endpoint(3, 1), Endpoint(4, 0)>>,
    <<Configuration, Interface(2, <<8, 4, 80>>), Endpoint(1, 1), Endpoint(2, 0)>>,
    <<Configuration, Interface(1, BootKeyboard), Companion, Endpoint(1, 1),
      Interface(2, BulkOnly), Endpoint(2, 1), Endpoint(2, 0)>>,
    <<Configuration, Interface(1, <<9, 0, 0>>), Endpoint(1, 1)>>}

-----------------------------------------------------------------------------
\* The rings' pages: cleared, with words of a stack that leave the cycle bits
\* alone, and with one such word that sets a cycle bit at the end of either ring.
\* A stack grows from its page's end.
Trb(cycle, ioc) == [cycle |-> cycle, ioc |-> ioc]
EventTrb(cycle, code) == [cycle |-> cycle, code |-> code]
Pages(trb, event, lastTrb, lastEvent) ==
    [ring |-> [i \in 0 .. Link |-> IF i = Link - 1 THEN lastTrb ELSE trb],
     events |-> [i \in 0 .. EventEnd - 1 |-> IF i = EventEnd - 1 THEN lastEvent ELSE event]]
ClearPages == Pages(Trb(0, FALSE), EventTrb(0, 0), Trb(0, FALSE), EventTrb(0, 0))
RingPages == {
    ClearPages,
    Pages(Trb(0, TRUE), EventTrb(0, 1), Trb(0, TRUE), EventTrb(0, -1)),
    Pages(Trb(0, FALSE), EventTrb(0, 0), Trb(1, TRUE), EventTrb(0, 0)),
    Pages(Trb(0, FALSE), EventTrb(0, 0), Trb(0, FALSE), EventTrb(1, 2))}

-----------------------------------------------------------------------------
\* Components that are not chosen: the scan stays as it is before it starts, on
\* an empty machine, the set-up as it is before it starts, for a hub, and
\* the rings as they are before their use, in clear pages.
NoScan == PciInit /\ DOMAIN pci = {}
NoRings ==
    /\ XhciInit /\ use = "commands"
    /\ ring.trbs = ClearPages.ring /\ events.trbs = ClearPages.events
NoStorage == StorageInit /\ Len(descriptors) = 3 /\ media = 512

MCInit ==
    \/ which = "scan" /\ PciInit /\ NoRings /\ NoStorage
    \/ which = "rings" /\ XhciInit /\ NoScan /\ NoStorage
    \/ which = "storage" /\ StorageInit /\ NoRings /\ NoScan

MCNext ==
    \/ which = "scan" /\ PciNext /\ UNCHANGED <<which, ringVars, storageVars>>
    \/ which = "rings" /\ XhciNext /\ UNCHANGED <<which, pciVars, storageVars>>
    \/ which = "storage" /\ StorageNext /\ UNCHANGED <<which, pciVars, ringVars>>

\* The kernel runs its queue; the controller works on what it was given.
MCSpec ==
    /\ MCInit /\ [][MCNext]_all
    /\ WF_ringVars(which = "rings" /\ Kernel)
    /\ WF_ringVars(which = "rings" /\ HcLink)
    /\ WF_ringVars(which = "rings" /\ HcExecute)
    /\ WF_ringVars(which = "rings" /\ HcPortReset(1))

=============================================================================
