------------------------------- MODULE Storage -------------------------------
(***************************************************************************)
(* From a USB device to its partition table: the usb service reads the     *)
(* configuration descriptor and sets its endpoints up, usbStorage asks for *)
(* the type behind two endpoints and registers the device with scisi,      *)
(* which talks to it in bulk-only transfers (a command, data, a status)    *)
(* and registers it with mbr. One thread goes through all of it, by        *)
(* requests that wait for each other.                                      *)
(*                                                                         *)
(* A descriptor is its type, an endpoint's number and direction, and an    *)
(* interface's type and number of endpoints; the walks count descriptors   *)
(* where the code counts bytes. The device is external.                    *)
(***************************************************************************)
EXTENDS Integers, Sequences, FiniteSets, SequencesExt

CONSTANTS
    Configurations,     \* configuration descriptors of the devices
    BlockSizes,         \* block sizes of the media
    SectorSize          \* bytes scisi and mbr read at a time (512)

INTERFACE == 4
ENDPOINT == 5
MassStorage == 8
Hid == 3
BulkOnly == <<MassStorage, 6, 80>>

Descriptor ==
    [type : {INTERFACE}, count : Nat, kind : Nat \X Nat \X Nat]
    \cup [type : {ENDPOINT}, number : Nat \ {0}, in : {0, 1}]
    \cup [type : Nat \ {INTERFACE, ENDPOINT}, count : Nat]

\* The interface at i of configuration d ends before j.
EndsAt(d, i, j) ==
    /\ Cardinality({e \in i + 1 .. j - 1 : d[e].type = ENDPOINT}) = d[i].count
    /\ j > i + 1 => d[j - 1].type = ENDPOINT

\* e and f are the positions of the first two endpoints.
FirstTwo(d, e, f) ==
    /\ {e, f} \subseteq 3 .. Len(d) /\ e < f
    /\ \A k \in 3 .. f : d[k].type = ENDPOINT <=> k \in {e, f}

\* The first interface has the endpoints it claims. If it is a storage device's
\* it has two, and a bulk-only one has one in each direction.
StorageAssumption ==
    /\ SectorSize \in Nat \ {0} /\ BlockSizes \subseteq Nat \ {0}
    /\ \A d \in Configurations :
        /\ d \in Seq(Descriptor) /\ Len(d) >= 2 /\ d[2].type = INTERFACE
        /\ \E j \in 3 .. Len(d) + 1 : EndsAt(d, 2, j)
        /\ d[2].kind[1] = MassStorage =>
            \E e, f \in DOMAIN d : /\ FirstTwo(d, e, f) /\ d[2].count >= 2
                                   /\ d[2].kind = BulkOnly => d[e].in # d[f].in
ASSUME StorageAssumption

VARIABLES
    descriptors,        \* configuration of the slot
    pc,
    endpoints,          \* endpoint indices handed to usbStorage
    configured,         \* endpoints configured in the controller
    todo,               \* transfers left of the current function
    phase,              \* what the device waits for: "command", "data", "status"
    outcome,            \* what the device is going to answer to the command
    media,              \* the device's block size
    blockSize,          \* device->blockSize
    blocks,             \* blocks asked for in the last read
    failures,           \* ghost: commands that the device failed
    confused            \* ghost: a transfer on the wrong endpoint or in the wrong phase

storageVars == <<descriptors, pc, endpoints, configured, todo, phase, outcome, media, blockSize,
                 blocks, failures, confused>>
conversation == <<todo, phase, outcome, media, blockSize, blocks, failures, confused>>

-----------------------------------------------------------------------------
\* The walks over the descriptors.

IsEndpoint(i) == i \in DOMAIN descriptors /\ descriptors[i].type = ENDPOINT

\* The descriptor behind the endpoints of the interface at i.
NextInterface(i) ==
    CHOOSE j \in i + 1 .. Len(descriptors) + 1 : EndsAt(descriptors, i, j)

\* Positions that setupInterfaces and getType take for interfaces. The first
\* descriptor is the configuration itself.
Interfaces ==
    LET visited[n \in 1 .. Len(descriptors)] ==
            IF n = 1 THEN {2}
            ELSE visited[n - 1] \cup
                 {NextInterface(i) : i \in visited[n - 1] \cap DOMAIN descriptors}
    IN  visited[Len(descriptors)] \cap 2 .. Len(descriptors)

EndpointsOf(i) == {e \in i + 1 .. NextInterface(i) - 1 : IsEndpoint(e)}

findDescriptor(start, type) ==
    CHOOSE i \in start .. Len(descriptors) :
        descriptors[i].type = type /\ \A j \in start .. i - 1 : descriptors[j].type # type

getEndpointIndex(i) == 2 * descriptors[i].number - 1 + descriptors[i].in

\* The interface type behind an endpoint index, <<>> standing for -1.
getType(index) ==
    LET number == (index + 1) \div 2
        in == (index + 1) % 2
        has(i) == \E e \in EndpointsOf(i) : descriptors[e].number = number /\ descriptors[e].in = in
        found == {i \in Interfaces : has(i)}
    IN  IF found = {} THEN <<>>
        ELSE descriptors[CHOOSE i \in found : \A j \in found : i <= j].kind

StorageInit ==
    /\ descriptors \in Configurations
    /\ pc = "setupInterfaces" /\ endpoints = <<>> /\ configured = {}
    /\ todo = <<>> /\ phase = "command" /\ outcome = "none"
    /\ media \in BlockSizes /\ blockSize = 0 /\ blocks = 0
    /\ failures = 0 /\ confused = FALSE

\* All endpoints are configured, the first interface decides on the driver.
setupInterfaces ==
    /\ pc = "setupInterfaces"
    /\ configured' = UNION {EndpointsOf(i) : i \in Interfaces}
    /\ pc' = CASE descriptors[2].kind[1] = Hid -> "setupHID"
               [] descriptors[2].kind[1] = MassStorage -> "setupMassStorage"
               [] OTHER -> "ignored"
    /\ UNCHANGED <<descriptors, endpoints, conversation>>

\* Registers the first endpoint with the hid service.
setupHID ==
    /\ pc = "setupHID"
    /\ endpoints' = <<getEndpointIndex(findDescriptor(2, ENDPOINT))>>
    /\ pc' = "hid"
    /\ UNCHANGED <<descriptors, configured, conversation>>

\* The first two endpoints: an odd index is an OUT endpoint.
setupMassStorage ==
    LET first == findDescriptor(2, ENDPOINT)
        one == getEndpointIndex(first)
        two == getEndpointIndex(findDescriptor(first + 1, ENDPOINT)) IN
    /\ pc = "setupMassStorage"
    /\ endpoints' = IF one % 2 = 1 THEN [in |-> two, out |-> one] ELSE [in |-> one, out |-> two]
    /\ pc' = "setup"
    /\ UNCHANGED <<descriptors, configured, conversation>>

\* setup of usbStorage: bulk-only devices with transparent SCSI are registered.
setup ==
    LET type == getType(endpoints.in) IN
    /\ pc = "setup"
    /\ pc' = IF type # getType(endpoints.out) \/ type[1] # MassStorage \/ type[3] # 80
             THEN "aborted"
             ELSE IF type[2] = 6 THEN "doInquiry" ELSE "unused"
    /\ UNCHANGED <<descriptors, endpoints, configured, conversation>>

-----------------------------------------------------------------------------
\* Transfers. "out" sends a command, "in" fetches data and then the status.

\* Whether the transfer meets an endpoint of its direction in the right phase.
Meets(index, in, expected) ==
    /\ phase = expected
    /\ \E e \in configured : /\ 2 * descriptors[e].number - 1 + descriptors[e].in = index
                             /\ descriptors[e].in = in

At(transfer) == todo # <<>> /\ Head(todo) = transfer

out ==
    /\ At("out") /\ todo' = Tail(todo)
    /\ confused' = (confused \/ ~Meets(endpoints.out, 0, "command"))
    /\ phase' = "data"
    /\ outcome' \in {"good", "bad"}
    /\ failures' = failures + IF outcome' = "bad" THEN 1 ELSE 0
    /\ UNCHANGED <<descriptors, pc, endpoints, configured, media, blockSize, blocks>>

\* Mutant: the status is left in the device.
InWithoutStatus ==
    /\ At("in") /\ todo' = Tail(todo)
    /\ confused' = (confused \/ ~Meets(endpoints.in, 1, "data"))
    /\ phase' = "status"
    /\ UNCHANGED <<descriptors, pc, endpoints, configured, outcome, media, blockSize, blocks,
                   failures>>

\* Two reads on the same endpoint; a bad status is reported to a caller that
\* does not look at it.
in ==
    /\ At("in") /\ todo' = Tail(todo)
    /\ confused' = (confused \/ ~Meets(endpoints.in, 1, "data"))
    /\ phase' = "command"
    /\ UNCHANGED <<descriptors, pc, endpoints, configured, outcome, media, blockSize, blocks,
                   failures>>

-----------------------------------------------------------------------------
\* scisi and mbr.

Goto(label, transfers) ==
    /\ pc' = label /\ todo' = transfers
    /\ UNCHANGED <<descriptors, endpoints, configured, phase, outcome, media, failures, confused>>

Idle(label) == pc = label /\ todo = <<>>

doInquiry ==
    /\ Idle("doInquiry")
    /\ Goto("readSize", <<"out", "in", "out", "in">>) /\ UNCHANGED <<blockSize, blocks>>

readSize ==
    /\ Idle("readSize")
    /\ Goto("sized", <<"out", "in">>) /\ UNCHANGED <<blockSize, blocks>>

\* The answer, or what malloc left in the block for it.
Sized ==
    /\ Idle("sized")
    /\ blockSize' \in IF outcome = "good" THEN {media} ELSE {0} \cup BlockSizes
    /\ Goto("readBoot", <<>>) /\ UNCHANGED blocks

\* read: the block count is a division by the block size.
read(after) ==
    \/ /\ blockSize = 0 /\ Goto("crashed", <<>>) /\ UNCHANGED <<blockSize, blocks>>
    \/ /\ blockSize > 0 /\ blocks' = (SectorSize - 1) \div blockSize + 1
       /\ Goto(after, <<"out", "in">>) /\ UNCHANGED blockSize

\* registerDevice reads the first sector, then mbr does.
readBoot == Idle("readBoot") /\ read("registerMBR")
registerMBR == Idle("registerMBR") /\ read("checkMBR")

\* The signature of the sector, or of whatever stands in its place.
checkMBR ==
    /\ Idle("checkMBR")
    /\ \/ Goto("partitions", <<>>)
       \/ outcome = "bad" /\ Goto("unsigned", <<>>)
    /\ UNCHANGED <<blockSize, blocks>>

StorageNext ==
    \/ setupInterfaces \/ setupHID \/ setupMassStorage \/ setup
    \/ out \/ in \/ doInquiry \/ readSize \/ Sized \/ readBoot \/ registerMBR \/ checkMBR

StorageSpec == StorageInit /\ [][StorageNext]_storageVars

-----------------------------------------------------------------------------
\* Whatever the order of the descriptors and whatever commands fail: a command
\* goes to an OUT endpoint of the device when it waits for one, and data is
\* fetched from an IN endpoint when it has some.
PhasesInOrder == ~confused

\* Only what the device's first interface says it is gets commands, and the
\* endpoints used are that interface's own.
Talking == pc \in {"doInquiry", "readSize", "sized", "readBoot", "registerMBR", "checkMBR"}
OwnInterface ==
    Talking => /\ descriptors[2].kind = BulkOnly
               /\ {endpoints.in, endpoints.out}
                    \subseteq {getEndpointIndex(e) : e \in EndpointsOf(2)}

\* A read covers the sector, and the division by the block size fails only
\* behind a command whose bad status was not looked at.
ReadsCover ==
    /\ pc = "crashed" => failures > 0
    /\ blocks > 0 => blocks * blockSize >= SectorSize

\* Commands go to an OUT endpoint and data comes from an IN endpoint of the
\* bulk-only interface itself, in the order of the protocol, whatever commands
\* fail; and a read covers the sector that is asked for.
TransfersInOrder == PhasesInOrder /\ OwnInterface /\ ReadsCover

=============================================================================
