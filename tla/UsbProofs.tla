------------------------------ MODULE UsbProofs ------------------------------
(***************************************************************************)
(* The scan of the PCI buses ends complete, on every machine: any number   *)
(* of buses and any way to connect them with bridges, in circles too. The  *)
(* invariant says what lies behind the calls of checkBus on the stack: the *)
(* functions the scan is past are those in the list, the buses behind the  *)
(* bridges among them are checked, and every checked bus is in each set of *)
(* buses that holds the first ones and is closed under bridges. The least  *)
(* of these sets is what the recursion of Reachable computes.              *)
(*                                                                         *)
(* The transfers of a storage device are in order, whatever else its       *)
(* configuration holds and whatever commands fail. The invariant says that *)
(* only a bulk-only device is talked to, over endpoints of its own         *)
(* interface, that the transfers left alternate, and that a block size is  *)
(* known or a command has failed.                                          *)
(*                                                                         *)
(* The rings of the controller are queues, for every size of theirs and    *)
(* number of threads and ports, in pages whose cycle bits were clear and   *)
(* whatever else these held. The invariant says how many entries each      *)
(* reader is behind the writer, which is always less than a turn; where    *)
(* each unfinished transfer is; and that the slots of the event ring which *)
(* a thread may still look at have different causes. There are fewer       *)
(* causes than slots, so no slot is reused before its thread has seen it.  *)
(***************************************************************************)
EXTENDS Lspci, Storage, Xhci, FiniteSetTheorems, NaturalsInduction, WellFoundedInduction, TLAPS

LEMMA LeastNatural ==
    ASSUME NEW S \in SUBSET Nat, S # {}
    PROVE  \E m \in S : \A n \in S : m <= n
  <1>1. PICK m \in S : \A n \in S : ~(<<n, m>> \in OpToRel(<, Nat))
    BY NatLessThanWellFounded, WFMin
  <1>2. \A n \in S : ~(n < m)
    BY <1>1 DEF OpToRel
  <1> QED BY <1>2

-----------------------------------------------------------------------------
\* The scan of the PCI buses. What lies behind the calls of the stack st, when
\* the buses of ch are checked.

Addresses == Buses \X (0 .. DeviceSlots - 1) \X (0 .. FunctionSlots - 1)
CheckCalls == [bus : Buses, device : 0 .. DeviceSlots, function : 0 .. FunctionSlots - 1]

Before(call, a) == a[2] < call.device \/ (a[2] = call.device /\ a[3] < call.function)
Listed(a) == Answers(a) /\ Classified(a)
Behind(st, ch, a) ==
    /\ a[1] \in ch /\ Listed(a)
    /\ \A i \in DOMAIN st : st[i].bus = a[1] => Before(st[i], a)

\* A loop over functions runs on devices that have several, and no bus is
\* scanned twice at once.
InDevice(call) ==
    call.function > 0 => /\ Present(Address(call.bus, call.device, 0))
                         /\ Multi(call.bus, call.device)
StackOk(st, ch) ==
    /\ st \in Seq(CheckCalls) /\ ch \in SUBSET Buses
    /\ \A i \in DOMAIN st : st[i].bus \in ch /\ InDevice(st[i])
    /\ \A i, j \in DOMAIN st : st[i].bus = st[j].bus => i = j

Machine ==
    /\ DOMAIN pci \subseteq Addresses
    /\ \A a \in DOMAIN pci : pci[a] \in Function

LEMMA AddressIs ==
    ASSUME Machine, NEW a \in DOMAIN pci
    PROVE  /\ a[1] \in Buses /\ a[2] \in 0 .. DeviceSlots - 1 /\ a[3] \in 0 .. FunctionSlots - 1
           /\ a = Address(a[1], a[2], a[3])
  BY DEF Machine, Addresses, Address

LEMMA SizesAre == HostBuses \in Nat /\ DeviceSlots \in Nat /\ FunctionSlots \in Nat
                  /\ HostBuses > 0 /\ DeviceSlots > 0 /\ FunctionSlots > 0
  BY PciAssumption

LEMMA AdvancedIs ==
    ASSUME Machine, NEW call \in CheckCalls, InDevice(call), call.device < DeviceSlots, NEW next,
           next = Advanced(call), NEW here, here = Address(call.bus, call.device, call.function)
    PROVE  /\ next \in CheckCalls /\ next.bus = call.bus /\ InDevice(next)
           /\ \A a \in DOMAIN pci : a[1] = call.bus /\ Answers(a) =>
                (Before(next, a) <=> Before(call, a) \/ a = here)
           /\ Classified(here) => Listed(here) /\ ~Before(call, here)
  <1>1. PICK b \in Buses, d \in Nat, f \in Nat :
            /\ b = call.bus /\ d = call.device /\ f = call.function
            /\ d < DeviceSlots /\ f <= FunctionSlots - 1
            /\ call = [bus |-> b, device |-> d, function |-> f]
    BY SizesAre DEF CheckCalls
  <1>2. PICK first : first = Address(b, d, 0)
    OBVIOUS
  <1>3. f > 0 => Present(first) /\ Multi(b, d)
    BY <1>1, <1>2 DEF InDevice
  <1>4. here = <<b, d, f>> /\ first = <<b, d, 0>>
    BY <1>1, <1>2 DEF Address
  <1>5. Classified(here) => Listed(here) /\ ~Before(call, here)
    <2>1. Present(here) => Answers(here)
      BY <1>1, <1>2, <1>3, <1>4 DEF Answers, Address
    <2>2. ~Before(call, here)
      BY <1>1, <1>4 DEF Before
    <2> QED BY <2>1, <2>2 DEF Listed, Classified
  <1>6. CASE Present(first) /\ Multi(b, d) /\ f + 1 < FunctionSlots
    <2>1. next = [bus |-> b, device |-> d, function |-> f + 1]
      BY <1>1, <1>2, <1>6 DEF Advanced
    <2>2. next \in CheckCalls /\ next.bus = b /\ next.device = d /\ next.function = f + 1
      BY <1>1, <1>6, <2>1, SizesAre DEF CheckCalls
    <2>3. InDevice(next)
      BY <1>2, <1>6, <2>2 DEF InDevice
    <2>4. ASSUME NEW a \in DOMAIN pci, a[1] = b PROVE Before(next, a) <=> Before(call, a) \/ a = here
      <3>1. a[2] \in Nat /\ a[3] \in Nat /\ a = <<a[1], a[2], a[3]>>
        BY AddressIs, SizesAre DEF Address
      <3>2. a = here <=> a[2] = d /\ a[3] = f
        BY <1>4, <2>4, <3>1
      <3> QED BY <1>1, <2>2, <3>1, <3>2 DEF Before
    <2> QED BY <1>1, <1>5, <2>2, <2>3, <2>4
  <1>7. CASE ~(Present(first) /\ Multi(b, d) /\ f + 1 < FunctionSlots)
    <2>1. next = [bus |-> b, device |-> d + 1, function |-> 0]
      BY <1>1, <1>2, <1>7 DEF Advanced
    <2>2. next \in CheckCalls /\ next.bus = b /\ next.device = d + 1 /\ next.function = 0
      BY <1>1, <2>1, SizesAre DEF CheckCalls
    <2>3. InDevice(next)
      BY <2>2 DEF InDevice
    <2>4. ASSUME NEW a \in DOMAIN pci, a[1] = b, Answers(a)
          PROVE  Before(next, a) <=> Before(call, a) \/ a = here
      <3>1. /\ a[2] \in Nat /\ a[3] \in Nat /\ a[3] <= FunctionSlots - 1
            /\ a = <<a[1], a[2], a[3]>>
        BY AddressIs, SizesAre DEF Address
      <3>2. a = here <=> a[2] = d /\ a[3] = f
        BY <1>4, <2>4, <3>1
      <3>3. ASSUME a[2] = d PROVE a[3] <= f
        <4>1. Present(first) /\ (a[3] = 0 \/ Multi(b, d))
          BY <1>2, <2>4, <3>3 DEF Answers
        <4> QED BY <1>1, <1>7, <3>1, <4>1, SizesAre
      <3> QED BY <1>1, <2>2, <3>1, <3>2, <3>3 DEF Before
    <2> QED BY <1>1, <1>5, <2>2, <2>3, <2>4
  <1> QED BY <1>6, <1>7

\* The innermost call goes on.
GoesOn(st, n, next) == next = [st EXCEPT ![n] = Advanced(@)]

LEMMA StackAdvances ==
    ASSUME Machine, NEW st, NEW ch, StackOk(st, ch), NEW n \in Nat \ {0}, n = Len(st),
           st[n].device < DeviceSlots,
           NEW here, here = Address(st[n].bus, st[n].device, st[n].function),
           NEW next, GoesOn(st, n, next)
    PROVE  /\ StackOk(next, ch) /\ Len(next) = n
           /\ \A a \in DOMAIN pci :
                Behind(next, ch, a) <=> Behind(st, ch, a) \/ (a = here /\ Classified(here))
           /\ ~Behind(st, ch, here)
  <1>1. st \in Seq(CheckCalls) /\ DOMAIN st = 1 .. n /\ n \in 1 .. n
    BY DEF StackOk
  <1>2. PICK top \in CheckCalls : top = st[n]
    BY <1>1
  <1>3. InDevice(top) /\ top.device < DeviceSlots /\ top.bus \in ch /\ ch \in SUBSET Buses
    BY <1>1, <1>2 DEF StackOk
  <1>4. PICK new : new = Advanced(top)
    OBVIOUS
  <1>5. here = Address(top.bus, top.device, top.function)
    BY <1>2
  <1>6. /\ new \in CheckCalls /\ new.bus = top.bus /\ InDevice(new)
        /\ \A a \in DOMAIN pci : a[1] = top.bus /\ Answers(a) =>
                (Before(new, a) <=> Before(top, a) \/ a = here)
        /\ Classified(here) => Listed(here) /\ ~Before(top, here)
    BY <1>3, <1>4, <1>5, AdvancedIs
  <1>7. next = [st EXCEPT ![n] = new]
    BY <1>1, <1>2, <1>4 DEF GoesOn
  <1>8. /\ next \in Seq(CheckCalls) /\ Len(next) = n /\ DOMAIN next = 1 .. n
        /\ \A i \in 1 .. n : next[i] = IF i = n THEN new ELSE st[i]
    BY <1>1, <1>6, <1>7
  <1>9. \A i \in 1 .. n : next[i].bus = st[i].bus
    BY <1>1, <1>2, <1>6, <1>8
  <1>10. StackOk(next, ch)
    BY <1>1, <1>6, <1>8, <1>9 DEF StackOk
  <1>11. here[1] = top.bus /\ (~Classified(here) => ~Behind(st, ch, here))
    BY <1>5 DEF Address, Behind, Listed
  <1>12. ~Behind(st, ch, here)
    BY <1>1, <1>2, <1>6, <1>11 DEF Behind
  <1>13. ASSUME NEW a \in DOMAIN pci
         PROVE  Behind(next, ch, a) <=> Behind(st, ch, a) \/ (a = here /\ Classified(here))
    <2>1. CASE a[1] # top.bus
      <3>1. a # here
        BY <1>11, <2>1
      <3>2. \A i \in 1 .. n : next[i].bus = a[1] => next[i] = st[i]
        BY <1>2, <1>8, <1>9, <2>1
      <3> QED BY <1>1, <1>8, <1>9, <3>1, <3>2 DEF Behind
    <2>2. CASE a[1] = top.bus /\ ~Listed(a)
      BY <1>6, <2>2 DEF Behind
    <2>3. CASE a[1] = top.bus /\ Listed(a)
      <3>1. \A i \in 1 .. n : st[i].bus = a[1] => i = n
        BY <1>1, <1>2, <2>3 DEF StackOk
      <3>2. Behind(st, ch, a) <=> Before(top, a)
        BY <1>1, <1>2, <1>3, <2>3, <3>1 DEF Behind
      <3>3. Behind(next, ch, a) <=> Before(new, a)
        BY <1>3, <1>6, <1>8, <1>9, <2>3, <3>1 DEF Behind
      <3>4. Before(new, a) <=> Before(top, a) \/ a = here
        BY <1>6, <2>3 DEF Listed
      <3>5. a = here => Classified(here)
        BY <2>3 DEF Listed
      <3> QED BY <3>2, <3>3, <3>4, <3>5
    <2> QED BY <2>1, <2>2, <2>3
  <1> QED BY <1>8, <1>10, <1>12, <1>13

\* A call of checkBus: nothing, or one more call on a bus of its own.
LEMMA BusChecked ==
    ASSUME Machine, NEW st, NEW ch, StackOk(st, ch), NEW b \in Buses, NEW st2, NEW ch2,
           \/ b \in ch /\ st2 = st /\ ch2 = ch
           \/ b \notin ch /\ ch2 = ch \cup {b} /\ st2 = Append(st, Scan(b))
    PROVE  /\ StackOk(st2, ch2) /\ ch2 = ch \cup {b}
           /\ \A a \in DOMAIN pci : Behind(st2, ch2, a) <=> Behind(st, ch, a)
  <1>1. CASE b \in ch /\ st2 = st /\ ch2 = ch
    BY <1>1
  <1>2. CASE b \notin ch /\ ch2 = ch \cup {b} /\ st2 = Append(st, Scan(b))
    <2>1. PICK n \in Nat : n = Len(st) /\ st \in Seq(CheckCalls) /\ DOMAIN st = 1 .. n
      BY DEF StackOk
    <2>2. PICK new : new = Scan(b)
      OBVIOUS
    <2>3. /\ new \in CheckCalls /\ new.bus = b /\ InDevice(new)
          /\ new.device = 0 /\ new.function = 0
      BY <2>2, SizesAre DEF Scan, CheckCalls, InDevice
    <2>4. /\ st2 \in Seq(CheckCalls) /\ Len(st2) = n + 1 /\ DOMAIN st2 = 1 .. n + 1
          /\ st2[n + 1] = new /\ \A i \in 1 .. n : st2[i] = st[i]
      BY <1>2, <2>1, <2>2, <2>3
    <2>5. \A i \in 1 .. n : st[i].bus \in ch /\ InDevice(st[i])
      BY <2>1 DEF StackOk
    <2>6. \A i \in 1 .. n : st[i].bus # b
      BY <1>2, <2>5
    <2>7. StackOk(st2, ch2)
      <3>1. \A i \in 1 .. n + 1 : st2[i].bus \in ch2 /\ InDevice(st2[i])
        BY <1>2, <2>3, <2>4, <2>5
      <3>2. \A i, j \in 1 .. n + 1 : st2[i].bus = st2[j].bus => i = j
        <4>1. \A i, j \in 1 .. n : st[i].bus = st[j].bus => i = j
          BY <2>1 DEF StackOk
        <4> QED BY <2>3, <2>4, <2>6, <4>1
      <3>3. ch2 \in SUBSET Buses
        BY <1>2 DEF StackOk
      <3> QED BY <2>4, <3>1, <3>2, <3>3 DEF StackOk
    <2>8. ASSUME NEW a \in DOMAIN pci PROVE Behind(st2, ch2, a) <=> Behind(st, ch, a)
      <3>1. a[2] \in Nat /\ a[3] \in Nat
        BY AddressIs, SizesAre
      <3>2. ~Before(new, a)
        BY <2>3, <3>1 DEF Before
      <3>3. CASE a[1] = b
        BY <1>2, <2>3, <2>4, <3>2, <3>3 DEF Behind
      <3>4. CASE a[1] # b
        BY <1>2, <2>1, <2>3, <2>4, <3>4 DEF Behind
      <3> QED BY <3>3, <3>4
    <2> QED BY <1>2, <2>7, <2>8
  <1> QED BY <1>1, <1>2

\* A call that returns has seen every device of its bus.
LEMMA StackReturns ==
    ASSUME Machine, NEW st, NEW ch, StackOk(st, ch), NEW n \in Nat \ {0}, n = Len(st),
           st[n].device = DeviceSlots, NEW st2, st2 = Front(st)
    PROVE  /\ StackOk(st2, ch)
           /\ \A a \in DOMAIN pci : Behind(st2, ch, a) <=> Behind(st, ch, a)
  <1>1. st \in Seq(CheckCalls) /\ DOMAIN st = 1 .. n /\ n \in 1 .. n
    BY DEF StackOk
  <1>2. st2 = SubSeq(st, 1, n - 1)
    BY DEF Front
  <1>3. /\ st2 \in Seq(CheckCalls) /\ DOMAIN st2 = 1 .. n - 1
        /\ \A i \in 1 .. n - 1 : st2[i] = st[i]
    BY <1>1, <1>2
  <1>4. StackOk(st2, ch)
    BY <1>1, <1>3 DEF StackOk
  <1>5. ASSUME NEW a \in DOMAIN pci PROVE Behind(st2, ch, a) <=> Behind(st, ch, a)
    <2>1. Before(st[n], a)
      BY AddressIs, SizesAre DEF Before
    <2>2. \A i \in 1 .. n : i \in 1 .. n - 1 \/ i = n
      OBVIOUS
    <2>3. (\A i \in 1 .. n - 1 : st2[i].bus = a[1] => Before(st2[i], a))
          <=> (\A i \in 1 .. n : st[i].bus = a[1] => Before(st[i], a))
      <3>1. \A i \in 1 .. n - 1 : i \in 1 .. n /\ st[i] = st2[i]
        BY <1>3
      <3>2. \A i \in 1 .. n : ~(i \in 1 .. n - 1) => Before(st[i], a)
        BY <2>1, <2>2
      <3> QED BY <3>1, <3>2
    <2> QED BY <1>1, <1>3, <2>3 DEF Behind
  <1> QED BY <1>4, <1>5

\* A function whose bus mastering is switched on stays what it was.
PciSame ==
    /\ DOMAIN pci' = DOMAIN pci
    /\ \A a \in DOMAIN pci : /\ pci'[a].class = pci[a].class /\ pci'[a].subclass = pci[a].subclass
                             /\ pci'[a].multi = pci[a].multi
                             /\ pci'[a].secondary = pci[a].secondary

Roots == IF Multi(0, 0) THEN 0 .. HostBuses - 1 ELSE {0}
ClosedBuses(S) ==
    \A a \in DOMAIN pci : Answers(a) /\ Kind(a) = BridgeClass /\ a[1] \in S => pci[a].secondary \in S

LEMMA SamePci ==
    ASSUME PciSame
    PROVE  /\ \A a : Present(a)' = Present(a) /\ Classified(a)' = Classified(a)
                     /\ Answers(a)' = Answers(a) /\ Listed(a)' = Listed(a)
           /\ \A b, d : Multi(b, d)' = Multi(b, d)
           /\ \A a \in DOMAIN pci : Kind(a)' = Kind(a)
           /\ Roots' = Roots
  <1>1. \A a : Present(a)' = Present(a)
    BY DEF PciSame, Present
  <1>2. \A a : Classified(a)' = Classified(a)
    BY <1>1 DEF PciSame, Classified, Present
  <1>3. \A b, d : Multi(b, d)' = Multi(b, d)
    BY <1>1 DEF PciSame, Multi, Present
  <1>4. \A a : Answers(a)' = Answers(a)
    BY <1>1, <1>3 DEF Answers
  <1>5. \A a \in DOMAIN pci : Kind(a)' = Kind(a)
    BY DEF PciSame, Kind
  <1> QED BY <1>1, <1>2, <1>3, <1>4, <1>5 DEF Listed, Roots

LEMMA SameBehind ==
    ASSUME PciSame, NEW st, NEW ch
    PROVE  /\ StackOk(st, ch)' <=> StackOk(st, ch)
           /\ \A a : Behind(st, ch, a)' <=> Behind(st, ch, a)
           /\ ClosedBuses(ch)' <=> ClosedBuses(ch)
  <1>1. \A call : InDevice(call)' = InDevice(call)
    BY SamePci DEF InDevice
  <1>2. StackOk(st, ch)' <=> StackOk(st, ch)
    BY <1>1 DEF StackOk
  <1>3. \A a : Behind(st, ch, a)' <=> Behind(st, ch, a)
    BY SamePci DEF Behind, Before
  <1>4. ClosedBuses(ch)' <=> ClosedBuses(ch)
    BY SamePci DEF ClosedBuses, PciSame
  <1> QED BY <1>2, <1>3, <1>4


-----------------------------------------------------------------------------
\* Every bus that starts the scan is scanned or waits; the bus behind a bridge
\* the scan is past is scanned; and nothing is but the buses that must be.
ScanTyped ==
    /\ Machine /\ StackOk(stack, checkedBuses)
    /\ hosts \in Seq(Roots) /\ pciDevices \in Seq(DOMAIN pci)
    /\ initialized \in BOOLEAN /\ (initialized => stack = <<>> /\ hosts = <<>>)

Waits(b) == \E i \in DOMAIN hosts : hosts[i] = b
BusesChecked ==
    /\ \A b \in Roots : b \in checkedBuses \/ Waits(b)
    /\ \A a \in DOMAIN pci : Behind(stack, checkedBuses, a) /\ Kind(a) = BridgeClass
                                => pci[a].secondary \in checkedBuses
    /\ \A S \in SUBSET Buses : Roots \subseteq S /\ ClosedBuses(S) => checkedBuses \subseteq S

\* The list is what the scan is past, each function once.
InList(a) == \E i \in DOMAIN pciDevices : pciDevices[i] = a
DevicesListed ==
    /\ \A a \in DOMAIN pci : (Behind(stack, checkedBuses, a) <=> InList(a))
    /\ \A i, j \in DOMAIN pciDevices : pciDevices[i] = pciDevices[j] => i = j

\* The usb service has started the controllers among the devices it is past.
Passed(a) == \E i \in DOMAIN pciDevices : (usb = Done \/ i <= usb) /\ pciDevices[i] = a
IsStarted(a) == \E i \in DOMAIN started : started[i] = a
DevicesStarted ==
    /\ usb \in Nat \cup {Done} /\ started \in Seq(DOMAIN pci)
    /\ ~initialized => usb = 0 /\ started = <<>>
    /\ usb # Done => usb <= Len(pciDevices)
    /\ \A a \in DOMAIN pci : (IsStarted(a) <=> Passed(a) /\ Kind(a) = XhciClass)
    /\ \A i \in DOMAIN started : pci[started[i]].master

ScanInv == ScanTyped /\ BusesChecked /\ DevicesListed /\ DevicesStarted

LEMMA RootsAre == Roots \subseteq Buses /\ 0 \in Buses
  BY PciAssumption, SizesAre DEF Roots

LEMMA ScanStarts == PciInit => ScanInv
  <1> SUFFICES ASSUME PciInit PROVE ScanInv
    OBVIOUS
  <1>1. Machine
    BY PciAssumption DEF PciInit, Machine, Addresses
  <1>2. /\ stack = <<>> /\ checkedBuses = {} /\ pciDevices = <<>> /\ started = <<>>
        /\ initialized = FALSE /\ usb = 0
    BY DEF PciInit
  <1>3. StackOk(stack, checkedBuses)
    BY <1>2 DEF StackOk
  <1>4. hosts \in Seq(Roots) /\ \A b \in Roots : Waits(b)
    <2>1. CASE Multi(0, 0)
      <3>1. PICK h : h = [i \in 1 .. HostBuses |-> i - 1]
        OBVIOUS
      <3>2. hosts = h /\ Roots = 0 .. HostBuses - 1
        BY <2>1, <3>1 DEF PciInit, Roots
      <3>3. h \in Seq(Roots) /\ DOMAIN h = 1 .. HostBuses
        BY <3>1, <3>2, SizesAre
      <3>4. ASSUME NEW b \in Roots PROVE Waits(b)
        <4>1. b + 1 \in 1 .. HostBuses /\ h[b + 1] = b
          BY <3>1, <3>2, SizesAre
        <4> QED BY <3>2, <3>3, <4>1 DEF Waits
      <3> QED BY <3>2, <3>3, <3>4
    <2>2. CASE ~Multi(0, 0)
      <3>1. hosts = <<0>> /\ Roots = {0}
        BY <2>2 DEF PciInit, Roots
      <3>2. hosts \in Seq(Roots) /\ 1 \in DOMAIN hosts /\ hosts[1] = 0
        BY <3>1
      <3> QED BY <3>1, <3>2 DEF Waits
    <2> QED BY <2>1, <2>2
  <1>5. ScanTyped
    <2>1. <<>> \in Seq(DOMAIN pci)
      OBVIOUS
    <2>2. pciDevices \in Seq(DOMAIN pci)
      BY <1>2, <2>1
    <2> QED BY <1>1, <1>2, <1>3, <1>4, <2>2, Zenon DEF ScanTyped
  <1>6. \A a : ~Behind(stack, checkedBuses, a)
    BY <1>2 DEF Behind
  <1>7. BusesChecked
    BY <1>2, <1>4, <1>6 DEF BusesChecked
  <1>8. \A a : ~InList(a) /\ ~Passed(a) /\ ~IsStarted(a)
    BY <1>2 DEF InList, Passed, IsStarted
  <1>9. DevicesListed /\ DevicesStarted
    BY <1>2, <1>6, <1>8 DEF DevicesListed, DevicesStarted
  <1> QED BY <1>5, <1>7, <1>9 DEF ScanInv

LEMMA BehindNext ==
    ASSUME PciSame, NEW st, NEW ch, stack' = st, checkedBuses' = ch
    PROVE  /\ StackOk(stack, checkedBuses)' <=> StackOk(st, ch)
           /\ \A a : Behind(stack, checkedBuses, a)' <=> Behind(st, ch, a)
  <1>1. \A call : InDevice(call)' = InDevice(call)
    BY SamePci DEF InDevice
  <1>2. StackOk(stack, checkedBuses)' <=> StackOk(st, ch)
    BY <1>1 DEF StackOk
  <1>3. \A a : Behind(stack, checkedBuses, a)' <=> Behind(st, ch, a)
    BY SamePci DEF Behind, Before
  <1> QED BY <1>2, <1>3

\* A step of the scan checks the buses B, which the closed sets hold, and passes
\* the functions N, which it lists.
Passes(st, ch, B, N) ==
    /\ B \in SUBSET Buses /\ N \in SUBSET DOMAIN pci
    /\ StackOk(st, ch) /\ ch = checkedBuses \cup B
    /\ \A a \in DOMAIN pci : (Behind(st, ch, a) <=> Behind(stack, checkedBuses, a) \/ a \in N)
    /\ \A a \in N : Kind(a) = BridgeClass => pci[a].secondary \in ch
    /\ \A S \in SUBSET Buses :
            Roots \subseteq S /\ ClosedBuses(S) /\ checkedBuses \subseteq S => B \subseteq S
ListsNew(N) ==
    \/ N = {} /\ pciDevices' = pciDevices
    \/ \E a \in DOMAIN pci : /\ N = {a} /\ ~Behind(stack, checkedBuses, a)
                             /\ pciDevices' = Append(pciDevices, a)

LEMMA ScanSteps ==
    ASSUME ScanInv, ~initialized, UNCHANGED <<pci, usb, started>>,
           NEW st, NEW ch, NEW B, NEW N, Passes(st, ch, B, N), ListsNew(N),
           stack' = st, checkedBuses' = ch,
           hosts' \in Seq(Roots), \A b : Waits(b) => Waits(b)' \/ b \in ch,
           initialized' \in BOOLEAN, initialized' => st = <<>> /\ hosts' = <<>>
    PROVE  ScanInv'
  <1> USE DEF ScanInv, Passes, ListsNew
  <1>1. PciSame
    BY DEF PciSame
  <1>2. /\ StackOk(stack, checkedBuses)' <=> StackOk(st, ch)
        /\ \A a : Behind(stack, checkedBuses, a)' <=> Behind(st, ch, a)
    BY <1>1, BehindNext
  <1>3. /\ DOMAIN pci' = DOMAIN pci /\ Roots' = Roots
        /\ \A a \in DOMAIN pci : Kind(a)' = Kind(a) /\ pci'[a].secondary = pci[a].secondary
        /\ \A S \in SUBSET Buses : ClosedBuses(S)' <=> ClosedBuses(S)
    BY <1>1, SamePci, SameBehind DEF PciSame
  <1>4. Machine'
    BY DEF Machine, ScanTyped
  <1>5. /\ pciDevices' \in Seq(DOMAIN pci)
        /\ \A a \in DOMAIN pci : (InList(a)' <=> InList(a) \/ a \in N)
        /\ \A i, j \in DOMAIN pciDevices' : pciDevices'[i] = pciDevices'[j] => i = j
    <2>1. CASE N = {} /\ pciDevices' = pciDevices
      BY <2>1 DEF ScanTyped, DevicesListed, InList
    <2>2. ASSUME NEW a \in DOMAIN pci, N = {a}, ~Behind(stack, checkedBuses, a),
                 pciDevices' = Append(pciDevices, a)
          PROVE  <1>5!1 /\ <1>5!2 /\ <1>5!3
      <3>0. PICK d \in Seq(DOMAIN pci) : d = pciDevices
        BY DEF ScanTyped
      <3>1. PICK d2 : d = pciDevices /\ d2 = Append(d, a)
        BY <3>0
      <3>2. PICK n \in Nat : n = Len(d) /\ DOMAIN d = 1 .. n
        BY <3>1
      <3>3. /\ d2 \in Seq(DOMAIN pci) /\ DOMAIN d2 = 1 .. n + 1 /\ d2[n + 1] = a
            /\ \A i \in 1 .. n : d2[i] = d[i]
        BY <3>1, <3>2
      <3>4. pciDevices' = d2
        BY <2>2, <3>1
      <3>5. \A i \in 1 .. n : d[i] # a
        BY <2>2, <3>1, <3>2 DEF DevicesListed, InList
      <3>6. \A i, j \in 1 .. n : d[i] = d[j] => i = j
        BY <3>1, <3>2 DEF DevicesListed
      <3>7. \A i \in 1 .. n + 1 : i \in 1 .. n \/ i = n + 1
        OBVIOUS
      <3>8. \A i, j \in 1 .. n + 1 : d2[i] = d2[j] => i = j
        BY <3>3, <3>5, <3>6, <3>7
      <3>9. ASSUME NEW e \in DOMAIN pci PROVE InList(e)' <=> InList(e) \/ e = a
        <4>1. InList(e)' <=> \E i \in 1 .. n + 1 : d2[i] = e
          BY <3>3, <3>4 DEF InList
        <4>2. InList(e) <=> \E i \in 1 .. n : d[i] = e
          BY <3>1, <3>2 DEF InList
        <4>3. 1 .. n \subseteq 1 .. n + 1 /\ n + 1 \in 1 .. n + 1
          OBVIOUS
        <4> QED BY <3>3, <3>7, <4>1, <4>2, <4>3
      <3> QED BY <2>2, <3>3, <3>4, <3>8, <3>9
    <2> QED BY <2>1, <2>2
  <1>6. ScanTyped'
    BY <1>2, <1>3, <1>4, <1>5 DEF ScanTyped
  <1>7. BusesChecked'
    <2>1. \A b \in Roots : b \in ch \/ Waits(b)'
      BY DEF BusesChecked
    <2>2. \A a \in DOMAIN pci : Behind(st, ch, a) /\ Kind(a) = BridgeClass
                                    => pci[a].secondary \in ch
      BY DEF BusesChecked
    <2>3. \A S \in SUBSET Buses : Roots \subseteq S /\ ClosedBuses(S) => ch \subseteq S
      BY DEF BusesChecked
    <2> QED BY <1>2, <1>3, <2>1, <2>2, <2>3 DEF BusesChecked
  <1>8. DevicesListed'
    <2>1. \A a \in DOMAIN pci : (Behind(st, ch, a) <=> InList(a)')
      BY <1>5 DEF DevicesListed
    <2> QED BY <1>2, <1>3, <1>5, <2>1 DEF DevicesListed
  <1>9. DevicesStarted'
    <2>1. usb = 0 /\ started = <<>> /\ usb # Done
      BY DEF DevicesStarted, Done
    <2>2. \A a : ~Passed(a)' /\ ~IsStarted(a)'
      <3>1. pciDevices' \in Seq(DOMAIN pci) /\ usb' = 0 /\ started' = <<>> /\ usb' # Done
        BY <1>5, <2>1
      <3> QED BY <3>1 DEF Passed, IsStarted, Done
    <2>3. /\ usb' = 0 /\ started' = <<>> /\ pciDevices' \in Seq(DOMAIN pci)
          /\ <<>> \in Seq(DOMAIN pci) /\ DOMAIN <<>> = {}
      BY <1>5, <2>1
    <2> QED BY <1>3, <2>2, <2>3 DEF DevicesStarted
  <1> QED BY <1>6, <1>7, <1>8, <1>9

LEMMA CheckFunctionKeeps == ScanInv /\ checkFunction => ScanInv'
  <1> SUFFICES ASSUME ScanInv, checkFunction PROVE ScanInv'
    OBVIOUS
  <1>1. Machine /\ StackOk(stack, checkedBuses) /\ stack \in Seq(CheckCalls) /\ checkedBuses \in SUBSET Buses
    BY DEF ScanInv, ScanTyped, StackOk
  <1>2. PICK n \in Nat \ {0} : n = Len(stack)
    BY <1>1 DEF checkFunction
  <1>3. PICK here : here = Here
    OBVIOUS
  <1>4. PICK next : next = [stack EXCEPT ![n] = Advanced(@)]
    OBVIOUS
  <1>5. here = Address(stack[n].bus, stack[n].device, stack[n].function) /\ stack[n].device < DeviceSlots
    BY <1>2, <1>3 DEF checkFunction, Here, Top
  <1>6. /\ StackOk(next, checkedBuses)
        /\ \A a \in DOMAIN pci : (Behind(next, checkedBuses, a)
                <=> Behind(stack, checkedBuses, a) \/ (a = here /\ Classified(here)))
        /\ ~Behind(stack, checkedBuses, here)
    <2>1. GoesOn(stack, n, next)
      BY <1>4 DEF GoesOn
    <2> QED BY <1>1, <1>2, <1>5, <2>1, StackAdvances
  <1>7. /\ UNCHANGED <<pci, hosts, initialized, usb, started>>
        /\ \/ /\ ~Classified(here)
              /\ stack' = next /\ UNCHANGED <<checkedBuses, pciDevices>>
           \/ /\ Classified(here) /\ pciDevices' = Append(pciDevices, here)
              /\ \/ Kind(here) = BridgeClass /\ checkBus(pci[here].secondary, next)
                 \/ Kind(here) # BridgeClass /\ stack' = next /\ UNCHANGED checkedBuses
    BY <1>2, <1>3, <1>4, Zenon DEF checkFunction
  <1>8. ~initialized /\ initialized' = FALSE
    <2>1. stack # <<>> /\ initialized' = initialized
      BY DEF checkFunction
    <2> QED BY <2>1 DEF ScanInv, ScanTyped
  <1>9. hosts' \in Seq(Roots) /\ \A b : Waits(b) => Waits(b)'
    BY <1>7 DEF ScanInv, ScanTyped, Waits
  <1>10. CASE ~Classified(here)
    <2>1. PICK ch : ch = checkedBuses /\ ch = checkedBuses \cup {}
      OBVIOUS
    <2>2. stack' = next /\ checkedBuses' = ch /\ pciDevices' = pciDevices /\ StackOk(next, ch)
      BY <1>6, <1>7, <1>10, <2>1
    <2>3. \A a \in DOMAIN pci : (Behind(next, ch, a) <=> Behind(stack, checkedBuses, a) \/ a \in {})
      BY <1>6, <1>10, <2>1
    <2>4. Passes(next, ch, {}, {}) /\ ListsNew({})
      BY <2>1, <2>2, <2>3 DEF Passes, ListsNew
    <2> QED BY <1>7, <1>8, <1>9, <2>2, <2>4, ScanSteps
  <1>11. CASE Classified(here)
    <2>1. here \in DOMAIN pci
      BY <1>11 DEF Classified, Present
    <2>2. pciDevices' = Append(pciDevices, here)
      BY <1>7, <1>11
    <2>3. CASE Kind(here) # BridgeClass
      <3>1. PICK ch : ch = checkedBuses /\ ch = checkedBuses \cup {}
        OBVIOUS
      <3>2. stack' = next /\ checkedBuses' = ch /\ StackOk(next, ch)
        BY <1>6, <1>7, <1>11, <2>3, <3>1
      <3>3. \A a \in DOMAIN pci : (Behind(next, ch, a) <=> Behind(stack, checkedBuses, a) \/ a \in {here})
        BY <1>6, <1>11, <3>1
      <3>4. Passes(next, ch, {}, {here}) /\ ListsNew({here})
        BY <1>6, <2>1, <2>2, <2>3, <3>1, <3>2, <3>3 DEF Passes, ListsNew
      <3> QED BY <1>7, <1>8, <1>9, <3>2, <3>4, ScanSteps
    <2>4. CASE Kind(here) = BridgeClass
      <3>1. PICK b \in Buses : b = pci[here].secondary
        BY <1>1, <2>1 DEF Machine, Function
      <3>2. PICK st, ch : st = stack' /\ ch = checkedBuses'
        OBVIOUS
      <3>3. \/ b \in checkedBuses /\ st = next /\ ch = checkedBuses
            \/ /\ b \notin checkedBuses /\ ch = checkedBuses \cup {b}
               /\ st = Append(next, Scan(b))
        BY <1>7, <1>11, <2>4, <3>1, <3>2 DEF checkBus
      <3>4. /\ StackOk(st, ch) /\ ch = checkedBuses \cup {b}
            /\ \A a \in DOMAIN pci : (Behind(st, ch, a) <=> Behind(next, checkedBuses, a))
        BY <1>1, <1>6, <3>3, BusChecked
      <3>5. \A a \in DOMAIN pci : (Behind(st, ch, a) <=> Behind(stack, checkedBuses, a) \/ a \in {here})
        BY <1>6, <1>11, <3>4
      <3>6. /\ \A a \in {here} : Kind(a) = BridgeClass => pci[a].secondary \in ch
            /\ {b} \in SUBSET Buses /\ {here} \in SUBSET DOMAIN pci
        BY <2>1, <3>1, <3>4
      <3>7. Listed(here) /\ here[1] \in checkedBuses
        <4>1. Behind(next, checkedBuses, here)
          BY <1>6, <1>11, <2>1
        <4> QED BY <4>1 DEF Behind
      <3>8. \A S \in SUBSET Buses :
                Roots \subseteq S /\ ClosedBuses(S) /\ checkedBuses \subseteq S => {b} \subseteq S
        BY <2>1, <2>4, <3>1, <3>7 DEF ClosedBuses, Listed
      <3>9. Passes(st, ch, {b}, {here}) /\ ListsNew({here})
        BY <1>6, <2>1, <2>2, <3>4, <3>5, <3>6, <3>8 DEF Passes, ListsNew
      <3> QED BY <1>7, <1>8, <1>9, <3>2, <3>9, ScanSteps
    <2> QED BY <2>3, <2>4
  <1> QED BY <1>10, <1>11

LEMMA ReturnBusKeeps == ScanInv /\ ReturnBus => ScanInv'
  <1> SUFFICES ASSUME ScanInv, ReturnBus PROVE ScanInv'
    OBVIOUS
  <1>1. Machine /\ StackOk(stack, checkedBuses) /\ stack \in Seq(CheckCalls) /\ checkedBuses \in SUBSET Buses
    BY DEF ScanInv, ScanTyped, StackOk
  <1>2. PICK n \in Nat \ {0} : n = Len(stack)
    BY <1>1 DEF ReturnBus
  <1>3. PICK st, ch : st = Front(stack) /\ ch = checkedBuses /\ ch = checkedBuses \cup {}
    OBVIOUS
  <1>4. /\ stack' = st /\ stack[n].device = DeviceSlots
        /\ UNCHANGED <<pci, hosts, checkedBuses, pciDevices, initialized, usb, started>>
    BY <1>2, <1>3 DEF ReturnBus, Top
  <1>5. /\ StackOk(st, ch)
        /\ \A a \in DOMAIN pci : (Behind(st, ch, a) <=> Behind(stack, checkedBuses, a) \/ a \in {})
    BY <1>1, <1>2, <1>3, <1>4, StackReturns
  <1>6. ~initialized /\ initialized' = FALSE
    <2>1. stack # <<>> /\ initialized' = initialized
      BY DEF ReturnBus
    <2> QED BY <2>1 DEF ScanInv, ScanTyped
  <1>7. hosts' \in Seq(Roots) /\ \A b : Waits(b) => Waits(b)'
    BY <1>4 DEF ScanInv, ScanTyped, Waits
  <1>8. Passes(st, ch, {}, {}) /\ ListsNew({})
    BY <1>3, <1>4, <1>5 DEF Passes, ListsNew
  <1> QED BY <1>3, <1>4, <1>6, <1>7, <1>8, ScanSteps

LEMMA InitializePciKeeps == ScanInv /\ initializePci => ScanInv'
  <1> SUFFICES ASSUME ScanInv, initializePci PROVE ScanInv'
    OBVIOUS
  <1>1. Machine /\ StackOk(stack, checkedBuses) /\ checkedBuses \in SUBSET Buses /\ hosts \in Seq(Roots)
    BY DEF ScanInv, ScanTyped, StackOk
  <1>2. stack = <<>> /\ ~initialized /\ UNCHANGED <<pci, pciDevices, usb, started>>
    BY DEF initializePci
  <1>3. PICK st, ch : st = stack' /\ ch = checkedBuses'
    OBVIOUS
  <1>4. CASE hosts # <<>> /\ checkBus(Head(hosts), <<>>) /\ hosts' = Tail(hosts) /\ UNCHANGED initialized
    <2>1. PICK h \in Seq(Roots), n \in Nat \ {0} : h = hosts /\ n = Len(h) /\ DOMAIN h = 1 .. n
      BY <1>1, <1>4
    <2>2. PICK t : t = Tail(h) /\ t \in Seq(Roots) /\ DOMAIN t = 1 .. n - 1
                   /\ \A i \in 1 .. n - 1 : t[i] = h[i + 1]
      <3>1. /\ Tail(h) \in Seq(Roots) /\ DOMAIN Tail(h) = 1 .. n - 1
            /\ \A i \in 1 .. n - 1 : Tail(h)[i] = h[i + 1]
        BY <2>1
      <3> QED BY <3>1
    <2>3. PICK b \in Roots : b = h[1] /\ b = Head(h)
      BY <2>1
    <2>4. b \in Buses /\ hosts' = t
      BY <1>4, <2>1, <2>2, RootsAre
    <2>5. \/ b \in checkedBuses /\ st = stack /\ ch = checkedBuses
          \/ /\ b \notin checkedBuses /\ ch = checkedBuses \cup {b}
             /\ st = Append(stack, Scan(b))
      BY <1>2, <1>3, <1>4, <2>1, <2>3 DEF checkBus
    <2>6. /\ StackOk(st, ch) /\ ch = checkedBuses \cup {b}
          /\ \A a \in DOMAIN pci : (Behind(st, ch, a) <=> Behind(stack, checkedBuses, a))
      BY <1>1, <2>4, <2>5, BusChecked
    <2>7. \A e : Waits(e) => Waits(e)' \/ e \in ch
      <3> SUFFICES ASSUME NEW e, NEW i \in 1 .. n, h[i] = e PROVE Waits(e)' \/ e \in ch
        BY <2>1 DEF Waits
      <3>1. CASE i = 1
        BY <2>3, <2>6, <3>1
      <3>2. CASE i # 1
        <4>1. i - 1 \in 1 .. n - 1 /\ t[i - 1] = e
          BY <2>2, <3>2
        <4> QED BY <2>2, <2>4, <4>1 DEF Waits
      <3> QED BY <3>1, <3>2
    <2>8. \A S \in SUBSET Buses :
                Roots \subseteq S /\ ClosedBuses(S) /\ checkedBuses \subseteq S => {b} \subseteq S
      BY <2>3
    <2>9. /\ {b} \in SUBSET Buses /\ {} \in SUBSET DOMAIN pci /\ initialized' = FALSE
          /\ \A a \in DOMAIN pci : (Behind(st, ch, a) <=> Behind(stack, checkedBuses, a) \/ a \in {})
      BY <1>2, <1>4, <2>4, <2>6 DEF ScanInv, ScanTyped
    <2>10. Passes(st, ch, {b}, {}) /\ ListsNew({})
      BY <1>2, <2>6, <2>8, <2>9 DEF Passes, ListsNew
    <2> QED BY <1>2, <1>3, <2>2, <2>4, <2>7, <2>9, <2>10, ScanSteps
  <1>5. CASE hosts = <<>> /\ initialized' = TRUE /\ UNCHANGED <<hosts, stack, checkedBuses>>
    <2>1. /\ StackOk(st, ch) /\ ch = checkedBuses \cup {} /\ st = <<>>
          /\ \A a \in DOMAIN pci : (Behind(st, ch, a) <=> Behind(stack, checkedBuses, a) \/ a \in {})
      BY <1>1, <1>2, <1>3, <1>5
    <2>2. hosts' \in Seq(Roots) /\ hosts' = <<>> /\ \A b : Waits(b) => Waits(b)'
      BY <1>1, <1>5 DEF Waits
    <2>3. Passes(st, ch, {}, {}) /\ ListsNew({})
      BY <1>2, <2>1 DEF Passes, ListsNew
    <2> QED BY <1>2, <1>3, <1>5, <2>1, <2>2, <2>3, ScanSteps
  <1>6. QED BY <1>4, <1>5 DEF initializePci

LEMMA ScanKept ==
    ASSUME ScanInv, PciSame, Machine', UNCHANGED <<stack, hosts, checkedBuses, pciDevices, initialized>>
    PROVE  ScanTyped' /\ BusesChecked' /\ DevicesListed'
  <1> USE DEF ScanInv
  <1>1. PICK st, ch : st = stack /\ ch = checkedBuses /\ st = stack' /\ ch = checkedBuses'
    OBVIOUS
  <1>2. /\ StackOk(stack, checkedBuses)' <=> StackOk(st, ch)
        /\ \A a : Behind(stack, checkedBuses, a)' <=> Behind(st, ch, a)
    BY <1>1, BehindNext
  <1>3. /\ DOMAIN pci' = DOMAIN pci /\ Roots' = Roots
        /\ \A a \in DOMAIN pci : Kind(a)' = Kind(a) /\ pci'[a].secondary = pci[a].secondary
        /\ \A S \in SUBSET Buses : ClosedBuses(S)' <=> ClosedBuses(S)
    BY SamePci, SameBehind DEF PciSame
  <1>4. ScanTyped'
    BY <1>1, <1>2, <1>3 DEF ScanTyped
  <1>5. BusesChecked'
    <2>1. \A b : Waits(b)' <=> Waits(b)
      BY DEF Waits
    <2>2. /\ \A b \in Roots : b \in ch \/ Waits(b)
          /\ \A a \in DOMAIN pci : Behind(st, ch, a) /\ Kind(a) = BridgeClass
                                    => pci[a].secondary \in ch
          /\ \A S \in SUBSET Buses : Roots \subseteq S /\ ClosedBuses(S) => ch \subseteq S
      BY <1>1 DEF BusesChecked
    <2> QED BY <1>1, <1>2, <1>3, <2>1, <2>2 DEF BusesChecked
  <1>6. DevicesListed'
    <2>1. \A a : InList(a)' <=> InList(a)
      BY DEF InList
    <2> QED BY <1>1, <1>2, <1>3, <2>1 DEF DevicesListed
  <1> QED BY <1>4, <1>5, <1>6

LEMMA StutterKeeps == ScanInv /\ UNCHANGED pciVars => ScanInv'
  <1> SUFFICES ASSUME ScanInv, UNCHANGED pciVars PROVE ScanInv'
    OBVIOUS
  <1>1. /\ PciSame /\ UNCHANGED <<stack, hosts, checkedBuses, pciDevices, initialized>>
        /\ UNCHANGED <<pci, usb, started>>
    BY DEF pciVars, PciSame
  <1>2. Machine'
    BY <1>1 DEF ScanInv, ScanTyped, Machine
  <1>3. DevicesStarted'
    <2>1. \A a : (Passed(a)' <=> Passed(a)) /\ (IsStarted(a)' <=> IsStarted(a)) /\ Kind(a)' = Kind(a)
      BY <1>1 DEF Passed, IsStarted, Kind
    <2> QED BY <1>1, <2>1 DEF ScanInv, DevicesStarted
  <1> QED BY <1>1, <1>2, <1>3, ScanKept DEF ScanInv

\* Every device id has a class: the first id without is the end of the list.
LEMMA ListHasClasses ==
    ASSUME ScanInv, NEW id \in Nat, id <= Len(pciDevices)
    PROVE  /\ getDeviceClass(id).class = 0 <=> id = Len(pciDevices)
           /\ id < Len(pciDevices) => /\ pciDevices[id + 1] \in DOMAIN pci
                                      /\ getDeviceClass(id) = Kind(pciDevices[id + 1])
  <1>1. pciDevices \in Seq(DOMAIN pci)
    BY DEF ScanInv, ScanTyped
  <1>2. CASE id = Len(pciDevices)
    BY <1>1, <1>2 DEF getDeviceClass
  <1>3. CASE id < Len(pciDevices)
    <2>1. PICK a \in DOMAIN pci : a = pciDevices[id + 1] /\ id + 1 \in DOMAIN pciDevices
      BY <1>1, <1>3
    <2>2. InList(a)
      BY <2>1 DEF InList
    <2>3. Classified(a)
      BY <2>2 DEF ScanInv, DevicesListed, Behind, Listed
    <2>4. getDeviceClass(id) = Kind(a) /\ Kind(a).class # 0
      BY <1>1, <1>3, <2>1, <2>3 DEF getDeviceClass, Kind, Classified
    <2> QED BY <1>3, <2>1, <2>4
  <1> QED BY <1>1, <1>2, <1>3

LEMMA UsbInitializeKeeps == ScanInv /\ usbInitialize => ScanInv'
  <1> SUFFICES ASSUME ScanInv, usbInitialize PROVE ScanInv'
    OBVIOUS
  <1>1. PICK n \in Nat, d \in Seq(DOMAIN pci) : d = pciDevices /\ n = Len(d) /\ DOMAIN d = 1 .. n
    BY DEF ScanInv, ScanTyped
  <1>2. /\ initialized /\ usb # Done /\ usb \in Nat /\ usb <= n /\ started \in Seq(DOMAIN pci)
        /\ UNCHANGED <<stack, hosts, checkedBuses, pciDevices, initialized>>
        /\ Machine
    BY <1>1 DEF usbInitialize, ScanInv, ScanTyped, DevicesStarted, Done
  <1>3. /\ getDeviceClass(usb).class = 0 <=> usb = n
        /\ usb < n => d[usb + 1] \in DOMAIN pci /\ getDeviceClass(usb) = Kind(d[usb + 1])
    BY <1>1, <1>2, ListHasClasses
  <1>4. CASE getDeviceClass(usb).class = 0 /\ usb' = Done /\ UNCHANGED <<pci, started>>
    <2>1. PciSame /\ Machine' /\ usb = n
      BY <1>2, <1>3, <1>4 DEF PciSame, Machine
    <2>2. \A a : Passed(a)' <=> Passed(a)
      BY <1>1, <1>2, <1>4, <2>1 DEF Passed
    <2>3. \A a : (IsStarted(a)' <=> IsStarted(a)) /\ Kind(a)' = Kind(a)
      BY <1>4 DEF IsStarted, Kind
    <2>4. DevicesStarted'
      BY <1>2, <1>4, <2>2, <2>3 DEF ScanInv, DevicesStarted
    <2> QED BY <1>2, <2>1, <2>4, ScanKept DEF ScanInv
  <1>5. CASE getDeviceClass(usb).class # 0 /\ usb' = usb + 1
    <2>1. PICK a \in DOMAIN pci : /\ usb < n /\ a = d[usb + 1] /\ a = pciDevices[usb + 1]
                                  /\ getDeviceClass(usb) = Kind(a)
      BY <1>1, <1>2, <1>3, <1>5
    <2>2. usb' # Done /\ usb' \in Nat /\ usb' <= n
      BY <1>2, <1>5, <2>1 DEF Done
    <2>3. \A e : Passed(e)' <=> Passed(e) \/ e = a
      <3>1. \A e : Passed(e)' <=> \E i \in 1 .. n : i <= usb + 1 /\ d[i] = e
        BY <1>1, <1>2, <1>5, <2>2 DEF Passed
      <3>2. \A e : Passed(e) <=> \E i \in 1 .. n : i <= usb /\ d[i] = e
        BY <1>1, <1>2 DEF Passed
      <3>3. \A i \in 1 .. n : i <= usb + 1 <=> i <= usb \/ i = usb + 1
        BY <1>2
      <3>4. usb + 1 \in 1 .. n /\ \A i \in 1 .. n : i <= usb => i <= usb + 1
        BY <1>2, <2>1
      <3>5. \A e : Passed(e)' => Passed(e) \/ e = a
        BY <2>1, <3>1, <3>2, <3>3
      <3>6. \A e : Passed(e) => Passed(e)'
        BY <3>1, <3>2, <3>4
      <3>7. \A e : e = a => Passed(e)'
        <4>1. PICK k \in 1 .. n : k = usb + 1
          BY <3>4
        <4>2. k <= usb + 1
          BY <1>2, <4>1
        <4>3. d[k] = a
          BY <2>1, <4>1, Zenon
        <4> QED BY <3>1, <4>1, <4>2, <4>3
      <3> QED BY <3>5, <3>6, <3>7
    <2>4. \/ Kind(a) = XhciClass /\ enableBusMaster(usb) /\ started' = Append(started, a)
          \/ Kind(a) # XhciClass /\ UNCHANGED <<pci, started>>
      <3>1. \/ /\ getDeviceClass(usb) = XhciClass /\ enableBusMaster(usb)
               /\ started' = Append(started, pciDevices[usb + 1])
            \/ getDeviceClass(usb) # XhciClass /\ UNCHANGED <<pci, started>>
        BY <1>5, Zenon DEF usbInitialize
      <3> QED BY <2>1, <3>1
    <2>5. CASE Kind(a) # XhciClass /\ UNCHANGED <<pci, started>>
      <3>1. PciSame /\ Machine'
        BY <1>2, <2>5 DEF PciSame, Machine
      <3>2. \A e : (IsStarted(e)' <=> IsStarted(e)) /\ Kind(e)' = Kind(e)
        BY <2>5 DEF IsStarted, Kind
      <3>3. DevicesStarted'
        BY <1>1, <1>2, <2>2, <2>3, <2>5, <3>2 DEF ScanInv, DevicesStarted
      <3> QED BY <1>2, <3>1, <3>3, ScanKept DEF ScanInv
    <2>6. CASE Kind(a) = XhciClass /\ enableBusMaster(usb) /\ started' = Append(started, a)
      <3>1. PICK p : p = [pci EXCEPT ![a].master = TRUE]
        OBVIOUS
      <3>2. /\ DOMAIN p = DOMAIN pci /\ p[a] = [pci[a] EXCEPT !.master = TRUE]
            /\ \A e \in DOMAIN pci : e # a => p[e] = pci[e]
        BY <3>1
      <3>3. pci' = p
        BY <2>1, <2>6, <3>1 DEF enableBusMaster
      <3>4. pci[a] \in Function
        BY <1>2 DEF Machine
      <3>5. PICK q : q = [pci[a] EXCEPT !.master = TRUE]
        OBVIOUS
      <3>6. /\ q \in Function /\ q.class = pci[a].class /\ q.subclass = pci[a].subclass
            /\ q.multi = pci[a].multi /\ q.secondary = pci[a].secondary /\ q.master
        BY <3>4, <3>5 DEF Function
      <3>7. pci'[a] = q /\ DOMAIN pci' = DOMAIN pci /\ \A e \in DOMAIN pci : e # a => pci'[e] = pci[e]
        BY <3>2, <3>3, <3>5
      <3>8. PciSame /\ Machine'
        BY <1>2, <3>6, <3>7 DEF PciSame, Machine
      <3>9. PICK s2 : s2 = Append(started, a)
        OBVIOUS
      <3>10. PICK m \in Nat : m = Len(started) /\ DOMAIN started = 1 .. m
        BY <1>2
      <3>11. /\ s2 \in Seq(DOMAIN pci) /\ DOMAIN s2 = 1 .. m + 1 /\ s2[m + 1] = a
             /\ \A i \in 1 .. m : s2[i] = started[i]
        BY <1>2, <3>9, <3>10
      <3>12. started' = s2 /\ \A i \in 1 .. m + 1 : i \in 1 .. m \/ i = m + 1
        BY <2>6, <3>9
      <3>13. \A e : IsStarted(e)' <=> IsStarted(e) \/ e = a
        <4>1. \A e : IsStarted(e)' <=> \E i \in 1 .. m + 1 : s2[i] = e
          BY <3>11, <3>12 DEF IsStarted
        <4>2. \A e : IsStarted(e) <=> \E i \in 1 .. m : started[i] = e
          BY <3>10 DEF IsStarted
        <4>3. 1 .. m \subseteq 1 .. m + 1 /\ m + 1 \in 1 .. m + 1
          OBVIOUS
        <4> QED BY <3>11, <3>12, <4>1, <4>2, <4>3
      <3>14. \A i \in 1 .. m + 1 : pci'[s2[i]].master
        <4>1. \A i \in 1 .. m : started[i] \in DOMAIN pci /\ pci[started[i]].master
          BY <1>2, <3>10 DEF ScanInv, DevicesStarted
        <4> QED BY <3>6, <3>7, <3>11, <3>12, <4>1
      <3>15. \A e \in DOMAIN pci : Kind(e)' = Kind(e)
        BY <3>8, SamePci
      <3>16. DevicesStarted'
        <4>1. \A e \in DOMAIN pci : (IsStarted(e)' <=> Passed(e)' /\ Kind(e)' = XhciClass)
          BY <2>3, <2>6, <3>13, <3>15 DEF ScanInv, DevicesStarted
        <4> QED BY <1>1, <1>2, <2>2, <3>7, <3>11, <3>12, <3>14, <4>1 DEF DevicesStarted
      <3> QED BY <1>2, <3>8, <3>16, ScanKept DEF ScanInv
    <2> QED BY <2>4, <2>5, <2>6
  <1>6. \/ getDeviceClass(usb).class = 0 /\ usb' = Done /\ UNCHANGED <<pci, started>>
        \/ getDeviceClass(usb).class # 0 /\ usb' = usb + 1
    BY Zenon DEF usbInitialize
  <1> QED BY <1>4, <1>5, <1>6

\* The scan and the usb service keep the invariant, for every machine.
THEOREM ScanInvariant == PciSpec => []ScanInv
  <1>1. ScanInv /\ [PciNext]_pciVars => ScanInv'
    BY CheckFunctionKeeps, ReturnBusKeeps, InitializePciKeeps, UsbInitializeKeeps, StutterKeeps
    DEF PciNext
  <1> QED BY <1>1, ScanStarts, PTL DEF PciSpec

-----------------------------------------------------------------------------
\* Reachable is the least closed set of buses that holds the first ones.

\* A set of numbers that holds 0 and the successors of its elements is Nat.
LEMMA Reaches ==
    ASSUME NEW S \in SUBSET Nat, 0 \in S, \A n \in S : n + 1 \in S
    PROVE  S = Nat
  <1>1. SUFFICES ASSUME Nat \ S # {} PROVE FALSE
    OBVIOUS
  <1>2. PICK m \in Nat \ S : \A n \in Nat \ S : m <= n
    BY <1>1, LeastNatural
  <1>3. m # 0 /\ m - 1 \in Nat /\ m - 1 \in S /\ (m - 1) + 1 = m
    BY <1>2
  <1> QED BY <1>2, <1>3

\* The buses of S and those behind their bridges, step by step from the first.
Leads(S) ==
    S \cup {pci[a].secondary : a \in {a \in DOMAIN pci :
                Answers(a) /\ Kind(a) = BridgeClass /\ a[1] \in S}}
Within(f, m) == f = [n \in 0 .. m |-> IF n = 0 THEN Roots ELSE Leads(f[n - 1])]

LEMMA WithinExists ==
    ASSUME NEW k \in Nat
    PROVE  \E f : Within(f, k)
  <1> DEFINE S == {m \in Nat : \E f : Within(f, m)}
  <1>1. 0 \in S
    <2>1. PICK f : f = [n \in 0 .. 0 |-> Roots]
      OBVIOUS
    <2>2. Within(f, 0)
      BY <2>1 DEF Within
    <2> QED BY <2>2
  <1>2. ASSUME NEW m \in S PROVE m + 1 \in S
    <2>1. PICK f : Within(f, m)
      OBVIOUS
    <2>2. \A n \in 0 .. m : f[n] = IF n = 0 THEN Roots ELSE Leads(f[n - 1])
      BY <2>1 DEF Within
    <2>3. PICK g : g = [n \in 0 .. m + 1 |-> IF n = m + 1 THEN Leads(f[m]) ELSE f[n]]
      OBVIOUS
    <2>4. PICK h : h = [n \in 0 .. m + 1 |-> IF n = 0 THEN Roots ELSE Leads(g[n - 1])]
      OBVIOUS
    <2>5. ASSUME NEW n \in 0 .. m + 1 PROVE g[n] = h[n]
      <3>1. CASE n = m + 1
        <4>1. n - 1 = m /\ n # 0 /\ m \in 0 .. m + 1 /\ m # m + 1
          BY <3>1
        <4> QED BY <2>3, <2>4, <2>5, <3>1, <4>1
      <3>2. CASE n # m + 1 /\ n # 0
        <4>1. n \in 0 .. m /\ n - 1 \in 0 .. m + 1 /\ n - 1 # m + 1 /\ n - 1 \in 0 .. m
          BY <3>2
        <4> QED BY <2>2, <2>3, <2>4, <3>2, <4>1
      <3>3. CASE n = 0
        <4>1. n \in 0 .. m /\ n # m + 1
          BY <3>3
        <4> QED BY <2>2, <2>3, <2>4, <3>3, <4>1
      <3> QED BY <3>1, <3>2, <3>3
    <2>6. g = h
      BY <2>3, <2>4, <2>5
    <2>7. Within(g, m + 1)
      BY <2>4, <2>6 DEF Within
    <2> QED BY <2>7
  <1>3. S = Nat
    <2> HIDE DEF S
    <2>1. S \in SUBSET Nat
      BY DEF S
    <2> QED BY <1>1, <1>2, <2>1, Reaches
  <1> QED BY <1>3

LEMMA ReachableWithin ==
    ASSUME NEW m \in Nat, m = Cardinality(Buses)
    PROVE  \E f : Within(f, m) /\ Reachable = f[m]
  <1>1. \E f : Within(f, m)
    BY WithinExists
  <1> DEFINE step == CHOOSE f : Within(f, m)
  <1>2. Within(step, m)
    BY <1>1, Zenon
  <1>3. Reachable = step[m]
    BY DEF Reachable, Within, Roots, Leads
  <1> QED BY <1>2, <1>3

LEMMA LeadsIs ==
    ASSUME Machine, NEW S \in SUBSET Buses
    PROVE  /\ S \subseteq Leads(S) /\ Leads(S) \in SUBSET Buses
           /\ ClosedBuses(S) => Leads(S) = S
           /\ ~ClosedBuses(S) => Leads(S) # S
           /\ \A X : S \subseteq X /\ ClosedBuses(X) => Leads(S) \subseteq X
  <1>1. \A a \in DOMAIN pci : pci[a].secondary \in Buses
    BY DEF Machine, Function
  <1>2. S \subseteq Leads(S) /\ Leads(S) \in SUBSET Buses
    BY <1>1 DEF Leads
  <1>3. \A X : S \subseteq X /\ ClosedBuses(X) => Leads(S) \subseteq X
    BY DEF Leads, ClosedBuses
  <1>4. ~ClosedBuses(S) => Leads(S) # S
    BY DEF Leads, ClosedBuses
  <1> QED BY <1>2, <1>3, <1>4

LEMMA ReachableIs ==
    ASSUME Machine
    PROVE  /\ Roots \subseteq Reachable /\ Reachable \in SUBSET Buses /\ ClosedBuses(Reachable)
           /\ \A S : Roots \subseteq S /\ ClosedBuses(S) => Reachable \subseteq S
  <1>0. IsFiniteSet(Buses)
    BY PciAssumption
  <1>1. PICK N \in Nat : N = Cardinality(Buses)
    BY <1>0, FS_CardinalityType
  <1>2. PICK f : Within(f, N) /\ Reachable = f[N]
    BY <1>1, ReachableWithin
  <1>3. \A n \in 0 .. N : f[n] = IF n = 0 THEN Roots ELSE Leads(f[n - 1])
    BY <1>2 DEF Within
  <1>4. ASSUME NEW n \in Nat, n + 1 <= N PROVE f[n + 1] = Leads(f[n])
    <2>1. n + 1 \in 0 .. N /\ n + 1 # 0 /\ (n + 1) - 1 = n
      BY <1>4
    <2> QED BY <1>3, <2>1
  <1>5. f[0] = Roots /\ 0 \in Roots /\ Roots \subseteq Buses
    BY <1>3, RootsAre, SizesAre DEF Roots
  <1> DEFINE Good(n) == /\ Roots \subseteq f[n] /\ f[n] \in SUBSET Buses
                        /\ \A S : Roots \subseteq S /\ ClosedBuses(S) => f[n] \subseteq S
                        /\ ClosedBuses(f[n]) \/ Cardinality(f[n]) > n
             T == {n \in Nat : n <= N => Good(n)}
  <1>6. 0 \in T
    <2>1. IsFiniteSet(Roots) /\ {0} \in SUBSET Roots
      BY <1>0, <1>5, FS_Subset
    <2>2. Cardinality({0}) = 1 /\ Cardinality({0}) <= Cardinality(Roots) /\ Cardinality(Roots) \in Nat
      BY <2>1, FS_Singleton, FS_Subset, FS_CardinalityType
    <2> QED BY <1>5, <2>2
  <1>7. ASSUME NEW n \in T PROVE n + 1 \in T
    <2>1. SUFFICES ASSUME n + 1 <= N PROVE Good(n + 1)
      OBVIOUS
    <2>2. PICK A, B : A = f[n] /\ B = f[n + 1]
      OBVIOUS
    <2>3. n \in Nat /\ n <= N /\ Good(n)
      BY <2>1
    <2>4. B = Leads(A) /\ A \in SUBSET Buses
      BY <1>4, <2>1, <2>2, <2>3
    <2>5. /\ A \subseteq B /\ B \in SUBSET Buses
          /\ ClosedBuses(A) => B = A
          /\ ~ClosedBuses(A) => B # A
          /\ \A X : A \subseteq X /\ ClosedBuses(X) => B \subseteq X
      BY <2>4, LeadsIs
    <2>6. ClosedBuses(B) \/ Cardinality(B) > n + 1
      <3>1. CASE ClosedBuses(A)
        BY <2>5, <3>1
      <3>2. CASE ~ClosedBuses(A)
        <4>1. Cardinality(A) > n
          BY <2>2, <2>3, <3>2
        <4>2. IsFiniteSet(B)
          BY <1>0, <2>5, FS_Subset
        <4>3. A \in SUBSET B /\ A # B
          BY <2>5, <3>2
        <4>4. IsFiniteSet(A) /\ Cardinality(A) <= Cardinality(B) /\ Cardinality(A) # Cardinality(B)
          BY <4>2, <4>3, FS_Subset
        <4>5. Cardinality(A) \in Nat /\ Cardinality(B) \in Nat
          BY <4>2, <4>4, FS_CardinalityType
        <4> QED BY <2>3, <4>1, <4>4, <4>5
      <3> QED BY <3>1, <3>2
    <2>7. Roots \subseteq B /\ \A S : Roots \subseteq S /\ ClosedBuses(S) => B \subseteq S
      BY <2>2, <2>3, <2>5
    <2> QED BY <2>2, <2>5, <2>6, <2>7
  <1>8. Good(N)
    <2> HIDE DEF T
    <2>1. T \in SUBSET Nat
      BY DEF T
    <2>2. T = Nat
      BY <1>6, <1>7, <2>1, Reaches
    <2> QED BY <2>2 DEF T
  <1>9. ClosedBuses(f[N])
    <2>1. PICK A : A = f[N]
      OBVIOUS
    <2>2. A \in SUBSET Buses
      BY <1>8, <2>1
    <2>3. IsFiniteSet(A) /\ Cardinality(A) <= N
      BY <1>0, <1>1, <2>2, FS_Subset
    <2>4. Cardinality(A) \in Nat
      BY <2>3, FS_CardinalityType
    <2> QED BY <1>8, <2>1, <2>3, <2>4
  <1> QED BY <1>2, <1>8, <1>9

-----------------------------------------------------------------------------
\* The end of the scan.
LEMMA DoneScanIsComplete == ScanInv => ScanComplete
  <1> SUFFICES ASSUME ScanInv PROVE ScanComplete
    OBVIOUS
  <1>1. /\ Machine /\ checkedBuses \in SUBSET Buses /\ pciDevices \in Seq(DOMAIN pci)
        /\ started \in Seq(DOMAIN pci)
    BY DEF ScanInv, ScanTyped, StackOk, DevicesStarted
  <1>2. \A a : (a \in ToSet(pciDevices) <=> InList(a)) /\ (a \in ToSet(started) <=> IsStarted(a))
    BY DEF ToSet, InList, IsStarted
  <1>3. \A a : InList(a) => a \in DOMAIN pci
    BY <1>1 DEF InList
  <1>4. \A a : IsStarted(a) => a \in DOMAIN pci
    BY <1>1 DEF IsStarted
  <1>5. ASSUME initialized
        PROVE  /\ IsInjective(pciDevices)
               /\ ToSet(pciDevices) = {a \in DOMAIN pci :
                        Answers(a) /\ a[1] \in Reachable /\ Classified(a)}
    <2>1. stack = <<>> /\ hosts = <<>>
      BY <1>5 DEF ScanInv, ScanTyped
    <2>2. \A a : Behind(stack, checkedBuses, a) <=> a[1] \in checkedBuses /\ Listed(a)
      BY <2>1 DEF Behind
    <2>3. Roots \subseteq checkedBuses
      BY <2>1 DEF ScanInv, BusesChecked, Waits
    <2>4. ClosedBuses(checkedBuses)
      <3> SUFFICES ASSUME NEW a \in DOMAIN pci, Answers(a), Kind(a) = BridgeClass, a[1] \in checkedBuses
                   PROVE  pci[a].secondary \in checkedBuses
        BY DEF ClosedBuses
      <3>1. Classified(a)
        BY DEF Kind, BridgeClass, Classified, Present
      <3> QED BY <2>2, <3>1 DEF ScanInv, BusesChecked, Listed
    <2>5. checkedBuses = Reachable
      <3>1. Reachable \subseteq checkedBuses
        BY <1>1, <2>3, <2>4, ReachableIs
      <3>2. checkedBuses \subseteq Reachable
        BY <1>1, ReachableIs DEF ScanInv, BusesChecked
      <3> QED BY <3>1, <3>2
    <2>6. \A a \in DOMAIN pci : (InList(a) <=> Answers(a) /\ a[1] \in Reachable /\ Classified(a))
      BY <2>2, <2>5 DEF ScanInv, DevicesListed, Listed
    <2>7. IsInjective(pciDevices)
      BY DEF ScanInv, DevicesListed, IsInjective
    <2> QED BY <1>2, <1>3, <2>6, <2>7
  <1>6. ASSUME usb = Done
        PROVE  /\ ToSet(started) = {a \in ToSet(pciDevices) : Kind(a) = XhciClass}
               /\ \A a \in ToSet(started) : pci[a].master
    <2>1. \A a : Passed(a) <=> InList(a)
      BY <1>6 DEF Passed, InList
    <2>2. \A a \in DOMAIN pci : (IsStarted(a) <=> InList(a) /\ Kind(a) = XhciClass)
      BY <2>1 DEF ScanInv, DevicesStarted
    <2>3. \A a : IsStarted(a) => pci[a].master
      BY DEF ScanInv, DevicesStarted, IsStarted
    <2> QED BY <1>2, <1>3, <1>4, <2>2, <2>3
  <1> QED BY <1>5, <1>6 DEF ScanComplete, FoundOnce, ControllersStarted

\* However the bridges are connected, the scan lists every function with a class
\* on the buses it can reach once, and the usb service starts every controller
\* of the list with bus mastering switched on.
THEOREM ScanFinds == PciSpec => []ScanComplete
  <1>1. ScanInv => ScanComplete
    BY DoneScanIsComplete
  <1> QED BY <1>1, ScanInvariant, PTL

-----------------------------------------------------------------------------
\* The set-up of a storage device. The walk visits the first interface.
On(X) == X \cup {NextInterface(i) : i \in X \cap DOMAIN descriptors}
Visits(f, m) == f = [n \in 1 .. m |-> IF n = 1 THEN {2} ELSE On(f[n - 1])]

LEMMA VisitsExist ==
    ASSUME NEW k \in Nat
    PROVE  \E f : Visits(f, k + 1)
  <1> DEFINE S == {m \in Nat : \E f : Visits(f, m + 1)}
  <1>1. 0 \in S
    <2>1. PICK f : f = [n \in 1 .. 1 |-> {2}]
      OBVIOUS
    <2>2. PICK g : g = [n \in 1 .. 1 |-> IF n = 1 THEN {2} ELSE On(f[n - 1])]
      OBVIOUS
    <2>3. f = g
      BY <2>1, <2>2
    <2>4. Visits(f, 1)
      BY <2>2, <2>3 DEF Visits
    <2> QED BY <2>4
  <1>2. ASSUME NEW m \in S PROVE m + 1 \in S
    <2>1. PICK f : Visits(f, m + 1)
      OBVIOUS
    <2>2. \A n \in 1 .. m + 1 : f[n] = IF n = 1 THEN {2} ELSE On(f[n - 1])
      BY <2>1 DEF Visits
    <2>3. PICK g : g = [n \in 1 .. m + 2 |-> IF n = m + 2 THEN On(f[m + 1]) ELSE f[n]]
      OBVIOUS
    <2>4. PICK h : h = [n \in 1 .. m + 2 |-> IF n = 1 THEN {2} ELSE On(g[n - 1])]
      OBVIOUS
    <2>5. ASSUME NEW n \in 1 .. m + 2 PROVE g[n] = h[n]
      <3>1. CASE n = m + 2
        <4>1. n - 1 = m + 1 /\ n # 1 /\ m + 1 \in 1 .. m + 2 /\ m + 1 # m + 2
          BY <3>1
        <4> QED BY <2>3, <2>4, <2>5, <3>1, <4>1
      <3>2. CASE n # m + 2 /\ n # 1
        <4>1. n \in 1 .. m + 1 /\ n - 1 \in 1 .. m + 2 /\ n - 1 # m + 2 /\ n - 1 \in 1 .. m + 1
          BY <3>2
        <4> QED BY <2>2, <2>3, <2>4, <3>2, <4>1
      <3>3. CASE n = 1
        <4>1. n \in 1 .. m + 1 /\ n # m + 2
          BY <3>3
        <4> QED BY <2>2, <2>3, <2>4, <3>3, <4>1
      <3> QED BY <3>1, <3>2, <3>3
    <2>6. g = h
      BY <2>3, <2>4, <2>5
    <2>7. Visits(g, m + 2)
      BY <2>4, <2>6 DEF Visits
    <2>8. (m + 1) + 1 = m + 2
      OBVIOUS
    <2> QED BY <2>7, <2>8
  <1>3. S = Nat
    <2> HIDE DEF S
    <2>1. S \in SUBSET Nat
      BY DEF S
    <2> QED BY <1>1, <1>2, <2>1, Reaches
  <1> QED BY <1>3

LEMMA ConfigurationIs ==
    ASSUME NEW d \in Configurations
    PROVE  /\ d \in Seq(Descriptor) /\ Len(d) \in Nat /\ Len(d) >= 2
           /\ d[2] \in Descriptor /\ d[2].type = INTERFACE
           /\ d[2].kind \in Nat \X Nat \X Nat /\ d[2].count \in Nat
           /\ \E j \in 3 .. Len(d) + 1 : EndsAt(d, 2, j)
           /\ d[2].kind[1] = MassStorage =>
                \E e, f \in DOMAIN d : /\ FirstTwo(d, e, f) /\ d[2].count >= 2
                                       /\ d[2].kind = BulkOnly => d[e].in # d[f].in
  <1>1. /\ d \in Seq(Descriptor) /\ Len(d) >= 2 /\ d[2].type = INTERFACE
        /\ \E j \in 3 .. Len(d) + 1 : EndsAt(d, 2, j)
        /\ d[2].kind[1] = MassStorage =>
                \E e, f \in DOMAIN d : /\ FirstTwo(d, e, f) /\ d[2].count >= 2
                                       /\ d[2].kind = BulkOnly => d[e].in # d[f].in
    BY StorageAssumption DEF StorageAssumption
  <1>2. d[2] \in Descriptor
    BY <1>1
  <1>3. d[2].kind \in Nat \X Nat \X Nat /\ d[2].count \in Nat
    BY <1>1, <1>2 DEF Descriptor, INTERFACE, ENDPOINT
  <1> QED BY <1>1, <1>2, <1>3

LEMMA FirstVisited ==
    ASSUME descriptors \in Configurations
    PROVE  2 \in Interfaces /\ Interfaces \subseteq 2 .. Len(descriptors)
  <1>1. PICK k \in Nat : Len(descriptors) = k + 1 /\ k >= 1
    <2>1. PICK m \in Nat : m = Len(descriptors) /\ m >= 2
      BY ConfigurationIs
    <2>2. m - 1 \in Nat /\ m = (m - 1) + 1 /\ m - 1 >= 1
      BY <2>1
    <2> QED BY <2>1, <2>2
  <1>2. \E f : Visits(f, k + 1)
    BY VisitsExist
  <1> DEFINE visited == CHOOSE f : Visits(f, Len(descriptors))
  <1>3. Visits(visited, k + 1)
    BY <1>1, <1>2, Zenon
  <1>4. Interfaces = visited[k + 1] \cap 2 .. Len(descriptors)
    BY <1>1 DEF Interfaces, Visits, On
  <1> HIDE DEF visited
  <1>5. /\ visited[1] = {2}
        /\ \A n \in Nat : n + 2 <= k + 1 => visited[n + 1] \subseteq visited[n + 2]
    <2>1. \A n \in 1 .. k + 1 : visited[n] = IF n = 1 THEN {2} ELSE On(visited[n - 1])
      BY <1>3 DEF Visits
    <2>2. visited[1] = {2}
      BY <2>1
    <2>3. ASSUME NEW n \in Nat, n + 2 <= k + 1 PROVE visited[n + 1] \subseteq visited[n + 2]
      <3>1. n + 2 \in 1 .. k + 1 /\ (n + 2) - 1 = n + 1 /\ n + 2 # 1
        BY <2>3
      <3>2. visited[n + 2] = On(visited[n + 1])
        BY <2>1, <3>1
      <3> QED BY <3>2 DEF On
    <2> QED BY <2>2, <2>3
  <1> DEFINE T == {n \in Nat : n + 1 <= k + 1 => 2 \in visited[n + 1]}
  <1>6. 0 \in T
    BY <1>5
  <1>7. ASSUME NEW n \in T PROVE n + 1 \in T
    BY <1>5
  <1>8. k \in T
    <2> HIDE DEF T
    <2>1. T \in SUBSET Nat
      BY DEF T
    <2> QED BY <1>6, <1>7, <2>1, Reaches
  <1> QED BY <1>1, <1>4, <1>8

\* The end of the first interface, whose endpoints lie before it.
LEMMA FirstInterfaceEnds ==
    ASSUME descriptors \in Configurations
    PROVE  /\ NextInterface(2) \in 3 .. Len(descriptors) + 1
           /\ EndsAt(descriptors, 2, NextInterface(2))
  <1>1. \E j \in 3 .. Len(descriptors) + 1 : EndsAt(descriptors, 2, j)
    BY ConfigurationIs
  <1>2. NextInterface(2) = CHOOSE j \in 3 .. Len(descriptors) + 1 : EndsAt(descriptors, 2, j)
    BY DEF NextInterface
  <1> QED BY <1>1, <1>2, Zenon

\* An interface with two endpoints has the first two of the configuration.
LEMMA FirstTwoAreOwn ==
    ASSUME descriptors \in Configurations, NEW e, NEW f, FirstTwo(descriptors, e, f),
           descriptors[2].count >= 2
    PROVE  /\ e \in EndpointsOf(2) /\ f \in EndpointsOf(2)
           /\ findDescriptor(2, ENDPOINT) = e /\ findDescriptor(e + 1, ENDPOINT) = f
  <1>0. PICK m \in Nat : m = Len(descriptors) /\ DOMAIN descriptors = 1 .. m
    BY ConfigurationIs
  <1>1. PICK j \in 3 .. m + 1 : j = NextInterface(2) /\ EndsAt(descriptors, 2, j)
    BY <1>0, FirstInterfaceEnds
  <1>2. /\ e \in 3 .. m /\ f \in 3 .. m /\ e < f
        /\ descriptors[e].type = ENDPOINT /\ descriptors[f].type = ENDPOINT
        /\ \A k \in 3 .. f : descriptors[k].type = ENDPOINT => k = e \/ k = f
    BY <1>0, <1>1 DEF FirstTwo
  <1>3. f < j
    <2> SUFFICES ASSUME j <= f PROVE FALSE
      BY <1>0, <1>1, <1>2
    <2>1. PICK E : E = {k \in 3 .. j - 1 : descriptors[k].type = ENDPOINT}
      OBVIOUS
    <2>2. Cardinality(E) = descriptors[2].count
      BY <1>0, <1>1, <2>1 DEF EndsAt
    <2>3. E \in SUBSET {e}
      BY <1>0, <1>1, <1>2, <2>1
    <2>4. IsFiniteSet({e}) /\ Cardinality({e}) = 1
      BY FS_Singleton
    <2>5. Cardinality(E) <= 1
      BY <2>3, <2>4, FS_Subset
    <2>6. Cardinality(E) \in Nat
      BY <2>3, <2>4, FS_Subset, FS_CardinalityType
    <2> QED BY <2>2, <2>5, <2>6
  <1>4. e \in EndpointsOf(2) /\ f \in EndpointsOf(2)
    BY <1>0, <1>1, <1>2, <1>3 DEF EndpointsOf, IsEndpoint
  <1>5. findDescriptor(2, ENDPOINT) = e
    <2>1. descriptors[2].type # ENDPOINT
      BY ConfigurationIs DEF INTERFACE, ENDPOINT
    <2>2. \A k \in 2 .. e - 1 : descriptors[k].type # ENDPOINT
      BY <1>0, <1>1, <1>2, <2>1
    <2>3. \A i \in 2 .. m : (/\ descriptors[i].type = ENDPOINT
                            /\ \A k \in 2 .. i - 1 : descriptors[k].type # ENDPOINT) <=> i = e
      <3>1. ASSUME NEW i \in 2 .. m, descriptors[i].type = ENDPOINT,
                   \A k \in 2 .. i - 1 : descriptors[k].type # ENDPOINT
            PROVE  i = e
        <4>1. ~(i < e)
          BY <1>0, <1>1, <1>2, <2>2, <3>1
        <4>2. ~(e < i)
          BY <1>0, <1>1, <1>2, <3>1
        <4> QED BY <1>0, <1>1, <1>2, <4>1, <4>2
      <3> QED BY <1>2, <2>2, <3>1
    <2>4. e \in 2 .. m
      BY <1>0, <1>1, <1>2
    <2> QED BY <1>0, <1>1, <2>3, <2>4 DEF findDescriptor
  <1>6. findDescriptor(e + 1, ENDPOINT) = f
    <2>2. \A k \in e + 1 .. f - 1 : descriptors[k].type # ENDPOINT
      <3>1. \A k \in e + 1 .. f - 1 : k \in 3 .. f /\ k # e /\ k # f
        BY <1>0, <1>1, <1>2
      <3> QED BY <1>2, <3>1
    <2>3. \A i \in e + 1 .. m : (/\ descriptors[i].type = ENDPOINT
                            /\ \A k \in e + 1 .. i - 1 : descriptors[k].type # ENDPOINT) <=> i = f
      <3>1. ASSUME NEW i \in e + 1 .. m, descriptors[i].type = ENDPOINT,
                   \A k \in e + 1 .. i - 1 : descriptors[k].type # ENDPOINT
            PROVE  i = f
        <4>1. ~(i < f)
          BY <1>0, <1>1, <1>2, <2>2, <3>1
        <4>2. ~(f < i)
          BY <1>0, <1>1, <1>2, <3>1
        <4> QED BY <1>0, <1>1, <1>2, <4>1, <4>2
      <3> QED BY <1>2, <2>2, <3>1
    <2>4. f \in e + 1 .. m
      BY <1>0, <1>1, <1>2
    <2> QED BY <1>0, <1>1, <2>3, <2>4 DEF findDescriptor
  <1> QED BY <1>4, <1>5, <1>6

\* getEndpointIndex and the arithmetic of getType are inverse.
LEMMA IndexIs ==
    ASSUME descriptors \in Configurations, NEW e \in EndpointsOf(2)
    PROVE  /\ getEndpointIndex(e) \in Int
           /\ (getEndpointIndex(e) + 1) \div 2 = descriptors[e].number
           /\ (getEndpointIndex(e) + 1) % 2 = descriptors[e].in
           /\ descriptors[e].in \in {0, 1}
           /\ getEndpointIndex(e) % 2 = 1 <=> descriptors[e].in = 0
  <1>1. descriptors[e] \in Descriptor /\ descriptors[e].type = ENDPOINT
    BY ConfigurationIs DEF EndpointsOf, IsEndpoint
  <1>2. descriptors[e] \in [type : {ENDPOINT}, number : Nat \ {0}, in : {0, 1}]
    BY <1>1 DEF Descriptor, INTERFACE, ENDPOINT
  <1>3. PICK number \in Nat \ {0}, direction \in {0, 1} :
            number = descriptors[e].number /\ direction = descriptors[e].in
    BY <1>2
  <1>4. getEndpointIndex(e) = 2 * number - 1 + direction
    BY <1>3 DEF getEndpointIndex
  <1>5. CASE direction = 0
    BY <1>3, <1>4, <1>5
  <1>6. CASE direction = 1
    BY <1>3, <1>4, <1>6
  <1> QED BY <1>5, <1>6

\* The type behind an endpoint of the first interface is that interface's.
LEMMA TypeOfOwn ==
    ASSUME descriptors \in Configurations, NEW e \in EndpointsOf(2)
    PROVE  getType(getEndpointIndex(e)) = descriptors[2].kind
  <1>1. PICK index : index = getEndpointIndex(e)
    OBVIOUS
  <1>2. PICK found :
            found = {i \in Interfaces :
                        \E k \in EndpointsOf(i) : /\ descriptors[k].number = (index + 1) \div 2
                                                  /\ descriptors[k].in = (index + 1) % 2}
    OBVIOUS
  <1>3. 2 \in found
    BY <1>1, <1>2, IndexIs, FirstVisited
  <1>4. \A i \in found : i \in Int /\ i >= 2
    BY <1>2, FirstVisited
  <1>5. (CHOOSE i \in found : \A j \in found : i <= j) = 2
    <2>1. \A i \in found : (\A j \in found : i <= j) <=> i = 2
      BY <1>3, <1>4
    <2> QED BY <1>3, <2>1
  <1>6. getType(index) = IF found = {} THEN <<>>
                         ELSE descriptors[CHOOSE i \in found : \A j \in found : i <= j].kind
    BY <1>2 DEF getType
  <1> QED BY <1>1, <1>3, <1>5, <1>6

\* An endpoint that is configured and has the direction.
Serves(index, direction) ==
    \E e \in configured : /\ 2 * descriptors[e].number - 1 + descriptors[e].in = index
                          /\ descriptors[e].in = direction
BothServe == Serves(endpoints.in, 1) /\ Serves(endpoints.out, 0)
OwnIndices == {getEndpointIndex(e) : e \in EndpointsOf(2)}

Reading == {"registerMBR", "checkMBR", "partitions", "unsigned"}
Unread == {"setupInterfaces", "setupHID", "setupMassStorage", "setup", "doInquiry", "readSize",
           "sized", "readBoot"}

\* The driver is chosen by the first interface, and its endpoints are right
\* before the first command.
DeviceInv ==
    /\ descriptors \in Configurations
    /\ pc \in {"setupMassStorage", "setup"} => /\ descriptors[2].kind[1] = MassStorage
                                              /\ EndpointsOf(2) \subseteq configured
    /\ pc = "setup" \/ Talking => {endpoints.in, endpoints.out} \subseteq OwnIndices
    /\ pc = "setup" /\ descriptors[2].kind = BulkOnly => BothServe
    /\ Talking => descriptors[2].kind = BulkOnly /\ BothServe

\* What is left of a function: commands, each followed by a fetch.
Transferring == {<<"out", "in", "out", "in">>, <<"in", "out", "in">>, <<"out", "in">>, <<"in">>}
ConversationInv ==
    /\ ~confused
    /\ todo = <<>> \/ todo \in Transferring
    /\ phase = IF todo # <<>> /\ Head(todo) = "in" THEN "data" ELSE "command"
    /\ todo # <<>> => pc \in {"readSize", "sized", "registerMBR", "checkMBR"}
    /\ Len(todo) > 2 => pc = "readSize"

\* Every result was answered to some command.
AnswersInv ==
    /\ outcome \in {"none", "good", "bad"} /\ failures \in Nat
    /\ outcome = "bad" => failures > 0
    /\ outcome = "none" => /\ pc \notin {"sized", "readBoot", "crashed"} \cup Reading
                           /\ pc = "readSize" => todo = <<"out", "in", "out", "in">>

\* The block size is known before a read, or a command has failed.
SizesInv ==
    /\ media \in BlockSizes /\ blockSize \in Nat /\ blocks \in Nat
    /\ pc = "readBoot" => blockSize > 0 \/ failures > 0
    /\ pc \in Reading => blockSize > 0
    /\ pc = "crashed" => failures > 0
    /\ pc \in Unread => blocks = 0
    /\ blocks > 0 => blocks * blockSize >= SectorSize

StorageInv == DeviceInv /\ ConversationInv /\ AnswersInv /\ SizesInv

LEMMA StorageStarts == StorageInit => StorageInv
  <1> SUFFICES ASSUME StorageInit PROVE StorageInv
    OBVIOUS
  <1>1. DeviceInv
    BY DEF StorageInit, DeviceInv, Talking
  <1>2. ConversationInv
    BY DEF StorageInit, ConversationInv
  <1>3. AnswersInv
    BY DEF StorageInit, AnswersInv, Reading
  <1>4. SizesInv
    BY DEF StorageInit, SizesInv, Reading
  <1> QED BY <1>1, <1>2, <1>3, <1>4 DEF StorageInv

\* The set-up changes nothing in the conversation, which has not begun.
LEMMA SetupKeeps ==
    ASSUME StorageInv, todo = <<>>, UNCHANGED conversation,
           pc \in {"setupInterfaces", "setupHID", "setupMassStorage", "setup"},
           pc' \in {"setupHID", "setupMassStorage", "ignored", "hid", "setup", "aborted", "unused",
                    "doInquiry"}
    PROVE  ConversationInv' /\ AnswersInv' /\ SizesInv'
  <1>1. /\ todo' = <<>> /\ phase' = phase /\ confused' = confused /\ outcome' = outcome
        /\ failures' = failures /\ media' = media /\ blockSize' = blockSize /\ blocks' = blocks
    BY DEF conversation
  <1>2. ConversationInv'
    BY <1>1 DEF StorageInv, ConversationInv
  <1>3. AnswersInv'
    BY <1>1 DEF StorageInv, AnswersInv, Reading
  <1>4. SizesInv'
    BY <1>1 DEF StorageInv, SizesInv, Reading, Unread
  <1> QED BY <1>2, <1>3, <1>4

\* Before the first command there is none under way.
LEMMA Silent ==
    ASSUME StorageInv, pc \in {"setupInterfaces", "setupHID", "setupMassStorage", "setup"}
    PROVE  todo = <<>>
  BY DEF StorageInv, ConversationInv

LEMMA SameDescriptors ==
    ASSUME descriptors' = descriptors
    PROVE  EndpointsOf(2)' = EndpointsOf(2) /\ OwnIndices' = OwnIndices
  <1>1. NextInterface(2)' = NextInterface(2)
    BY DEF NextInterface, EndsAt
  <1>2. EndpointsOf(2)' = EndpointsOf(2)
    BY <1>1 DEF EndpointsOf, IsEndpoint
  <1> QED BY <1>2 DEF OwnIndices, getEndpointIndex

LEMMA SetupInterfacesKeeps == StorageInv /\ setupInterfaces => StorageInv'
  <1> SUFFICES ASSUME StorageInv, setupInterfaces PROVE StorageInv'
    OBVIOUS
  <1>1. /\ pc = "setupInterfaces" /\ UNCHANGED <<descriptors, endpoints>> /\ UNCHANGED conversation
        /\ configured' = UNION {EndpointsOf(i) : i \in Interfaces}
        /\ pc' = CASE descriptors[2].kind[1] = Hid -> "setupHID"
                   [] descriptors[2].kind[1] = MassStorage -> "setupMassStorage"
                   [] OTHER -> "ignored"
    BY DEF setupInterfaces
  <1>2. descriptors \in Configurations
    BY DEF StorageInv, DeviceInv
  <1>3. /\ pc' \in {"setupHID", "setupMassStorage", "ignored"}
        /\ pc' = "setupMassStorage" => descriptors[2].kind[1] = MassStorage
    BY <1>1
  <1>4. EndpointsOf(2) \subseteq configured'
    BY <1>1, <1>2, FirstVisited
  <1>5. DeviceInv'
    BY <1>1, <1>2, <1>3, <1>4, SameDescriptors DEF DeviceInv, Talking
  <1>6. ConversationInv' /\ AnswersInv' /\ SizesInv'
    BY <1>1, <1>3, Silent, SetupKeeps
  <1> QED BY <1>5, <1>6 DEF StorageInv

LEMMA SetupHIDKeeps == StorageInv /\ setupHID => StorageInv'
  <1> SUFFICES ASSUME StorageInv, setupHID PROVE StorageInv'
    OBVIOUS
  <1>1. /\ pc = "setupHID" /\ UNCHANGED <<descriptors, configured>> /\ UNCHANGED conversation
        /\ pc' = "hid"
    BY DEF setupHID
  <1>2. DeviceInv'
    BY <1>1 DEF StorageInv, DeviceInv, Talking
  <1>3. ConversationInv' /\ AnswersInv' /\ SizesInv'
    BY <1>1, Silent, SetupKeeps
  <1> QED BY <1>2, <1>3 DEF StorageInv

LEMMA SetupMassStorageKeeps == StorageInv /\ setupMassStorage => StorageInv'
  <1> SUFFICES ASSUME StorageInv, setupMassStorage PROVE StorageInv'
    OBVIOUS
  <1>1. /\ descriptors \in Configurations /\ descriptors[2].kind[1] = MassStorage
        /\ EndpointsOf(2) \subseteq configured
    BY DEF StorageInv, DeviceInv, setupMassStorage
  <1>2. PICK e, f : /\ FirstTwo(descriptors, e, f) /\ descriptors[2].count >= 2
                    /\ descriptors[2].kind = BulkOnly => descriptors[e].in # descriptors[f].in
    BY <1>1, ConfigurationIs
  <1>3. /\ e \in EndpointsOf(2) /\ f \in EndpointsOf(2)
        /\ findDescriptor(2, ENDPOINT) = e /\ findDescriptor(e + 1, ENDPOINT) = f
    BY <1>1, <1>2, FirstTwoAreOwn
  <1>4. PICK one, two : one = getEndpointIndex(e) /\ two = getEndpointIndex(f)
    OBVIOUS
  <1>5. /\ pc = "setupMassStorage" /\ UNCHANGED <<descriptors, configured>> /\ UNCHANGED conversation
        /\ endpoints' = IF one % 2 = 1 THEN [in |-> two, out |-> one] ELSE [in |-> one, out |-> two]
        /\ pc' = "setup"
    BY <1>3, <1>4 DEF setupMassStorage
  <1>6. {endpoints'.in, endpoints'.out} \subseteq OwnIndices
    BY <1>3, <1>4, <1>5 DEF OwnIndices
  <1>7. ASSUME descriptors[2].kind = BulkOnly PROVE BothServe'
    <2>1. /\ e \in configured /\ f \in configured
          /\ 2 * descriptors[e].number - 1 + descriptors[e].in = one
          /\ 2 * descriptors[f].number - 1 + descriptors[f].in = two
      BY <1>1, <1>3, <1>4 DEF getEndpointIndex
    <2>2. /\ descriptors[e].in \in {0, 1} /\ descriptors[f].in \in {0, 1}
          /\ descriptors[e].in # descriptors[f].in
          /\ (one % 2 = 1) <=> descriptors[e].in = 0
      BY <1>1, <1>2, <1>3, <1>4, <1>7, IndexIs
    <2>3. CASE descriptors[e].in = 0
      <3>1. endpoints'.in = two /\ endpoints'.out = one
        BY <1>5, <2>2, <2>3
      <3>2. descriptors[f].in = 1
        BY <2>2, <2>3
      <3> QED BY <1>5, <2>1, <2>3, <3>1, <3>2 DEF BothServe, Serves
    <2>4. CASE descriptors[e].in = 1
      <3>1. endpoints'.in = one /\ endpoints'.out = two
        BY <1>5, <2>2, <2>4
      <3>2. descriptors[f].in = 0
        BY <2>2, <2>4
      <3> QED BY <1>5, <2>1, <2>4, <3>1, <3>2 DEF BothServe, Serves
    <2> QED BY <2>2, <2>3, <2>4
  <1>8. DeviceInv'
    BY <1>1, <1>5, <1>6, <1>7, SameDescriptors DEF DeviceInv, Talking
  <1>9. ConversationInv' /\ AnswersInv' /\ SizesInv'
    BY <1>5, Silent, SetupKeeps
  <1> QED BY <1>8, <1>9 DEF StorageInv

LEMMA SetupStorageKeeps == StorageInv /\ setup => StorageInv'
  <1> SUFFICES ASSUME StorageInv, setup PROVE StorageInv'
    OBVIOUS
  <1>1. /\ descriptors \in Configurations /\ descriptors[2].kind[1] = MassStorage
        /\ {endpoints.in, endpoints.out} \subseteq OwnIndices
        /\ descriptors[2].kind = BulkOnly => BothServe
    BY DEF StorageInv, DeviceInv, setup
  <1>2. PICK kind \in Nat \X Nat \X Nat : kind = descriptors[2].kind
    BY <1>1, ConfigurationIs
  <1>3. getType(endpoints.in) = kind
    BY <1>1, <1>2, TypeOfOwn DEF OwnIndices
  <1>4. /\ pc = "setup" /\ UNCHANGED <<descriptors, endpoints, configured>> /\ UNCHANGED conversation
        /\ pc' = IF kind # getType(endpoints.out) \/ kind[1] # MassStorage \/ kind[3] # 80
                 THEN "aborted"
                 ELSE IF kind[2] = 6 THEN "doInquiry" ELSE "unused"
    BY <1>3 DEF setup
  <1>5. pc' = "doInquiry" => kind = BulkOnly
    BY <1>2, <1>4 DEF BulkOnly
  <1>6. pc' \in {"aborted", "unused", "doInquiry"}
    BY <1>4
  <1>7. DeviceInv'
    <2>1. BothServe' <=> BothServe
      BY <1>4 DEF BothServe, Serves
    <2> QED BY <1>1, <1>2, <1>4, <1>5, <1>6, <2>1, SameDescriptors DEF DeviceInv, Talking
  <1>8. ConversationInv' /\ AnswersInv' /\ SizesInv'
    BY <1>4, <1>6, Silent, SetupKeeps
  <1> QED BY <1>7, <1>8 DEF StorageInv

\* The transfers left when the first one is over, and how they begin.
LEMMA Rests ==
    /\ Tail(<<"in">>) = <<>>
    /\ Tail(<<"out", "in">>) = <<"in">>
    /\ Tail(<<"in", "out", "in">>) = <<"out", "in">>
    /\ Tail(<<"out", "in", "out", "in">>) = <<"in", "out", "in">>
  OBVIOUS

LEMMA Begins ==
    /\ <<"in">> # <<>> /\ Head(<<"in">>) = "in" /\ Len(<<"in">>) = 1
    /\ <<"out", "in">> # <<>> /\ Head(<<"out", "in">>) = "out" /\ Len(<<"out", "in">>) = 2
    /\ <<"in", "out", "in">> # <<>> /\ Head(<<"in", "out", "in">>) = "in"
    /\ <<"out", "in", "out", "in">> # <<>> /\ Head(<<"out", "in", "out", "in">>) = "out"
    /\ Len(<<"out", "in", "out", "in">>) = 4 /\ Len(<<>>) = 0
  <1>1. /\ <<"in">> # <<>> /\ Head(<<"in">>) = "in" /\ Len(<<"in">>) = 1
    OBVIOUS
  <1>2. <<"out", "in">> # <<>> /\ Head(<<"out", "in">>) = "out" /\ Len(<<"out", "in">>) = 2
    OBVIOUS
  <1>3. <<"in", "out", "in">> # <<>> /\ Head(<<"in", "out", "in">>) = "in"
    OBVIOUS
  <1>4. /\ <<"out", "in", "out", "in">> # <<>> /\ Head(<<"out", "in", "out", "in">>) = "out"
        /\ Len(<<"out", "in", "out", "in">>) = 4
    OBVIOUS
  <1> QED BY <1>1, <1>2, <1>3, <1>4

LEMMA TalkingKeeps ==
    ASSUME StorageInv, Talking, UNCHANGED <<descriptors, endpoints, configured>>,
           pc' \notin {"setupMassStorage", "setup"}
    PROVE  DeviceInv'
  <1>1. BothServe' <=> BothServe
    BY DEF BothServe, Serves
  <1> QED BY <1>1, SameDescriptors DEF StorageInv, DeviceInv

LEMMA OutKeeps == StorageInv /\ out => StorageInv'
  <1> SUFFICES ASSUME StorageInv, out PROVE StorageInv'
    OBVIOUS
  <1>1. PICK left : left = todo' /\ left = Tail(todo)
    BY DEF out
  <1>2. /\ todo # <<>> /\ Head(todo) = "out" /\ phase' = "data" /\ outcome' \in {"good", "bad"}
        /\ confused' = (confused \/ ~Meets(endpoints.out, 0, "command"))
        /\ failures' = failures + IF outcome' = "bad" THEN 1 ELSE 0
        /\ UNCHANGED <<descriptors, pc, endpoints, configured, media, blockSize, blocks>>
    BY DEF out, At
  <1>3. todo \in {<<"out", "in", "out", "in">>, <<"out", "in">>}
    BY <1>2 DEF StorageInv, ConversationInv, Transferring
  <1>4. left \in {<<"in", "out", "in">>, <<"in">>} /\ (Len(left) > 2 => Len(todo) > 2)
    <2>1. CASE todo = <<"out", "in", "out", "in">>
      BY <1>1, <2>1, Rests, Begins
    <2>2. CASE todo = <<"out", "in">>
      BY <1>1, <2>2, Rests, Begins
    <2> QED BY <1>3, <2>1, <2>2
  <1>5. Talking /\ phase = "command" /\ BothServe
    BY <1>2 DEF StorageInv, ConversationInv, DeviceInv, Talking
  <1>6. DeviceInv'
    BY <1>2, <1>5, TalkingKeeps DEF Talking
  <1>7. ~confused'
    BY <1>2, <1>5 DEF Meets, BothServe, Serves, StorageInv, ConversationInv
  <1>8. ConversationInv'
    <2>1. left # <<>> /\ Head(left) = "in" /\ left \in Transferring
      BY <1>4 DEF Transferring
    <2> QED BY <1>1, <1>2, <1>4, <1>7, <2>1 DEF StorageInv, ConversationInv
  <1>9. AnswersInv' /\ SizesInv'
    BY <1>2 DEF StorageInv, AnswersInv, SizesInv
  <1> QED BY <1>6, <1>8, <1>9 DEF StorageInv

LEMMA InKeeps == StorageInv /\ in => StorageInv'
  <1> SUFFICES ASSUME StorageInv, in PROVE StorageInv'
    OBVIOUS
  <1>1. PICK left : left = todo' /\ left = Tail(todo)
    BY DEF in
  <1>2. /\ todo # <<>> /\ Head(todo) = "in" /\ phase' = "command"
        /\ confused' = (confused \/ ~Meets(endpoints.in, 1, "data"))
        /\ UNCHANGED <<descriptors, pc, endpoints, configured, outcome, media, blockSize, blocks,
                       failures>>
    BY DEF in, At
  <1>3. todo \in {<<"in", "out", "in">>, <<"in">>}
    BY <1>2 DEF StorageInv, ConversationInv, Transferring
  <1>4. left = <<>> \/ left = <<"out", "in">>
    BY <1>1, <1>3, Rests
  <1>5. Talking /\ phase = "data" /\ BothServe
    BY <1>2 DEF StorageInv, ConversationInv, DeviceInv, Talking
  <1>6. DeviceInv'
    BY <1>2, <1>5, TalkingKeeps DEF Talking
  <1>7. ~confused'
    BY <1>2, <1>5 DEF Meets, BothServe, Serves, StorageInv, ConversationInv
  <1>8. ConversationInv'
    <2>1. /\ left = <<>> \/ left \in Transferring
          /\ ~(left # <<>> /\ Head(left) = "in") /\ ~(Len(left) > 2)
      <3>1. CASE left = <<>>
        BY <3>1, Begins
      <3>2. CASE left = <<"out", "in">>
        BY <3>2, Begins DEF Transferring
      <3> QED BY <1>4, <3>1, <3>2
    <2> QED BY <1>1, <1>2, <1>7, <2>1 DEF StorageInv, ConversationInv
  <1>9. AnswersInv'
    <2>1. todo # <<"out", "in", "out", "in">>
      BY <1>3
    <2> QED BY <1>2, <2>1 DEF StorageInv, AnswersInv
  <1>10. SizesInv'
    BY <1>2 DEF StorageInv, SizesInv
  <1> QED BY <1>6, <1>8, <1>9, <1>10 DEF StorageInv

\* The function that comes next, with the transfers that it begins with.
LEMMA GotoKeeps ==
    ASSUME StorageInv, Talking, NEW label, NEW transfers, Idle(pc), Goto(label, transfers),
           label \notin {"setupMassStorage", "setup"},
           transfers = <<>> \/ (transfers = <<"out", "in">> /\ label \in {"sized", "registerMBR", "checkMBR"})
             \/ (transfers = <<"out", "in", "out", "in">> /\ label = "readSize")
    PROVE  DeviceInv' /\ ConversationInv'
  <1>1. /\ todo = <<>> /\ pc' = label /\ todo' = transfers
        /\ UNCHANGED <<descriptors, endpoints, configured, phase, outcome, media, failures, confused>>
    BY DEF Goto, Idle
  <1>2. DeviceInv'
    BY <1>1, TalkingKeeps
  <1>3. /\ transfers = <<>> \/ transfers \in Transferring
        /\ ~(transfers # <<>> /\ Head(transfers) = "in")
        /\ Len(transfers) > 2 => label = "readSize"
        /\ transfers # <<>> => label \in {"readSize", "sized", "registerMBR", "checkMBR"}
    <2>1. CASE transfers = <<>>
      BY <2>1, Begins
    <2>2. CASE transfers = <<"out", "in">> /\ label \in {"sized", "registerMBR", "checkMBR"}
      BY <2>2, Begins DEF Transferring
    <2>3. CASE transfers = <<"out", "in", "out", "in">> /\ label = "readSize"
      BY <2>3, Begins DEF Transferring
    <2> QED BY <2>1, <2>2, <2>3
  <1>4. ~confused /\ phase = "command"
    BY <1>1 DEF StorageInv, ConversationInv
  <1>5. ConversationInv'
    BY <1>1, <1>3, <1>4 DEF ConversationInv
  <1> QED BY <1>2, <1>5

LEMMA DoInquiryKeeps == StorageInv /\ doInquiry => StorageInv'
  <1> SUFFICES ASSUME StorageInv, doInquiry PROVE StorageInv'
    OBVIOUS
  <1>1. /\ pc = "doInquiry" /\ Idle(pc) /\ Goto("readSize", <<"out", "in", "out", "in">>)
        /\ Talking /\ UNCHANGED <<blockSize, blocks>>
    BY DEF doInquiry, Idle, Talking
  <1>2. DeviceInv' /\ ConversationInv'
    BY <1>1, GotoKeeps
  <1>3. AnswersInv' /\ SizesInv'
    BY <1>1 DEF Goto, StorageInv, AnswersInv, SizesInv, Reading, Unread
  <1> QED BY <1>2, <1>3 DEF StorageInv

LEMMA ReadSizeKeeps == StorageInv /\ readSize => StorageInv'
  <1> SUFFICES ASSUME StorageInv, readSize PROVE StorageInv'
    OBVIOUS
  <1>1. /\ pc = "readSize" /\ Idle(pc) /\ Goto("sized", <<"out", "in">>)
        /\ Talking /\ UNCHANGED <<blockSize, blocks>>
    BY DEF readSize, Idle, Talking
  <1>2. DeviceInv' /\ ConversationInv'
    BY <1>1, GotoKeeps
  <1>3. outcome # "none"
    <2>1. todo # <<"out", "in", "out", "in">>
      BY <1>1 DEF Idle
    <2> QED BY <1>1, <2>1 DEF StorageInv, AnswersInv
  <1>4. AnswersInv' /\ SizesInv'
    BY <1>1, <1>3 DEF Goto, StorageInv, AnswersInv, SizesInv, Reading, Unread
  <1> QED BY <1>2, <1>4 DEF StorageInv

LEMMA SizedKeeps == StorageInv /\ Sized => StorageInv'
  <1> SUFFICES ASSUME StorageInv, Sized PROVE StorageInv'
    OBVIOUS
  <1>1. /\ pc = "sized" /\ Idle(pc) /\ Goto("readBoot", <<>>) /\ Talking /\ UNCHANGED blocks
        /\ blockSize' \in IF outcome = "good" THEN {media} ELSE {0} \cup BlockSizes
    BY DEF Sized, Idle, Talking
  <1>2. DeviceInv' /\ ConversationInv'
    BY <1>1, GotoKeeps
  <1>3. /\ pc' = "readBoot" /\ UNCHANGED <<outcome, failures, media>>
        /\ outcome \in {"good", "bad"} /\ (outcome = "bad" => failures > 0) /\ failures \in Nat
    BY <1>1 DEF Goto, StorageInv, AnswersInv
  <1>4. AnswersInv'
    BY <1>3 DEF AnswersInv
  <1>5. /\ media \in BlockSizes /\ blocks = 0 /\ blocks \in Nat
        /\ BlockSizes \subseteq Nat /\ \A b \in BlockSizes : b > 0
    BY <1>1, StorageAssumption DEF StorageInv, SizesInv, Unread, StorageAssumption
  <1>6. blockSize' \in Nat /\ (blockSize' > 0 \/ failures' > 0)
    <2>1. CASE outcome = "good"
      BY <1>1, <1>5, <2>1
    <2>2. CASE outcome = "bad"
      BY <1>1, <1>3, <1>5, <2>2
    <2> QED BY <1>3, <2>1, <2>2
  <1>7. SizesInv'
    BY <1>1, <1>3, <1>5, <1>6 DEF SizesInv, Reading
  <1> QED BY <1>2, <1>4, <1>7 DEF StorageInv

\* The blocks that read asks for hold the sector.
LEMMA BlocksCover ==
    ASSUME NEW size \in Nat \ {0}, NEW block \in Nat \ {0}
    PROVE  /\ (size - 1) \div block + 1 \in Nat
           /\ ((size - 1) \div block + 1) * block >= size
  <1>1. PICK n \in Nat : n = size - 1 /\ size = n + 1
    OBVIOUS
  <1>2. PICK q \in Int, r \in Int : q = n \div block /\ r = n % block
    OBVIOUS
  <1>3. n = block * q + r /\ 0 <= r /\ r < block
    BY <1>2
  <1>4. q \in Nat
    BY <1>2
  <1>5. (q + 1) * block = block * q + block
    BY <1>4
  <1>6. (q + 1) * block >= size
    <2>1. PICK p \in Int : p = block * q
      BY <1>4
    <2> QED BY <1>1, <1>2, <1>3, <1>5, <2>1
  <1> QED BY <1>1, <1>2, <1>4, <1>6

LEMMA ReadKeeps ==
    ASSUME StorageInv, NEW after, Talking, Idle(pc), read(after),
           \/ pc = "readBoot" /\ after = "registerMBR"
           \/ pc = "registerMBR" /\ after = "checkMBR"
    PROVE  StorageInv'
  <1>1. CASE blockSize = 0 /\ Goto("crashed", <<>>) /\ UNCHANGED <<blockSize, blocks>>
    <2>1. DeviceInv' /\ ConversationInv'
      BY <1>1, GotoKeeps
    <2>2. pc = "readBoot" /\ failures > 0 /\ outcome # "none"
      BY <1>1 DEF StorageInv, SizesInv, AnswersInv, Reading
    <2>3. AnswersInv' /\ SizesInv'
      BY <1>1, <2>2 DEF Goto, StorageInv, AnswersInv, SizesInv, Reading, Unread
    <2> QED BY <2>1, <2>3 DEF StorageInv
  <1>2. CASE /\ blockSize > 0 /\ blocks' = (SectorSize - 1) \div blockSize + 1
             /\ Goto(after, <<"out", "in">>) /\ UNCHANGED blockSize
    <2>1. DeviceInv' /\ ConversationInv'
      BY <1>2, GotoKeeps
    <2>2. outcome # "none" /\ pc' = after /\ UNCHANGED <<outcome, failures, media, blockSize>>
      BY <1>2 DEF Goto, StorageInv, AnswersInv, Reading
    <2>3. AnswersInv'
      BY <2>2 DEF StorageInv, AnswersInv
    <2>4. PICK block \in Nat \ {0} : block = blockSize
      BY <1>2 DEF StorageInv, SizesInv
    <2>5. blocks' \in Nat /\ blocks' * blockSize >= SectorSize
      <3>1. SectorSize \in Nat \ {0}
        BY StorageAssumption DEF StorageAssumption
      <3> QED BY <1>2, <2>4, <3>1, BlocksCover
    <2>6. SizesInv'
      BY <1>2, <2>2, <2>5 DEF StorageInv, SizesInv, Reading, Unread
    <2> QED BY <2>1, <2>3, <2>6 DEF StorageInv
  <1> QED BY <1>1, <1>2 DEF read

LEMMA CheckMBRKeeps == StorageInv /\ checkMBR => StorageInv'
  <1> SUFFICES ASSUME StorageInv, checkMBR PROVE StorageInv'
    OBVIOUS
  <1>1. PICK label \in {"partitions", "unsigned"} :
            /\ pc = "checkMBR" /\ Idle(pc) /\ Goto(label, <<>>)
            /\ Talking /\ UNCHANGED <<blockSize, blocks>>
    BY DEF checkMBR, Idle, Talking
  <1>2. DeviceInv' /\ ConversationInv'
    BY <1>1, GotoKeeps
  <1>3. AnswersInv' /\ SizesInv'
    BY <1>1 DEF Goto, StorageInv, AnswersInv, SizesInv, Reading, Unread
  <1> QED BY <1>2, <1>3 DEF StorageInv

LEMMA StorageStutters == StorageInv /\ UNCHANGED storageVars => StorageInv'
  <1> SUFFICES ASSUME StorageInv, UNCHANGED storageVars PROVE StorageInv'
    OBVIOUS
  <1>1. UNCHANGED <<descriptors, pc, endpoints, configured, todo, phase, outcome, media, blockSize,
                    blocks, failures, confused>>
    BY DEF storageVars
  <1>2. DeviceInv'
    <2>1. BothServe' <=> BothServe
      BY <1>1 DEF BothServe, Serves
    <2> QED BY <1>1, <2>1, SameDescriptors DEF StorageInv, DeviceInv, Talking
  <1>3. ConversationInv' /\ AnswersInv' /\ SizesInv'
    BY <1>1 DEF StorageInv, ConversationInv, AnswersInv, SizesInv
  <1> QED BY <1>2, <1>3 DEF StorageInv

\* The set-up of a device and the conversation with it keep the invariant.
THEOREM StorageInvariant == StorageSpec => []StorageInv
  <1>1. StorageInv /\ readBoot => StorageInv'
    BY ReadKeeps DEF readBoot, Idle, Talking
  <1>2. StorageInv /\ registerMBR => StorageInv'
    BY ReadKeeps DEF registerMBR, Idle, Talking
  <1>3. StorageInv /\ [StorageNext]_storageVars => StorageInv'
    BY <1>1, <1>2, SetupInterfacesKeeps, SetupHIDKeeps, SetupMassStorageKeeps, SetupStorageKeeps,
       OutKeeps, InKeeps, DoInquiryKeeps, ReadSizeKeeps, SizedKeeps, CheckMBRKeeps, StorageStutters
    DEF StorageNext
  <1> QED BY <1>3, StorageStarts, PTL DEF StorageSpec

\* Commands and data meet the endpoints of the storage device's own interface in
\* the order of the protocol, and a read asks for enough blocks, whatever
\* commands fail and whatever else the configuration holds.
THEOREM StorageInOrder == StorageSpec => []TransfersInOrder
  <1>1. StorageInv => TransfersInOrder
    <2> SUFFICES ASSUME StorageInv PROVE TransfersInOrder
      OBVIOUS
    <2>1. PhasesInOrder
      BY DEF StorageInv, ConversationInv, PhasesInOrder
    <2>2. OwnInterface
      BY DEF StorageInv, DeviceInv, OwnInterface, OwnIndices
    <2>3. ReadsCover
      BY DEF StorageInv, SizesInv, ReadsCover
    <2> QED BY <2>1, <2>2, <2>3 DEF TransfersInOrder
  <1> QED BY <1>1, StorageInvariant, PTL

-----------------------------------------------------------------------------
\* The rings of the controller. A position lies so many entries behind the one
\* that is written next, counting the turns of the ring.
Distance(position, writer, size) ==
    IF position < writer THEN writer - position ELSE writer - position + size

Slots == 0 .. EventEnd - 1
Age(code) == Distance(code - 1, ring.enqueue, Link)
Back(slot) == Distance(slot, hc.enqueue, EventEnd)

\* Entries that the reader has yet to read; it is on the writer's turn if their
\* cycle bits are the same.
Lag(reader, readerCycle, writer, writerCycle, size) ==
    writer - reader + IF readerCycle = writerCycle THEN 0 ELSE size
unreadTrbs == Lag(hc.dequeue, hc.cycle, ring.enqueue, ring.cycle, Link)
unreadEvents == Lag(events.dequeue, events.cycle, hc.enqueue, hc.eventCycle, EventEnd)

Awaits == [kind : {"await"}, client : Clients, code : Codes \ {0}]
Fires == [kind : {"fire"}, code : Codes \ {0}, slot : Slots]
Wakes == [kind : {"woken"}, client : Clients, slot : Slots]
Entries == Awaits \cup Fires \cup Wakes \cup [kind : {"interrupt", "loop"}]

Trbs == [cycle : {0, 1}, ioc : BOOLEAN]
EventTrbs == [cycle : {0, 1}, code : Codes]
TransferRings == [trbs : [0 .. Link -> Trbs], enqueue : 0 .. Link - 1, cycle : {0, 1}]
EventRings == [trbs : [Slots -> EventTrbs], dequeue : Slots, cycle : {0, 1}]
Controllers == [dequeue : 0 .. Link, cycle : {0, 1}, enqueue : Slots, eventCycle : {0, 1}]
RingTypes ==
    /\ use \in {"commands", "control", "endpoint"}
    /\ ring \in TransferRings /\ events \in EventRings /\ hc \in Controllers
    /\ pending \in BOOLEAN
    /\ port \in [Ports -> {"connected", "resetting", "enabled"}]
    /\ connects \subseteq Unreported
    /\ queue \in Seq(Entries) /\ waiting \subseteq Awaits
    /\ client \in [Clients -> Codes]

\* What is written last has the writer's cycle bit, the entries of the turn before
\* have the other one; no reader is overtaken.
OnTurn(trbs, size, w, d) ==
    \A i \in 0 .. size - 1 : trbs[i].cycle = IF i < w THEN d ELSE 1 - d
CyclesInv ==
    /\ OnTurn(ring.trbs, Size, ring.enqueue, ring.cycle)
    /\ OnTurn(events.trbs, EventEnd, hc.enqueue, hc.eventCycle)
    /\ unreadTrbs \in 0 .. Link - 1
    /\ unreadEvents \in 0 .. EventEnd - 1

\* A thread in a transfer or a reset is behind its await, waits, or is woken, one
\* of the three and once.
Suspended(i) == queue[i].kind \in {"await", "woken"}
AwaitsInv ==
    /\ \A i \in DOMAIN queue : queue[i].kind = "await" => queue[i].code = client[queue[i].client]
    /\ \A w \in waiting : w.code = client[w.client]
    /\ \A i, j \in DOMAIN queue :
        Suspended(i) /\ Suspended(j) /\ queue[i].client = queue[j].client => i = j
    /\ \A i \in DOMAIN queue, w \in waiting : Suspended(i) => queue[i].client # w.client
    /\ \A c \in Clients : client[c] # 0 =>
        \/ \E i \in DOMAIN queue : Suspended(i) /\ queue[i].client = c
        \/ \E w \in waiting : w.client = c
    /\ \A i, j \in DOMAIN queue :
        queue[i].kind = "await" /\ queue[j].kind = "fire" /\ queue[j].code = queue[i].code
            /\ queue[i].code > 0 => i < j
    /\ \A c \in Clients : client[c] # 0 /\ c # Initializer => use = "endpoint" /\ client[c] > 0

\* Slots that a thread may still look at: not read yet, or as new as that of a
\* firing or of a woken thread.
Held(i) == queue[i].kind \in {"fire", "woken"}
InUse(s) ==
    \/ Back(s) <= unreadEvents
    \/ \E i \in DOMAIN queue : Held(i) /\ Back(s) <= Back(queue[i].slot)

\* The reports in those slots are of different causes: a thread's transfer, the
\* reset of a port or its connection.
Users == IF use = "endpoint" THEN Clients ELSE {Initializer}
Owners == ({"transfer"} \X Users) \cup ({"reset"} \X Ports) \cup ({"connect"} \X Unreported)
Caused(owner, code) ==
    \/ /\ owner[1] = "transfer" /\ code > 0 /\ client[owner[2]] = code
       /\ Age(code) > unreadTrbs
    \/ owner[1] = "reset" /\ code = -owner[2] /\ port[owner[2]] = "enabled"
    \/ owner[1] = "connect" /\ code = -owner[2] /\ owner[2] \notin connects

\* Threads are woken in the order of the reports, and firings come in that order
\* behind them.
Precedes(i, j) ==
    \/ queue[i].kind = queue[j].kind /\ i < j
    \/ queue[i].kind = "woken" /\ queue[j].kind = "fire"
Code(s) == events.trbs[s].code
SlotsInv(owner) ==
    /\ \A i \in DOMAIN queue : Held(i) => Back(queue[i].slot) > unreadEvents
    /\ \A i \in DOMAIN queue : queue[i].kind = "fire" => queue[i].code = Code(queue[i].slot)
    /\ \A i \in DOMAIN queue : queue[i].kind = "woken" =>
        client[queue[i].client] = Code(queue[i].slot)
    /\ \A i, j \in DOMAIN queue :
        Held(i) /\ Held(j) /\ Precedes(i, j) => Back(queue[i].slot) > Back(queue[j].slot)
    /\ \A s \in Slots : InUse(s) => Caused(owner[s], Code(s))
    /\ \A s, t \in Slots : InUse(s) /\ InUse(t) /\ owner[s] = owner[t] => s = t
    /\ \A s, t \in Slots :
        InUse(s) /\ InUse(t) /\ Code(s) > 0 /\ Code(t) > 0 /\ Back(s) > Back(t)
            => Age(Code(s)) > Age(Code(t))

\* The unfinished transfers are the last ones, and each is on its way: on the
\* ring, in the event ring, in a firing, or its thread is woken.
Busy == {c \in Clients : client[c] > 0}
Underway(c) ==
    \/ Age(client[c]) <= unreadTrbs
    \/ \E s \in Slots : Back(s) <= unreadEvents /\ Code(s) = client[c]
    \/ \E i \in DOMAIN queue : queue[i].kind = "fire" /\ queue[i].code = client[c]
    \/ \E i \in DOMAIN queue : queue[i].kind = "woken" /\ queue[i].client = c
TransfersInv ==
    /\ \A c, d \in Busy : client[c] = client[d] => c = d
    /\ \A c \in Busy : Age(client[c]) <= Cardinality(Busy) /\ Underway(c)
    /\ \A i \in 0 .. Link - 1 : Distance(i, ring.enqueue, Link) <= unreadTrbs =>
        (ring.trbs[i].ioc <=> \E c \in Busy : client[c] = i + 1)
    /\ \/ unreadTrbs <= Cardinality(Busy)
       \/ use = "control" /\ Busy # {} /\ unreadTrbs <= 3

PortsInv == aborted \subseteq Unreported \ connects

RingsInv ==
    /\ RingTypes /\ CyclesInv /\ AwaitsInv /\ TransfersInv /\ PortsInv
    /\ \E owner \in [Slots -> Owners] : SlotsInv(owner)

\* Sizes of the rings.
LEMMA Sizes ==
    /\ Link \in Nat /\ Link >= 4 /\ EventEnd \in Nat /\ EventEnd >= 2
    /\ Initializer \in Clients /\ IsFiniteSet(Clients) /\ IsFiniteSet(Ports)
    /\ Ports \subseteq Nat \ {0} /\ ConnectEvents \subseteq Ports
    /\ Cardinality(Clients) < Link
    /\ Cardinality(Clients) + Cardinality(Ports) <= EventEnd
    /\ 1 + Cardinality(Ports) + Cardinality(ConnectEvents) <= EventEnd
  <1>1. /\ Size \in Nat /\ EventSize \in Nat /\ 4 < Size /\ EventSize >= 3
        /\ Initializer \in Clients /\ IsFiniteSet(Clients) /\ IsFiniteSet(Ports)
        /\ Ports \subseteq Nat \ {0} /\ ConnectEvents \subseteq Ports
        /\ Cardinality(Clients) < Size - 1
        /\ Cardinality(Clients) + Cardinality(Ports) < EventSize
        /\ 1 + Cardinality(Ports) + Cardinality(ConnectEvents) < EventSize
    BY RingAssumption DEF RingAssumption
  <1>2. IsFiniteSet(ConnectEvents)
    BY <1>1, FS_Subset
  <1>3. PICK a, b, c \in Nat :
            /\ a = Cardinality(Clients)
            /\ b = Cardinality(Ports) /\ c = Cardinality(ConnectEvents)
    BY <1>1, <1>2, FS_CardinalityType
  <1> QED BY <1>1, <1>3 DEF Link, EventEnd

\* The position after p.
After(p, size) == IF p + 1 < size THEN p + 1 ELSE 0

LEMMA DistanceIs ==
    ASSUME NEW size \in Nat, NEW w \in 0 .. size - 1, NEW p \in 0 .. size - 1
    PROVE  /\ Distance(p, w, size) \in 1 .. size
           /\ \A q \in 0 .. size - 1 : Distance(q, w, size) = Distance(p, w, size) => q = p
           /\ Distance(p, w, size) = size <=> p = w
  BY DEF Distance

LEMMA DistanceAfter ==
    ASSUME NEW size \in Nat, NEW w \in 0 .. size - 1, NEW p \in 0 .. size - 1
    PROVE  /\ After(w, size) \in 0 .. size - 1
           /\ Distance(p, After(w, size), size) = IF p = w THEN 1 ELSE Distance(p, w, size) + 1
  BY DEF Distance, After

\* The entries that a reader at r has yet to read, when the writer is at w. It
\* reads the oldest one next.
LEMMA DistanceReader ==
    ASSUME NEW size \in Nat, NEW w \in 0 .. size - 1, NEW r \in 0 .. size - 1,
           NEW n \in 1 .. size, n = w - r \/ n = w - r + size
    PROVE  Distance(r, w, size) = n
  BY DEF Distance

LEMMA DistanceTurn ==
    ASSUME NEW size \in Nat, NEW w \in 0 .. size - 1, NEW r \in 0 .. size - 1,
           NEW n \in 0 .. size, n = w - r \/ n = w - r + size, NEW k \in 0 .. size - 1
    PROVE  /\ Turn(r, k, size) \in 0 .. size - 1
           /\ k < n => Distance(Turn(r, k, size), w, size) = n - k
  BY DEF Distance, Turn

LEMMA TurnIn ==
    ASSUME NEW size \in Nat, NEW r \in 0 .. size - 1, NEW k \in 0 .. size - 1
    PROVE  Turn(r, k, size) \in 0 .. size - 1
  BY DEF Turn

LEMMA FoundIs ==
    ASSUME NEW size \in Nat \ {0}, NEW trbs, NEW w \in 0 .. size - 1, NEW d \in {0, 1},
           OnTurn(trbs, size, w, d),
           NEW r \in 0 .. size - 1, NEW c \in {0, 1}, NEW n \in 0 .. size,
           n = Lag(r, c, w, d, size)
    PROVE  Found(trbs, size, r, c) = [k \in 1 .. n |-> trbs[Turn(r, k - 1, size)]]
  <1>1. ASSUME NEW k \in 0 .. size - 1 PROVE New(trbs, size, r, c, k) <=> k < n
    <2>1. PICK i \in 0 .. size - 1 : i = Turn(r, k, size)
      BY TurnIn
    <2>2. trbs[i].cycle = IF i < w THEN d ELSE 1 - d
      BY DEF OnTurn
    <2>3. New(trbs, size, r, c, k) <=> (IF i < w THEN d ELSE 1 - d) = IF r + k < size THEN c ELSE 1 - c
      BY <2>1, <2>2 DEF New
    <2>4. i = IF r + k < size THEN r + k ELSE r + k - size
      BY <2>1 DEF Turn
    <2>5. CASE c = d
      BY <2>3, <2>4, <2>5 DEF Lag
    <2>6. CASE c # d
      BY <2>3, <2>4, <2>6 DEF Lag
    <2> QED BY <2>5, <2>6
  <1>2. NewUpTo(trbs, size, r, c, n)
    BY <1>1 DEF NewUpTo
  <1>3. ASSUME NEW m \in 0 .. size, NewUpTo(trbs, size, r, c, m) PROVE m = n
    <2>1. \A k \in 0 .. m - 1 : k < n
      BY <1>1, <1>3 DEF NewUpTo
    <2>2. m < size => ~(m < n)
      BY <1>1, <1>3 DEF NewUpTo
    <2> QED BY <2>1, <2>2
  <1>4. Count(trbs, size, r, c) = n
    BY <1>2, <1>3 DEF Count
  <1> QED BY <1>4 DEF Found

-----------------------------------------------------------------------------
\* The transfer ring. What enqueueCommand does to a ring whose cycle bits are
\* right, seen by any reader that lags behind by less than a turn.
LEMMA TrbIs ==
    ASSUME NEW c \in {0, 1}, NEW ioc \in BOOLEAN
    PROVE  \E trb \in Trbs : trb = [cycle |-> c, ioc |-> ioc] /\ trb.cycle = c /\ trb.ioc = ioc
  <1>1. [cycle |-> c, ioc |-> ioc] \in Trbs
    BY DEF Trbs
  <1>2. [cycle |-> c, ioc |-> ioc].cycle = c /\ [cycle |-> c, ioc |-> ioc].ioc = ioc
    OBVIOUS
  <1> WITNESS [cycle |-> c, ioc |-> ioc] \in Trbs
  <1> QED BY <1>2

LEMMA TrbFlips ==
    ASSUME NEW trb \in Trbs
    PROVE  \E link \in Trbs : link = [trb EXCEPT !.cycle = 1 - @] /\ link.cycle = 1 - trb.cycle
  <1>1. trb.cycle \in {0, 1} /\ trb.ioc \in BOOLEAN
    BY DEF Trbs
  <1>2. PICK bit \in {0, 1} : bit = 1 - trb.cycle
    BY <1>1
  <1>3. [trb EXCEPT !.cycle = 1 - @] = [cycle |-> bit, ioc |-> trb.ioc]
    BY <1>1, <1>2 DEF Trbs
  <1>4. [cycle |-> bit, ioc |-> trb.ioc] \in Trbs /\ [cycle |-> bit, ioc |-> trb.ioc].cycle = bit
    BY <1>1, <1>2 DEF Trbs
  <1> QED BY <1>2, <1>3, <1>4

LEMMA EnqueueIs ==
    ASSUME NEW r \in TransferRings, OnTurn(r.trbs, Size, r.enqueue, r.cycle),
           NEW ioc \in BOOLEAN, NEW q, q = enqueueCommand(r, ioc)
    PROVE  /\ q \in TransferRings /\ OnTurn(q.trbs, Size, q.enqueue, q.cycle)
           /\ q.enqueue = After(r.enqueue, Link)
           /\ q.cycle = IF r.enqueue + 1 < Link THEN r.cycle ELSE 1 - r.cycle
           /\ \A i \in 0 .. Link - 1 :
                q.trbs[i].ioc = IF i = r.enqueue THEN ioc ELSE r.trbs[i].ioc
  <1>1. PICK trbs \in [0 .. Link -> Trbs], e \in 0 .. Link - 1, c \in {0, 1} :
            r = [trbs |-> trbs, enqueue |-> e, cycle |-> c]
    BY DEF TransferRings
  <1>2. PICK trb \in Trbs : trb = [cycle |-> c, ioc |-> ioc] /\ trb.cycle = c /\ trb.ioc = ioc
    BY TrbIs
  <1>3. Link \in Nat /\ Link >= 4 /\ Size \in Nat /\ Size = Link + 1 /\ 0 .. Size - 1 = 0 .. Link
    BY Sizes, RingAssumption DEF RingAssumption, Link
  <1>4. PICK one \in [0 .. Link -> Trbs] : one = [trbs EXCEPT ![e] = trb]
    BY <1>3
  <1>5. \A i \in 0 .. Link : trbs[i].cycle = IF i < e THEN c ELSE 1 - c
    BY <1>1, <1>3 DEF OnTurn
  <1>6. /\ one[e] = trb /\ \A i \in 0 .. Link : i # e => one[i] = trbs[i]
    BY <1>3, <1>4
  <1>7. CASE e + 1 < Link
    <2>1. q = [trbs |-> one, enqueue |-> e + 1, cycle |-> c]
      BY <1>1, <1>2, <1>4, <1>7 DEF enqueueCommand
    <2>2. \A i \in 0 .. Link : one[i].cycle = IF i < e + 1 THEN c ELSE 1 - c
      BY <1>2, <1>3, <1>5, <1>6
    <2>3. e + 1 \in 0 .. Link - 1
      BY <1>3, <1>7
    <2>4. \A i \in 0 .. Link - 1 : one[i].ioc = IF i = e THEN ioc ELSE trbs[i].ioc
      BY <1>2, <1>3, <1>6
    <2> QED BY <1>1, <1>3, <1>7, <2>1, <2>2, <2>3, <2>4 DEF TransferRings, OnTurn, After
  <1>8. CASE ~(e + 1 < Link)
    <2>1. PICK bit \in {0, 1} : bit = 1 - c /\ 1 - bit = c
      OBVIOUS
    <2>2. e = Link - 1 /\ e # Link
      BY <1>3, <1>8
    <2>3. one[Link].cycle = bit /\ one[Link] \in Trbs
      BY <1>3, <1>5, <1>6, <2>1, <2>2
    <2>4. PICK link \in Trbs : link = [one[Link] EXCEPT !.cycle = 1 - @] /\ link.cycle = c
      BY <2>1, <2>3, TrbFlips
    <2>5. PICK two \in [0 .. Link -> Trbs] : two = [one EXCEPT ![Link] = link]
      BY <1>3
    <2>6. two[Link] = link /\ \A i \in 0 .. Link - 1 : two[i] = one[i]
      BY <1>3, <2>5
    <2>7. q = [trbs |-> two, enqueue |-> 0, cycle |-> bit]
      BY <1>1, <1>2, <1>4, <1>8, <2>1, <2>4, <2>5 DEF enqueueCommand
    <2>8. \A i \in 0 .. Link : two[i].cycle = IF i < 0 THEN bit ELSE 1 - bit
      <3>1. ASSUME NEW i \in 0 .. Link PROVE two[i].cycle = c
        <4>1. CASE i = Link
          BY <2>4, <2>6, <4>1
        <4>2. CASE i = e
          BY <1>2, <1>3, <1>6, <2>2, <2>6, <4>2
        <4>3. CASE i < e
          <5>1. i \in 0 .. Link - 1 /\ i # e
            BY <1>3, <4>3
          <5>2. two[i] = trbs[i]
            BY <1>6, <2>6, <5>1
          <5> QED BY <1>5, <4>3, <5>2
        <4> QED BY <1>3, <2>2, <4>1, <4>2, <4>3
      <3> QED BY <2>1, <3>1
    <2>9. \A i \in 0 .. Link - 1 : two[i].ioc = IF i = e THEN ioc ELSE trbs[i].ioc
      BY <1>2, <1>3, <1>6, <2>6
    <2> QED BY <1>1, <1>3, <1>8, <2>1, <2>7, <2>8, <2>9 DEF TransferRings, OnTurn, After
  <1> QED BY <1>7, <1>8

LEMMA LagGrows ==
    ASSUME NEW size \in Nat, NEW w \in 0 .. size - 1, NEW d \in {0, 1}, NEW r \in 0 .. size,
           NEW c \in {0, 1}, Lag(r, c, w, d, size) \in 0 .. size - 2,
           NEW f, f = IF w + 1 < size THEN d ELSE 1 - d
    PROVE  Lag(r, c, After(w, size), f, size) = Lag(r, c, w, d, size) + 1
  BY DEF Lag, After

LEMMA LagShrinks ==
    ASSUME NEW size \in Nat, size >= 2, NEW w \in 0 .. size - 1, NEW d \in {0, 1}, NEW r \in 0 .. size - 1,
           NEW c \in {0, 1}, NEW n \in 1 .. size - 1, Lag(r, c, w, d, size) = n
    PROVE  /\ Lag(r + 1, c, w, d, size) = n - 1
           /\ r + 1 = size => Lag(0, 1 - c, w, d, size) = n - 1
           /\ Distance(r, w, size) = n
  BY DEF Lag, Distance

\* The TRB that the controller executes k TRBs from now.
TrbAt(k) == Turn(IF AtLink THEN 0 ELSE hc.dequeue, k, Link)

LEMMA OnRingIs ==
    ASSUME RingTypes, CyclesInv
    PROVE  /\ unreadTrbs \in 0 .. Link - 1
           /\ OnRing = [k \in 1 .. unreadTrbs |-> ring.trbs[TrbAt(k - 1)].ioc]
           /\ \A k \in 0 .. Link - 1 : TrbAt(k) \in 0 .. Link - 1
           /\ \A k \in 0 .. unreadTrbs - 1 : Distance(TrbAt(k), ring.enqueue, Link) = unreadTrbs - k
           /\ AtLink => Visible /\ hc.cycle = 1 - ring.cycle
  <1>1. PICK trbs \in [0 .. Link -> Trbs], e \in 0 .. Link - 1, c \in {0, 1} :
            /\ ring = [trbs |-> trbs, enqueue |-> e, cycle |-> c]
            /\ trbs = ring.trbs /\ e = ring.enqueue /\ c = ring.cycle
    BY DEF RingTypes, TransferRings
  <1>2. PICK r \in 0 .. Link, d \in {0, 1} : r = hc.dequeue /\ d = hc.cycle
    BY DEF RingTypes, Controllers
  <1>3. Link \in Nat /\ Link >= 4 /\ Size \in Nat /\ Size = Link + 1 /\ 0 .. Size - 1 = 0 .. Link
    BY Sizes, RingAssumption DEF RingAssumption, Link
  <1>4. PICK n \in 0 .. Link - 1 : n = unreadTrbs /\ n = Lag(r, d, e, c, Link)
    BY <1>1, <1>2 DEF CyclesInv, unreadTrbs
  <1>5. OnTurn(trbs, Link, e, c) /\ trbs[Link].cycle = 1 - c
    BY <1>1, <1>3 DEF CyclesInv, OnTurn
  <1>6. PICK s \in 0 .. Link - 1, b \in {0, 1} :
            /\ s = IF AtLink THEN 0 ELSE r
            /\ b = IF AtLink THEN 1 - d ELSE d
            /\ n = Lag(s, b, e, c, Link)
            /\ AtLink => d = 1 - c
    <2>1. CASE r = Link
      <3>1. d = 1 - c /\ n = e
        BY <1>3, <1>4, <2>1 DEF Lag
      <3> QED BY <1>2, <1>3, <2>1, <3>1 DEF AtLink, Lag
    <2>2. CASE r # Link
      BY <1>2, <1>3, <1>4, <2>2 DEF AtLink
    <2> QED BY <2>1, <2>2
  <1>7. PICK found : found = Found(trbs, Link, s, b)
                     /\ found = [k \in 1 .. n |-> trbs[Turn(s, k - 1, Link)]]
    BY <1>3, <1>5, <1>6, FoundIs
  <1>8. AtLink => Visible /\ hc.cycle = 1 - ring.cycle
    BY <1>1, <1>2, <1>5, <1>6 DEF AtLink, Visible
  <1>9. \A k \in 0 .. Link - 1 : TrbAt(k) = Turn(s, k, Link)
    BY <1>2, <1>6 DEF TrbAt
  <1>10. /\ \A k \in 0 .. Link - 1 : TrbAt(k) \in 0 .. Link - 1
         /\ \A k \in 0 .. n - 1 : Distance(TrbAt(k), e, Link) = n - k
    <2>1. n = e - s \/ n = e - s + Link
      BY <1>3, <1>6 DEF Lag
    <2>2. ASSUME NEW k \in 0 .. Link - 1 PROVE TrbAt(k) \in 0 .. Link - 1
      BY <1>3, <1>9, TurnIn
    <2>3. ASSUME NEW k \in 0 .. n - 1 PROVE Distance(TrbAt(k), e, Link) = n - k
      <3>1. k \in 0 .. Link - 1 /\ k < n
        BY <1>3, <2>3
      <3>2. Distance(Turn(s, k, Link), e, Link) = n - k
        BY <1>3, <2>1, <3>1, DistanceTurn
      <3> QED BY <1>9, <3>1, <3>2
    <2> QED BY <2>2, <2>3
  <1>11. OnRing = [k \in DOMAIN found |-> found[k].ioc]
    <2>1. CASE AtLink
      BY <1>1, <1>2, <1>6, <1>7, <1>8, <2>1 DEF OnRing
    <2>2. CASE ~AtLink
      BY <1>1, <1>2, <1>6, <1>7, <2>2 DEF OnRing
    <2> QED BY <2>1, <2>2
  <1>12. OnRing = [k \in 1 .. n |-> trbs[TrbAt(k - 1)].ioc]
    <2>1. DOMAIN found = 1 .. n
      BY <1>7
    <2>2. ASSUME NEW k \in 1 .. n PROVE found[k] = trbs[TrbAt(k - 1)]
      <3>1. k - 1 \in 0 .. Link - 1
        BY <1>3
      <3> QED BY <1>7, <1>9, <3>1
    <2> QED BY <1>11, <2>1, <2>2
  <1> QED BY <1>1, <1>4, <1>8, <1>10, <1>12

\* A ring q is the ring r with n more entries, of which the last has the flag.
Grown(r, q, n, last) ==
    /\ q \in TransferRings /\ OnTurn(q.trbs, Size, q.enqueue, q.cycle)
    /\ \A i \in 0 .. Link - 1 :
        LET before == Distance(i, r.enqueue, Link)
        IN  Distance(i, q.enqueue, Link) = IF before + n <= Link THEN before + n ELSE before + n - Link
    /\ \A i \in 0 .. Link - 1 :
        q.trbs[i].ioc <=> IF Distance(i, q.enqueue, Link) > n THEN r.trbs[i].ioc
                          ELSE Distance(i, q.enqueue, Link) = 1 /\ last
    /\ \A p \in 0 .. Link, c \in {0, 1} :
        LET before == Lag(p, c, r.enqueue, r.cycle, Link)
        IN  before \in 0 .. Link - 1 - n => Lag(p, c, q.enqueue, q.cycle, Link) = before + n

LEMMA GrownNone ==
    ASSUME NEW r \in TransferRings, OnTurn(r.trbs, Size, r.enqueue, r.cycle)
    PROVE  Grown(r, r, 0, FALSE)
  <1>1. r.enqueue \in 0 .. Link - 1 /\ r.cycle \in {0, 1}
    BY DEF TransferRings
  <1>2. Link \in Nat
    BY Sizes
  <1>3. \A i \in 0 .. Link - 1 : Distance(i, r.enqueue, Link) \in 1 .. Link
    BY <1>1, <1>2, DistanceIs
  <1>4. \A p \in 0 .. Link, c \in {0, 1} : Lag(p, c, r.enqueue, r.cycle, Link) \in Int
    BY <1>1, <1>2 DEF Lag
  <1> QED BY <1>2, <1>3, <1>4 DEF Grown

LEMMA Grows ==
    ASSUME NEW r \in TransferRings, NEW b, NEW n \in 0 .. 2, Grown(r, b, n, FALSE), NEW ioc \in BOOLEAN
    PROVE  Grown(r, enqueueCommand(b, ioc), n + 1, ioc)
  <1>1. PICK q : q = enqueueCommand(b, ioc)
    OBVIOUS
  <1>2. b \in TransferRings /\ OnTurn(b.trbs, Size, b.enqueue, b.cycle)
    BY DEF Grown
  <1>3. /\ q \in TransferRings /\ OnTurn(q.trbs, Size, q.enqueue, q.cycle)
        /\ q.enqueue = After(b.enqueue, Link)
        /\ q.cycle = IF b.enqueue + 1 < Link THEN b.cycle ELSE 1 - b.cycle
        /\ \A i \in 0 .. Link - 1 : q.trbs[i].ioc = IF i = b.enqueue THEN ioc ELSE b.trbs[i].ioc
    BY <1>1, <1>2, EnqueueIs
  <1>4. PICK e, f, g \in 0 .. Link - 1 : e = r.enqueue /\ f = b.enqueue /\ g = q.enqueue
    BY <1>2, <1>3 DEF TransferRings
  <1>5. PICK rc, bc, qc \in {0, 1} : rc = r.cycle /\ bc = b.cycle /\ qc = q.cycle
    BY <1>2, <1>3 DEF TransferRings
  <1>6. Link \in Nat /\ Link >= 4
    BY Sizes
  <1>7. \A i \in 0 .. Link - 1 :
            /\ Distance(i, e, Link) \in 1 .. Link /\ Distance(i, f, Link) \in 1 .. Link
            /\ Distance(i, g, Link) = IF i = f THEN 1 ELSE Distance(i, f, Link) + 1
            /\ Distance(i, f, Link) = Link <=> i = f
    <2> SUFFICES ASSUME NEW i \in 0 .. Link - 1
                 PROVE  /\ Distance(i, e, Link) \in 1 .. Link /\ Distance(i, f, Link) \in 1 .. Link
                        /\ Distance(i, g, Link) = IF i = f THEN 1 ELSE Distance(i, f, Link) + 1
                        /\ Distance(i, f, Link) = Link <=> i = f
      OBVIOUS
    <2>1. g = After(f, Link)
      BY <1>3, <1>4
    <2>2. Distance(i, After(f, Link), Link) = IF i = f THEN 1 ELSE Distance(i, f, Link) + 1
      BY <1>6, DistanceAfter
    <2>3. Distance(i, e, Link) \in 1 .. Link
      BY <1>6, DistanceIs
    <2>4. Distance(i, f, Link) \in 1 .. Link
      BY <1>6, DistanceIs
    <2>5. Distance(i, f, Link) = Link <=> i = f
      BY <1>6, DistanceIs
    <2> QED BY <2>1, <2>2, <2>3, <2>4, <2>5
  <1>8. ASSUME NEW i \in 0 .. Link - 1
        PROVE  Distance(i, g, Link) =
                   IF Distance(i, e, Link) + (n + 1) <= Link THEN Distance(i, e, Link) + (n + 1)
                   ELSE Distance(i, e, Link) + (n + 1) - Link
    <2>1. Distance(i, f, Link) = IF Distance(i, e, Link) + n <= Link THEN Distance(i, e, Link) + n
                                ELSE Distance(i, e, Link) + n - Link
      BY <1>4 DEF Grown
    <2> QED BY <1>6, <1>7, <2>1
  <1>9. ASSUME NEW i \in 0 .. Link - 1
        PROVE  q.trbs[i].ioc <=> IF Distance(i, g, Link) > n + 1 THEN r.trbs[i].ioc
                                 ELSE Distance(i, g, Link) = 1 /\ ioc
    <2>1. b.trbs[i].ioc <=> IF Distance(i, f, Link) > n THEN r.trbs[i].ioc ELSE FALSE
      BY <1>4 DEF Grown
    <2>2. CASE i = f
      <3>1. Distance(i, g, Link) = 1 /\ ~(Distance(i, g, Link) > n + 1)
        BY <1>7, <2>2
      <3>2. q.trbs[i].ioc = ioc
        BY <1>3, <1>4, <2>2
      <3> QED BY <3>1, <3>2
    <2>3. CASE i # f
      <3>1. Distance(i, g, Link) # 1 /\ (Distance(i, g, Link) > n + 1 <=> Distance(i, f, Link) > n)
        BY <1>6, <1>7, <2>3
      <3>2. q.trbs[i].ioc = b.trbs[i].ioc
        BY <1>3, <1>4, <2>3
      <3> QED BY <2>1, <3>1, <3>2
    <2> QED BY <2>2, <2>3
  <1>10. ASSUME NEW p \in 0 .. Link, NEW c \in {0, 1}, Lag(p, c, e, rc, Link) \in 0 .. Link - 1 - (n + 1)
         PROVE  Lag(p, c, g, qc, Link) = Lag(p, c, e, rc, Link) + (n + 1)
    <2>1. PICK m \in 0 .. Link - 1 - (n + 1) : m = Lag(p, c, e, rc, Link)
      BY <1>10
    <2>2. m \in 0 .. Link - 1 - n
      BY <1>6, <2>1
    <2>3. Lag(p, c, f, bc, Link) = m + n
      BY <1>4, <1>5, <2>1, <2>2 DEF Grown
    <2>4. m + n \in 0 .. Link - 2
      BY <1>6, <2>1
    <2>5. qc = IF f + 1 < Link THEN bc ELSE 1 - bc
      BY <1>3, <1>4, <1>5
    <2>6. Lag(p, c, After(f, Link), qc, Link) = m + n + 1
      BY <1>6, <2>3, <2>4, <2>5, LagGrows
    <2> QED BY <1>3, <1>4, <2>1, <2>6
  <1> QED BY <1>1, <1>3, <1>4, <1>5, <1>8, <1>9, <1>10 DEF Grown

-----------------------------------------------------------------------------
\* The queue. In a step the first k entries leave, n stay, and m are appended.
Carried(q, p, k, n, m) ==
    /\ n \in Nat /\ DOMAIN q = 1 .. n + k /\ DOMAIN p = 1 .. n + m
    /\ \A i \in 1 .. n : p[i] = q[i + k]
Appended(p, n, x) == p[n + 1] = x

LEMMA PassNone ==
    ASSUME NEW S, NEW q \in Seq(S)
    PROVE  \E n \in Nat : Carried(q, q, 0, n, 0)
  <1>1. PICK n \in Nat : n = Len(q)
    OBVIOUS
  <1>2. DOMAIN q = 1 .. n /\ n + 0 = n
    BY <1>1
  <1>3. \A i \in 1 .. n : i + 0 = i
    OBVIOUS
  <1>4. Carried(q, q, 0, n, 0)
    BY <1>2, <1>3 DEF Carried
  <1> QED BY <1>4

LEMMA PassAppend ==
    ASSUME NEW S, NEW q \in Seq(S), NEW x \in S, NEW p, p = Append(q, x)
    PROVE  p \in Seq(S) /\ \E n \in Nat : Carried(q, p, 0, n, 1) /\ Appended(p, n, x)
  <1>1. PICK n \in Nat : n = Len(q)
    OBVIOUS
  <1>2. DOMAIN q = 1 .. n /\ Len(Append(q, x)) = n + 1
    BY <1>1
  <1>3. Append(q, x) \in Seq(S) /\ DOMAIN Append(q, x) = 1 .. n + 1
    BY <1>1
  <1>4. \A i \in 1 .. n : Append(q, x)[i] = q[i]
    BY <1>1
  <1>5. Append(q, x)[n + 1] = x
    BY <1>1
  <1>6. \A i \in 1 .. n : i + 0 = i
    OBVIOUS
  <1>7. n + 0 = n
    OBVIOUS
  <1> QED BY <1>2, <1>3, <1>4, <1>5, <1>6, <1>7 DEF Carried, Appended

LEMMA PassTail ==
    ASSUME NEW S, NEW q \in Seq(S), q # <<>>, NEW p, p = Tail(q)
    PROVE  p \in Seq(S) /\ Head(q) = q[1] /\ 1 \in DOMAIN q /\ \E n \in Nat : Carried(q, p, 1, n, 0)
  <1>1. PICK n \in Nat : n = Len(q) - 1
    OBVIOUS
  <1>2. DOMAIN q = 1 .. n + 1 /\ Head(q) = q[1]
    BY <1>1
  <1>3. Tail(q) \in Seq(S) /\ Len(Tail(q)) = n
    BY <1>1
  <1>4. \A i \in 1 .. n : Tail(q)[i] = q[i + 1]
    BY <1>1
  <1>5. DOMAIN Tail(q) = 1 .. n + 0
    BY <1>1, <1>3
  <1>6. 1 \in DOMAIN q
    BY <1>1, <1>2
  <1> QED BY <1>2, <1>3, <1>4, <1>5, <1>6 DEF Carried

LEMMA PassTurn ==
    ASSUME NEW S, NEW q \in Seq(S), q # <<>>, NEW x \in S, NEW p, p = Append(Tail(q), x)
    PROVE  /\ p \in Seq(S) /\ Head(q) = q[1] /\ 1 \in DOMAIN q
           /\ \E n \in Nat : Carried(q, p, 1, n, 1) /\ Appended(p, n, x)
  <1>1. PICK r : r = Tail(q)
    OBVIOUS
  <1>2. r \in Seq(S) /\ Head(q) = q[1] /\ 1 \in DOMAIN q
    BY <1>1, PassTail
  <1>3. PICK n \in Nat : Carried(q, r, 1, n, 0)
    BY <1>1, PassTail
  <1>4. PICK l \in Nat : Carried(r, p, 0, l, 1) /\ Appended(p, l, x)
    BY <1>1, <1>2, PassAppend
  <1>5. p \in Seq(S)
    BY <1>1, <1>2, PassAppend
  <1>6. l \in Nat /\ n \in Nat /\ 1 .. n + 0 = 1 .. l + 0
    BY <1>3, <1>4 DEF Carried
  <1>7. n = l
    BY <1>6
  <1>8. \A i \in 1 .. n : i + 0 = i
    BY <1>6
  <1>9. Carried(q, p, 1, n, 1)
    BY <1>3, <1>4, <1>7, <1>8 DEF Carried
  <1> QED BY <1>2, <1>4, <1>5, <1>7, <1>9

\* What the entries of the queue are.
Typed(q) ==
    \A i \in DOMAIN q :
        /\ i \in Nat /\ i >= 1
        /\ q[i].kind = "await" => q[i].client \in Clients /\ q[i].code \in Codes \ {0}
        /\ q[i].kind = "fire" => q[i].code \in Codes \ {0} /\ q[i].slot \in Slots
        /\ q[i].kind = "woken" => q[i].client \in Clients /\ q[i].slot \in Slots

LEMMA QueueTyped ==
    ASSUME NEW q \in Seq(Entries)
    PROVE  Typed(q)
  <1> SUFFICES ASSUME NEW i \in DOMAIN q
               PROVE  /\ i \in Nat /\ i >= 1
                      /\ q[i].kind = "await" => q[i].client \in Clients /\ q[i].code \in Codes \ {0}
                      /\ q[i].kind = "fire" => q[i].code \in Codes \ {0} /\ q[i].slot \in Slots
                      /\ q[i].kind = "woken" => q[i].client \in Clients /\ q[i].slot \in Slots
    BY DEF Typed
  <1>1. i \in Nat /\ i >= 1
    OBVIOUS
  <1>2. PICK x \in Entries : x = q[i]
    OBVIOUS
  <1>3. CASE x \in Awaits
    BY <1>1, <1>2, <1>3 DEF Awaits
  <1>4. CASE x \in Fires
    BY <1>1, <1>2, <1>4 DEF Fires
  <1>5. CASE x \in Wakes
    BY <1>1, <1>2, <1>5 DEF Wakes
  <1>6. CASE x \in [kind : {"interrupt", "loop"}]
    BY <1>1, <1>2, <1>6
  <1> QED BY <1>2, <1>3, <1>4, <1>5, <1>6 DEF Entries

LEMMA EntriesAre ==
    /\ \A c \in Clients, code \in Codes \ {0} :
        Await(c, code) \in Entries /\ Await(c, code) \in Awaits
    /\ \A code \in Codes \ {0}, s \in Slots : Fire(code, s) \in Entries
    /\ \A c \in Clients, s \in Slots : Woken(c, s) \in Entries
    /\ Interrupt \in Entries /\ Loop \in Entries
  <1>1. ASSUME NEW c \in Clients, NEW code \in Codes \ {0}
        PROVE  Await(c, code) \in Awaits
    BY DEF Await, Awaits
  <1>2. ASSUME NEW code \in Codes \ {0}, NEW s \in Slots PROVE Fire(code, s) \in Fires
    BY DEF Fire, Fires
  <1>3. ASSUME NEW c \in Clients, NEW s \in Slots PROVE Woken(c, s) \in Wakes
    BY DEF Woken, Wakes
  <1>4. Interrupt \in [kind : {"interrupt", "loop"}] /\ Loop \in [kind : {"interrupt", "loop"}]
    BY DEF Interrupt, Loop
  <1> QED BY <1>1, <1>2, <1>3, <1>4 DEF Entries

\* Each entry was there, or is one of the new ones.
Stays(q, p, j, i) == j \in DOMAIN q /\ i \in DOMAIN p /\ p[i] = q[j]

LEMMA CarriedIs ==
    ASSUME NEW q, NEW p, NEW k \in {0, 1}, NEW n \in Nat, NEW m \in 0 .. 2, Carried(q, p, k, n, m)
    PROVE  /\ \A i \in DOMAIN p : /\ i \in Nat /\ i >= 1 /\ i <= n + m
                                  /\ i <= n => i \in 1 .. n /\ Stays(q, p, i + k, i)
           /\ \A j \in DOMAIN q : /\ j \in Nat /\ j >= 1
                                  /\ j # k => j - k \in 1 .. n /\ Stays(q, p, j, j - k)
           /\ \A i \in 1 .. m : n + i \in DOMAIN p
           /\ 1 \in DOMAIN q \/ k = 0
  <1>1. n \in Nat /\ DOMAIN q = 1 .. n + k /\ DOMAIN p = 1 .. n + m
    BY DEF Carried
  <1>2. ASSUME NEW i \in 1 .. n PROVE i + k \in DOMAIN q /\ p[i] = q[i + k]
    <2>1. i + k \in 1 .. n + k
      BY <1>1
    <2> QED BY <1>1, <2>1 DEF Carried
  <1>3. ASSUME NEW i \in DOMAIN p PROVE i \in Nat /\ i >= 1 /\ i <= n + m /\ (i <= n => i \in 1 .. n)
    BY <1>1
  <1>4. ASSUME NEW j \in DOMAIN q, j # k PROVE j - k \in 1 .. n /\ j - k \in DOMAIN p /\ p[j - k] = q[j] /\ (j - k) + k = j
    <2>1. j - k \in 1 .. n /\ (j - k) + k = j /\ j - k \in 1 .. n + m
      BY <1>1, <1>4
    <2>2. p[j - k] = q[(j - k) + k]
      BY <1>2, <2>1
    <2>3. j - k \in DOMAIN p
      BY <1>1, <2>1
    <2> QED BY <2>1, <2>2, <2>3
  <1>5. \A j \in DOMAIN q : j \in Nat /\ j >= 1
    BY <1>1
  <1>6. \A i \in 1 .. m : n + i \in DOMAIN p
    BY <1>1
  <1>7. 1 \in DOMAIN q \/ k = 0
    BY <1>1
  <1> QED BY <1>1, <1>2, <1>3, <1>4, <1>5, <1>6, <1>7 DEF Stays

LEMMA CarriedTailIs ==
    ASSUME NEW q, NEW p, NEW n \in Nat, Carried(q, p, 1, n, 0)
    PROVE  /\ \A i \in DOMAIN p : i \in Nat /\ i >= 1 /\ i <= n /\ Stays(q, p, i + 1, i)
           /\ \A j \in DOMAIN q : j \in Nat /\ j >= 1 /\ (j # 1 => Stays(q, p, j, j - 1))
  <1>1. DOMAIN q = 1 .. n + 1 /\ DOMAIN p = 1 .. n /\ \A i \in 1 .. n : p[i] = q[i + 1]
    BY DEF Carried
  <1>2. ASSUME NEW i \in 1 .. n PROVE i + 1 \in 1 .. n + 1
    OBVIOUS
  <1>3. ASSUME NEW j \in 1 .. n + 1, j # 1 PROVE j - 1 \in 1 .. n /\ (j - 1) + 1 = j
    BY <1>3
  <1>4. \A i \in DOMAIN p : i \in Nat /\ i >= 1 /\ i <= n /\ Stays(q, p, i + 1, i)
    BY <1>1, <1>2 DEF Stays
  <1>5. ASSUME NEW j \in DOMAIN q, j # 1 PROVE Stays(q, p, j, j - 1)
    <2>1. PICK i \in 1 .. n : i = j - 1 /\ i + 1 = j
      BY <1>1, <1>3, <1>5
    <2>2. p[i] = q[j]
      BY <1>1, <2>1
    <2> QED BY <1>1, <2>1, <2>2 DEF Stays
  <1>6. \A j \in DOMAIN q : j \in Nat /\ j >= 1
    BY <1>1
  <1> QED BY <1>4, <1>5, <1>6

-----------------------------------------------------------------------------
\* The threads in a transfer.
LEMMA BusySizes ==
    ASSUME NEW B, B \subseteq Clients
    PROVE  /\ IsFiniteSet(B) /\ Cardinality(B) \in Nat /\ Cardinality(B) <= Cardinality(Clients)
           /\ Cardinality(Clients) \in Nat
           /\ \A c \in Clients \ B : /\ Cardinality(B \cup {c}) = Cardinality(B) + 1
                                     /\ Cardinality(B) + 1 <= Cardinality(Clients)
           /\ \A c \in B : Cardinality(B \ {c}) = Cardinality(B) - 1
           /\ B = {} <=> Cardinality(B) = 0
  <1>1. IsFiniteSet(Clients)
    BY Sizes
  <1>2. IsFiniteSet(B) /\ Cardinality(B) <= Cardinality(Clients)
    BY <1>1, FS_Subset
  <1>3. Cardinality(B) \in Nat /\ Cardinality(Clients) \in Nat
    BY <1>1, <1>2, FS_CardinalityType
  <1>4. ASSUME NEW c \in Clients \ B
        PROVE  Cardinality(B \cup {c}) = Cardinality(B) + 1 /\ Cardinality(B) + 1 <= Cardinality(Clients)
    <2>1. PICK D : D = B \cup {c}
      OBVIOUS
    <2>2. D \subseteq Clients /\ Cardinality(B \cup {c}) = Cardinality(B) + 1
      BY <1>2, <1>4, <2>1, FS_AddElement
    <2>3. Cardinality(D) <= Cardinality(Clients)
      BY <1>1, <2>2, FS_Subset
    <2> QED BY <2>1, <2>2, <2>3
  <1>5. ASSUME NEW c \in B PROVE Cardinality(B \ {c}) = Cardinality(B) - 1
    BY <1>2, <1>5, FS_RemoveElement
  <1>6. B = {} <=> Cardinality(B) = 0
    BY <1>2, FS_EmptySet
  <1> QED BY <1>2, <1>3, <1>4, <1>5, <1>6

LEMMA CodesAre ==
    /\ \A code \in Codes : code \in Int /\ code <= Link /\ (code > 0 => code - 1 \in 0 .. Link - 1)
    /\ \A code \in 1 .. Link : code \in Codes \ {0}
    /\ 0 \in Codes
    /\ \A p \in Ports : -p \in Codes \ {0} /\ ~(-p > 0) /\ p \in Nat
  BY Sizes DEF Codes

\* What Submit does: the thread was idle, and its TRBs fit behind those that
\* the controller has yet to execute.
Submitted(c, code, n) ==
    /\ c \in Users /\ code \in 1 .. Link /\ n \in 1 .. 3 /\ client[c] = 0
    /\ Grown(ring, ring', n, TRUE) /\ Distance(code - 1, ring'.enqueue, Link) = 1
    /\ client' = [client EXCEPT ![c] = code]
    /\ queue' = Append(queue, Await(c, code))
    /\ IF n = 1 THEN unreadTrbs <= Cardinality(Busy)
       ELSE Busy = {} /\ use = "control" /\ unreadTrbs = 0
    /\ unreadTrbs + n <= Link - 1
    /\ UNCHANGED <<use, events, hc, pending, port, connects, waiting, aborted>>

LEMMA SubmitIs ==
    ASSUME RingTypes, CyclesInv, AwaitsInv, TransfersInv,
           NEW c \in Clients, NEW begun \in Transfers(c), Submit(c, begun)
    PROVE  \E n \in 1 .. 3, code \in 1 .. Link : Submitted(c, code, n)
  <1>1. ring \in TransferRings /\ OnTurn(ring.trbs, Size, ring.enqueue, ring.cycle)
    BY DEF RingTypes, CyclesInv
  <1>2. Grown(ring, ring, 0, FALSE)
    BY <1>1, GrownNone
  <1>3. /\ 0 \in 0 .. 2 /\ 1 \in 0 .. 2 /\ 2 \in 0 .. 2 /\ FALSE \in BOOLEAN /\ TRUE \in BOOLEAN
        /\ 0 + 1 = 1 /\ 1 + 1 = 2
    OBVIOUS
  <1>4. PICK one : one = enqueueCommand(ring, FALSE)
    OBVIOUS
  <1>5. Grown(ring, one, 0 + 1, FALSE)
    BY <1>1, <1>2, <1>3, <1>4, Grows, Zenon
  <1>6. PICK two : two = enqueueCommand(one, FALSE)
    OBVIOUS
  <1>7. Grown(ring, two, 1 + 1, FALSE)
    BY <1>1, <1>3, <1>5, <1>6, Grows, Zenon
  <1>8. PICK m \in 0 .. 2 : Grown(ring, begun, m, FALSE) /\ (m = 0 \/ use = "control")
    <2>1. CASE use = "endpoint"
      <3>1. begun = ring
        BY <2>1 DEF Transfers, xhciNormal
      <3> QED BY <1>2, <1>3, <3>1, Zenon
    <2>2. CASE use = "commands"
      <3>1. begun = ring
        BY <2>2 DEF Transfers, xhciCommand
      <3> QED BY <1>2, <1>3, <3>1, Zenon
    <2>3. CASE use = "control"
      <3>1. begun \in {one, two}
        BY <1>4, <1>6, <2>3 DEF Transfers, doXhciCommand, xhciGetDescriptor
      <3>2. CASE begun = one
        BY <1>3, <1>5, <2>3, <3>2, Zenon
      <3>3. CASE begun = two
        BY <1>3, <1>7, <2>3, <3>3, Zenon
      <3> QED BY <3>1, <3>2, <3>3
    <2> QED BY <2>1, <2>2, <2>3 DEF RingTypes
  <1>9. Grown(ring, ring', m + 1, TRUE)
    BY <1>1, <1>8, Grows DEF Submit
  <1>10. begun \in TransferRings /\ OnTurn(begun.trbs, Size, begun.enqueue, begun.cycle)
    BY <1>8 DEF Grown
  <1>11. PICK e \in 0 .. Link - 1 : e = begun.enqueue
    BY <1>10 DEF TransferRings
  <1>12. ring'.enqueue = After(e, Link)
    BY <1>10, <1>11, EnqueueIs DEF Submit
  <1>13. Link \in Nat /\ Link >= 4 /\ Cardinality(Clients) < Link
    BY Sizes
  <1>14. Distance(e, ring'.enqueue, Link) = 1 /\ e + 1 \in 1 .. Link /\ (e + 1) - 1 = e
    BY <1>12, <1>13, DistanceAfter
  <1>15. client[c] = 0 /\ c \notin Busy /\ Busy \subseteq Clients
    BY DEF Submit, Busy
  <1>16. c \in Users
    <2>1. use \in {"commands", "control"} => c = Initializer
      BY DEF Transfers
    <2> QED BY <2>1 DEF Users, RingTypes
  <1>17. use # "endpoint" => Busy = {}
    <2>1. use # "endpoint" => c = Initializer
      BY <1>16 DEF Users
    <2>2. \A d \in Clients : client[d] # 0 /\ d # Initializer => use = "endpoint"
      BY DEF AwaitsInv
    <2> QED BY <1>15, <2>1, <2>2 DEF Busy
  <1>18. /\ Cardinality(Busy) \in Nat /\ Cardinality(Busy) + 1 <= Cardinality(Clients)
         /\ Cardinality(Clients) \in Nat
    BY <1>15, BusySizes
  <1>19. unreadTrbs \in 0 .. Link - 1 /\ unreadTrbs <= Cardinality(Busy)
    BY <1>17 DEF CyclesInv, TransfersInv
  <1>20. use # "endpoint" => unreadTrbs = 0
    <2>1. Busy = {} => Cardinality(Busy) = 0
      BY <1>15, BusySizes
    <2> QED BY <1>13, <1>17, <1>19, <2>1
  <1>21. unreadTrbs + (m + 1) <= Link - 1
    <2>1. CASE m = 0
      BY <1>13, <1>18, <1>19, <2>1
    <2>2. CASE m # 0
      BY <1>8, <1>13, <1>20, <2>2
    <2> QED BY <2>1, <2>2
  <1>22. m + 1 \in 1 .. 3 /\ (m + 1 = 1 <=> m = 0)
    OBVIOUS
  <1>23. Submitted(c, e + 1, m + 1)
    BY <1>8, <1>9, <1>11, <1>14, <1>15, <1>16, <1>17, <1>19, <1>20, <1>21, <1>22 DEF Submit, Submitted
  <1> QED BY <1>14, <1>22, <1>23

-----------------------------------------------------------------------------
\* What the controller's steps do to the rings.
Appends(x) == \E n \in Nat : Carried(queue, queue', 0, n, 1) /\ Appended(queue', n, x)
Keeps == \E n \in Nat : Carried(queue, queue', 0, n, 0)
Posted(code) ==
    /\ unreadEvents + 1 <= EventEnd - 1 /\ unreadEvents' = unreadEvents + 1
    /\ events' \in EventRings /\ events'.dequeue = events.dequeue
    /\ OnTurn(events'.trbs, EventEnd, hc'.enqueue, hc'.eventCycle)
    /\ \A s \in Slots : Distance(s, hc'.enqueue, EventEnd) =
                            IF s = hc.enqueue THEN 1 ELSE Distance(s, hc.enqueue, EventEnd) + 1
    /\ \A s \in Slots : events'.trbs[s].code = IF s = hc.enqueue THEN code ELSE events.trbs[s].code
    /\ queue' \in Seq(Entries) /\ (Keeps \/ Appends(Interrupt))
    /\ pending' \in BOOLEAN

LEMMA EventTrbIs ==
    ASSUME NEW c \in {0, 1}, NEW code \in Codes
    PROVE  \E trb \in EventTrbs : trb = [cycle |-> c, code |-> code] /\ trb.cycle = c /\ trb.code = code
  <1>1. [cycle |-> c, code |-> code] \in EventTrbs
    BY DEF EventTrbs
  <1>2. [cycle |-> c, code |-> code].cycle = c /\ [cycle |-> c, code |-> code].code = code
    OBVIOUS
  <1> WITNESS [cycle |-> c, code |-> code] \in EventTrbs
  <1> QED BY <1>2

CycleAfter(p, c, size) == IF p + 1 < size THEN c ELSE 1 - c

LEMMA Advances ==
    ASSUME NEW r, NEW c, NEW w \in Int, NEW f \in {0, 1}, NEW h,
           h = [dequeue |-> r, cycle |-> c, enqueue |-> w, eventCycle |-> f]
    PROVE  EventAdvanced(h) = [dequeue |-> r, cycle |-> c, enqueue |-> After(w, EventEnd),
                               eventCycle |-> CycleAfter(w, f, EventEnd)]
  <1>1. h.enqueue = w /\ h.eventCycle = f
    OBVIOUS
  <1>2. PICK g \in {0, 1} : g = 1 - f
    OBVIOUS
  <1>3. PICK v \in Int : v = w + 1
    OBVIOUS
  <1>4. CASE v < EventEnd
    <2>1. /\ EventAdvanced(h) = [h EXCEPT !.enqueue = v]
          /\ CycleAfter(w, f, EventEnd) = f /\ After(w, EventEnd) = v
      BY <1>1, <1>3, <1>4 DEF EventAdvanced, After, CycleAfter
    <2> QED BY <2>1
  <1>5. CASE ~(v < EventEnd)
    <2>1. /\ EventAdvanced(h) = [h EXCEPT !.enqueue = 0, !.eventCycle = g]
          /\ CycleAfter(w, f, EventEnd) = g /\ After(w, EventEnd) = 0
      BY <1>1, <1>2, <1>3, <1>5 DEF EventAdvanced, After, CycleAfter
    <2> QED BY <2>1
  <1> QED BY <1>4, <1>5

LEMMA PostIs ==
    ASSUME RingTypes, CyclesInv, NEW r \in 0 .. Link, NEW h,
           h = [dequeue |-> r, cycle |-> hc.cycle, enqueue |-> hc.enqueue, eventCycle |-> hc.eventCycle],
           NEW code \in Codes, Post(h, code)
    PROVE  Posted(code) /\ hc' \in Controllers /\ hc'.dequeue = r /\ hc'.cycle = hc.cycle
  <1>1. PICK trbs \in [Slots -> EventTrbs], d \in Slots, c \in {0, 1} :
            /\ events = [trbs |-> trbs, dequeue |-> d, cycle |-> c]
            /\ trbs = events.trbs /\ d = events.dequeue /\ c = events.cycle
    BY DEF RingTypes, EventRings
  <1>2. PICK r0 \in 0 .. Link, hcc \in {0, 1}, w \in Slots, f \in {0, 1} :
            /\ hc = [dequeue |-> r0, cycle |-> hcc, enqueue |-> w, eventCycle |-> f]
            /\ r0 = hc.dequeue /\ hcc = hc.cycle /\ w = hc.enqueue /\ f = hc.eventCycle
    BY DEF RingTypes, Controllers
  <1>3. EventEnd \in Nat /\ EventEnd >= 2
    BY Sizes
  <1>4. PICK trb \in EventTrbs : trb = [cycle |-> f, code |-> code] /\ trb.cycle = f /\ trb.code = code
    BY EventTrbIs
  <1>5. PICK trbs1 \in [Slots -> EventTrbs] : trbs1 = [trbs EXCEPT ![w] = trb]
    OBVIOUS
  <1>6. trbs1[w] = trb /\ \A i \in Slots : i # w => trbs1[i] = trbs[i]
    BY <1>5
  <1>7. events' = [trbs |-> trbs1, dequeue |-> d, cycle |-> c]
    BY <1>1, <1>2, <1>4, <1>5 DEF Post
  <1>8. PICK g \in {0, 1} : g = CycleAfter(w, f, EventEnd) /\ g = IF w + 1 < EventEnd THEN f ELSE 1 - f
    BY DEF CycleAfter
  <1>9. After(w, EventEnd) \in Slots
    BY <1>3, DistanceAfter DEF Slots
  <1>10. hc' = [dequeue |-> r, cycle |-> hcc, enqueue |-> After(w, EventEnd), eventCycle |-> g]
    <2>1. h = [dequeue |-> r, cycle |-> hcc, enqueue |-> w, eventCycle |-> f]
      BY <1>2
    <2>2. hc' = EventAdvanced(h)
      BY DEF Post
    <2>3. w \in Int
      BY DEF Slots
    <2>4. EventAdvanced(h)
              = [dequeue |-> r, cycle |-> hcc, enqueue |-> After(w, EventEnd),
                 eventCycle |-> CycleAfter(w, f, EventEnd)]
      BY <2>1, <2>3, Advances
    <2> QED BY <1>8, <2>2, <2>4
  <1>11. PICK x \in Slots : x = After(w, EventEnd)
    BY <1>9
  <1>12. /\ hc' \in Controllers /\ hc'.dequeue = r /\ hc'.cycle = hc.cycle /\ hc'.enqueue = x
         /\ hc'.eventCycle = g
    BY <1>2, <1>10, <1>11 DEF Controllers
  <1>13. PICK u \in 0 .. EventEnd - 1 : u = unreadEvents /\ u = Lag(d, c, w, f, EventEnd)
    BY <1>1, <1>2 DEF CyclesInv, unreadEvents
  <1>14. x # d
    <2>1. EventAdvanced(hc)
              = [dequeue |-> r0, cycle |-> hcc, enqueue |-> After(w, EventEnd),
                 eventCycle |-> g]
      <3>1. w \in Int
        BY DEF Slots
      <3>2. hc = [dequeue |-> r0, cycle |-> hcc, enqueue |-> w, eventCycle |-> f]
        BY <1>2
      <3>3. PICK g1 : g1 = hc
        OBVIOUS
      <3>4. g1 = [dequeue |-> r0, cycle |-> hcc, enqueue |-> w, eventCycle |-> f]
        BY <3>2, <3>3
      <3>5. EventAdvanced(g1) = [dequeue |-> r0, cycle |-> hcc, enqueue |-> After(w, EventEnd),
                                 eventCycle |-> CycleAfter(w, f, EventEnd)]
        BY <3>1, <3>4, Advances
      <3> QED BY <1>8, <3>3, <3>5
    <2> QED BY <1>1, <1>11, <2>1 DEF Post
  <1>15. u <= EventEnd - 2
    <2>1. CASE w + 1 < EventEnd
      BY <1>3, <1>11, <1>13, <1>14, <2>1 DEF After, Lag, Slots
    <2>2. CASE ~(w + 1 < EventEnd)
      BY <1>3, <1>11, <1>13, <1>14, <2>2 DEF After, Lag, Slots
    <2> QED BY <2>1, <2>2
  <1>16. unreadEvents' = u + 1
    <2>1. Lag(d, c, After(w, EventEnd), g, EventEnd) = u + 1
      <3>1. d \in 0 .. EventEnd /\ w \in 0 .. EventEnd - 1
        BY <1>3 DEF Slots
      <3>2. Lag(d, c, w, f, EventEnd) \in 0 .. EventEnd - 2
        BY <1>3, <1>13, <1>15
      <3> QED BY <1>3, <1>8, <1>13, <3>1, <3>2, LagGrows
    <2> QED BY <1>7, <1>11, <1>12, <2>1 DEF unreadEvents
  <1>17. OnTurn(trbs1, EventEnd, x, g)
    <2>1. \A i \in Slots : trbs[i].cycle = IF i < w THEN f ELSE 1 - f
      BY <1>1, <1>2 DEF CyclesInv, OnTurn, Slots
    <2>2. ASSUME NEW i \in Slots PROVE trbs1[i].cycle = IF i < x THEN g ELSE 1 - g
      <3>1. CASE i = w
        BY <1>3, <1>4, <1>6, <1>8, <1>11, <3>1 DEF After, Slots
      <3>2. CASE i # w
        <4>1. trbs1[i].cycle = IF i < w THEN f ELSE 1 - f
          BY <1>6, <2>1, <3>2
        <4> QED BY <1>3, <1>8, <1>11, <3>2, <4>1 DEF After, Slots
      <3> QED BY <3>1, <3>2
    <2> QED BY <2>2 DEF OnTurn, Slots
  <1>18. \A s \in Slots : Distance(s, x, EventEnd) = IF s = w THEN 1 ELSE Distance(s, w, EventEnd) + 1
    BY <1>3, <1>11, DistanceAfter DEF Slots
  <1>19. \A s \in Slots : trbs1[s].code = IF s = w THEN code ELSE trbs[s].code
    BY <1>4, <1>6
  <1>20. queue' \in Seq(Entries) /\ (Keeps \/ Appends(Interrupt))
    <2>1. queue \in Seq(Entries)
      BY DEF RingTypes
    <2>2. CASE pending
      <3>1. queue' = queue
        BY <2>2 DEF Post
      <3> QED BY <2>1, <3>1, PassNone DEF Keeps
    <2>3. CASE ~pending
      <3>1. queue' = Append(queue, Interrupt) /\ Interrupt \in Entries
        BY <2>3, EntriesAre DEF Post
      <3> QED BY <2>1, <3>1, PassAppend DEF Appends
    <2> QED BY <2>2, <2>3
  <1>21. pending' \in BOOLEAN
    BY DEF Post
  <1>22. events' \in EventRings /\ events'.dequeue = d /\ events'.trbs = trbs1
    BY <1>7 DEF EventRings
  <1>23. unreadEvents + 1 <= EventEnd - 1 /\ unreadEvents' = unreadEvents + 1
    BY <1>3, <1>13, <1>15, <1>16
  <1> QED BY <1>1, <1>2, <1>12, <1>17, <1>18, <1>19, <1>20, <1>21, <1>22, <1>23 DEF Posted

SameEventSide == hc'.enqueue = hc.enqueue /\ hc'.eventCycle = hc.eventCycle

LEMMA HcLinkIs ==
    ASSUME RingTypes, CyclesInv, HcLink
    PROVE  /\ hc' \in Controllers /\ SameEventSide
           /\ AtLink /\ hc'.dequeue = 0 /\ hc'.cycle = ring.cycle
           /\ unreadTrbs' = unreadTrbs
  <1>1. PICK r \in 0 .. Link, hcc \in {0, 1}, w \in Slots, f \in {0, 1} :
            /\ hc = [dequeue |-> r, cycle |-> hcc, enqueue |-> w, eventCycle |-> f]
            /\ r = hc.dequeue /\ hcc = hc.cycle /\ w = hc.enqueue /\ f = hc.eventCycle
    BY DEF RingTypes, Controllers
  <1>2. PICK e \in 0 .. Link - 1, c \in {0, 1} : e = ring.enqueue /\ c = ring.cycle
    BY DEF RingTypes, TransferRings
  <1>3. Link \in Nat /\ Link >= 4 /\ 0 .. Size - 1 = 0 .. Link
    BY Sizes, RingAssumption DEF RingAssumption, Link
  <1>4. r = Link /\ ring.trbs[r].cycle = hcc
    BY <1>1 DEF HcLink, Visible
  <1>5. ring.trbs[r].cycle = IF r < e THEN c ELSE 1 - c
    BY <1>2, <1>3, <1>4 DEF CyclesInv, OnTurn
  <1>6. hcc = 1 - c
    BY <1>3, <1>4, <1>5
  <1>7. PICK bit \in {0, 1} : bit = c /\ bit = 1 - hcc
    BY <1>6
  <1>8. hc' = [dequeue |-> 0, cycle |-> bit, enqueue |-> w, eventCycle |-> f]
    <2>1. hc' = [hc EXCEPT !.dequeue = 0, !.cycle = 1 - hc.cycle]
      BY DEF HcLink
    <2> QED BY <1>1, <1>7, <2>1
  <1>9. hc' \in Controllers /\ hc'.dequeue = 0 /\ hc'.cycle = c /\ hc'.enqueue = w /\ hc'.eventCycle = f
    BY <1>3, <1>7, <1>8 DEF Controllers
  <1>10. Lag(0, c, e, c, Link) = e /\ Lag(Link, 1 - c, e, c, Link) = e
    BY <1>3 DEF Lag
  <1>11. ring' = ring
    BY DEF HcLink
  <1>12. unreadTrbs' = e /\ unreadTrbs = e
    BY <1>1, <1>2, <1>4, <1>6, <1>9, <1>10, <1>11 DEF unreadTrbs
  <1> QED BY <1>1, <1>2, <1>4, <1>9, <1>12 DEF SameEventSide, AtLink

\* The controller takes the oldest TRB; for the last one of a transfer it reports.
Executed(r) ==
    /\ ~AtLink /\ r = hc.dequeue /\ hc'.dequeue = r + 1 /\ hc'.cycle = hc.cycle /\ hc' \in Controllers
    /\ unreadTrbs >= 1 /\ unreadTrbs' = unreadTrbs - 1
    /\ Distance(r, ring.enqueue, Link) = unreadTrbs
    /\ \/ ring.trbs[r].ioc /\ Posted(r + 1)
       \/ ~ring.trbs[r].ioc /\ SameEventSide /\ UNCHANGED <<events, pending, queue>>

LEMMA HcExecuteIs ==
    ASSUME RingTypes, CyclesInv, HcExecute
    PROVE  \E r \in 0 .. Link - 1 : Executed(r)
  <1>1. PICK r \in 0 .. Link, hcc \in {0, 1}, w \in Slots, f \in {0, 1} :
            /\ hc = [dequeue |-> r, cycle |-> hcc, enqueue |-> w, eventCycle |-> f]
            /\ r = hc.dequeue /\ hcc = hc.cycle /\ w = hc.enqueue /\ f = hc.eventCycle
    BY DEF RingTypes, Controllers
  <1>2. PICK e \in 0 .. Link - 1, c \in {0, 1} : e = ring.enqueue /\ c = ring.cycle
    BY DEF RingTypes, TransferRings
  <1>3. Link \in Nat /\ Link >= 4 /\ 0 .. Size - 1 = 0 .. Link
    BY Sizes, RingAssumption DEF RingAssumption, Link
  <1>4. r # Link /\ ring.trbs[r].cycle = hcc
    BY <1>1 DEF HcExecute, Visible
  <1>5. r \in 0 .. Link - 1 /\ r + 1 \in 0 .. Link /\ r + 1 \in 1 .. Link
    BY <1>3, <1>4
  <1>6. ring.trbs[r].cycle = IF r < e THEN c ELSE 1 - c
    BY <1>2, <1>3 DEF CyclesInv, OnTurn
  <1>7. PICK u \in 0 .. Link - 1 : u = unreadTrbs /\ u = Lag(r, hcc, e, c, Link)
    BY <1>1, <1>2 DEF CyclesInv, unreadTrbs
  <1>8. u >= 1
    <2>1. hcc = IF r < e THEN c ELSE 1 - c
      BY <1>4, <1>6
    <2>2. CASE hcc = c
      BY <1>3, <1>5, <1>7, <2>1, <2>2 DEF Lag
    <2>3. CASE hcc # c
      BY <1>3, <1>5, <1>7, <2>1, <2>3 DEF Lag
    <2> QED BY <2>2, <2>3
  <1>9. Lag(r + 1, hcc, e, c, Link) = u - 1 /\ Distance(r, e, Link) = u
    <2>1. u \in 1 .. Link - 1 /\ Link >= 2
      BY <1>3, <1>8
    <2> QED BY <1>3, <1>5, <1>7, <2>1, LagShrinks
  <1>10. PICK h : h = [hc EXCEPT !.dequeue = r + 1]
    OBVIOUS
  <1>11. h = [hc EXCEPT !.dequeue = r + 1] /\ h = [dequeue |-> r + 1, cycle |-> hcc, enqueue |-> w, eventCycle |-> f]
    BY <1>1, <1>10
  <1>12. \/ ring.trbs[r].ioc /\ Post(h, r + 1)
         \/ ~ring.trbs[r].ioc /\ hc' = h /\ UNCHANGED <<events, pending, queue>>
    BY <1>1, <1>11 DEF HcExecute
  <1>13. hc' \in Controllers /\ hc'.dequeue = r + 1 /\ hc'.cycle = hcc
         /\ \/ ring.trbs[r].ioc /\ Posted(r + 1)
            \/ ~ring.trbs[r].ioc /\ SameEventSide /\ UNCHANGED <<events, pending, queue>>
    <2>1. CASE ring.trbs[r].ioc /\ Post(h, r + 1)
      <3>1. r + 1 \in Codes
        BY <1>5, CodesAre
      <3>2. h = [dequeue |-> r + 1, cycle |-> hc.cycle, enqueue |-> hc.enqueue, eventCycle |-> hc.eventCycle]
        BY <1>1, <1>11
      <3>3. Posted(r + 1) /\ hc' \in Controllers /\ hc'.dequeue = r + 1 /\ hc'.cycle = hc.cycle
        BY <1>5, <2>1, <3>1, <3>2, PostIs
      <3> QED BY <1>1, <2>1, <3>3
    <2>2. CASE ~ring.trbs[r].ioc /\ hc' = h /\ UNCHANGED <<events, pending, queue>>
      <3>1. hc' = [dequeue |-> r + 1, cycle |-> hcc, enqueue |-> w, eventCycle |-> f]
        BY <1>11, <2>2
      <3>2. /\ hc' \in Controllers /\ hc'.dequeue = r + 1 /\ hc'.cycle = hcc /\ hc'.enqueue = w
            /\ hc'.eventCycle = f
        BY <1>5, <3>1 DEF Controllers
      <3> QED BY <1>1, <2>2, <3>2 DEF SameEventSide
    <2> QED BY <1>12, <2>1, <2>2
  <1>14. ring' = ring
    BY DEF HcExecute
  <1>15. unreadTrbs' = u - 1
    BY <1>2, <1>9, <1>13, <1>14 DEF unreadTrbs
  <1>16. Executed(r)
    BY <1>1, <1>2, <1>4, <1>7, <1>8, <1>9, <1>13, <1>15 DEF Executed, AtLink
  <1> QED BY <1>5, <1>16

\* The report on a port.
LEMMA HcPortIs ==
    ASSUME RingTypes, CyclesInv, NEW p \in Ports, Post(hc, -p)
    PROVE  Posted(-p) /\ hc' \in Controllers /\ hc'.dequeue = hc.dequeue /\ hc'.cycle = hc.cycle
  <1>1. PICK r \in 0 .. Link : r = hc.dequeue
    BY DEF RingTypes, Controllers
  <1>2. hc = [dequeue |-> r, cycle |-> hc.cycle, enqueue |-> hc.enqueue, eventCycle |-> hc.eventCycle]
    BY <1>1 DEF RingTypes, Controllers
  <1>3. -p \in Codes
    BY CodesAre
  <1> QED BY <1>1, <1>2, <1>3, PostIs

\* What Fetch does to the event ring: it takes the oldest entry, or there is none.
Fetched(d, code) ==
    /\ d = events.dequeue /\ code = events.trbs[d].code
    /\ unreadEvents >= 1 /\ unreadEvents' = unreadEvents - 1
    /\ Distance(d, hc.enqueue, EventEnd) = unreadEvents
    /\ events' \in EventRings /\ events'.trbs = events.trbs
    /\ queue' = Append(Tail(queue), Fire(code, d))

LEMMA FetchIs ==
    ASSUME RingTypes, CyclesInv, Fetch, hc' = hc
    PROVE  \/ \E d \in Slots, code \in Codes : Fetched(d, code)
           \/ queue' = Tail(queue) /\ UNCHANGED events
  <1>1. PICK trbs \in [Slots -> EventTrbs], d \in Slots, c \in {0, 1} :
            /\ events = [trbs |-> trbs, dequeue |-> d, cycle |-> c]
            /\ trbs = events.trbs /\ d = events.dequeue /\ c = events.cycle
    BY DEF RingTypes, EventRings
  <1>2. PICK w \in Slots, f \in {0, 1} : w = hc.enqueue /\ f = hc.eventCycle
    BY DEF RingTypes, Controllers
  <1>3. EventEnd \in Nat /\ EventEnd >= 2
    BY Sizes
  <1>4. CASE trbs[d].cycle # c
    BY <1>1, <1>4 DEF Fetch
  <1>5. CASE trbs[d].cycle = c
    <2>1. PICK code \in Codes : code = trbs[d].code
      BY DEF EventTrbs
    <2>2. queue' = Append(Tail(queue), Fire(code, d)) /\ events' = trbRingFetch(events)
      BY <1>1, <1>5, <2>1 DEF Fetch
    <2>3. trbs[d].cycle = IF d < w THEN f ELSE 1 - f
      BY <1>1, <1>2 DEF CyclesInv, OnTurn, Slots
    <2>4. PICK u \in 0 .. EventEnd - 1 : u = unreadEvents /\ u = Lag(d, c, w, f, EventEnd)
      BY <1>1, <1>2 DEF CyclesInv, unreadEvents
    <2>5. u >= 1
      BY <1>3, <1>5, <2>3, <2>4 DEF Lag, Slots
    <2>6. /\ Lag(d + 1, c, w, f, EventEnd) = u - 1 /\ Distance(d, w, EventEnd) = u
          /\ d + 1 = EventEnd => Lag(0, 1 - c, w, f, EventEnd) = u - 1
      <3>1. u \in 1 .. EventEnd - 1 /\ d \in 0 .. EventEnd - 1 /\ w \in 0 .. EventEnd - 1
        BY <1>3, <2>5 DEF Slots
      <3> QED BY <1>3, <2>4, <3>1, LagShrinks
    <2>7. /\ events' \in EventRings /\ events'.trbs = trbs
          /\ Lag(events'.dequeue, events'.cycle, w, f, EventEnd) = u - 1
      <3>1. CASE d + 1 < EventEnd
        <4>1. events' = [events EXCEPT !.dequeue = d + 1]
          BY <1>1, <2>2, <3>1 DEF trbRingFetch
        <4>2. events' = [trbs |-> trbs, dequeue |-> d + 1, cycle |-> c] /\ d + 1 \in Slots
          BY <1>1, <1>3, <3>1, <4>1 DEF Slots
        <4> QED BY <2>6, <4>2 DEF EventRings
      <3>2. CASE ~(d + 1 < EventEnd)
        <4>1. PICK bit \in {0, 1} : bit = 1 - c
          OBVIOUS
        <4>2. events' = [events EXCEPT !.dequeue = 0, !.cycle = bit]
          BY <1>1, <2>2, <3>2, <4>1 DEF trbRingFetch
        <4>3. events' = [trbs |-> trbs, dequeue |-> 0, cycle |-> bit]
          BY <1>1, <4>2
        <4>4. 0 \in Slots /\ d + 1 = EventEnd
          BY <1>3, <3>2 DEF Slots
        <4> QED BY <2>6, <4>1, <4>3, <4>4 DEF EventRings
      <3> QED BY <3>1, <3>2
    <2>8. unreadEvents' = u - 1
      BY <1>2, <2>7 DEF unreadEvents
    <2>9. Fetched(d, code)
      BY <1>1, <1>2, <2>1, <2>2, <2>4, <2>5, <2>6, <2>7, <2>8 DEF Fetched
    <2> QED BY <2>9
  <1> QED BY <1>4, <1>5

-----------------------------------------------------------------------------
\* There are fewer causes of reports than slots.
LEMMA Tagged ==
    ASSUME NEW k, NEW S, IsFiniteSet(S)
    PROVE  IsFiniteSet({k} \X S) /\ Cardinality({k} \X S) <= Cardinality(S)
  <1>1. PICK T : T = {k} \X S
    OBVIOUS
  <1>2. PICK f : f = [x \in S |-> <<k, x>>]
    OBVIOUS
  <1>3. f \in [S -> T]
    BY <1>1, <1>2
  <1>4. \A t \in T : \E x \in S : f[x] = t
    BY <1>1, <1>2
  <1>5. f \in Surjection(S, T)
    BY <1>3, <1>4 DEF Surjection
  <1>6. IsFiniteSet(T) /\ Cardinality(T) <= Cardinality(S)
    BY <1>5, FS_Surjection
  <1> QED BY <1>1, <1>6

LEMMA UnionSize ==
    ASSUME NEW S, IsFiniteSet(S), NEW T, IsFiniteSet(T)
    PROVE  IsFiniteSet(S \cup T) /\ Cardinality(S \cup T) <= Cardinality(S) + Cardinality(T)
  <1>1. PICK D : D = S \cap T
    OBVIOUS
  <1>2. IsFiniteSet(D)
    BY <1>1, FS_Intersection
  <1>3. Cardinality(D) \in Nat /\ Cardinality(S) \in Nat /\ Cardinality(T) \in Nat
    BY <1>2, FS_CardinalityType
  <1>4. IsFiniteSet(S \cup T) /\ Cardinality(S \cup T) = Cardinality(S) + Cardinality(T) - Cardinality(D)
    BY <1>1, FS_Union
  <1> QED BY <1>3, <1>4

LEMMA OwnersCount ==
    ASSUME use \in {"commands", "control", "endpoint"}
    PROVE  IsFiniteSet(Owners) /\ Cardinality(Owners) <= EventEnd
  <1>1. /\ IsFiniteSet(Clients) /\ IsFiniteSet(Ports) /\ ConnectEvents \subseteq Ports /\ EventEnd \in Nat
        /\ Cardinality(Clients) + Cardinality(Ports) <= EventEnd
        /\ 1 + Cardinality(Ports) + Cardinality(ConnectEvents) <= EventEnd
    BY Sizes
  <1>2. IsFiniteSet(Users) /\ IsFiniteSet(Unreported)
    <2>1. IsFiniteSet({Initializer}) /\ IsFiniteSet({})
      BY FS_Singleton, FS_EmptySet
    <2>2. IsFiniteSet(ConnectEvents)
      BY <1>1, FS_Subset
    <2> QED BY <1>1, <2>1, <2>2 DEF Users, Unreported
  <1>3. Cardinality(Users) + Cardinality(Ports) + Cardinality(Unreported) <= EventEnd
    <2>1. Cardinality({Initializer}) = 1 /\ Cardinality({}) = 0
      BY FS_Singleton, FS_EmptySet
    <2>2. Cardinality(Clients) \in Nat /\ Cardinality(Ports) \in Nat
      BY <1>1, FS_CardinalityType
    <2>3. IsFiniteSet(ConnectEvents)
      BY <1>1, FS_Subset
    <2>4. Cardinality(ConnectEvents) \in Nat
      BY <2>3, FS_CardinalityType
    <2>5. CASE use = "endpoint"
      BY <1>1, <2>1, <2>2, <2>5 DEF Users, Unreported
    <2>6. CASE use # "endpoint"
      BY <1>1, <2>1, <2>2, <2>4, <2>6 DEF Users, Unreported
    <2> QED BY <2>5, <2>6
  <1>4. PICK A, B, C : A = {"transfer"} \X Users /\ B = {"reset"} \X Ports /\ C = {"connect"} \X Unreported
    OBVIOUS
  <1>5. IsFiniteSet(A) /\ Cardinality(A) <= Cardinality(Users)
    BY <1>2, <1>4, Tagged
  <1>6. IsFiniteSet(B) /\ Cardinality(B) <= Cardinality(Ports)
    BY <1>1, <1>4, Tagged
  <1>7. IsFiniteSet(C) /\ Cardinality(C) <= Cardinality(Unreported)
    BY <1>2, <1>4, Tagged
  <1>8. PICK D : D = A \cup B
    OBVIOUS
  <1>9. IsFiniteSet(D) /\ Cardinality(D) <= Cardinality(A) + Cardinality(B)
    BY <1>5, <1>6, <1>8, UnionSize
  <1>10. IsFiniteSet(D \cup C) /\ Cardinality(D \cup C) <= Cardinality(D) + Cardinality(C)
    BY <1>7, <1>9, UnionSize
  <1>11. Owners = D \cup C
    BY <1>4, <1>8 DEF Owners
  <1>12. /\ Cardinality(A) \in Nat /\ Cardinality(B) \in Nat /\ Cardinality(C) \in Nat /\ Cardinality(D) \in Nat
         /\ Cardinality(D \cup C) \in Nat
    BY <1>5, <1>6, <1>7, <1>9, <1>10, FS_CardinalityType
  <1>13. Cardinality(Users) \in Nat /\ Cardinality(Ports) \in Nat /\ Cardinality(Unreported) \in Nat
    BY <1>1, <1>2, FS_CardinalityType
  <1>14. IsFiniteSet(Owners) /\ Cardinality(Owners) = Cardinality(D \cup C)
    BY <1>10, <1>11
  <1> QED BY <1>1, <1>3, <1>5, <1>6, <1>7, <1>9, <1>10, <1>12, <1>13, <1>14

LEMMA FreeSlot ==
    ASSUME RingTypes, NEW owner \in [Slots -> Owners], SlotsInv(owner),
           NEW o \in Owners, \A s \in Slots : InUse(s) => owner[s] # o,
           unreadEvents \in 0 .. EventEnd - 1
    PROVE  ~InUse(hc.enqueue)
  <1> SUFFICES ASSUME InUse(hc.enqueue) PROVE FALSE
    OBVIOUS
  <1>1. PICK w \in Slots : w = hc.enqueue
    BY DEF RingTypes, Controllers
  <1>2. EventEnd \in Nat /\ EventEnd >= 2
    BY Sizes
  <1>3. \A s \in Slots : Back(s) \in 1 .. EventEnd
    BY <1>1, <1>2, DistanceIs DEF Back, Slots
  <1>4. Back(w) = EventEnd
    BY <1>1, <1>2, DistanceIs DEF Back, Slots
  <1>5. PICK i \in DOMAIN queue : Held(i) /\ Back(w) <= Back(queue[i].slot)
    BY <1>1, <1>2, <1>4 DEF InUse
  <1>6. queue[i].slot \in Slots
    <2>1. Typed(queue)
      BY QueueTyped DEF RingTypes
    <2> QED BY <1>5, <2>1 DEF Typed, Held
  <1>7. ASSUME NEW s \in Slots PROVE InUse(s)
    <2>1. Back(s) <= Back(queue[i].slot)
      BY <1>2, <1>3, <1>4, <1>5, <1>6
    <2> QED BY <1>5, <2>1 DEF InUse
  <1>8. PICK T : T = Owners \ {o}
    OBVIOUS
  <1>9. owner \in [Slots -> T]
    BY <1>7, <1>8
  <1>10. /\ IsFiniteSet(T) /\ Cardinality(T) = Cardinality(Owners) - 1
         /\ Cardinality(Owners) <= EventEnd /\ Cardinality(Owners) \in Nat
    <2>1. IsFiniteSet(Owners) /\ Cardinality(Owners) <= EventEnd
      BY OwnersCount DEF RingTypes
    <2>2. IsFiniteSet(Owners \ {o}) /\ Cardinality(Owners \ {o}) = Cardinality(Owners) - 1
      BY <2>1, FS_RemoveElement
    <2> QED BY <1>8, <2>1, <2>2, FS_CardinalityType
  <1>11. IsFiniteSet(Slots) /\ Cardinality(Slots) = EventEnd
    BY <1>2, FS_Interval DEF Slots
  <1>12. Cardinality(T) < Cardinality(Slots)
    BY <1>2, <1>10, <1>11
  <1>13. \E s, t \in Slots : s # t /\ owner[s] = owner[t]
    BY <1>9, <1>10, <1>11, <1>12, FS_PigeonHole
  <1> QED BY <1>7, <1>13 DEF SlotsInv

-----------------------------------------------------------------------------
\* Facts about every state of the invariant.
Sound(owner) ==
    /\ RingTypes /\ CyclesInv /\ AwaitsInv /\ TransfersInv /\ PortsInv
    /\ owner \in [Slots -> Owners] /\ SlotsInv(owner)

LEMMA OwnersAre ==
    ASSUME NEW o \in Owners
    PROVE  /\ \/ o[1] = "transfer" /\ o[2] \in Users /\ o[2] \in Clients
              \/ o[1] = "reset" /\ o[2] \in Ports
              \/ o[1] = "connect" /\ o[2] \in Unreported /\ o[2] \in Ports
           /\ \A q \in Owners : q[1] = o[1] /\ q[2] = o[2] => q = o
  <1>1. Users \subseteq Clients /\ Unreported \subseteq Ports
    BY Sizes DEF Users, Unreported
  <1>2. \A q \in Owners : q = <<q[1], q[2]>>
    BY DEF Owners
  <1>3. \/ o[1] = "transfer" /\ o[2] \in Users
        \/ o[1] = "reset" /\ o[2] \in Ports
        \/ o[1] = "connect" /\ o[2] \in Unreported
    BY DEF Owners
  <1> QED BY <1>1, <1>2, <1>3

LEMMA SlotFacts ==
    ASSUME NEW owner, Sound(owner)
    PROVE  /\ \A s \in Slots : /\ Back(s) \in 1 .. EventEnd /\ Code(s) \in Codes /\ owner[s] \in Owners
                               /\ InUse(s) => Code(s) # 0
           /\ \A s, t \in Slots : Back(s) = Back(t) => s = t
           /\ Typed(queue)
           /\ \A i \in DOMAIN queue : Held(i) => queue[i].slot \in Slots /\ InUse(queue[i].slot)
           /\ hc.enqueue \in Slots /\ ring.enqueue \in 0 .. Link - 1
           /\ unreadEvents \in 0 .. EventEnd - 1 /\ unreadTrbs \in 0 .. Link - 1
           /\ EventEnd \in Nat /\ Link \in Nat
  <1>1. hc.enqueue \in Slots /\ ring.enqueue \in 0 .. Link - 1
    BY DEF Sound, RingTypes, Controllers, TransferRings
  <1>2. EventEnd \in Nat /\ Link \in Nat
    BY Sizes
  <1>3. unreadEvents \in 0 .. EventEnd - 1 /\ unreadTrbs \in 0 .. Link - 1
    BY DEF Sound, CyclesInv
  <1>4. Typed(queue)
    BY QueueTyped DEF Sound, RingTypes
  <1>5. ASSUME NEW s \in Slots PROVE Back(s) \in 1 .. EventEnd
    BY <1>1, <1>2, DistanceIs DEF Back, Slots
  <1>6. ASSUME NEW s \in Slots, NEW t \in Slots, Back(s) = Back(t) PROVE s = t
    BY <1>1, <1>2, <1>6, DistanceIs DEF Back, Slots
  <1>7. ASSUME NEW s \in Slots PROVE Code(s) \in Codes /\ owner[s] \in Owners
    <2>1. events.trbs \in [Slots -> EventTrbs]
      BY DEF Sound, RingTypes, EventRings
    <2>2. events.trbs[s] \in EventTrbs
      BY <2>1
    <2> QED BY <2>2 DEF Sound, EventTrbs, Code
  <1>8. ASSUME NEW s \in Slots, InUse(s) PROVE Code(s) # 0
    <2>1. Caused(owner[s], Code(s))
      BY <1>8 DEF Sound, SlotsInv
    <2>2. PICK o \in Owners : o = owner[s] /\ Caused(o, Code(s))
      BY <1>7, <2>1
    <2>3. o[1] \in {"reset", "connect"} => o[2] \in Nat \ {0}
      BY <2>2, OwnersAre, Sizes
    <2>4. Code(s) \in Int
      BY <1>7, CodesAre
    <2> QED BY <2>2, <2>3, <2>4 DEF Caused
  <1>9. ASSUME NEW i \in DOMAIN queue, Held(i) PROVE queue[i].slot \in Slots /\ InUse(queue[i].slot)
    <2>1. queue[i].slot \in Slots
      BY <1>4, <1>9 DEF Typed, Held
    <2>2. Back(queue[i].slot) <= Back(queue[i].slot)
      BY <1>2, <1>5, <2>1
    <2> QED BY <1>9, <2>1, <2>2 DEF InUse
  <1> QED BY <1>1, <1>2, <1>3, <1>4, <1>5, <1>6, <1>7, <1>8, <1>9

\* What keeps the slots right when the event ring stays and no firing or woken
\* thread is added to the queue.
LEMMA SlotsKept ==
    ASSUME NEW owner, Sound(owner),
           NEW k \in {0, 1}, NEW m \in 0 .. 2, NEW n \in Nat, Carried(queue, queue', k, n, m),
           \A i \in n + 1 .. n + m : queue'[i].kind \notin {"fire", "woken"},
           hc'.enqueue = hc.enqueue, events'.trbs = events.trbs, unreadEvents' = unreadEvents,
           \A s \in Slots : InUse(s) /\ InUse(s)' => Caused(owner[s], Code(s))',
           \A i \in 1 .. n : queue[i + k].kind = "woken" =>
                client'[queue[i + k].client] = client[queue[i + k].client],
           \A s, t \in Slots :
                /\ InUse(s) /\ InUse(s)' /\ InUse(t) /\ InUse(t)'
                /\ Code(s) > 0 /\ Code(t) > 0 /\ Age(Code(s)) > Age(Code(t))
                => Distance(Code(s) - 1, ring'.enqueue, Link) > Distance(Code(t) - 1, ring'.enqueue, Link)
    PROVE  SlotsInv(owner)'
  <1>1. \A s \in Slots : Back(s)' = Back(s) /\ Code(s)' = Code(s)
    BY DEF Back, Code
  <1>2. ASSUME NEW i \in DOMAIN queue', queue'[i].kind \in {"fire", "woken"}
        PROVE  i \in 1 .. n /\ i + k \in DOMAIN queue /\ queue'[i] = queue[i + k] /\ Held(i + k)
    <2>1. /\ n \in Nat /\ i \in Nat /\ i <= n + m
          /\ i <= n => i \in 1 .. n /\ Stays(queue, queue', i + k, i)
      BY CarriedIs
    <2>2. i \notin n + 1 .. n + m
      BY <1>2
    <2>3. i <= n
      BY <2>1, <2>2
    <2> QED BY <1>2, <2>1, <2>3 DEF Held, Stays
  <1>3. ASSUME NEW s \in Slots, InUse(s)' PROVE InUse(s)
    <2>1. CASE Back(s)' <= unreadEvents'
      BY <1>1, <2>1 DEF InUse
    <2>2. CASE \E i \in DOMAIN queue' : queue'[i].kind \in {"fire", "woken"}
                    /\ Distance(s, hc'.enqueue, EventEnd) <= Distance(queue'[i].slot, hc'.enqueue, EventEnd)
      <3>1. PICK i \in DOMAIN queue' : queue'[i].kind \in {"fire", "woken"}
                    /\ Distance(s, hc'.enqueue, EventEnd) <= Distance(queue'[i].slot, hc'.enqueue, EventEnd)
        BY <2>2
      <3>2. i + k \in DOMAIN queue /\ queue'[i] = queue[i + k] /\ Held(i + k)
        BY <1>2, <3>1
      <3> QED BY <3>1, <3>2 DEF InUse, Back
    <2> QED BY <1>3, <2>1, <2>2 DEF InUse, Held, Back
  <1>4. /\ \A i \in DOMAIN queue : Held(i) => Back(queue[i].slot) > unreadEvents
        /\ \A i \in DOMAIN queue : queue[i].kind = "fire" => queue[i].code = Code(queue[i].slot)
        /\ \A i \in DOMAIN queue : queue[i].kind = "woken" => client[queue[i].client] = Code(queue[i].slot)
        /\ \A i, j \in DOMAIN queue :
            Held(i) /\ Held(j) /\ Precedes(i, j) => Back(queue[i].slot) > Back(queue[j].slot)
        /\ \A s, t \in Slots : InUse(s) /\ InUse(t) /\ owner[s] = owner[t] => s = t
        /\ \A s, t \in Slots :
            InUse(s) /\ InUse(t) /\ Code(s) > 0 /\ Code(t) > 0 /\ Back(s) > Back(t)
                => Age(Code(s)) > Age(Code(t))
    BY DEF Sound, SlotsInv
  <1>5. (\A i \in DOMAIN queue : Held(i) => Back(queue[i].slot) > unreadEvents)'
    BY <1>2, <1>4 DEF Held, Back
  <1>6. (\A i \in DOMAIN queue : queue[i].kind = "fire" => queue[i].code = Code(queue[i].slot))'
    BY <1>2, <1>4 DEF Held, Code
  <1>7. (\A i \in DOMAIN queue : queue[i].kind = "woken" => client[queue[i].client] = Code(queue[i].slot))'
    <2> SUFFICES ASSUME NEW i \in DOMAIN queue', queue'[i].kind = "woken"
                 PROVE  client'[queue'[i].client] = events'.trbs[queue'[i].slot].code
      BY DEF Code
    <2>1. i \in 1 .. n /\ i + k \in DOMAIN queue /\ queue'[i] = queue[i + k]
      BY <1>2
    <2>2. client[queue[i + k].client] = events.trbs[queue[i + k].slot].code
      BY <1>4, <2>1 DEF Code
    <2> QED BY <2>1, <2>2
  <1>8. (\A i, j \in DOMAIN queue :
            Held(i) /\ Held(j) /\ Precedes(i, j) => Back(queue[i].slot) > Back(queue[j].slot))'
    <2> SUFFICES ASSUME NEW i \in DOMAIN queue', NEW j \in DOMAIN queue',
                        queue'[i].kind \in {"fire", "woken"}, queue'[j].kind \in {"fire", "woken"},
                        \/ queue'[i].kind = queue'[j].kind /\ i < j
                        \/ queue'[i].kind = "woken" /\ queue'[j].kind = "fire"
                 PROVE  Distance(queue'[i].slot, hc'.enqueue, EventEnd)
                            > Distance(queue'[j].slot, hc'.enqueue, EventEnd)
      BY DEF Held, Precedes, Back
    <2>1. i \in 1 .. n /\ i + k \in DOMAIN queue /\ queue'[i] = queue[i + k] /\ Held(i + k)
      BY <1>2
    <2>2. j \in 1 .. n /\ j + k \in DOMAIN queue /\ queue'[j] = queue[j + k] /\ Held(j + k)
      BY <1>2
    <2>3. n \in Nat
      BY DEF Carried
    <2>4. i < j => i + k < j + k
      BY <2>1, <2>2, <2>3
    <2>5. Precedes(i + k, j + k)
      BY <2>1, <2>2, <2>4 DEF Precedes
    <2> QED BY <1>4, <2>1, <2>2, <2>5 DEF Back
  <1>9. (\A s \in Slots : InUse(s) => Caused(owner[s], Code(s)))'
    BY <1>3
  <1>10. (\A s, t \in Slots : InUse(s) /\ InUse(t) /\ owner[s] = owner[t] => s = t)'
    BY <1>3, <1>4
  <1>11. (\A s, t \in Slots :
            InUse(s) /\ InUse(t) /\ Code(s) > 0 /\ Code(t) > 0 /\ Back(s) > Back(t)
                => Age(Code(s)) > Age(Code(t)))'
    <2> SUFFICES ASSUME NEW s \in Slots, NEW t \in Slots, InUse(s)', InUse(t)', Code(s)' > 0, Code(t)' > 0,
                        Back(s)' > Back(t)'
                 PROVE  Distance(Code(s)' - 1, ring'.enqueue, Link)
                            > Distance(Code(t)' - 1, ring'.enqueue, Link)
      BY DEF Age
    <2>1. InUse(s) /\ InUse(t) /\ Code(s) > 0 /\ Code(t) > 0 /\ Back(s) > Back(t)
      BY <1>1, <1>3
    <2>2. Age(Code(s)) > Age(Code(t))
      BY <1>4, <2>1
    <2>3. Distance(Code(s) - 1, ring'.enqueue, Link) > Distance(Code(t) - 1, ring'.enqueue, Link)
      BY <2>1, <2>2
    <2> QED BY <1>1, <2>3
  <1> QED BY <1>5, <1>6, <1>7, <1>8, <1>9, <1>10, <1>11 DEF SlotsInv

\* The first k entries leave the queue and only entries of these kinds are added.
Moved(k, kinds) ==
    \E n \in Nat, m \in 0 .. 2 :
        /\ Carried(queue, queue', k, n, m)
        /\ \A i \in n + 1 .. n + m : queue'[i].kind \in kinds

LEMMA MovedAppend ==
    ASSUME NEW k \in {0, 1}, NEW n \in Nat, NEW x, Carried(queue, queue', k, n, 1), Appended(queue', n, x)
    PROVE  Moved(k, {x.kind})
  <1>1. \A i \in n + 1 .. n + 1 : i = n + 1
    OBVIOUS
  <1>2. \A i \in n + 1 .. n + 1 : queue'[i].kind \in {x.kind}
    BY <1>1 DEF Appended
  <1>3. 1 \in 0 .. 2
    OBVIOUS
  <1> QED BY <1>2, <1>3 DEF Moved

LEMMA MovedNone ==
    ASSUME NEW k \in {0, 1}, NEW n \in Nat, NEW kinds, Carried(queue, queue', k, n, 0)
    PROVE  Moved(k, kinds)
  <1>1. n + 1 .. n + 0 = {} /\ 0 \in 0 .. 2
    OBVIOUS
  <1> QED BY <1>1 DEF Moved

LEMMA PostedMoves ==
    ASSUME NEW code, Posted(code)
    PROVE  Moved(0, {"interrupt"})
  <1>1. CASE Keeps
    <2>1. PICK n \in Nat : Carried(queue, queue', 0, n, 0)
      BY <1>1 DEF Keeps
    <2> QED BY <2>1, MovedNone
  <1>2. CASE Appends(Interrupt)
    <2>1. PICK n \in Nat : Carried(queue, queue', 0, n, 1) /\ Appended(queue', n, Interrupt)
      BY <1>2 DEF Appends
    <2>2. Interrupt.kind = "interrupt"
      BY DEF Interrupt
    <2> QED BY <2>1, <2>2, MovedAppend
  <1> QED BY <1>1, <1>2 DEF Posted

\* A new report needs a slot that nobody looks at any more, and a cause that no
\* report in use has.
LEMMA SlotsPosted ==
    ASSUME NEW owner, Sound(owner), NEW code \in Codes, Posted(code), NEW o \in Owners,
           ring' = ring, client' = client,
           \A s \in Slots : InUse(s) => owner[s] # o,
           \A s \in Slots, q \in Owners, d \in Codes :
                InUse(s) /\ q = owner[s] /\ d = Code(s) /\ Caused(q, d) => Caused(q, d)',
           Caused(o, code)',
           code > 0 => Age(code) <= unreadTrbs
    PROVE  \E own \in [Slots -> Owners] : SlotsInv(own)'
  <1>1. PICK w \in Slots : w = hc.enqueue
    BY SlotFacts
  <1>2. unreadEvents \in 0 .. EventEnd - 1 /\ EventEnd \in Nat /\ unreadTrbs \in 0 .. Link - 1 /\ Link \in Nat
    BY SlotFacts
  <1>3. ~InUse(w)
    BY <1>1, <1>2, FreeSlot DEF Sound
  <1>4. \A s \in Slots : /\ Back(s) \in 1 .. EventEnd /\ Code(s) \in Codes /\ owner[s] \in Owners
    BY SlotFacts
  <1>5. /\ \A s \in Slots : Distance(s, hc'.enqueue, EventEnd) = IF s = w THEN 1 ELSE Back(s) + 1
        /\ \A s \in Slots : events'.trbs[s].code = IF s = w THEN code ELSE Code(s)
        /\ unreadEvents' = unreadEvents + 1
    BY <1>1 DEF Posted, Back, Code
  <1>6. PICK n \in Nat, m \in 0 .. 2 :
            /\ Carried(queue, queue', 0, n, m)
            /\ \A i \in n + 1 .. n + m : queue'[i].kind \in {"interrupt"}
    BY PostedMoves DEF Moved
  <1>7. ASSUME NEW i \in DOMAIN queue', queue'[i].kind \in {"fire", "woken"}
        PROVE  /\ i \in DOMAIN queue /\ queue'[i] = queue[i] /\ Held(i)
               /\ queue[i].slot \in Slots /\ queue[i].slot # w /\ InUse(queue[i].slot)
    <2>1. /\ i \in Nat /\ i <= n + m
          /\ i <= n => i \in 1 .. n /\ Stays(queue, queue', i + 0, i)
      BY <1>6, CarriedIs
    <2>2. i <= n
      BY <1>6, <1>7, <2>1
    <2>3. i \in DOMAIN queue /\ queue'[i] = queue[i]
      BY <2>1, <2>2 DEF Stays
    <2>4. Held(i)
      BY <1>7, <2>3 DEF Held
    <2>5. queue[i].slot \in Slots /\ InUse(queue[i].slot)
      BY <2>3, <2>4, SlotFacts
    <2> QED BY <1>3, <2>3, <2>4, <2>5
  <1>8. ASSUME NEW s \in Slots, InUse(s)', s # w PROVE InUse(s)
    <2>1. CASE Distance(s, hc'.enqueue, EventEnd) <= unreadEvents'
      BY <1>2, <1>4, <1>5, <1>8, <2>1 DEF InUse
    <2>2. CASE \E i \in DOMAIN queue' : queue'[i].kind \in {"fire", "woken"}
                    /\ Distance(s, hc'.enqueue, EventEnd) <= Distance(queue'[i].slot, hc'.enqueue, EventEnd)
      <3>1. PICK i \in DOMAIN queue' : queue'[i].kind \in {"fire", "woken"}
                    /\ Distance(s, hc'.enqueue, EventEnd) <= Distance(queue'[i].slot, hc'.enqueue, EventEnd)
        BY <2>2
      <3>2. /\ i \in DOMAIN queue /\ queue'[i] = queue[i] /\ Held(i)
            /\ queue[i].slot \in Slots /\ queue[i].slot # w
        BY <1>7, <3>1
      <3>3. Back(s) + 1 <= Back(queue[i].slot) + 1
        BY <1>5, <1>8, <3>1, <3>2
      <3>4. Back(s) <= Back(queue[i].slot)
        BY <1>4, <3>2, <3>3
      <3> QED BY <3>2, <3>4 DEF InUse
    <2> QED BY <1>8, <2>1, <2>2 DEF InUse, Held, Back
  <1>9. PICK own \in [Slots -> Owners] : own[w] = o /\ \A s \in Slots : s # w => own[s] = owner[s]
    <2>1. owner \in [Slots -> Owners]
      BY DEF Sound
    <2>2. [owner EXCEPT ![w] = o] \in [Slots -> Owners]
      BY <2>1
    <2>3. /\ [owner EXCEPT ![w] = o][w] = o
          /\ \A s \in Slots : s # w => [owner EXCEPT ![w] = o][s] = owner[s]
      BY <2>1
    <2> QED BY <2>2, <2>3
  <1>10. /\ \A i \in DOMAIN queue : Held(i) => Back(queue[i].slot) > unreadEvents
         /\ \A i \in DOMAIN queue : queue[i].kind = "fire" => queue[i].code = Code(queue[i].slot)
         /\ \A i \in DOMAIN queue : queue[i].kind = "woken" => client[queue[i].client] = Code(queue[i].slot)
         /\ \A i, j \in DOMAIN queue :
            Held(i) /\ Held(j) /\ Precedes(i, j) => Back(queue[i].slot) > Back(queue[j].slot)
         /\ \A s \in Slots : InUse(s) => Caused(owner[s], Code(s))
         /\ \A s, t \in Slots : InUse(s) /\ InUse(t) /\ owner[s] = owner[t] => s = t
         /\ \A s, t \in Slots :
            InUse(s) /\ InUse(t) /\ Code(s) > 0 /\ Code(t) > 0 /\ Back(s) > Back(t)
                => Age(Code(s)) > Age(Code(t))
    BY DEF Sound, SlotsInv
  <1>11. (\A i \in DOMAIN queue : Held(i) => Back(queue[i].slot) > unreadEvents)'
    <2> SUFFICES ASSUME NEW i \in DOMAIN queue', queue'[i].kind \in {"fire", "woken"}
                 PROVE  Distance(queue'[i].slot, hc'.enqueue, EventEnd) > unreadEvents'
      BY DEF Held, Back
    <2>1. i \in DOMAIN queue /\ queue'[i] = queue[i] /\ Held(i) /\ queue[i].slot \in Slots /\ queue[i].slot # w
      BY <1>7
    <2>2. Back(queue[i].slot) > unreadEvents /\ Back(queue[i].slot) \in 1 .. EventEnd
      BY <1>4, <1>10, <2>1
    <2>3. Distance(queue'[i].slot, hc'.enqueue, EventEnd) = Back(queue[i].slot) + 1
      BY <1>5, <2>1
    <2> QED BY <1>2, <1>5, <2>2, <2>3
  <1>12. (\A i \in DOMAIN queue : queue[i].kind = "fire" => queue[i].code = Code(queue[i].slot))'
    <2> SUFFICES ASSUME NEW i \in DOMAIN queue', queue'[i].kind = "fire"
                 PROVE  queue'[i].code = events'.trbs[queue'[i].slot].code
      BY DEF Code
    <2>1. i \in DOMAIN queue /\ queue'[i] = queue[i] /\ queue[i].slot \in Slots /\ queue[i].slot # w
      BY <1>7
    <2> QED BY <1>5, <1>10, <2>1
  <1>13. (\A i \in DOMAIN queue : queue[i].kind = "woken" => client[queue[i].client] = Code(queue[i].slot))'
    <2> SUFFICES ASSUME NEW i \in DOMAIN queue', queue'[i].kind = "woken"
                 PROVE  client'[queue'[i].client] = events'.trbs[queue'[i].slot].code
      BY DEF Code
    <2>1. i \in DOMAIN queue /\ queue'[i] = queue[i] /\ queue[i].slot \in Slots /\ queue[i].slot # w
      BY <1>7
    <2> QED BY <1>5, <1>10, <2>1
  <1>14. (\A i, j \in DOMAIN queue :
            Held(i) /\ Held(j) /\ Precedes(i, j) => Back(queue[i].slot) > Back(queue[j].slot))'
    <2> SUFFICES ASSUME NEW i \in DOMAIN queue', NEW j \in DOMAIN queue',
                        queue'[i].kind \in {"fire", "woken"}, queue'[j].kind \in {"fire", "woken"},
                        \/ queue'[i].kind = queue'[j].kind /\ i < j
                        \/ queue'[i].kind = "woken" /\ queue'[j].kind = "fire"
                 PROVE  Distance(queue'[i].slot, hc'.enqueue, EventEnd)
                            > Distance(queue'[j].slot, hc'.enqueue, EventEnd)
      BY DEF Held, Precedes, Back
    <2>1. i \in DOMAIN queue /\ queue'[i] = queue[i] /\ Held(i) /\ queue[i].slot \in Slots /\ queue[i].slot # w
      BY <1>7
    <2>2. j \in DOMAIN queue /\ queue'[j] = queue[j] /\ Held(j) /\ queue[j].slot \in Slots /\ queue[j].slot # w
      BY <1>7
    <2>3. Back(queue[i].slot) > Back(queue[j].slot)
      BY <1>10, <2>1, <2>2 DEF Precedes
    <2>4. /\ Distance(queue'[i].slot, hc'.enqueue, EventEnd) = Back(queue[i].slot) + 1
          /\ Distance(queue'[j].slot, hc'.enqueue, EventEnd) = Back(queue[j].slot) + 1
      BY <1>5, <2>1, <2>2
    <2> QED BY <1>4, <2>1, <2>2, <2>3, <2>4
  <1>15. ASSUME NEW s \in Slots, InUse(s)' PROVE Caused(own[s], Code(s))'
    <2>1. CASE s = w
      BY <1>5, <1>9, <2>1 DEF Caused, Code, Age
    <2>2. CASE s # w
      <3>1. PICK q \in Owners, d \in Codes : q = owner[s] /\ d = Code(s)
        BY <1>4
      <3>2. InUse(s) /\ Caused(q, d)
        BY <1>8, <1>10, <1>15, <2>2, <3>1
      <3>3. Caused(q, d)'
        BY <3>1, <3>2
      <3>4. own[s] = q /\ events'.trbs[s].code = d
        BY <1>5, <1>9, <2>2, <3>1
      <3> QED BY <3>3, <3>4 DEF Caused, Code, Age
    <2> QED BY <2>1, <2>2
  <1>16. (\A s, t \in Slots : InUse(s) /\ InUse(t) /\ own[s] = own[t] => s = t)'
    <2> SUFFICES ASSUME NEW s \in Slots, NEW t \in Slots, InUse(s)', InUse(t)', own[s] = own[t] PROVE s = t
      OBVIOUS
    <2>1. (s # w => InUse(s)) /\ (t # w => InUse(t))
      BY <1>8
    <2> QED BY <1>9, <1>10, <2>1
  <1>17. (\A s, t \in Slots :
            InUse(s) /\ InUse(t) /\ Code(s) > 0 /\ Code(t) > 0 /\ Back(s) > Back(t)
                => Age(Code(s)) > Age(Code(t)))'
    <2> SUFFICES ASSUME NEW s \in Slots, NEW t \in Slots, InUse(s)', InUse(t)',
                        events'.trbs[s].code > 0, events'.trbs[t].code > 0,
                        Distance(s, hc'.enqueue, EventEnd) > Distance(t, hc'.enqueue, EventEnd)
                 PROVE  Age(events'.trbs[s].code) > Age(events'.trbs[t].code)
      BY DEF Age, Code, Back
    <2>1. s # w
      BY <1>4, <1>5
    <2>2. InUse(s) /\ events'.trbs[s].code = Code(s)
      BY <1>5, <1>8, <2>1
    <2>3. CASE t = w
      <3>1. Caused(owner[s], Code(s)) /\ Code(s) > 0
        BY <1>10, <2>2
      <3>2. PICK q \in Owners, d \in Codes : q = owner[s] /\ d = Code(s)
        BY <1>4
      <3>3. Caused(q, d) /\ d > 0
        BY <3>1, <3>2
      <3>4. q[1] \in {"reset", "connect"} => q[2] \in Nat
        BY OwnersAre, Sizes
      <3>5. Age(d) > unreadTrbs
        BY <3>3, <3>4 DEF Caused
      <3>6. events'.trbs[t].code = code /\ Age(code) <= unreadTrbs
        BY <1>5, <2>3
      <3>7. Age(code) \in 1 .. Link /\ Age(d) \in 1 .. Link
        BY <1>5, <2>3, <3>3, DistanceIs, CodesAre, SlotFacts DEF Age
      <3> QED BY <1>2, <2>2, <3>2, <3>5, <3>6, <3>7
    <2>4. CASE t # w
      <3>1. InUse(t) /\ events'.trbs[t].code = Code(t)
        BY <1>5, <1>8, <2>4
      <3>2. Back(s) > Back(t)
        BY <1>4, <1>5, <2>1, <2>4
      <3> QED BY <1>10, <2>2, <3>1, <3>2
    <2> QED BY <2>3, <2>4
  <1>18. SlotsInv(own)'
    BY <1>11, <1>12, <1>13, <1>14, <1>15, <1>16, <1>17 DEF SlotsInv
  <1> QED BY <1>18

\* What keeps the awaits right when no thread waits, is woken or goes on.
LEMMA AwaitsKept ==
    ASSUME AwaitsInv, NEW k \in {0, 1}, Moved(k, {"fire", "interrupt", "loop"}),
           k = 1 => queue[1].kind \in {"interrupt", "loop"},
           UNCHANGED <<waiting, client, use>>
    PROVE  AwaitsInv'
  <1>1. PICK n \in Nat, m \in 0 .. 2 :
            /\ Carried(queue, queue', k, n, m)
            /\ \A i \in n + 1 .. n + m : queue'[i].kind \in {"fire", "interrupt", "loop"}
    BY DEF Moved
  <1>2. /\ waiting' = waiting /\ client' = client /\ use' = use
    OBVIOUS
  <1>3. ASSUME NEW i \in DOMAIN queue'
        PROVE  /\ i \in Nat
               /\ i <= n => i + k \in DOMAIN queue /\ queue'[i] = queue[i + k]
               /\ i > n => queue'[i].kind \in {"fire", "interrupt", "loop"}
    <2>1. /\ i \in Nat /\ i <= n + m
          /\ i <= n => i \in 1 .. n /\ Stays(queue, queue', i + k, i)
      BY <1>1, CarriedIs
    <2>2. i > n => i \in n + 1 .. n + m
      BY <2>1
    <2> QED BY <1>1, <2>1, <2>2 DEF Stays
  <1>4. ASSUME NEW i \in DOMAIN queue', queue'[i].kind \in {"await", "woken"}
        PROVE  i <= n /\ i + k \in DOMAIN queue /\ queue'[i] = queue[i + k]
    BY <1>3, <1>4
  <1>5. ASSUME NEW j \in DOMAIN queue, queue[j].kind \in {"await", "woken"}
        PROVE  j - k \in DOMAIN queue' /\ queue'[j - k] = queue[j]
    <2>1. j >= 1
      BY <1>1, CarriedIs
    <2>2. j # k
      <3>1. CASE j = 1 /\ k = 1
        BY <1>5, <3>1
      <3> QED BY <2>1, <3>1
    <2>3. Stays(queue, queue', j, j - k)
      BY <1>1, <2>2, CarriedIs
    <2> QED BY <2>3 DEF Stays
  <1>6. /\ \A i \in DOMAIN queue : queue[i].kind = "await" => queue[i].code = client[queue[i].client]
        /\ \A w \in waiting : w.code = client[w.client]
        /\ \A i, j \in DOMAIN queue :
            Suspended(i) /\ Suspended(j) /\ queue[i].client = queue[j].client => i = j
        /\ \A i \in DOMAIN queue, w \in waiting : Suspended(i) => queue[i].client # w.client
        /\ \A c \in Clients : client[c] # 0 =>
            \/ \E i \in DOMAIN queue : Suspended(i) /\ queue[i].client = c
            \/ \E w \in waiting : w.client = c
        /\ \A i, j \in DOMAIN queue :
            queue[i].kind = "await" /\ queue[j].kind = "fire" /\ queue[j].code = queue[i].code
                /\ queue[i].code > 0 => i < j
        /\ \A c \in Clients : client[c] # 0 /\ c # Initializer => use = "endpoint" /\ client[c] > 0
    BY DEF AwaitsInv
  <1>7. (\A i \in DOMAIN queue : queue[i].kind = "await" => queue[i].code = client[queue[i].client])'
    <2> SUFFICES ASSUME NEW i \in DOMAIN queue', queue'[i].kind = "await"
                 PROVE  queue'[i].code = client'[queue'[i].client]
      OBVIOUS
    <2>1. i + k \in DOMAIN queue /\ queue'[i] = queue[i + k]
      BY <1>4
    <2> QED BY <1>2, <1>6, <2>1
  <1>8. (\A w \in waiting : w.code = client[w.client])'
    BY <1>2, <1>6
  <1>9. (\A i, j \in DOMAIN queue :
            Suspended(i) /\ Suspended(j) /\ queue[i].client = queue[j].client => i = j)'
    <2> SUFFICES ASSUME NEW i \in DOMAIN queue', NEW j \in DOMAIN queue',
                        queue'[i].kind \in {"await", "woken"}, queue'[j].kind \in {"await", "woken"},
                        queue'[i].client = queue'[j].client
                 PROVE  i = j
      BY DEF Suspended
    <2>1. i + k \in DOMAIN queue /\ queue'[i] = queue[i + k] /\ j + k \in DOMAIN queue /\ queue'[j] = queue[j + k]
      BY <1>4
    <2>2. i + k = j + k
      BY <1>6, <2>1 DEF Suspended
    <2> QED BY <1>3, <2>2
  <1>10. (\A i \in DOMAIN queue, w \in waiting : Suspended(i) => queue[i].client # w.client)'
    <2> SUFFICES ASSUME NEW i \in DOMAIN queue', queue'[i].kind \in {"await", "woken"}, NEW w \in waiting
                 PROVE  queue'[i].client # w.client
      BY <1>2 DEF Suspended
    <2>1. i + k \in DOMAIN queue /\ queue'[i] = queue[i + k]
      BY <1>4
    <2> QED BY <1>6, <2>1 DEF Suspended
  <1>11. (\A c \in Clients : client[c] # 0 =>
            \/ \E i \in DOMAIN queue : Suspended(i) /\ queue[i].client = c
            \/ \E w \in waiting : w.client = c)'
    <2> SUFFICES ASSUME NEW c \in Clients, client[c] # 0, ~\E w \in waiting : w.client = c
                 PROVE  \E i \in DOMAIN queue' : queue'[i].kind \in {"await", "woken"} /\ queue'[i].client = c
      BY <1>2 DEF Suspended
    <2>1. PICK j \in DOMAIN queue : queue[j].kind \in {"await", "woken"} /\ queue[j].client = c
      BY <1>6 DEF Suspended
    <2> QED BY <1>5, <2>1
  <1>12. (\A i, j \in DOMAIN queue :
            queue[i].kind = "await" /\ queue[j].kind = "fire" /\ queue[j].code = queue[i].code
                /\ queue[i].code > 0 => i < j)'
    <2> SUFFICES ASSUME NEW i \in DOMAIN queue', NEW j \in DOMAIN queue', queue'[i].kind = "await",
                        queue'[j].kind = "fire", queue'[j].code = queue'[i].code, queue'[i].code > 0
                 PROVE  i < j
      OBVIOUS
    <2>1. i <= n /\ i + k \in DOMAIN queue /\ queue'[i] = queue[i + k]
      BY <1>4
    <2>2. CASE j <= n
      <3>1. j + k \in DOMAIN queue /\ queue'[j] = queue[j + k]
        BY <1>3, <2>2
      <3>2. i + k < j + k
        BY <1>6, <2>1, <3>1
      <3> QED BY <1>3, <3>2
    <2>3. CASE j > n
      BY <1>3, <2>1, <2>3
    <2> QED BY <1>3, <2>2, <2>3
  <1>13. (\A c \in Clients : client[c] # 0 /\ c # Initializer => use = "endpoint" /\ client[c] > 0)'
    BY <1>2, <1>6
  <1> QED BY <1>7, <1>8, <1>9, <1>10, <1>11, <1>12, <1>13 DEF AwaitsInv

\* What keeps the transfers right when none begins and none ends.
LEMMA TransfersKept ==
    ASSUME TransfersInv, UNCHANGED <<ring, client, use>>, unreadTrbs' = unreadTrbs,
           \A c \in Busy : Underway(c) => Underway(c)'
    PROVE  TransfersInv'
  <1>1. Busy' = Busy
    BY DEF Busy
  <1>2. /\ \A c, d \in Busy : client[c] = client[d] => c = d
        /\ \A c \in Busy : Age(client[c]) <= Cardinality(Busy) /\ Underway(c)
        /\ \A i \in 0 .. Link - 1 : Distance(i, ring.enqueue, Link) <= unreadTrbs =>
            (ring.trbs[i].ioc <=> \E c \in Busy : client[c] = i + 1)
        /\ \/ unreadTrbs <= Cardinality(Busy)
           \/ use = "control" /\ Busy # {} /\ unreadTrbs <= 3
    BY DEF TransfersInv
  <1>3. (\A c, d \in Busy : client[c] = client[d] => c = d)'
    BY <1>1, <1>2
  <1>4. (\A c \in Busy : Age(client[c]) <= Cardinality(Busy) /\ Underway(c))'
    <2> SUFFICES ASSUME NEW c \in Busy PROVE Age(client[c])' <= Cardinality(Busy) /\ Underway(c)'
      BY <1>1
    <2> QED BY <1>2 DEF Age
  <1>5. (\A i \in 0 .. Link - 1 : Distance(i, ring.enqueue, Link) <= unreadTrbs =>
            (ring.trbs[i].ioc <=> \E c \in Busy : client[c] = i + 1))'
    BY <1>1, <1>2
  <1>6. (\/ unreadTrbs <= Cardinality(Busy)
         \/ use = "control" /\ Busy # {} /\ unreadTrbs <= 3)'
    BY <1>1, <1>2
  <1> QED BY <1>3, <1>4, <1>5, <1>6 DEF TransfersInv

\* A firing or a woken thread stays in the queue when another entry leaves it.
LEMMA HeldStays ==
    ASSUME NEW k \in {0, 1}, NEW kinds, Moved(k, kinds), k = 1 => queue[1].kind \notin {"fire", "woken"},
           NEW i \in DOMAIN queue, Held(i)
    PROVE  \E j \in DOMAIN queue' : queue'[j] = queue[i]
  <1>1. PICK n \in Nat, m \in 0 .. 2 : Carried(queue, queue', k, n, m)
    BY DEF Moved
  <1>2. i >= 1 /\ (i # k => i - k \in 1 .. n /\ Stays(queue, queue', i, i - k))
    BY <1>1, CarriedIs
  <1>3. i # k
    BY <1>2 DEF Held
  <1> QED BY <1>2, <1>3 DEF Stays

LEMMA UnderwayStays ==
    ASSUME NEW k \in {0, 1}, NEW kinds, Moved(k, kinds), k = 1 => queue[1].kind \notin {"fire", "woken"},
           UNCHANGED <<ring, events, hc, client>>
    PROVE  \A c \in Busy : Underway(c) => Underway(c)'
  <1> SUFFICES ASSUME NEW c \in Busy, Underway(c) PROVE Underway(c)'
    OBVIOUS
  <1>1. ring' = ring /\ events' = events /\ hc' = hc /\ client' = client
    OBVIOUS
  <1>2. unreadEvents' = unreadEvents /\ unreadTrbs' = unreadTrbs
    BY <1>1 DEF unreadEvents, unreadTrbs
  <1>3. CASE \E i \in DOMAIN queue : \/ queue[i].kind = "fire" /\ queue[i].code = client[c]
                                     \/ queue[i].kind = "woken" /\ queue[i].client = c
    <2>1. PICK i \in DOMAIN queue : \/ queue[i].kind = "fire" /\ queue[i].code = client[c]
                                    \/ queue[i].kind = "woken" /\ queue[i].client = c
      BY <1>3
    <2>2. Held(i)
      BY <2>1 DEF Held
    <2>3. PICK j \in DOMAIN queue' : queue'[j] = queue[i]
      BY <2>2, HeldStays
    <2> QED BY <1>1, <2>1, <2>3 DEF Underway
  <1>4. CASE Age(client[c]) <= unreadTrbs
    BY <1>1, <1>2, <1>4 DEF Underway, Age
  <1>5. CASE \E s \in Slots : Back(s) <= unreadEvents /\ Code(s) = client[c]
    BY <1>1, <1>2, <1>5 DEF Underway, Back, Code
  <1> QED BY <1>3, <1>4, <1>5 DEF Underway

-----------------------------------------------------------------------------
\* Steps of the controller and of the interrupt threads.
LEMMA SoundAgain ==
    ASSUME use' = use, RingTypes', CyclesInv', AwaitsInv', TransfersInv', PortsInv',
           NEW own \in [Slots -> Owners], SlotsInv(own)'
    PROVE  RingsInv'
  <1>1. Owners' = Owners
    BY DEF Owners, Users, Unreported
  <1> QED BY <1>1 DEF RingsInv

LEMMA HcLinkKeeps ==
    ASSUME NEW owner, Sound(owner), HcLink
    PROVE  RingsInv'
  <1>1. UNCHANGED <<use, ring, events, pending, port, connects, queue, waiting, client, aborted>>
    BY DEF HcLink
  <1>2. hc' \in Controllers /\ SameEventSide /\ unreadTrbs' = unreadTrbs
    BY HcLinkIs DEF Sound
  <1>3. unreadEvents' = unreadEvents
    BY <1>1, <1>2 DEF unreadEvents, SameEventSide
  <1>4. PICK n \in Nat : Carried(queue, queue', 0, n, 0)
    BY <1>1, PassNone DEF Sound, RingTypes
  <1>5. RingTypes'
    BY <1>1, <1>2 DEF Sound, RingTypes, Unreported
  <1>6. CyclesInv'
    BY <1>1, <1>2, <1>3 DEF Sound, CyclesInv, SameEventSide
  <1>7. AwaitsInv'
    BY <1>1, <1>4, MovedNone, AwaitsKept DEF Sound
  <1>8. TransfersInv'
    <2>1. \A c \in Busy : Underway(c) => Underway(c)'
      BY <1>1, <1>2, <1>3 DEF Underway, Back, Age, SameEventSide, Code
    <2> QED BY <1>1, <1>2, <2>1, TransfersKept DEF Sound
  <1>9. PortsInv'
    BY <1>1 DEF Sound, PortsInv, Unreported
  <1>10. SlotsInv(owner)'
    <2>1. \A s \in Slots : InUse(s) => Caused(owner[s], Code(s))'
      BY <1>1, <1>2 DEF Sound, SlotsInv, Caused, Code, Age
    <2>2. \A i \in n + 1 .. n + 0 : queue'[i].kind \notin {"fire", "woken"}
      OBVIOUS
    <2> QED BY <1>1, <1>2, <1>3, <1>4, <2>1, <2>2, SlotsKept DEF SameEventSide, Age
  <1> QED BY <1>1, <1>5, <1>6, <1>7, <1>8, <1>9, <1>10, SoundAgain DEF Sound

\* A thread that finds nothing to do leaves the queue.
LEMMA TailKeeps ==
    ASSUME NEW owner, Sound(owner), Runs("interrupt") \/ Runs("loop"),
           queue' = Tail(queue), pending' \in BOOLEAN,
           UNCHANGED <<use, ring, events, hc, port, connects, waiting, client, aborted>>
    PROVE  RingsInv'
  <1>1. UNCHANGED <<use, ring, events, hc, port, connects, waiting, client, aborted>>
    OBVIOUS
  <1>2. unreadEvents' = unreadEvents /\ unreadTrbs' = unreadTrbs
    BY <1>1 DEF unreadEvents, unreadTrbs
  <1>3. queue \in Seq(Entries) /\ queue # <<>> /\ Head(queue).kind \in {"interrupt", "loop"}
    BY DEF Sound, RingTypes, Runs
  <1>4. queue' \in Seq(Entries) /\ 1 \in DOMAIN queue /\ queue[1].kind \in {"interrupt", "loop"}
    BY <1>3, PassTail
  <1>5. PICK n \in Nat : Carried(queue, queue', 1, n, 0)
    BY <1>3, PassTail
  <1>6. RingTypes'
    BY <1>1, <1>4 DEF Sound, RingTypes, Unreported
  <1>7. CyclesInv'
    BY <1>1, <1>2 DEF Sound, CyclesInv
  <1>8. AwaitsInv'
    <2>1. Moved(1, {"fire", "interrupt", "loop"})
      BY <1>5, MovedNone
    <2> QED BY <1>1, <1>4, <2>1, AwaitsKept DEF Sound
  <1>9. TransfersInv'
    <2>1. Moved(1, {"interrupt"})
      BY <1>5, MovedNone
    <2>2. \A c \in Busy : Underway(c) => Underway(c)'
      BY <1>1, <1>4, <2>1, UnderwayStays
    <2> QED BY <1>1, <1>2, <2>2, TransfersKept DEF Sound
  <1>10. PortsInv'
    BY <1>1 DEF Sound, PortsInv, Unreported
  <1>11. SlotsInv(owner)'
    <2>1. \A s \in Slots : InUse(s) => Caused(owner[s], Code(s))'
      BY <1>1, <1>2 DEF Sound, SlotsInv, Caused, Code, Age
    <2>2. \A i \in n + 1 .. n + 0 : queue'[i].kind \notin {"fire", "woken"}
      OBVIOUS
    <2> QED BY <1>1, <1>2, <1>5, <2>1, <2>2, SlotsKept DEF Age
  <1> QED BY <1>1, <1>6, <1>7, <1>8, <1>9, <1>10, <1>11, SoundAgain DEF Sound

LEMMA SlotsFetched ==
    ASSUME NEW owner, Sound(owner), NEW n \in Nat, NEW d \in Slots, NEW code,
           Carried(queue, queue', 1, n, 1), Appended(queue', n, Fire(code, d)), code = Code(d),
           queue[1].kind \in {"interrupt", "loop"},
           UNCHANGED <<ring, hc, client, port, connects>>, unreadTrbs' = unreadTrbs,
           events'.trbs = events.trbs, Back(d) = unreadEvents, unreadEvents' = unreadEvents - 1
    PROVE  SlotsInv(owner)'
  <1>1. hc' = hc /\ client' = client /\ ring' = ring /\ port' = port /\ connects' = connects
    OBVIOUS
  <1>2. \A s \in Slots : Back(s)' = Back(s) /\ Code(s)' = Code(s)
    BY <1>1 DEF Back, Code
  <1>3. /\ unreadEvents \in 0 .. EventEnd - 1 /\ EventEnd \in Nat
        /\ \A s \in Slots : Back(s) \in 1 .. EventEnd
    BY SlotFacts
  <1>4. queue'[n + 1].kind = "fire" /\ queue'[n + 1].slot = d /\ queue'[n + 1].code = code
    BY DEF Appended, Fire
  <1>5. ASSUME NEW i \in DOMAIN queue', queue'[i].kind \in {"fire", "woken"}
        PROVE  \/ i <= n /\ i + 1 \in DOMAIN queue /\ queue'[i] = queue[i + 1] /\ Held(i + 1)
                  /\ queue[i + 1].slot \in Slots
               \/ i = n + 1
    <2>1. /\ i \in Nat /\ i <= n + 1
          /\ i <= n => i \in 1 .. n /\ Stays(queue, queue', i + 1, i)
      BY CarriedIs
    <2>2. CASE i <= n
      <3>1. i + 1 \in DOMAIN queue /\ queue'[i] = queue[i + 1] /\ Held(i + 1)
        BY <1>5, <2>1, <2>2 DEF Stays, Held
      <3> QED BY <2>2, <3>1, SlotFacts
    <2> QED BY <2>1, <2>2
  <1>6. /\ \A i \in DOMAIN queue : Held(i) => Back(queue[i].slot) > unreadEvents
        /\ \A i \in DOMAIN queue : queue[i].kind = "fire" => queue[i].code = Code(queue[i].slot)
        /\ \A i \in DOMAIN queue : queue[i].kind = "woken" => client[queue[i].client] = Code(queue[i].slot)
        /\ \A i, j \in DOMAIN queue :
            Held(i) /\ Held(j) /\ Precedes(i, j) => Back(queue[i].slot) > Back(queue[j].slot)
        /\ \A s \in Slots : InUse(s) => Caused(owner[s], Code(s))
        /\ \A s, t \in Slots : InUse(s) /\ InUse(t) /\ owner[s] = owner[t] => s = t
        /\ \A s, t \in Slots :
            InUse(s) /\ InUse(t) /\ Code(s) > 0 /\ Code(t) > 0 /\ Back(s) > Back(t)
                => Age(Code(s)) > Age(Code(t))
    BY DEF Sound, SlotsInv
  <1>7. ASSUME NEW s \in Slots, InUse(s)' PROVE InUse(s)
    <2>1. CASE Distance(s, hc'.enqueue, EventEnd) <= unreadEvents'
      <3>1. Back(s) <= unreadEvents
        BY <1>1, <1>3, <2>1 DEF Back
      <3> QED BY <3>1 DEF InUse
    <2>2. CASE \E i \in DOMAIN queue' : queue'[i].kind \in {"fire", "woken"}
                    /\ Distance(s, hc'.enqueue, EventEnd) <= Distance(queue'[i].slot, hc'.enqueue, EventEnd)
      <3>1. PICK i \in DOMAIN queue' : queue'[i].kind \in {"fire", "woken"}
                    /\ Distance(s, hc'.enqueue, EventEnd) <= Distance(queue'[i].slot, hc'.enqueue, EventEnd)
        BY <2>2
      <3>2. CASE i = n + 1
        <4>1. Back(s) <= unreadEvents
          BY <1>1, <1>4, <3>1, <3>2 DEF Back
        <4> QED BY <4>1 DEF InUse
      <3>3. CASE i # n + 1
        BY <1>1, <1>5, <3>1, <3>3 DEF InUse, Back
      <3> QED BY <3>2, <3>3
    <2> QED BY <1>7, <2>1, <2>2 DEF InUse, Held, Back
  <1>8. (\A i \in DOMAIN queue : Held(i) => Back(queue[i].slot) > unreadEvents)'
    <2> SUFFICES ASSUME NEW i \in DOMAIN queue', queue'[i].kind \in {"fire", "woken"}
                 PROVE  Distance(queue'[i].slot, hc.enqueue, EventEnd) > unreadEvents'
      BY <1>1 DEF Held, Back
    <2>1. CASE i = n + 1
      <3>1. Distance(queue'[i].slot, hc.enqueue, EventEnd) = unreadEvents
        BY <1>4, <2>1 DEF Back
      <3> QED BY <1>3, <3>1
    <2>2. CASE i # n + 1
      <3>1. Back(queue[i + 1].slot) > unreadEvents /\ queue'[i] = queue[i + 1] /\ queue[i + 1].slot \in Slots
        BY <1>5, <1>6, <2>2
      <3>2. Back(queue[i + 1].slot) \in Int
        BY <1>3, <3>1
      <3>3. Back(queue[i + 1].slot) > unreadEvents'
        BY <1>3, <3>1, <3>2
      <3> QED BY <3>1, <3>3 DEF Back
    <2> QED BY <2>1, <2>2
  <1>9. (\A i \in DOMAIN queue : queue[i].kind = "fire" => queue[i].code = Code(queue[i].slot))'
    <2> SUFFICES ASSUME NEW i \in DOMAIN queue', queue'[i].kind = "fire"
                 PROVE  queue'[i].code = events.trbs[queue'[i].slot].code
      BY DEF Code
    <2>1. CASE i = n + 1
      BY <1>4, <2>1 DEF Code
    <2>2. CASE i # n + 1
      <3>1. i + 1 \in DOMAIN queue /\ queue'[i] = queue[i + 1]
        BY <1>5, <2>2
      <3> QED BY <1>6, <3>1 DEF Code
    <2> QED BY <2>1, <2>2
  <1>10. (\A i \in DOMAIN queue : queue[i].kind = "woken" => client[queue[i].client] = Code(queue[i].slot))'
    <2> SUFFICES ASSUME NEW i \in DOMAIN queue', queue'[i].kind = "woken"
                 PROVE  client[queue'[i].client] = events.trbs[queue'[i].slot].code
      BY <1>1 DEF Code
    <2>1. i # n + 1
      BY <1>4
    <2>2. i + 1 \in DOMAIN queue /\ queue'[i] = queue[i + 1]
      BY <1>5, <2>1
    <2>3. client[queue[i + 1].client] = events.trbs[queue[i + 1].slot].code
      BY <1>6, <2>2 DEF Code
    <2> QED BY <2>2, <2>3
  <1>11. (\A i, j \in DOMAIN queue :
            Held(i) /\ Held(j) /\ Precedes(i, j) => Back(queue[i].slot) > Back(queue[j].slot))'
    <2> SUFFICES ASSUME NEW i \in DOMAIN queue', NEW j \in DOMAIN queue',
                        queue'[i].kind \in {"fire", "woken"}, queue'[j].kind \in {"fire", "woken"},
                        \/ queue'[i].kind = queue'[j].kind /\ i < j
                        \/ queue'[i].kind = "woken" /\ queue'[j].kind = "fire"
                 PROVE  Distance(queue'[i].slot, hc.enqueue, EventEnd)
                            > Distance(queue'[j].slot, hc.enqueue, EventEnd)
      BY <1>1 DEF Held, Precedes, Back
    <2>1. i \in Nat /\ j \in Nat /\ i <= n + 1 /\ j <= n + 1
      BY CarriedIs
    <2>2. i # n + 1
      BY <1>4, <2>1
    <2>3. i <= n /\ i + 1 \in DOMAIN queue /\ queue'[i] = queue[i + 1] /\ Held(i + 1)
      BY <1>5, <2>2
    <2>4. CASE j = n + 1
      <3>1. Back(queue[i + 1].slot) > unreadEvents
        BY <1>6, <2>3
      <3>2. Distance(queue'[j].slot, hc.enqueue, EventEnd) = unreadEvents
        BY <1>4, <2>4 DEF Back
      <3> QED BY <2>3, <3>1, <3>2 DEF Back
    <2>5. CASE j # n + 1
      <3>1. j <= n /\ j + 1 \in DOMAIN queue /\ queue'[j] = queue[j + 1] /\ Held(j + 1)
        BY <1>5, <2>5
      <3>2. i < j => i + 1 < j + 1
        BY <2>1
      <3>3. Precedes(i + 1, j + 1)
        BY <2>3, <3>1, <3>2 DEF Precedes
      <3>4. Back(queue[i + 1].slot) > Back(queue[j + 1].slot)
        BY <1>6, <2>3, <3>1, <3>3
      <3> QED BY <2>3, <3>1, <3>4 DEF Back
    <2> QED BY <2>4, <2>5
  <1>12. (\A s \in Slots : InUse(s) => Caused(owner[s], Code(s)))'
    <2> SUFFICES ASSUME NEW s \in Slots, InUse(s)' PROVE Caused(owner[s], Code(s))'
      OBVIOUS
    <2>1. Caused(owner[s], Code(s))
      BY <1>6, <1>7
    <2> QED BY <1>1, <1>2, <2>1 DEF Caused, Age
  <1>13. (\A s, t \in Slots : InUse(s) /\ InUse(t) /\ owner[s] = owner[t] => s = t)'
    BY <1>6, <1>7
  <1>14. (\A s, t \in Slots :
            InUse(s) /\ InUse(t) /\ Code(s) > 0 /\ Code(t) > 0 /\ Back(s) > Back(t)
                => Age(Code(s)) > Age(Code(t)))'
    <2> SUFFICES ASSUME NEW s \in Slots, NEW t \in Slots, InUse(s)', InUse(t)', Code(s)' > 0, Code(t)' > 0,
                        Back(s)' > Back(t)'
                 PROVE  Distance(Code(s)' - 1, ring'.enqueue, Link)
                            > Distance(Code(t)' - 1, ring'.enqueue, Link)
      BY DEF Age
    <2>1. InUse(s) /\ InUse(t) /\ Code(s) > 0 /\ Code(t) > 0 /\ Back(s) > Back(t)
      BY <1>2, <1>7
    <2>2. Age(Code(s)) > Age(Code(t))
      BY <1>6, <2>1
    <2> QED BY <1>1, <1>2, <2>2 DEF Age
  <1> QED BY <1>8, <1>9, <1>10, <1>11, <1>12, <1>13, <1>14 DEF SlotsInv

LEMMA FetchedKeeps ==
    ASSUME NEW owner, Sound(owner), Runs("interrupt") \/ Runs("loop"),
           NEW d \in Slots, NEW code \in Codes, Fetched(d, code), pending' \in BOOLEAN,
           UNCHANGED <<use, ring, hc, port, connects, waiting, client, aborted>>
    PROVE  RingsInv'
  <1>1. UNCHANGED <<use, ring, hc, port, connects, waiting, client, aborted>>
    OBVIOUS
  <1>2. /\ code = Code(d) /\ Back(d) = unreadEvents /\ unreadEvents >= 1 /\ unreadEvents' = unreadEvents - 1
        /\ events' \in EventRings /\ events'.trbs = events.trbs
    BY DEF Fetched, Code, Back
  <1>3. unreadTrbs' = unreadTrbs
    BY <1>1 DEF unreadTrbs
  <1>4. unreadEvents \in 0 .. EventEnd - 1 /\ EventEnd \in Nat
    BY SlotFacts
  <1>5. InUse(d)
    <2>1. Back(d) <= unreadEvents
      BY <1>2, <1>4
    <2> QED BY <2>1 DEF InUse
  <1>6. code # 0
    BY <1>2, <1>5, SlotFacts
  <1>7. Fire(code, d) \in Entries
    BY <1>6, EntriesAre
  <1>8. queue \in Seq(Entries) /\ queue # <<>> /\ Head(queue).kind \in {"interrupt", "loop"}
    BY DEF Sound, RingTypes, Runs
  <1>9. queue' = Append(Tail(queue), Fire(code, d))
    BY DEF Fetched
  <1>10. /\ queue' \in Seq(Entries) /\ Head(queue) = queue[1]
         /\ \E n \in Nat : Carried(queue, queue', 1, n, 1) /\ Appended(queue', n, Fire(code, d))
    BY <1>7, <1>8, <1>9, PassTurn
  <1>11. PICK n \in Nat : Carried(queue, queue', 1, n, 1) /\ Appended(queue', n, Fire(code, d))
    BY <1>10
  <1>12. queue[1].kind \in {"interrupt", "loop"}
    BY <1>8, <1>10
  <1>13. Fire(code, d).kind = "fire" /\ Fire(code, d).code = code
    BY DEF Fire
  <1>14. Moved(1, {"fire"}) /\ Moved(1, {"fire", "interrupt", "loop"})
    <2>1. Moved(1, {"fire"})
      BY <1>11, <1>13, MovedAppend
    <2> QED BY <2>1 DEF Moved
  <1>15. RingTypes'
    BY <1>1, <1>2, <1>10 DEF Sound, RingTypes, Unreported
  <1>16. CyclesInv'
    <2>1. unreadEvents' \in 0 .. EventEnd - 1
      BY <1>2, <1>4
    <2> QED BY <1>1, <1>2, <1>3, <2>1 DEF Sound, CyclesInv
  <1>17. AwaitsInv'
    BY <1>1, <1>12, <1>14, AwaitsKept DEF Sound
  <1>18. TransfersInv'
    <2>1. ASSUME NEW c \in Busy, Underway(c) PROVE Underway(c)'
      <3>1. CASE \E i \in DOMAIN queue : \/ queue[i].kind = "fire" /\ queue[i].code = client[c]
                                         \/ queue[i].kind = "woken" /\ queue[i].client = c
        <4>1. PICK i \in DOMAIN queue : \/ queue[i].kind = "fire" /\ queue[i].code = client[c]
                                        \/ queue[i].kind = "woken" /\ queue[i].client = c
          BY <3>1
        <4>2. Held(i)
          BY <4>1 DEF Held
        <4>3. PICK j \in DOMAIN queue' : queue'[j] = queue[i]
          BY <1>12, <1>14, <4>2, HeldStays
        <4> QED BY <1>1, <4>1, <4>3 DEF Underway
      <3>2. CASE Age(client[c]) <= unreadTrbs
        BY <1>1, <1>3, <3>2 DEF Underway, Age
      <3>3. CASE \E s \in Slots : Back(s) <= unreadEvents /\ Code(s) = client[c]
        <4>1. PICK s \in Slots : Back(s) <= unreadEvents /\ Code(s) = client[c]
          BY <3>3
        <4>2. CASE s = d
          <5>1. n + 1 \in DOMAIN queue'
            BY <1>11 DEF Carried
          <5>2. queue'[n + 1].kind = "fire" /\ queue'[n + 1].code = client[c]
            BY <1>2, <1>11, <1>13, <4>1, <4>2 DEF Appended
          <5> QED BY <1>1, <5>1, <5>2 DEF Underway
        <4>3. CASE s # d
          <5>1. Back(s) # Back(d) /\ Back(s) \in 1 .. EventEnd
            BY <4>3, SlotFacts
          <5>2. Back(s) <= unreadEvents'
            BY <1>2, <1>4, <4>1, <5>1
          <5> QED BY <1>1, <1>2, <4>1, <5>2 DEF Underway, Back, Code
        <4> QED BY <4>2, <4>3
      <3> QED BY <2>1, <3>1, <3>2, <3>3 DEF Underway
    <2> QED BY <1>1, <1>3, <2>1, TransfersKept DEF Sound
  <1>19. PortsInv'
    BY <1>1 DEF Sound, PortsInv, Unreported
  <1>20. SlotsInv(owner)'
    BY <1>1, <1>2, <1>3, <1>11, <1>12, SlotsFetched
  <1> QED BY <1>1, <1>15, <1>16, <1>17, <1>18, <1>19, <1>20, SoundAgain DEF Sound

LEMMA FetchKeeps ==
    ASSUME NEW owner, Sound(owner), Runs("interrupt") \/ Runs("loop"), Fetch, pending' \in BOOLEAN,
           UNCHANGED <<use, ring, hc, port, connects, waiting, client, aborted>>
    PROVE  RingsInv'
  <1>1. CASE \E d \in Slots, code \in Codes : Fetched(d, code)
    BY <1>1, FetchedKeeps
  <1>2. CASE queue' = Tail(queue) /\ UNCHANGED events
    BY <1>2, TailKeeps
  <1>3. hc' = hc
    OBVIOUS
  <1> QED BY <1>1, <1>2, <1>3, FetchIs DEF Sound

LEMMA InterruptKeeps ==
    ASSUME NEW owner, Sound(owner), xhciInterrupt \/ NextEvent
    PROVE  RingsInv'
  <1>1. CASE NextEvent
    <2>1. pending' \in BOOLEAN
      BY <1>1 DEF NextEvent, Sound, RingTypes
    <2> QED BY <1>1, <2>1, FetchKeeps DEF NextEvent
  <1>2. CASE xhciInterrupt
    <2>1. CASE pending
      <3>1. pending' \in BOOLEAN
        BY <1>2, <2>1 DEF xhciInterrupt
      <3> QED BY <1>2, <2>1, <3>1, FetchKeeps DEF xhciInterrupt
    <2>2. CASE ~pending
      <3>1. pending' \in BOOLEAN
        BY <1>2, <2>2 DEF xhciInterrupt, Sound, RingTypes
      <3> QED BY <1>2, <2>2, <3>1, TailKeeps DEF xhciInterrupt
    <2> QED BY <2>1, <2>2
  <1> QED BY <1>1, <1>2

LEMMA PostedUnderway ==
    ASSUME NEW owner, Sound(owner), NEW code, Posted(code), ring' = ring, client' = client, NEW c \in Busy
    PROVE  /\ code = client[c] => Underway(c)'
           /\ Underway(c) => Age(client[c]) <= unreadTrbs \/ Underway(c)'
  <1>1. PICK w \in Slots : w = hc.enqueue
    BY SlotFacts
  <1>2. /\ unreadEvents \in 0 .. EventEnd - 1 /\ EventEnd \in Nat
        /\ \A s \in Slots : Back(s) \in 1 .. EventEnd
    BY SlotFacts
  <1>3. /\ \A s \in Slots : Distance(s, hc'.enqueue, EventEnd) = IF s = w THEN 1 ELSE Back(s) + 1
        /\ \A s \in Slots : events'.trbs[s].code = IF s = w THEN code ELSE Code(s)
        /\ unreadEvents' = unreadEvents + 1
    BY <1>1 DEF Posted, Back, Code
  <1>4. Back(w) = EventEnd
    BY <1>1, <1>2, DistanceIs DEF Back, Slots
  <1>5. CASE code = client[c]
    <2>1. Distance(w, hc'.enqueue, EventEnd) <= unreadEvents' /\ events'.trbs[w].code = client[c]
      BY <1>2, <1>3, <1>5
    <2> QED BY <1>5, <2>1 DEF Underway, Back, Code
  <1>6. CASE \E s \in Slots : Back(s) <= unreadEvents /\ Code(s) = client[c]
    <2>1. PICK s \in Slots : Back(s) <= unreadEvents /\ Code(s) = client[c]
      BY <1>6
    <2>2. s # w
      BY <1>2, <1>4, <2>1
    <2>3. Distance(s, hc'.enqueue, EventEnd) <= unreadEvents' /\ events'.trbs[s].code = client[c]
      BY <1>2, <1>3, <2>1, <2>2
    <2> QED BY <2>3 DEF Underway, Back, Code
  <1>7. CASE \E i \in DOMAIN queue : \/ queue[i].kind = "fire" /\ queue[i].code = client[c]
                                     \/ queue[i].kind = "woken" /\ queue[i].client = c
    <2>1. PICK i \in DOMAIN queue : \/ queue[i].kind = "fire" /\ queue[i].code = client[c]
                                    \/ queue[i].kind = "woken" /\ queue[i].client = c
      BY <1>7
    <2>2. Held(i)
      BY <2>1 DEF Held
    <2>3. PICK j \in DOMAIN queue' : queue'[j] = queue[i]
      BY <2>2, PostedMoves, HeldStays
    <2> QED BY <2>1, <2>3 DEF Underway
  <1>8. Underway(c) => Age(client[c]) <= unreadTrbs \/ Underway(c)'
    BY <1>6, <1>7 DEF Underway
  <1> QED BY <1>5, <1>8

\* A report: types and cycles, and the awaits, which it does not touch.
LEMMA PostedKeeps ==
    ASSUME NEW owner, Sound(owner), NEW code, Posted(code), hc' \in Controllers,
           UNCHANGED <<use, ring, waiting, client>>, unreadTrbs' \in 0 .. Link - 1,
           port' \in [Ports -> {"connected", "resetting", "enabled"}], connects' \subseteq connects
    PROVE  RingTypes' /\ CyclesInv' /\ AwaitsInv'
  <1>1. use' = use /\ ring' = ring /\ waiting' = waiting /\ client' = client
    OBVIOUS
  <1>2. RingTypes'
    BY <1>1 DEF Posted, Sound, RingTypes, Unreported
  <1>3. CyclesInv'
    <2>1. unreadEvents' \in 0 .. EventEnd - 1
      <3>1. unreadEvents \in 0 .. EventEnd - 1 /\ EventEnd \in Nat
        BY SlotFacts
      <3>2. unreadEvents + 1 <= EventEnd - 1 /\ unreadEvents' = unreadEvents + 1
        BY DEF Posted
      <3> QED BY <3>1, <3>2
    <2> QED BY <1>1, <2>1 DEF Posted, Sound, CyclesInv
  <1>4. AwaitsInv'
    <2>1. Moved(0, {"interrupt"})
      BY PostedMoves
    <2>2. Moved(0, {"fire", "interrupt", "loop"})
      BY <2>1 DEF Moved
    <2> QED BY <1>1, <2>2, AwaitsKept DEF Sound
  <1> QED BY <1>2, <1>3, <1>4

LEMMA PortEventKeeps ==
    ASSUME NEW owner, Sound(owner), \E p \in Ports : HcPortReset(p) \/ HcConnect(p)
    PROVE  RingsInv'
  <1>1. PICK p \in Ports : HcPortReset(p) \/ HcConnect(p)
    OBVIOUS
  <1>2. Post(hc, -p) /\ UNCHANGED <<use, ring, waiting, client, aborted>>
    BY <1>1 DEF HcPortReset, HcConnect
  <1>3. use' = use /\ ring' = ring /\ waiting' = waiting /\ client' = client /\ aborted' = aborted
    BY <1>2
  <1>4. Posted(-p) /\ hc' \in Controllers /\ hc'.dequeue = hc.dequeue /\ hc'.cycle = hc.cycle
    BY <1>2, HcPortIs DEF Sound
  <1>5. unreadTrbs' = unreadTrbs
    BY <1>3, <1>4 DEF unreadTrbs
  <1>6. unreadTrbs \in 0 .. Link - 1
    BY SlotFacts
  <1>7. /\ port' \in [Ports -> {"connected", "resetting", "enabled"}] /\ connects' \subseteq connects
        /\ \A x \in Ports : port[x] = "enabled" => port'[x] = "enabled"
    BY <1>1 DEF HcPortReset, HcConnect, Sound, RingTypes
  <1>8. -p \in Codes /\ -p # 0 /\ ~(-p > 0)
    BY CodesAre
  <1>9. RingTypes' /\ CyclesInv' /\ AwaitsInv'
    BY <1>3, <1>4, <1>5, <1>6, <1>7, PostedKeeps
  <1>10. TransfersInv'
    <2>1. ASSUME NEW c \in Busy, Underway(c) PROVE Underway(c)'
      <3>1. CASE Age(client[c]) <= unreadTrbs
        BY <1>3, <1>5, <3>1 DEF Underway, Age
      <3>2. CASE ~(Age(client[c]) <= unreadTrbs)
        BY <1>3, <1>4, <2>1, <3>2, PostedUnderway
      <3> QED BY <3>1, <3>2
    <2> QED BY <1>3, <1>5, <2>1, TransfersKept DEF Sound
  <1>11. PortsInv'
    BY <1>3, <1>7 DEF Sound, PortsInv, Unreported
  <1>12. PICK o \in Owners : /\ Caused(o, -p)'
                             /\ \A s \in Slots : InUse(s) => owner[s] # o
    <2>1. \A s \in Slots : InUse(s) => Caused(owner[s], Code(s))
      BY DEF Sound, SlotsInv
    <2>2. CASE HcPortReset(p)
      <3>1. <<"reset", p>> \in Owners
        BY DEF Owners
      <3>2. port[p] = "resetting" /\ port'[p] = "enabled"
        BY <2>2 DEF HcPortReset, Sound, RingTypes
      <3>3. Caused(<<"reset", p>>, -p)'
        BY <3>2 DEF Caused
      <3>4. ASSUME NEW s \in Slots, InUse(s), owner[s] = <<"reset", p>> PROVE FALSE
        BY <2>1, <3>2, <3>4 DEF Caused
      <3> QED BY <3>1, <3>3, <3>4
    <2>3. CASE HcConnect(p)
      <3>1. p \in connects /\ p \notin connects' /\ p \in Unreported
        BY <2>3 DEF HcConnect, Sound, RingTypes
      <3>2. <<"connect", p>> \in Owners
        BY <3>1 DEF Owners
      <3>3. Caused(<<"connect", p>>, -p)'
        BY <3>1 DEF Caused
      <3>4. ASSUME NEW s \in Slots, InUse(s), owner[s] = <<"connect", p>> PROVE FALSE
        BY <2>1, <3>1, <3>4 DEF Caused
      <3> QED BY <3>2, <3>3, <3>4
    <2> QED BY <1>1, <2>2, <2>3
  <1>13. \A q \in Owners, d \in Codes : Caused(q, d) => Caused(q, d)'
    <2> SUFFICES ASSUME NEW q \in Owners, NEW d \in Codes, Caused(q, d) PROVE Caused(q, d)'
      OBVIOUS
    <2>1. q[1] = "reset" => q[2] \in Ports
      BY OwnersAre
    <2> QED BY <1>3, <1>5, <1>7, <2>1 DEF Caused, Age
  <1>14. PICK own \in [Slots -> Owners] : SlotsInv(own)'
    BY <1>3, <1>4, <1>8, <1>12, <1>13, SlotsPosted
  <1> QED BY <1>3, <1>9, <1>10, <1>11, <1>14, SoundAgain

\* The controller executes a TRB: the one with the flag is the last one of the
\* transfer whose thread awaits its code.
LEMMA ExecutedTransfers ==
    ASSUME NEW owner, Sound(owner), NEW r \in 0 .. Link - 1, Executed(r), UNCHANGED <<use, ring, client>>
    PROVE  TransfersInv'
  <1>1. use' = use /\ ring' = ring /\ client' = client
    OBVIOUS
  <1>2. Busy' = Busy
    BY <1>1 DEF Busy
  <1>3. /\ unreadTrbs >= 1 /\ unreadTrbs' = unreadTrbs - 1 /\ Distance(r, ring.enqueue, Link) = unreadTrbs
        /\ \/ ring.trbs[r].ioc /\ Posted(r + 1)
           \/ ~ring.trbs[r].ioc /\ SameEventSide /\ UNCHANGED <<events, pending, queue>>
    BY DEF Executed
  <1>4. unreadTrbs \in 0 .. Link - 1 /\ Link \in Nat /\ ring.enqueue \in 0 .. Link - 1
    BY SlotFacts
  <1>5. /\ \A c, d \in Busy : client[c] = client[d] => c = d
        /\ \A c \in Busy : Age(client[c]) <= Cardinality(Busy) /\ Underway(c)
        /\ \A i \in 0 .. Link - 1 : Distance(i, ring.enqueue, Link) <= unreadTrbs =>
            (ring.trbs[i].ioc <=> \E c \in Busy : client[c] = i + 1)
        /\ \/ unreadTrbs <= Cardinality(Busy)
           \/ use = "control" /\ Busy # {} /\ unreadTrbs <= 3
    BY DEF Sound, TransfersInv
  <1>6. ASSUME NEW c \in Busy
        PROVE  /\ client[c] - 1 \in 0 .. Link - 1 /\ client[c] \in Nat
               /\ Age(client[c]) \in 1 .. Link
               /\ Age(client[c]) = unreadTrbs => client[c] = r + 1
    <2>1. client[c] \in Codes /\ client[c] > 0
      BY DEF Busy, Sound, RingTypes
    <2>2. client[c] - 1 \in 0 .. Link - 1 /\ client[c] \in Nat
      BY <2>1, CodesAre
    <2>3. Age(client[c]) \in 1 .. Link
      BY <1>4, <2>2, DistanceIs DEF Age
    <2>4. Age(client[c]) = unreadTrbs => client[c] - 1 = r
      <3>1. PICK p \in 0 .. Link - 1 : p = client[c] - 1
        BY <2>2
      <3>2. Distance(p, ring.enqueue, Link) = Distance(r, ring.enqueue, Link) => p = r
        BY <1>4, DistanceIs
      <3> QED BY <1>3, <3>1, <3>2 DEF Age
    <2> QED BY <2>2, <2>3, <2>4
  <1>7. ring.trbs[r].ioc <=> \E c \in Busy : client[c] = r + 1
    <2>1. Distance(r, ring.enqueue, Link) <= unreadTrbs
      BY <1>3, <1>4
    <2> QED BY <1>5, <2>1
  <1>8. ASSUME NEW c \in Busy PROVE Underway(c)'
    <2>1. CASE Age(client[c]) <= unreadTrbs /\ Age(client[c]) # unreadTrbs
      <3>1. Age(client[c]) <= unreadTrbs'
        BY <1>3, <1>4, <1>6, <2>1
      <3> QED BY <1>1, <3>1 DEF Underway, Age
    <2>2. CASE Age(client[c]) = unreadTrbs
      <3>1. client[c] = r + 1
        BY <1>6, <2>2
      <3>2. Posted(r + 1)
        BY <1>3, <1>7, <3>1
      <3> QED BY <1>1, <3>1, <3>2, PostedUnderway
    <2>3. CASE ~(Age(client[c]) <= unreadTrbs)
      <3>1. CASE Posted(r + 1)
        BY <1>1, <1>5, <2>3, <3>1, PostedUnderway
      <3>2. CASE SameEventSide /\ UNCHANGED <<events, pending, queue>>
        <4>1. unreadEvents' = unreadEvents
          BY <3>2 DEF unreadEvents, SameEventSide
        <4> QED BY <1>1, <1>5, <2>3, <3>2, <4>1 DEF Underway, Back, Code, SameEventSide
      <3> QED BY <1>3, <3>1, <3>2
    <2> QED BY <2>1, <2>2, <2>3
  <1>9. (\A c, d \in Busy : client[c] = client[d] => c = d)'
    BY <1>1, <1>2, <1>5
  <1>10. (\A c \in Busy : Age(client[c]) <= Cardinality(Busy) /\ Underway(c))'
    <2> SUFFICES ASSUME NEW c \in Busy PROVE Age(client[c])' <= Cardinality(Busy) /\ Underway(c)'
      BY <1>2
    <2> QED BY <1>1, <1>5, <1>8 DEF Age
  <1>11. (\A i \in 0 .. Link - 1 : Distance(i, ring.enqueue, Link) <= unreadTrbs =>
            (ring.trbs[i].ioc <=> \E c \in Busy : client[c] = i + 1))'
    <2> SUFFICES ASSUME NEW i \in 0 .. Link - 1, Distance(i, ring.enqueue, Link) <= unreadTrbs'
                 PROVE  ring.trbs[i].ioc <=> \E c \in Busy : client[c] = i + 1
      BY <1>1, <1>2
    <2>1. Distance(i, ring.enqueue, Link) \in 1 .. Link
      BY <1>4, DistanceIs
    <2>2. Distance(i, ring.enqueue, Link) <= unreadTrbs
      BY <1>3, <1>4, <2>1
    <2> QED BY <1>5, <2>2
  <1>12. (\/ unreadTrbs <= Cardinality(Busy)
          \/ use = "control" /\ Busy # {} /\ unreadTrbs <= 3)'
    <2>1. Busy \subseteq Clients
      BY DEF Busy
    <2>2. Cardinality(Busy) \in Nat
      BY <2>1, BusySizes
    <2> QED BY <1>1, <1>2, <1>3, <1>4, <1>5, <2>2
  <1> QED BY <1>9, <1>10, <1>11, <1>12 DEF TransfersInv

LEMMA HcExecuteKeeps ==
    ASSUME NEW owner, Sound(owner), HcExecute
    PROVE  RingsInv'
  <1>1. UNCHANGED <<use, ring, port, connects, waiting, client, aborted>>
    BY DEF HcExecute
  <1>2. use' = use /\ ring' = ring /\ port' = port /\ connects' = connects /\ waiting' = waiting
        /\ client' = client /\ aborted' = aborted
    BY <1>1
  <1>3. PICK r \in 0 .. Link - 1 : Executed(r)
    BY HcExecuteIs DEF Sound
  <1>4. TransfersInv'
    BY <1>2, <1>3, ExecutedTransfers
  <1>5. PortsInv'
    BY <1>2 DEF Sound, PortsInv, Unreported
  <1>6. unreadTrbs \in 0 .. Link - 1 /\ Link \in Nat /\ ring.enqueue \in 0 .. Link - 1
    BY SlotFacts
  <1>7. /\ hc' \in Controllers /\ unreadTrbs >= 1 /\ unreadTrbs' = unreadTrbs - 1
        /\ Distance(r, ring.enqueue, Link) = unreadTrbs
    BY <1>3 DEF Executed
  <1>8. unreadTrbs' \in 0 .. Link - 1
    BY <1>6, <1>7
  <1>9. \A q \in Owners, d \in Codes : Caused(q, d) => Caused(q, d)'
    <2> SUFFICES ASSUME NEW q \in Owners, NEW d \in Codes, Caused(q, d) PROVE Caused(q, d)'
      OBVIOUS
    <2>1. CASE q[1] = "transfer" /\ d > 0 /\ client[q[2]] = d /\ Age(d) > unreadTrbs
      <3>1. Age(d) \in 1 .. Link
        BY <1>6, <2>1, DistanceIs, CodesAre DEF Age
      <3>2. Age(d) > unreadTrbs'
        BY <1>6, <1>7, <2>1, <3>1
      <3> QED BY <1>2, <2>1, <3>2 DEF Caused, Age
    <2>2. CASE ~(q[1] = "transfer" /\ d > 0 /\ client[q[2]] = d /\ Age(d) > unreadTrbs)
      BY <1>2, <2>2 DEF Caused
    <2> QED BY <2>1, <2>2
  <1>10. CASE ring.trbs[r].ioc /\ Posted(r + 1)
    <2>1. RingTypes' /\ CyclesInv' /\ AwaitsInv'
      <3>1. port' \in [Ports -> {"connected", "resetting", "enabled"}] /\ connects' \subseteq connects
        BY <1>2 DEF Sound, RingTypes
      <3> QED BY <1>2, <1>7, <1>8, <1>10, <3>1, PostedKeeps
    <2>2. r + 1 \in Codes /\ r + 1 > 0 /\ Age(r + 1) = unreadTrbs
      <3>1. r + 1 \in 1 .. Link /\ (r + 1) - 1 = r
        BY <1>6
      <3> QED BY <1>7, <3>1, CodesAre DEF Age
    <2>3. PICK c \in Busy : client[c] = r + 1
      <3>1. Distance(r, ring.enqueue, Link) <= unreadTrbs
        BY <1>6, <1>7
      <3> QED BY <1>10, <3>1 DEF Sound, TransfersInv
    <2>4. c \in Users
      <3>1. c \in Clients /\ client[c] # 0
        BY <2>3 DEF Busy
      <3> QED BY <3>1 DEF Sound, AwaitsInv, Users
    <2>5. PICK o \in Owners : o = <<"transfer", c>>
      BY <2>4 DEF Owners
    <2>6. Caused(o, r + 1)'
      <3>1. Age(r + 1) > unreadTrbs'
        BY <1>6, <1>7, <2>2
      <3> QED BY <1>2, <2>2, <2>3, <2>5, <3>1 DEF Caused, Age
    <2>7. ASSUME NEW s \in Slots, InUse(s), owner[s] = o PROVE FALSE
      <3>1. Caused(o, Code(s))
        BY <2>7 DEF Sound, SlotsInv
      <3>2. Code(s) = r + 1 /\ Age(Code(s)) > unreadTrbs
        BY <2>3, <2>5, <3>1 DEF Caused
      <3> QED BY <1>6, <2>2, <3>2
    <2>8. Age(r + 1) <= unreadTrbs
      BY <1>6, <2>2
    <2>9. \E own \in [Slots -> Owners] : SlotsInv(own)'
      BY <1>2, <1>9, <1>10, <2>2, <2>6, <2>7, <2>8, SlotsPosted
    <2> QED BY <1>2, <1>4, <1>5, <2>1, <2>9, SoundAgain
  <1>11. CASE SameEventSide /\ UNCHANGED <<events, pending, queue>>
    <2>1. events' = events /\ pending' = pending /\ queue' = queue
      BY <1>11
    <2>2. unreadEvents' = unreadEvents
      BY <1>11 DEF unreadEvents, SameEventSide
    <2>3. PICK n \in Nat : Carried(queue, queue', 0, n, 0)
      BY <2>1, PassNone DEF Sound, RingTypes
    <2>4. RingTypes'
      BY <1>2, <1>7, <2>1 DEF Sound, RingTypes, Unreported
    <2>5. CyclesInv'
      BY <1>2, <1>8, <1>11, <2>1, <2>2 DEF Sound, CyclesInv, SameEventSide
    <2>6. AwaitsInv'
      BY <1>2, <2>3, MovedNone, AwaitsKept DEF Sound
    <2>7. SlotsInv(owner)'
      <3>1. ASSUME NEW s \in Slots, InUse(s) PROVE Caused(owner[s], Code(s))'
        <4>1. PICK q \in Owners, d \in Codes : q = owner[s] /\ d = Code(s)
          BY SlotFacts
        <4>2. Caused(q, d)
          BY <3>1, <4>1 DEF Sound, SlotsInv
        <4>3. Caused(q, d)'
          BY <1>9, <4>2
        <4> QED BY <2>1, <4>1, <4>3 DEF Caused, Code, Age
      <3>2. \A i \in n + 1 .. n + 0 : queue'[i].kind \notin {"fire", "woken"}
        OBVIOUS
      <3> QED BY <1>2, <1>11, <2>1, <2>2, <2>3, <3>1, <3>2, SlotsKept DEF SameEventSide, Age
    <2> QED BY <1>2, <1>4, <1>5, <2>4, <2>5, <2>6, <2>7, SoundAgain DEF Sound
  <1> QED BY <1>3, <1>10, <1>11 DEF Executed

-----------------------------------------------------------------------------
\* The kernel's handlers.
LEMMA HandleAwaitKeeps ==
    ASSUME NEW owner, Sound(owner), HandleAwait
    PROVE  RingsInv'
  <1>1. UNCHANGED <<use, ring, events, hc, pending, port, connects, client, aborted>>
    BY DEF HandleAwait
  <1>2. use' = use /\ ring' = ring /\ events' = events /\ hc' = hc /\ port' = port /\ connects' = connects
        /\ client' = client /\ aborted' = aborted
    BY <1>1
  <1>3. queue \in Seq(Entries) /\ queue # <<>> /\ Head(queue).kind = "await" /\ queue' = Tail(queue)
    BY DEF Sound, RingTypes, HandleAwait, Runs
  <1>4. queue' \in Seq(Entries) /\ Head(queue) = queue[1] /\ 1 \in DOMAIN queue /\ queue[1].kind = "await"
    BY <1>3, PassTail
  <1>5. PICK n \in Nat : Carried(queue, queue', 1, n, 0)
    BY <1>3, PassTail
  <1>6. PICK a \in Entries : a = queue[1]
    BY <1>3, <1>4
  <1>7. a.kind = "await" /\ a \in Awaits /\ a.client \in Clients
    <2>1. a.kind = "await"
      BY <1>4, <1>6
    <2> QED BY <2>1 DEF Entries, Awaits, Fires, Wakes
  <1>8. waiting' = waiting \cup {a}
    BY <1>4, <1>6 DEF HandleAwait
  <1>9. unreadEvents' = unreadEvents /\ unreadTrbs' = unreadTrbs
    BY <1>2 DEF unreadEvents, unreadTrbs
  <1>10. RingTypes'
    BY <1>1, <1>4, <1>7, <1>8 DEF Sound, RingTypes, Unreported
  <1>11. CyclesInv'
    BY <1>2, <1>9 DEF Sound, CyclesInv
  <1>12. PortsInv'
    BY <1>2 DEF Sound, PortsInv, Unreported
  <1>13. TransfersInv'
    <2>1. Moved(1, {"interrupt"})
      BY <1>5, MovedNone
    <2>2. \A c \in Busy : Underway(c) => Underway(c)'
      BY <1>2, <1>4, <2>1, UnderwayStays
    <2> QED BY <1>2, <1>9, <2>2, TransfersKept DEF Sound
  <1>14. SlotsInv(owner)'
    <2>1. \A s \in Slots : InUse(s) => Caused(owner[s], Code(s))'
      BY <1>2, <1>9 DEF Sound, SlotsInv, Caused, Code, Age
    <2>2. \A i \in n + 1 .. n + 0 : queue'[i].kind \notin {"fire", "woken"}
      OBVIOUS
    <2> QED BY <1>2, <1>5, <1>9, <2>1, <2>2, SlotsKept DEF Age
  <1>15. AwaitsInv'
    <2>1. /\ \A i \in DOMAIN queue : queue[i].kind = "await" => queue[i].code = client[queue[i].client]
          /\ \A w \in waiting : w.code = client[w.client]
          /\ \A i, j \in DOMAIN queue :
              Suspended(i) /\ Suspended(j) /\ queue[i].client = queue[j].client => i = j
          /\ \A i \in DOMAIN queue, w \in waiting : Suspended(i) => queue[i].client # w.client
          /\ \A c \in Clients : client[c] # 0 =>
              \/ \E i \in DOMAIN queue : Suspended(i) /\ queue[i].client = c
              \/ \E w \in waiting : w.client = c
          /\ \A i, j \in DOMAIN queue :
              queue[i].kind = "await" /\ queue[j].kind = "fire" /\ queue[j].code = queue[i].code
                  /\ queue[i].code > 0 => i < j
          /\ \A c \in Clients : client[c] # 0 /\ c # Initializer => use = "endpoint" /\ client[c] > 0
      BY DEF Sound, AwaitsInv
    <2>2. ASSUME NEW i \in DOMAIN queue'
          PROVE  i \in Nat /\ i + 1 \in DOMAIN queue /\ queue'[i] = queue[i + 1] /\ i + 1 # 1
      <3>1. i \in Nat /\ i >= 1 /\ Stays(queue, queue', i + 1, i)
        BY <1>5, CarriedTailIs
      <3> QED BY <3>1 DEF Stays
    <2>3. ASSUME NEW j \in DOMAIN queue, j # 1
          PROVE  j - 1 \in DOMAIN queue' /\ queue'[j - 1] = queue[j]
      BY <1>5, <2>3, CarriedTailIs DEF Stays
    <2>4. (\A i \in DOMAIN queue : queue[i].kind = "await" => queue[i].code = client[queue[i].client])'
      <3> SUFFICES ASSUME NEW i \in DOMAIN queue', queue'[i].kind = "await"
                   PROVE  queue'[i].code = client[queue'[i].client]
        BY <1>2
      <3> QED BY <2>1, <2>2
    <2>5. (\A w \in waiting : w.code = client[w.client])'
      BY <1>2, <1>4, <1>6, <1>8, <2>1
    <2>6. (\A i, j \in DOMAIN queue :
              Suspended(i) /\ Suspended(j) /\ queue[i].client = queue[j].client => i = j)'
      <3> SUFFICES ASSUME NEW i \in DOMAIN queue', NEW j \in DOMAIN queue',
                          queue'[i].kind \in {"await", "woken"}, queue'[j].kind \in {"await", "woken"},
                          queue'[i].client = queue'[j].client
                   PROVE  i = j
        BY DEF Suspended
      <3>1. i + 1 = j + 1
        BY <2>1, <2>2 DEF Suspended
      <3> QED BY <2>2, <3>1
    <2>7. (\A i \in DOMAIN queue, w \in waiting : Suspended(i) => queue[i].client # w.client)'
      <3> SUFFICES ASSUME NEW i \in DOMAIN queue', queue'[i].kind \in {"await", "woken"},
                          NEW w \in waiting', queue'[i].client = w.client
                   PROVE  FALSE
        BY DEF Suspended
      <3>1. i + 1 \in DOMAIN queue /\ queue'[i] = queue[i + 1] /\ i + 1 # 1
        BY <2>2
      <3>2. CASE w \in waiting
        BY <2>1, <3>1, <3>2 DEF Suspended
      <3>3. CASE w = a
        BY <1>4, <1>6, <2>1, <3>1, <3>3 DEF Suspended
      <3> QED BY <1>8, <3>2, <3>3
    <2>8. (\A c \in Clients : client[c] # 0 =>
              \/ \E i \in DOMAIN queue : Suspended(i) /\ queue[i].client = c
              \/ \E w \in waiting : w.client = c)'
      <3> SUFFICES ASSUME NEW c \in Clients, client[c] # 0
                   PROVE  \/ \E i \in DOMAIN queue' : queue'[i].kind \in {"await", "woken"}
                                     /\ queue'[i].client = c
                          \/ \E w \in waiting' : w.client = c
        BY <1>2 DEF Suspended
      <3>1. CASE \E w \in waiting : w.client = c
        BY <1>8, <3>1
      <3>2. CASE \E i \in DOMAIN queue : queue[i].kind \in {"await", "woken"} /\ queue[i].client = c
        <4>1. PICK i \in DOMAIN queue : queue[i].kind \in {"await", "woken"} /\ queue[i].client = c
          BY <3>2
        <4>2. CASE i = 1
          BY <1>6, <1>8, <4>1, <4>2
        <4>3. CASE i # 1
          BY <2>3, <4>1, <4>3
        <4> QED BY <4>2, <4>3
      <3> QED BY <2>1, <3>1, <3>2 DEF Suspended
    <2>9. (\A i, j \in DOMAIN queue :
              queue[i].kind = "await" /\ queue[j].kind = "fire" /\ queue[j].code = queue[i].code
                  /\ queue[i].code > 0 => i < j)'
      <3> SUFFICES ASSUME NEW i \in DOMAIN queue', NEW j \in DOMAIN queue', queue'[i].kind = "await",
                          queue'[j].kind = "fire", queue'[j].code = queue'[i].code, queue'[i].code > 0
                   PROVE  i < j
        OBVIOUS
      <3>1. i + 1 < j + 1
        BY <2>1, <2>2
      <3> QED BY <2>2, <3>1
    <2>10. (\A c \in Clients : client[c] # 0 /\ c # Initializer => use = "endpoint" /\ client[c] > 0)'
      BY <1>2, <2>1
    <2> QED BY <2>4, <2>5, <2>6, <2>7, <2>8, <2>9, <2>10 DEF AwaitsInv
  <1> QED BY <1>2, <1>10, <1>11, <1>12, <1>13, <1>14, <1>15, SoundAgain DEF Sound

\* A woken thread goes on: its report is the oldest one in use, and its transfer
\* the oldest one.
Returned(c, s, n) ==
    /\ c \in Clients /\ s \in Slots /\ n \in Nat
    /\ Carried(queue, queue', 1, n, 0) /\ queue' \in Seq(Entries)
    /\ 1 \in DOMAIN queue /\ queue[1].kind = "woken" /\ queue[1].client = c /\ queue[1].slot = s
    /\ client' \in [Clients -> Codes] /\ client'[c] = 0
    /\ \A d \in Clients : d # c => client'[d] = client[d]
    /\ client[c] = Code(s) /\ client[c] # 0 /\ InUse(s)

LEMMA ReturnIs ==
    ASSUME NEW owner, Sound(owner), Return
    PROVE  \E c, s, n : Returned(c, s, n)
  <1>1. queue \in Seq(Entries) /\ queue # <<>> /\ Head(queue).kind = "woken" /\ queue' = Tail(queue)
        /\ client \in [Clients -> Codes]
    BY DEF Sound, RingTypes, Return, Runs
  <1>2. queue' \in Seq(Entries) /\ Head(queue) = queue[1] /\ 1 \in DOMAIN queue /\ queue[1].kind = "woken"
    BY <1>1, PassTail
  <1>3. PICK n \in Nat : Carried(queue, queue', 1, n, 0)
    BY <1>1, PassTail
  <1>4. PICK c \in Clients, s \in Slots : c = queue[1].client /\ s = queue[1].slot
    BY <1>2, SlotFacts DEF Typed
  <1>5. client' = [client EXCEPT ![c] = 0] /\ 0 \in Codes
    BY <1>2, <1>4, CodesAre DEF Return
  <1>6. client' \in [Clients -> Codes] /\ client'[c] = 0 /\ \A d \in Clients : d # c => client'[d] = client[d]
    BY <1>1, <1>5
  <1>7. client[c] = Code(s)
    BY <1>2, <1>4 DEF Sound, SlotsInv
  <1>8. InUse(s)
    BY <1>2, <1>4, SlotFacts DEF Held
  <1>9. client[c] # 0
    BY <1>7, <1>8, SlotFacts
  <1>10. Returned(c, s, n)
    BY <1>2, <1>3, <1>4, <1>6, <1>7, <1>8, <1>9 DEF Returned
  <1> QED BY <1>10

LEMMA ReturnOldest ==
    ASSUME NEW owner, Sound(owner), NEW c \in Clients, NEW s \in Slots, NEW n, Returned(c, s, n),
           client[c] > 0
    PROVE  /\ Age(client[c]) > unreadTrbs
           /\ \A d \in Busy : d # c => Age(client[d]) < Age(client[c])
  <1>1. /\ 1 \in DOMAIN queue /\ queue[1].kind = "woken" /\ queue[1].client = c /\ queue[1].slot = s
        /\ client[c] = Code(s) /\ InUse(s)
    BY DEF Returned
  <1>2. /\ \A i \in DOMAIN queue : Held(i) => Back(queue[i].slot) > unreadEvents
        /\ \A i \in DOMAIN queue : queue[i].kind = "fire" => queue[i].code = Code(queue[i].slot)
        /\ \A i \in DOMAIN queue : queue[i].kind = "woken" => client[queue[i].client] = Code(queue[i].slot)
        /\ \A i, j \in DOMAIN queue :
            Held(i) /\ Held(j) /\ Precedes(i, j) => Back(queue[i].slot) > Back(queue[j].slot)
        /\ \A t \in Slots : InUse(t) => Caused(owner[t], Code(t))
        /\ \A t, x \in Slots :
            InUse(t) /\ InUse(x) /\ Code(t) > 0 /\ Code(x) > 0 /\ Back(t) > Back(x)
                => Age(Code(t)) > Age(Code(x))
    BY DEF Sound, SlotsInv
  <1>3. unreadTrbs \in 0 .. Link - 1 /\ Link \in Nat /\ ring.enqueue \in 0 .. Link - 1
        /\ unreadEvents \in 0 .. EventEnd - 1 /\ EventEnd \in Nat
        /\ \A t \in Slots : Back(t) \in 1 .. EventEnd
    BY SlotFacts
  <1>4. \A d \in Busy : client[d] \in Codes /\ client[d] > 0
    BY DEF Busy, Sound, RingTypes
  <1>5. \A d \in Busy : Age(client[d]) \in 1 .. Link
    BY <1>3, <1>4, CodesAre, DistanceIs DEF Age
  <1>6. Age(client[c]) > unreadTrbs
    <2>1. PICK o \in Owners : o = owner[s]
      BY SlotFacts
    <2>2. Caused(o, client[c])
      BY <1>1, <1>2, <2>1
    <2>3. o[1] \in {"reset", "connect"} => o[2] \in Nat \ {0}
      BY OwnersAre, Sizes
    <2> QED BY <2>2, <2>3 DEF Caused
  <1>7. ASSUME NEW d \in Busy, d # c PROVE Age(client[d]) < Age(client[c])
    <2>1. Underway(d) /\ c \in Busy
      BY DEF Sound, TransfersInv, Busy
    <2>2. Age(client[d]) \in 1 .. Link /\ Age(client[c]) \in 1 .. Link
      BY <1>5, <2>1
    <2>3. ASSUME NEW t \in Slots, InUse(t), Code(t) = client[d], Back(s) > Back(t)
          PROVE  Age(client[d]) < Age(client[c])
      <3>1. Age(client[c]) > Age(client[d])
        BY <1>1, <1>2, <1>4, <2>3
      <3> QED BY <2>2, <3>1
    <2>4. CASE Age(client[d]) <= unreadTrbs
      BY <1>3, <1>6, <2>2, <2>4
    <2>5. CASE \E t \in Slots : Back(t) <= unreadEvents /\ Code(t) = client[d]
      <3>1. PICK t \in Slots : Back(t) <= unreadEvents /\ Code(t) = client[d]
        BY <2>5
      <3>2. Back(s) > unreadEvents
        BY <1>1, <1>2 DEF Held
      <3>3. Back(s) > Back(t)
        BY <1>3, <3>1, <3>2
      <3>4. InUse(t)
        BY <3>1 DEF InUse
      <3> QED BY <2>3, <3>1, <3>3, <3>4
    <2>6. CASE \E i \in DOMAIN queue : \/ queue[i].kind = "fire" /\ queue[i].code = client[d]
                                       \/ queue[i].kind = "woken" /\ queue[i].client = d
      <3>1. PICK i \in DOMAIN queue : \/ queue[i].kind = "fire" /\ queue[i].code = client[d]
                                      \/ queue[i].kind = "woken" /\ queue[i].client = d
        BY <2>6
      <3>2. i # 1 /\ i \in Nat /\ i >= 1
        <4>1. i \in Nat /\ i >= 1
          BY SlotFacts DEF Typed
        <4> QED BY <1>1, <1>7, <3>1, <4>1
      <3>3. Held(1) /\ Held(i) /\ Precedes(1, i)
        BY <1>1, <3>1, <3>2 DEF Held, Precedes
      <3>4. PICK t \in Slots : t = queue[i].slot /\ InUse(t)
        BY <3>3, SlotFacts
      <3>5. Back(s) > Back(t)
        BY <1>1, <1>2, <3>3, <3>4
      <3>6. Code(t) = client[d]
        BY <1>2, <3>1, <3>4
      <3> QED BY <2>3, <3>4, <3>5, <3>6
    <2> QED BY <2>1, <2>4, <2>5, <2>6 DEF Underway
  <1> QED BY <1>6, <1>7

LEMMA ReturnKeeps ==
    ASSUME NEW owner, Sound(owner), Return
    PROVE  RingsInv'
  <1>1. use' = use /\ ring' = ring /\ events' = events /\ hc' = hc /\ pending' = pending /\ port' = port
        /\ connects' = connects /\ waiting' = waiting
    BY DEF Return
  <1>2. PICK c, s, n : Returned(c, s, n)
    BY ReturnIs
  <1>3. /\ c \in Clients /\ s \in Slots /\ n \in Nat
        /\ Carried(queue, queue', 1, n, 0) /\ queue' \in Seq(Entries)
        /\ 1 \in DOMAIN queue /\ queue[1].kind = "woken" /\ queue[1].client = c /\ queue[1].slot = s
        /\ client' \in [Clients -> Codes] /\ client'[c] = 0
        /\ \A d \in Clients : d # c => client'[d] = client[d]
        /\ client[c] = Code(s) /\ client[c] # 0 /\ InUse(s)
    BY <1>2 DEF Returned
  <1>4. ASSUME NEW i \in DOMAIN queue'
        PROVE  i \in Nat /\ i + 1 \in DOMAIN queue /\ queue'[i] = queue[i + 1] /\ i + 1 # 1
    <2>1. i \in Nat /\ i >= 1 /\ Stays(queue, queue', i + 1, i)
      BY <1>3, CarriedTailIs
    <2> QED BY <2>1 DEF Stays
  <1>5. ASSUME NEW j \in DOMAIN queue, j # 1
        PROVE  j - 1 \in DOMAIN queue' /\ queue'[j - 1] = queue[j]
    BY <1>3, <1>5, CarriedTailIs DEF Stays
  <1>6. unreadEvents' = unreadEvents /\ unreadTrbs' = unreadTrbs
    BY <1>1 DEF unreadEvents, unreadTrbs
  <1>7. /\ \A i \in DOMAIN queue : queue[i].kind = "await" => queue[i].code = client[queue[i].client]
        /\ \A w \in waiting : w.code = client[w.client]
        /\ \A i, j \in DOMAIN queue :
            Suspended(i) /\ Suspended(j) /\ queue[i].client = queue[j].client => i = j
        /\ \A i \in DOMAIN queue, w \in waiting : Suspended(i) => queue[i].client # w.client
        /\ \A d \in Clients : client[d] # 0 =>
            \/ \E i \in DOMAIN queue : Suspended(i) /\ queue[i].client = d
            \/ \E w \in waiting : w.client = d
        /\ \A i, j \in DOMAIN queue :
            queue[i].kind = "await" /\ queue[j].kind = "fire" /\ queue[j].code = queue[i].code
                /\ queue[i].code > 0 => i < j
        /\ \A d \in Clients : client[d] # 0 /\ d # Initializer => use = "endpoint" /\ client[d] > 0
    BY DEF Sound, AwaitsInv
  <1>8. ASSUME NEW j \in DOMAIN queue, j # 1, queue[j].kind \in {"await", "woken"}
        PROVE  queue[j].client \in Clients /\ queue[j].client # c
    <2>1. queue[j].client \in Clients
      BY <1>8, SlotFacts DEF Typed
    <2>2. Suspended(1) /\ Suspended(j)
      BY <1>3, <1>8 DEF Suspended
    <2> QED BY <1>3, <1>7, <1>8, <2>1, <2>2
  <1>9. ASSUME NEW w \in waiting PROVE w.client \in Clients /\ w.client # c
    <2>1. w.client \in Clients
      BY DEF Sound, RingTypes, Awaits
    <2>2. Suspended(1)
      BY <1>3 DEF Suspended
    <2> QED BY <1>3, <1>7, <2>1, <2>2
  <1>10. RingTypes'
    BY <1>1, <1>3 DEF Sound, RingTypes, Unreported
  <1>11. CyclesInv'
    BY <1>1, <1>6 DEF Sound, CyclesInv
  <1>12. AwaitsInv'
    <2>1. (\A i \in DOMAIN queue : queue[i].kind = "await" => queue[i].code = client[queue[i].client])'
      <3> SUFFICES ASSUME NEW i \in DOMAIN queue', queue'[i].kind = "await"
                   PROVE  queue'[i].code = client'[queue'[i].client]
        OBVIOUS
      <3>1. i + 1 \in DOMAIN queue /\ queue'[i] = queue[i + 1] /\ i + 1 # 1
        BY <1>4
      <3>2. queue[i + 1].client \in Clients /\ queue[i + 1].client # c
        BY <1>8, <3>1
      <3> QED BY <1>3, <1>7, <3>1, <3>2
    <2>2. (\A w \in waiting : w.code = client[w.client])'
      BY <1>1, <1>3, <1>7, <1>9
    <2>3. (\A i, j \in DOMAIN queue :
              Suspended(i) /\ Suspended(j) /\ queue[i].client = queue[j].client => i = j)'
      <3> SUFFICES ASSUME NEW i \in DOMAIN queue', NEW j \in DOMAIN queue',
                          queue'[i].kind \in {"await", "woken"}, queue'[j].kind \in {"await", "woken"},
                          queue'[i].client = queue'[j].client
                   PROVE  i = j
        BY DEF Suspended
      <3>1. i + 1 = j + 1
        BY <1>4, <1>7 DEF Suspended
      <3> QED BY <1>4, <3>1
    <2>4. (\A i \in DOMAIN queue, w \in waiting : Suspended(i) => queue[i].client # w.client)'
      <3> SUFFICES ASSUME NEW i \in DOMAIN queue', queue'[i].kind \in {"await", "woken"},
                          NEW w \in waiting
                   PROVE  queue'[i].client # w.client
        BY <1>1 DEF Suspended
      <3>1. i + 1 \in DOMAIN queue /\ queue'[i] = queue[i + 1]
        BY <1>4
      <3> QED BY <1>7, <3>1 DEF Suspended
    <2>5. (\A d \in Clients : client[d] # 0 =>
              \/ \E i \in DOMAIN queue : Suspended(i) /\ queue[i].client = d
              \/ \E w \in waiting : w.client = d)'
      <3> SUFFICES ASSUME NEW d \in Clients, client'[d] # 0
                   PROVE  \/ \E i \in DOMAIN queue' : queue'[i].kind \in {"await", "woken"}
                                     /\ queue'[i].client = d
                          \/ \E w \in waiting : w.client = d
        BY <1>1 DEF Suspended
      <3>1. d # c /\ client[d] # 0
        BY <1>3
      <3>2. CASE \E i \in DOMAIN queue : queue[i].kind \in {"await", "woken"} /\ queue[i].client = d
        <4>1. PICK i \in DOMAIN queue : queue[i].kind \in {"await", "woken"} /\ queue[i].client = d
          BY <3>2
        <4>2. i # 1
          BY <1>3, <3>1, <4>1
        <4> QED BY <1>5, <4>1, <4>2
      <3> QED BY <1>7, <3>1, <3>2 DEF Suspended
    <2>6. (\A i, j \in DOMAIN queue :
              queue[i].kind = "await" /\ queue[j].kind = "fire" /\ queue[j].code = queue[i].code
                  /\ queue[i].code > 0 => i < j)'
      <3> SUFFICES ASSUME NEW i \in DOMAIN queue', NEW j \in DOMAIN queue', queue'[i].kind = "await",
                          queue'[j].kind = "fire", queue'[j].code = queue'[i].code, queue'[i].code > 0
                   PROVE  i < j
        OBVIOUS
      <3>1. i + 1 < j + 1
        BY <1>4, <1>7
      <3> QED BY <1>4, <3>1
    <2>7. (\A d \in Clients : client[d] # 0 /\ d # Initializer => use = "endpoint" /\ client[d] > 0)'
      BY <1>1, <1>3, <1>7
    <2> QED BY <2>1, <2>2, <2>3, <2>4, <2>5, <2>6, <2>7 DEF AwaitsInv
  <1>13. /\ unreadTrbs \in 0 .. Link - 1 /\ Link \in Nat /\ ring.enqueue \in 0 .. Link - 1
         /\ unreadEvents \in 0 .. EventEnd - 1 /\ EventEnd \in Nat
         /\ \A t \in Slots : Back(t) \in 1 .. EventEnd
    BY SlotFacts
  <1>14. TransfersInv'
    <2>1. /\ \A d, e \in Busy : client[d] = client[e] => d = e
          /\ \A d \in Busy : Age(client[d]) <= Cardinality(Busy) /\ Underway(d)
          /\ \A i \in 0 .. Link - 1 : Distance(i, ring.enqueue, Link) <= unreadTrbs =>
              (ring.trbs[i].ioc <=> \E d \in Busy : client[d] = i + 1)
          /\ \/ unreadTrbs <= Cardinality(Busy)
             \/ use = "control" /\ Busy # {} /\ unreadTrbs <= 3
      BY DEF Sound, TransfersInv
    <2>2. Busy \subseteq Clients /\ \A d \in Busy : client[d] \in Codes /\ client[d] > 0
      BY DEF Busy, Sound, RingTypes
    <2>3. Busy' = Busy \ {c}
      BY <1>3 DEF Busy
    <2>4. \A d \in Busy \ {c} : client'[d] = client[d]
      BY <1>3, <2>2
    <2>5. \A d \in Busy : Age(client[d]) \in 1 .. Link
      BY <1>13, <2>2, CodesAre, DistanceIs DEF Age
    <2>6. PICK b \in Nat : b = Cardinality(Busy)
      BY <2>2, BusySizes
    <2>7. PICK a \in Nat : a = Cardinality(Busy \ {c}) /\ IF client[c] > 0 THEN a = b - 1 ELSE a = b
      <3>1. CASE client[c] > 0
        <4>1. c \in Busy
          BY <1>3, <3>1 DEF Busy
        <4>2. Cardinality(Busy \ {c}) = b - 1 /\ b # 0
          BY <2>2, <2>6, <4>1, BusySizes
        <4> QED BY <2>6, <3>1, <4>2
      <3>2. CASE ~(client[c] > 0)
        <4>1. Busy \ {c} = Busy
          BY <3>2 DEF Busy
        <4> QED BY <2>6, <3>2, <4>1
      <3> QED BY <3>1, <3>2
    <2>8. client[c] > 0 => /\ c \in Busy /\ Age(client[c]) > unreadTrbs
                           /\ \A d \in Busy : d # c => Age(client[d]) < Age(client[c])
      BY <1>2, <1>3, ReturnOldest DEF Busy
    <2>9. ~(client[c] > 0) => c \notin Busy
      BY DEF Busy
    <2>10. (\A d, e \in Busy : client[d] = client[e] => d = e)'
      BY <2>1, <2>3, <2>4
    <2>11. ASSUME NEW d \in Busy, d # c PROVE Age(client[d]) <= a
      BY <2>1, <2>5, <2>6, <2>7, <2>8, <2>11
    <2>12. ASSUME NEW d \in Busy, d # c PROVE Underway(d)'
      <3>1. client'[d] = client[d] /\ Underway(d)
        BY <2>1, <2>4, <2>12
      <3>2. CASE Age(client[d]) <= unreadTrbs
        BY <1>1, <1>6, <3>1, <3>2 DEF Underway, Age
      <3>3. CASE \E t \in Slots : Back(t) <= unreadEvents /\ Code(t) = client[d]
        BY <1>1, <1>6, <3>1, <3>3 DEF Underway, Back, Code
      <3>4. CASE \E i \in DOMAIN queue : \/ queue[i].kind = "fire" /\ queue[i].code = client[d]
                                         \/ queue[i].kind = "woken" /\ queue[i].client = d
        <4>1. PICK i \in DOMAIN queue : \/ queue[i].kind = "fire" /\ queue[i].code = client[d]
                                        \/ queue[i].kind = "woken" /\ queue[i].client = d
          BY <3>4
        <4>2. i # 1
          BY <1>3, <2>12, <4>1
        <4>3. i - 1 \in DOMAIN queue' /\ queue'[i - 1] = queue[i]
          BY <1>5, <4>2
        <4> QED BY <3>1, <4>1, <4>3 DEF Underway
      <3> QED BY <3>1, <3>2, <3>3, <3>4 DEF Underway
    <2>13. (\A d \in Busy : Age(client[d]) <= Cardinality(Busy) /\ Underway(d))'
      <3> SUFFICES ASSUME NEW d \in Busy, d # c
                   PROVE  Distance(client'[d] - 1, ring'.enqueue, Link) <= a /\ Underway(d)'
        BY <2>3, <2>7 DEF Age
      <3> QED BY <1>1, <2>4, <2>11, <2>12 DEF Age
    <2>14. (\A i \in 0 .. Link - 1 : Distance(i, ring.enqueue, Link) <= unreadTrbs =>
              (ring.trbs[i].ioc <=> \E d \in Busy : client[d] = i + 1))'
      <3> SUFFICES ASSUME NEW i \in 0 .. Link - 1, Distance(i, ring.enqueue, Link) <= unreadTrbs
                   PROVE  ring.trbs[i].ioc <=> \E d \in Busy \ {c} : client'[d] = i + 1
        BY <1>1, <1>6, <2>3
      <3>1. Distance(i, ring.enqueue, Link) \in 1 .. Link
        BY <1>13, DistanceIs
      <3>2. ASSUME c \in Busy, client[c] = i + 1 PROVE FALSE
        <4>1. client[c] > 0 /\ (i + 1) - 1 = i
          BY <2>2, <3>2
        <4>2. Age(client[c]) = Distance(i, ring.enqueue, Link)
          BY <3>2, <4>1 DEF Age
        <4> QED BY <1>13, <2>8, <3>1, <4>1, <4>2
      <3> QED BY <2>1, <2>4, <3>2
    <2>15. (\/ unreadTrbs <= Cardinality(Busy)
            \/ use = "control" /\ Busy # {} /\ unreadTrbs <= 3)'
      <3>1. CASE client[c] > 0
        <4>1. c \in Busy /\ Age(client[c]) > unreadTrbs /\ Age(client[c]) <= b /\ Age(client[c]) \in 1 .. Link
          BY <2>1, <2>5, <2>6, <2>8, <3>1
        <4>2. unreadTrbs <= a
          BY <1>13, <2>7, <3>1, <4>1
        <4> QED BY <1>6, <2>3, <2>7, <4>2
      <3>2. CASE ~(client[c] > 0)
        <4>1. Busy \ {c} = Busy
          BY <2>9, <3>2
        <4> QED BY <1>1, <1>6, <2>1, <2>3, <4>1
      <3> QED BY <3>1, <3>2
    <2> QED BY <2>10, <2>13, <2>14, <2>15 DEF TransfersInv
  <1>15. /\ \A i \in DOMAIN queue : Held(i) => Back(queue[i].slot) > unreadEvents
         /\ \A i, j \in DOMAIN queue :
            Held(i) /\ Held(j) /\ Precedes(i, j) => Back(queue[i].slot) > Back(queue[j].slot)
         /\ \A t \in Slots : InUse(t) => Caused(owner[t], Code(t))
         /\ \A t, x \in Slots :
            InUse(t) /\ InUse(x) /\ Code(t) > 0 /\ Code(x) > 0 /\ Back(t) > Back(x)
                => Age(Code(t)) > Age(Code(x))
    BY DEF Sound, SlotsInv
  <1>16. ~InUse(s)'
    <2> SUFFICES ASSUME InUse(s)' PROVE FALSE
      OBVIOUS
    <2>1. Held(1) /\ Back(s) > unreadEvents
      BY <1>3, <1>15 DEF Held
    <2>2. ~(Back(s) <= unreadEvents)
      BY <1>3, <1>13, <2>1
    <2>3. PICK i \in DOMAIN queue' : queue'[i].kind \in {"fire", "woken"}
                /\ Distance(s, hc.enqueue, EventEnd) <= Distance(queue'[i].slot, hc.enqueue, EventEnd)
      BY <1>1, <1>6, <2>2 DEF InUse, Held, Back
    <2>4. i \in Nat /\ i + 1 \in DOMAIN queue /\ queue'[i] = queue[i + 1] /\ i + 1 # 1
      BY <1>4
    <2>5. PICK j \in DOMAIN queue : j = i + 1 /\ j \in Nat /\ 1 < j
      <3>1. i >= 1
        BY <1>3, CarriedTailIs
      <3> QED BY <2>4, <3>1
    <2>6. Held(j) /\ Precedes(1, j)
      BY <1>3, <2>3, <2>4, <2>5 DEF Held, Precedes
    <2>7. Back(queue[1].slot) > Back(queue[j].slot) /\ queue[j].slot \in Slots
      BY <1>3, <1>15, <2>1, <2>6, SlotFacts
    <2>8. Back(s) <= Back(queue[j].slot)
      BY <2>3, <2>4, <2>5 DEF Back
    <2> QED BY <1>3, <1>13, <2>7, <2>8
  <1>17. PortsInv'
    <2>1. aborted' = aborted \cup {p \in Ports : client[c] = -p /\ port[p] # "enabled"}
      <3>1. Head(queue).client = c
        BY <1>3
      <3> QED BY <3>1 DEF Return
    <2>2. ASSUME NEW p \in Ports, client[c] = -p, port[p] # "enabled"
          PROVE  p \in Unreported \ connects
      <3>1. PICK o \in Owners : o = owner[s]
        BY <1>3, SlotFacts
      <3>2. Caused(o, -p)
        BY <1>3, <1>15, <2>2, <3>1
      <3>3. p \in Nat /\ ~(-p > 0)
        BY CodesAre
      <3>4. /\ o[1] = "reset" => o[2] \in Ports
            /\ o[1] = "connect" => o[2] \in Unreported /\ o[2] \in Ports
        BY OwnersAre
      <3>5. \A x \in Ports : x \in Nat
        BY CodesAre
      <3>6. \A x \in Ports : -p = -x => x = p
        BY <3>3, <3>5
      <3>7. o[1] # "reset"
        BY <2>2, <3>2, <3>3, <3>4, <3>6 DEF Caused
      <3>8. o[1] = "connect" /\ -p = -o[2] /\ o[2] \notin connects
        BY <3>2, <3>3, <3>7 DEF Caused
      <3> QED BY <3>4, <3>6, <3>8
    <2> QED BY <1>1, <2>1, <2>2 DEF Sound, PortsInv, Unreported
  <1>18. SlotsInv(owner)'
    <2>1. ASSUME NEW t \in Slots, InUse(t), InUse(t)' PROVE Caused(owner[t], Code(t))'
      <3>1. PICK o \in Owners, d \in Codes : o = owner[t] /\ d = Code(t)
        BY SlotFacts
      <3>2. Caused(o, d)
        BY <1>15, <2>1, <3>1
      <3>3. t # s
        BY <1>16, <2>1
      <3>4. ASSUME d > 0, client[c] = d PROVE FALSE
        <4>1. Code(t) = Code(s) /\ Code(s) > 0
          BY <1>3, <3>1, <3>4
        <4>2. Age(Code(t)) \in 1 .. Link
          BY <1>13, <3>1, <3>4, CodesAre, DistanceIs DEF Age
        <4>3. ~(Back(t) > Back(s)) /\ ~(Back(s) > Back(t))
          BY <1>3, <1>15, <2>1, <4>1, <4>2
        <4>4. Back(t) = Back(s)
          BY <1>3, <1>13, <4>3
        <4> QED BY <1>3, <3>3, <4>4, SlotFacts
      <3>5. o[1] = "transfer" => o[2] \in Clients
        BY OwnersAre
      <3>6. CASE o[1] = "transfer" /\ d > 0 /\ client[o[2]] = d /\ Age(d) > unreadTrbs
        <4>1. client'[o[2]] = d
          BY <1>3, <3>4, <3>5, <3>6
        <4> QED BY <1>1, <1>6, <3>1, <3>6, <4>1 DEF Caused, Code, Age
      <3>7. CASE ~(o[1] = "transfer" /\ d > 0 /\ client[o[2]] = d /\ Age(d) > unreadTrbs)
        BY <1>1, <3>1, <3>2, <3>7 DEF Caused, Code
      <3> QED BY <3>6, <3>7
    <2>2. \A i \in n + 1 .. n + 0 : queue'[i].kind \notin {"fire", "woken"}
      BY <1>3
    <2>3. ASSUME NEW i \in 1 .. n, queue[i + 1].kind = "woken"
          PROVE  client'[queue[i + 1].client] = client[queue[i + 1].client]
      <3>1. i + 1 \in DOMAIN queue /\ i + 1 # 1
        BY <1>3 DEF Carried
      <3>2. queue[i + 1].client \in Clients /\ queue[i + 1].client # c
        BY <1>8, <2>3, <3>1
      <3> QED BY <1>3, <3>2
    <2> QED BY <1>1, <1>3, <1>6, <2>1, <2>2, <2>3, SlotsKept DEF Age
  <1> QED BY <1>1, <1>10, <1>11, <1>12, <1>14, <1>17, <1>18, SoundAgain DEF Sound

\* A thread that is idle begins to wait.
LEMMA NotIdle ==
    ASSUME NEW owner, Sound(owner)
    PROVE  /\ \A i \in DOMAIN queue : Suspended(i) =>
                queue[i].client \in Clients /\ client[queue[i].client] # 0
           /\ \A w \in waiting : w.client \in Clients /\ client[w.client] # 0
  <1>1. ASSUME NEW i \in DOMAIN queue, Suspended(i)
        PROVE  queue[i].client \in Clients /\ client[queue[i].client] # 0
    <2>1. Typed(queue)
      BY SlotFacts
    <2>2. CASE queue[i].kind = "await"
      <3>1. queue[i].client \in Clients /\ queue[i].code # 0
        BY <2>1, <2>2 DEF Typed
      <3>2. queue[i].code = client[queue[i].client]
        BY <2>2 DEF Sound, AwaitsInv
      <3> QED BY <3>1, <3>2
    <2>3. CASE queue[i].kind = "woken"
      <3>1. queue[i].client \in Clients /\ queue[i].slot \in Slots
        BY <2>1, <2>3 DEF Typed
      <3>2. InUse(queue[i].slot)
        BY <2>3, SlotFacts DEF Held
      <3>3. Code(queue[i].slot) # 0
        BY <3>1, <3>2, SlotFacts
      <3>4. client[queue[i].client] = Code(queue[i].slot)
        BY <2>3 DEF Sound, SlotsInv
      <3> QED BY <3>1, <3>3, <3>4
    <2> QED BY <1>1, <2>2, <2>3 DEF Suspended
  <1>2. ASSUME NEW w \in waiting PROVE w.client \in Clients /\ client[w.client] # 0
    <2>1. w \in Awaits
      BY DEF Sound, RingTypes
    <2>2. w.client \in Clients /\ w.code # 0
      BY <2>1 DEF Awaits
    <2>3. w.code = client[w.client]
      BY DEF Sound, AwaitsInv
    <2> QED BY <2>2, <2>3
  <1> QED BY <1>1, <1>2

\* The queue and the awaits after it has begun.
Begun(c, code, n) ==
    /\ c \in Clients /\ code \in Codes \ {0} /\ n \in Nat /\ client[c] = 0
    /\ Carried(queue, queue', 0, n, 1) /\ queue' \in Seq(Entries)
    /\ n + 1 \in DOMAIN queue' /\ queue'[n + 1].kind = "await"
    /\ queue'[n + 1].client = c /\ queue'[n + 1].code = code
    /\ client' \in [Clients -> Codes] /\ client'[c] = code
    /\ \A d \in Clients : d # c => client'[d] = client[d]

LEMMA BegunIs ==
    ASSUME RingTypes, NEW c \in Clients, NEW code \in Codes \ {0}, client[c] = 0,
           client' = [client EXCEPT ![c] = code], queue' = Append(queue, Await(c, code))
    PROVE  \E n \in Nat : Begun(c, code, n)
  <1>1. queue \in Seq(Entries) /\ client \in [Clients -> Codes]
    BY DEF RingTypes
  <1>2. PICK x \in Entries : x = Await(c, code) /\ x.kind = "await" /\ x.client = c /\ x.code = code
    <2>1. Await(c, code).kind = "await" /\ Await(c, code).client = c /\ Await(c, code).code = code
      BY DEF Await
    <2> QED BY <2>1, EntriesAre
  <1>3. queue' \in Seq(Entries) /\ \E n \in Nat : Carried(queue, queue', 0, n, 1) /\ Appended(queue', n, x)
    BY <1>1, <1>2, PassAppend
  <1>4. PICK n \in Nat : Carried(queue, queue', 0, n, 1) /\ Appended(queue', n, x)
    BY <1>3
  <1>5. n + 1 \in DOMAIN queue' /\ queue'[n + 1] = x
    BY <1>4 DEF Carried, Appended
  <1>6. client' \in [Clients -> Codes] /\ client'[c] = code /\ \A d \in Clients : d # c => client'[d] = client[d]
    BY <1>1
  <1> QED BY <1>2, <1>3, <1>4, <1>5, <1>6 DEF Begun

LEMMA BegunAwaits ==
    ASSUME NEW owner, Sound(owner), NEW c, NEW code, NEW n, Begun(c, code, n),
           waiting' = waiting, use' = use,
           c # Initializer => use = "endpoint" /\ code > 0,
           \A i \in DOMAIN queue : queue[i].kind = "fire" /\ queue[i].code = code => ~(code > 0)
    PROVE  AwaitsInv'
  <1>1. /\ c \in Clients /\ code \in Codes \ {0} /\ n \in Nat /\ client[c] = 0
        /\ Carried(queue, queue', 0, n, 1)
        /\ n + 1 \in DOMAIN queue' /\ queue'[n + 1].kind = "await"
        /\ queue'[n + 1].client = c /\ queue'[n + 1].code = code
        /\ client'[c] = code
        /\ \A d \in Clients : d # c => client'[d] = client[d]
    BY DEF Begun
  <1>2. ASSUME NEW i \in DOMAIN queue'
        PROVE  i \in Nat /\ i <= n + 1 /\ (i # n + 1 => i <= n /\ i \in DOMAIN queue /\ queue'[i] = queue[i])
    <2>1. PICK m \in 0 .. 2 : m = 1
      OBVIOUS
    <2>2. /\ i \in Nat /\ i <= n + m
          /\ i <= n => i \in 1 .. n /\ Stays(queue, queue', i + 0, i)
      BY <1>1, <2>1, CarriedIs
    <2>3. i # n + 1 => i <= n /\ i + 0 = i
      BY <1>1, <2>1, <2>2
    <2> QED BY <2>1, <2>2, <2>3 DEF Stays
  <1>3. ASSUME NEW j \in DOMAIN queue
        PROVE  j \in Nat /\ j <= n /\ j \in DOMAIN queue' /\ queue'[j] = queue[j]
    <2>1. /\ j \in Nat /\ j >= 1
          /\ j # 0 => j - 0 \in 1 .. n /\ Stays(queue, queue', j, j - 0)
      BY <1>1, CarriedIs
    <2>2. j # 0 /\ j - 0 = j
      BY <2>1
    <2>3. j \in 1 .. n
      BY <2>1, <2>2
    <2> QED BY <1>1, <2>1, <2>2, <2>3 DEF Stays
  <1>4. /\ \A i \in DOMAIN queue : queue[i].kind = "await" => queue[i].code = client[queue[i].client]
        /\ \A w \in waiting : w.code = client[w.client]
        /\ \A i, j \in DOMAIN queue :
            Suspended(i) /\ Suspended(j) /\ queue[i].client = queue[j].client => i = j
        /\ \A i \in DOMAIN queue, w \in waiting : Suspended(i) => queue[i].client # w.client
        /\ \A d \in Clients : client[d] # 0 =>
            \/ \E i \in DOMAIN queue : Suspended(i) /\ queue[i].client = d
            \/ \E w \in waiting : w.client = d
        /\ \A i, j \in DOMAIN queue :
            queue[i].kind = "await" /\ queue[j].kind = "fire" /\ queue[j].code = queue[i].code
                /\ queue[i].code > 0 => i < j
        /\ \A d \in Clients : client[d] # 0 /\ d # Initializer => use = "endpoint" /\ client[d] > 0
    BY DEF Sound, AwaitsInv
  <1>5. ASSUME NEW i \in DOMAIN queue, queue[i].kind \in {"await", "woken"}
        PROVE  queue[i].client \in Clients /\ queue[i].client # c
    BY <1>1, <1>5, NotIdle DEF Suspended
  <1>6. \A w \in waiting : w.client \in Clients /\ w.client # c
    BY <1>1, NotIdle
  <1>7. (\A i \in DOMAIN queue : queue[i].kind = "await" => queue[i].code = client[queue[i].client])'
    <2> SUFFICES ASSUME NEW i \in DOMAIN queue', queue'[i].kind = "await"
                 PROVE  queue'[i].code = client'[queue'[i].client]
      OBVIOUS
    <2>1. CASE i = n + 1
      BY <1>1, <2>1
    <2>2. CASE i # n + 1
      <3>1. i \in DOMAIN queue /\ queue'[i] = queue[i]
        BY <1>2, <2>2
      <3>2. queue[i].client \in Clients /\ queue[i].client # c
        BY <1>5, <3>1
      <3> QED BY <1>1, <1>4, <3>1, <3>2
    <2> QED BY <2>1, <2>2
  <1>8. (\A w \in waiting : w.code = client[w.client])'
    BY <1>1, <1>4, <1>6
  <1>9. (\A i, j \in DOMAIN queue :
            Suspended(i) /\ Suspended(j) /\ queue[i].client = queue[j].client => i = j)'
    <2> SUFFICES ASSUME NEW i \in DOMAIN queue', NEW j \in DOMAIN queue',
                        queue'[i].kind \in {"await", "woken"}, queue'[j].kind \in {"await", "woken"},
                        queue'[i].client = queue'[j].client
                 PROVE  i = j
      BY DEF Suspended
    <2>1. i = n + 1 <=> queue'[i].client = c
      BY <1>1, <1>2, <1>5
    <2>2. j = n + 1 <=> queue'[j].client = c
      BY <1>1, <1>2, <1>5
    <2>3. CASE i # n + 1 /\ j # n + 1
      BY <1>2, <1>4, <2>3 DEF Suspended
    <2> QED BY <2>1, <2>2, <2>3
  <1>10. (\A i \in DOMAIN queue, w \in waiting : Suspended(i) => queue[i].client # w.client)'
    <2> SUFFICES ASSUME NEW i \in DOMAIN queue', queue'[i].kind \in {"await", "woken"}, NEW w \in waiting
                 PROVE  queue'[i].client # w.client
      BY DEF Suspended
    <2>1. CASE i = n + 1
      BY <1>1, <1>6, <2>1
    <2>2. CASE i # n + 1
      BY <1>2, <1>4, <2>2 DEF Suspended
    <2> QED BY <2>1, <2>2
  <1>11. (\A d \in Clients : client[d] # 0 =>
            \/ \E i \in DOMAIN queue : Suspended(i) /\ queue[i].client = d
            \/ \E w \in waiting : w.client = d)'
    <2> SUFFICES ASSUME NEW d \in Clients, client'[d] # 0
                 PROVE  \/ \E i \in DOMAIN queue' : queue'[i].kind \in {"await", "woken"}
                                   /\ queue'[i].client = d
                        \/ \E w \in waiting : w.client = d
      BY DEF Suspended
    <2>1. CASE d = c
      BY <1>1, <2>1
    <2>2. CASE d # c
      BY <1>1, <1>3, <1>4, <2>2 DEF Suspended
    <2> QED BY <2>1, <2>2
  <1>12. (\A i, j \in DOMAIN queue :
            queue[i].kind = "await" /\ queue[j].kind = "fire" /\ queue[j].code = queue[i].code
                /\ queue[i].code > 0 => i < j)'
    <2> SUFFICES ASSUME NEW i \in DOMAIN queue', NEW j \in DOMAIN queue', queue'[i].kind = "await",
                        queue'[j].kind = "fire", queue'[j].code = queue'[i].code, queue'[i].code > 0
                 PROVE  i < j
      OBVIOUS
    <2>1. j # n + 1
      BY <1>1
    <2>2. j \in DOMAIN queue /\ queue'[j] = queue[j]
      BY <1>2, <2>1
    <2>3. CASE i = n + 1
      BY <1>1, <2>2, <2>3
    <2>4. CASE i # n + 1
      BY <1>2, <1>4, <2>2, <2>4
    <2> QED BY <2>3, <2>4
  <1>13. (\A d \in Clients : client[d] # 0 /\ d # Initializer => use = "endpoint" /\ client[d] > 0)'
    BY <1>1, <1>4
  <1> QED BY <1>7, <1>8, <1>9, <1>10, <1>11, <1>12, <1>13 DEF AwaitsInv

LEMMA BegunUnderway ==
    ASSUME NEW owner, Sound(owner), NEW c, NEW code, NEW n, Begun(c, code, n),
           UNCHANGED <<events, hc>>, NEW d \in Busy, Underway(d)
    PROVE  d # c /\ client'[d] = client[d] /\ (Age(client[d]) <= unreadTrbs \/ Underway(d)')
  <1>1. /\ n \in Nat /\ client[c] = 0
        /\ Carried(queue, queue', 0, n, 1)
        /\ \A e \in Clients : e # c => client'[e] = client[e]
    BY DEF Begun
  <1>2. d # c /\ client'[d] = client[d]
    BY <1>1 DEF Busy
  <1>3. unreadEvents' = unreadEvents
    BY DEF unreadEvents
  <1>4. CASE \E t \in Slots : Back(t) <= unreadEvents /\ Code(t) = client[d]
    BY <1>2, <1>3, <1>4 DEF Underway, Back, Code
  <1>5. CASE \E i \in DOMAIN queue : \/ queue[i].kind = "fire" /\ queue[i].code = client[d]
                                     \/ queue[i].kind = "woken" /\ queue[i].client = d
    <2>1. PICK i \in DOMAIN queue : \/ queue[i].kind = "fire" /\ queue[i].code = client[d]
                                    \/ queue[i].kind = "woken" /\ queue[i].client = d
      BY <1>5
    <2>2. PICK k \in {0, 1}, m \in 0 .. 2 : k = 0 /\ Carried(queue, queue', k, n, m)
      BY <1>1
    <2>3. i \in Nat /\ i >= 1 /\ (i # k => Stays(queue, queue', i, i - k))
      BY <1>1, <2>2, CarriedIs
    <2>4. i - k \in DOMAIN queue' /\ queue'[i - k] = queue[i]
      BY <2>2, <2>3 DEF Stays
    <2>5. i - k = i
      BY <2>2, <2>3
    <2> QED BY <1>2, <2>1, <2>4, <2>5 DEF Underway
  <1> QED BY <1>2, <1>4, <1>5 DEF Underway

\* A transfer begins: all earlier entries get older by its TRBs.
LEMMA SubmittedRing ==
    ASSUME NEW owner, Sound(owner), NEW c, NEW code, NEW n, Submitted(c, code, n)
    PROVE  /\ c \in Clients /\ n \in 1 .. 3 /\ code \in 1 .. Link /\ c \notin Busy
           /\ unreadTrbs' = unreadTrbs + n /\ unreadTrbs' \in 0 .. Link - 1
           /\ \A d \in Busy : /\ client[d] > 0 /\ client[d] \in Codes
                              /\ Age(client[d]) \in 1 .. Link - 2 /\ n = 1
                              /\ Distance(client[d] - 1, ring'.enqueue, Link) = Age(client[d]) + 1
                              /\ client[d] # code
  <1>1. /\ c \in Users /\ code \in 1 .. Link /\ n \in 1 .. 3 /\ client[c] = 0
        /\ Grown(ring, ring', n, TRUE) /\ Distance(code - 1, ring'.enqueue, Link) = 1
        /\ IF n = 1 THEN unreadTrbs <= Cardinality(Busy)
           ELSE Busy = {} /\ use = "control" /\ unreadTrbs = 0
        /\ unreadTrbs + n <= Link - 1
        /\ hc' = hc
    BY DEF Submitted
  <1>2. c \in Clients
    BY <1>1, Sizes DEF Users
  <1>3. c \notin Busy /\ Busy \subseteq Clients
    BY <1>1 DEF Busy
  <1>4. unreadTrbs \in 0 .. Link - 1 /\ Link \in Nat /\ Link >= 4 /\ ring.enqueue \in 0 .. Link - 1
    BY SlotFacts, Sizes
  <1>5. unreadTrbs' = unreadTrbs + n
    <2>1. PICK p \in 0 .. Link, b \in {0, 1} : p = hc.dequeue /\ b = hc.cycle
      BY DEF Sound, RingTypes, Controllers
    <2>2. unreadTrbs = Lag(p, b, ring.enqueue, ring.cycle, Link)
      BY <2>1 DEF unreadTrbs
    <2>3. Lag(p, b, ring.enqueue, ring.cycle, Link) \in 0 .. Link - 1 - n
      BY <1>1, <1>4, <2>2
    <2>4. Lag(p, b, ring'.enqueue, ring'.cycle, Link) = unreadTrbs + n
      BY <1>1, <2>2, <2>3 DEF Grown
    <2> QED BY <1>1, <2>1, <2>4 DEF unreadTrbs
  <1>6. unreadTrbs' \in 0 .. Link - 1
    BY <1>1, <1>4, <1>5
  <1>7. PICK b \in Nat : b = Cardinality(Busy) /\ b + 1 < Link
    <2>1. /\ Cardinality(Busy) \in Nat /\ Cardinality(Busy) + 1 <= Cardinality(Clients)
          /\ Cardinality(Clients) \in Nat
      BY <1>2, <1>3, BusySizes
    <2>2. Cardinality(Clients) < Link
      BY Sizes
    <2> QED BY <1>4, <2>1, <2>2
  <1>8. ASSUME NEW d \in Busy
        PROVE  /\ client[d] > 0 /\ client[d] \in Codes
               /\ Age(client[d]) \in 1 .. Link - 2 /\ n = 1
               /\ Distance(client[d] - 1, ring'.enqueue, Link) = Age(client[d]) + 1
               /\ client[d] # code
    <2>1. client[d] > 0 /\ client[d] \in Codes
      BY DEF Busy, Sound, RingTypes
    <2>2. PICK p \in 0 .. Link - 1 : p = client[d] - 1
      BY <2>1, CodesAre
    <2>3. Age(client[d]) = Distance(p, ring.enqueue, Link) /\ Distance(p, ring.enqueue, Link) \in 1 .. Link
      BY <1>4, <2>2, DistanceIs DEF Age
    <2>4. Age(client[d]) <= b
      BY <1>7 DEF Sound, TransfersInv
    <2>5. Age(client[d]) \in 1 .. Link - 2
      BY <1>4, <1>7, <2>3, <2>4
    <2>6. n = 1
      BY <1>1
    <2>7. Distance(p, ring'.enqueue, Link) =
               IF Distance(p, ring.enqueue, Link) + n <= Link THEN Distance(p, ring.enqueue, Link) + n
               ELSE Distance(p, ring.enqueue, Link) + n - Link
      BY <1>1 DEF Grown
    <2>8. Distance(p, ring'.enqueue, Link) = Age(client[d]) + 1
      BY <1>4, <2>3, <2>5, <2>6, <2>7
    <2>9. client[d] # code
      <3>1. Distance(client[d] - 1, ring'.enqueue, Link) # 1
        BY <2>2, <2>5, <2>8
      <3> QED BY <1>1, <3>1
    <2> QED BY <2>1, <2>2, <2>5, <2>6, <2>8, <2>9
  <1> QED BY <1>1, <1>2, <1>3, <1>5, <1>6, <1>8

LEMMA SubmittedTransfers ==
    ASSUME NEW owner, Sound(owner), NEW c, NEW code, NEW n, Submitted(c, code, n),
           NEW l, Begun(c, code, l)
    PROVE  TransfersInv'
  <1>1. /\ c \in Clients /\ n \in 1 .. 3 /\ code \in 1 .. Link /\ c \notin Busy
        /\ unreadTrbs' = unreadTrbs + n /\ unreadTrbs' \in 0 .. Link - 1
        /\ \A d \in Busy : /\ client[d] > 0 /\ client[d] \in Codes
                           /\ Age(client[d]) \in 1 .. Link - 2 /\ n = 1
                           /\ Distance(client[d] - 1, ring'.enqueue, Link) = Age(client[d]) + 1
                           /\ client[d] # code
    BY SubmittedRing
  <1>2. /\ Grown(ring, ring', n, TRUE) /\ Distance(code - 1, ring'.enqueue, Link) = 1
        /\ IF n = 1 THEN unreadTrbs <= Cardinality(Busy)
           ELSE Busy = {} /\ use = "control" /\ unreadTrbs = 0
        /\ use' = use /\ UNCHANGED <<events, hc>>
    BY DEF Submitted
  <1>3. /\ client' \in [Clients -> Codes] /\ client'[c] = code
        /\ \A d \in Clients : d # c => client'[d] = client[d]
    BY DEF Begun
  <1>4. unreadTrbs \in 0 .. Link - 1 /\ Link \in Nat /\ Link >= 4 /\ ring.enqueue \in 0 .. Link - 1
    BY SlotFacts, Sizes
  <1>5. Busy' = Busy \cup {c}
    BY <1>1, <1>3 DEF Busy
  <1>6. \A d \in Busy : d # c /\ client'[d] = client[d]
    BY <1>1, <1>3 DEF Busy
  <1>7. PICK b \in Nat : b = Cardinality(Busy) /\ b + 1 = Cardinality(Busy \cup {c})
    <2>1. Busy \subseteq Clients
      BY DEF Busy
    <2> QED BY <1>1, <2>1, BusySizes
  <1>8. /\ \A d, e \in Busy : client[d] = client[e] => d = e
        /\ \A d \in Busy : Age(client[d]) <= b /\ Underway(d)
        /\ \A i \in 0 .. Link - 1 : Distance(i, ring.enqueue, Link) <= unreadTrbs =>
            (ring.trbs[i].ioc <=> \E d \in Busy : client[d] = i + 1)
    BY <1>7 DEF Sound, TransfersInv
  <1>9. (\A d, e \in Busy : client[d] = client[e] => d = e)'
    BY <1>1, <1>3, <1>5, <1>6, <1>8
  <1>10. ASSUME NEW d \in Busy \cup {c}
         PROVE  Distance(client'[d] - 1, ring'.enqueue, Link) <= b + 1
    <2>1. CASE d = c
      BY <1>2, <1>3, <1>7, <2>1
    <2>2. CASE d \in Busy
      <3>1. Distance(client[d] - 1, ring'.enqueue, Link) = Age(client[d]) + 1 /\ Age(client[d]) <= b
            /\ Age(client[d]) \in 1 .. Link - 2
        BY <1>1, <1>8, <2>2
      <3> QED BY <1>4, <1>6, <1>7, <2>2, <3>1
    <2> QED BY <2>1, <2>2
  <1>11. ASSUME NEW d \in Busy \cup {c}
         PROVE  Underway(d)'
    <2>1. CASE d = c
      <3>1. Distance(client'[d] - 1, ring'.enqueue, Link) = 1 /\ 1 <= unreadTrbs'
        BY <1>1, <1>2, <1>3, <1>4, <2>1
      <3>2. Distance(client'[d] - 1, ring'.enqueue, Link) <= unreadTrbs'
        BY <3>1
      <3> QED BY <3>2 DEF Underway, Age
    <2>2. CASE d \in Busy
      <3>1. CASE Age(client[d]) <= unreadTrbs
        <4>1. Distance(client[d] - 1, ring'.enqueue, Link) = Age(client[d]) + 1 /\ n = 1 /\ Age(client[d]) \in 1 .. Link - 2
          BY <1>1, <2>2
        <4>2. Distance(client'[d] - 1, ring'.enqueue, Link) <= unreadTrbs'
          BY <1>1, <1>4, <1>6, <2>2, <3>1, <4>1
        <4> QED BY <4>2 DEF Underway, Age
      <3>2. CASE ~(Age(client[d]) <= unreadTrbs)
        BY <1>2, <1>8, <2>2, <3>2, BegunUnderway
      <3> QED BY <3>1, <3>2
    <2> QED BY <2>1, <2>2
  <1>12. (\A d \in Busy : Age(client[d]) <= Cardinality(Busy) /\ Underway(d))'
    <2> SUFFICES ASSUME NEW d \in Busy \cup {c}
                 PROVE  Distance(client'[d] - 1, ring'.enqueue, Link) <= b + 1 /\ Underway(d)'
      BY <1>5, <1>7 DEF Age
    <2> QED BY <1>10, <1>11
  <1>13. (\A i \in 0 .. Link - 1 : Distance(i, ring.enqueue, Link) <= unreadTrbs =>
            (ring.trbs[i].ioc <=> \E d \in Busy : client[d] = i + 1))'
    <2> SUFFICES ASSUME NEW i \in 0 .. Link - 1, Distance(i, ring'.enqueue, Link) <= unreadTrbs'
                 PROVE  ring'.trbs[i].ioc <=> \E d \in Busy \cup {c} : client'[d] = i + 1
      BY <1>5
    <2>1. PICK k \in 1 .. Link : k = Distance(i, ring.enqueue, Link)
      BY <1>4, DistanceIs
    <2>2. Distance(i, ring'.enqueue, Link) = IF k + n <= Link THEN k + n ELSE k + n - Link
      BY <1>2, <2>1 DEF Grown
    <2>3. ring'.trbs[i].ioc <=> IF Distance(i, ring'.enqueue, Link) > n THEN ring.trbs[i].ioc
                                ELSE Distance(i, ring'.enqueue, Link) = 1 /\ TRUE
      BY <1>2 DEF Grown
    <2>4. (i + 1) - 1 = i /\ i + 1 \in Int
      OBVIOUS
    <2>5. client'[c] = i + 1 <=> Distance(i, ring'.enqueue, Link) = 1
      <3>1. client'[c] = i + 1 => Distance(i, ring'.enqueue, Link) = 1
        BY <1>2, <1>3, <2>4
      <3>2. ring'.enqueue \in 0 .. Link - 1
        BY <1>2 DEF Grown, TransferRings
      <3>3. PICK p \in 0 .. Link - 1 : p = code - 1 /\ p + 1 = code
        BY <1>1, <1>4
      <3>4. Distance(p, ring'.enqueue, Link) = 1
        BY <1>2, <3>3
      <3>5. Distance(i, ring'.enqueue, Link) = 1 => i = p
        <4>1. PICK w \in 0 .. Link - 1 : w = ring'.enqueue
          BY <3>2
        <4>2. Distance(i, w, Link) = Distance(p, w, Link) => i = p
          BY <1>4, DistanceIs
        <4> QED BY <3>4, <4>1, <4>2
      <3> QED BY <1>3, <3>1, <3>3, <3>5
    <2>6. CASE Distance(i, ring'.enqueue, Link) > n
      <3>1. k <= unreadTrbs
        BY <1>1, <1>4, <2>2, <2>6
      <3>2. ring.trbs[i].ioc <=> \E d \in Busy : client[d] = i + 1
        BY <1>8, <2>1, <3>1
      <3>3. client'[c] # i + 1
        BY <1>1, <2>5, <2>6
      <3> QED BY <1>6, <2>3, <2>6, <3>2, <3>3
    <2>7. CASE ~(Distance(i, ring'.enqueue, Link) > n)
      <3>1. ASSUME NEW d \in Busy, client[d] = i + 1 PROVE FALSE
        <4>1. Distance(i, ring'.enqueue, Link) = Age(client[d]) + 1 /\ n = 1 /\ Age(client[d]) \in 1 .. Link - 2
          BY <1>1, <2>4, <3>1
        <4> QED BY <1>4, <2>7, <4>1
      <3> QED BY <1>6, <2>3, <2>5, <2>7, <3>1
    <2> QED BY <2>6, <2>7
  <1>14. (\/ unreadTrbs <= Cardinality(Busy)
          \/ use = "control" /\ Busy # {} /\ unreadTrbs <= 3)'
    <2>1. CASE n = 1
      <3>1. unreadTrbs' <= b + 1
        BY <1>1, <1>2, <1>4, <1>7, <2>1
      <3> QED BY <1>5, <1>7, <3>1
    <2>2. CASE n # 1
      BY <1>1, <1>2, <1>5, <2>2
    <2> QED BY <2>1, <2>2
  <1> QED BY <1>9, <1>12, <1>13, <1>14 DEF TransfersInv

LEMMA SubmitKeeps ==
    ASSUME NEW owner, Sound(owner),
           NEW x \in Clients, NEW begun \in Transfers(x), Submit(x, begun)
    PROVE  RingsInv'
  <1>1. PICK n \in 1 .. 3, code \in 1 .. Link : Submitted(x, code, n)
    BY SubmitIs DEF Sound
  <1>2. PICK c : c = x /\ Submitted(c, code, n)
    BY <1>1
  <1>3. /\ c \in Clients /\ n \in 1 .. 3 /\ code \in 1 .. Link /\ c \notin Busy
        /\ unreadTrbs' = unreadTrbs + n /\ unreadTrbs' \in 0 .. Link - 1
        /\ \A d \in Busy : /\ client[d] > 0 /\ client[d] \in Codes
                           /\ Age(client[d]) \in 1 .. Link - 2 /\ n = 1
                           /\ Distance(client[d] - 1, ring'.enqueue, Link) = Age(client[d]) + 1
                           /\ client[d] # code
    BY <1>2, SubmittedRing
  <1>4. /\ client[c] = 0 /\ c \in Users /\ Grown(ring, ring', n, TRUE)
        /\ client' = [client EXCEPT ![c] = code] /\ queue' = Append(queue, Await(c, code))
        /\ use' = use /\ events' = events /\ hc' = hc /\ pending' = pending /\ port' = port
        /\ connects' = connects /\ waiting' = waiting /\ aborted' = aborted
    BY <1>2 DEF Submitted
  <1>5. code \in Codes \ {0}
    BY CodesAre
  <1>6. PICK l \in Nat : Begun(c, code, l)
    BY <1>3, <1>4, <1>5, BegunIs DEF Sound
  <1>7. /\ Carried(queue, queue', 0, l, 1) /\ queue' \in Seq(Entries)
        /\ queue'[l + 1].kind = "await"
        /\ client' \in [Clients -> Codes]
        /\ \A d \in Clients : d # c => client'[d] = client[d]
    BY <1>6 DEF Begun
  <1>8. unreadEvents' = unreadEvents
    BY <1>4 DEF unreadEvents
  <1>9. RingTypes'
    BY <1>4, <1>7 DEF Grown, Sound, RingTypes, Unreported
  <1>10. CyclesInv'
    BY <1>3, <1>4, <1>8 DEF Grown, Sound, CyclesInv
  <1>11. PortsInv'
    BY <1>4 DEF Sound, PortsInv, Unreported
  <1>12. TransfersInv'
    BY <1>2, <1>6, SubmittedTransfers
  <1>13. ASSUME NEW q \in Owners, NEW d \in Codes, Caused(q, d), d > 0
         PROVE  q[2] \in Busy /\ client[q[2]] = d /\ q[1] = "transfer" /\ Age(d) > unreadTrbs
    <2>1. q[1] \in {"reset", "connect"} => q[2] \in Nat
      BY OwnersAre, Sizes
    <2>2. q[1] = "transfer" /\ client[q[2]] = d /\ Age(d) > unreadTrbs
      BY <1>13, <2>1 DEF Caused
    <2> QED BY <1>13, <2>2, OwnersAre DEF Busy
  <1>14. AwaitsInv'
    <2>1. ASSUME NEW i \in DOMAIN queue, queue[i].kind = "fire", queue[i].code = code PROVE FALSE
      <3>1. Held(i)
        BY <2>1 DEF Held
      <3>2. PICK s \in Slots : s = queue[i].slot /\ InUse(s) /\ Code(s) = code
        BY <2>1, <3>1, SlotFacts DEF Sound, SlotsInv
      <3>3. PICK q \in Owners : q = owner[s]
        BY SlotFacts
      <3>4. Caused(q, code) /\ code > 0
        BY <3>2, <3>3 DEF Sound, SlotsInv
      <3>5. q[2] \in Busy /\ client[q[2]] = code
        BY <1>5, <1>13, <3>4
      <3> QED BY <1>3, <3>5
    <2>2. c # Initializer => use = "endpoint" /\ code > 0
      BY <1>4 DEF Users
    <2> QED BY <1>4, <1>6, <2>1, <2>2, BegunAwaits
  <1>15. unreadTrbs \in 0 .. Link - 1 /\ Link \in Nat
    BY SlotFacts
  <1>16. SlotsInv(owner)'
    <2>1. ASSUME NEW s \in Slots, InUse(s) PROVE Caused(owner[s], Code(s))'
      <3>1. PICK q \in Owners, d \in Codes : q = owner[s] /\ d = Code(s)
        BY SlotFacts
      <3>2. Caused(q, d)
        BY <2>1, <3>1 DEF Sound, SlotsInv
      <3>3. CASE d > 0
        <4>1. q[2] \in Busy /\ client[q[2]] = d /\ q[1] = "transfer" /\ Age(d) > unreadTrbs
          BY <1>13, <3>2, <3>3
        <4>2. Distance(d - 1, ring'.enqueue, Link) = Age(d) + 1 /\ n = 1 /\ Age(d) \in 1 .. Link - 2
          BY <1>3, <4>1
        <4>3. Distance(d - 1, ring'.enqueue, Link) > unreadTrbs'
          BY <1>3, <1>15, <4>1, <4>2
        <4>4. client'[q[2]] = d
          BY <1>3, <1>7, <4>1 DEF Busy
        <4> QED BY <1>4, <3>1, <3>3, <4>1, <4>3, <4>4 DEF Caused, Code, Age
      <3>4. CASE ~(d > 0)
        BY <1>4, <3>1, <3>2, <3>4 DEF Caused, Code
      <3> QED BY <3>3, <3>4
    <2>2. \A i \in l + 1 .. l + 1 : queue'[i].kind \notin {"fire", "woken"}
      <3>1. \A i \in l + 1 .. l + 1 : i = l + 1
        OBVIOUS
      <3> QED BY <1>7, <3>1
    <2>3. ASSUME NEW i \in 1 .. l, queue[i + 0].kind = "woken"
          PROVE  client'[queue[i + 0].client] = client[queue[i + 0].client]
      <3>1. PICK j \in DOMAIN queue : j = i + 0
        BY <1>7 DEF Carried
      <3>2. queue[j].client \in Clients /\ client[queue[j].client] # 0
        BY <2>3, <3>1, NotIdle DEF Suspended
      <3> QED BY <1>4, <1>7, <3>1, <3>2
    <2>4. ASSUME NEW s \in Slots, NEW t \in Slots, InUse(s), InUse(t), Code(s) > 0, Code(t) > 0,
                 Age(Code(s)) > Age(Code(t))
          PROVE  Distance(Code(s) - 1, ring'.enqueue, Link) > Distance(Code(t) - 1, ring'.enqueue, Link)
      <3>1. PICK q, r \in Owners : q = owner[s] /\ r = owner[t]
        BY SlotFacts
      <3>2. PICK d, e \in Codes : d = Code(s) /\ e = Code(t)
        BY SlotFacts
      <3>3. Caused(q, d) /\ Caused(r, e) /\ d > 0 /\ e > 0
        BY <2>4, <3>1, <3>2 DEF Sound, SlotsInv
      <3>4. q[2] \in Busy /\ client[q[2]] = d
        BY <1>13, <3>3
      <3>5. r[2] \in Busy /\ client[r[2]] = e
        BY <1>13, <3>3
      <3>6. Distance(d - 1, ring'.enqueue, Link) = Age(d) + 1 /\ Age(d) \in 1 .. Link - 2
        BY <1>3, <3>4
      <3>7. Distance(e - 1, ring'.enqueue, Link) = Age(e) + 1 /\ Age(e) \in 1 .. Link - 2
        BY <1>3, <3>5
      <3> QED BY <1>15, <2>4, <3>2, <3>6, <3>7
    <2>5. PICK m \in 0 .. 2 : m = 1
      OBVIOUS
    <2>6. hc'.enqueue = hc.enqueue /\ events'.trbs = events.trbs
      BY <1>4
    <2> QED BY <1>7, <1>8, <2>1, <2>2, <2>3, <2>4, <2>5, <2>6, SlotsKept
  <1> QED BY <1>4, <1>9, <1>10, <1>11, <1>12, <1>14, <1>16, SoundAgain DEF Sound

LEMMA ResetKeeps ==
    ASSUME NEW owner, Sound(owner), NEW p \in Ports, resetSlot(Initializer, p)
    PROVE  RingsInv'
  <1>1. PICK c \in Clients : c = Initializer
    BY Sizes
  <1>2. PICK code \in Codes \ {0} : code = -p /\ ~(code > 0)
    BY CodesAre
  <1>3. /\ client[c] = 0 /\ port[p] = "connected" /\ port' = [port EXCEPT ![p] = "resetting"]
        /\ client' = [client EXCEPT ![c] = code] /\ queue' = Append(queue, Await(c, code))
        /\ use' = use /\ ring' = ring /\ events' = events /\ hc' = hc /\ pending' = pending
        /\ connects' = connects /\ waiting' = waiting /\ aborted' = aborted
    BY <1>1, <1>2 DEF resetSlot
  <1>4. PICK l \in Nat : Begun(c, code, l)
    BY <1>3, BegunIs DEF Sound
  <1>5. /\ Carried(queue, queue', 0, l, 1) /\ queue' \in Seq(Entries)
        /\ queue'[l + 1].kind = "await"
        /\ client' \in [Clients -> Codes] /\ client'[c] = code
        /\ \A d \in Clients : d # c => client'[d] = client[d]
    BY <1>4 DEF Begun
  <1>6. unreadEvents' = unreadEvents /\ unreadTrbs' = unreadTrbs
    BY <1>3 DEF unreadEvents, unreadTrbs
  <1>7. /\ port' \in [Ports -> {"connected", "resetting", "enabled"}]
        /\ \A x \in Ports : port[x] = "enabled" => port'[x] = "enabled"
    BY <1>3 DEF Sound, RingTypes
  <1>8. RingTypes'
    BY <1>3, <1>5, <1>7 DEF Sound, RingTypes, Unreported
  <1>9. CyclesInv'
    BY <1>3, <1>6 DEF Sound, CyclesInv
  <1>10. PortsInv'
    BY <1>3 DEF Sound, PortsInv, Unreported
  <1>11. AwaitsInv'
    BY <1>1, <1>2, <1>3, <1>4, BegunAwaits
  <1>12. Busy' = Busy /\ \A d \in Busy : client'[d] = client[d] /\ d # c
    BY <1>2, <1>3, <1>5 DEF Busy
  <1>13. TransfersInv'
    <2>1. /\ \A d, e \in Busy : client[d] = client[e] => d = e
          /\ \A d \in Busy : Age(client[d]) <= Cardinality(Busy) /\ Underway(d)
          /\ \A i \in 0 .. Link - 1 : Distance(i, ring.enqueue, Link) <= unreadTrbs =>
              (ring.trbs[i].ioc <=> \E d \in Busy : client[d] = i + 1)
          /\ \/ unreadTrbs <= Cardinality(Busy)
             \/ use = "control" /\ Busy # {} /\ unreadTrbs <= 3
      BY DEF Sound, TransfersInv
    <2>2. (\A d, e \in Busy : client[d] = client[e] => d = e)'
      BY <1>12, <2>1
    <2>3. ASSUME NEW d \in Busy PROVE Underway(d)'
      <3>1. CASE Age(client[d]) <= unreadTrbs
        BY <1>3, <1>6, <1>12, <3>1 DEF Underway, Age
      <3>2. CASE ~(Age(client[d]) <= unreadTrbs)
        BY <1>3, <1>4, <2>1, <3>2, BegunUnderway
      <3> QED BY <3>1, <3>2
    <2>4. (\A d \in Busy : Age(client[d]) <= Cardinality(Busy) /\ Underway(d))'
      <3> SUFFICES ASSUME NEW d \in Busy
                   PROVE  Distance(client'[d] - 1, ring'.enqueue, Link) <= Cardinality(Busy) /\ Underway(d)'
        BY <1>12 DEF Age
      <3> QED BY <1>3, <1>12, <2>1, <2>3 DEF Age
    <2>5. (\A i \in 0 .. Link - 1 : Distance(i, ring.enqueue, Link) <= unreadTrbs =>
              (ring.trbs[i].ioc <=> \E d \in Busy : client[d] = i + 1))'
      BY <1>3, <1>6, <1>12, <2>1
    <2>6. (\/ unreadTrbs <= Cardinality(Busy)
           \/ use = "control" /\ Busy # {} /\ unreadTrbs <= 3)'
      BY <1>3, <1>6, <1>12, <2>1
    <2> QED BY <2>2, <2>4, <2>5, <2>6 DEF TransfersInv
  <1>14. SlotsInv(owner)'
    <2>1. ASSUME NEW s \in Slots, InUse(s) PROVE Caused(owner[s], Code(s))'
      <3>1. PICK q \in Owners, d \in Codes : q = owner[s] /\ d = Code(s)
        BY SlotFacts
      <3>2. Caused(q, d)
        BY <2>1, <3>1 DEF Sound, SlotsInv
      <3>3. /\ q[1] = "transfer" => q[2] \in Clients
            /\ q[1] = "reset" => q[2] \in Ports
        BY OwnersAre
      <3>4. CASE q[1] = "transfer" /\ d > 0 /\ client[q[2]] = d /\ Age(d) > unreadTrbs
        <4>1. q[2] # c
          BY <1>3, <3>4
        <4>2. client'[q[2]] = d
          BY <1>5, <3>3, <3>4, <4>1
        <4> QED BY <1>3, <1>6, <3>1, <3>4, <4>2 DEF Caused, Code, Age
      <3>5. CASE ~(q[1] = "transfer" /\ d > 0 /\ client[q[2]] = d /\ Age(d) > unreadTrbs)
        BY <1>3, <1>7, <3>1, <3>2, <3>3, <3>5 DEF Caused, Code
      <3> QED BY <3>4, <3>5
    <2>2. \A i \in l + 1 .. l + 1 : queue'[i].kind \notin {"fire", "woken"}
      <3>1. \A i \in l + 1 .. l + 1 : i = l + 1
        OBVIOUS
      <3> QED BY <1>5, <3>1
    <2>3. ASSUME NEW i \in 1 .. l, queue[i + 0].kind = "woken"
          PROVE  client'[queue[i + 0].client] = client[queue[i + 0].client]
      <3>1. PICK j \in DOMAIN queue : j = i + 0
        BY <1>5 DEF Carried
      <3>2. queue[j].client \in Clients /\ client[queue[j].client] # 0
        BY <2>3, <3>1, NotIdle DEF Suspended
      <3> QED BY <1>3, <1>5, <3>1, <3>2
    <2>4. \A s, t \in Slots : Age(Code(s)) > Age(Code(t)) =>
            Distance(Code(s) - 1, ring'.enqueue, Link) > Distance(Code(t) - 1, ring'.enqueue, Link)
      BY <1>3 DEF Age
    <2>5. PICK m \in 0 .. 2 : m = 1
      OBVIOUS
    <2>6. hc'.enqueue = hc.enqueue /\ events'.trbs = events.trbs
      BY <1>3
    <2> QED BY <1>5, <1>6, <2>1, <2>2, <2>3, <2>4, <2>5, <2>6, SlotsKept
  <1> QED BY <1>3, <1>8, <1>9, <1>10, <1>11, <1>13, <1>14, SoundAgain DEF Sound

\* A report wakes the one thread that waits for it, if any, and then the
\* interrupt thread goes on.
LEMMA PassTwo ==
    ASSUME NEW S, NEW q \in Seq(S), q # <<>>, NEW x \in S, NEW y \in S,
           NEW r, r = Append(Tail(q), x), NEW p, p = Append(r, y)
    PROVE  /\ p \in Seq(S)
           /\ \E n \in Nat : Carried(q, p, 1, n, 2) /\ Appended(p, n, x) /\ Appended(p, n + 1, y)
  <1>1. r \in Seq(S)
    BY PassTurn
  <1>2. PICK n \in Nat : Carried(q, r, 1, n, 1) /\ Appended(r, n, x)
    BY PassTurn
  <1>3. p \in Seq(S)
    BY <1>1, PassAppend
  <1>4. PICK l \in Nat : Carried(r, p, 0, l, 1) /\ Appended(p, l, y)
    BY <1>1, PassAppend
  <1>5. l = n + 1
    <2>1. 1 .. n + 1 = 1 .. l + 0 /\ l \in Nat /\ n \in Nat
      BY <1>2, <1>4 DEF Carried
    <2> QED BY <2>1
  <1>6. DOMAIN q = 1 .. n + 1 /\ DOMAIN p = 1 .. n + 2
    <2>1. l + 1 = n + 2
      BY <1>5
    <2> QED BY <1>2, <1>4, <2>1 DEF Carried
  <1>7. ASSUME NEW i \in 1 .. n + 1 PROVE p[i] = r[i]
    <2>1. i \in 1 .. l /\ i + 0 = i
      BY <1>5
    <2> QED BY <1>4, <2>1 DEF Carried
  <1>8. \A i \in 1 .. n : p[i] = q[i + 1]
    <2>1. \A i \in 1 .. n : i \in 1 .. n + 1
      OBVIOUS
    <2> QED BY <1>2, <1>7, <2>1 DEF Carried
  <1>9. p[n + 1] = x
    <2>1. n + 1 \in 1 .. n + 1
      OBVIOUS
    <2>2. p[n + 1] = r[n + 1]
      BY <1>7, <2>1
    <2> QED BY <1>2, <2>2 DEF Appended
  <1>10. Carried(q, p, 1, n, 2)
    BY <1>6, <1>8 DEF Carried
  <1> QED BY <1>3, <1>4, <1>5, <1>9, <1>10 DEF Appended

Fired(f, n, m) ==
    /\ n \in Nat /\ m \in 1 .. 2 /\ Carried(queue, queue', 1, n, m) /\ queue' \in Seq(Entries)
    /\ 1 \in DOMAIN queue /\ queue[1] = f /\ f.kind = "fire" /\ f.code \in Codes \ {0} /\ f.slot \in Slots
    /\ queue'[n + m].kind = "loop"
    /\ m = 1 => waiting' = waiting /\ \A v \in waiting : v.code # f.code
    /\ m = 2 => \E w \in waiting :
            /\ w.code = f.code /\ waiting' = waiting \ {w}
            /\ \A v \in waiting : v # w => v.code # f.code
            /\ queue'[n + 1].kind = "woken" /\ queue'[n + 1].client = w.client
            /\ queue'[n + 1].slot = f.slot

LEMMA OneWaiter ==
    ASSUME NEW owner, Sound(owner), NEW w \in waiting, NEW v \in waiting, w.code = v.code
    PROVE  w = v
  <1>1. w \in Awaits /\ v \in Awaits
    BY DEF Sound, RingTypes
  <1>2. w.kind = v.kind /\ w.client \in Clients /\ v.client \in Clients /\ w.code # 0
    BY <1>1 DEF Awaits
  <1>3. w.code = client[w.client] /\ v.code = client[v.client]
    BY DEF Sound, AwaitsInv
  <1>4. w.client = v.client
    <2>1. CASE w.code > 0
      BY <1>2, <1>3, <2>1 DEF Sound, TransfersInv, Busy
    <2>2. CASE ~(w.code > 0)
      <3>1. \A d \in Clients : client[d] # 0 /\ d # Initializer => client[d] > 0
        BY DEF Sound, AwaitsInv
      <3> QED BY <1>2, <1>3, <2>2, <3>1
    <2> QED BY <2>1, <2>2
  <1> QED BY <1>1, <1>2, <1>4 DEF Awaits

LEMMA HandleFireIs ==
    ASSUME NEW owner, Sound(owner), HandleFire
    PROVE  \E f, n, m : Fired(f, n, m)
  <1>1. queue \in Seq(Entries) /\ queue # <<>> /\ Head(queue).kind = "fire"
    BY DEF Sound, RingTypes, HandleFire, Runs
  <1>2. PICK t : t = Tail(queue)
    OBVIOUS
  <1>3. t \in Seq(Entries) /\ Head(queue) = queue[1] /\ 1 \in DOMAIN queue
    BY <1>1, <1>2, PassTail
  <1>4. PICK f :
            /\ f = queue[1] /\ f = Head(queue)
            /\ f.kind = "fire" /\ f.code \in Codes \ {0} /\ f.slot \in Slots
    BY <1>1, <1>3, SlotFacts DEF Typed
  <1>5. PICK W : W = {w \in waiting : w.code = f.code}
    OBVIOUS
  <1>6. {w \in waiting : w.code \in {0, Head(queue).code}} = W
    <2>1. \A w \in waiting : w.code # 0
      BY DEF Sound, RingTypes, Awaits
    <2> QED BY <1>4, <1>5, <2>1
  <1>7. waiting' = waiting \ W
    BY <1>6 DEF HandleFire
  <1>8. PICK order \in [1 .. Cardinality(W) -> W] :
            queue' = Append(t \o [i \in DOMAIN order |-> Woken(order[i].client, f.slot)], Loop)
    BY <1>2, <1>4, <1>6 DEF HandleFire
  <1>9. Loop \in Entries /\ Loop.kind = "loop"
    BY EntriesAre DEF Loop
  <1>10. CASE W = {}
    <2>1. Cardinality(W) = 0
      BY <1>10, FS_EmptySet
    <2>2. DOMAIN order = {}
      BY <1>8, <2>1
    <2>3. [i \in DOMAIN order |-> Woken(order[i].client, f.slot)] = <<>>
      BY <2>2
    <2>4. t \o <<>> = t
      BY <1>3
    <2>5. queue' = Append(Tail(queue), Loop)
      BY <1>2, <1>8, <2>3, <2>4
    <2>6. queue' \in Seq(Entries) /\ \E n \in Nat : Carried(queue, queue', 1, n, 1) /\ Appended(queue', n, Loop)
      BY <1>1, <1>9, <2>5, PassTurn
    <2>7. PICK n \in Nat : Carried(queue, queue', 1, n, 1) /\ Appended(queue', n, Loop)
      BY <2>6
    <2>8. \A v \in waiting : v.code # f.code
      BY <1>5, <1>10
    <2>9. Fired(f, n, 1)
      BY <1>3, <1>4, <1>7, <1>9, <1>10, <2>6, <2>7, <2>8 DEF Fired, Appended
    <2> QED BY <2>9
  <1>11. CASE W # {}
    <2>1. PICK w \in waiting : w.code = f.code
      BY <1>5, <1>11
    <2>2. W = {w}
      BY <1>5, <2>1, OneWaiter
    <2>3. Cardinality(W) = 1
      BY <2>2, FS_Singleton
    <2>4. DOMAIN order = 1 .. 1 /\ order[1] = w
      <3>1. DOMAIN order = 1 .. 1
        BY <1>8, <2>3
      <3>2. 1 \in 1 .. Cardinality(W)
        BY <2>3
      <3>3. order[1] \in W
        BY <1>8, <3>2
      <3> QED BY <2>2, <3>1, <3>3
    <2>5. PICK x \in Entries :
            /\ x = Woken(w.client, f.slot) /\ x.kind = "woken"
            /\ x.client = w.client /\ x.slot = f.slot
      <3>1. w.client \in Clients
        BY DEF Sound, RingTypes, Awaits
      <3>2. Woken(w.client, f.slot) \in Entries
        BY <1>4, <3>1, EntriesAre
      <3>3. /\ Woken(w.client, f.slot).kind = "woken" /\ Woken(w.client, f.slot).client = w.client
            /\ Woken(w.client, f.slot).slot = f.slot
        BY DEF Woken
      <3> QED BY <3>2, <3>3
    <2>6. [i \in DOMAIN order |-> Woken(order[i].client, f.slot)] = <<x>>
      <3>1. \A i \in 1 .. 1 : i = 1
        OBVIOUS
      <3>2. \A i \in DOMAIN order : Woken(order[i].client, f.slot) = x
        BY <2>4, <2>5, <3>1
      <3>3. [i \in DOMAIN order |-> Woken(order[i].client, f.slot)] = [i \in 1 .. 1 |-> x]
        BY <2>4, <3>2
      <3>4. <<x>> = [i \in 1 .. 1 |-> x]
        OBVIOUS
      <3> QED BY <3>3, <3>4
    <2>7. t \o <<x>> = Append(t, x)
      BY <1>3
    <2>8. PICK r : r = Append(Tail(queue), x)
      OBVIOUS
    <2>9. queue' = Append(r, Loop)
      BY <1>2, <1>8, <2>6, <2>7, <2>8
    <2>10. /\ queue' \in Seq(Entries)
           /\ \E n \in Nat : Carried(queue, queue', 1, n, 2) /\ Appended(queue', n, x) /\ Appended(queue', n + 1, Loop)
      <3>1. PICK y \in Entries : y = Loop
        BY <1>9
      <3>2. PICK q \in Seq(Entries) : q = queue /\ q # <<>>
        BY <1>1
      <3>3. PICK p : p = queue'
        OBVIOUS
      <3>4. r = Append(Tail(q), x) /\ p = Append(r, y)
        BY <2>8, <2>9, <3>1, <3>2, <3>3
      <3>5. p \in Seq(Entries) /\ \E n \in Nat : Carried(q, p, 1, n, 2) /\ Appended(p, n, x) /\ Appended(p, n + 1, y)
        BY <3>2, <3>4, PassTwo
      <3> QED BY <3>1, <3>2, <3>3, <3>5
    <2>11. PICK n \in Nat :
            /\ Carried(queue, queue', 1, n, 2)
            /\ Appended(queue', n, x) /\ Appended(queue', n + 1, Loop)
      BY <2>10
    <2>12. (n + 1) + 1 = n + 2
      BY <2>11
    <2>13. queue'[n + 1] = x /\ queue'[n + 2] = Loop
      BY <2>11, <2>12 DEF Appended
    <2>14. waiting' = waiting \ {w} /\ \A v \in waiting : v # w => v.code # f.code
      BY <1>7, <2>1, <2>2, OneWaiter
    <2>15. Fired(f, n, 2)
      BY <1>3, <1>4, <1>9, <2>1, <2>5, <2>10, <2>11, <2>13, <2>14 DEF Fired
    <2> QED BY <2>15
  <1> QED BY <1>10, <1>11

\* What the queue holds after a report has been handled.
LEMMA FiredQueue ==
    ASSUME NEW f, NEW n, NEW m, Fired(f, n, m)
    PROVE  /\ \A i \in DOMAIN queue' : queue'[i].kind \in {"await", "fire", "woken"} =>
                /\ i \in Nat /\ i <= n + 1
                /\ i <= n => i + 1 \in DOMAIN queue /\ i + 1 # 1 /\ queue'[i] = queue[i + 1]
                /\ i > n => i = n + 1 /\ m = 2
           /\ \A j \in DOMAIN queue : j # 1 => j - 1 \in DOMAIN queue' /\ queue'[j - 1] = queue[j]
           /\ m = 2 => n + 1 \in DOMAIN queue'
  <1>1. /\ n \in Nat /\ m \in 1 .. 2 /\ m \in 0 .. 2 /\ Carried(queue, queue', 1, n, m)
        /\ queue'[n + m].kind = "loop"
    BY DEF Fired
  <1>2. ASSUME NEW i \in DOMAIN queue', queue'[i].kind \in {"await", "fire", "woken"}
        PROVE  /\ i \in Nat /\ i <= n + 1
               /\ i <= n => i + 1 \in DOMAIN queue /\ i + 1 # 1 /\ queue'[i] = queue[i + 1]
               /\ i > n => i = n + 1 /\ m = 2
    <2>1. /\ i \in Nat /\ i >= 1 /\ i <= n + m
          /\ i <= n => i \in 1 .. n /\ Stays(queue, queue', i + 1, i)
      BY <1>1, CarriedIs
    <2>2. i # n + m
      BY <1>1, <1>2
    <2>3. i <= n + 1 /\ (i > n => i = n + 1 /\ m = 2)
      BY <1>1, <2>1, <2>2
    <2>4. i + 1 # 1
      BY <2>1
    <2> QED BY <2>1, <2>3, <2>4 DEF Stays
  <1>3. ASSUME NEW j \in DOMAIN queue, j # 1
        PROVE  j - 1 \in DOMAIN queue' /\ queue'[j - 1] = queue[j]
    <2>1. Stays(queue, queue', j, j - 1)
      BY <1>1, <1>3, CarriedIs
    <2> QED BY <2>1 DEF Stays
  <1>4. m = 2 => n + 1 \in DOMAIN queue'
    <2>1. 1 \in 1 .. m
      BY <1>1
    <2> QED BY <1>1, <2>1, CarriedIs
  <1> QED BY <1>2, <1>3, <1>4

LEMMA FiredAwaits ==
    ASSUME NEW owner, Sound(owner), NEW f, NEW n, NEW m, Fired(f, n, m), client' = client, use' = use
    PROVE  AwaitsInv'
  <1>1. /\ n \in Nat /\ m \in 1 .. 2 /\ 1 \in DOMAIN queue /\ queue[1] = f /\ f.kind = "fire"
        /\ m = 1 => waiting' = waiting /\ \A v \in waiting : v.code # f.code
        /\ m = 2 => \E w \in waiting :
                /\ w.code = f.code /\ waiting' = waiting \ {w}
                /\ \A v \in waiting : v # w => v.code # f.code
                /\ queue'[n + 1].kind = "woken" /\ queue'[n + 1].client = w.client
                /\ queue'[n + 1].slot = f.slot
    BY DEF Fired
  <1>2. waiting' \subseteq waiting
    BY <1>1
  <1>3. /\ \A i \in DOMAIN queue : queue[i].kind = "await" => queue[i].code = client[queue[i].client]
        /\ \A w \in waiting : w.code = client[w.client]
        /\ \A i, j \in DOMAIN queue :
            Suspended(i) /\ Suspended(j) /\ queue[i].client = queue[j].client => i = j
        /\ \A i \in DOMAIN queue, w \in waiting : Suspended(i) => queue[i].client # w.client
        /\ \A d \in Clients : client[d] # 0 =>
            \/ \E i \in DOMAIN queue : Suspended(i) /\ queue[i].client = d
            \/ \E w \in waiting : w.client = d
        /\ \A i, j \in DOMAIN queue :
            queue[i].kind = "await" /\ queue[j].kind = "fire" /\ queue[j].code = queue[i].code
                /\ queue[i].code > 0 => i < j
        /\ \A d \in Clients : client[d] # 0 /\ d # Initializer => use = "endpoint" /\ client[d] > 0
    BY DEF Sound, AwaitsInv
  <1>4. ASSUME NEW i \in DOMAIN queue', queue'[i].kind \in {"await", "fire", "woken"}
        PROVE  /\ i \in Nat /\ i <= n + 1
               /\ i <= n => i + 1 \in DOMAIN queue /\ i + 1 # 1 /\ queue'[i] = queue[i + 1]
               /\ i > n => i = n + 1 /\ m = 2
    BY <1>4, FiredQueue
  <1>5. m = 2 => queue'[n + 1].kind = "woken"
    BY <1>1
  <1>6. ASSUME NEW i \in DOMAIN queue', queue'[i].kind \in {"await", "woken"}, i <= n, m = 2
        PROVE  queue'[i].client # queue'[n + 1].client
    <2>1. i + 1 \in DOMAIN queue /\ queue'[i] = queue[i + 1]
      BY <1>4, <1>6
    <2>2. PICK w \in waiting : queue'[n + 1].client = w.client
      BY <1>1, <1>6
    <2> QED BY <1>3, <1>6, <2>1, <2>2 DEF Suspended
  <1>7. (\A i \in DOMAIN queue : queue[i].kind = "await" => queue[i].code = client[queue[i].client])'
    <2> SUFFICES ASSUME NEW i \in DOMAIN queue', queue'[i].kind = "await"
                 PROVE  queue'[i].code = client[queue'[i].client]
      OBVIOUS
    <2>1. i + 1 \in DOMAIN queue /\ queue'[i] = queue[i + 1]
      BY <1>1, <1>4, <1>5
    <2> QED BY <1>3, <2>1
  <1>8. (\A w \in waiting : w.code = client[w.client])'
    BY <1>2, <1>3
  <1>9. (\A i, j \in DOMAIN queue :
            Suspended(i) /\ Suspended(j) /\ queue[i].client = queue[j].client => i = j)'
    <2> SUFFICES ASSUME NEW i \in DOMAIN queue', NEW j \in DOMAIN queue',
                        queue'[i].kind \in {"await", "woken"}, queue'[j].kind \in {"await", "woken"},
                        queue'[i].client = queue'[j].client
                 PROVE  i = j
      BY DEF Suspended
    <2>1. i \in Nat /\ j \in Nat
      BY <1>4
    <2>2. CASE i <= n /\ j <= n
      <3>1. i + 1 = j + 1
        BY <1>3, <1>4, <2>2 DEF Suspended
      <3> QED BY <2>1, <3>1
    <2>3. CASE i <= n /\ j > n
      BY <1>4, <1>6, <2>3
    <2>4. CASE i > n /\ j <= n
      BY <1>4, <1>6, <2>4
    <2>5. CASE i > n /\ j > n
      BY <1>4, <2>5
    <2> QED BY <1>1, <2>1, <2>2, <2>3, <2>4, <2>5
  <1>10. (\A i \in DOMAIN queue, w \in waiting : Suspended(i) => queue[i].client # w.client)'
    <2> SUFFICES ASSUME NEW i \in DOMAIN queue', queue'[i].kind \in {"await", "woken"}, NEW v \in waiting'
                 PROVE  queue'[i].client # v.client
      BY DEF Suspended
    <2>1. v \in waiting /\ i \in Nat
      BY <1>2, <1>4
    <2>2. CASE i <= n
      BY <1>3, <1>4, <2>1, <2>2 DEF Suspended
    <2>3. CASE i > n
      <3>1. i = n + 1 /\ m = 2
        BY <1>4, <2>3
      <3>2. PICK w \in waiting : /\ w.code = f.code /\ waiting' = waiting \ {w}
                                 /\ \A x \in waiting : x # w => x.code # f.code
                                 /\ queue'[n + 1].client = w.client
        BY <1>1, <3>1
      <3>3. v # w /\ v.code # w.code
        BY <2>1, <3>2
      <3>4. v.code = client[v.client] /\ w.code = client[w.client]
        BY <1>3, <2>1
      <3> QED BY <3>1, <3>2, <3>3, <3>4
    <2> QED BY <1>1, <2>1, <2>2, <2>3
  <1>11. (\A d \in Clients : client[d] # 0 =>
            \/ \E i \in DOMAIN queue : Suspended(i) /\ queue[i].client = d
            \/ \E w \in waiting : w.client = d)'
    <2> SUFFICES ASSUME NEW d \in Clients, client[d] # 0
                 PROVE  \/ \E i \in DOMAIN queue' : queue'[i].kind \in {"await", "woken"}
                                   /\ queue'[i].client = d
                        \/ \E w \in waiting' : w.client = d
      BY DEF Suspended
    <2>1. CASE \E i \in DOMAIN queue : queue[i].kind \in {"await", "woken"} /\ queue[i].client = d
      <3>1. PICK i \in DOMAIN queue : queue[i].kind \in {"await", "woken"} /\ queue[i].client = d
        BY <2>1
      <3>2. i # 1
        BY <1>1, <3>1
      <3>3. i - 1 \in DOMAIN queue' /\ queue'[i - 1] = queue[i]
        BY <3>2, FiredQueue
      <3> QED BY <3>1, <3>3
    <2>2. CASE \E w \in waiting : w.client = d
      <3>1. PICK v \in waiting : v.client = d
        BY <2>2
      <3>2. CASE v \in waiting'
        BY <3>1, <3>2
      <3>3. CASE v \notin waiting'
        <4>1. m = 2 /\ queue'[n + 1].kind = "woken" /\ queue'[n + 1].client = d
          BY <1>1, <3>1, <3>3
        <4>2. n + 1 \in DOMAIN queue'
          BY <4>1, FiredQueue
        <4> QED BY <4>1, <4>2
      <3> QED BY <3>2, <3>3
    <2> QED BY <1>3, <2>1, <2>2 DEF Suspended
  <1>12. (\A i, j \in DOMAIN queue :
            queue[i].kind = "await" /\ queue[j].kind = "fire" /\ queue[j].code = queue[i].code
                /\ queue[i].code > 0 => i < j)'
    <2> SUFFICES ASSUME NEW i \in DOMAIN queue', NEW j \in DOMAIN queue', queue'[i].kind = "await",
                        queue'[j].kind = "fire", queue'[j].code = queue'[i].code, queue'[i].code > 0
                 PROVE  i < j
      OBVIOUS
    <2>1. i \in Nat /\ i + 1 \in DOMAIN queue /\ queue'[i] = queue[i + 1]
      BY <1>1, <1>4, <1>5
    <2>2. j \in Nat /\ j + 1 \in DOMAIN queue /\ queue'[j] = queue[j + 1]
      BY <1>1, <1>4, <1>5
    <2>3. i + 1 < j + 1
      BY <1>3, <2>1, <2>2
    <2> QED BY <2>1, <2>2, <2>3
  <1>13. (\A d \in Clients : client[d] # 0 /\ d # Initializer => use = "endpoint" /\ client[d] > 0)'
    BY <1>3
  <1> QED BY <1>7, <1>8, <1>9, <1>10, <1>11, <1>12, <1>13 DEF AwaitsInv

LEMMA FiredUnderway ==
    ASSUME NEW owner, Sound(owner), NEW f, NEW n, NEW m, Fired(f, n, m),
           UNCHANGED <<ring, events, hc, client>>, NEW c \in Busy, Underway(c)
    PROVE  Underway(c)'
  <1>1. ring' = ring /\ events' = events /\ hc' = hc /\ client' = client
    OBVIOUS
  <1>2. unreadEvents' = unreadEvents /\ unreadTrbs' = unreadTrbs
    BY <1>1 DEF unreadEvents, unreadTrbs
  <1>3. /\ 1 \in DOMAIN queue /\ queue[1] = f /\ f.kind = "fire" /\ f.code \in Codes \ {0}
        /\ m \in 1 .. 2
        /\ m = 1 => \A v \in waiting : v.code # f.code
        /\ m = 2 => \E w \in waiting :
                /\ w.code = f.code
                /\ \A v \in waiting : v # w => v.code # f.code
                /\ queue'[n + 1].kind = "woken" /\ queue'[n + 1].client = w.client
    BY DEF Fired
  <1>4. ASSUME NEW i \in DOMAIN queue, i # 1, \/ queue[i].kind = "fire" /\ queue[i].code = client[c]
                                              \/ queue[i].kind = "woken" /\ queue[i].client = c
        PROVE  Underway(c)'
    <2>1. i - 1 \in DOMAIN queue' /\ queue'[i - 1] = queue[i]
      BY <1>4, FiredQueue
    <2> QED BY <1>1, <1>4, <2>1 DEF Underway
  <1>5. CASE f.code = client[c]
    <2>1. c \in Clients /\ client[c] > 0 /\ client[c] # 0
      BY <1>3, <1>5 DEF Busy
    <2>2. \/ \E i \in DOMAIN queue : Suspended(i) /\ queue[i].client = c
          \/ \E w \in waiting : w.client = c
      BY <2>1 DEF Sound, AwaitsInv
    <2>3. CASE \E w \in waiting : w.client = c
      <3>1. PICK v \in waiting : v.client = c
        BY <2>3
      <3>2. v.code = f.code
        BY <1>5, <3>1 DEF Sound, AwaitsInv
      <3>3. m = 2
        BY <1>3, <3>2
      <3>4. queue'[n + 1].kind = "woken" /\ queue'[n + 1].client = c
        BY <1>3, <3>1, <3>2, <3>3
      <3>5. n + 1 \in DOMAIN queue'
        BY <3>3, FiredQueue
      <3> QED BY <3>4, <3>5 DEF Underway
    <2>4. CASE \E i \in DOMAIN queue : Suspended(i) /\ queue[i].client = c
      <3>1. PICK i \in DOMAIN queue : Suspended(i) /\ queue[i].client = c
        BY <2>4
      <3>2. CASE queue[i].kind = "woken"
        BY <1>3, <1>4, <3>1, <3>2
      <3>3. CASE queue[i].kind = "await"
        <4>1. queue[i].code = client[c]
          BY <3>1, <3>3 DEF Sound, AwaitsInv
        <4>2. i < 1
          BY <1>3, <1>5, <2>1, <3>3, <4>1 DEF Sound, AwaitsInv
        <4>3. i \in Nat /\ i >= 1
          BY SlotFacts DEF Typed
        <4> QED BY <4>2, <4>3
      <3> QED BY <3>1, <3>2, <3>3 DEF Suspended
    <2> QED BY <2>2, <2>3, <2>4
  <1>6. CASE f.code # client[c]
    <2>1. CASE Age(client[c]) <= unreadTrbs
      BY <1>1, <1>2, <2>1 DEF Underway, Age
    <2>2. CASE \E s \in Slots : Back(s) <= unreadEvents /\ Code(s) = client[c]
      BY <1>1, <1>2, <2>2 DEF Underway, Back, Code
    <2>3. CASE \E i \in DOMAIN queue : \/ queue[i].kind = "fire" /\ queue[i].code = client[c]
                                       \/ queue[i].kind = "woken" /\ queue[i].client = c
      <3>1. PICK i \in DOMAIN queue : \/ queue[i].kind = "fire" /\ queue[i].code = client[c]
                                      \/ queue[i].kind = "woken" /\ queue[i].client = c
        BY <2>3
      <3>2. i # 1
        BY <1>3, <1>6, <3>1
      <3> QED BY <1>4, <3>1, <3>2
    <2> QED BY <2>1, <2>2, <2>3 DEF Underway
  <1> QED BY <1>5, <1>6

LEMMA FiredSlots ==
    ASSUME NEW owner, Sound(owner), NEW f, NEW n, NEW m, Fired(f, n, m),
           UNCHANGED <<ring, events, hc, client, port, connects>>
    PROVE  SlotsInv(owner)'
  <1>1. /\ ring' = ring /\ events' = events /\ hc' = hc /\ client' = client /\ port' = port
        /\ connects' = connects
    OBVIOUS
  <1>2. unreadEvents' = unreadEvents /\ unreadTrbs' = unreadTrbs
    BY <1>1 DEF unreadEvents, unreadTrbs
  <1>3. /\ n \in Nat /\ m \in 1 .. 2
        /\ 1 \in DOMAIN queue /\ queue[1] = f /\ f.kind = "fire" /\ f.slot \in Slots
        /\ m = 2 => \E w \in waiting :
                /\ w.code = f.code /\ queue'[n + 1].kind = "woken" /\ queue'[n + 1].client = w.client
                /\ queue'[n + 1].slot = f.slot
    BY DEF Fired
  <1>4. Held(1)
    BY <1>3 DEF Held
  <1>5. /\ \A i \in DOMAIN queue : Held(i) => Back(queue[i].slot) > unreadEvents
        /\ \A i \in DOMAIN queue : queue[i].kind = "fire" => queue[i].code = Code(queue[i].slot)
        /\ \A i \in DOMAIN queue : queue[i].kind = "woken" => client[queue[i].client] = Code(queue[i].slot)
        /\ \A i, j \in DOMAIN queue :
            Held(i) /\ Held(j) /\ Precedes(i, j) => Back(queue[i].slot) > Back(queue[j].slot)
        /\ \A s \in Slots : InUse(s) => Caused(owner[s], Code(s))
        /\ \A s, t \in Slots : InUse(s) /\ InUse(t) /\ owner[s] = owner[t] => s = t
        /\ \A s, t \in Slots :
            InUse(s) /\ InUse(t) /\ Code(s) > 0 /\ Code(t) > 0 /\ Back(s) > Back(t)
                => Age(Code(s)) > Age(Code(t))
    BY DEF Sound, SlotsInv
  <1>6. ASSUME NEW i \in DOMAIN queue', queue'[i].kind \in {"fire", "woken"}
        PROVE  /\ i \in Nat
               /\ i <= n => i + 1 \in DOMAIN queue /\ i + 1 # 1 /\ queue'[i] = queue[i + 1] /\ Held(i + 1)
               /\ i > n => i = n + 1 /\ m = 2 /\ queue'[i].kind = "woken" /\ queue'[i].slot = queue[1].slot
    <2>1. /\ i \in Nat /\ i <= n + 1
          /\ i <= n => i + 1 \in DOMAIN queue /\ i + 1 # 1 /\ queue'[i] = queue[i + 1]
          /\ i > n => i = n + 1 /\ m = 2
      BY <1>6, FiredQueue
    <2> QED BY <1>3, <1>6, <2>1 DEF Held
  <1>7. ASSUME NEW i \in DOMAIN queue', queue'[i].kind \in {"fire", "woken"}
        PROVE  \E j \in DOMAIN queue : Held(j) /\ queue'[i].slot = queue[j].slot
    <2>1. CASE i <= n
      BY <1>6, <1>7, <2>1
    <2>2. CASE i > n
      BY <1>3, <1>4, <1>6, <1>7, <2>2
    <2> QED BY <1>3, <1>6, <1>7, <2>1, <2>2
  <1>8. ASSUME NEW s \in Slots, InUse(s)' PROVE InUse(s)
    <2>1. CASE Back(s) <= unreadEvents
      BY <2>1 DEF InUse
    <2>2. CASE \E i \in DOMAIN queue' : queue'[i].kind \in {"fire", "woken"}
                    /\ Distance(s, hc.enqueue, EventEnd) <= Distance(queue'[i].slot, hc.enqueue, EventEnd)
      <3>1. PICK i \in DOMAIN queue' : queue'[i].kind \in {"fire", "woken"}
                    /\ Distance(s, hc.enqueue, EventEnd) <= Distance(queue'[i].slot, hc.enqueue, EventEnd)
        BY <2>2
      <3>2. PICK j \in DOMAIN queue : Held(j) /\ queue'[i].slot = queue[j].slot
        BY <1>7, <3>1
      <3> QED BY <3>1, <3>2 DEF InUse, Back
    <2> QED BY <1>1, <1>2, <1>8, <2>1, <2>2 DEF InUse, Held, Back
  <1>9. (\A i \in DOMAIN queue : Held(i) => Back(queue[i].slot) > unreadEvents)'
    <2> SUFFICES ASSUME NEW i \in DOMAIN queue', queue'[i].kind \in {"fire", "woken"}
                 PROVE  Distance(queue'[i].slot, hc.enqueue, EventEnd) > unreadEvents
      BY <1>1, <1>2 DEF Held, Back
    <2>1. PICK j \in DOMAIN queue : Held(j) /\ queue'[i].slot = queue[j].slot
      BY <1>7
    <2> QED BY <1>5, <2>1 DEF Back
  <1>10. (\A i \in DOMAIN queue : queue[i].kind = "fire" => queue[i].code = Code(queue[i].slot))'
    <2> SUFFICES ASSUME NEW i \in DOMAIN queue', queue'[i].kind = "fire"
                 PROVE  queue'[i].code = events.trbs[queue'[i].slot].code
      BY <1>1 DEF Code
    <2>1. i + 1 \in DOMAIN queue /\ queue'[i] = queue[i + 1]
      BY <1>3, <1>6
    <2> QED BY <1>5, <2>1 DEF Code
  <1>11. (\A i \in DOMAIN queue : queue[i].kind = "woken" => client[queue[i].client] = Code(queue[i].slot))'
    <2> SUFFICES ASSUME NEW i \in DOMAIN queue', queue'[i].kind = "woken"
                 PROVE  client[queue'[i].client] = events.trbs[queue'[i].slot].code
      BY <1>1 DEF Code
    <2>1. CASE i <= n
      <3>1. i + 1 \in DOMAIN queue /\ queue'[i] = queue[i + 1]
        BY <1>6, <2>1
      <3> QED BY <1>5, <3>1 DEF Code
    <2>2. CASE i > n
      <3>1. i = n + 1 /\ m = 2
        BY <1>6, <2>2
      <3>2. PICK w \in waiting : /\ w.code = f.code /\ queue'[n + 1].client = w.client
                                 /\ queue'[n + 1].slot = f.slot
        BY <1>3, <3>1
      <3>3. w.code = client[w.client]
        BY DEF Sound, AwaitsInv
      <3>4. f.code = Code(f.slot)
        BY <1>3, <1>5
      <3> QED BY <3>1, <3>2, <3>3, <3>4 DEF Code
    <2> QED BY <1>3, <1>6, <2>1, <2>2
  <1>12. (\A i, j \in DOMAIN queue :
            Held(i) /\ Held(j) /\ Precedes(i, j) => Back(queue[i].slot) > Back(queue[j].slot))'
    <2> SUFFICES ASSUME NEW i \in DOMAIN queue', NEW j \in DOMAIN queue',
                        queue'[i].kind \in {"fire", "woken"}, queue'[j].kind \in {"fire", "woken"},
                        \/ queue'[i].kind = queue'[j].kind /\ i < j
                        \/ queue'[i].kind = "woken" /\ queue'[j].kind = "fire"
                 PROVE  Distance(queue'[i].slot, hc.enqueue, EventEnd)
                            > Distance(queue'[j].slot, hc.enqueue, EventEnd)
      BY <1>1 DEF Held, Precedes, Back
    <2>1. /\ i \in Nat
          /\ i <= n => i + 1 \in DOMAIN queue /\ i + 1 # 1 /\ queue'[i] = queue[i + 1] /\ Held(i + 1)
          /\ i > n => i = n + 1 /\ m = 2 /\ queue'[i].kind = "woken" /\ queue'[i].slot = queue[1].slot
      BY <1>6
    <2>2. /\ j \in Nat
          /\ j <= n => j + 1 \in DOMAIN queue /\ j + 1 # 1 /\ queue'[j] = queue[j + 1] /\ Held(j + 1)
          /\ j > n => j = n + 1 /\ m = 2 /\ queue'[j].kind = "woken" /\ queue'[j].slot = queue[1].slot
      BY <1>6
    <2>3. CASE i <= n /\ j <= n
      <3>1. i < j => i + 1 < j + 1
        BY <2>1, <2>2
      <3>2. Precedes(i + 1, j + 1)
        BY <2>1, <2>2, <2>3, <3>1 DEF Precedes
      <3>3. Back(queue[i + 1].slot) > Back(queue[j + 1].slot)
        BY <1>5, <2>1, <2>2, <2>3, <3>2
      <3> QED BY <2>1, <2>2, <2>3, <3>3 DEF Back
    <2>4. CASE i <= n /\ j > n
      <3>1. queue'[i].kind = "woken"
        BY <2>2, <2>4
      <3>2. Precedes(i + 1, 1)
        BY <1>3, <2>1, <2>4, <3>1 DEF Precedes
      <3>3. Back(queue[i + 1].slot) > Back(queue[1].slot)
        BY <1>3, <1>4, <1>5, <2>1, <2>4, <3>2
      <3> QED BY <2>1, <2>2, <2>4, <3>3 DEF Back
    <2>5. CASE i > n /\ j <= n
      <3>1. queue'[j].kind = "fire"
        BY <1>3, <2>1, <2>2, <2>5
      <3>2. j + 1 > 1 /\ j + 1 \in Nat
        <4>1. j + 1 \in DOMAIN queue /\ j + 1 # 1
          BY <2>2, <2>5
        <4>2. j + 1 >= 1 /\ j + 1 \in Nat
          BY <4>1, SlotFacts DEF Typed
        <4> QED BY <4>1, <4>2
      <3>3. Precedes(1, j + 1)
        BY <1>3, <2>2, <2>5, <3>1, <3>2 DEF Precedes
      <3>4. Back(queue[1].slot) > Back(queue[j + 1].slot)
        BY <1>3, <1>4, <1>5, <2>2, <2>5, <3>3
      <3> QED BY <2>1, <2>2, <2>5, <3>4 DEF Back
    <2>6. CASE i > n /\ j > n
      BY <1>3, <2>1, <2>2, <2>6
    <2> QED BY <1>3, <2>1, <2>2, <2>3, <2>4, <2>5, <2>6
  <1>13. (\A s \in Slots : InUse(s) => Caused(owner[s], Code(s)))'
    <2> SUFFICES ASSUME NEW s \in Slots, InUse(s)' PROVE Caused(owner[s], Code(s))'
      OBVIOUS
    <2>1. Caused(owner[s], Code(s))
      BY <1>5, <1>8
    <2> QED BY <1>1, <1>2, <2>1 DEF Caused, Code, Age
  <1>14. (\A s, t \in Slots : InUse(s) /\ InUse(t) /\ owner[s] = owner[t] => s = t)'
    BY <1>5, <1>8
  <1>15. (\A s, t \in Slots :
            InUse(s) /\ InUse(t) /\ Code(s) > 0 /\ Code(t) > 0 /\ Back(s) > Back(t)
                => Age(Code(s)) > Age(Code(t)))'
    <2> SUFFICES ASSUME NEW s \in Slots, NEW t \in Slots, InUse(s)', InUse(t)', Code(s)' > 0, Code(t)' > 0,
                        Back(s)' > Back(t)'
                 PROVE  Age(Code(s))' > Age(Code(t))'
      OBVIOUS
    <2>1. InUse(s) /\ InUse(t)
      BY <1>8
    <2>2. Code(s) > 0 /\ Code(t) > 0 /\ Back(s) > Back(t)
      BY <1>1 DEF Code, Back
    <2>3. Age(Code(s)) > Age(Code(t))
      BY <1>5, <2>1, <2>2
    <2> QED BY <1>1, <2>3 DEF Age, Code
  <1> QED BY <1>9, <1>10, <1>11, <1>12, <1>13, <1>14, <1>15 DEF SlotsInv

LEMMA HandleFireKeeps ==
    ASSUME NEW owner, Sound(owner), HandleFire
    PROVE  RingsInv'
  <1>1. use' = use /\ ring' = ring /\ events' = events /\ hc' = hc /\ pending' = pending /\ port' = port
        /\ connects' = connects /\ client' = client /\ aborted' = aborted
    BY DEF HandleFire
  <1>2. PICK f, n, m : Fired(f, n, m)
    BY HandleFireIs
  <1>3. unreadEvents' = unreadEvents /\ unreadTrbs' = unreadTrbs
    BY <1>1 DEF unreadEvents, unreadTrbs
  <1>4. queue' \in Seq(Entries) /\ waiting' \subseteq waiting
    <2>1. /\ queue' \in Seq(Entries) /\ m \in 1 .. 2 /\ (m = 1 => waiting' = waiting)
          /\ m = 2 => \E w \in waiting : waiting' = waiting \ {w}
      BY <1>2 DEF Fired
    <2> QED BY <2>1
  <1>5. RingTypes'
    BY <1>1, <1>4 DEF Sound, RingTypes, Unreported
  <1>6. CyclesInv'
    BY <1>1, <1>3 DEF Sound, CyclesInv
  <1>7. AwaitsInv'
    BY <1>1, <1>2, FiredAwaits
  <1>8. TransfersInv'
    <2>1. \A c \in Busy : Underway(c) => Underway(c)'
      BY <1>1, <1>2, FiredUnderway
    <2> QED BY <1>1, <1>3, <2>1, TransfersKept DEF Sound
  <1>9. PortsInv'
    BY <1>1 DEF Sound, PortsInv, Unreported
  <1>10. SlotsInv(owner)'
    BY <1>1, <1>2, FiredSlots
  <1> QED BY <1>1, <1>5, <1>6, <1>7, <1>8, <1>9, <1>10, SoundAgain DEF Sound

-----------------------------------------------------------------------------
\* The invariant of the rings.
LEMMA RingsInit == XhciInit /\ cleared => RingsInv
  <1> SUFFICES ASSUME XhciInit, cleared PROVE RingsInv
    OBVIOUS
  <1>memory. PICK memory \in Memories :
            /\ ring = [trbs |-> [memory.ring EXCEPT ![Link] = [cycle |-> 0, ioc |-> FALSE]],
                       enqueue |-> 0, cycle |-> 1]
            /\ events = [trbs |-> memory.events, dequeue |-> 0, cycle |-> 1]
    BY DEF XhciInit
  <1>pages. memory.ring \in [0 .. Link -> Trbs] /\ memory.events \in [Slots -> EventTrbs]
    <2>1. memory \in [ring : [0 .. Link -> Trbs], events : [Slots -> EventTrbs]]
      BY RingAssumption DEF RingAssumption, Trbs, EventTrbs, Slots
    <2> QED BY <2>1
  <1>clear. \A i \in 0 .. Link : ring.trbs[i].cycle = 0
    BY DEF XhciInit
  <1>clean. \A i \in Slots : events.trbs[i].cycle = 0
    BY DEF XhciInit, Slots
  <1>1. Link \in Nat /\ Link >= 4 /\ EventEnd \in Nat /\ EventEnd >= 2 /\ 0 .. Size - 1 = 0 .. Link
        /\ Initializer \in Clients
    BY Sizes, RingAssumption DEF RingAssumption, Link
  <1>2. /\ use \in {"commands", "control", "endpoint"}
        /\ pending = FALSE /\ port = [p \in Ports |-> "connected"] /\ connects = Unreported
        /\ queue = <<>> /\ waiting = {} /\ client = [c \in Clients |-> 0] /\ aborted = {}
    BY DEF XhciInit
  <1>3. ring \in TransferRings /\ ring.enqueue = 0 /\ ring.cycle = 1 /\ \A i \in 0 .. Link : ring.trbs[i].cycle = 0
    <2>1. PICK z \in Trbs : z = [cycle |-> 0, ioc |-> FALSE] /\ z.cycle = 0
      <3>1. 0 \in {0, 1} /\ FALSE \in BOOLEAN
        OBVIOUS
      <3> QED BY <3>1, TrbIs
    <2>2. PICK trbs : trbs = [memory.ring EXCEPT ![Link] = z]
      OBVIOUS
    <2>3. trbs \in [0 .. Link -> Trbs]
      BY <1>pages, <2>1, <2>2
    <2>4. ring = [trbs |-> trbs, enqueue |-> 0, cycle |-> 1]
      BY <1>memory, <2>1, <2>2
    <2>5. 0 \in 0 .. Link - 1
      BY <1>1
    <2>6. ring \in TransferRings
      BY <2>3, <2>4, <2>5 DEF TransferRings
    <2>7. ring.enqueue = 0 /\ ring.cycle = 1
      BY <2>4
    <2> QED BY <1>clear, <2>6, <2>7
  <1>4. events \in EventRings /\ events.dequeue = 0 /\ events.cycle = 1 /\ \A i \in Slots : events.trbs[i].cycle = 0
    <2>1. 0 \in Slots
      BY <1>1 DEF Slots
    <2>2. PICK trbs \in [Slots -> EventTrbs] : trbs = memory.events
      BY <1>pages
    <2>3. events = [trbs |-> trbs, dequeue |-> 0, cycle |-> 1]
      BY <1>memory, <2>2
    <2>4. events \in EventRings
      BY <2>1, <2>3 DEF EventRings
    <2>5. events.dequeue = 0 /\ events.cycle = 1
      BY <2>3
    <2> QED BY <1>clean, <2>4, <2>5
  <1>5. /\ hc \in Controllers /\ hc.dequeue = 0 /\ hc.cycle = 1 /\ hc.enqueue = 0 /\ hc.eventCycle = 1
        /\ 0 \in Slots
    <2>1. hc = [dequeue |-> 0, cycle |-> 1, enqueue |-> 0, eventCycle |-> 1]
      BY DEF XhciInit
    <2>2. 0 \in Slots /\ 0 \in 0 .. Link
      BY <1>1 DEF Slots
    <2> QED BY <2>1, <2>2 DEF Controllers
  <1>6. unreadTrbs = 0 /\ unreadEvents = 0
    BY <1>1, <1>3, <1>4, <1>5 DEF unreadTrbs, unreadEvents, Lag
  <1>7. DOMAIN queue = {} /\ queue \in Seq(Entries)
    BY <1>2
  <1>8. RingTypes
    <2>1. port \in [Ports -> {"connected", "resetting", "enabled"}]
      BY <1>2
    <2>2. client \in [Clients -> Codes]
      BY <1>2, CodesAre
    <2>3. pending \in BOOLEAN /\ connects \subseteq Unreported /\ waiting \subseteq Awaits
      BY <1>2
    <2> QED BY <1>2, <1>3, <1>4, <1>5, <1>7, <2>1, <2>2, <2>3 DEF RingTypes
  <1>9. CyclesInv
    <2>1. OnTurn(ring.trbs, Size, ring.enqueue, ring.cycle)
      <3> SUFFICES ASSUME NEW i \in 0 .. Link PROVE ring.trbs[i].cycle = IF i < 0 THEN 1 ELSE 1 - 1
        BY <1>1, <1>3 DEF OnTurn
      <3> QED BY <1>3
    <2>2. OnTurn(events.trbs, EventEnd, hc.enqueue, hc.eventCycle)
      <3> SUFFICES ASSUME NEW i \in Slots PROVE events.trbs[i].cycle = IF i < 0 THEN 1 ELSE 1 - 1
        BY <1>5 DEF OnTurn, Slots
      <3>1. i \in Int /\ ~(i < 0)
        BY <1>1 DEF Slots
      <3> QED BY <1>4, <3>1
    <2> QED BY <1>1, <1>6, <2>1, <2>2 DEF CyclesInv
  <1>10. AwaitsInv
    BY <1>2, <1>7 DEF AwaitsInv
  <1>11. TransfersInv
    <2>1. Busy = {}
      BY <1>2 DEF Busy
    <2>2. Cardinality(Busy) = 0
      BY <2>1, FS_EmptySet
    <2>3. \A i \in 0 .. Link - 1 : Distance(i, ring.enqueue, Link) >= 1
      <3>1. 0 \in 0 .. Link - 1
        BY <1>1
      <3>2. \A i \in 0 .. Link - 1 : Distance(i, 0, Link) \in 1 .. Link
        BY <1>1, <3>1, DistanceIs
      <3> QED BY <1>3, <3>2
    <2>4. ASSUME NEW i \in 0 .. Link - 1, Distance(i, ring.enqueue, Link) <= 0 PROVE FALSE
      <3>1. PICK x \in 1 .. Link : x = Distance(i, 0, Link)
        <4>1. 0 \in 0 .. Link - 1
          BY <1>1
        <4> QED BY <1>1, <4>1, DistanceIs
      <3> QED BY <1>3, <2>4, <3>1
    <2> QED BY <1>6, <2>1, <2>2, <2>4 DEF TransfersInv
  <1>12. PortsInv
    BY <1>2 DEF PortsInv
  <1>13. \E owner \in [Slots -> Owners] : SlotsInv(owner)
    <2>1. PICK o \in Owners : o = <<"transfer", Initializer>>
      BY <1>1 DEF Owners, Users
    <2>2. PICK owner : owner = [s \in Slots |-> o]
      OBVIOUS
    <2>3. owner \in [Slots -> Owners]
      BY <2>2
    <2>4. ASSUME NEW s \in Slots, InUse(s) PROVE FALSE
      <3>1. Distance(s, 0, EventEnd) <= 0
        BY <1>5, <1>6, <1>7, <2>4 DEF InUse, Back
      <3>2. Distance(s, 0, EventEnd) \in 1 .. EventEnd
        BY <1>1, <1>5, DistanceIs DEF Slots
      <3> QED BY <3>1, <3>2
    <2>5. SlotsInv(owner)
      BY <1>7, <2>4 DEF SlotsInv
    <2> QED BY <2>3, <2>5
  <1> QED BY <1>8, <1>9, <1>10, <1>11, <1>12, <1>13 DEF RingsInv

LEMMA RingsStutter == RingsInv /\ UNCHANGED ringVars => RingsInv'
  <1> SUFFICES ASSUME RingsInv, UNCHANGED ringVars PROVE RingsInv'
    OBVIOUS
  <1>1. /\ use' = use /\ ring' = ring /\ events' = events /\ hc' = hc /\ pending' = pending /\ port' = port
        /\ connects' = connects /\ queue' = queue /\ waiting' = waiting /\ client' = client /\ aborted' = aborted
    BY DEF ringVars
  <1>2. PICK owner : Sound(owner)
    BY DEF RingsInv, Sound
  <1>3. unreadEvents' = unreadEvents /\ unreadTrbs' = unreadTrbs
    BY <1>1 DEF unreadEvents, unreadTrbs
  <1>4. PICK n \in Nat : Carried(queue, queue', 0, n, 0)
    BY <1>1, <1>2, PassNone DEF Sound, RingTypes
  <1>5. RingTypes'
    BY <1>1, <1>2 DEF Sound, RingTypes, Unreported
  <1>6. CyclesInv'
    BY <1>1, <1>2, <1>3 DEF Sound, CyclesInv
  <1>7. AwaitsInv'
    BY <1>1, <1>2, <1>4, MovedNone, AwaitsKept DEF Sound
  <1>8. TransfersInv'
    <2>1. \A c \in Busy : Underway(c) => Underway(c)'
      BY <1>1, <1>3 DEF Underway, Back, Age, Code
    <2> QED BY <1>1, <1>2, <1>3, <2>1, TransfersKept DEF Sound
  <1>9. PortsInv'
    BY <1>1, <1>2 DEF Sound, PortsInv, Unreported
  <1>10. SlotsInv(owner)'
    <2>1. \A s \in Slots : InUse(s) => Caused(owner[s], Code(s))'
      BY <1>1, <1>2, <1>3 DEF Sound, SlotsInv, Caused, Code, Age
    <2>2. \A i \in n + 1 .. n + 0 : queue'[i].kind \notin {"fire", "woken"}
      OBVIOUS
    <2> QED BY <1>1, <1>2, <1>3, <1>4, <2>1, <2>2, SlotsKept DEF Age
  <1> QED BY <1>1, <1>2, <1>5, <1>6, <1>7, <1>8, <1>9, <1>10, SoundAgain DEF Sound

\* No step of a thread, of the controller or of the kernel breaks the invariant.
LEMMA RingsNext == RingsInv /\ [XhciNext]_ringVars => RingsInv'
  <1> SUFFICES ASSUME RingsInv, [XhciNext]_ringVars PROVE RingsInv'
    OBVIOUS
  <1>1. PICK owner : Sound(owner)
    BY DEF RingsInv, Sound
  <1>2. CASE \E c \in Clients : \E begun \in Transfers(c) : Submit(c, begun)
    BY <1>1, <1>2, SubmitKeeps
  <1>3. CASE \E p \in Ports : resetSlot(Initializer, p)
    BY <1>1, <1>3, ResetKeeps
  <1>4. CASE Hc
    <2>1. CASE HcLink
      BY <1>1, <2>1, HcLinkKeeps
    <2>2. CASE HcExecute
      BY <1>1, <2>2, HcExecuteKeeps
    <2>3. CASE \E p \in Ports : HcPortReset(p) \/ HcConnect(p)
      BY <1>1, <2>3, PortEventKeeps
    <2> QED BY <1>4, <2>1, <2>2, <2>3 DEF Hc
  <1>5. CASE Kernel
    <2>1. CASE xhciInterrupt \/ NextEvent
      BY <1>1, <2>1, InterruptKeeps
    <2>2. CASE HandleAwait
      BY <1>1, <2>2, HandleAwaitKeeps
    <2>3. CASE HandleFire
      BY <1>1, <2>3, HandleFireKeeps
    <2>4. CASE Return
      BY <1>1, <2>4, ReturnKeeps
    <2> QED BY <1>5, <2>1, <2>2, <2>3, <2>4 DEF Kernel
  <1>6. CASE UNCHANGED ringVars
    BY <1>6, RingsStutter
  <1> QED BY <1>2, <1>3, <1>4, <1>5, <1>6 DEF XhciNext

\* What the pages held when they were allocated does not change any more.
LEMMA ClearedStays == [XhciNext]_ringVars => cleared' = cleared
  <1> SUFFICES ASSUME [XhciNext]_ringVars PROVE cleared' = cleared
    OBVIOUS
  <1>1. CASE \/ \E c \in Clients : \E begun \in Transfers(c) : Submit(c, begun)
             \/ \E p \in Ports : resetSlot(Initializer, p)
    BY <1>1 DEF Submit, resetSlot
  <1>2. CASE Hc
    BY <1>2 DEF Hc, HcLink, HcExecute, HcPortReset, HcConnect
  <1>3. CASE Kernel
    BY <1>3 DEF Kernel, xhciInterrupt, NextEvent, HandleAwait, HandleFire, Return
  <1>4. CASE UNCHANGED ringVars
    BY <1>4 DEF ringVars
  <1> QED BY <1>1, <1>2, <1>3, <1>4 DEF XhciNext

\* On rings in pages whose cycle bits were clear, no reader is overtaken, every
\* transfer is on its way to its thread, and the slots of the event ring that a
\* thread may still look at have different causes, so that none of them is reused.
ClearedInv == cleared => RingsInv
THEOREM RingsInvariant == XhciSpec => []ClearedInv
  <1>1. XhciInit => ClearedInv
    BY RingsInit DEF ClearedInv
  <1>2. ClearedInv /\ [XhciNext]_ringVars => ClearedInv'
    BY RingsNext, ClearedStays DEF ClearedInv
  <1> QED BY <1>1, <1>2, PTL DEF XhciSpec

-----------------------------------------------------------------------------
\* The rings as queues. What waits on a ring is told by how far it lies behind.
RingQueue ==
    /\ unreadTrbs \in 0 .. Link - 1
    /\ OnRing \in Seq(BOOLEAN) /\ Len(OnRing) = unreadTrbs
    /\ \A k \in 1 .. unreadTrbs : \E i \in 0 .. Link - 1 :
        /\ Distance(i, ring.enqueue, Link) = unreadTrbs - k + 1
        /\ OnRing[k] = ring.trbs[i].ioc
EventQueue ==
    /\ unreadEvents \in 0 .. EventEnd - 1
    /\ OnEvents \in Seq(Codes) /\ Len(OnEvents) = unreadEvents
    /\ \A k \in 1 .. unreadEvents : \E s \in Slots :
        /\ Distance(s, hc.enqueue, EventEnd) = unreadEvents - k + 1
        /\ OnEvents[k] = events.trbs[s].code

LEMMA RingQueueIs == RingsInv => RingQueue
  <1> SUFFICES ASSUME RingsInv PROVE RingQueue
    OBVIOUS
  <1>1. RingTypes /\ CyclesInv
    BY DEF RingsInv
  <1>2. PICK u \in 0 .. Link - 1 : u = unreadTrbs
    BY <1>1, OnRingIs
  <1>3. /\ OnRing = [k \in 1 .. u |-> ring.trbs[TrbAt(k - 1)].ioc]
        /\ \A k \in 0 .. Link - 1 : TrbAt(k) \in 0 .. Link - 1
        /\ \A k \in 0 .. u - 1 : Distance(TrbAt(k), ring.enqueue, Link) = u - k
    BY <1>1, <1>2, OnRingIs
  <1>4. Link \in Nat
    BY Sizes
  <1>5. ASSUME NEW k \in 1 .. u
        PROVE  /\ TrbAt(k - 1) \in 0 .. Link - 1
               /\ Distance(TrbAt(k - 1), ring.enqueue, Link) = u - k + 1
               /\ ring.trbs[TrbAt(k - 1)].ioc \in BOOLEAN
    <2>1. k - 1 \in 0 .. u - 1 /\ k - 1 \in 0 .. Link - 1 /\ u - (k - 1) = u - k + 1
      BY <1>4
    <2>2. PICK i \in 0 .. Link - 1 : i = TrbAt(k - 1)
      BY <1>3, <2>1
    <2>3. ring.trbs[i] \in Trbs
      BY <1>1, <1>4 DEF RingTypes, TransferRings
    <2> QED BY <1>3, <2>1, <2>2, <2>3 DEF Trbs
  <1>6. OnRing \in Seq(BOOLEAN) /\ Len(OnRing) = u
    <2>1. OnRing \in [1 .. u -> BOOLEAN]
      BY <1>3, <1>5
    <2> QED BY <2>1
  <1>7. \A k \in 1 .. u : \E i \in 0 .. Link - 1 :
            Distance(i, ring.enqueue, Link) = u - k + 1 /\ OnRing[k] = ring.trbs[i].ioc
    BY <1>3, <1>5
  <1> QED BY <1>2, <1>6, <1>7 DEF RingQueue

LEMMA EventQueueIs == RingsInv => EventQueue
  <1> SUFFICES ASSUME RingsInv PROVE EventQueue
    OBVIOUS
  <1>1. EventEnd \in Nat /\ EventEnd >= 2
    BY Sizes
  <1>2. PICK u \in 0 .. EventEnd - 1 : u = unreadEvents
    BY DEF RingsInv, CyclesInv
  <1>3. PICK r, w \in Slots : r = events.dequeue /\ w = hc.enqueue
    BY DEF RingsInv, RingTypes, EventRings, Controllers
  <1>4. PICK c, d \in {0, 1} : c = events.cycle /\ d = hc.eventCycle
    BY DEF RingsInv, RingTypes, EventRings, Controllers
  <1>5. u = Lag(r, c, w, d, EventEnd)
    BY <1>2, <1>3, <1>4 DEF unreadEvents
  <1>6. PICK found : found = Found(events.trbs, EventEnd, r, c)
                     /\ found = [k \in 1 .. u |-> events.trbs[Turn(r, k - 1, EventEnd)]]
    <2>1. OnTurn(events.trbs, EventEnd, w, d)
      BY <1>3, <1>4 DEF RingsInv, CyclesInv
    <2>2. EventEnd \in Nat \ {0} /\ r \in 0 .. EventEnd - 1 /\ w \in 0 .. EventEnd - 1 /\ u \in 0 .. EventEnd
      BY <1>1 DEF Slots
    <2> QED BY <1>5, <2>1, <2>2, FoundIs
  <1>7. OnEvents = [k \in DOMAIN found |-> found[k].code]
    BY <1>3, <1>4, <1>6 DEF OnEvents
  <1>8. u = w - r \/ u = w - r + EventEnd
    BY <1>1, <1>5 DEF Lag, Slots
  <1>9. ASSUME NEW k \in 1 .. u
        PROVE  \E s \in Slots : /\ Distance(s, w, EventEnd) = u - k + 1
                                /\ found[k].code = events.trbs[s].code
                                /\ events.trbs[s].code \in Codes
    <2>1. PICK j \in 0 .. EventEnd - 1 : j = k - 1 /\ j < u /\ u - j = u - k + 1
      BY <1>1
    <2>2. r \in 0 .. EventEnd - 1 /\ w \in 0 .. EventEnd - 1
      BY DEF Slots
    <2>3. Turn(r, j, EventEnd) \in 0 .. EventEnd - 1 /\ Distance(Turn(r, j, EventEnd), w, EventEnd) = u - j
      BY <1>1, <1>8, <2>1, <2>2, DistanceTurn
    <2>4. PICK s \in Slots : s = Turn(r, j, EventEnd)
      BY <2>3 DEF Slots
    <2>5. events.trbs[s] \in EventTrbs
      BY DEF RingsInv, RingTypes, EventRings
    <2>6. events.trbs[s].code \in Codes
      BY <2>5 DEF EventTrbs
    <2>7. found[k] = events.trbs[s]
      BY <1>6, <2>1, <2>4
    <2> QED BY <2>1, <2>3, <2>4, <2>6, <2>7
  <1>10. OnEvents \in Seq(Codes) /\ Len(OnEvents) = u /\ \A k \in 1 .. u : OnEvents[k] = found[k].code
    <2>1. DOMAIN found = 1 .. u
      BY <1>6
    <2>2. OnEvents \in [1 .. u -> Codes] /\ \A k \in 1 .. u : OnEvents[k] = found[k].code
      BY <1>7, <1>9, <2>1
    <2> QED BY <2>2
  <1> QED BY <1>2, <1>3, <1>9, <1>10 DEF EventQueue

LEMMA RingQueueNext == RingsInv' => RingQueue'
  BY RingQueueIs, PTL
LEMMA EventQueueNext == RingsInv' => EventQueue'
  BY EventQueueIs, PTL

\* Sequences: entries are put in behind the old ones, or the first one leaves.
LEMMA PutBehind ==
    ASSUME NEW S, NEW old \in Seq(S), NEW new \in Seq(S), NEW n \in Nat, Len(new) = Len(old) + n,
           \A k \in 1 .. Len(old) : new[k] = old[k]
    PROVE  old = SubSeq(new, 1, Len(old)) /\ Len(new) - Len(old) = n /\ (n = 0 => new = old)
  <1>1. PICK a \in Nat : a = Len(old) /\ Len(new) = a + n
    OBVIOUS
  <1>2. SubSeq(new, 1, a) \in Seq(S) /\ Len(SubSeq(new, 1, a)) = a
    BY <1>1
  <1>3. \A k \in 1 .. a : SubSeq(new, 1, a)[k] = new[k]
    BY <1>1
  <1>4. old = SubSeq(new, 1, a)
    BY <1>1, <1>2, <1>3
  <1>5. n = 0 => new = old
    BY <1>1
  <1> QED BY <1>1, <1>4, <1>5

LEMMA FirstLeaves ==
    ASSUME NEW S, NEW old \in Seq(S), NEW new \in Seq(S), Len(old) >= 1, Len(new) = Len(old) - 1,
           \A k \in 1 .. Len(new) : new[k] = old[k + 1]
    PROVE  old # <<>> /\ new = Tail(old)
  <1>1. old # <<>>
    OBVIOUS
  <1>2. Tail(old) \in Seq(S) /\ Len(Tail(old)) = Len(old) - 1
    BY <1>1
  <1>3. \A k \in 1 .. Len(new) : Tail(old)[k] = old[k + 1]
    BY <1>1, <1>2
  <1> QED BY <1>1, <1>2, <1>3

\* A queue told by how far its entries lie behind the writer: what is put in lies
\* in front of the rest, and what is taken was furthest behind.
Queue(S, q, size, w, u, val) ==
    /\ u \in 0 .. size - 1 /\ q \in Seq(S) /\ Len(q) = u
    /\ \A k \in 1 .. u : \E i \in 0 .. size - 1 :
        Distance(i, w, size) = u - k + 1 /\ q[k] = val[i]

Put(old, next, n) == old = SubSeq(next, 1, Len(old)) /\ Len(next) - Len(old) = n
Taken(old, next) == old # <<>> /\ next = Tail(old)

LEMMA QueuePut ==
    ASSUME NEW S, NEW size \in Nat, NEW w \in 0 .. size - 1, NEW v \in 0 .. size - 1,
           NEW u \in 0 .. size - 1, NEW t \in 0 .. size - 1, NEW n \in Nat,
           NEW val, NEW new, NEW old, NEW next, t = u + n,
           Queue(S, old, size, w, u, val), Queue(S, next, size, v, t, new),
           \A i \in 0 .. size - 1 : Distance(i, v, size) > n =>
                Distance(i, w, size) = Distance(i, v, size) - n /\ new[i] = val[i]
    PROVE  Put(old, next, n) /\ (n = 0 => next = old)
  <1>1. /\ u \in 0 .. size - 1 /\ old \in Seq(S) /\ Len(old) = u
        /\ t \in 0 .. size - 1 /\ next \in Seq(S) /\ Len(next) = t
    BY DEF Queue
  <1>2. ASSUME NEW k \in 1 .. u PROVE next[k] = old[k]
    <2>1. k \in 1 .. t
      BY <1>1
    <2>2. PICK i \in 0 .. size - 1 : Distance(i, v, size) = t - k + 1 /\ next[k] = new[i]
      BY <2>1 DEF Queue
    <2>3. PICK j \in 0 .. size - 1 : Distance(j, w, size) = u - k + 1 /\ old[k] = val[j]
      BY DEF Queue
    <2>4. t - k + 1 > n /\ t - k + 1 - n = u - k + 1
      BY <1>1
    <2>5. Distance(i, w, size) = u - k + 1 /\ new[i] = val[i]
      BY <2>2, <2>4
    <2>6. i = j
      BY <2>3, <2>5, DistanceIs
    <2> QED BY <2>2, <2>3, <2>5, <2>6
  <1> QED BY <1>1, <1>2, PutBehind DEF Put

LEMMA QueueTake ==
    ASSUME NEW S, NEW size \in Nat, NEW w \in 0 .. size - 1,
           NEW u \in 0 .. size - 1, NEW t \in 0 .. size - 1,
           NEW val, NEW old, NEW next, u >= 1, t = u - 1,
           Queue(S, old, size, w, u, val), Queue(S, next, size, w, t, val)
    PROVE  Taken(old, next)
  <1>1. /\ u \in 0 .. size - 1 /\ old \in Seq(S) /\ Len(old) = u
        /\ t \in 0 .. size - 1 /\ next \in Seq(S) /\ Len(next) = t
    BY DEF Queue
  <1>2. ASSUME NEW k \in 1 .. t PROVE next[k] = old[k + 1]
    <2>1. k + 1 \in 1 .. u /\ t - k + 1 = u - (k + 1) + 1
      BY <1>1
    <2>2. PICK i \in 0 .. size - 1 : Distance(i, w, size) = t - k + 1 /\ next[k] = val[i]
      BY DEF Queue
    <2>3. PICK j \in 0 .. size - 1 : Distance(j, w, size) = u - (k + 1) + 1 /\ old[k + 1] = val[j]
      BY <2>1 DEF Queue
    <2>4. i = j
      BY <2>1, <2>2, <2>3, DistanceIs
    <2> QED BY <2>2, <2>3, <2>4
  <1> QED BY <1>1, <1>2, FirstLeaves DEF Taken

\* The ring's own steps: only its writer and the controller's reading move it.
LEMMA RingStays ==
    ASSUME RingsInv, RingsInv', ring' = ring, unreadTrbs' = unreadTrbs
    PROVE  OnRing' = OnRing
  <1>1. RingQueue /\ RingQueue'
    BY RingQueueIs, RingQueueNext
  <1>2. PICK w \in 0 .. Link - 1 : w = ring.enqueue
    BY DEF RingsInv, RingTypes, TransferRings
  <1>3. PICK S : S = BOOLEAN
    OBVIOUS
  <1>4. PICK u \in 0 .. Link - 1 : u = unreadTrbs
    BY <1>1 DEF RingQueue
  <1>5. PICK val : val = [i \in 0 .. Link - 1 |-> ring.trbs[i].ioc]
    OBVIOUS
  <1>6. PICK old, next : old = OnRing /\ next = OnRing'
    OBVIOUS
  <1>7. Queue(S, old, Link, w, u, val)
    BY <1>1, <1>2, <1>3, <1>4, <1>5, <1>6 DEF RingQueue, Queue
  <1>8. Queue(S, next, Link, w, u, val)
    BY <1>1, <1>2, <1>3, <1>4, <1>5, <1>6 DEF RingQueue, Queue
  <1>9. u = u + 0 /\ Link \in Nat /\ \A i \in 0 .. Link - 1 : Distance(i, w, Link) - 0 = Distance(i, w, Link)
    <2>1. u \in 0 .. Link - 1 /\ Link \in Nat
      BY <1>7, Sizes DEF Queue
    <2>2. \A i \in 0 .. Link - 1 : Distance(i, w, Link) \in 1 .. Link
      BY <2>1, DistanceIs
    <2> QED BY <2>1, <2>2
  <1>10. next = old
    <2>1. PICK n \in Nat : n = 0
      OBVIOUS
    <2>2. PICK t \in 0 .. Link - 1 : t = u /\ t = u + n
      BY <1>9, <2>1
    <2>3. Queue(S, next, Link, w, t, val)
      BY <1>8, <2>2
    <2>4. \A i \in 0 .. Link - 1 : Distance(i, w, Link) = Distance(i, w, Link) - n /\ val[i] = val[i]
      BY <1>9, <2>1
    <2>5. Put(old, next, n) /\ (n = 0 => next = old)
      BY <1>7, <1>9, <2>2, <2>3, <2>4, QueuePut
    <2> QED BY <2>1, <2>5
  <1> QED BY <1>6, <1>10

LEMMA RingTaken ==
    ASSUME RingsInv, RingsInv', ring' = ring, unreadTrbs' = unreadTrbs - 1, unreadTrbs >= 1
    PROVE  Taken(OnRing, OnRing')
  <1>1. RingQueue /\ RingQueue'
    BY RingQueueIs, RingQueueNext
  <1>2. PICK w \in 0 .. Link - 1 : w = ring.enqueue
    BY DEF RingsInv, RingTypes, TransferRings
  <1>3. PICK S : S = BOOLEAN
    OBVIOUS
  <1>4. PICK u, t \in 0 .. Link - 1 : u = unreadTrbs /\ t = unreadTrbs'
    BY <1>1 DEF RingQueue
  <1>5. PICK val : val = [i \in 0 .. Link - 1 |-> ring.trbs[i].ioc]
    OBVIOUS
  <1>6. PICK old, next : old = OnRing /\ next = OnRing'
    OBVIOUS
  <1>7. Queue(S, old, Link, w, u, val)
    BY <1>1, <1>2, <1>3, <1>4, <1>5, <1>6 DEF RingQueue, Queue
  <1>8. Queue(S, next, Link, w, t, val)
    BY <1>1, <1>2, <1>3, <1>4, <1>5, <1>6 DEF RingQueue, Queue
  <1>9. Link \in Nat
    BY Sizes
  <1>10. t = u - 1 /\ u >= 1
    BY <1>4
  <1>11. Taken(old, next)
    BY <1>7, <1>8, <1>9, <1>10, QueueTake
  <1> QED BY <1>6, <1>11

LEMMA RingPut ==
    ASSUME RingsInv, RingsInv', NEW n \in 1 .. 3, Grown(ring, ring', n, TRUE),
           unreadTrbs' = unreadTrbs + n
    PROVE  Put(OnRing, OnRing', n)
  <1>1. RingQueue /\ RingQueue'
    BY RingQueueIs, RingQueueNext
  <1>2. PICK w \in 0 .. Link - 1 : w = ring.enqueue
    BY DEF RingsInv, RingTypes, TransferRings
  <1>3. PICK S : S = BOOLEAN
    OBVIOUS
  <1>4. PICK v \in 0 .. Link - 1 : v = ring'.enqueue
    BY DEF Grown, TransferRings
  <1>5. PICK u, t \in 0 .. Link - 1 : u = unreadTrbs /\ t = unreadTrbs'
    BY <1>1 DEF RingQueue
  <1>6. PICK val, new : /\ val = [i \in 0 .. Link - 1 |-> ring.trbs[i].ioc]
                        /\ new = [i \in 0 .. Link - 1 |-> ring'.trbs[i].ioc]
    OBVIOUS
  <1>7. PICK old, next : old = OnRing /\ next = OnRing'
    OBVIOUS
  <1>8. Queue(S, old, Link, w, u, val)
    BY <1>1, <1>2, <1>3, <1>5, <1>6, <1>7 DEF RingQueue, Queue
  <1>9. Queue(S, next, Link, v, t, new)
    BY <1>1, <1>3, <1>4, <1>5, <1>6, <1>7 DEF RingQueue, Queue
  <1>10. Link \in Nat /\ Link >= 4 /\ t = u + n /\ n \in Nat
    BY <1>5, Sizes
  <1>11. ASSUME NEW i \in 0 .. Link - 1, Distance(i, v, Link) > n
        PROVE  Distance(i, w, Link) = Distance(i, v, Link) - n /\ new[i] = val[i]
    <2>1. Distance(i, v, Link) = IF Distance(i, w, Link) + n <= Link THEN Distance(i, w, Link) + n
                               ELSE Distance(i, w, Link) + n - Link
      BY <1>2, <1>4 DEF Grown
    <2>2. Distance(i, w, Link) \in 1 .. Link
      BY <1>10, DistanceIs
    <2>3. ring'.trbs[i].ioc <=> IF Distance(i, v, Link) > n THEN ring.trbs[i].ioc
                                ELSE Distance(i, v, Link) = 1 /\ TRUE
      BY <1>4 DEF Grown
    <2>4. ring'.trbs[i].ioc <=> ring.trbs[i].ioc
      BY <1>11, <2>3
    <2>5. ring.trbs[i] \in Trbs /\ ring'.trbs[i] \in Trbs
      <3>1. i \in 0 .. Link
        BY <1>10
      <3> QED BY <3>1 DEF RingsInv, RingTypes, TransferRings, Grown
    <2>6. ring.trbs[i].ioc \in BOOLEAN /\ ring'.trbs[i].ioc \in BOOLEAN
      BY <2>5 DEF Trbs
    <2>7. new[i] = val[i]
      <3>1. ring'.trbs[i].ioc = ring.trbs[i].ioc
        BY <2>4, <2>6, Zenon
      <3> QED BY <1>6, <3>1
    <2> QED BY <1>10, <1>11, <2>1, <2>2, <2>7
  <1>12. Put(old, next, n)
    BY <1>8, <1>9, <1>10, <1>11, QueuePut
  <1> QED BY <1>7, <1>12

\* The same of the reports.
LEMMA EventsStay ==
    ASSUME RingsInv, RingsInv', events' = events, SameEventSide
    PROVE  OnEvents' = OnEvents
  <1>1. hc'.enqueue = hc.enqueue /\ hc'.eventCycle = hc.eventCycle
    BY DEF SameEventSide
  <1> QED BY <1>1 DEF OnEvents

LEMMA EventsTaken ==
    ASSUME RingsInv, RingsInv', events'.trbs = events.trbs, hc' = hc,
           unreadEvents' = unreadEvents - 1, unreadEvents >= 1
    PROVE  Taken(OnEvents, OnEvents')
  <1>1. EventQueue /\ EventQueue'
    BY EventQueueIs, EventQueueNext
  <1>2. EventEnd \in Nat /\ Slots = 0 .. EventEnd - 1
    BY Sizes DEF Slots
  <1>3. PICK w \in 0 .. EventEnd - 1 : w = hc.enqueue
    BY <1>2 DEF RingsInv, RingTypes, Controllers
  <1>4. PICK u, t \in 0 .. EventEnd - 1 : u = unreadEvents /\ t = unreadEvents'
    BY <1>1 DEF EventQueue
  <1>5. PICK val : val = [i \in 0 .. EventEnd - 1 |-> events.trbs[i].code]
    OBVIOUS
  <1>6. PICK old, next : old = OnEvents /\ next = OnEvents'
    OBVIOUS
  <1>7. Queue(Codes, old, EventEnd, w, u, val)
    BY <1>1, <1>2, <1>3, <1>4, <1>5, <1>6 DEF EventQueue, Queue
  <1>8. Queue(Codes, next, EventEnd, w, t, val)
    <2>1. hc'.enqueue = w
      BY <1>3
    <2>2. \A i \in 0 .. EventEnd - 1 : events'.trbs[i].code = val[i]
      BY <1>5
    <2>3. /\ next \in Seq(Codes) /\ Len(next) = t
          /\ \A k \in 1 .. t : \E i \in 0 .. EventEnd - 1 :
                Distance(i, w, EventEnd) = t - k + 1 /\ next[k] = events'.trbs[i].code
      BY <1>1, <1>2, <1>4, <1>6, <2>1 DEF EventQueue
    <2> QED BY <2>2, <2>3 DEF Queue
  <1>9. t = u - 1 /\ u >= 1
    BY <1>4
  <1>10. Taken(old, next)
    BY <1>2, <1>7, <1>8, <1>9, QueueTake
  <1> QED BY <1>6, <1>10

LEMMA EventsPut ==
    ASSUME RingsInv, RingsInv', NEW code \in Codes, Posted(code)
    PROVE  Put(OnEvents, OnEvents', 1)
  <1>1. EventQueue /\ EventQueue'
    BY EventQueueIs, EventQueueNext
  <1>2. EventEnd \in Nat /\ Slots = 0 .. EventEnd - 1
    BY Sizes DEF Slots
  <1>3. PICK w, v \in 0 .. EventEnd - 1 : w = hc.enqueue /\ v = hc'.enqueue
    <2>1. hc.enqueue \in Slots /\ hc'.enqueue \in Slots
      BY DEF RingsInv, RingTypes, Controllers
    <2> QED BY <1>2, <2>1
  <1>4. PICK u, t \in 0 .. EventEnd - 1 : u = unreadEvents /\ t = unreadEvents'
    BY <1>1 DEF EventQueue
  <1>5. PICK val, new : /\ val = [i \in 0 .. EventEnd - 1 |-> events.trbs[i].code]
                        /\ new = [i \in 0 .. EventEnd - 1 |-> events'.trbs[i].code]
    OBVIOUS
  <1>6. PICK old, next : old = OnEvents /\ next = OnEvents'
    OBVIOUS
  <1>7. Queue(Codes, old, EventEnd, w, u, val)
    BY <1>1, <1>2, <1>3, <1>4, <1>5, <1>6 DEF EventQueue, Queue
  <1>8. Queue(Codes, next, EventEnd, v, t, new)
    BY <1>1, <1>2, <1>3, <1>4, <1>5, <1>6 DEF EventQueue, Queue
  <1>9. PICK n \in Nat : n = 1
    OBVIOUS
  <1>10. t = u + n
    BY <1>4, <1>9 DEF Posted
  <1>11. ASSUME NEW i \in 0 .. EventEnd - 1, Distance(i, v, EventEnd) > n
         PROVE  Distance(i, w, EventEnd) = Distance(i, v, EventEnd) - n /\ new[i] = val[i]
    <2>1. Distance(i, v, EventEnd) = IF i = w THEN 1 ELSE Distance(i, w, EventEnd) + 1
      BY <1>2, <1>3 DEF Posted
    <2>2. Distance(i, w, EventEnd) \in 1 .. EventEnd
      BY <1>2, DistanceIs
    <2>3. i # w
      BY <1>9, <1>11, <2>1
    <2>4. events'.trbs[i].code = events.trbs[i].code
      BY <1>2, <1>3, <2>3 DEF Posted
    <2> QED BY <1>5, <1>9, <2>1, <2>2, <2>3, <2>4
  <1>12. Put(old, next, n)
    BY <1>2, <1>7, <1>8, <1>10, <1>11, QueuePut
  <1> QED BY <1>6, <1>9, <1>12

\* One step of the system is at most one step of each ring.
LEMMA TransferStep ==
    ASSUME RingsInv, RingsInv', [XhciNext]_ringVars
    PROVE  \/ \E n \in 1 .. 3 : Put(OnRing, OnRing', n)
           \/ Taken(OnRing, OnRing')
           \/ OnRing' = OnRing
  <1>1. RingTypes /\ CyclesInv /\ AwaitsInv /\ TransfersInv
    BY DEF RingsInv
  <1>2. PICK owner : Sound(owner)
    BY DEF RingsInv, Sound
  <1>3. CASE \E c \in Clients : \E begun \in Transfers(c) : Submit(c, begun)
    <2>1. PICK c \in Clients : \E begun \in Transfers(c) : Submit(c, begun)
      BY <1>3
    <2>2. PICK n \in 1 .. 3, code \in 1 .. Link : Submitted(c, code, n)
      BY <1>1, <2>1, SubmitIs
    <2>3. unreadTrbs' = unreadTrbs + n
      BY <1>2, <2>2, SubmittedRing
    <2>4. Grown(ring, ring', n, TRUE)
      BY <2>2 DEF Submitted
    <2> QED BY <2>3, <2>4, RingPut
  <1>4. CASE HcExecute
    <2>1. PICK r \in 0 .. Link - 1 : Executed(r)
      BY <1>1, <1>4, HcExecuteIs
    <2>2. unreadTrbs' = unreadTrbs - 1 /\ unreadTrbs >= 1
      BY <2>1 DEF Executed
    <2>3. ring' = ring
      BY <1>4 DEF HcExecute
    <2> QED BY <2>2, <2>3, RingTaken
  <1>5. CASE HcLink
    <2>1. unreadTrbs' = unreadTrbs
      BY <1>1, <1>5, HcLinkIs
    <2>2. ring' = ring
      BY <1>5 DEF HcLink
    <2> QED BY <2>1, <2>2, RingStays
  <1>6. CASE \E p \in Ports : HcPortReset(p) \/ HcConnect(p)
    <2>1. PICK p \in Ports : HcPortReset(p) \/ HcConnect(p)
      BY <1>6
    <2>2. Post(hc, -p) /\ ring' = ring
      BY <2>1 DEF HcPortReset, HcConnect
    <2>3. hc'.dequeue = hc.dequeue /\ hc'.cycle = hc.cycle
      BY <1>1, <2>2, HcPortIs
    <2>4. unreadTrbs' = unreadTrbs
      BY <2>2, <2>3 DEF unreadTrbs
    <2> QED BY <2>2, <2>4, RingStays
  <1>7. CASE (\E p \in Ports : resetSlot(Initializer, p)) \/ Kernel \/ UNCHANGED ringVars
    <2>1. ring' = ring /\ hc' = hc
      BY <1>7 DEF resetSlot, Kernel, xhciInterrupt, NextEvent, HandleAwait, HandleFire, Return, ringVars
    <2>2. unreadTrbs' = unreadTrbs
      BY <2>1 DEF unreadTrbs
    <2> QED BY <2>1, <2>2, RingStays
  <1> QED BY <1>3, <1>4, <1>5, <1>6, <1>7 DEF XhciNext, Hc

LEMMA ReportsStep ==
    ASSUME RingsInv, RingsInv', [XhciNext]_ringVars
    PROVE  \/ Put(OnEvents, OnEvents', 1)
           \/ Taken(OnEvents, OnEvents')
           \/ OnEvents' = OnEvents
  <1>1. RingTypes /\ CyclesInv
    BY DEF RingsInv
  <1>2. CASE HcExecute
    <2>1. PICK r \in 0 .. Link - 1 : Executed(r)
      BY <1>1, <1>2, HcExecuteIs
    <2>2. CASE Posted(r + 1)
      <3>1. r + 1 \in Codes
        BY CodesAre, Sizes
      <3> QED BY <2>2, <3>1, EventsPut
    <2>3. CASE SameEventSide /\ UNCHANGED events
      BY <2>3, EventsStay
    <2> QED BY <2>1, <2>2, <2>3 DEF Executed
  <1>3. CASE \E p \in Ports : HcPortReset(p) \/ HcConnect(p)
    <2>1. PICK p \in Ports : HcPortReset(p) \/ HcConnect(p)
      BY <1>3
    <2>2. Post(hc, -p)
      BY <2>1 DEF HcPortReset, HcConnect
    <2>3. Posted(-p) /\ -p \in Codes
      BY <1>1, <2>2, HcPortIs, CodesAre
    <2> QED BY <2>3, EventsPut
  <1>4. CASE xhciInterrupt \/ NextEvent
    <2>1. hc' = hc /\ (Fetch \/ UNCHANGED events)
      BY <1>4 DEF xhciInterrupt, NextEvent
    <2>2. (\E d \in Slots, code \in Codes : Fetched(d, code)) \/ UNCHANGED events
      BY <1>1, <2>1, FetchIs
    <2>3. CASE \E d \in Slots, code \in Codes : Fetched(d, code)
      <3>1. events'.trbs = events.trbs /\ unreadEvents' = unreadEvents - 1 /\ unreadEvents >= 1
        BY <2>3 DEF Fetched
      <3> QED BY <2>1, <3>1, EventsTaken
    <2>4. CASE UNCHANGED events
      BY <2>1, <2>4, EventsStay DEF SameEventSide
    <2> QED BY <2>2, <2>3, <2>4
  <1>5. CASE \/ \E c \in Clients : \E begun \in Transfers(c) : Submit(c, begun)
             \/ \E p \in Ports : resetSlot(Initializer, p)
             \/ HandleAwait \/ HandleFire \/ Return \/ UNCHANGED ringVars
    <2>1. events' = events /\ hc' = hc
      BY <1>5 DEF Submit, resetSlot, HandleAwait, HandleFire, Return, ringVars
    <2> QED BY <2>1, EventsStay DEF SameEventSide
  <1>6. CASE HcLink
    <2>1. SameEventSide
      BY <1>1, <1>6, HcLinkIs
    <2>2. events' = events
      BY <1>6 DEF HcLink
    <2> QED BY <2>1, <2>2, EventsStay
  <1> QED BY <1>2, <1>3, <1>4, <1>5, <1>6 DEF XhciNext, Hc, Kernel

LEMMA RingsStartEmpty == XhciInit /\ cleared => OnRing = <<>> /\ OnEvents = <<>>
  <1> SUFFICES ASSUME XhciInit, cleared PROVE OnRing = <<>> /\ OnEvents = <<>>
    OBVIOUS
  <1>1. RingQueue /\ EventQueue
    BY RingsInit, RingQueueIs, EventQueueIs
  <1>2. unreadTrbs = 0 /\ unreadEvents = 0
    <2>1. ring.enqueue = 0 /\ ring.cycle = 1 /\ hc.dequeue = 0 /\ hc.cycle = 1
      BY DEF XhciInit
    <2>2. events.dequeue = 0 /\ events.cycle = 1 /\ hc.enqueue = 0 /\ hc.eventCycle = 1
      BY DEF XhciInit
    <2> QED BY <2>1, <2>2 DEF unreadTrbs, unreadEvents, Lag
  <1>3. OnRing \in Seq(BOOLEAN) /\ Len(OnRing) = 0
    BY <1>1, <1>2 DEF RingQueue
  <1>4. OnEvents \in Seq(Codes) /\ Len(OnEvents) = 0
    BY <1>1, <1>2 DEF EventQueue
  <1> QED BY <1>3, <1>4

LEMMA ReportIsOwn == RingsInv => OwnReport
  <1> SUFFICES ASSUME RingsInv PROVE OwnReport
    OBVIOUS
  <1>1. PICK owner : SlotsInv(owner)
    BY DEF RingsInv
  <1>2. \A i \in DOMAIN queue : queue[i].kind = "woken" =>
            events.trbs[queue[i].slot].code = client[queue[i].client]
    BY <1>1 DEF SlotsInv, Code
  <1>3. aborted \subseteq Unreported \ connects
    BY DEF RingsInv, PortsInv
  <1> QED BY <1>2, <1>3 DEF OwnReport

\* Both rings implement Fifo, for any sizes of theirs and numbers of threads and
\* ports, in pages whose cycle bits were clear and whatever else these held:
\* entries leave in the order in which they were put in, although the driver never
\* looks how far the controller is; and a woken thread finds its own report.
THEOREM RingsKeepOrder == XhciSpec => RingsAreQueues
  <1>1. XhciInit => ToController = <<>>
    BY RingsStartEmpty DEF ToController
  <1>2. XhciInit => ToDriver = <<>>
    BY RingsStartEmpty DEF ToDriver
  <1>3. ClearedInv /\ ClearedInv' /\ [XhciNext]_ringVars => [Transfer!Next]_ToController
    <2> SUFFICES ASSUME ClearedInv, ClearedInv', [XhciNext]_ringVars
                 PROVE  Transfer!Next \/ ToController' = ToController
      OBVIOUS
    <2>1. cleared' = cleared
      BY ClearedStays
    <2>2. CASE ~cleared
      BY <2>1, <2>2 DEF ToController
    <2>3. CASE cleared
      <3>1. RingsInv /\ RingsInv' /\ ToController = OnRing /\ ToController' = OnRing'
        BY <2>1, <2>3 DEF ClearedInv, ToController
      <3>2. CASE \E n \in 1 .. 3 : Put(OnRing, OnRing', n)
        BY <3>1, <3>2 DEF Put, Transfer!Next, Transfer!Step
      <3>3. CASE Taken(OnRing, OnRing')
        BY <3>1, <3>3 DEF Taken, Transfer!Next, Transfer!Step
      <3> QED BY <3>1, <3>2, <3>3, TransferStep
    <2> QED BY <2>2, <2>3
  <1>4. ClearedInv /\ ClearedInv' /\ [XhciNext]_ringVars => [Reports!Next]_ToDriver
    <2> SUFFICES ASSUME ClearedInv, ClearedInv', [XhciNext]_ringVars
                 PROVE  Reports!Next \/ ToDriver' = ToDriver
      OBVIOUS
    <2>1. cleared' = cleared
      BY ClearedStays
    <2>2. CASE ~cleared
      BY <2>1, <2>2 DEF ToDriver
    <2>3. CASE cleared
      <3>1. RingsInv /\ RingsInv' /\ ToDriver = OnEvents /\ ToDriver' = OnEvents'
        BY <2>1, <2>3 DEF ClearedInv, ToDriver
      <3>2. CASE Put(OnEvents, OnEvents', 1)
        <4>1. ToDriver = SubSeq(ToDriver', 1, Len(ToDriver)) /\ Len(ToDriver') - Len(ToDriver) = 1
          BY <3>1, <3>2 DEF Put
        <4>2. 1 \in 1 .. 1
          OBVIOUS
        <4>3. Len(ToDriver') - Len(ToDriver) \in 1 .. 1
          BY <4>1, <4>2, Zenon
        <4> QED BY <4>1, <4>3, Zenon DEF Reports!Next, Reports!Step
      <3>3. CASE Taken(OnEvents, OnEvents')
        BY <3>1, <3>3 DEF Taken, Reports!Next, Reports!Step
      <3> QED BY <3>1, <3>2, <3>3, ReportsStep
    <2> QED BY <2>2, <2>3
  <1>5. ClearedInv => (cleared => OwnReport)
    BY ReportIsOwn DEF ClearedInv
  <1>6. XhciSpec => []ClearedInv
    BY RingsInvariant
  <1> QED BY <1>1, <1>2, <1>3, <1>4, <1>5, <1>6, PTL
        DEF RingsAreQueues, XhciSpec, Transfer!Spec, Transfer!Init, Reports!Spec, Reports!Init

=============================================================================
