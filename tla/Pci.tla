-------------------------------- MODULE Pci --------------------------------
(***************************************************************************)
(* PCI enumeration, kernel/src/drivers/pci.rs: every bus and device is     *)
(* probed at function 0, and at the other functions if function 0 says     *)
(* that there are some.  A probe is one step: it reads registers through   *)
(* the address and the data port, and no interrupt is enabled yet.         *)
(***************************************************************************)
EXTENDS Integers, Sequences

CONSTANTS
  LastBus,         \* 255
  DeviceCount,     \* 32
  FunctionCount,   \* 8
  Machines         \* machines: <<bus, device, function>> -> what its registers say

u8 == 0 .. 255
u16 == {n \in Nat : n < 65536}

\* No function has the vendor whose bits are all set.
NoVendor == 65535

Cards ==
  [vendor_id : u16 \ {NoVendor}, device_id : u16, class : u8, subclass : u8,
   prog_if : u8, revision : u8, header_type : u8, other : u8]

Addresses == (0 .. LastBus) \X (0 .. DeviceCount - 1) \X (0 .. FunctionCount - 1)

\* Bit 7 of the header type.
MultiFunction(header_type) == (header_type \div 128) % 2 = 1

\* What the bus promises: a device answers at function 0, and says so there if it
\* has other functions.
ASSUME PciAssumption ==
  /\ LastBus \in 0 .. 255
  /\ DeviceCount \in 1 .. 32
  /\ FunctionCount \in 1 .. 8
  /\ \A machine \in Machines :
       /\ DOMAIN machine \subseteq Addresses
       /\ \A a \in DOMAIN machine :
            /\ machine[a] \in Cards
            /\ <<a[1], a[2], 0>> \in DOMAIN machine
            /\ a[3] > 0 => MultiFunction(machine[<<a[1], a[2], 0>>].header_type)

VARIABLES
  machine,   \* what is plugged in
  cursor,    \* the address enumerate probes next
  devices,   \* the Vec of devices found
  scanned    \* enumerate has returned

pvars == <<machine, cursor, devices, scanned>>

PciInit ==
  /\ machine \in Machines
  /\ cursor = <<0, 0, 0>>
  /\ devices = << >>
  /\ scanned = FALSE

-----------------------------------------------------------------------------
\* The word in CONFIG_ADDRESS, without its enable bit; the fields do not overlap.
Address(bus, device, function, reg) ==
  bus * 65536 + device * 2048 + function * 256 + (reg - (reg % 4))

\* The function and the register a host bridge selects for it.
Selected(word) == <<word \div 65536, (word \div 2048) % 32, (word \div 256) % 8>>
SelectedRegister(word) == word % 256

\* A dword is its four bytes, the least significant one first.  Byte is a shift right
\* by 8 * n bits and a mask with 0xFF, Word one with 0xFFFF.
Byte(dword, n) == dword[n + 1]
Word(dword, n) == dword[n + 1] + 256 * dword[n + 2]

\* How a function lays out the registers that probe reads.
Register(card, reg) ==
  CASE reg = 0 -> << card.vendor_id % 256, card.vendor_id \div 256,
                     card.device_id % 256, card.device_id \div 256 >>
    [] reg = 8 -> << card.revision, card.prog_if, card.subclass, card.class >>
    [] reg = 12 -> << card.other, card.other, card.header_type, card.other >>

\* config_read32: where nobody answers, all bits are set.
ConfigRead32(bus, device, function, reg) ==
  LET word == Address(bus, device, function, reg)
      a == Selected(word)
  IN  IF a \in DOMAIN machine THEN Register(machine[a], SelectedRegister(word))
                              ELSE << 255, 255, 255, 255 >>

DeviceExists(a) == Word(ConfigRead32(a[1], a[2], a[3], 0), 0) # NoVendor

\* probe, for an address that answers.
Probe(a) ==
  LET dw0 == ConfigRead32(a[1], a[2], a[3], 0)
      dw2 == ConfigRead32(a[1], a[2], a[3], 8)
      dw3 == ConfigRead32(a[1], a[2], a[3], 12)
  IN  [address |-> a,
       vendor_id |-> Word(dw0, 0), device_id |-> Word(dw0, 2),
       revision |-> Byte(dw2, 0), prog_if |-> Byte(dw2, 1),
       subclass |-> Byte(dw2, 2), class |-> Byte(dw2, 3),
       header_type |-> Byte(dw3, 2)]

\* Mutant: the inner loop ends one function early.
MoreFunctions_Early(a) ==
  /\ a[3] + 2 < FunctionCount
  /\ a[3] > 0 \/ (DeviceExists(a) /\ MultiFunction(Probe(a).header_type))

\* Does enumerate go on with the functions of the device at a?
MoreFunctions(a) ==
  /\ a[3] + 1 < FunctionCount
  /\ a[3] > 0 \/ (DeviceExists(a) /\ MultiFunction(Probe(a).header_type))

\* Mutant: the loop over the buses ends when the u8 is above the last one.
IsLast_Above(a) == ~MoreFunctions(a) /\ a[2] + 1 = DeviceCount /\ a[1] > LastBus

\* The last address: the RangeInclusive of the buses is exhausted and keeps its u8.
IsLast(a) == ~MoreFunctions(a) /\ a[2] + 1 = DeviceCount /\ a[1] = LastBus

\* One more than a bus; LastBus is the largest value of its type.
NextBus(bus) == IF bus = LastBus THEN 0 ELSE bus + 1

After(a) ==
  CASE MoreFunctions(a) -> <<a[1], a[2], a[3] + 1>>
    [] ~MoreFunctions(a) /\ a[2] + 1 < DeviceCount -> <<a[1], a[2] + 1, 0>>
    [] OTHER -> <<NextBus(a[1]), 0, 0>>

\* One iteration of the loops of enumerate.
Enumerate ==
  /\ ~scanned
  /\ devices' = IF DeviceExists(cursor) THEN Append(devices, Probe(cursor)) ELSE devices
  /\ cursor' = IF IsLast(cursor) THEN cursor ELSE After(cursor)
  /\ scanned' = IsLast(cursor)
  /\ UNCHANGED machine

PciSpec == PciInit /\ [][Enumerate]_pvars

-----------------------------------------------------------------------------
(* Properties.                                                              *)

Fields == {"vendor_id", "device_id", "class", "subclass", "prog_if", "revision",
           "header_type"}

\* The order of the loops.
Precedes(a, b) ==
  \/ a[1] < b[1]
  \/ a[1] = b[1] /\ a[2] < b[2]
  \/ a[1] = b[1] /\ a[2] = b[2] /\ a[3] < b[3]

\* The loops are done with a.
Passed(a) == scanned \/ Precedes(a, cursor)

\* What enumerate has found is what is plugged in at the addresses it is done with,
\* every function once, in the order of the loops, and with all the fields that probe
\* takes apart as the function's registers put them together; at the end it is all.
DevicesFound ==
  /\ \A a \in DOMAIN machine :
       Passed(a) => \E i \in DOMAIN devices : devices[i].address = a
  /\ \A i \in DOMAIN devices :
       LET d == devices[i]
       IN  /\ d.address \in DOMAIN machine
           /\ Passed(d.address)
           /\ \A field \in Fields : d[field] = machine[d.address][field]
  /\ \A i, j \in DOMAIN devices : i < j => Precedes(devices[i].address, devices[j].address)

=============================================================================
