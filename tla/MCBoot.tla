------------------------------- MODULE MCBoot -------------------------------
(* Instances of Boot small enough for TLC.                                  *)
EXTENDS Boot, SequencesExt

Region(start, end, kind) == [start |-> start, end |-> end, kind |-> kind]

\* A region taken by the bootloader between two usable ones of any size, the
\* regions not sorted by address; from far too little memory to some to spare.
MCMaps ==
  {<< Region(8, 8 + 4 * i, "Usable"), Region(0, 8, "Bootloader"),
      Region(64, 64 + 4 * j, "Usable") >> : i \in {0, 1, 6}, j \in {0, 4, 9, 10}}

\* The definition by steps is the flattened sequence of frames.
Flattened(map) ==
  FlattenSeq([i \in DOMAIN map |->
                [k \in 1 .. StepCount(map[i]) |->
                   Containing(map[i].start + (k - 1) * PageSize)]])

ASSUME NthIsFlattened ==
  \A map \in MCMaps : \A n \in 0 .. 20 :
    Nth(map, n) = IF n < Len(Flattened(map)) THEN Flattened(map)[n + 1] ELSE NoFrame

\* Devices in the corners of the address space: absent, with one function, with
\* the last function, with all.
Functions(kind) ==
  CASE kind = "none" -> {}
    [] kind = "single" -> {0}
    [] kind = "last" -> {0, FunctionCount - 1}
    [] kind = "all" -> 0 .. FunctionCount - 1

Card(kind, f) ==
  [vendor_id |-> 4660 + f, device_id |-> 65535 - f, class |-> f, subclass |-> 255,
   prog_if |-> f + 1, revision |-> 2 * f, other |-> 255,
   header_type |-> IF kind = "single" THEN 1 ELSE 129]

MachineOf(low, mid, high) ==
  [a \in {<<0, 0, f>> : f \in Functions(low)}
           \cup {<<0, DeviceCount - 1, f>> : f \in Functions(mid)}
           \cup {<<LastBus, DeviceCount - 1, f>> : f \in Functions(high)} |->
     Card(CASE a[2] = 0 -> low [] a[1] = 0 /\ a[2] > 0 -> mid [] OTHER -> high, a[3])]

Kinds == {"none", "single", "last", "all"}

MCMachines == {MachineOf(low, mid, high) : low \in Kinds, mid \in Kinds, high \in Kinds}

=============================================================================
