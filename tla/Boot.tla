-------------------------------- MODULE Boot --------------------------------
(***************************************************************************)
(* Two of kernel_main's initialisations in their order: memory::init, and  *)
(* pci::init, which collects what it finds on the heap that the former has *)
(* mapped.  A panic in the first stops the kernel.                         *)
(***************************************************************************)
EXTENDS Memory, Pci

bvars == <<mvars, pvars>>

Init == MemoryInit /\ PciInit

Next ==
  \/ MemoryNext /\ UNCHANGED pvars
  \/ at = "ready" /\ Enumerate /\ UNCHANGED mvars

\* kernel_main has the CPU for itself.
Spec == Init /\ [][Next]_bvars /\ WF_bvars(Next)

-----------------------------------------------------------------------------
(* Properties.                                                              *)

HeapPages == FirstPage .. LastPage

\* Frames the loop needs: the pages and the tables above them.
Needed ==
  Cardinality(HeapPages)
    + Cardinality({Table(l, p) : l \in 1 .. 3, p \in HeapPages})

Available == Cardinality({n \in 0 .. Needed : Nth(regions, n) # NoFrame})

\* With the offset mapping and enough usable frames, spread over the map in any
\* way, boot gets past memory::init and through the enumeration of every bus: no
\* `nth` fails early, and the loop over the u8 `0u8..=255` ends with its last value.
BootCompletes == (offset /\ Available >= Needed) ~> scanned

=============================================================================
