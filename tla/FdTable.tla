------------------------------ MODULE FdTable ------------------------------
(***************************************************************************)
(* The file calls of kernel/src/syscall/mod.rs: open, close, read and      *)
(* write over the one, global FD_TABLE (a Vec of optional open files;      *)
(* descriptor fd is slot fd - 3) and the pseudo-files behind it.           *)
(*                                                                         *)
(* Every call is one step: nothing it shares is touched by an interrupt    *)
(* handler.  A call's arguments are a small set of descriptors, counts and *)
(* access modes; a buffer is null or not; contents are their lengths.      *)
(* read on fd 0 is the keyboard path, module Keyboard.                     *)
(***************************************************************************)
EXTENDS Integers, Sequences

CONSTANTS
  MaxSlots,        \* bound: length of the table
  Fds,             \* the descriptors callers pass, valid or not
  Counts,          \* the counts callers pass to read and write
  ContentLen,      \* length of each constant pseudo-file's content
  MaxDigits,       \* bound: decimal digits of the uptime in seconds
  OffsetMax,       \* largest offset, where saturating_add stops (2^64 - 1)
  OverflowChecks   \* does the build panic on integer overflow (dev profile)?

Static == {"ProcVersion", "ProcMeminfo", "SysHostname"}
ReadOnly == Static \cup {"ProcUptime"}
Devices == {"DevNull", "DevZero", "DevFull", "DevTtyS0"}
PseudoNode == ReadOnly \cup Devices

ASSUME FdTableAssumption ==
  /\ MaxSlots \in Nat
  /\ Fds \subseteq Int
  /\ Counts \subseteq Nat
  /\ ContentLen \in [Static -> Nat]
  /\ MaxDigits \in Nat \ {0}
  /\ OffsetMax \in Nat
  /\ \A n \in Static : ContentLen[n] <= OffsetMax
  /\ OverflowChecks \in BOOLEAN

VARIABLES
  slots,    \* FD_TABLE
  digits,   \* digits of scheduler::ticks() / 100
  call,     \* the last call that returned: its name and arguments
  ret,      \* what it returned
  panicked  \* the panic handler ran: interrupts off, hlt for ever

fvars == <<slots, digits, call, ret, panicked>>

MinOf(a, b) == IF a < b THEN a ELSE b

Perm == -1
NoEnt == -2
BadF == -9
Acces == -13
Fault == -14
NoSpc == -28

None == [node |-> "None", offset |-> 0]
Files == [node : PseudoNode, offset : 0 .. OffsetMax]

FdInit ==
  /\ slots = << >>
  /\ digits = 1
  /\ call = << "none" >>
  /\ ret = 0
  /\ panicked = FALSE

\* table.get_mut(fd as usize - 3): slot fd - 3 of a Vec, here at index fd - 2.  A
\* negative fd is a huge usize.
IsOpen(fd) == fd - 2 \in DOMAIN slots /\ slots[fd - 2] # None

\* fd as usize - 3 is below zero.
Underflows(fd) == fd \in 0 .. 2

\* A call returns.
Returns(c, value) == call' = c /\ ret' = value /\ UNCHANGED <<digits, panicked>>

Answer(c, value) == Returns(c, value) /\ UNCHANGED slots

\* What read and write do with a descriptor that names no open file: an error,
\* or a panic where the subtraction is checked.
NoFile(c, fd) ==
  /\ ~IsOpen(fd)
  /\ IF OverflowChecks /\ Underflows(fd)
     THEN panicked' = TRUE /\ UNCHANGED <<slots, digits, call, ret>>
     ELSE Answer(c, BadF)

-----------------------------------------------------------------------------
\* The slot sys_open fills: the first empty one, else a new one at the end.
FirstFree(i) ==
  /\ i \in 1 .. Len(slots) + 1
  /\ i <= Len(slots) => slots[i] = None
  /\ \A j \in 1 .. i - 1 : slots[j] # None

(* sys_open: access is flags & O_ACCMODE (1 is O_WRONLY, 2 is O_RDWR).      *)
Open(node, access) ==
  \/ /\ ~panicked
     /\ access \in {1, 2} /\ node \in ReadOnly
     /\ Answer(<<"open", node>>, Acces)
  \/ /\ ~panicked
     /\ ~(access \in {1, 2} /\ node \in ReadOnly)
     /\ \E i \in 1 .. MaxSlots :
          /\ FirstFree(i)
          /\ slots' = [j \in DOMAIN slots \cup {i} |->
                         IF j = i THEN [node |-> node, offset |-> 0] ELSE slots[j]]
          /\ Returns(<<"open", node>>, (i - 1) + 3)

\* An unknown path, a path that is null or no string.
OpenFails == ~panicked /\ \E e \in {NoEnt, Fault} : Answer(<<"open", "None">>, e)

\* Mutant: the slot after the one the descriptor names is emptied.
Close_NextSlot(fd) ==
  LET c == <<"close", fd>>
  IN  \/ ~panicked /\ fd < 3 /\ Answer(c, 0)
      \/ ~panicked /\ fd >= 3 /\ ~IsOpen(fd) /\ Answer(c, BadF)
      \/ /\ ~panicked
         /\ IsOpen(fd)
         /\ slots' = [slots EXCEPT ![MinOf(fd - 1, Len(slots))] = None]
         /\ Returns(c, 0)

(* sys_close: descriptors below 3, negative ones included, answer 0.        *)
Close(fd) ==
  LET c == <<"close", fd>>
  IN  \/ ~panicked /\ fd < 3 /\ Answer(c, 0)
      \/ ~panicked /\ fd >= 3 /\ ~IsOpen(fd) /\ Answer(c, BadF)
      \/ /\ ~panicked
         /\ IsOpen(fd)
         /\ slots' = [slots EXCEPT ![fd - 2] = None]
         /\ Returns(c, 0)

-----------------------------------------------------------------------------
\* "{s}.00 {s}.00\n"
UptimeLen == 2 * digits + 8

Len1(node) == IF node = "ProcUptime" THEN UptimeLen ELSE ContentLen[node]

\* Mutant: the bytes asked for are returned whatever is left.
ReadStatic_NoMin(node, offset, count) ==
  IF offset >= Len1(node) THEN 0 ELSE count

\* read_static: what is left after the offset, at most count bytes.
ReadStatic(node, offset, count) ==
  IF offset >= Len1(node) THEN 0 ELSE MinOf(Len1(node) - offset, count)

BytesRead(f, count) ==
  CASE f.node \in ReadOnly -> ReadStatic(f.node, f.offset, count)
    [] f.node \in {"DevZero", "DevFull"} -> count
    [] OTHER -> 0

(* sys_read, on a descriptor other than 0.                                  *)
Read(fd, count) ==
  LET c == <<"read", fd, count>>
      n == BytesRead(slots[fd - 2], count)
  IN  /\ ~panicked
      /\ fd # 0
      /\ \/ count = 0 /\ Answer(c, 0)
         \/ count > 0 /\ Answer(c, Fault)   \* a null buffer
         \/ count > 0 /\ NoFile(c, fd)
         \/ /\ count > 0
            /\ IsOpen(fd)
            /\ slots' = [slots EXCEPT ![fd - 2].offset = MinOf(@ + n, OffsetMax)]
            /\ Returns(c, n)

(* sys_write: 1 and 2 go to the console, nothing changes the table.         *)
Write(fd, count) ==
  LET c == <<"write", fd, count>>
      node == slots[fd - 2].node
  IN  /\ ~panicked
      /\ \/ count = 0 /\ Answer(c, 0)
         \/ count > 0 /\ Answer(c, Fault)
         \/ count > 0 /\ fd \in {1, 2} /\ Answer(c, count)
         \/ count > 0 /\ fd \notin {1, 2} /\ NoFile(c, fd)
         \/ /\ count > 0
            /\ IsOpen(fd)
            /\ Answer(c, CASE node = "DevFull" -> NoSpc
                           [] node \in ReadOnly -> Perm
                           [] OTHER -> count)

\* Time passes: the uptime gets one digit longer.
Uptime ==
  /\ ~panicked
  /\ digits < MaxDigits
  /\ digits' = digits + 1
  /\ UNCHANGED <<slots, call, ret, panicked>>

Call ==
  \/ \E node \in PseudoNode, access \in 0 .. 3 : Open(node, access)
  \/ OpenFails
  \/ \E fd \in Fds : Close(fd)
  \/ \E fd \in Fds, count \in Counts : Read(fd, count) \/ Write(fd, count)

FdNext == Uptime \/ Call

FdSpec == FdInit /\ [][FdNext]_fvars

-----------------------------------------------------------------------------
(* Properties.                                                              *)

Ops == {"none", "open", "close", "read", "write"}

\* Every slot is empty or an open file, and a call of one of the four kinds returned
\* a number.
TypeOK ==
  /\ slots \in Seq(Files \cup {None}) /\ Len(slots) <= MaxSlots
  /\ digits \in 1 .. MaxDigits
  /\ call[1] \in Ops
  /\ ret \in Int
  /\ panicked \in BOOLEAN

\* Whatever sequence of reads of whatever sizes, the offset of a pseudo-file of
\* constant content never passes its end, so `&content[start..]` is in bounds and
\* a reader that sums what read returned knows the length.
OffsetInContent ==
  \A i \in DOMAIN slots :
    slots[i].node \in Static => slots[i].offset <= ContentLen[slots[i].node]

Map == INSTANCE FdMap
         WITH files <- [fd \in {i + 2 : i \in {j \in DOMAIN slots : slots[j] # None}}
                          |-> slots[fd - 2]]

\* The table with its holes is a map from descriptors to files.  open answers the
\* lowest free descriptor for the file it was asked for; close(fd) removes fd and no
\* other; read(fd) moves the offset of fd and of no other, by at most what it returns,
\* which is at most what was asked for; write moves none; and a call on a descriptor
\* that is not open changes no file.
ImplementsFdMap == Map!MapSpec

=============================================================================
