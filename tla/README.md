# A TLA+ model of ComputeKERNEL

This directory holds a formal model of the parts of ComputeKERNEL that keep
state: the process table and its calls, the scheduler and signals, the file
descriptor calls, the keyboard path, the VGA console, the shell, memory and PCI
initialisation, and the way boot, interrupts, exceptions, spin locks and panic
fit together; and of two parts that compute rather than keep state, the network
codecs and the file systems. Each module is translated from the Rust source. TLC
checks small instances; TLAPS proves the safety properties of the passing runs for
every value of the constants that the stated assumptions allow. `PROJECT.json` is
the index: components, runs, which source lines each definition stands for,
mutants, findings, hazards and theorems.

## The system

The kernel runs on one CPU. `kernel_main` initialises the drivers in a fixed
order, enables interrupts and enters the shell, which never returns. From then
on three things happen: the shell (or, in future, a user program through
`syscall::dispatch`) makes calls; the timer interrupt delivers signals and, at
the end of a time slice, moves `CURRENT_PID`; the keyboard interrupt reads the
controller and fills a ring buffer. Shared state sits behind spin locks, and a
body under `without_interrupts` cannot be interrupted. All concurrency in the
model follows from that: such a body is one step, and where interrupts are
enabled between two bodies there is a control point at which a handler can run.

Two facts about the code shape the model.

* `scheduler::schedule` moves `CURRENT_PID` and switches no stack ("For now it
  just advances the PID pointer"). So there is one thread of control, the boot
  flow. It makes every call, on behalf of whatever process is current then.
* Nothing in the kernel reaches `syscall::dispatch`, `fs/` or `net/` yet. The
  environment makes the calls, with any arguments from small sets.

### Inventory

| Part | Source (`kernel/src/`) | Module | Status |
|---|---|---|---|
| process table, fork, execve, exit, waitpid | `process/mod.rs` | Process | modelled, proved |
| scheduler | `process/scheduler.rs` | Process | modelled, proved |
| signals | `process/signal.rs` | Process | modelled, proved |
| system calls on processes | `syscall/mod.rs` | Process, Interrupts | modelled |
| system calls on files | `syscall/mod.rs` | FdTable, FdMap | modelled, proved |
| keyboard ring buffer | `drivers/keyboard.rs` | KeyBuffer, KeyQueue | modelled, proved |
| keyboard driver and its reader | `drivers/keyboard.rs`, `shell.rs` | Keyboard | modelled, proved |
| VGA console | `drivers/vga.rs` | Vga, Terminal | modelled, proved |
| shell | `shell.rs` | Shell | modelled, proved |
| boot, interrupts, exceptions, locks, panic | `main.rs`, `arch/x86_64/` | Interrupts | modelled, proved |
| serial port | `drivers/serial.rs` | Interrupts | partly (its lock) |
| frame allocator, heap mapping | `memory/` | Memory, Boot | partly (heap free list and page-table entries are external crates), proved |
| PCI enumeration | `drivers/pci.rs` | Pci, Boot | partly (config_write32, config_read16, read_bar have no caller), proved |
| network codecs | `net/` | Packets, Network | partly (sockets are stubs), proved |
| pseudo file systems, VFS trait | `fs/` | FileSystems | partly (lookup, read, readdir), proved |
| initramfs | `fs/initramfs.rs` | FileSystems | modelled, proved |
| init program | `init/src/main.rs` | | not modelled: nothing loads it |
| GDT, framebuffer, ext4, ACPI, NVMe, AHCI, e1000, HDA, xHCI, HCI | | | not modelled: constant tables or stubs |

## The modules

**Process.** `table` is `PROCESS_TABLE` (a sequence of entries in the order of
the `Vec`), `next_pid` the count behind `NEXT_PID` (its u32 value is
`PidOf(next_pid)`), `current` is `CURRENT_PID`, `slice` is `TICK % TIMESLICE`.
`pc` and `call` are the control point and the arguments of the boot flow. `Fork`,
`Execve` and `Kill` are one step each. `exit` is three: `ExitMark` (the guarded
body), `ExitLock` (interrupts are enabled and `schedule` takes the lock),
`ExitSchedule`. `waitpid` is `WaitCall` and one `WaitReap` or `WaitNoChild` per
decisive iteration of its loop; an iteration that finds only live children
changes nothing. `getppid` and the shell's `ps` take the lock with interrupts
enabled (`LockTable`, `Unlock`). `Tick` is the whole timer handler:
`DispatchSignals`, then `Schedule` when a slice ends. `TimerSpin` is the same
handler when the interrupted code holds the lock: it spins for ever (`hung`).
**ProcessClaims** states what comments say and the code does not do.

**FdTable** models open, close, read and write on the global `FD_TABLE`; each
is one step, because no interrupt handler touches the table. Contents are their
lengths; `/proc/uptime` grows with the number of digits of the uptime. `call` and
`ret` are the last call and what it returned.
**FdMap** is the promise: a map from descriptors to files, with the same `call` and
`ret`, so that it binds each call to its argument. open answers the lowest free
descriptor for the file it was asked for; close and read touch the descriptor they
are given and no other.

**KeyBuffer** is the ring; **KeyQueue** the bounded queue it implements.
**Keyboard** puts the ring between the PS/2 controller, the interrupt handler
and a reader that tries the ring, then the controller, then halts.

**Vga** is the writer over screen memory addressed by raw offset; **Terminal**
the scrolling console it implements. **Shell** composes the writer with
`read_line`, `execute` and the prompt. `ps` is a state of its own: it holds
`PROCESS_TABLE` from its first line to its last, and a timer interrupt between two
lines never ends (`TimerSpins`).

**Interrupts** describes every function by its path: the sequence of things it
does to the interrupt flag, to locks and to the interrupt controller, with its
calls expanded. A stack of frames executes paths, and interrupts push handlers;
an exception or a non-maskable interrupt pushes one at any instruction once the
IDT is loaded, whatever the interrupt flag. fork and execve allocate and waitpid
frees while they hold `PROCESS_TABLE`.

**Memory** is `memory::init`. `next` counts the calls of `allocate_frame`, and
`Nth` is the iterator's `nth`: the frames of the usable regions one after the
other. `DrawFrame`, `CreateTable` and `MapPage` are the parts of one iteration of
`init_heap`: a frame for the page, one for each page table that `map_to` (an
external crate) misses on its way down, the mapping. **Pci** is `enumerate`, one
probe per step; `ConfigRead32` composes the address word and the host bridge
takes it apart again, and `Probe` cuts the fields of a device out of registers in
which a function has packed them. The counter of buses is a u8 whose last value is
the last of its type (`NextBus`). **Boot** runs the second on the heap made by the first.

**Packets** has the parsers and serialisers as operators on sequences of bytes.
**Network** sends a message down the layers, over a link that may pad or cut the
frame, and up through the kernel's parsers. The kernel has no serialiser for
IPv4 and TCP; those headers are written as the standards say.

**FileSystems** has one action for an iteration of the archive parser of
`InitramFs::new`, and a reader that looks a file up in one of the four file
systems and reads it in chunks while seconds go by. The archive is written by a
cpio writer (external), with files of every type that a mode can name. It may then
lose its end or have a header damaged: the magic number, a hexadecimal field, the
length of the name, or the name. `ParseEntry` has an entry found, the end of the
loop, the two early returns and the panic for a name of no bytes.

## Runs

Distinct states are those TLC reports.

| Run (`.cfg`) | Shows | States |
|---|---|---|
| ProcessAsIs | the shipped kernel, all calls: sorted table, acyclic parents, valid `CURRENT_PID`, only runnable processes scheduled, zombies untouched, accepted signals kept | 326,777 |
| ProcessFair | all calls under a fair timer: no starvation, signals terminate unless execve drops them, wait returns | 17,010 |
| Keyboard | the ring implements the queue; no key lost; at most one copy, two with a latched interrupt; buffer in order; every key reaches the reader | 16,705 |
| FdTable | the table implements the map, descriptor by descriptor; offsets stay in the content | 112,978 |
| Shell | the writer implements the terminal and stays in the buffer; the line on the screen is the line in the buffer; the shell prompts again, unless a tick strikes in ps | 34,143 |
| Interrupts | no self-deadlock, handlers after boot only, one end per interrupt, panics reported, lines served, with one exception anywhere | 146,352 |
| Boot | no frame used twice or outside usable memory; the heap fully mapped; every PCI function found once, with all its fields; boot completes if there is memory enough | 39,424 |
| Network | what is parsed is what was sent; a cut frame never gives a shorter datagram; the checksum verifies | 4,172 |
| FileSystems | chunks join to the file; lookup and readdir agree with each other and with the archive | 19,827 |

Interrupts leaves out the three calls that take `PROCESS_TABLE` with interrupts
enabled (getppid, ps, exit): they only add the deadlock that TimerNeverSpins shows.
The other runs have it: the process model as `hung`, the shell as the mode "hung".

Three runs end in a counterexample, each against a sentence of the repository;
`PROJECT.json` quotes it under "findings".

| Run | What the code does |
|---|---|
| TimerNeverSpins | `ps` holds `PROCESS_TABLE` with interrupts enabled (so do getppid and exit); the timer handler spins on it |
| ExitCodeKept | a signal pending at `exit` replaces the exit code |
| WaitDrift | waitpid re-reads `CURRENT_PID` and answers for another process |

Other things the code does that a reader may not expect are in the models
without a run of their own:

* `fd as usize - 3` underflows for read and write on small descriptors and
  panics in the dev profile (`OverflowChecks = TRUE` in FdTable.cfg; the step
  sets `panicked`).
* The keyboard decoder is built with `HandleControl::Ignore`, so Ctrl+C reaches
  `read_line` as a letter. Its arm for 0x03 (shell.rs:75, "Ctrl+C — cancel the
  current line.") never runs and is not in the model.
* execve drops pending signals, a SIGKILL too. SignalKept names it as the only
  step that does.
* A process that dies of a signal keeps its children, and its zombie can still make
  calls until its slice ends; a zombie that calls exit gets a new exit code.
  ZombieFrozen names these as the only ways in which an exit code changes.
* Backspace in column 0 of a wrapped line leaves the character on the screen.
* An exception inside a print makes its handler spin on the print lock:
  NoSelfDeadlock, PanicReported and LinesServed name this one exception.
* The IPv4 payload is not trimmed to the packet's total length. UDP has its own
  length; a TCP segment out of a padded frame keeps the padding.
* `IpPacket::parse` panics on a packet that ends inside its header's options.
* `SysFs::read` returns 0 bytes at every offset but 0, so a file longer than the
  buffer is cut. `/proc/uptime` is formatted anew at each read, so chunks read
  in different seconds do not fit together.
* `InitramFs` accepts an archive without its end, and the later read of a file
  that is cut panics. A header whose name has no bytes, not even the NUL, panics
  in `InitramFs::new`. readdir compares path prefixes without the slash and
  reports symbolic links as regular files; lookup does so for devices, FIFOs and
  sockets. ReadsJoin and DirsAgree state these as they are.

### Bounds

* `MaxPid` 2 or 3: three or four processes. Four is enough for a grandchild to
  be reparented while its parent, init and idle are all in the table.
* `Timeslice` 2 instead of 10: ticks that end a slice and ticks that do not.
* `PidSpace` is 1000, above every pid handed out: `NEXT_PID` does not wrap.
* Signals {9}, codes {7}: one terminating signal, one code. Which of several
  pending signals wins only changes the exit code.
* `KEY_BUF_SIZE` 2 and up to 6 keys: empty, full and every wrap position.
* A screen of two rows of three cells and lines of up to 5 bytes: wrapping inside a
  line, scrolling a wrapped line, and a prompt that has scrolled away. ps prints
  up to two lines, with a point to be interrupted before, between and after them.
* Descriptors -1, 0, 1, 3, 4 and 5 over two slots; contents shorter than, equal to
  and longer than a read; `OffsetMax` 12 so that saturation is reached.
* Boot: pages of 4 bytes, tables of 2 entries and a heap that starts in the middle
  of a table and ends after the first byte of its fourth page, so that tables of every level are created in
  the middle of the loop; usable memory in two pieces around a reserved one,
  from none to more than is needed. Two buses with the real 32 devices and 8
  functions, and every combination of absent, single, first-and-last and
  all functions at the first device, the last device of a bus and the last of all.
* Network: payloads of 0, 1, 5 and 65,527 bytes (the most that fits), headers
  with and without options, every cut up to 70 bytes, which is past all headers.
* FileSystems: archives with names and contents of different lengths modulo
  4, a nested directory, files of every type, names that continue another; cuts
  around every boundary, each kind of damage in each header; buffers of 1, 2 and 5 bytes; uptime from 9 to 10 seconds, where
  the text grows.
* One exception: a second one strikes in a handler that already only prints.

Deadlock checking is off where the system may stop: the process model once
every flow has halted or the timer spins, the keyboard once all keys are struck,
the halted shell, a kernel that has panicked, a finished boot, a message
received, a reader with enough bytes.

### Fairness

* Timer interrupts (`Tick \/ TimerSpin`): weak fairness. The hardware timer keeps
  firing, wherever the boot flow is.
* The boot flow in the middle of a call (`Continue`): strong fairness. The hlt in
  waitpid's loop ends at every tick and the loop then looks at the table, so it
  looks at least once for each `CURRENT_PID` a tick leaves behind. Which way out of
  the loop is open depends on who is current, hence strong. No caller is obliged
  to call.
* Keyboard handler and reader: weak fairness. A latched interrupt is taken as
  soon as the flag allows; hlt ends at any interrupt.
* Shell: weak fairness of its own steps, not of the keys, and not against a timer
  interrupt in ps.
* Interrupts: weak fairness of execution and of iret, strong fairness of taking
  a line, because interrupts are masked and unmasked again and again. A device
  does not raise its line again before the handler has returned: without that,
  handlers could keep the CPU for ever.
* Boot: weak fairness of the whole. Interrupts are off and kernel_main has the
  CPU for itself.

## Proofs

**ProcessProofs** proves TypeOK, TableSorted, ParentOlder and CurrentInTable from
their conjunction `IInv`, which is inductive. None is inductive alone: ParentOlder
needs that a fork's pid is newer than every entry (TableSorted) and that the
forking process is in the table. The proof has one lemma per action, on top of
lemmas about look-up and removal in a sorted table. It assumes `NoWrap` (`MaxPid <
PidSpace`: the counter has not wrapped; once it wraps, fork hands out pid 0 again
and the table is no longer sorted). The action properties ScheduledIsRunnable,
ZombieFrozen and SignalKept follow from `IInv` before and after the step.
SchedulerPicksRunnable rests on a lemma about the search from `CURRENT_PID`
round the table, after the signals of the same tick have been applied;
ZombiesStayFrozen and SignalsNotLost on what each of the loops over the table does
to the entry of one pid, zombie or live.

**KeyboardProofs** proves RingOK and that the ring refines the queue, for every
capacity (`RingSpec`: any push or pop may come next). The work is in
`PushContents` and `PopContents`, which say what the two operations do to the
contents through the modulo arithmetic. KeyboardDrivesRing then shows that the
driver only takes steps of `RingSpec`, so both results hold of it
(KeyboardUsesQueue). NoKeyLost, NotCopied and BufferInOrder are proved for any
number of keys from `KInv`, which adds that the controller holds the last key
struck, that a latched interrupt means this key is not in the buffer yet, and
that an interrupt without a byte behind it is stale and its key was handed out
at most once.

**ShellProofs** proves WritesInBuffer and BlankAhead of the writer for every
screen size (`WriterSpec`: any write, clear or erasure may come next). BlankAhead
is what makes a wrap land on a clean row; it needs the type part, and both are
proved together. ScreenIsTerminal is the refinement of Terminal: the text of the
terminal is the screen up to the cursor, and each of put, newline, wrap with
scroll, clear and erase is a step of the terminal. ShellDrivesWriter shows that
the shell only takes steps of `WriterSpec`, which carries the three results over
(ShellScreen). LineInBuffer is inductive alone. LineOnScreen follows from `EchoInv`: what the
shell still has to print and what is on the screen make up the prompt and the
line buffer.

**SequentialProofs** has the parts that run from one call to the next without
anything in between: the descriptor table and the boot. It proves that the table
is well formed with offsets inside the contents (`FdInv`), and from it that
`FdSpec` implements FdMap: initial states map to initial states and each call to
the same call on the map, or a stutter when only time passes or the kernel panics.
The main lemmas say what setting, clearing and appending a slot do to the map
read off the table.

Of the boot it proves FramesSound and HeapBacked for every page size, fan-out,
heap and memory map. The inductive invariant `MemoryInv` adds that each frame in
use is `Nth(regions, n)` for some n below `next`, which is what makes a new
frame differ from all of them; that `Nth` is injective and stays inside usable
regions is a lemma about the iterator. It assumes `MapsAligned`: regions are
whole pages and do not overlap. UEFI promises that; the allocator relies on it
without a check.

It also proves DevicesFound for every machine that keeps the bus's rules
(`PciAssumption`: a device answers at function 0 and announces further ones
there), with the lemmas that the fields of the address word do not overlap and
that the fields of a register are cut out as they were packed, and then the three invariants for the composition.

**NetworkProofs** has three layers. UdpReadsBack, UdpCutIsNone, EthReadsBack and
TcpReadsBack say that a parser undoes its serialiser (for TCP, the header as the
standard has it), for all ports, payloads that fit and, for UDP, whatever bytes
follow. MessageArrives and NoShortDatagram follow from `NetInv`: what a layer
finds is the message behind the headers that are still to be read, as the link
left it, whole, followed by padding, or cut. Each parser strips its own header
and keeps that relation (`EthReceives`, `IpReceives`, `UdpReceives`), whatever the
options and wherever the cut. ChecksumVerifies needs induction: over the words of
the data for their sum, and over the carries for the folding loop. `Least`, the
least-number principle for a set, takes the place of the induction theorems with
an operator parameter: the set of lengths at which a statement fails has no least
element. With it, `ChecksumIs` says that the checksum is the complement of the
one's complement sum, and `HeaderVerifies` that a header which carries it sums to
zero. Assumed is `NetworkAssumption`: messages are UDP datagrams and TCP segments
without options, IP options fill whole words.

**FileSystemsProofs** proves ReadsJoin and DirsAgree for every archive, cut or
damage, buffer size and passing of seconds. The first part is the layout of a
written archive, by induction (`Least` again) over the files: each header and each
byte of content is where `Pos` and `Start` say, and a file appended later leaves
it there (`LaidStays`). From it follows `ParseInv`: the parser is at the header
behind the files it has found, and its entries are those of the first files, so
damage ends the list (or the mount) and never shifts it. `ReadInv` says of the open file what
the reader has: a slice from the beginning of its content, all of it at the end.
It needs ParseInv, because that `data_offset` is where the writer put the content
is a statement about all files before it. DirsAgree rests on lemmas about the
search by path and inode, the trimming of slashes, the comparison of prefixes and
the type bits of a mode. What a directory lists beyond its children is shown to
continue its name. Assumed is `FileSystemsAssumption`: the names in an archive are distinct,
relative and have no empty component, as a cpio writer makes them.

**InterruptsProofs** proves NoSelfDeadlock, HandlersSeeReady and InServiceMatches
for every set of interrupt lines, any number of exceptions at any point, and
every set of calls out of `GuardedCalls`. Those are the calls that take the locks
they share with handlers under `without_interrupts`, and the ones the run makes;
getppid, ps and exit take PROCESS_TABLE with interrupts on, and the violation run
TimerNeverSpins shows what that leads to. The argument has three parts.

* InterruptPoints defines the invariant, `IntInv`. Every frame of the stack
  (kernel_main, a handler, an exception) is at a *point* of its path: the number
  of `without_interrupts` sections it is in, the locks it holds, and marks for
  what it has announced, whether interrupts have been enabled, and whether it
  owes the end of an interrupt. `Fits` says that what is left of the path can be
  run from that point to the end, each operation being allowed where it is made
  (`Moves`), and that no point at which an interrupt may come holds a lock that a
  handler takes (`Open`). The rest says that the points account for the global
  state: each held lock belongs to one frame, what a frame held when an exception
  struck is noted, the flag is that of the top frame, and a line in service is
  that of the handler that still owes its end. None of the three properties is
  inductive without this, because they speak of the operation that comes next
  and not of those after it.
* InterruptPaths has a lemma for each path of the kernel (kprint, alloc, fork,
  the handlers, the boot sequence, panic): it leads from its start to its end.
  This is where the order of locking and unlocking in the source matters. It also
  has what replacing, pushing and popping the top frame needs of the invariant.
* InterruptsProofs has one lemma per operation and per action.

`IntInv` quantifies over sequences of points and TLC cannot evaluate it; TLC
checks the three properties, and the proof alone checks the invariant.

Only model-checked: everything about liveness (TLAPS does not handle ENABLED and
fairness): EveryoneScheduled, SignalTerminates, WaitReturns, KeysReachReader,
ShellResponds, BootCompletes, PanicReported and LinesServed. That `Nth` is the
flattened iterator is an assumption of MCBoot that TLC evaluates on its maps.

## Not modelled

* Contents of log lines, colours, process names and priorities (the scheduler
  ignores them), scancode translation: no property depends on them.
* Page-table entries and the heap's free list: external crates. Memory has which
  tables exist and which frames they take.
* Writes to pseudo file systems: they return PermissionDenied or send bytes to
  the serial port; the kernel keeps no state for them. create and unlink fail.
* Sockets, TCP connections, ext4, and the ACPI, NVMe, AHCI, e1000, HDA, xHCI and
  HCI drivers: their functions return constants or errors. GDT and framebuffer
  are constant tables.
* The init program: a loop around fork, execve and wait that keeps no state and
  is not loaded by the kernel.
* sys_read's loop on the console is the loop of read_line without its editing; its
  return with EINTR when the current process is a zombie is left out.
* TCP options, IPv4 header lengths below five words, and archive entries whose name
  is empty, absolute or the same as another's: the modelled senders and writers do
  not produce them.

The keyboard's reader may see a key polled from the controller before older ones
the handler is buffering; only the buffer's own order is claimed.
