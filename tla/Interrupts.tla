----------------------------- MODULE Interrupts -----------------------------
(***************************************************************************)
(* Boot, interrupts, locks and panic: who holds which spin lock when an    *)
(* interrupt is taken, on one CPU.                                         *)
(*                                                                         *)
(* A function of the kernel is a path: the sequence of what it does to the *)
(* interrupt flag, to the locks and to the interrupt controller, its calls *)
(* expanded.  The CPU has a stack of frames: kernel_main at the bottom,    *)
(* handlers above it.  It takes a pending interrupt as soon as the flag    *)
(* allows, and an exception or a non-maskable interrupt at any             *)
(* instruction; a handler runs with the flag clear.  A lock that is taken  *)
(* is waited for with the CPU: its holder, further down the stack, never   *)
(* runs again.  A panic does not unwind (panic = "abort").                 *)
(***************************************************************************)
EXTENDS Integers, Sequences

CONSTANTS
  Calls,   \* the calls kernel_main goes on to make, names of Path
  Lines,   \* the lines devices raise
  MaxExceptions   \* bound: exceptions and non-maskable interrupts

ASSUME InterruptsAssumption ==
  /\ Lines \subseteq 0 .. 15
  /\ MaxExceptions \in Nat

Op(o, a) == [op |-> o, arg |-> a]

\* without_interrupts: the flag is put back as it was.
Guarded(p) == << Op("cli", "") >> \o p \o << Op("restore", "") >>

\* The guard of a spin::Mutex lives while p runs.
Holding(l, p) == << Op("lock", l) >> \o p \o << Op("unlock", l) >>

\* A heap allocation: the allocator's lock, then perhaps alloc_error_handler; and what
\* dropping a value does.
Alloc == Holding("ALLOCATOR", << >>) \o << Op("may_panic", "") >>
Free == Holding("ALLOCATOR", << >>)

-----------------------------------------------------------------------------
(* Drivers.                                                                 *)

SerialPrint == Guarded(Holding("SERIAL1", << >>))

\* Mutant: formatting allocates while the writer is locked.
Kprint_Allocates == Guarded(Holding("WRITER", Alloc))

Kprint == Guarded(Holding("WRITER", << >>))

DecodeScancode == Holding("KEYBOARD", SerialPrint)

\* Mutant: the buffer is locked with interrupts enabled.
TryReadChar_Open == Holding("KEY_BUFFER", << >>)

TryReadChar == Guarded(Holding("KEY_BUFFER", << >>))

PollChar == Guarded(DecodeScancode)

HandleInterrupt == DecodeScancode \o Holding("KEY_BUFFER", << >>)

(* The process subsystem.                                                   *)

DispatchSignals == Guarded(Holding("PROCESS_TABLE", << >>))

\* schedule, with the message it logs when CURRENT_PID has no entry.
Schedule == Holding("PROCESS_TABLE", SerialPrint)

Fork == Guarded(Holding("PROCESS_TABLE", Alloc))

\* The new name may need more room than the old one.
Execve == Guarded(Holding("PROCESS_TABLE", Alloc))

\* The round of waitpid that reaps drops the name of the process.
Waitpid == Guarded(Holding("PROCESS_TABLE", Free))

\* kill, a round of waitpid that reaps nothing, exit's changes to the table.
TableCall == Guarded(Holding("PROCESS_TABLE", << >>))

(* The interrupt handlers.                                                  *)

EndOfInterrupt == Holding("PICS", << Op("eoi", "") >>)

\* tick, on a tick that ends a time slice.
TimerHandler == DispatchSignals \o Schedule \o EndOfInterrupt

\* Mutant: the end of the interrupt is not signalled.
KeyboardHandler_NoEoi == HandleInterrupt

KeyboardHandler == HandleInterrupt \o EndOfInterrupt

\* What idt::init installed for a line.
Handler(line) ==
  CASE line = 0 -> TimerHandler
    [] line = 1 -> KeyboardHandler
    [] OTHER -> EndOfInterrupt

\* The lines init_pics unmasks.
Unmasked == {0, 1, 2}

-----------------------------------------------------------------------------
(* kernel_main up to shell::run: the initialisations in order, a message    *)
(* around each.                                                             *)
Step(part, p) == SerialPrint \o p \o << Op("ready", part) >> \o SerialPrint

\* Mutant: interrupts are enabled as soon as the controller is set up.
BootPath_EarlyEnable ==
  Step("idt", << >>)
    \o Step("pic", Holding("PICS", << >>))
    \o << Op("sti", "") >>
    \o Step("memory", << Op("may_panic", "") >>)
    \o Step("keyboard", Holding("KEYBOARD", << >>))
    \o Step("process", Holding("PROCESS_TABLE", Alloc))

BootPath ==
  Holding("SERIAL1", << >>) \o SerialPrint
    \o Holding("WRITER", << >>) \o Kprint
    \o Step("gdt", << >>)
    \o Step("idt", << >>)
    \o Step("pic", Holding("PICS", << >>))
    \o Step("memory", << Op("may_panic", "") >> \o Holding("ALLOCATOR", << >>))
    \o Step("pci", Holding("PCI_LOCK", << >>) \o Alloc \o SerialPrint)
    \o Step("keyboard", Holding("KEYBOARD", << >>))
    \o Step("process", Holding("PROCESS_TABLE", Alloc))
    \o << Op("sti", "") >>
    \o SerialPrint

\* The calls the shell and user programs make afterwards.  The last three lock
\* PROCESS_TABLE with interrupts enabled (see TimerNeverSpins in ProcessClaims).
Path(name) ==
  CASE name = "write" -> SerialPrint \o Kprint
    [] name = "read_key" -> TryReadChar \o PollChar
    [] name = "fork" -> Fork
    [] name = "execve" -> Execve
    [] name = "waitpid" -> Waitpid
    [] name = "kill" -> TableCall
    [] name = "open" -> Alloc \o Holding("FD_TABLE", Alloc)
    [] name = "read_file" -> Holding("FD_TABLE", Alloc)
    [] name = "write_tty" -> Holding("FD_TABLE", SerialPrint)
    [] name = "getppid" -> Holding("PROCESS_TABLE", << >>)
    [] name = "ps" -> Holding("PROCESS_TABLE", Kprint)
    [] name = "exit" -> TableCall \o SerialPrint \o Schedule \o << Op("halt", "") >>

Panic == << Op("off", "") >> \o SerialPrint \o Kprint \o << Op("halt", "") >>

\* The exception handlers: a breakpoint and a debug exception print and return, all
\* others panic, the one of the non-maskable interrupt included.
Exceptions == {"debug", "fault"}
ExceptionHandler(kind) == IF kind = "debug" THEN SerialPrint ELSE Panic

-----------------------------------------------------------------------------
VARIABLES
  stack,   \* frames: what is left to do, the saved flags, the line served, the flag to return to
  intr,    \* the interrupt flag
  held,    \* the locks that are taken
  irr,     \* lines requested and not yet taken
  isr,     \* lines in service at the controller
  ready,   \* the parts initialised
  panicked,
  exceptions,   \* how many there were
  struck        \* the locks that were held at one

ivars == <<stack, intr, held, irr, isr, ready, panicked, exceptions, struck>>

NoLine == -1
Exception == -2
Spurious == 7

Frame(path, line, flag) == [todo |-> path, saved |-> << >>, line |-> line, flag |-> flag]

Init ==
  /\ stack = << Frame(BootPath, NoLine, FALSE) >>
  /\ intr = FALSE
  /\ held = {}
  /\ irr = {}
  /\ isr = {}
  /\ ready = {}
  /\ panicked = FALSE
  /\ exceptions = 0
  /\ struck = {}

Top == stack[Len(stack)]

\* The line the controller presents: requested, unmasked, above what is in service.
Deliverable ==
  {l \in irr \cap Unmasked : "pic" \in ready /\ \A s \in isr : l < s}

\* The top frame does o and goes on, with the flags it has saved.
Does(o, saved) ==
  /\ ~(intr /\ Deliverable # {})
  /\ Top.todo # << >>
  /\ Head(Top.todo).op = o
  /\ stack' = [stack EXCEPT ![Len(stack)].todo = Tail(@), ![Len(stack)].saved = saved]

Arg == Head(Top.todo).arg

Cli ==
  /\ Does("cli", Append(Top.saved, intr))
  /\ intr' = FALSE
  /\ UNCHANGED <<held, irr, isr, ready, panicked, exceptions, struck>>

Restore ==
  /\ LET n == Len(Top.saved)
     IN  Does("restore", SubSeq(Top.saved, 1, n - 1)) /\ intr' = Top.saved[n]
  /\ UNCHANGED <<held, irr, isr, ready, panicked, exceptions, struck>>

\* interrupts::enable in kernel_main, interrupts::disable in panic.
SetFlag ==
  /\ \E o \in {"sti", "off"} : Does(o, Top.saved) /\ intr' = (o = "sti")
  /\ UNCHANGED <<held, irr, isr, ready, panicked, exceptions, struck>>

\* A lock that is held is not obtained: no step, the CPU spins.
Lock ==
  /\ Does("lock", Top.saved)
  /\ Arg \notin held
  /\ held' = held \cup {Arg}
  /\ UNCHANGED <<intr, irr, isr, ready, panicked, exceptions, struck>>

Unlock ==
  /\ Does("unlock", Top.saved)
  /\ held' = held \ {Arg}
  /\ UNCHANGED <<intr, irr, isr, ready, panicked, exceptions, struck>>

\* The command that ends an interrupt names none: it ends the most urgent one.
Eoi ==
  /\ Does("eoi", Top.saved)
  /\ isr' = {s \in isr : \E l \in isr : l < s}
  /\ UNCHANGED <<intr, held, irr, ready, panicked, exceptions, struck>>

Ready ==
  /\ Does("ready", Top.saved)
  /\ ready' = ready \cup {Arg}
  /\ UNCHANGED <<intr, held, irr, isr, panicked, exceptions, struck>>

GoesWell ==
  /\ Does("may_panic", Top.saved)
  /\ UNCHANGED <<intr, held, irr, isr, ready, panicked, exceptions, struck>>

\* The panic handler runs in place of the rest; no lock is released.
Panics ==
  /\ ~(intr /\ Deliverable # {})
  /\ Top.todo # << >>
  /\ Head(Top.todo).op = "may_panic"
  /\ stack' = [stack EXCEPT ![Len(stack)].todo = Panic]
  /\ panicked' = TRUE
  /\ UNCHANGED <<intr, held, irr, isr, ready, exceptions, struck>>

\* kernel_main makes its next call.
MakeCall(name) ==
  /\ ~(intr /\ Deliverable # {})
  /\ Len(stack) = 1 /\ Top.todo = << >>
  /\ stack' = << Frame(Path(name), NoLine, intr) >>
  /\ UNCHANGED <<intr, held, irr, isr, ready, panicked, exceptions, struck>>

-----------------------------------------------------------------------------
(* A device raises its line, not again before the handler has returned (the *)
(* timer's period is milliseconds, a scancode takes one to arrive); the CPU *)
(* takes it, or a spurious request, and returns from the handler.           *)
Raise(line) ==
  /\ line \notin irr
  /\ \A i \in DOMAIN stack : stack[i].line # line
  /\ irr' = irr \cup {line}
  /\ UNCHANGED <<stack, intr, held, isr, ready, panicked, exceptions, struck>>

Take(line) ==
  /\ intr
  /\ line \in Deliverable
  /\ \A l \in Deliverable : line <= l
  /\ stack' = Append(stack, Frame(Handler(line), line, TRUE))
  /\ intr' = FALSE
  /\ irr' = irr \ {line}
  /\ isr' = isr \cup {line}
  /\ UNCHANGED <<held, ready, panicked, exceptions, struck>>

TakeSpurious ==
  /\ intr
  /\ Deliverable = {}
  /\ stack' = Append(stack, Frame(Handler(Spurious), Spurious, TRUE))
  /\ intr' = FALSE
  /\ UNCHANGED <<held, irr, isr, ready, panicked, exceptions, struck>>

Iret ==
  /\ Len(stack) > 1
  /\ Top.todo = << >>
  /\ stack' = SubSeq(stack, 1, Len(stack) - 1)
  /\ intr' = Top.flag
  /\ UNCHANGED <<held, irr, isr, ready, panicked, exceptions, struck>>

\* An instruction faults, or a non-maskable interrupt arrives, once the IDT is loaded.
Except(kind) ==
  /\ "idt" \in ready
  /\ exceptions < MaxExceptions
  /\ stack' = Append(stack, Frame(ExceptionHandler(kind), Exception, intr))
  /\ intr' = FALSE
  /\ panicked' = (panicked \/ kind = "fault")
  /\ exceptions' = exceptions + 1
  /\ struck' = struck \cup held
  /\ UNCHANGED <<held, irr, isr, ready>>

Execute ==
  \/ Cli \/ Restore \/ SetFlag \/ Lock \/ Unlock \/ Eoi \/ Ready
  \/ GoesWell \/ Panics

Next ==
  \/ Execute
  \/ Iret
  \/ \E line \in Unmasked : Take(line)
  \/ TakeSpurious
  \/ \E kind \in Exceptions : Except(kind)
  \/ \E name \in Calls : MakeCall(name)
  \/ \E line \in Lines : Raise(line)

Spec == Init /\ [][Next]_ivars

(* The CPU does not stop between two instructions, and takes an interrupt   *)
(* at the first one where it may.                                           *)
FairSpec ==
  /\ Spec
  /\ WF_ivars(Execute)
  /\ WF_ivars(Iret)
  /\ \A line \in Unmasked : SF_ivars(Take(line))

-----------------------------------------------------------------------------
(* Properties.                                                              *)

\* The locks under which the kernel prints, and so reports a panic.
Printing == {"SERIAL1", "WRITER"}

\* No handler, and no call of Calls, asks for a lock that the code it interrupted
\* or its own callers hold: on one CPU it would spin for ever.  The one exception is
\* an exception: its handler prints, and spins if it struck inside a print.
NoSelfDeadlock ==
  Top.todo # << >> /\ Head(Top.todo).op = "lock" /\ Arg \in held =>
    Arg \in struck \cap Printing

\* Interrupt handlers run only after everything they use was initialised,
\* although every boot step prints, and printing gives back the interrupt flag.
HandlersSeeReady ==
  (\E i \in DOMAIN stack : stack[i].line >= 0) =>
    {"idt", "pic", "memory", "keyboard", "process"} \subseteq ready

\* Interrupt handlers do not nest, even when an exception strikes in one and returns,
\* and each ends its own interrupt and no other, the handlers of spurious requests
\* included: nothing is in service that no frame serves.
InServiceMatches ==
  LET serving == {i \in DOMAIN stack : stack[i].line >= 0}
  IN  /\ \A i, j \in serving : i = j
      /\ isr \subseteq {stack[i].line : i \in serving}

\* Once interrupts are off, a panic is reported on the serial port and on the
\* screen, whatever locks the code that panicked held, and wherever an exception
\* struck, unless it struck inside a print.
PanicReported ==
  (panicked /\ ~intr /\ Top.todo # << >> /\ Top.todo[Len(Top.todo)].op = "halt") ~>
    \/ Top.todo # << >> /\ Head(Top.todo).op = "halt"
    \/ struck \cap Printing # {}

\* A raised, unmasked line is served, unless the kernel panics or an exception struck
\* inside a print: no interrupt is left unacknowledged and blocks the ones after it.
LinesServed ==
  \A l \in Unmasked \cap Lines :
    (l \in irr /\ intr) ~> (l \notin irr \/ panicked \/ struck \cap Printing # {})

=============================================================================
