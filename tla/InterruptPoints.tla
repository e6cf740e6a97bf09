-------------------------- MODULE InterruptPoints --------------------------
(***************************************************************************)
(* The invariant of module Interrupts.  Every frame of the stack is at a    *)
(* point of its path: how many sections with interrupts off it is in, what  *)
(* it holds, what it has announced and what it still owes.  The points of   *)
(* the frames account for the locks, the interrupt flag, the line in        *)
(* service and the parts of the kernel that are initialised.                *)
(***************************************************************************)
EXTENDS Interrupts

-----------------------------------------------------------------------------
(* What a frame is doing at a point of its path: n sections with interrupts *)
(* off, the locks h, and the marks m: the parts announced, "sti" once       *)
(* interrupts are on, "eoi" while it owes the end of an interrupt.          *)

Shared == {"SERIAL1", "WRITER", "KEYBOARD", "KEY_BUFFER", "PROCESS_TABLE", "PICS"}

Parts == {"idt", "pic", "memory", "keyboard", "process"}

Locks == Shared \cup {"ALLOCATOR", "PCI_LOCK", "FD_TABLE"}

Announced == Parts \cup {"gdt", "pci"}

OpNames == {"cli", "restore", "sti", "off", "lock", "unlock", "eoi", "ready", "may_panic", "halt"}

Args == Locks \cup Announced \cup {""}

Ops == [op : OpNames, arg : Args]

Points == [n : Nat, h : SUBSET Locks, m : SUBSET (Announced \cup {"sti", "eoi"})]

At(k, l, j) == [n |-> k, h |-> l, m |-> j]

\* Where an interrupt may come, no lock is held that a handler takes.
Open(s) == "sti" \in s.m /\ s.n = 0 => s.h \cap Shared = {}

\* The locks that frames of each kind take.
LocksOf(k) ==
  IF k = "main" THEN Locks ELSE IF k = "irq" THEN Shared ELSE Printing

\* One operation of a path of kind k takes it from point s to point t.
Moves(k, s, o, t) ==
  /\ t \in Points /\ Open(t)
  /\ \/ o.op = "cli" /\ t = At(s.n + 1, s.h, s.m)
     \/ o.op = "restore" /\ s.n > 0 /\ t = At(s.n - 1, s.h, s.m)
     \/ /\ o.op = "sti" /\ k = "main" /\ s.n = 0 /\ Parts \subseteq s.m
        /\ t = At(s.n, s.h, s.m \cup {"sti"})
     \/ o.op = "off" /\ t = s
     \/ o.op = "lock" /\ o.arg \in LocksOf(k) \ s.h /\ t = At(s.n, s.h \cup {o.arg}, s.m)
     \/ o.op = "unlock" /\ o.arg \in s.h /\ t = At(s.n, s.h \ {o.arg}, s.m)
     \/ o.op = "eoi" /\ "eoi" \in s.m /\ t = At(s.n, s.h, s.m \ {"eoi"})
     \/ /\ o.op = "ready" /\ k = "main" /\ o.arg \in Announced
        /\ t = At(s.n, s.h, s.m \cup {o.arg})
     \/ o.op = "may_panic" /\ k = "main" /\ s.h \cap Printing = {} /\ t = s
     \/ o.op = "halt"

\* a gives the points of p, one before each operation and one after the last.
Marks(k, p, a) ==
  /\ a \in [0 .. Len(p) -> Points]
  /\ \A i \in 1 .. Len(p) : Moves(k, a[i - 1], p[i], a[i])

\* Path p leads from point s to point t.
Goes(k, p, s, t) ==
  /\ p \in Seq(Ops)
  /\ \E a : Marks(k, p, a) /\ a[0] = s /\ a[Len(p)] = t

\* A frame at rest.
Done(t) == t.n = 0 /\ t.h = {} /\ "eoi" \notin t.m

\* Path p of kind k can be run from s to its end.
Finishes(k, p, s) == \E t : Done(t) /\ Goes(k, p, s, t)

-----------------------------------------------------------------------------
(* The invariant.  g gives the point of every frame of the stack.           *)

FrameSet == [todo : Seq(Ops), saved : Seq(BOOLEAN), line : Int, flag : BOOLEAN]

Kind(line) == IF line = NoLine THEN "main" ELSE IF line = Exception THEN "exc" ELSE "irq"

\* Frame f is at point s of its path, with interrupt flag fl.  It saved the flags of
\* the sections it is in, and only the outermost can have found it set.
Fits(f, s, fl) ==
  /\ f \in FrameSet /\ s \in Points /\ fl \in BOOLEAN
  /\ Open(s) /\ Finishes(Kind(f.line), f.todo, s)
  /\ Len(f.saved) = s.n
  /\ \A j \in 1 .. Len(f.saved) : f.saved[j] = TRUE => j = 1 /\ "sti" \in s.m
  /\ fl = TRUE => "sti" \in s.m /\ s.n = 0

\* The flag of frame i: the CPU's, or what the frame above returns to.
FlagOf(st, fl, i) == IF i = Len(st) THEN fl ELSE st[i + 1].flag

Frames(g, st, fl) ==
  /\ st \in Seq(FrameSet) /\ Len(st) > 0
  /\ \A i \in 1 .. Len(st) : Fits(st[i], g[i], FlagOf(st, fl, i))

\* kernel_main is at the bottom, an interrupt handler at most right above it, and
\* all frames but the bottom one run with interrupts off.
Shape(g, st) ==
  /\ st[1].line = NoLine
  /\ \A i \in 2 .. Len(st) :
       /\ "sti" \notin g[i].m
       /\ st[i].line = Exception \/ (i = 2 /\ st[i].line >= 0 /\ st[i].flag = TRUE)

\* A lock that is taken is held by one frame.
Owned(g, n, he) ==
  /\ \A l : l \in he <=> \E i \in 1 .. n : l \in g[i].h
  /\ \A i, j \in 1 .. n : \A l : l \in g[i].h /\ l \in g[j].h => i = j

\* What a frame held when an exception came was noted.
Noted(g, st, sk) ==
  \A i \in 1 .. Len(st) - 1 : st[i + 1].line = Exception => g[i].h \subseteq sk

\* Parts are announced before interrupts are enabled.
Informed(g, n, re) ==
  \A i \in 1 .. n :
    /\ g[i].m \cap Announced \subseteq re
    /\ "sti" \in g[i].m => Parts \subseteq re

\* What is in service is the line of the handler that still owes its end.
Serving(g, st, is) ==
  \A x \in is : Len(st) >= 2 /\ st[2].line = x /\ x >= 0 /\ "eoi" \in g[2].m

Holds(g, st, fl, he, is, re, sk) ==
  /\ Frames(g, st, fl) /\ Shape(g, st) /\ Owned(g, Len(st), he)
  /\ Noted(g, st, sk) /\ Informed(g, Len(st), re) /\ Serving(g, st, is)

Stands(st, fl, he, is, re, sk) == \E g : Holds(g, st, fl, he, is, re, sk)

IntInv == Stands(stack, intr, held, isr, ready, struck)

=============================================================================
