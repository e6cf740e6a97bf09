------------------------------ MODULE Process ------------------------------
(***************************************************************************)
(* The process subsystem: PROCESS_TABLE, NEXT_PID, CURRENT_PID and TICK,   *)
(* the calls fork, execve, exit, waitpid, kill, getppid and the shell's    *)
(* ps, and the timer interrupt that delivers signals and advances          *)
(* CURRENT_PID (kernel/src/process, parts of kernel/src/syscall).          *)
(*                                                                         *)
(* There is one CPU.  A body that runs under `without_interrupts` is one   *)
(* step; between two such bodies interrupts are enabled and the timer      *)
(* interrupt may be taken, so every call that opens the window has one     *)
(* step on each side of it and a control point (pc) in between.  The       *)
(* interrupt handler itself runs with interrupts disabled: one step.       *)
(*                                                                         *)
(* schedule() "just advances the PID pointer": it moves CURRENT_PID and    *)
(* switches no stack.  So there is one thread of control, the boot flow,   *)
(* which makes every call on behalf of whatever CURRENT_PID says then.     *)
(***************************************************************************)
EXTENDS Integers, Sequences

CONSTANTS
  PidSpace,   \* size of the u32 NEXT_PID wraps in (2^32 in the code)
  MaxPid,     \* bound: the last value NEXT_PID hands out
  Timeslice,  \* TIMESLICE, in ticks
  Signals,    \* the signal numbers callers pass to kill
  Codes,      \* the codes callers pass to exit
  Calls       \* the calls the environment makes

ASSUME ProcessAssumption ==
  /\ PidSpace \in Nat \ {0, 1}
  /\ MaxPid \in Nat \ {0}
  /\ Timeslice \in Nat \ {0}
  /\ Signals \subseteq Nat
  /\ Codes \subseteq Int

\* Vec::remove.
RemoveAt(s, i) == SubSeq(s, 1, i - 1) \o SubSeq(s, i + 1, Len(s))

VARIABLES
  table,      \* PROCESS_TABLE, a Vec<Process>
  next_pid,   \* how often NEXT_PID was incremented, plus 1 (u32: % PidSpace)
  current,    \* CURRENT_PID
  slice,      \* TICK % TIMESLICE, all that tick() looks at
  pc,         \* control point of the boot flow
  call,       \* the call it is in: its argument, and CURRENT_PID when it was made
  hung        \* the timer handler spins on the lock its CPU holds

vars == <<table, next_pid, current, slice, pc, call, hung>>

-----------------------------------------------------------------------------
Pids == 0 .. MaxPid
States == {"Ready", "Running", "Blocked", "Zombie"}
AnyChild == -1
NoCall == [caller |-> 0, target |-> AnyChild]

SIGINT == 2
SIGQUIT == 3
SIGKILL == 9
SIGTERM == 15

\* The signals dispatch_signals acts on, in the order of its if-chain.
TermSignals == {SIGKILL, SIGTERM, SIGINT, SIGQUIT}

\* The points where the flow can be interrupted.  At the "locked" ones it holds
\* PROCESS_TABLE with interrupts enabled.
LockedPoints == {"exit_locked", "ppid_locked", "ps_locked"}
ExitPoints == {"exit_marked", "exit_locked", "halted"}
Points == {"run", "wait"} \cup LockedPoints \cup ExitPoints

\* The u32 value of the counter.
PidOf(n) == n % PidSpace

Has(t, p) == \E i \in DOMAIN t : t[i].pid = p

\* table.iter().find(|p| p.pid == pid): the first match.
Find(t, p) == CHOOSE i \in DOMAIN t :
                /\ t[i].pid = p
                /\ \A j \in 1 .. i-1 : t[j].pid # p

Entry(p) == table[Find(table, p)]

\* A process scheduler::schedule may pick.
Runnable(e) == e.state \in {"Ready", "Running"}

Live(p) == Has(table, p) /\ Entry(p).state # "Zombie"

ChildOf(e, parent, target) ==
  /\ e.parent_pid = parent
  /\ target = AnyChild \/ e.pid = target

\* A new entry.  Name, priority and kernel_rsp decide nothing and are left out.
Process(pid, parent, state) ==
  [pid |-> pid, parent_pid |-> parent, state |-> state,
   exit_code |-> 0, pending |-> {}]

-----------------------------------------------------------------------------
(* scheduler::schedule on table t: CURRENT_PID moves to the next Ready or   *)
(* Running slot after the current one, wrapping; slot 0 is the start when   *)
(* CURRENT_PID has no slot; it stays when no slot qualifies.                *)
StartSlot(t, cur) == IF Has(t, cur) THEN Find(t, cur) - 1 ELSE 0

SlotAfter(t, start, i) == ((start + i) % Len(t)) + 1

\* Mutant: the next slot is taken whatever its state.
Schedule_NextSlot(t) ==
  current' = t[SlotAfter(t, StartSlot(t, current), 1)].pid

\* Mutant: the search restarts at slot 0 every time.
Schedule_FromSlot0(t) ==
  LET first(i) == Runnable(t[i]) /\ \A j \in 1 .. i-1 : ~Runnable(t[j])
  IN  \/ /\ \A i \in 1 .. Len(t) : ~first(i)
         /\ current' = current
      \/ \E i \in 1 .. Len(t) :
           /\ first(i)
           /\ current' = t[i].pid

Schedule(t) ==
  LET candidate(i) == t[SlotAfter(t, StartSlot(t, current), i)]
  IN  \/ /\ t = << >>
         /\ current' = 0
      \/ /\ t # << >>
         /\ \A i \in 1 .. Len(t) : ~Runnable(candidate(i))
         /\ current' = current
      \/ \E i \in 1 .. Len(t) :
           /\ Runnable(candidate(i))
           /\ \A j \in 1 .. i-1 : ~Runnable(candidate(j))
           /\ current' = candidate(i).pid

-----------------------------------------------------------------------------
(* signal::dispatch_signals(pid), on the entry it finds.                    *)
TerminatingSig(pending) ==
  CASE SIGKILL \in pending -> SIGKILL
    [] SIGKILL \notin pending /\ SIGTERM \in pending -> SIGTERM
    [] pending \cap {SIGKILL, SIGTERM} = {} /\ SIGINT \in pending -> SIGINT
    [] OTHER -> SIGQUIT

\* Mutant: the pending set is cleared before it is examined.
Deliver_ClearedFirst(e) == [e EXCEPT !.pending = {}]

Deliver(e) ==
  IF e.pending \cap TermSignals # {}
  THEN [e EXCEPT !.state = "Zombie",
                 !.exit_code = 128 + TerminatingSig(e.pending),
                 !.pending = {}]
  ELSE [e EXCEPT !.pending = {}]

\* Mutant: only a process in state Running gets its signals; nothing sets that state.
DispatchSignals_RunningOnly(t, p) ==
  IF Has(t, p) /\ t[Find(t, p)].state = "Running"
  THEN [t EXCEPT ![Find(t, p)] = Deliver(@)] ELSE t

DispatchSignals(t, p) ==
  IF Has(t, p) THEN [t EXCEPT ![Find(t, p)] = Deliver(@)] ELSE t

-----------------------------------------------------------------------------
(* process::init, then `interrupts::enable` in kernel_main.                 *)
Init ==
  /\ table = << Process(0, 0, "Running"), Process(1, 0, "Ready") >>
  /\ next_pid = 2
  /\ current = 0
  /\ slice = 0
  /\ pc = "run"
  /\ call = NoCall
  /\ hung = FALSE

\* The boot flow executes its next instructions: no interrupt handler is spinning on
\* top of it.
At(point) == ~hung /\ pc = point

Enter(point, target) ==
  /\ pc' = point
  /\ call' = [caller |-> current, target |-> target]

Return ==
  /\ pc' = "run"
  /\ call' = NoCall

-----------------------------------------------------------------------------
\* Mutant: the pid is the slot number instead of a fresh counter value.
Fork_SlotAsPid ==
  /\ "fork" \in Calls
  /\ At("run")
  /\ next_pid <= MaxPid
  /\ Has(table, current)
  /\ table' = Append(table, Process(Len(table), Entry(current).pid, "Ready"))
  /\ next_pid' = next_pid + 1
  /\ UNCHANGED <<current, slice, pc, call, hung>>

(* process::fork.  The guard on next_pid is the model's bound.              *)
Fork ==
  /\ "fork" \in Calls
  /\ At("run")
  /\ next_pid <= MaxPid
  /\ Has(table, current)
  /\ table' = Append(table, Process(PidOf(next_pid), Entry(current).pid, "Ready"))
  /\ next_pid' = next_pid + 1
  /\ UNCHANGED <<current, slice, pc, call, hung>>

(* process::execve: a new image clears what is pending.                     *)
Execve ==
  /\ "execve" \in Calls
  /\ At("run")
  /\ Has(table, current)
  /\ table' = [table EXCEPT ![Find(table, current)].pending = {}]
  /\ UNCHANGED <<next_pid, current, slice, pc, call, hung>>

(* signal::kill: numbers above 31 are refused, 0 only probes.               *)
Kill(p, sig) ==
  /\ "kill" \in Calls
  /\ At("run")
  /\ sig \in 1 .. 31
  /\ Has(table, p)
  /\ table' = [table EXCEPT ![Find(table, p)].pending = @ \cup {sig}]
  /\ UNCHANGED <<next_pid, current, slice, pc, call, hung>>

-----------------------------------------------------------------------------
(* process::exit.  First the body under without_interrupts: the current     *)
(* process becomes a zombie and its children go to init.                    *)

\* Mutant: the children end with their parent.
MarkZombie_Children(t, p, code) ==
  [i \in DOMAIN t |-> IF t[i].pid = p \/ t[i].parent_pid = p
                      THEN [t[i] EXCEPT !.state = "Zombie", !.exit_code = code]
                      ELSE t[i]]

MarkZombie(t, p, code) ==
  IF Has(t, p)
  THEN [t EXCEPT ![Find(t, p)].state = "Zombie", ![Find(t, p)].exit_code = code]
  ELSE t

\* Mutant: the children go to the newest process instead of init.
Reparent_ToNewest(t, p) ==
  [i \in DOMAIN t |-> IF t[i].parent_pid = p
                      THEN [t[i] EXCEPT !.parent_pid = t[Len(t)].pid] ELSE t[i]]

Reparent(t, p) ==
  [i \in DOMAIN t |-> IF t[i].parent_pid = p
                      THEN [t[i] EXCEPT !.parent_pid = 1] ELSE t[i]]

ExitMark(code) ==
  /\ "exit" \in Calls
  /\ At("run")
  /\ table' = Reparent(MarkZombie(table, current, code), current)
  /\ Enter("exit_marked", AnyChild)
  /\ UNCHANGED <<next_pid, current, slice, hung>>

(* ... then the message, then force_schedule, which takes the lock with     *)
(* interrupts enabled ...                                                   *)
ExitLock ==
  /\ At("exit_marked")
  /\ pc' = "exit_locked"
  /\ UNCHANGED <<table, next_pid, current, slice, call, hung>>

(* ... moves CURRENT_PID, drops the lock and halts for good.                *)
ExitSchedule ==
  /\ At("exit_locked")
  /\ Schedule(table)
  /\ pc' = "halted"
  /\ UNCHANGED <<table, next_pid, slice, call, hung>>

-----------------------------------------------------------------------------
(* process::waitpid: the call, then one iteration of its loop per step.     *)
(* Every iteration reads CURRENT_PID again.                                 *)
WaitCall(target) ==
  /\ (IF target = AnyChild THEN "wait" ELSE "waitpid") \in Calls
  /\ At("run")
  /\ Enter("wait", target)
  /\ UNCHANGED <<table, next_pid, current, slice, hung>>

\* Mutant: any zombie will do, whoever its parent is.
Reapable_AnyParent(e, parent, target) ==
  (target = AnyChild \/ e.pid = target) /\ e.state = "Zombie"

Reapable(e, parent, target) ==
  ChildOf(e, parent, target) /\ e.state = "Zombie"

HasChild(parent, target) ==
  \E i \in DOMAIN table : ChildOf(table[i], parent, target)

\* Mutant: only the first child is looked at.
FirstReapable_OldestChild(i, parent, target) ==
  /\ Reapable(table[i], parent, target)
  /\ \A j \in 1 .. i-1 : ~ChildOf(table[j], parent, target)

FirstReapable(i, parent, target) ==
  /\ Reapable(table[i], parent, target)
  /\ \A j \in 1 .. i-1 : ~Reapable(table[j], parent, target)

\* Err("waitpid: no child").
WaitNoChild ==
  /\ At("wait")
  /\ ~HasChild(current, call.target)
  /\ Return
  /\ UNCHANGED <<table, next_pid, current, slice, hung>>

\* The first zombie child leaves the table; its pid and code are returned.
WaitReap ==
  /\ At("wait")
  /\ \E i \in DOMAIN table :
       /\ FirstReapable(i, current, call.target)
       /\ table' = RemoveAt(table, i)
  /\ Return
  /\ UNCHANGED <<next_pid, current, slice, hung>>

-----------------------------------------------------------------------------
(* syscall::sys_getppid and shell::cmd_ps read the table under its lock     *)
(* with interrupts enabled.  The shell is the boot flow.                    *)
LockTable(name, point) ==
  /\ name \in Calls
  /\ At("run")
  /\ pc' = point
  /\ UNCHANGED <<table, next_pid, current, slice, call, hung>>

GetppidLock == LockTable("getppid", "ppid_locked")

PsLock == LockTable("ps", "ps_locked")

Unlock ==
  /\ \E point \in {"ppid_locked", "ps_locked"} : At(point)
  /\ pc' = "run"
  /\ UNCHANGED <<table, next_pid, current, slice, call, hung>>

-----------------------------------------------------------------------------
(* timer_interrupt_handler and scheduler::tick.  dispatch_signals takes the *)
(* PROCESS_TABLE lock: if the interrupted flow holds it, the handler spins  *)
(* on the only CPU and nothing runs again.                                  *)
TimerSpin ==
  /\ ~hung
  /\ pc \in LockedPoints
  /\ hung' = TRUE
  /\ UNCHANGED <<table, next_pid, current, slice, pc, call>>

\* Mutant: the slice counter is compared but never reset.
Tick_NoReset ==
  /\ ~hung
  /\ pc \notin LockedPoints
  /\ table' = DispatchSignals(table, current)
  /\ slice' = slice + 1
  /\ IF slice' >= Timeslice THEN Schedule(table') ELSE current' = current
  /\ UNCHANGED <<next_pid, pc, call, hung>>

Tick ==
  /\ ~hung
  /\ pc \notin LockedPoints
  /\ table' = DispatchSignals(table, current)
  /\ slice' = (slice + 1) % Timeslice
  /\ IF slice' = 0 THEN Schedule(table') ELSE current' = current
  /\ UNCHANGED <<next_pid, pc, call, hung>>

-----------------------------------------------------------------------------
\* The boot flow makes a call ...
Begin ==
  \/ Fork
  \/ Execve
  \/ \E p \in Pids, sig \in Signals : Kill(p, sig)
  \/ \E code \in Codes : ExitMark(code)
  \/ \E target \in Pids \cup {AnyChild} : WaitCall(target)
  \/ GetppidLock
  \/ PsLock

\* ... or goes on with the one it is in.
Continue ==
  \/ ExitLock
  \/ ExitSchedule
  \/ WaitNoChild
  \/ WaitReap
  \/ Unlock

Next == Tick \/ TimerSpin \/ Begin \/ Continue

Spec == Init /\ [][Next]_vars

(* Fairness.  The timer keeps interrupting, wherever the flow is.  The hlt  *)
(* in waitpid's loop ends at every tick, so the loop looks at the table at  *)
(* least once for every CURRENT_PID that a tick leaves behind: strong       *)
(* fairness, because its two ways out depend on who is current.  No caller  *)
(* has to make a call.                                                      *)
Fairness == WF_vars(Tick \/ TimerSpin) /\ SF_vars(Continue)

FairSpec == Spec /\ Fairness

-----------------------------------------------------------------------------
(* Properties.                                                              *)

Entries ==
  [pid : Pids, parent_pid : Pids, state : States,
   exit_code : Int, pending : SUBSET Signals]

\* Every variable holds a value of its Rust type, and the table only values
\* that NEXT_PID has handed out.
TypeOK ==
  /\ table \in Seq(Entries)
  /\ next_pid \in 2 .. MaxPid + 1
  /\ current \in Pids
  /\ slice \in 0 .. Timeslice - 1
  /\ pc \in Points
  /\ call \in [caller : Pids, target : Pids \cup {AnyChild}]
  /\ hung \in BOOLEAN

\* No two entries share a pid: forks and reaps in any order keep the table
\* sorted by pid, below the counter, so `find(|p| p.pid == pid)` in every call
\* has one answer (until NEXT_PID wraps).
TableSorted ==
  /\ \A i, j \in DOMAIN table : i < j => table[i].pid < table[j].pid
  /\ \A i \in DOMAIN table : table[i].pid < next_pid

\* Above init the parent relation has no cycle, whatever fork, exit's
\* reparenting and reaping do: a parent is older than its child, so no two
\* processes can be waiting for each other in waitpid.
ParentOlder ==
  \A i \in DOMAIN table : table[i].pid > 1 => table[i].parent_pid < table[i].pid

\* CURRENT_PID names an entry of the table, except after the idle or the init
\* process, each of which can be its own parent, has reaped itself in waitpid.
CurrentInTable ==
  Has(table, current) \/ current \in {0, 1}

\* schedule() gives the CPU only to a process that may run, judged after the
\* signals of the same tick were delivered.
ScheduledIsRunnable ==
  [][current' # current =>
       \/ table' = << >> /\ current' = 0
       \/ Has(table', current') /\ Runnable(table'[Find(table', current')])]_vars

\* A zombie, current or not, stays one until waitpid removes it: nothing revives it.
\* Its exit code changes in two ways only, and only while it is still current: a tick
\* applies a terminating signal that was pending when it died, or exit() is called
\* once more on its behalf.
ZombieFrozen ==
  [][\A p \in Pids :
       /\ Has(table, p) /\ Entry(p).state = "Zombie"
       /\ Has(table', p)
       => LET e == table'[Find(table', p)]
          IN  /\ e.state = "Zombie"
              /\ \/ e.exit_code = Entry(p).exit_code
                 \/ p = current /\ Tick /\ Entry(p).pending \cap TermSignals # {}
                 \/ p = current /\ \E code \in Codes : ExitMark(code)]_vars

\* A terminating signal that kill() accepted for a live process is not lost: it stays
\* pending, whatever is forked, reaped or scheduled, until the process is a zombie.
\* The one exception is an execve on behalf of the process, which drops it.
SignalKept ==
  [][\A p \in Pids :
       Live(p) /\ Entry(p).pending \cap TermSignals # {} =>
         \/ p = current /\ Execve
         \/ /\ Has(table', p)
            /\ LET e == table'[Find(table', p)]
               IN  e.state = "Zombie" \/ Entry(p).pending \subseteq e.pending]_vars

-----------------------------------------------------------------------------
(* Liveness, under Fairness.  hung is the state TimerSpin leads to.         *)

\* Round robin starves nobody: a process that stays Ready or Running becomes
\* current, whatever forks, exits, reaps and signals happen meanwhile.
EveryoneScheduled ==
  \A p \in Pids :
    (Has(table, p) /\ Runnable(Entry(p))) ~>
      (current = p \/ ~Has(table, p) \/ ~Runnable(Entry(p)) \/ hung)

\* A terminating signal that kill() accepted for a live process ends it, unless an
\* execve on its behalf drops the signal first (no other step does: SignalKept).
SignalTerminates ==
  \A p \in Pids :
    (Live(p) /\ Entry(p).pending \cap TermSignals # {}) ~>
      (~Live(p) \/ Entry(p).pending \cap TermSignals = {} \/ hung)

\* A waitpid returns once a process that is scheduled again and again, that is one
\* which stays Ready or Running, has a zombie child that it asks for: the tick that
\* makes this process current is followed by a look at the table.
WaitReturns ==
  \A p \in Pids :
    (/\ pc = "wait"
     /\ Has(table, p) /\ Runnable(Entry(p))
     /\ \E i \in DOMAIN table : Reapable(table[i], p, call.target)) ~>
      (pc # "wait" \/ ~Has(table, p) \/ ~Runnable(Entry(p)) \/ hung)

=============================================================================
