--------------------------- MODULE ProcessClaims ---------------------------
(***************************************************************************)
(* What the comments of the process subsystem say, as properties of        *)
(* Process.  Each of them fails; the run that shows it is named after it.  *)
(***************************************************************************)
EXTENDS Process

\* "Exit the current process with the given exit code": from the moment exit()
\* has recorded the code, the entry of the exiting process keeps it.
ExitCodeKept ==
  [][LET p == call.caller
     IN  pc \in ExitPoints /\ Has(table, p) /\ Has(table', p)
         => table'[Find(table', p)].exit_code = Entry(p).exit_code]_vars

\* "Disable interrupts while holding the lock to avoid deadlock on the timer
\* handler": the timer handler never finds PROCESS_TABLE locked.
TimerNeverSpins == ~hung

\* "Wait for a child to exit": a step that ends a waitpid removes one zombie child of
\* the process that made the call, one it asked for, or finds that this process has
\* no such child, whatever was scheduled while it waited.
WaitAnswersCaller ==
  [][pc = "wait" /\ pc' # "wait" =>
       LET mine == {i \in DOMAIN table : ChildOf(table[i], call.caller, call.target)}
       IN  \/ mine = {} /\ table' = table
           \/ \E i \in mine : /\ table[i].state = "Zombie"
                              /\ table' = RemoveAt(table, i)]_vars

=============================================================================
