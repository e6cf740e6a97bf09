------------------------------- MODULE Shell -------------------------------
(***************************************************************************)
(* The kernel shell, kernel/src/shell.rs, on the VGA writer: prompt, read  *)
(* a line with its echo and its editing keys, execute it, again.           *)
(*                                                                         *)
(* Printing goes byte by byte from a queue of pending output; the shell    *)
(* goes on when the queue is empty, as _kprint returns when all is         *)
(* written.  Which command a line names is a choice; what a command prints *)
(* is one of Outputs.  Where keys come from is module Keyboard.            *)
(*                                                                         *)
(* ps holds the lock of the process table from its first line to its last, *)
(* with interrupts enabled between the lines: a timer interrupt then spins *)
(* for the lock with interrupts disabled, for ever (module Process).       *)
(***************************************************************************)
EXTENDS Vga

CONSTANTS
  MAX_CMD_LEN,
  Letters,        \* what the letter keys produce
  Banner,         \* what run() prints first
  Prompt,         \* what print_prompt prints
  Outputs,        \* what commands print, ps on one line
  MaxLines        \* bound: lines that ps prints

Keys == Letters \cup {"space", "enter", "backspace", "ctrl_c", "escape"}

ASSUME ShellAssumption ==
  /\ MAX_CMD_LEN \in Nat \ {0}
  /\ Letters \subseteq Printable
  /\ Letters # {}
  /\ Prompt \in Seq(Printable)
  /\ {"enter", "backspace", "escape"} \cap Printable = {}
  /\ Banner \in Seq(Printable \cup {Newline, "ctl"})
  /\ Outputs \subseteq Seq(Printable \cup {Newline, "ctl"})
  /\ MaxLines \in Nat \ {0}

VARIABLES
  mode,   \* where run() is: "prompt", "read", "execute", "ps", "halting", "halted",
          \* or "hung" under a timer interrupt that never ends
  out,    \* output not yet written
  buf,    \* the line buffer
  pos,    \* how much of it is used
  rows,   \* lines that ps has yet to print
  lost    \* history: a character of this line was erased in buf, not on screen

svars == <<writer, mode, out, buf, pos, rows, lost>>

NoChar == "NUL"
EmptyBuf == [i \in 0 .. MAX_CMD_LEN - 1 |-> NoChar]

Init ==
  /\ WriterInit
  /\ mode = "prompt"
  /\ out = Banner
  /\ buf = EmptyBuf
  /\ pos = 0
  /\ rows = 0
  /\ lost = FALSE

\* decode_scancode, as read_line tells its results apart: with HandleControl::Ignore
\* the control key changes nothing, and Ctrl+C is a letter.
Decode(k) ==
  CASE k = "space" -> Blank
    [] k = "ctrl_c" -> CHOOSE l \in Letters : TRUE
    [] OTHER -> k

\* _kprint, one byte of it.
Emit ==
  /\ out # << >>
  /\ writer' = WriteByte(writer, Shown(Head(out)))
  /\ out' = Tail(out)
  /\ UNCHANGED <<mode, buf, pos, rows, lost>>

\* print_prompt, and the fresh buffer read_line is given.
PrintPrompt ==
  /\ mode = "prompt" /\ out = << >>
  /\ out' = Prompt
  /\ mode' = "read"
  /\ buf' = EmptyBuf
  /\ pos' = 0
  /\ lost' = FALSE
  /\ UNCHANGED <<writer, rows>>

-----------------------------------------------------------------------------
(* read_line, one key: the arms of its match, and none of them.  The arm of *)
(* 0x03 is left out, as no key decodes to it.                               *)

\* Enter commits the line.
Commit ==
  /\ out' = << Newline >>
  /\ mode' = "execute"
  /\ UNCHANGED <<writer, buf, pos, lost>>

\* Mutant: the screen is not touched.
Erase_BufferOnly ==
  /\ pos' = pos - 1
  /\ buf' = [buf EXCEPT ![pos'] = NoChar]
  /\ lost' = (lost \/ writer.col = 0)
  /\ UNCHANGED <<writer, mode, out>>

\* Backspace or DEL, with something to erase.
Erase ==
  /\ pos' = pos - 1
  /\ buf' = [buf EXCEPT ![pos'] = NoChar]
  /\ writer' = Backspace(writer)
  /\ lost' = (lost \/ writer.col = 0)
  /\ UNCHANGED <<mode, out>>

Type(c) ==
  /\ buf' = [i \in DOMAIN buf \cup {pos} |-> IF i = pos THEN c ELSE buf[i]]
  /\ pos' = pos + 1
  /\ out' = << c >>
  /\ UNCHANGED <<writer, mode, lost>>

\* Mutant: the line may use every byte of the buffer and one more.
HasRoom_OffByOne == pos <= MAX_CMD_LEN

HasRoom == pos < MAX_CMD_LEN - 1

Ignore == UNCHANGED <<writer, mode, out, buf, pos, lost>>

ReadKey(k) ==
  /\ mode = "read" /\ out = << >>
  /\ LET c == Decode(k)
     IN  \/ c = "enter" /\ Commit
         \/ c = "backspace" /\ pos > 0 /\ Erase
         \/ c = "backspace" /\ pos = 0 /\ Ignore
         \/ c \in Printable /\ HasRoom /\ Type(c)
         \/ c \in Printable /\ ~HasRoom /\ Ignore
         \/ c = "escape" /\ Ignore
  /\ UNCHANGED rows

-----------------------------------------------------------------------------
\* trim() leaves nothing of the line.
IsBlank == \A i \in 0 .. pos - 1 : buf[i] = Blank

\* Mutant: an empty line is waited for again.
Execute_BlankAgain ==
  /\ mode = "execute" /\ out = << >> /\ ~IsBlank
  /\ mode' = "prompt"
  /\ writer' = Cleared(writer)
  /\ UNCHANGED <<out, buf, pos, rows, lost>>

(* execute: nothing for a blank line; else clear, ps, a command that prints *)
(* at once, or halt and reboot, which print and never return.               *)
Execute ==
  /\ mode = "execute" /\ out = << >>
  /\ \/ /\ IsBlank
        /\ mode' = "prompt"
        /\ UNCHANGED <<writer, out, rows>>
     \/ /\ ~IsBlank
        /\ mode' = "prompt"
        /\ writer' = Cleared(writer)
        /\ UNCHANGED <<out, rows>>
     \/ /\ ~IsBlank
        /\ mode' = "ps"
        /\ rows' \in 1 .. MaxLines
        /\ UNCHANGED <<writer, out>>
     \/ /\ ~IsBlank
        /\ \E o \in Outputs, m \in {"prompt", "halting"} :
             out' = Append(o, Newline) /\ mode' = m
        /\ UNCHANGED <<writer, rows>>
  /\ UNCHANGED <<buf, pos, lost>>

(* cmd_ps, with PROCESS_TABLE locked: the heading and a line per process.   *)
PsLine ==
  /\ mode = "ps" /\ out = << >> /\ rows > 0
  /\ \E o \in Outputs : out' = Append(o, Newline)
  /\ rows' = rows - 1
  /\ UNCHANGED <<writer, mode, buf, pos, lost>>

\* The lock is dropped at the end of cmd_ps.
PsDone ==
  /\ mode = "ps" /\ out = << >> /\ rows = 0
  /\ mode' = "prompt"
  /\ UNCHANGED <<writer, out, buf, pos, rows, lost>>

(* A timer interrupt while ps holds the lock; there is none inside _kprint. *)
TimerSpins ==
  /\ mode = "ps" /\ out = << >>
  /\ mode' = "hung"
  /\ UNCHANGED <<writer, out, buf, pos, rows, lost>>

Halt ==
  /\ mode = "halting" /\ out = << >>
  /\ mode' = "halted"
  /\ UNCHANGED <<writer, out, buf, pos, rows, lost>>

Progress == Emit \/ PrintPrompt \/ Execute \/ PsLine \/ PsDone \/ Halt

Next == Progress \/ TimerSpins \/ \E k \in Keys : ReadKey(k)

Spec == Init /\ [][Next]_svars

(* The shell runs in the main context: interrupts give it back the CPU, all *)
(* but the timer's that finds the process table locked.                     *)
FairSpec == Spec /\ WF_svars(Progress)

-----------------------------------------------------------------------------
(* Properties.                                                              *)

\* Nothing is written outside the line buffer, whatever is typed, and its last
\* byte and all bytes after the line stay zero.
LineInBuffer ==
  /\ DOMAIN buf = 0 .. MAX_CMD_LEN - 1
  /\ pos \in 0 .. MAX_CMD_LEN - 1
  /\ mode = "read" => \A i \in pos .. MAX_CMD_LEN - 1 : buf[i] = NoChar

\* The prompt and the line buffer, what read_line would return now.
Typed == Prompt \o [i \in 1 .. pos |-> buf[i - 1]]

\* While a line is read the screen shows the prompt and exactly the line buffer
\* up to the cursor, however often it wrapped or scrolled: the echo, the erasing
\* and the buffer agree, until a backspace in column 0 erases only the buffer.
LineOnScreen ==
  mode = "read" /\ out = << >> /\ ~lost =>
    LET cursor == Offset(writer.row, writer.col)
        n == Len(Typed)
    IN  \A i \in 1 .. n :
          cursor - i >= 0 => writer.cells[cursor - i] = Typed[n + 1 - i]

\* Enter is answered: the shell prompts again, unless the command stops it or a timer
\* interrupt during ps hangs the kernel.
ShellResponds == mode = "execute" ~> mode \in {"read", "halted", "hung"}

=============================================================================
