-------------------------- MODULE InterruptsProofs --------------------------
(***************************************************************************)
(* Proofs about Interrupts, for every set of lines and any number of       *)
(* exceptions: no call and no handler waits for a lock held below it,      *)
(* handlers see an initialised kernel, and each ends its own interrupt.    *)
(* The invariant, IntInv, says of each frame of the stack that what is     *)
(* left of its path can be run from the point the frame is at.             *)
(***************************************************************************)
EXTENDS InterruptPaths

-----------------------------------------------------------------------------
(* The frame that runs.                                                     *)

\* The top frame has a next operation that its path allows.
LEMMA TopMoves ==
  ASSUME NEW g, Holds(g, stack, intr, held, isr, ready, struck),
         NEW n, n = Len(stack), Top.todo # << >>
  PROVE  /\ n \in Nat /\ n > 0 /\ stack \in Seq(FrameSet)
         /\ Top = stack[n] /\ Top \in FrameSet /\ Fits(Top, g[n], intr)
         /\ \E u : /\ Moves(Kind(Top.line), g[n], Head(Top.todo), u)
                   /\ Finishes(Kind(Top.line), Tail(Top.todo), u)
<1>1. n \in Nat /\ n > 0 /\ stack \in Seq(FrameSet) /\ n \in 1 .. n
  BY DEF Holds, Frames
<1>2. Top = stack[n]
  BY DEF Top
<1>3. Fits(stack[n], g[n], intr)
  BY <1>1 DEF Holds, Frames, FlagOf
<1>4. PICK p, k : p = Top.todo /\ k = Kind(Top.line)
  OBVIOUS
<1>5. Finishes(k, p, g[n])
  BY <1>2, <1>3, <1>4 DEF Fits
<1>6. PICK t : Done(t) /\ Goes(k, p, g[n], t)
  BY <1>5 DEF Finishes
<1>7. PICK u : Moves(k, g[n], Head(p), u) /\ Goes(k, Tail(p), u, t)
  BY <1>4, <1>6, GoesFirst
<1>8. Finishes(k, Tail(p), u)
  BY <1>6, <1>7 DEF Finishes
<1> QED BY <1>1, <1>2, <1>3, <1>4, <1>7, <1>8 DEF Fits

\* What Does does to the stack.
LEMMA DoesIs ==
  ASSUME stack \in Seq(FrameSet), NEW n, n = Len(stack), n > 0, NEW o, NEW sv \in Seq(BOOLEAN),
         Does(o, sv)
  PROVE  \E f \in FrameSet :
           /\ Top.todo # << >> /\ Head(Top.todo).op = o
           /\ f.todo = Tail(Top.todo) /\ f.saved = sv
           /\ f.line = Top.line /\ f.flag = Top.flag
           /\ stack' \in Seq(FrameSet) /\ Len(stack') = n /\ stack'[n] = f
           /\ \A i \in 1 .. n - 1 : stack'[i] = stack[i]
<1>1. n \in Nat /\ n \in 1 .. n /\ Top = stack[n] /\ Top \in FrameSet
  BY ElementOfSeq DEF Top
<1>2. Top.todo # << >> /\ Head(Top.todo).op = o
  BY DEF Does
<1>3. PICK h : h = stack[n]
  OBVIOUS
<1>4. PICK f : f = [todo |-> Tail(h.todo), saved |-> sv, line |-> h.line, flag |-> h.flag]
  BY Zenon
<1>5. h \in FrameSet /\ h.todo \in Seq(Ops) /\ h.todo # << >>
  BY <1>1, <1>2, <1>3 DEF FrameSet
<1>6. Tail(h.todo) \in Seq(Ops)
  BY <1>5, HeadTailProperties
<1>7. f \in FrameSet
  BY <1>4, <1>5, <1>6 DEF FrameSet
<1>10. /\ [[h EXCEPT !.todo = Tail(h.todo)] EXCEPT !.saved = sv] = f
       /\ f.todo = Tail(h.todo) /\ f.saved = sv /\ f.line = h.line /\ f.flag = h.flag
  <2>1. h = [todo |-> h.todo, saved |-> h.saved, line |-> h.line, flag |-> h.flag]
    BY <1>5 DEF FrameSet
  <2>2. PICK x, a, b, c, d : x = Tail(h.todo) /\ a = h.todo /\ b = h.saved /\ c = h.line /\ d = h.flag
    BY Zenon
  <2>3. h = [todo |-> a, saved |-> b, line |-> c, flag |-> d]
    BY <2>1, <2>2, Zenon
  <2>4. PICK e : e = [h EXCEPT !.todo = x]
    BY Zenon
  <2>5. e = [todo |-> x, saved |-> b, line |-> c, flag |-> d]
    BY <2>3, <2>4
  <2>6. f = [todo |-> x, saved |-> sv, line |-> c, flag |-> d]
    BY <1>4, <2>2, Zenon
  <2>7. [e EXCEPT !.saved = sv] = f
    BY <2>5, <2>6
  <2>8. f.todo = x /\ f.saved = sv /\ f.line = c /\ f.flag = d
    BY <2>6
  <2> QED BY <2>2, <2>4, <2>7, <2>8
<1>8. stack' = [stack EXCEPT ![n] = f]
  <2>1. [[h EXCEPT !.todo = Tail(@)] EXCEPT !.saved = sv] = f
    BY <1>10
  <2>2. stack' = [[stack EXCEPT ![n].todo = Tail(@)] EXCEPT ![n].saved = sv]
    BY DEF Does
  <2> QED BY <1>1, <1>3, <2>1, <2>2, Zenon
<1>9. /\ stack' \in Seq(FrameSet) /\ Len(stack') = n /\ stack'[n] = f
      /\ \A i \in 1 .. n - 1 : stack'[i] = stack[i]
  BY <1>1, <1>7, <1>8, ExceptSeq
<1> QED BY <1>1, <1>2, <1>3, <1>7, <1>9, <1>10, Zenon

\* The top frame did o and is now f, at point u of its path.
Stepped(g, n, o, sv, u, f) ==
  /\ Moves(Kind(stack[n].line), g[n], Head(Top.todo), u) /\ Head(Top.todo).op = o
  /\ f \in FrameSet /\ f.saved = sv /\ f.line = stack[n].line /\ f.flag = stack[n].flag
  /\ Finishes(Kind(f.line), f.todo, u)
  /\ stack' \in Seq(FrameSet) /\ Len(stack') = n /\ stack'[n] = f
  /\ \A i \in 1 .. n - 1 : stack'[i] = stack[i]

\* What holds of the top frame.
LEMMA TopFits ==
  ASSUME NEW g, Holds(g, stack, intr, held, isr, ready, struck), NEW n, n = Len(stack)
  PROVE  /\ n \in Nat /\ n > 0 /\ stack \in Seq(FrameSet)
         /\ Top = stack[n] /\ Top \in FrameSet /\ Top.saved \in Seq(BOOLEAN)
         /\ Fits(stack[n], g[n], intr)
         /\ Kind(stack[n].line) = "main" => n = 1
         /\ intr \in BOOLEAN
<1>1. n \in Nat /\ n > 0 /\ stack \in Seq(FrameSet) /\ n \in 1 .. n
  BY DEF Holds, Frames
<1>2. Top = stack[n]
  BY DEF Top
<1>3. Fits(stack[n], g[n], intr)
  BY <1>1 DEF Holds, Frames, FlagOf
<1>4. stack[n] \in FrameSet /\ intr \in BOOLEAN
  BY <1>3 DEF Fits
<1>5. stack[n].saved \in Seq(BOOLEAN)
  BY <1>4 DEF FrameSet
<1>6. Kind(stack[n].line) = "main" => n = 1
  <2> SUFFICES ASSUME n # 1 PROVE Kind(stack[n].line) # "main"
    OBVIOUS
  <2>1. n \in 2 .. n
    BY <1>1
  <2>2. stack[n].line = Exception \/ stack[n].line >= 0
    BY <2>1 DEF Holds, Shape
  <2> QED BY <2>2 DEF Kind, NoLine, Exception
<1> QED BY <1>1, <1>2, <1>3, <1>4, <1>5, <1>6

\* Does takes the top frame one operation on.
LEMMA Steps ==
  ASSUME NEW g, Holds(g, stack, intr, held, isr, ready, struck), NEW n, n = Len(stack),
         NEW o, NEW sv \in Seq(BOOLEAN), Does(o, sv)
  PROVE  \E u, f : Stepped(g, n, o, sv, u, f)
<1>1. n \in Nat /\ n > 0 /\ stack \in Seq(FrameSet) /\ Top = stack[n]
  BY TopFits
<1>2. PICK f \in FrameSet :
        /\ Top.todo # << >> /\ Head(Top.todo).op = o
        /\ f.todo = Tail(Top.todo) /\ f.saved = sv
        /\ f.line = Top.line /\ f.flag = Top.flag
        /\ stack' \in Seq(FrameSet) /\ Len(stack') = n /\ stack'[n] = f
        /\ \A i \in 1 .. n - 1 : stack'[i] = stack[i]
  BY <1>1, DoesIs
<1>3. PICK u : /\ Moves(Kind(Top.line), g[n], Head(Top.todo), u)
               /\ Finishes(Kind(Top.line), Tail(Top.todo), u)
  BY <1>2, TopMoves
<1>4. Finishes(Kind(f.line), f.todo, u)
  BY <1>2, <1>3
<1>5. Stepped(g, n, o, sv, u, f)
  BY <1>1, <1>2, <1>3, <1>4, Zenon DEF Stepped
<1> QED BY <1>5

\* It still fits when it saves the same flags.
LEMMA SameFits ==
  ASSUME NEW g, Holds(g, stack, intr, held, isr, ready, struck), NEW n, n = Len(stack),
         NEW o, NEW u, NEW f, Stepped(g, n, o, Top.saved, u, f),
         u.n = g[n].n, "sti" \in g[n].m => "sti" \in u.m,
         NEW fl \in BOOLEAN, fl = TRUE => "sti" \in u.m /\ u.n = 0
  PROVE  Fits(f, u, fl)
<1>1. Fits(stack[n], g[n], intr) /\ Top = stack[n]
  BY TopFits, SMTT(30)
<1>2. u \in Points /\ Open(u)
  BY DEF Stepped, Moves
<1>3. PICK w : w = stack[n].saved
  OBVIOUS
<1>4. f.saved = w /\ f \in FrameSet /\ Finishes(Kind(f.line), f.todo, u)
  BY <1>1, <1>3, Zenon DEF Stepped
<1>5. /\ Len(w) = g[n].n
      /\ \A j \in 1 .. Len(w) : w[j] = TRUE => j = 1 /\ "sti" \in g[n].m
  BY <1>1, <1>3 DEF Fits
<1>6. /\ Len(f.saved) = u.n
      /\ \A j \in 1 .. Len(f.saved) : f.saved[j] = TRUE => j = 1 /\ "sti" \in u.m
  BY <1>4, <1>5
<1> QED BY <1>2, <1>4, <1>6 DEF Fits

\* What the top frame knows and holds.
LEMMA TopKnows ==
  ASSUME NEW g, Holds(g, stack, intr, held, isr, ready, struck), NEW n, n = Len(stack)
  PROVE  /\ g[n] \in Points /\ g[n].m \cap Announced \subseteq ready /\ g[n].h \subseteq held
         /\ "sti" \in g[n].m => Parts \subseteq ready /\ n = 1
<1>1. n \in Nat /\ n > 0 /\ n \in 1 .. n /\ Fits(stack[n], g[n], intr)
  BY TopFits
<1>2. g[n] \in Points
  BY <1>1 DEF Fits
<1>3. g[n].m \cap Announced \subseteq ready /\ ("sti" \in g[n].m => Parts \subseteq ready)
  BY <1>1 DEF Holds, Informed
<1>4. g[n].h \subseteq held
  BY <1>1 DEF Holds, Owned
<1>5. "sti" \in g[n].m => n = 1
  <2> SUFFICES ASSUME n # 1 PROVE "sti" \notin g[n].m
    OBVIOUS
  <2>1. n \in 2 .. n
    BY <1>1
  <2> QED BY <2>1 DEF Holds, Shape
<1> QED BY <1>2, <1>3, <1>4, <1>5

\* The step of the top frame, as Replace wants it.
LEMMA StepStands ==
  ASSUME NEW g, Holds(g, stack, intr, held, isr, ready, struck), NEW n, n = Len(stack),
         NEW o, NEW sv, NEW u, NEW f, Stepped(g, n, o, sv, u, f),
         NEW fm, Fits(f, u, fm),
         NEW hm, NEW im, NEW rm,
         Changes(n, g[n], u, held, isr, ready, hm, im, rm)
  PROVE  Stands(stack', fm, hm, im, rm, struck)
<1>1. PICK sm : sm = stack'
  OBVIOUS
<1>2. SetsTop(stack, n, f, sm)
  BY <1>1, Zenon DEF Stepped, SetsTop
<1>3. Stands(sm, fm, hm, im, rm, struck)
  BY <1>2, Replace
<1> QED BY <1>1, <1>3

\* A step that takes no lock and announces nothing.
LEMMA QuietStep ==
  ASSUME NEW g, Holds(g, stack, intr, held, isr, ready, struck), NEW n, n = Len(stack),
         NEW o, NEW sv, NEW u, NEW f, Stepped(g, n, o, sv, u, f),
         NEW fm, Fits(f, u, fm), u.h = g[n].h, u.m = g[n].m
  PROVE  Stands(stack', fm, held, isr, ready, struck)
<1>1. /\ g[n].m \cap Announced \subseteq ready /\ g[n].h \subseteq held
      /\ "sti" \in g[n].m => Parts \subseteq ready /\ n = 1
  BY TopKnows
<1>2. Changes(n, g[n], u, held, isr, ready, held, isr, ready)
  BY <1>1 DEF Changes
<1> QED BY <1>2, StepStands

-----------------------------------------------------------------------------
(* One lemma for each action.                                               *)

\* without_interrupts is entered: the outermost section alone can find the flag set.
LEMMA CliStands ==
  ASSUME NEW g, Holds(g, stack, intr, held, isr, ready, struck), Cli
  PROVE  IntInv'
<1>1. PICK n : n = Len(stack)
  BY Zenon
<1>2. /\ Top = stack[n] /\ Top.saved \in Seq(BOOLEAN) /\ intr \in BOOLEAN
      /\ Fits(stack[n], g[n], intr)
      /\ Kind(stack[n].line) = "main" => n = 1
  BY <1>1, TopFits
<1>3. /\ g[n] \in Points /\ g[n].m \cap Announced \subseteq ready /\ g[n].h \subseteq held
      /\ "sti" \in g[n].m => Parts \subseteq ready /\ n = 1
  BY <1>1, TopKnows
<1>4. PICK w : w = Append(Top.saved, intr)
  BY Zenon
<1>5. w \in Seq(BOOLEAN)
  BY <1>2, <1>4
<1>6. PICK u, f : Stepped(g, n, "cli", w, u, f)
  BY <1>1, <1>4, <1>5, Steps, Zenon DEF Cli
<1>7. PICK k, a : k = Kind(stack[n].line) /\ a = Head(Top.todo)
  OBVIOUS
<1>8. Moves(k, g[n], a, u) /\ a.op = "cli"
  BY <1>6, <1>7, Zenon DEF Stepped
<1>9. u \in Points /\ Open(u) /\ u.n = g[n].n + 1 /\ u.h = g[n].h /\ u.m = g[n].m
  BY <1>8, CliMove
<1>10. PICK v : v = Top.saved
  OBVIOUS
<1>11. /\ v \in Seq(BOOLEAN) /\ Len(v) = g[n].n
       /\ \A j \in 1 .. Len(v) : v[j] = TRUE => j = 1 /\ "sti" \in g[n].m
       /\ intr = TRUE => "sti" \in g[n].m /\ g[n].n = 0
  BY <1>2, <1>10, Zenon DEF Fits
<1>12. /\ Len(w) = Len(v) + 1 /\ w[Len(v) + 1] = intr
       /\ \A j \in 1 .. Len(v) : w[j] = v[j]
  BY <1>2, <1>4, <1>10, <1>11, AppendProperties
<1>13. ASSUME NEW j \in 1 .. Len(w), w[j] = TRUE PROVE j = 1 /\ "sti" \in u.m
  <2>1. CASE j \in 1 .. Len(v)
    BY <1>9, <1>11, <1>12, <1>13, <2>1
  <2>2. CASE j = Len(v) + 1
    BY <1>9, <1>11, <1>12, <1>13, <2>2
  <2> QED BY <1>11, <1>12, <2>1, <2>2
<1>14. Fits(f, u, FALSE)
  <2>1. f.saved = w /\ f \in FrameSet /\ Finishes(Kind(f.line), f.todo, u)
    BY <1>6 DEF Stepped
  <2>2. Len(w) = u.n
    BY <1>9, <1>11, <1>12
  <2> QED BY <1>8, <1>9, <1>13, <2>1, <2>2, Zenon DEF Fits
<1>15. Stands(stack', FALSE, held, isr, ready, struck)
  BY <1>1, <1>6, <1>9, <1>14, QuietStep, Zenon
<1> QED BY <1>15, Zenon DEF IntInv, Cli

\* It is left, and gives back what it found.
LEMMA RestoreStands ==
  ASSUME NEW g, Holds(g, stack, intr, held, isr, ready, struck), Restore
  PROVE  IntInv'
<1>1. PICK n : n = Len(stack)
  BY Zenon
<1>2. /\ Top = stack[n] /\ Top.saved \in Seq(BOOLEAN) /\ intr \in BOOLEAN
      /\ Fits(stack[n], g[n], intr)
      /\ Kind(stack[n].line) = "main" => n = 1
  BY <1>1, TopFits
<1>3. /\ g[n] \in Points /\ g[n].m \cap Announced \subseteq ready /\ g[n].h \subseteq held
      /\ "sti" \in g[n].m => Parts \subseteq ready /\ n = 1
  BY <1>1, TopKnows
<1>4. PICK v, x : v = Top.saved /\ x = Len(v)
  BY Zenon
<1>5. /\ v \in Seq(BOOLEAN) /\ x = g[n].n /\ x \in Nat
      /\ \A j \in 1 .. x : v[j] = TRUE => j = 1 /\ "sti" \in g[n].m
  BY <1>2, <1>4 DEF Fits
<1>6. PICK w : w = SubSeq(v, 1, x - 1)
  BY Zenon
<1>7. Does("restore", w) /\ intr' = v[x]
  BY <1>4, <1>6 DEF Restore
<1>8. /\ w \in Seq(BOOLEAN)
      /\ x > 0 => Len(w) = x - 1 /\ \A j \in 1 .. x - 1 : w[j] = v[j]
  <2>1. PICK y, B : y = x - 1 /\ B = BOOLEAN
    OBVIOUS
  <2>2. y \in Int /\ \A i \in 1 .. y : v[i] \in B
    <3> SUFFICES ASSUME NEW i \in 1 .. y PROVE v[i] \in B
      BY <1>5, <2>1
    <3>1. i \in 1 .. Len(v) /\ v \in Seq(B)
      BY <1>4, <1>5, <2>1
    <3> QED BY <3>1, ElementOfSeq
  <2>3. /\ w \in Seq(B)
        /\ Len(w) = IF 1 <= y THEN y - 1 + 1 ELSE 0
        /\ \A i \in 1 .. y - 1 + 1 : w[i] = v[1 + i - 1]
    BY <1>6, <2>1, <2>2, SubSeqProperties
  <2>4. y - 1 + 1 = y /\ \A j \in 1 .. y : 1 + j - 1 = j
    BY <2>2
  <2>5. \A j \in 1 .. y : w[j] = v[j]
    BY <2>3, <2>4
  <2>6. x > 0 => Len(w) = y
    BY <1>5, <2>1, <2>3
  <2> QED BY <2>1, <2>3, <2>5, <2>6
<1>9. PICK u, f : Stepped(g, n, "restore", w, u, f)
  BY <1>1, <1>7, <1>8, Steps
<1>10. PICK k, a : k = Kind(stack[n].line) /\ a = Head(Top.todo)
  OBVIOUS
<1>11. Moves(k, g[n], a, u) /\ a.op = "restore"
  BY <1>9, <1>10, Zenon DEF Stepped
<1>12. u \in Points /\ Open(u) /\ x > 0 /\ u.n = x - 1 /\ u.h = g[n].h /\ u.m = g[n].m
  <2>1. u \in Points /\ Open(u) /\ g[n].n > 0 /\ u.n = g[n].n - 1 /\ u.h = g[n].h /\ u.m = g[n].m
    BY <1>11, RestoreMove
  <2> QED BY <1>5, <2>1, Zenon
<1>13. PICK b : b = v[x]
  OBVIOUS
<1>14. b \in BOOLEAN /\ (b = TRUE => x = 1 /\ "sti" \in g[n].m)
  <2>1. x \in 1 .. x
    BY <1>5, <1>12
  <2>2. v[x] \in BOOLEAN
    BY <1>4, <1>5, <2>1, ElementOfSeq, Zenon
  <2>3. v[x] = TRUE => x = 1 /\ "sti" \in g[n].m
    BY <1>5, <2>1
  <2> QED BY <1>13, <2>2, <2>3
<1>15. \A j \in 1 .. Len(w) : w[j] = TRUE => j = 1 /\ "sti" \in u.m
  BY <1>5, <1>8, <1>12, SMTT(30)
<1>16. Fits(f, u, b)
  <2>1. f.saved = w /\ f \in FrameSet /\ Finishes(Kind(f.line), f.todo, u)
    BY <1>9 DEF Stepped
  <2>2. Len(w) = u.n
    BY <1>8, <1>12
  <2>3. b = TRUE => "sti" \in u.m /\ u.n = 0
    BY <1>12, <1>14
  <2> QED BY <1>11, <1>12, <1>14, <1>15, <2>1, <2>2, <2>3 DEF Fits
<1>17. Stands(stack', b, held, isr, ready, struck)
  BY <1>1, <1>9, <1>12, <1>16, QuietStep
<1>18. intr' = b /\ UNCHANGED <<held, isr, ready, struck>>
  BY <1>7, <1>13 DEF Restore
<1> QED BY <1>17, <1>18 DEF IntInv

\* A lock is taken.
LEMMA LockStands ==
  ASSUME NEW g, Holds(g, stack, intr, held, isr, ready, struck), Lock
  PROVE  IntInv'
<1>1. PICK n : n = Len(stack)
  BY Zenon
<1>2. /\ Top = stack[n] /\ Top.saved \in Seq(BOOLEAN) /\ intr \in BOOLEAN
      /\ Fits(stack[n], g[n], intr)
      /\ Kind(stack[n].line) = "main" => n = 1
  BY <1>1, TopFits
<1>3. /\ g[n] \in Points /\ g[n].m \cap Announced \subseteq ready /\ g[n].h \subseteq held
      /\ "sti" \in g[n].m => Parts \subseteq ready /\ n = 1
  BY <1>1, TopKnows
<1>4. PICK u, f : Stepped(g, n, "lock", Top.saved, u, f)
  BY <1>1, <1>2, Steps DEF Lock
<1>5. PICK k, a : k = Kind(stack[n].line) /\ a = Head(Top.todo)
  OBVIOUS
<1>6. Moves(k, g[n], a, u) /\ a.op = "lock" /\ a.arg = Arg
  BY <1>4, <1>5 DEF Stepped, Arg
<1>7. u.n = g[n].n /\ u.h = g[n].h \cup {Arg} /\ u.m = g[n].m
  BY <1>6, LockMove
<1>8. Fits(f, u, intr)
  <2>1. intr = TRUE => "sti" \in u.m /\ u.n = 0
    BY <1>2, <1>7 DEF Fits
  <2>2. u.n = g[n].n /\ ("sti" \in g[n].m => "sti" \in u.m)
    BY <1>7
  <2> QED BY <1>1, <1>2, <1>4, <2>1, <2>2, SameFits, Zenon
<1>9. Arg \notin held /\ held' = held \cup {Arg}
  BY DEF Lock
<1>10. PICK hm : hm = held \cup {Arg}
  BY Zenon
<1>11. Changes(n, g[n], u, held, isr, ready, hm, isr, ready)
  BY <1>3, <1>7, <1>9, <1>10 DEF Changes
<1>12. Stands(stack', intr, hm, isr, ready, struck)
  BY <1>1, <1>4, <1>8, <1>11, StepStands
<1>13. held' = hm /\ UNCHANGED <<intr, isr, ready, struck>>
  BY <1>9, <1>10 DEF Lock
<1> QED BY <1>12, <1>13 DEF IntInv

\* A lock is released.
LEMMA UnlockStands ==
  ASSUME NEW g, Holds(g, stack, intr, held, isr, ready, struck), Unlock
  PROVE  IntInv'
<1>1. PICK n : n = Len(stack)
  BY Zenon
<1>2. /\ Top = stack[n] /\ Top.saved \in Seq(BOOLEAN) /\ intr \in BOOLEAN
      /\ Fits(stack[n], g[n], intr)
      /\ Kind(stack[n].line) = "main" => n = 1
  BY <1>1, TopFits
<1>3. /\ g[n] \in Points /\ g[n].m \cap Announced \subseteq ready /\ g[n].h \subseteq held
      /\ "sti" \in g[n].m => Parts \subseteq ready /\ n = 1
  BY <1>1, TopKnows
<1>4. PICK u, f : Stepped(g, n, "unlock", Top.saved, u, f)
  BY <1>1, <1>2, Steps DEF Unlock
<1>5. PICK k, a : k = Kind(stack[n].line) /\ a = Head(Top.todo)
  OBVIOUS
<1>6. Moves(k, g[n], a, u) /\ a.op = "unlock" /\ a.arg = Arg
  BY <1>4, <1>5 DEF Stepped, Arg
<1>7. Arg \in g[n].h /\ u.n = g[n].n /\ u.h = g[n].h \ {Arg} /\ u.m = g[n].m
  BY <1>6, UnlockMove
<1>8. Fits(f, u, intr)
  <2>1. intr = TRUE => "sti" \in u.m /\ u.n = 0
    BY <1>2, <1>7 DEF Fits
  <2>2. u.n = g[n].n /\ ("sti" \in g[n].m => "sti" \in u.m)
    BY <1>7
  <2> QED BY <1>1, <1>2, <1>4, <2>1, <2>2, SameFits, Zenon
<1>10. PICK hm : hm = held \ {Arg}
  BY Zenon
<1>11. Changes(n, g[n], u, held, isr, ready, hm, isr, ready)
  BY <1>3, <1>7, <1>10 DEF Changes
<1>12. Stands(stack', intr, hm, isr, ready, struck)
  BY <1>1, <1>4, <1>8, <1>11, StepStands
<1>13. held' = hm /\ UNCHANGED <<intr, isr, ready, struck>>
  BY <1>10 DEF Unlock
<1> QED BY <1>12, <1>13 DEF IntInv

\* kernel_main enables interrupts once every part is announced.
LEMMA StiStands ==
  ASSUME NEW g, Holds(g, stack, intr, held, isr, ready, struck), 
         Does("sti", Top.saved), intr' = TRUE, UNCHANGED <<held, isr, ready, struck>>
  PROVE  IntInv'
<1>1. PICK n : n = Len(stack)
  BY Zenon
<1>2. /\ Top = stack[n] /\ Top.saved \in Seq(BOOLEAN) /\ intr \in BOOLEAN
      /\ Fits(stack[n], g[n], intr)
      /\ Kind(stack[n].line) = "main" => n = 1
  BY <1>1, TopFits
<1>3. /\ g[n] \in Points /\ g[n].m \cap Announced \subseteq ready /\ g[n].h \subseteq held
      /\ "sti" \in g[n].m => Parts \subseteq ready /\ n = 1
  BY <1>1, TopKnows
<1>4. PICK u, f : Stepped(g, n, "sti", Top.saved, u, f)
  BY <1>1, <1>2, Steps
<1>5. PICK k, a : k = Kind(stack[n].line) /\ a = Head(Top.todo)
  OBVIOUS
<1>6. Moves(k, g[n], a, u) /\ a.op = "sti" /\ a.arg = Arg
  BY <1>4, <1>5, Zenon DEF Stepped, Arg
<1>7. /\ k = "main" /\ g[n].n = 0 /\ Parts \subseteq g[n].m
      /\ u.n = 0 /\ u.h = g[n].h /\ u.m = g[n].m \cup {"sti"}
  BY <1>6, StiMove
<1>8. Fits(f, u, TRUE)
  <2>1. u.n = g[n].n /\ "sti" \in u.m
    BY <1>7
  <2> QED BY <1>1, <1>4, <1>7, <2>1, SameFits, Zenon
<1>9. Changes(n, g[n], u, held, isr, ready, held, isr, ready)
  <2>1. n = 1
    BY <1>2, <1>5, <1>7
  <2>2. Parts \subseteq ready /\ u.m \cap Announced \subseteq ready
    BY <1>3, <1>7 DEF Announced, Parts
  <2> QED BY <1>3, <1>7, <2>1, <2>2 DEF Changes
<1>10. Stands(stack', TRUE, held, isr, ready, struck)
  BY <1>1, <1>4, <1>8, <1>9, StepStands, Zenon
<1> QED BY <1>10, Zenon DEF IntInv

\* panic disables them.
LEMMA OffStands ==
  ASSUME NEW g, Holds(g, stack, intr, held, isr, ready, struck), 
         Does("off", Top.saved), intr' = FALSE, UNCHANGED <<held, isr, ready, struck>>
  PROVE  IntInv'
<1>1. PICK n : n = Len(stack)
  BY Zenon
<1>2. /\ Top = stack[n] /\ Top.saved \in Seq(BOOLEAN) /\ intr \in BOOLEAN
      /\ Fits(stack[n], g[n], intr)
      /\ Kind(stack[n].line) = "main" => n = 1
  BY <1>1, TopFits
<1>3. /\ g[n] \in Points /\ g[n].m \cap Announced \subseteq ready /\ g[n].h \subseteq held
      /\ "sti" \in g[n].m => Parts \subseteq ready /\ n = 1
  BY <1>1, TopKnows
<1>4. PICK u, f : Stepped(g, n, "off", Top.saved, u, f)
  BY <1>1, <1>2, Steps
<1>5. PICK k, a : k = Kind(stack[n].line) /\ a = Head(Top.todo)
  OBVIOUS
<1>6. Moves(k, g[n], a, u) /\ a.op = "off" /\ a.arg = Arg
  BY <1>4, <1>5, Zenon DEF Stepped, Arg
<1>7. u.n = g[n].n /\ u.h = g[n].h /\ u.m = g[n].m
  BY <1>6, StayMove
<1>8. Fits(f, u, FALSE)
  <2>2. u.n = g[n].n /\ ("sti" \in g[n].m => "sti" \in u.m)
    BY <1>7
  <2> QED BY <1>1, <1>2, <1>4, <2>2, SameFits, Zenon
<1>9. Stands(stack', FALSE, held, isr, ready, struck)
  BY <1>1, <1>4, <1>7, <1>8, QuietStep, Zenon
<1> QED BY <1>9, Zenon DEF IntInv

\* The end of the interrupt in service: there is only one.
LEMMA EoiStands ==
  ASSUME NEW g, Holds(g, stack, intr, held, isr, ready, struck), Eoi
  PROVE  IntInv'
<1>1. PICK n : n = Len(stack)
  BY Zenon
<1>2. /\ Top = stack[n] /\ Top.saved \in Seq(BOOLEAN) /\ intr \in BOOLEAN
      /\ Fits(stack[n], g[n], intr)
      /\ Kind(stack[n].line) = "main" => n = 1
  BY <1>1, TopFits
<1>3. /\ g[n] \in Points /\ g[n].m \cap Announced \subseteq ready /\ g[n].h \subseteq held
      /\ "sti" \in g[n].m => Parts \subseteq ready /\ n = 1
  BY <1>1, TopKnows
<1>4. PICK u, f : Stepped(g, n, "eoi", Top.saved, u, f)
  BY <1>1, <1>2, Steps DEF Eoi
<1>5. PICK k, a : k = Kind(stack[n].line) /\ a = Head(Top.todo)
  OBVIOUS
<1>6. Moves(k, g[n], a, u) /\ a.op = "eoi" /\ a.arg = Arg
  BY <1>4, <1>5 DEF Stepped, Arg
<1>7. u.n = g[n].n /\ u.h = g[n].h /\ u.m = g[n].m \ {"eoi"}
  BY <1>6, EoiMove
<1>8. Fits(f, u, intr)
  <2>1. intr = TRUE => "sti" \in u.m /\ u.n = 0
    BY <1>2, <1>7 DEF Fits
  <2>2. u.n = g[n].n /\ ("sti" \in g[n].m => "sti" \in u.m)
    BY <1>7
  <2> QED BY <1>1, <1>2, <1>4, <2>1, <2>2, SameFits, ZenonT(40)
<1>9. isr' = {}
  <2>1. \A x \in isr : stack[2].line = x /\ x >= 0
    BY DEF Holds, Serving
  <2>2. PICK y : y = stack[2].line
    OBVIOUS
  <2>3. \A x \in isr : x = y /\ y >= 0
    BY <2>1, <2>2
  <2>4. isr' = {s \in isr : \E l \in isr : l < s}
    BY DEF Eoi
  <2>5. isr # {} => y \in Int
    <3>1. stack \in Seq(FrameSet) /\ (isr # {} => Len(stack) >= 2)
      BY DEF Holds, Serving, Frames
    <3>2. isr # {} => stack[2] \in FrameSet
      BY <3>1, ElementOfSeq
    <3> QED BY <2>2, <3>2 DEF FrameSet
  <2>6. ASSUME NEW s \in isr, NEW l \in isr, l < s PROVE FALSE
    BY <2>3, <2>5, <2>6
  <2> QED BY <2>4, <2>6
<1>10. Changes(n, g[n], u, held, isr, ready, held, {}, ready)
  BY <1>3, <1>7 DEF Changes
<1>11. Stands(stack', intr, held, {}, ready, struck)
  BY <1>1, <1>4, <1>8, <1>10, StepStands
<1>12. UNCHANGED <<intr, held, ready, struck>>
  BY DEF Eoi
<1> QED BY <1>9, <1>11, <1>12 DEF IntInv

\* A part is announced.
LEMMA ReadyStands ==
  ASSUME NEW g, Holds(g, stack, intr, held, isr, ready, struck), Ready
  PROVE  IntInv'
<1>1. PICK n : n = Len(stack)
  BY Zenon
<1>2. /\ Top = stack[n] /\ Top.saved \in Seq(BOOLEAN) /\ intr \in BOOLEAN
      /\ Fits(stack[n], g[n], intr)
      /\ Kind(stack[n].line) = "main" => n = 1
  BY <1>1, TopFits
<1>3. /\ g[n] \in Points /\ g[n].m \cap Announced \subseteq ready /\ g[n].h \subseteq held
      /\ "sti" \in g[n].m => Parts \subseteq ready /\ n = 1
  BY <1>1, TopKnows
<1>4. PICK u, f : Stepped(g, n, "ready", Top.saved, u, f)
  BY <1>1, <1>2, Steps DEF Ready
<1>5. PICK k, a : k = Kind(stack[n].line) /\ a = Head(Top.todo)
  OBVIOUS
<1>6. Moves(k, g[n], a, u) /\ a.op = "ready" /\ a.arg = Arg
  BY <1>4, <1>5 DEF Stepped, Arg
<1>7. /\ Arg \in Announced /\ u.n = g[n].n /\ u.h = g[n].h /\ u.m = g[n].m \cup {Arg}
  BY <1>6, ReadyMove
<1>8. Fits(f, u, intr)
  <2>1. intr = TRUE => "sti" \in u.m /\ u.n = 0
    BY <1>2, <1>7, Zenon DEF Fits
  <2>2. u.n = g[n].n /\ ("sti" \in g[n].m => "sti" \in u.m)
    BY <1>7
  <2> QED BY <1>1, <1>2, <1>4, <2>1, <2>2, SameFits, Zenon
<1>9. PICK rm : rm = ready \cup {Arg}
  BY Zenon
<1>10. Changes(n, g[n], u, held, isr, ready, held, isr, rm)
  <2>1. Arg # "sti"
    BY <1>7, Zenon DEF Announced, Parts
  <2>2. "sti" \in u.m => "sti" \in g[n].m
    BY <1>7, <2>1, Zenon
  <2>3. "sti" \in u.m => ("sti" \in g[n].m \/ n = 1) /\ Parts \subseteq rm
    BY <1>3, <1>9, <2>2
  <2>4. u.m \cap Announced \subseteq rm /\ ready \subseteq rm
    BY <1>3, <1>7, <1>9
  <2> QED BY <1>3, <1>7, <2>3, <2>4, Zenon DEF Changes
<1>11. Stands(stack', intr, held, isr, rm, struck)
  BY <1>1, <1>4, <1>8, <1>10, StepStands
<1>12. ready' = rm /\ UNCHANGED <<intr, held, isr, struck>>
  BY <1>9 DEF Ready
<1> QED BY <1>11, <1>12 DEF IntInv

\* An allocation that succeeds.
LEMMA GoesWellStands ==
  ASSUME NEW g, Holds(g, stack, intr, held, isr, ready, struck), GoesWell
  PROVE  IntInv'
<1>1. PICK n : n = Len(stack)
  BY Zenon
<1>2. /\ Top = stack[n] /\ Top.saved \in Seq(BOOLEAN) /\ intr \in BOOLEAN
      /\ Fits(stack[n], g[n], intr)
      /\ Kind(stack[n].line) = "main" => n = 1
  BY <1>1, TopFits
<1>3. /\ g[n] \in Points /\ g[n].m \cap Announced \subseteq ready /\ g[n].h \subseteq held
      /\ "sti" \in g[n].m => Parts \subseteq ready /\ n = 1
  BY <1>1, TopKnows
<1>4. PICK u, f : Stepped(g, n, "may_panic", Top.saved, u, f)
  BY <1>1, <1>2, Steps DEF GoesWell
<1>5. PICK k, a : k = Kind(stack[n].line) /\ a = Head(Top.todo)
  OBVIOUS
<1>6. Moves(k, g[n], a, u) /\ a.op = "may_panic" /\ a.arg = Arg
  BY <1>4, <1>5 DEF Stepped, Arg
<1>7. u.n = g[n].n /\ u.h = g[n].h /\ u.m = g[n].m
  BY <1>6, StayMove
<1>8. Fits(f, u, intr)
  <2>1. intr = TRUE => "sti" \in u.m /\ u.n = 0
    BY <1>2, <1>7 DEF Fits
  <2>2. u.n = g[n].n /\ ("sti" \in g[n].m => "sti" \in u.m)
    BY <1>7
  <2> QED BY <1>1, <1>2, <1>4, <2>1, <2>2, SameFits, ZenonT(40)
<1>9. Stands(stack', intr, held, isr, ready, struck)
  BY <1>1, <1>4, <1>7, <1>8, QuietStep
<1> QED BY <1>9 DEF IntInv, GoesWell

\* SetFlag is the one or the other.
LEMMA SetFlagStands ==
  ASSUME NEW g, Holds(g, stack, intr, held, isr, ready, struck), SetFlag
  PROVE  IntInv'
<1>1. \/ Does("sti", Top.saved) /\ intr' = TRUE
      \/ Does("off", Top.saved) /\ intr' = FALSE
  <2>1. PICK o \in {"sti", "off"} : Does(o, Top.saved) /\ intr' = (o = "sti")
    BY DEF SetFlag
  <2>2. CASE o = "sti"
    BY <2>1, <2>2, Zenon
  <2>3. CASE o = "off"
    BY <2>1, <2>3, Zenon
  <2> QED BY <2>1, <2>2, <2>3, Zenon
<1>2. UNCHANGED <<held, isr, ready, struck>>
  BY DEF SetFlag
<1> QED BY <1>1, <1>2, StiStands, OffStands, Zenon

\* A path that finishes is a path.
LEMMA FinishesPath ==
  ASSUME NEW k, NEW p, NEW s, Finishes(k, p, s)
  PROVE  p \in Seq(Ops) /\ s \in Points
BY GoesFirst DEF Finishes

\* The panic handler takes the place of the rest.
LEMMA PanicsStands ==
  ASSUME NEW g, Holds(g, stack, intr, held, isr, ready, struck), Panics
  PROVE  IntInv'
<1>1. PICK n : n = Len(stack)
  BY Zenon
<1>2. /\ n \in Nat /\ n > 0 /\ stack \in Seq(FrameSet)
      /\ Top = stack[n] /\ Top \in FrameSet /\ Fits(stack[n], g[n], intr)
  BY <1>1, TopFits
<1>3. /\ g[n] \in Points /\ g[n].m \cap Announced \subseteq ready /\ g[n].h \subseteq held
      /\ "sti" \in g[n].m => Parts \subseteq ready /\ n = 1
  BY <1>1, TopKnows
<1>4. PICK h, k, p : h = stack[n] /\ k = Kind(h.line) /\ p = Panic
  OBVIOUS
<1>5. PICK u : Moves(k, g[n], Head(Top.todo), u)
  BY <1>1, <1>2, <1>4, TopMoves DEF Panics
<1>6. k = "main" /\ g[n].h \cap Printing = {}
  BY <1>5, StayMove DEF Panics
<1>7. Open(g[n])
  BY <1>2 DEF Fits
<1>8. Finishes(k, p, g[n])
  <2>1. k \in {"main", "exc"}
    BY <1>6
  <2> QED BY <1>3, <1>4, <1>6, <1>7, <2>1, PanicFinishes
<1>9. p \in Seq(Ops)
  BY <1>8, FinishesPath
<1>10. PICK f : f = [h EXCEPT !.todo = p]
  BY Zenon
<1>11. PICK a, b, c, d : a = h.todo /\ b = h.saved /\ c = h.line /\ d = h.flag
  OBVIOUS
<1>12. h = [todo |-> a, saved |-> b, line |-> c, flag |-> d]
  <2>1. h = [todo |-> h.todo, saved |-> h.saved, line |-> h.line, flag |-> h.flag]
    BY <1>2, <1>4 DEF FrameSet
  <2> QED BY <1>11, <2>1, Zenon
<1>13. f = [todo |-> p, saved |-> b, line |-> c, flag |-> d]
  BY <1>10, <1>12
<1>14. f.todo = p /\ f.saved = b /\ f.line = c /\ f.flag = d
  BY <1>13
<1>15. b \in Seq(BOOLEAN) /\ c \in Int /\ d \in BOOLEAN
  BY <1>2, <1>4, <1>11 DEF FrameSet
<1>16. f \in FrameSet
  BY <1>9, <1>13, <1>15, SMTT(30) DEF FrameSet
<1>17. Fits(f, g[n], intr)
  <2>1. Finishes(Kind(f.line), f.todo, g[n])
    BY <1>4, <1>8, <1>11, <1>14, SMTT(30)
  <2>2. f.saved = stack[n].saved
    BY <1>4, <1>11, <1>14
  <2> QED BY <1>2, <1>3, <1>16, <2>1, <2>2, SMTT(30) DEF Fits
<1>18. PICK sm : sm = [stack EXCEPT ![n] = f]
  BY Zenon
<1>19. stack' = sm
  <2>1. stack' = [stack EXCEPT ![n].todo = p]
    BY <1>1, <1>4 DEF Panics
  <2> QED BY <1>2, <1>4, <1>10, <1>18, <2>1
<1>20. SetsTop(stack, n, f, sm)
  <2>1. n \in 1 .. n
    BY <1>2
  <2>2. /\ sm \in Seq(FrameSet) /\ Len(sm) = n /\ sm[n] = f
        /\ \A i \in 1 .. n - 1 : sm[i] = stack[i]
    BY <1>1, <1>2, <1>16, <1>18, <2>1, ExceptSeq
  <2>3. f.line = stack[n].line /\ f.flag = stack[n].flag
    BY <1>4, <1>11, <1>14, ZenonT(40)
  <2> QED BY <2>2, <2>3, Zenon DEF SetsTop
<1>21. Changes(n, g[n], g[n], held, isr, ready, held, isr, ready)
  BY <1>3, SMTT(30) DEF Changes
<1>22. Stands(sm, intr, held, isr, ready, struck)
  BY <1>1, <1>17, <1>20, <1>21, Replace
<1> QED BY <1>19, <1>22, Zenon DEF IntInv, Panics

\* f is a new frame, for a path that can start at point s.
Fresh(f, p, line, fl, s, now) ==
  /\ f = Frame(p, line, fl) /\ line \in Int /\ fl \in BOOLEAN /\ now \in BOOLEAN
  /\ Finishes(Kind(line), p, s) /\ s.n = 0 /\ Open(s)
  /\ now = TRUE => "sti" \in s.m

\* It fits.
LEMMA FrameFits ==
  ASSUME NEW f, NEW p, NEW line, NEW fl, NEW s, NEW now, Fresh(f, p, line, fl, s, now)
  PROVE  Fits(f, s, now) /\ f.line = line /\ f.flag = fl
<1>1. line \in Int /\ fl \in BOOLEAN /\ now \in BOOLEAN /\ (now = TRUE => "sti" \in s.m)
  BY DEF Fresh
<1>9. Finishes(Kind(line), p, s) /\ s.n = 0 /\ Open(s)
  BY DEF Fresh
<1>2. f = [todo |-> p, saved |-> << >>, line |-> line, flag |-> fl]
  BY DEF Frame, Fresh
<1>3. f.todo = p /\ f.saved = << >> /\ f.line = line /\ f.flag = fl
  BY <1>2
<1>4. p \in Seq(Ops) /\ s \in Points
  BY <1>9, FinishesPath
<1>5. f \in FrameSet
  BY <1>1, <1>2, <1>4 DEF FrameSet
<1>6. Len(f.saved) = 0 /\ \A j \in 1 .. Len(f.saved) : FALSE
  BY <1>3
<1>7. Finishes(Kind(f.line), f.todo, s)
  BY <1>3, <1>9
<1>8. Fits(f, s, now)
  BY <1>1, <1>9, <1>4, <1>5, <1>6, <1>7 DEF Fits
<1> QED BY <1>3, <1>8

\* kernel_main's next call.
LEMMA MakeCallStands ==
  ASSUME NEW g, Holds(g, stack, intr, held, isr, ready, struck),
         NEW name \in GuardedCalls, MakeCall(name)
  PROVE  IntInv'
<1>1. PICK n : n = Len(stack) /\ n = 1
  BY DEF MakeCall
<1>2. /\ stack \in Seq(FrameSet) /\ Top = stack[1] /\ Top.todo = << >>
      /\ Fits(stack[1], g[1], intr) /\ intr \in BOOLEAN
  BY <1>1, TopFits, Zenon DEF MakeCall
<1>3. /\ g[1] \in Points /\ g[1].m \cap Announced \subseteq ready /\ g[1].h \subseteq held
      /\ "sti" \in g[1].m => Parts \subseteq ready
  BY <1>1, TopKnows
<1>4. stack[1].line = NoLine
  BY DEF Holds, Shape
<1>5. Open(g[1]) /\ Finishes("main", << >>, g[1]) /\ (intr = TRUE => "sti" \in g[1].m)
  BY <1>2, <1>4 DEF Fits, Kind
<1>6. Done(g[1])
  <2>1. PICK p : p = << >>
    OBVIOUS
  <2>2. PICK t : Done(t) /\ Goes("main", p, g[1], t)
    BY <1>5, <2>1 DEF Finishes
  <2> QED BY <2>1, <2>2, GoesFirst
<1>7. g[1].n = 0 /\ g[1].h = {}
  BY <1>6 DEF Done
<1>8. Goes("main", Path(name), g[1], g[1])
  BY <1>3, <1>5, <1>7, PathGoes
<1>9. PICK p, s, line : p = Path(name) /\ s = g[1] /\ line = NoLine
  OBVIOUS
<1>10. Finishes(Kind(line), p, s) /\ line \in Int
  BY <1>6, <1>8, <1>9 DEF Finishes, Kind, NoLine
<1>11. PICK f : f = Frame(p, line, intr)
  OBVIOUS
<1>12. Fits(f, s, intr) /\ f.line = line
  <2>1. s.n = 0 /\ Open(s) /\ (intr = TRUE => "sti" \in s.m)
    BY <1>5, <1>7, <1>9, SMTT(30)
  <2>2. Fresh(f, p, line, intr, s, intr)
    BY <1>2, <1>10, <1>11, <2>1 DEF Fresh
  <2> QED BY <2>2, FrameFits
<1>13. f \in FrameSet
  BY <1>12 DEF Fits
<1>14. PICK sm : sm = << f >>
  BY Zenon
<1>15. stack' = sm
  BY <1>9, <1>11, <1>14 DEF MakeCall
<1>16. SetsTop(stack, 1, f, sm)
  BY <1>4, <1>9, <1>12, <1>13, <1>14, SMTT(30) DEF SetsTop
<1>17. Changes(1, g[1], s, held, isr, ready, held, isr, ready)
  BY <1>3, <1>9 DEF Changes
<1>18. Stands(sm, intr, held, isr, ready, struck)
  BY <1>1, <1>12, <1>16, <1>17, Replace, ZenonT(40)
<1> QED BY <1>15, <1>18 DEF IntInv, MakeCall

\* Interrupts are on only while kernel_main runs.
LEMMA SetAtBottom ==
  ASSUME NEW g, Holds(g, stack, intr, held, isr, ready, struck)
  PROVE  intr = TRUE => Len(stack) = 1
<1>1. PICK n : n = Len(stack)
  BY Zenon
<1>2. "sti" \in g[n].m => n = 1
  BY <1>1, TopKnows
<1>3. intr = TRUE => "sti" \in g[n].m
  BY <1>1, TopFits, Zenon DEF Fits
<1> QED BY <1>1, <1>2, <1>3

\* A handler is entered for a line, the controller's or a spurious one.
LEMMA HandlerStands ==
  ASSUME NEW g, Holds(g, stack, intr, held, isr, ready, struck), intr = TRUE,
         NEW line \in Nat, NEW im, \A x \in im : x \in isr \/ x = line,
         stack' = Append(stack, Frame(Handler(line), line, TRUE))
  PROVE  Stands(stack', FALSE, held, im, ready, struck)
<1>1. PICK n : n = Len(stack)
  BY Zenon
<1>2. n = 1
  BY <1>1, SetAtBottom, Zenon
<1>3. PICK p, t, f : p = Handler(line) /\ t = Owes /\ f = Frame(p, line, TRUE)
  BY Zenon
<1>4. Finishes("irq", p, t) /\ t.n = 0 /\ Open(t) /\ t.h = {} /\ t.m = {"eoi"}
  BY <1>3, HandlerFinishes, Starts, Zenon
<1>5. Kind(line) = "irq"
  BY SMTT(30) DEF Kind, NoLine, Exception
<1>6. Fresh(f, p, line, TRUE, t, FALSE)
  BY <1>3, <1>4, <1>5 DEF Fresh
<1>7. Fits(f, t, FALSE) /\ f.line = line /\ f.flag = TRUE
  BY <1>6, FrameFits, Zenon
<1>8. f.line >= 0 /\ f.line # Exception
  BY <1>7 DEF Exception
<1>9. \A x \in im : x \in isr \/ (n = 1 /\ f.line = x /\ x >= 0 /\ "eoi" \in t.m)
  BY <1>2, <1>4, <1>7
<1>10. PICK sm : sm = Append(stack, f)
  BY Zenon
<1>11. Adds(n, stack, intr, held, isr, struck, f, t, im, struck, sm)
  BY <1>2, <1>4, <1>7, <1>8, <1>9, <1>10, ZenonT(40) DEF Adds
<1>12. Stands(sm, FALSE, held, im, ready, struck)
  BY <1>1, <1>7, <1>11, Push, Zenon
<1> QED BY <1>3, <1>10, <1>12, Zenon

\* The two ways to enter one.
LEMMA TakeStands ==
  ASSUME NEW g, Holds(g, stack, intr, held, isr, ready, struck), NEW line \in Nat, Take(line)
  PROVE  IntInv'
<1>1. intr = TRUE
  BY TopFits DEF Take
<1>2. PICK im : im = isr \cup {line}
  BY Zenon
<1>3. Stands(stack', FALSE, held, im, ready, struck)
  BY <1>1, <1>2, HandlerStands, Zenon DEF Take
<1> QED BY <1>2, <1>3, Zenon DEF IntInv, Take

\* A spurious request leaves what is in service alone.
LEMMA SpuriousStands ==
  ASSUME NEW g, Holds(g, stack, intr, held, isr, ready, struck), TakeSpurious
  PROVE  IntInv'
<1>1. intr = TRUE
  BY TopFits DEF TakeSpurious
<1>2. Spurious \in Nat
  BY DEF Spurious
<1>3. Stands(stack', FALSE, held, isr, ready, struck)
  BY <1>1, <1>2, HandlerStands, Zenon DEF TakeSpurious
<1> QED BY <1>3, Zenon DEF IntInv, TakeSpurious

\* An exception handler is entered, at any point.
LEMMA ExceptStands ==
  ASSUME NEW g, Holds(g, stack, intr, held, isr, ready, struck),
         NEW kind \in Exceptions, Except(kind)
  PROVE  IntInv'
<1>1. PICK n : n = Len(stack)
  BY Zenon
<1>2. intr \in BOOLEAN
  BY <1>1, TopFits
<1>3. PICK p, t, f, line :
        /\ p = ExceptionHandler(kind) /\ t = Rest /\ line = Exception
        /\ f = Frame(p, line, intr)
  OBVIOUS
<1>4. Finishes("exc", p, t) /\ t.n = 0 /\ Open(t) /\ t.h = {} /\ t.m = {}
  BY <1>3, ExceptionFinishes, Starts, Zenon
<1>5. Kind(line) = "exc" /\ line \in Int
  BY <1>3 DEF Kind, NoLine, Exception
<1>6. Fresh(f, p, line, intr, t, FALSE)
  BY <1>2, <1>3, <1>4, <1>5 DEF Fresh
<1>7. Fits(f, t, FALSE) /\ f.line = Exception /\ f.flag = intr
  BY <1>3, <1>6, FrameFits, Zenon
<1>8. PICK sm, km : sm = Append(stack, f) /\ km = struck \cup held
  BY ZenonT(40)
<1>9. Adds(n, stack, intr, held, isr, struck, f, t, isr, km, sm)
  BY <1>1, <1>4, <1>7, <1>8 DEF Adds
<1>10. Stands(sm, FALSE, held, isr, ready, km)
  BY <1>1, <1>7, <1>9, Push, ZenonT(40)
<1>11. stack' = sm /\ intr' = FALSE /\ struck' = km /\ UNCHANGED <<held, isr, ready>>
  BY <1>3, <1>8 DEF Except
<1> QED BY <1>10, <1>11, Zenon DEF IntInv

\* A handler returns: it holds nothing and owes nothing.
LEMMA IretStands ==
  ASSUME NEW g, Holds(g, stack, intr, held, isr, ready, struck), Iret
  PROVE  IntInv'
<1>1. PICK n : n = Len(stack) - 1
  OBVIOUS
<1>2. PICK x : x = Len(stack)
  BY Zenon
<1>3. x \in Nat /\ x > 1 /\ stack \in Seq(FrameSet) /\ Top = stack[x] /\ Fits(stack[x], g[x], intr)
  BY <1>2, TopFits DEF Iret
<1>4. n \in Nat /\ n > 0 /\ x = n + 1
  BY <1>1, <1>2, <1>3
<1>5. Done(g[x])
  <2>1. PICK p, k : p = Top.todo /\ k = Kind(stack[x].line)
    OBVIOUS
  <2>2. p = << >> /\ Finishes(k, p, g[x])
    BY <1>3, <2>1, Zenon DEF Iret, Fits
  <2>3. PICK t : Done(t) /\ Goes(k, p, g[x], t)
    BY <2>2 DEF Finishes
  <2> QED BY <2>2, <2>3, GoesFirst
<1>6. PICK sm : sm = SubSeq(stack, 1, n)
  BY Zenon
<1>7. sm \in Seq(FrameSet) /\ Len(sm) = n /\ \A i \in 1 .. n : sm[i] = stack[i]
  <2>1. \A i \in 1 .. n : stack[i] \in FrameSet
    <3> SUFFICES ASSUME NEW i \in 1 .. n PROVE stack[i] \in FrameSet
      OBVIOUS
    <3>1. i \in 1 .. Len(stack)
      BY <1>2, <1>4
    <3> QED BY <1>3, <3>1, ElementOfSeq
  <2>2. /\ sm \in Seq(FrameSet)
        /\ Len(sm) = IF 1 <= n THEN n - 1 + 1 ELSE 0
        /\ \A i \in 1 .. n - 1 + 1 : sm[i] = stack[1 + i - 1]
    BY <1>4, <1>6, <2>1, SubSeqProperties
  <2>3. n - 1 + 1 = n /\ 1 <= n /\ \A i \in 1 .. n : 1 + i - 1 = i
    BY <1>4
  <2>4. \A i \in 1 .. n : sm[i] = stack[i]
    BY <2>2, <2>3
  <2> QED BY <2>2, <2>3, <2>4
<1>8. Stands(sm, stack[n + 1].flag, held, isr, ready, struck)
  BY <1>2, <1>4, <1>5, <1>7, Pop, ZenonT(40)
<1>9. stack' = sm /\ intr' = stack[n + 1].flag /\ UNCHANGED <<held, isr, ready, struck>>
  BY <1>1, <1>3, <1>4, <1>6 DEF Iret
<1> QED BY <1>8, <1>9 DEF IntInv

-----------------------------------------------------------------------------
\* The kernel starts with one frame, for kernel_main, and interrupts off.
LEMMA InitStands ==
  ASSUME Init
  PROVE  IntInv
<1>1. PICK p, s, line, f : p = BootPath /\ s = Rest /\ line = NoLine /\ f = Frame(p, line, FALSE)
  BY Zenon
<1>2. Finishes("main", p, s) /\ s \in Points /\ s.n = 0 /\ Open(s) /\ s.h = {} /\ s.m = {}
  BY <1>1, BootFinishes, Starts
<1>3. Kind(line) = "main" /\ line \in Int
  BY <1>1 DEF Kind, NoLine
<1>4. Fresh(f, p, line, FALSE, s, FALSE)
  BY <1>1, <1>2, <1>3 DEF Fresh
<1>5. Fits(f, s, FALSE) /\ f.line = NoLine
  BY <1>1, <1>4, FrameFits, Zenon
<1>6. PICK st, g : st = << f >> /\ g = << s >>
  BY Zenon
<1>7. f \in FrameSet
  BY <1>5 DEF Fits
<1>8. st \in Seq(FrameSet) /\ Len(st) = 1 /\ st[1] = f /\ g[1] = s
  BY <1>6, <1>7
<1>9. Frames(g, st, FALSE)
  <2>1. PICK b : b = FALSE
    BY Zenon
  <2>2. FlagOf(st, b, 1) = b
    BY <1>8 DEF FlagOf
  <2>3. Fits(st[1], g[1], FlagOf(st, b, 1))
    BY <1>5, <1>8, <2>1, <2>2, Zenon
  <2>4. \A i \in 1 .. Len(st) : i = 1
    BY <1>8
  <2>5. Frames(g, st, b)
    BY <1>8, <2>3, <2>4 DEF Frames
  <2> QED BY <2>1, <2>5, Zenon
<1>10. Shape(g, st)
  BY <1>5, <1>8 DEF Shape
<1>11. Owned(g, Len(st), {})
  BY <1>2, <1>8 DEF Owned
<1>12. Noted(g, st, {})
  BY <1>8 DEF Noted
<1>13. Informed(g, Len(st), {})
  BY <1>2, <1>8 DEF Informed
<1>14. Serving(g, st, {})
  BY DEF Serving
<1>15. Stands(st, FALSE, {}, {}, {}, {})
  BY <1>9, <1>10, <1>11, <1>12, <1>13, <1>14, ZenonT(40) DEF Stands, Holds
<1>16. stack = st /\ intr = FALSE /\ held = {} /\ isr = {} /\ ready = {} /\ struck = {}
  BY <1>1, <1>6 DEF Init
<1> QED BY <1>15, <1>16, Zenon DEF IntInv

\* Every step of the CPU and of the devices keeps it.
LEMMA NextStands ==
  ASSUME Calls \subseteq GuardedCalls, IntInv, [Next]_ivars
  PROVE  IntInv'
<1>1. PICK g : Holds(g, stack, intr, held, isr, ready, struck)
  BY DEF IntInv, Stands
<1>2. CASE Execute
  BY <1>1, <1>2, CliStands, RestoreStands, SetFlagStands, LockStands, UnlockStands, EoiStands,
     ReadyStands, GoesWellStands, PanicsStands, SMTT(30) DEF Execute
<1>3. CASE Iret
  BY <1>1, <1>3, IretStands
<1>4. ASSUME NEW line \in Unmasked, Take(line) PROVE IntInv'
  <2>1. line \in Nat
    BY DEF Unmasked
  <2> QED BY <1>1, <1>4, <2>1, TakeStands
<1>5. CASE TakeSpurious
  BY <1>1, <1>5, SpuriousStands
<1>6. ASSUME NEW kind \in Exceptions, Except(kind) PROVE IntInv'
  BY <1>1, <1>6, ExceptStands
<1>7. ASSUME NEW name \in Calls, MakeCall(name) PROVE IntInv'
  BY <1>1, <1>7, MakeCallStands
<1>8. ASSUME NEW line \in Lines, Raise(line) PROVE IntInv'
  BY <1>8 DEF IntInv, Raise
<1>9. CASE UNCHANGED ivars
  BY <1>9 DEF IntInv, ivars
<1> QED BY <1>2, <1>3, <1>4, <1>5, <1>6, <1>7, <1>8, <1>9, SMTT(30) DEF Next

\* The invariant holds of every behaviour.
LEMMA AlwaysStands == ASSUME Calls \subseteq GuardedCalls PROVE Spec => []IntInv
<1>1. Init => IntInv
  BY InitStands
<1>2. IntInv /\ [Next]_ivars => IntInv'
  BY NextStands
<1> QED BY <1>1, <1>2, PTL DEF Spec

\* No handler and no call asks for a lock that the code below it holds, whatever
\* interrupts come and however many exceptions: all but the handler of an exception
\* that struck inside a print.  The calls are those that lock with interrupts off what a
\* handler locks too; getppid, ps and exit do not.
THEOREM NoLockIsAwaited ==
  ASSUME Calls \subseteq GuardedCalls
  PROVE Spec => []NoSelfDeadlock
<1>1. IntInv => NoSelfDeadlock
  BY InvGives
<1> QED BY <1>1, AlwaysStands, PTL

\* No interrupt handler runs before everything it uses is initialised.
THEOREM HandlersRunInitialised ==
  ASSUME Calls \subseteq GuardedCalls
  PROVE Spec => []HandlersSeeReady
<1>1. IntInv => HandlersSeeReady
  BY InvGives
<1> QED BY <1>1, AlwaysStands, PTL

\* Interrupt handlers do not nest, and what is in service at the controller is the line
\* of the one that runs.
THEOREM HandlersEndTheirOwn ==
  ASSUME Calls \subseteq GuardedCalls
  PROVE Spec => []InServiceMatches
<1>1. IntInv => InServiceMatches
  BY InvGives
<1> QED BY <1>1, AlwaysStands, PTL

=============================================================================
