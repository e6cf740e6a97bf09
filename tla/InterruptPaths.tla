--------------------------- MODULE InterruptPaths ---------------------------
(***************************************************************************)
(* Lemmas about the points of module InterruptPoints.  First what it takes  *)
(* to replace, add and remove the top frame of the stack.  Then the paths:  *)
(* every path of the kernel leads from its start to its end by moves that   *)
(* are allowed where they are made, and this is where the order of lock,    *)
(* unlock, disable and enable in each function is looked at, once.  Last,   *)
(* what the invariant says.                                                 *)
(***************************************************************************)
EXTENDS InterruptPoints, SequenceTheorems, TLAPS

-----------------------------------------------------------------------------
\* sm is st with f for its top frame, which serves the same.
SetsTop(st, n, f, sm) ==
  /\ f.line = st[n].line /\ (n = 1 \/ f.flag = st[n].flag)
  /\ sm \in Seq(FrameSet) /\ Len(sm) = n /\ sm[n] = f
  /\ \A i \in 1 .. n - 1 : sm[i] = st[i]

\* What the top frame may do to the locks, the controller and the announced parts
\* on its way from point s to point t.
Changes(n, s, t, he, is, re, hm, im, rm) ==
  /\ "sti" \in t.m => ("sti" \in s.m \/ n = 1) /\ Parts \subseteq rm
  /\ t.m \cap Announced \subseteq rm /\ re \subseteq rm
  /\ \A l : l \in hm <=> (l \in he /\ l \notin s.h) \/ l \in t.h
  /\ \A l \in t.h : l \in s.h \/ l \notin he
  /\ im = {} \/ (im = is /\ ("eoi" \in s.m => "eoi" \in t.m))

\* k differs from g in the point of the top frame, which is t.
Turns(k, g, n, t) == n \in Nat /\ n > 0 /\ k[n] = t /\ \A i \in 1 .. n - 1 : k[i] = g[i]

\* There is such a k.
LEMMA TurnsExists ==
  ASSUME NEW g, NEW n \in Nat, n > 0, NEW t
  PROVE  \E k : Turns(k, g, n, t)
<1>1. Turns([i \in 1 .. n |-> IF i = n THEN t ELSE g[i]], g, n, t)
  BY DEF Turns
<1> QED BY <1>1, Zenon

\* Every other frame is where it was, with the flag it had.
LEMMA ReplaceFrames ==
  ASSUME NEW g, NEW st, NEW fl, Frames(g, st, fl), NEW n, n = Len(st),
         NEW f, NEW t, NEW fm, NEW sm, Fits(f, t, fm), SetsTop(st, n, f, sm),
         NEW k, Turns(k, g, n, t)
  PROVE  Frames(k, sm, fm)
<1>0. n \in Nat /\ n > 0 /\ k[n] = t /\ \A i \in 1 .. n - 1 : k[i] = g[i]
  BY DEF Turns
<1>1. sm \in Seq(FrameSet) /\ Len(sm) = n /\ sm[n] = f /\ \A i \in 1 .. n - 1 : sm[i] = st[i]
  BY DEF SetsTop
<1> SUFFICES ASSUME NEW i \in 1 .. n PROVE Fits(sm[i], k[i], FlagOf(sm, fm, i))
  BY <1>0, <1>1 DEF Frames
<1>2. CASE i = n
  BY <1>0, <1>1, <1>2, Zenon DEF FlagOf
<1>3. CASE i # n
  <2>1. i \in 1 .. n - 1 /\ i + 1 \in 1 .. n /\ n # 1
    BY <1>0, <1>3
  <2>2. i + 1 = n \/ i + 1 \in 1 .. n - 1
    BY <1>0, <2>1
  <2>3. sm[i + 1].flag = st[i + 1].flag
    BY <1>1, <2>1, <2>2, Zenon DEF SetsTop
  <2>4. FlagOf(sm, fm, i) = FlagOf(st, fl, i)
    BY <1>1, <1>3, <2>3, Zenon DEF FlagOf
  <2>5. Fits(st[i], g[i], FlagOf(st, fl, i))
    BY DEF Frames
  <2> QED BY <1>0, <1>1, <2>1, <2>4, <2>5, Zenon
<1> QED BY <1>2, <1>3

\* The top frame serves what it did, and only kernel_main enables interrupts.
LEMMA ReplaceShape ==
  ASSUME NEW g, NEW st, Shape(g, st), NEW n, n = Len(st),
         NEW f, NEW t, NEW sm, SetsTop(st, n, f, sm),
         NEW he, NEW is, NEW re, NEW hm, NEW im, NEW rm,
         Changes(n, g[n], t, he, is, re, hm, im, rm),
         NEW k, Turns(k, g, n, t)
  PROVE  Shape(k, sm)
<1>0. n \in Nat /\ n > 0 /\ k[n] = t /\ \A i \in 1 .. n - 1 : k[i] = g[i]
  BY DEF Turns
<1>1. Len(sm) = n /\ sm[n] = f /\ \A i \in 1 .. n - 1 : sm[i] = st[i]
  BY DEF SetsTop
<1>2. sm[1].line = NoLine
  <2>1. 1 = n \/ 1 \in 1 .. n - 1
    BY <1>0
  <2> QED BY <1>0, <1>1, <2>1, Zenon DEF Shape, SetsTop
<1>3. ASSUME NEW i \in 2 .. n
      PROVE  /\ "sti" \notin k[i].m
             /\ sm[i].line = Exception \/ (i = 2 /\ sm[i].line >= 0 /\ sm[i].flag = TRUE)
  <2>1. /\ "sti" \notin g[i].m
        /\ st[i].line = Exception \/ (i = 2 /\ st[i].line >= 0 /\ st[i].flag = TRUE)
    BY Zenon DEF Shape
  <2>2. CASE i = n
    <3>1. n # 1
      BY <2>2
    <3>2. "sti" \in t.m => "sti" \in g[n].m \/ n = 1
      BY Zenon DEF Changes
    <3>3. f.line = st[n].line /\ f.flag = st[n].flag
      BY <3>1, Zenon DEF SetsTop
    <3> QED BY <1>0, <1>1, <2>1, <2>2, <3>1, <3>2, <3>3, Zenon
  <2>3. CASE i # n
    <3>1. i \in 1 .. n - 1
      BY <1>0, <2>3
    <3> QED BY <1>0, <1>1, <2>1, <3>1, Zenon
  <2> QED BY <2>2, <2>3, Zenon
<1> QED BY <1>1, <1>2, <1>3, Zenon DEF Shape

\* A lock that the top frame takes was free, and one it had is its own to release.
LEMMA ReplaceOwned ==
  ASSUME NEW g, NEW n, NEW he, Owned(g, n, he), NEW t,
         NEW is, NEW re, NEW hm, NEW im, NEW rm,
         Changes(n, g[n], t, he, is, re, hm, im, rm),
         NEW k, Turns(k, g, n, t)
  PROVE  Owned(k, n, hm)
<1>0. n \in Nat /\ n > 0 /\ k[n] = t /\ \A i \in 1 .. n - 1 : k[i] = g[i]
  BY DEF Turns
<1>1. n \in 1 .. n /\ \A i \in 1 .. n : i = n \/ i \in 1 .. n - 1
  BY <1>0
<1>a. /\ \A l : l \in hm <=> (l \in he /\ l \notin g[n].h) \/ l \in t.h
      /\ \A l \in t.h : l \in g[n].h \/ l \notin he
  BY Zenon DEF Changes
<1>2. /\ \A l : l \in he <=> \E i \in 1 .. n : l \in g[i].h
      /\ \A i, j \in 1 .. n : \A l : l \in g[i].h /\ l \in g[j].h => i = j
  BY Zenon DEF Owned
<1>3. ASSUME NEW l PROVE l \in hm <=> \E i \in 1 .. n : l \in k[i].h
  <2>1. ASSUME l \in hm PROVE \E i \in 1 .. n : l \in k[i].h
    <3>1. CASE l \in t.h
      BY <1>0, <1>1, <3>1
    <3>2. CASE l \notin t.h
      <4>1. l \in he /\ l \notin g[n].h
        BY <1>a, <2>1, <3>2
      <4>2. PICK i \in 1 .. n : l \in g[i].h
        BY <1>2, <4>1
      <4> QED BY <1>0, <1>1, <4>1, <4>2
    <3> QED BY <3>1, <3>2
  <2>2. ASSUME NEW i \in 1 .. n, l \in k[i].h PROVE l \in hm
    <3>1. CASE i = n
      BY <1>0, <1>a, <2>2, <3>1
    <3>2. CASE i # n
      <4>1. i \in 1 .. n - 1 /\ l \in g[i].h
        BY <1>0, <1>1, <2>2, <3>2
      <4>2. l \in he /\ l \notin g[n].h
        BY <1>1, <1>2, <3>2, <4>1
      <4> QED BY <1>a, <4>2
    <3> QED BY <3>1, <3>2
  <2> QED BY <2>1, <2>2
<1>4. ASSUME NEW i \in 1 .. n - 1, NEW l, l \in g[i].h, l \in t.h PROVE FALSE
  <2>1. i \in 1 .. n /\ i # n
    BY <1>0
  <2>2. l \in he
    BY <1>2, <1>4, <2>1
  <2>3. l \in g[n].h
    BY <1>a, <1>4, <2>2
  <2> QED BY <1>1, <1>2, <1>4, <2>1, <2>3
<1>5. ASSUME NEW i \in 1 .. n, NEW j \in 1 .. n, NEW l, l \in k[i].h, l \in k[j].h PROVE i = j
  <2>1. CASE i = n
    BY <1>0, <1>1, <1>4, <1>5, <2>1
  <2>2. CASE j = n
    BY <1>0, <1>1, <1>4, <1>5, <2>2
  <2>3. CASE i # n /\ j # n
    BY <1>0, <1>1, <1>2, <1>5, <2>3
  <2> QED BY <2>1, <2>2, <2>3
<1> QED BY <1>3, <1>5 DEF Owned

\* The rest is what the frames below the top one have, or the top one got.
LEMMA ReplaceRest ==
  ASSUME NEW g, NEW st, NEW is, NEW re, NEW sk,
         NEW n, n = Len(st),
         Noted(g, st, sk), Informed(g, n, re), Serving(g, st, is),
         NEW f, NEW t, NEW sm, SetsTop(st, n, f, sm),
         NEW he, NEW hm, NEW im, NEW rm, Changes(n, g[n], t, he, is, re, hm, im, rm),
         NEW k, Turns(k, g, n, t)
  PROVE  Noted(k, sm, sk) /\ Informed(k, n, rm) /\ Serving(k, sm, im)
<1>0. n \in Nat /\ n > 0 /\ k[n] = t /\ \A i \in 1 .. n - 1 : k[i] = g[i]
  BY DEF Turns
<1>1. Len(sm) = n /\ f.line = st[n].line /\ sm[n] = f /\ \A i \in 1 .. n - 1 : sm[i] = st[i]
  BY DEF SetsTop
<1>2. ASSUME NEW i \in 1 .. n PROVE sm[i].line = st[i].line
  <2>1. i = n \/ i \in 1 .. n - 1
    BY <1>0
  <2> QED BY <1>1, <2>1, Zenon
<1>3. Noted(k, sm, sk)
  <2> SUFFICES ASSUME NEW i \in 1 .. n - 1, sm[i + 1].line = Exception
               PROVE  k[i].h \subseteq sk
    BY <1>1 DEF Noted
  <2>1. i + 1 \in 1 .. n
    BY <1>0
  <2> QED BY <1>0, <1>2, <2>1, Zenon DEF Noted
<1>4. Informed(k, n, rm)
  <2> SUFFICES ASSUME NEW i \in 1 .. n
               PROVE  /\ k[i].m \cap Announced \subseteq rm
                      /\ "sti" \in k[i].m => Parts \subseteq rm
    BY DEF Informed
  <2>1. i = n \/ i \in 1 .. n - 1
    BY <1>0
  <2>2. /\ g[i].m \cap Announced \subseteq re
        /\ "sti" \in g[i].m => Parts \subseteq re
    BY Zenon DEF Informed
  <2>3. /\ "sti" \in t.m => Parts \subseteq rm
        /\ t.m \cap Announced \subseteq rm /\ re \subseteq rm
    BY Zenon DEF Changes
  <2> QED BY <1>0, <2>1, <2>2, <2>3
<1>5. Serving(k, sm, im)
  <2> SUFFICES ASSUME NEW x \in im
               PROVE  n >= 2 /\ sm[2].line = x /\ x >= 0 /\ "eoi" \in k[2].m
    BY <1>1 DEF Serving
  <2>1. x \in is /\ ("eoi" \in g[n].m => "eoi" \in t.m)
    BY DEF Changes
  <2>2. n >= 2 /\ st[2].line = x /\ x >= 0 /\ "eoi" \in g[2].m
    BY <2>1, Zenon DEF Serving
  <2>3. 2 \in 1 .. n /\ (2 = n \/ 2 \in 1 .. n - 1)
    BY <1>0, <2>2
  <2> QED BY <1>0, <1>2, <2>1, <2>2, <2>3, Zenon
<1> QED BY <1>3, <1>4, <1>5

\* The top frame goes from point g[n] to t.
LEMMA Replace ==
  ASSUME NEW g, NEW st, NEW fl, NEW he, NEW is, NEW re, NEW sk,
         Holds(g, st, fl, he, is, re, sk),
         NEW n, n = Len(st),
         NEW f, NEW t, NEW fm, NEW hm, NEW im, NEW rm, NEW sm,
         Fits(f, t, fm), SetsTop(st, n, f, sm),
         Changes(n, g[n], t, he, is, re, hm, im, rm)
  PROVE  Stands(sm, fm, hm, im, rm, sk)
<1>1. Frames(g, st, fl) /\ Shape(g, st) /\ Owned(g, n, he) /\ Noted(g, st, sk)
      /\ Informed(g, n, re) /\ Serving(g, st, is)
  BY DEF Holds
<1>2. n \in Nat /\ n > 0
  BY <1>1 DEF Frames
<1>3. PICK k : Turns(k, g, n, t)
  BY <1>2, TurnsExists, Zenon
<1>4. Frames(k, sm, fm)
  BY <1>1, <1>3, ReplaceFrames, Zenon
<1>5. Shape(k, sm)
  BY <1>1, <1>3, ReplaceShape, Zenon
<1>6. Owned(k, n, hm)
  BY <1>1, <1>3, ReplaceOwned, Zenon
<1>7. Noted(k, sm, sk) /\ Informed(k, n, rm) /\ Serving(k, sm, im)
  BY <1>1, <1>3, ReplaceRest, Zenon
<1>8. Len(sm) = n
  BY DEF SetsTop
<1> QED BY <1>4, <1>5, <1>6, <1>7, <1>8, Zenon DEF Holds, Stands

\* sm is st with f on top, at the start of a handler's path: an exception, which
\* notes the locks that are held, or an interrupt that kernel_main let in.
Adds(n, st, fl, he, is, sk, f, t, im, km, sm) ==
  /\ t.h = {} /\ t.m \subseteq {"eoi"} /\ f.flag = fl
  /\ f.line = Exception \/ (n = 1 /\ f.line >= 0 /\ fl = TRUE)
  /\ \A x \in im : x \in is \/ (n = 1 /\ f.line = x /\ x >= 0 /\ "eoi" \in t.m)
  /\ sk \subseteq km /\ (f.line = Exception => he \subseteq km)
  /\ sm = Append(st, f)

\* k and sm are g and st with t and f on top.
Grows(k, g, n, t, sm, st, f) ==
  /\ n \in Nat /\ n > 0 /\ sm \in Seq(FrameSet) /\ Len(sm) = n + 1
  /\ k[n + 1] = t /\ sm[n + 1] = f
  /\ \A i \in 1 .. n : k[i] = g[i] /\ sm[i] = st[i]

\* There is such a k.
LEMMA GrowsExists ==
  ASSUME NEW g, NEW n \in Nat, n > 0, NEW t, NEW st \in Seq(FrameSet), n = Len(st),
         NEW f \in FrameSet, NEW sm, sm = Append(st, f)
  PROVE  \E k : Grows(k, g, n, t, sm, st, f)
<1>1. PICK k : k = [i \in 1 .. n + 1 |-> IF i = n + 1 THEN t ELSE g[i]]
  BY Zenon
<1>2. k[n + 1] = t /\ \A i \in 1 .. n : k[i] = g[i]
  BY <1>1
<1>3. /\ sm \in Seq(FrameSet) /\ Len(sm) = n + 1 /\ sm[n + 1] = f
      /\ \A i \in 1 .. n : sm[i] = st[i]
  BY AppendProperties
<1> QED BY <1>2, <1>3, Zenon DEF Grows

\* The frame that was on top has the flag its successor returns to.
LEMMA PushFrames ==
  ASSUME NEW g, NEW st, NEW fl, Frames(g, st, fl), NEW n, n = Len(st),
         NEW f, NEW t, Fits(f, t, FALSE), f.flag = fl,
         NEW k, NEW sm, Grows(k, g, n, t, sm, st, f)
  PROVE  Frames(k, sm, FALSE)
<1>1. n \in Nat /\ n > 0 /\ sm \in Seq(FrameSet) /\ Len(sm) = n + 1
  BY DEF Grows
<1>2. k[n + 1] = t /\ sm[n + 1] = f /\ \A i \in 1 .. n : k[i] = g[i] /\ sm[i] = st[i]
  BY DEF Grows
<1>3. Len(sm) > 0 /\ 1 .. Len(sm) = 1 .. n + 1
  BY <1>1
<1> SUFFICES ASSUME NEW i \in 1 .. n + 1 PROVE Fits(sm[i], k[i], FlagOf(sm, FALSE, i))
  BY <1>1, <1>3, Zenon DEF Frames
<1>4. CASE i = n + 1
  BY <1>1, <1>2, <1>4, Zenon DEF FlagOf
<1>5. CASE i # n + 1
  <2>1. i \in 1 .. n /\ (i = n \/ i + 1 \in 1 .. n)
    BY <1>1, <1>5
  <2>2. FlagOf(sm, FALSE, i) = FlagOf(st, fl, i)
    <3>1. CASE i = n
      BY <1>1, <1>2, <1>5, <3>1, Zenon DEF FlagOf
    <3>2. CASE i # n
      BY <1>1, <1>2, <1>5, <2>1, <3>2, Zenon DEF FlagOf
    <3> QED BY <3>1, <3>2, Zenon
  <2> QED BY <1>2, <2>1, <2>2, Zenon DEF Frames
<1> QED BY <1>4, <1>5, Zenon

\* An interrupt handler comes right above kernel_main.
LEMMA PushShape ==
  ASSUME NEW g, NEW st, Shape(g, st), NEW n, n = Len(st),
         NEW fl, NEW he, NEW is, NEW sk, NEW f, NEW t, NEW im, NEW km,
         NEW k, NEW sm, Adds(n, st, fl, he, is, sk, f, t, im, km, sm),
         Grows(k, g, n, t, sm, st, f)
  PROVE  Shape(k, sm)
<1>1. n \in Nat /\ n > 0 /\ Len(sm) = n + 1 /\ 1 \in 1 .. n
  BY DEF Grows
<1>2. k[n + 1] = t /\ sm[n + 1] = f /\ \A i \in 1 .. n : k[i] = g[i] /\ sm[i] = st[i]
  BY DEF Grows
<1>3. sm[1].line = NoLine
  BY <1>1, <1>2, Zenon DEF Shape
<1>4. ASSUME NEW i \in 2 .. n + 1
      PROVE  /\ "sti" \notin k[i].m
             /\ sm[i].line = Exception \/ (i = 2 /\ sm[i].line >= 0 /\ sm[i].flag = TRUE)
  <2>1. CASE i = n + 1
    <3>1. n = 1 => i = 2
      BY <2>1
    <3>2. "sti" \notin t.m
      BY DEF Adds
    <3>3. f.flag = fl /\ (f.line = Exception \/ (n = 1 /\ f.line >= 0 /\ fl = TRUE))
      BY Zenon DEF Adds
    <3> QED BY <1>2, <2>1, <3>1, <3>2, <3>3, Zenon
  <2>2. CASE i # n + 1
    <3>1. i \in 1 .. n /\ i \in 2 .. n
      BY <1>1, <2>2
    <3> QED BY <1>2, <3>1, Zenon DEF Shape
  <2> QED BY <2>1, <2>2, Zenon
<1> QED BY <1>1, <1>3, <1>4, Zenon DEF Shape

\* The new frame holds no lock.
LEMMA PushOwned ==
  ASSUME NEW g, NEW n, NEW he, Owned(g, n, he), NEW st, NEW f, NEW t, t.h = {},
         NEW k, NEW sm, Grows(k, g, n, t, sm, st, f)
  PROVE  Owned(k, n + 1, he)
<1>1. n \in Nat /\ k[n + 1] = t /\ \A i \in 1 .. n : k[i] = g[i]
  BY DEF Grows
<1>2. /\ \A i \in 1 .. n + 1 : i = n + 1 \/ i \in 1 .. n
      /\ \A i \in 1 .. n : i \in 1 .. n + 1
  BY <1>1
<1>3. ASSUME NEW l PROVE l \in he <=> \E i \in 1 .. n + 1 : l \in k[i].h
  <2>1. l \in he <=> \E i \in 1 .. n : l \in g[i].h
    BY DEF Owned
  <2> QED BY <1>1, <1>2, <2>1
<1>4. ASSUME NEW i \in 1 .. n + 1, NEW j \in 1 .. n + 1, NEW l, l \in k[i].h, l \in k[j].h
      PROVE  i = j
  <2>1. i \in 1 .. n /\ j \in 1 .. n
    BY <1>1, <1>2, <1>4
  <2> QED BY <1>1, <1>4, <2>1, Zenon DEF Owned
<1> QED BY <1>3, <1>4 DEF Owned

\* The locks held below are noted when the new frame is an exception's.
LEMMA PushNoted ==
  ASSUME NEW g, NEW n, NEW he, Owned(g, n, he), NEW st, n = Len(st), NEW sk, Noted(g, st, sk),
         NEW fl, NEW is, NEW f, NEW t, NEW im, NEW km,
         NEW k, NEW sm, Adds(n, st, fl, he, is, sk, f, t, im, km, sm),
         Grows(k, g, n, t, sm, st, f)
  PROVE  Noted(k, sm, km)
<1>1. n \in Nat /\ n > 0 /\ Len(sm) = n + 1 /\ sm[n + 1] = f
  BY DEF Grows
<1>2. \A i \in 1 .. n : k[i] = g[i] /\ sm[i] = st[i]
  BY DEF Grows
<1>3. sk \subseteq km /\ (f.line = Exception => he \subseteq km)
  BY Zenon DEF Adds
<1> SUFFICES ASSUME NEW i \in 1 .. n, sm[i + 1].line = Exception
             PROVE  k[i].h \subseteq km
  BY <1>1 DEF Noted
<1>4. CASE i = n
  <2>1. g[n].h \subseteq he
    BY <1>1 DEF Owned
  <2> QED BY <1>1, <1>2, <1>3, <1>4, <2>1
<1>5. CASE i # n
  <2>1. i \in 1 .. n - 1 /\ i + 1 \in 1 .. n
    BY <1>1, <1>5
  <2>2. g[i].h \subseteq sk
    BY <1>2, <2>1, Zenon DEF Noted
  <2> QED BY <1>2, <1>3, <2>2
<1> QED BY <1>4, <1>5

\* The new frame announces nothing, and serves what the controller handed over.
LEMMA PushRest ==
  ASSUME NEW g, NEW n, NEW re, Informed(g, n, re), NEW st, n = Len(st),
         NEW is, Serving(g, st, is),
         NEW fl, NEW he, NEW sk, NEW f, NEW t, NEW im, NEW km,
         NEW k, NEW sm, Adds(n, st, fl, he, is, sk, f, t, im, km, sm),
         Grows(k, g, n, t, sm, st, f)
  PROVE  Informed(k, n + 1, re) /\ Serving(k, sm, im)
<1>1. n \in Nat /\ n > 0 /\ Len(sm) = n + 1
  BY DEF Grows
<1>2. k[n + 1] = t /\ sm[n + 1] = f /\ \A i \in 1 .. n : k[i] = g[i] /\ sm[i] = st[i]
  BY DEF Grows
<1>3. Informed(k, n + 1, re)
  <2> SUFFICES ASSUME NEW i \in 1 .. n + 1
               PROVE  /\ k[i].m \cap Announced \subseteq re
                      /\ "sti" \in k[i].m => Parts \subseteq re
    BY DEF Informed
  <2>1. CASE i = n + 1
    <3>1. t.m \subseteq {"eoi"}
      BY DEF Adds
    <3>2. "sti" \notin t.m /\ t.m \cap Announced = {}
      BY <3>1 DEF Announced, Parts
    <3> QED BY <1>2, <2>1, <3>2
  <2>2. CASE i # n + 1
    <3>1. i \in 1 .. n
      BY <1>1, <2>2
    <3> QED BY <1>2, <3>1, Zenon DEF Informed
  <2> QED BY <2>1, <2>2
<1>4. Serving(k, sm, im)
  <2> SUFFICES ASSUME NEW x \in im
               PROVE  n + 1 >= 2 /\ sm[2].line = x /\ x >= 0 /\ "eoi" \in k[2].m
    BY <1>1 DEF Serving
  <2>1. CASE x \in is
    <3>1. n >= 2 /\ st[2].line = x /\ x >= 0 /\ "eoi" \in g[2].m
      BY <2>1, Zenon DEF Serving
    <3>2. 2 \in 1 .. n /\ n + 1 >= 2
      BY <1>1, <3>1
    <3> QED BY <1>2, <3>1, <3>2, Zenon
  <2>2. CASE x \notin is
    <3>1. n = 1 /\ f.line = x /\ x >= 0 /\ "eoi" \in t.m
      BY <2>2, Zenon DEF Adds
    <3>2. n + 1 = 2 /\ n + 1 >= 2
      BY <3>1
    <3> QED BY <1>2, <3>1, <3>2, Zenon
  <2> QED BY <2>1, <2>2, Zenon
<1> QED BY <1>3, <1>4

\* A frame is put on top.
LEMMA Push ==
  ASSUME NEW g, NEW st, NEW fl, NEW he, NEW is, NEW re, NEW sk,
         Holds(g, st, fl, he, is, re, sk),
         NEW n, n = Len(st),
         NEW f, NEW t, Fits(f, t, FALSE), NEW im, NEW km, NEW sm,
         Adds(n, st, fl, he, is, sk, f, t, im, km, sm)
  PROVE  Stands(sm, FALSE, he, im, re, km)
<1>1. Frames(g, st, fl) /\ Shape(g, st) /\ Owned(g, n, he) /\ Noted(g, st, sk)
      /\ Informed(g, n, re) /\ Serving(g, st, is)
  BY DEF Holds
<1>2. t.h = {} /\ f.flag = fl /\ sm = Append(st, f)
  BY Zenon DEF Adds
<1>3. f \in FrameSet
  BY Zenon DEF Fits
<1>4. n \in Nat /\ n > 0 /\ st \in Seq(FrameSet)
  BY <1>1 DEF Frames
<1>5. PICK k : Grows(k, g, n, t, sm, st, f)
  BY <1>2, <1>3, <1>4, GrowsExists, Zenon
<1>6. Frames(k, sm, FALSE)
  BY <1>1, <1>2, <1>5, PushFrames, Zenon
<1>7. Shape(k, sm)
  BY <1>1, <1>5, PushShape, Zenon
<1>8. Owned(k, n + 1, he)
  BY <1>1, <1>2, <1>5, PushOwned, Zenon
<1>9. Noted(k, sm, km)
  BY <1>1, <1>5, PushNoted, Zenon
<1>10. Informed(k, n + 1, re) /\ Serving(k, sm, im)
  BY <1>1, <1>5, PushRest, Zenon
<1>11. Len(sm) = n + 1
  BY <1>5 DEF Grows
<1> QED BY <1>6, <1>7, <1>8, <1>9, <1>10, <1>11, Zenon DEF Holds, Stands

\* The top frame is at its end and goes.
LEMMA Pop ==
  ASSUME NEW g, NEW st, NEW fl, NEW he, NEW is, NEW re, NEW sk,
         Holds(g, st, fl, he, is, re, sk),
         NEW n \in Nat, Len(st) = n + 1, n > 0, Done(g[n + 1]),
         NEW sm, sm \in Seq(FrameSet), Len(sm) = n, \A i \in 1 .. n : sm[i] = st[i]
  PROVE  Stands(sm, st[n + 1].flag, he, is, re, sk)
<1>a. Frames(g, st, fl) /\ Shape(g, st) /\ Owned(g, n + 1, he) /\ Noted(g, st, sk)
      /\ Informed(g, n + 1, re) /\ Serving(g, st, is)
  BY DEF Holds
<1>1. ASSUME NEW i \in 1 .. n + 1 PROVE i = n + 1 \/ i \in 1 .. n
  OBVIOUS
<1>2. \A i \in 1 .. n : i \in 1 .. n + 1
  OBVIOUS
<1>3. Frames(g, sm, st[n + 1].flag)
  <2> SUFFICES ASSUME NEW i \in 1 .. n
               PROVE  Fits(sm[i], g[i], FlagOf(sm, st[n + 1].flag, i))
    BY Zenon DEF Frames
  <2>1. FlagOf(sm, st[n + 1].flag, i) = FlagOf(st, fl, i)
    <3>0. i # n + 1
      OBVIOUS
    <3>1. CASE i = n
      BY <3>0, <3>1, Zenon DEF FlagOf
    <3>2. CASE i # n
      <4>1. i + 1 \in 1 .. n
        BY <3>2
      <4> QED BY <3>0, <3>2, <4>1, Zenon DEF FlagOf
    <3> QED BY <3>1, <3>2, Zenon
  <2> QED BY <1>2, <1>a, <2>1, Zenon DEF Frames
<1>4. Shape(g, sm)
  <2>1. 1 \in 1 .. n /\ \A i \in 2 .. n : i \in 1 .. n /\ i \in 2 .. n + 1
    OBVIOUS
  <2> QED BY <1>a, <2>1, Zenon DEF Shape
<1>5. Owned(g, n, he)
  <2>1. \A l : l \notin g[n + 1].h
    BY DEF Done
  <2>2. /\ \A l : l \in he <=> \E i \in 1 .. n + 1 : l \in g[i].h
        /\ \A i, j \in 1 .. n + 1 : \A l : l \in g[i].h /\ l \in g[j].h => i = j
    BY <1>a, Zenon DEF Owned
  <2>3. \A l : l \in he <=> \E i \in 1 .. n : l \in g[i].h
    BY <1>1, <1>2, <2>1, <2>2
  <2>4. \A i, j \in 1 .. n : \A l : l \in g[i].h /\ l \in g[j].h => i = j
    BY <1>2, <2>2, Zenon
  <2> QED BY <2>3, <2>4, Zenon DEF Owned
<1>6. Noted(g, sm, sk)
  <2>1. \A i \in 1 .. n - 1 : i \in 1 .. n /\ i + 1 \in 1 .. n /\ i \in 1 .. (n + 1) - 1
    OBVIOUS
  <2> QED BY <1>a, <2>1, Zenon DEF Noted
<1>7. Informed(g, n, re)
  BY <1>2, <1>a, Zenon DEF Informed
<1>8. Serving(g, sm, is)
  <2> SUFFICES ASSUME NEW x \in is
               PROVE  n >= 2 /\ sm[2].line = x /\ x >= 0 /\ "eoi" \in g[2].m
    BY DEF Serving
  <2>1. st[2].line = x /\ x >= 0 /\ "eoi" \in g[2].m
    BY <1>a, Zenon DEF Serving
  <2>2. n + 1 # 2
    BY <2>1, Zenon DEF Done
  <2>3. 2 \in 1 .. n /\ n >= 2
    BY <2>2
  <2> QED BY <2>1, <2>3, Zenon
<1> QED BY <1>3, <1>4, <1>5, <1>6, <1>7, <1>8, Zenon DEF Holds, Stands

-----------------------------------------------------------------------------
\* One path after the other.
LEMMA GoesCat ==
  ASSUME NEW k, NEW p, NEW q, NEW s, NEW t, NEW u,
         Goes(k, p, s, t), Goes(k, q, t, u)
  PROVE  Goes(k, p \o q, s, u)
<1>1. p \in Seq(Ops) /\ q \in Seq(Ops)
  BY DEF Goes
<1>2. PICK a : Marks(k, p, a) /\ a[0] = s /\ a[Len(p)] = t
  BY DEF Goes
<1>3. PICK b : Marks(k, q, b) /\ b[0] = t /\ b[Len(q)] = u
  BY DEF Goes
<1>4. PICK x, y, r : x = Len(p) /\ y = Len(q) /\ r = p \o q
  BY Zenon
<1>5. /\ x \in Nat /\ y \in Nat /\ r \in Seq(Ops) /\ Len(r) = x + y
      /\ \A i \in 1 .. x + y : r[i] = IF i <= x THEN p[i] ELSE q[i - x]
  BY <1>1, <1>4, ConcatProperties
<1>6. /\ a \in [0 .. x -> Points] /\ b \in [0 .. y -> Points]
      /\ \A i \in 1 .. x : Moves(k, a[i - 1], p[i], a[i])
      /\ \A i \in 1 .. y : Moves(k, b[i - 1], q[i], b[i])
      /\ a[0] = s /\ a[x] = t /\ b[0] = t /\ b[y] = u
  BY <1>2, <1>3, <1>4 DEF Marks
<1> DEFINE c == [i \in 0 .. x + y |-> IF i <= x THEN a[i] ELSE b[i - x]]
<1>7. c \in [0 .. x + y -> Points] /\ c[0] = s /\ c[x + y] = u
  <2>1. \A i \in 0 .. x + y : (IF i <= x THEN a[i] ELSE b[i - x]) \in Points
    BY <1>5, <1>6
  <2>2. c[0] = s
    BY <1>5, <1>6
  <2>3. c[x + y] = u
    BY <1>5, <1>6
  <2> QED BY <2>1, <2>2, <2>3
<1>8. ASSUME NEW i \in 1 .. x + y PROVE Moves(k, c[i - 1], r[i], c[i])
  <2>1. CASE i <= x
    <3>1. i \in 1 .. x /\ c[i - 1] = a[i - 1] /\ c[i] = a[i] /\ r[i] = p[i]
      BY <1>5, <2>1
    <3> QED BY <1>6, <3>1
  <2>2. CASE i > x
    <3>1. PICK j : j = i - x
      OBVIOUS
    <3>2. j \in 1 .. y /\ r[i] = q[j] /\ c[i] = b[j]
      BY <1>5, <2>2, <3>1
    <3>3. c[i - 1] = b[j - 1]
      <4>1. CASE j = 1
        <5>1. i - 1 = x /\ j - 1 = 0
          BY <1>5, <3>1, <4>1
        <5> QED BY <1>5, <1>6, <5>1
      <4>2. CASE j # 1
        <5>1. ~(i - 1 <= x) /\ (i - 1) - x = j - 1 /\ i - 1 \in 0 .. x + y
          BY <1>5, <3>1, <3>2, <4>2
        <5> QED BY <5>1
      <4> QED BY <4>1, <4>2
    <3> QED BY <1>6, <3>2, <3>3
  <2> QED BY <1>5, <2>1, <2>2
<1> HIDE DEF c
<1>9. Marks(k, r, c) /\ c[0] = s /\ c[Len(r)] = u
  BY <1>5, <1>7, <1>8 DEF Marks
<1> QED BY <1>4, <1>5, <1>9 DEF Goes

\* No operation, and one.
LEMMA GoesNot == ASSUME NEW k, NEW s \in Points PROVE Goes(k, << >>, s, s)
<1> DEFINE a == [i \in 0 .. 0 |-> s]
<1>1. Marks(k, << >>, a) /\ a[0] = s /\ a[Len(<< >>)] = s
  BY DEF Marks
<1> QED BY <1>1 DEF Goes

\* A path of one operation.
LEMMA GoesOne ==
  ASSUME NEW k, NEW s \in Points, NEW t, NEW o \in Ops, Moves(k, s, o, t)
  PROVE  Goes(k, << o >>, s, t)
<1> DEFINE a == [i \in 0 .. 1 |-> IF i = 0 THEN s ELSE t]
<1>1. t \in Points
  BY DEF Moves
<1>2. a \in [0 .. 1 -> Points] /\ a[0] = s /\ a[1] = t
  BY <1>1
<1> HIDE DEF a
<1>3. PICK p : p = << o >>
  BY Zenon
<1>4. p \in Seq(Ops) /\ Len(p) = 1 /\ p[1] = o
  BY <1>3
<1>5. Marks(k, p, a) /\ a[Len(p)] = t
  BY <1>2, <1>4 DEF Marks
<1> QED BY <1>2, <1>3, <1>4, <1>5 DEF Goes

\* A path has a first operation and a rest, or has come to its end.
LEMMA GoesFirst ==
  ASSUME NEW k, NEW p, NEW s, NEW t, Goes(k, p, s, t)
  PROVE  /\ p \in Seq(Ops) /\ s \in Points
         /\ p = << >> => s = t
         /\ p # << >> => \E u : Moves(k, s, Head(p), u) /\ Goes(k, Tail(p), u, t)
<1>1. p \in Seq(Ops)
  BY DEF Goes
<1>2. PICK a : Marks(k, p, a) /\ a[0] = s /\ a[Len(p)] = t
  BY DEF Goes
<1>3. s \in Points
  BY <1>1, <1>2 DEF Marks
<1>4. CASE p = << >>
  BY <1>1, <1>2, <1>3, <1>4
<1>5. CASE p # << >>
  <2>1. PICK q : q = Tail(p)
    BY Zenon
  <2>2. PICK x \in Nat : x = Len(q)
    BY <1>1, <1>5, <2>1, HeadTailProperties
  <2>3. /\ q \in Seq(Ops) /\ Len(p) = x + 1 /\ Head(p) = p[1]
        /\ \A i \in 1 .. x : q[i] = p[i + 1]
    BY <1>1, <1>5, <2>1, <2>2, HeadTailProperties
  <2>4. /\ a \in [0 .. x + 1 -> Points]
        /\ \A i \in 1 .. x + 1 : Moves(k, a[i - 1], p[i], a[i])
    BY <1>2, <2>3 DEF Marks
  <2> DEFINE b == [i \in 0 .. x |-> a[i + 1]]
  <2>5. b \in [0 .. x -> Points] /\ b[0] = a[1] /\ b[x] = a[x + 1]
    BY <2>4
  <2>6. ASSUME NEW i \in 1 .. x PROVE Moves(k, b[i - 1], q[i], b[i])
    <3>1. PICK j \in 1 .. x + 1 : j = i + 1
      OBVIOUS
    <3>2. j - 1 = i /\ b[i - 1] = a[i] /\ b[i] = a[j] /\ q[i] = p[j]
      BY <2>3, <2>4, <3>1
    <3> QED BY <2>4, <3>1, <3>2
  <2> HIDE DEF b
  <2>7. Marks(k, q, b) /\ b[Len(q)] = t
    BY <1>2, <2>2, <2>3, <2>5, <2>6 DEF Marks
  <2>8. Goes(k, q, a[1], t)
    BY <2>3, <2>5, <2>7 DEF Goes
  <2>9. Moves(k, s, Head(p), a[1])
    <3>1. 1 \in 1 .. x + 1 /\ 1 - 1 = 0
      OBVIOUS
    <3> QED BY <1>2, <2>3, <2>4, <3>1
  <2> QED BY <1>1, <1>3, <1>5, <2>1, <2>8, <2>9
<1> QED BY <1>1, <1>3, <1>4, <1>5

-----------------------------------------------------------------------------
(* Where an operation leads, one lemma for each.                            *)

\* The parts of a point.
LEMMA AtIs ==
  ASSUME NEW a, NEW b, NEW c, NEW u, u = At(a, b, c)
  PROVE  u.n = a /\ u.h = b /\ u.m = c
BY DEF At

\* Disabling interrupts.
LEMMA CliMove ==
  ASSUME NEW k, NEW s, NEW o, NEW u, Moves(k, s, o, u), o.op = "cli"
  PROVE  /\ u \in Points /\ Open(u) /\ u.n = s.n + 1 /\ u.h = s.h /\ u.m = s.m
<1>1. u \in Points /\ Open(u) /\ u = At(s.n + 1, s.h, s.m)
  BY DEF Moves
<1> QED BY <1>1, AtIs

\* Restoring them.
LEMMA RestoreMove ==
  ASSUME NEW k, NEW s, NEW o, NEW u, Moves(k, s, o, u), o.op = "restore"
  PROVE  /\ u \in Points /\ Open(u) /\ u.n = s.n - 1 /\ u.h = s.h /\ u.m = s.m
         /\ s.n > 0
<1>1. u \in Points /\ Open(u) /\ u = At(s.n - 1, s.h, s.m) /\ s.n > 0
  BY DEF Moves
<1> QED BY <1>1, AtIs

\* Enabling them.
LEMMA StiMove ==
  ASSUME NEW k, NEW s, NEW o, NEW u, Moves(k, s, o, u), o.op = "sti"
  PROVE  /\ u \in Points /\ Open(u) /\ u.n = s.n /\ u.h = s.h /\ u.m = s.m \cup {"sti"}
         /\ k = "main" /\ s.n = 0 /\ Parts \subseteq s.m
<1>1. /\ u \in Points /\ Open(u) /\ u = At(s.n, s.h, s.m \cup {"sti"})
      /\ k = "main" /\ s.n = 0 /\ Parts \subseteq s.m
  BY DEF Moves
<1> QED BY <1>1, AtIs

\* Taking a lock.
LEMMA LockMove ==
  ASSUME NEW k, NEW s, NEW o, NEW u, Moves(k, s, o, u), o.op = "lock"
  PROVE  /\ u \in Points /\ Open(u) /\ u.n = s.n /\ u.h = s.h \cup {o.arg} /\ u.m = s.m
         /\ o.arg \in LocksOf(k) /\ o.arg \notin s.h
<1>1. /\ u \in Points /\ Open(u) /\ u = At(s.n, s.h \cup {o.arg}, s.m)
      /\ o.arg \in LocksOf(k) /\ o.arg \notin s.h
  BY DEF Moves
<1> QED BY <1>1, AtIs

\* Releasing one.
LEMMA UnlockMove ==
  ASSUME NEW k, NEW s, NEW o, NEW u, Moves(k, s, o, u), o.op = "unlock"
  PROVE  /\ u \in Points /\ Open(u) /\ u.n = s.n /\ u.h = s.h \ {o.arg} /\ u.m = s.m
         /\ o.arg \in s.h
<1>1. u \in Points /\ Open(u) /\ u = At(s.n, s.h \ {o.arg}, s.m) /\ o.arg \in s.h
  BY DEF Moves
<1> QED BY <1>1, AtIs

\* Ending an interrupt.
LEMMA EoiMove ==
  ASSUME NEW k, NEW s, NEW o, NEW u, Moves(k, s, o, u), o.op = "eoi"
  PROVE  /\ u \in Points /\ Open(u) /\ u.n = s.n /\ u.h = s.h /\ u.m = s.m \ {"eoi"}
<1>1. u \in Points /\ Open(u) /\ u = At(s.n, s.h, s.m \ {"eoi"})
  BY DEF Moves
<1> QED BY <1>1, AtIs

\* Announcing a part.
LEMMA ReadyMove ==
  ASSUME NEW k, NEW s, NEW o, NEW u, Moves(k, s, o, u), o.op = "ready"
  PROVE  /\ u \in Points /\ Open(u) /\ u.n = s.n /\ u.h = s.h /\ u.m = s.m \cup {o.arg}
         /\ o.arg \in Announced
<1>1. u \in Points /\ Open(u) /\ u = At(s.n, s.h, s.m \cup {o.arg}) /\ o.arg \in Announced
  BY DEF Moves
<1> QED BY <1>1, AtIs

\* Turning interrupts off in a panic, and an allocation, stay where they are.
LEMMA StayMove ==
  ASSUME NEW k, NEW s, NEW o, NEW u, Moves(k, s, o, u), o.op \in {"off", "may_panic"}
  PROVE  u = s /\ (o.op = "may_panic" => k = "main" /\ s.h \cap Printing = {})
BY DEF Moves

-----------------------------------------------------------------------------
(* The paths of the kernel, from the inside out.                            *)

In(s) == At(s.n + 1, s.h, s.m)
With(s, l) == At(s.n, s.h \cup {l}, s.m)

\* Interrupts are off here.
Quiet(s) == s.n > 0 \/ "sti" \notin s.m

\* A point inside one more section with interrupts off.
LEMMA InIs ==
  ASSUME NEW s \in Points
  PROVE  /\ In(s) \in Points /\ In(s).n = s.n + 1 /\ In(s).h = s.h /\ In(s).m = s.m
         /\ Open(In(s)) /\ Quiet(In(s))
BY DEF In, At, Points, Open, Quiet

\* A point with one more lock.
LEMMA WithIs ==
  ASSUME NEW s \in Points, NEW l \in Locks
  PROVE  /\ With(s, l) \in Points
         /\ With(s, l).n = s.n /\ With(s, l).h = s.h \cup {l} /\ With(s, l).m = s.m
         /\ Quiet(s) => Open(With(s, l)) /\ Quiet(With(s, l)) /\ Open(s)
         /\ Open(s) /\ l \notin Shared => Open(With(s, l))
BY DEF With, At, Points, Open, Quiet

\* An operation with no argument.
LEMMA OpIs ==
  ASSUME NEW o \in OpNames, NEW l \in Args
  PROVE  Op(o, l) \in Ops /\ Op(o, l).op = o /\ Op(o, l).arg = l
BY DEF Op, Ops

\* The names of operations and arguments.
LEMMA Ops0 ==
  /\ OpNames = {"cli", "restore", "sti", "off", "lock", "unlock", "eoi", "ready",
                "may_panic", "halt"}
  /\ "" \in Args /\ Locks \subseteq Args /\ Announced \subseteq Args
BY Zenon DEF OpNames, Args

\* Which locks are whose.
LEMMA LockNames ==
  /\ {"SERIAL1", "WRITER", "KEYBOARD", "KEY_BUFFER", "PROCESS_TABLE", "PICS",
      "ALLOCATOR", "PCI_LOCK", "FD_TABLE"} \subseteq Locks
  /\ LocksOf("main") = Locks
  /\ {"SERIAL1", "KEYBOARD", "KEY_BUFFER", "PROCESS_TABLE", "PICS"} \subseteq LocksOf("irq")
  /\ {"SERIAL1", "WRITER"} \subseteq LocksOf("exc")
  /\ "ALLOCATOR" \notin Shared /\ "FD_TABLE" \notin Shared
BY DEF LocksOf, Locks, Shared, Printing

\* without_interrupts.
LEMMA GuardedGoes ==
  ASSUME NEW k, NEW s \in Points, Open(s), NEW p, Goes(k, p, In(s), In(s))
  PROVE  Goes(k, Guarded(p), s, s)
<1> DEFINE c == Op("cli", "")
           r == Op("restore", "")
           u == In(s)
<1>1. c \in Ops /\ c.op = "cli" /\ r \in Ops /\ r.op = "restore"
  <2>1. "cli" \in OpNames /\ "restore" \in OpNames /\ "" \in Args
    BY Ops0, Zenon
  <2>2. c \in Ops /\ c.op = "cli"
    BY <2>1, OpIs, Zenon
  <2>3. r \in Ops /\ r.op = "restore"
    BY <2>1, OpIs, Zenon
  <2> QED BY <2>2, <2>3, Zenon
<1>2. u \in Points /\ Open(u) /\ u.n = s.n + 1 /\ u.h = s.h /\ u.m = s.m
  BY InIs
<1>3. u = At(s.n + 1, s.h, s.m)
  BY DEF In
<1>4. s = At(u.n - 1, u.h, u.m) /\ u.n > 0
  BY <1>2 DEF At, Points
<1> HIDE DEF c, r, u
<1>5. Moves(k, s, c, u)
  BY <1>1, <1>2, <1>3 DEF Moves
<1>6. Moves(k, u, r, s)
  BY <1>1, <1>4 DEF Moves
<1>7. Goes(k, << c >>, s, u) /\ Goes(k, << r >>, u, s)
  BY <1>1, <1>2, <1>5, <1>6, GoesOne
<1>8. Goes(k, << c >> \o p, s, u)
  BY <1>7, GoesCat DEF u
<1>9. Goes(k, << c >> \o p \o << r >>, s, s)
  BY <1>7, <1>8, GoesCat
<1> QED BY <1>9, Zenon DEF Guarded, c, r

\* A lock held over p.
LEMMA HoldingGoes ==
  ASSUME NEW k, NEW s \in Points, Open(s), NEW l \in Locks,
         l \in LocksOf(k), l \notin s.h, Open(With(s, l)),
         NEW p, Goes(k, p, With(s, l), With(s, l))
  PROVE  Goes(k, Holding(l, p), s, s)
<1> DEFINE c == Op("lock", l)
           r == Op("unlock", l)
           u == With(s, l)
<1>1. c \in Ops /\ c.op = "lock" /\ r \in Ops /\ r.op = "unlock" /\ c.arg = l /\ r.arg = l
  BY OpIs, Ops0, ZenonT(40)
<1>2. u \in Points /\ Open(u) /\ u.n = s.n /\ u.h = s.h \cup {l} /\ u.m = s.m
  BY WithIs, LockNames, Zenon
<1>3. u = At(s.n, s.h \cup {l}, s.m)
  BY DEF With
<1>4. s = At(u.n, u.h \ {l}, u.m) /\ l \in u.h
  <2>1. u.h \ {l} = s.h
    BY <1>2, SMTT(30)
  <2> QED BY <1>2, <2>1 DEF At, Points
<1> HIDE DEF c, r, u
<1>5. Moves(k, s, c, u)
  BY <1>1, <1>2, <1>3, SMTT(30) DEF Moves
<1>6. Moves(k, u, r, s)
  BY <1>1, <1>4, SMTT(30) DEF Moves
<1>7. Goes(k, << c >>, s, u) /\ Goes(k, << r >>, u, s)
  BY <1>1, <1>2, <1>5, <1>6, GoesOne
<1>8. Goes(k, << c >> \o p, s, u)
  BY <1>7, GoesCat DEF u
<1>9. Goes(k, << c >> \o p \o << r >>, s, s)
  BY <1>7, <1>8, GoesCat, SMTT(30)
<1> QED BY <1>9 DEF Holding, c, r

\* The same where interrupts are off, and with nothing done under the lock.
LEMMA QuietHolding ==
  ASSUME NEW k, NEW s \in Points, Quiet(s), NEW l \in Locks,
         l \in LocksOf(k), l \notin s.h,
         NEW p, Goes(k, p, With(s, l), With(s, l))
  PROVE  Goes(k, Holding(l, p), s, s)
BY WithIs, HoldingGoes

\* A lock is taken and released where no interrupt can come.
LEMMA QuietLock ==
  ASSUME NEW k, NEW s \in Points, Quiet(s), NEW l \in Locks,
         l \in LocksOf(k), l \notin s.h
  PROVE  Goes(k, Holding(l, << >>), s, s)
BY WithIs, GoesNot, QuietHolding

\* without_interrupts around a locked section (Guarded of Holding), at any point.
LEMMA GuardedLock ==
  ASSUME NEW k, NEW s \in Points, Open(s), NEW l \in Locks,
         l \in LocksOf(k), l \notin s.h
  PROVE  Goes(k, Guarded(Holding(l, << >>)), s, s)
<1>1. In(s) \in Points /\ Quiet(In(s)) /\ l \notin In(s).h
  BY InIs
<1>2. Goes(k, Holding(l, << >>), In(s), In(s))
  BY <1>1, QuietLock
<1> QED BY <1>2, GuardedGoes

Kinds == {"main", "irq", "exc"}

\* serial::_print leaves a frame where it found it, if it does not hold SERIAL1.
LEMMA SerialGoes ==
  ASSUME NEW k \in Kinds, NEW s \in Points, Open(s), "SERIAL1" \notin s.h
  PROVE  Goes(k, SerialPrint, s, s)
<1>1. "SERIAL1" \in LocksOf(k)
  BY LockNames DEF Kinds
<1> QED BY <1>1, GuardedLock, LockNames DEF SerialPrint

\* vga::_print leaves a frame where it found it, if it does not hold WRITER.
LEMMA KprintGoes ==
  ASSUME NEW k \in {"main", "exc"}, NEW s \in Points, Open(s), "WRITER" \notin s.h
  PROVE  Goes(k, Kprint, s, s)
<1>1. "WRITER" \in LocksOf(k)
  BY LockNames
<1> QED BY <1>1, GuardedLock, LockNames DEF Kprint

\* An allocation leaves a frame where it found it, if the frame can still print a panic.
LEMMA AllocGoes ==
  ASSUME NEW s \in Points, Open(s), "ALLOCATOR" \notin s.h, s.h \cap Printing = {}
  PROVE  Goes("main", Alloc, s, s)
<1> DEFINE o == Op("may_panic", "")
<1>1. With(s, "ALLOCATOR") \in Points /\ Open(With(s, "ALLOCATOR"))
  BY WithIs, LockNames
<1>2. Goes("main", Holding("ALLOCATOR", << >>), s, s)
  BY <1>1, HoldingGoes, GoesNot, LockNames
<1>3. o \in Ops /\ o.op = "may_panic"
  BY OpIs, Ops0, Zenon
<1> HIDE DEF o
<1>4. Moves("main", s, o, s)
  BY <1>3 DEF Moves
<1>5. Goes("main", << o >>, s, s)
  BY <1>3, <1>4, GoesOne
<1> QED BY <1>2, <1>5, GoesCat, Zenon DEF Alloc, o

\* Decoding a scancode (add_scancode), in the interrupt handler and in a poll.
LEMMA DecodeGoes ==
  ASSUME NEW k \in {"main", "irq"}, NEW s \in Points, Quiet(s),
         "SERIAL1" \notin s.h, "KEYBOARD" \notin s.h
  PROVE  Goes(k, DecodeScancode, s, s)
<1> DEFINE u == With(s, "KEYBOARD")
<1>1. u \in Points /\ Open(u) /\ u.h = s.h \cup {"KEYBOARD"}
  BY WithIs, LockNames, Zenon
<1> HIDE DEF u
<1>2. "SERIAL1" \notin u.h /\ k \in Kinds /\ "KEYBOARD" \in LocksOf(k)
  BY <1>1, LockNames DEF Kinds
<1>3. Goes(k, SerialPrint, u, u)
  BY <1>1, <1>2, SerialGoes
<1> QED BY <1>2, <1>3, QuietHolding, LockNames DEF DecodeScancode, u

\* The scheduler's locked section, from the timer handler or a call.
LEMMA ScheduleGoes ==
  ASSUME NEW s \in Points, Quiet(s), "SERIAL1" \notin s.h, "PROCESS_TABLE" \notin s.h
  PROVE  Goes("irq", Schedule, s, s)
<1> DEFINE u == With(s, "PROCESS_TABLE")
<1>1. u \in Points /\ Open(u) /\ u.h = s.h \cup {"PROCESS_TABLE"}
  BY WithIs, LockNames, Zenon
<1> HIDE DEF u
<1>2. "SERIAL1" \notin u.h /\ "irq" \in Kinds /\ "PROCESS_TABLE" \in LocksOf("irq")
  BY <1>1, LockNames DEF Kinds
<1>3. Goes("irq", SerialPrint, u, u)
  BY <1>1, <1>2, SerialGoes
<1> QED BY <1>2, <1>3, QuietHolding, LockNames DEF Schedule, u

-----------------------------------------------------------------------------
\* Operations that leave the point where it is.
LEMMA StayGoes ==
  ASSUME NEW k, NEW s \in Points, Open(s), NEW o \in Ops,
         \/ o.op = "off"
         \/ o.op = "may_panic" /\ k = "main" /\ s.h \cap Printing = {}
  PROVE  Goes(k, << o >>, s, s)
<1>1. Moves(k, s, o, s)
  BY DEF Moves
<1> QED BY <1>1, GoesOne

\* The panic path never ends.
LEMMA PanicFinishes ==
  ASSUME NEW k \in {"main", "exc"}, NEW s \in Points, Open(s), s.h \cap Printing = {}
  PROVE  Finishes(k, Panic, s)
<1> DEFINE o == Op("off", "")
           e == Op("halt", "")
           t == At(0, {}, {})
<1>1. o \in Ops /\ o.op = "off"
  BY OpIs, Ops0, ZenonT(40)
<1>2. e \in Ops /\ e.op = "halt"
  BY OpIs, Ops0, Zenon
<1>3. "SERIAL1" \notin s.h /\ "WRITER" \notin s.h /\ k \in Kinds
  BY DEF Printing, Kinds
<1>4. t \in Points /\ Open(t) /\ Done(t)
  BY DEF At, Points, Open, Done
<1> HIDE DEF o, e, t
<1>5. Goes(k, << o >>, s, s)
  BY <1>1, StayGoes
<1>6. Goes(k, SerialPrint, s, s)
  BY <1>3, SerialGoes
<1>7. Goes(k, Kprint, s, s)
  BY <1>3, KprintGoes
<1>8. Moves(k, s, e, t)
  BY <1>2, <1>4 DEF Moves
<1>9. Goes(k, << e >>, s, t)
  BY <1>2, <1>8, GoesOne
<1>10. Goes(k, << o >> \o SerialPrint, s, s)
  BY <1>5, <1>6, GoesCat
<1>11. Goes(k, << o >> \o SerialPrint \o Kprint, s, s)
  BY <1>7, <1>10, GoesCat
<1>12. Goes(k, << o >> \o SerialPrint \o Kprint \o << e >>, s, t)
  BY <1>9, <1>11, GoesCat
<1> QED BY <1>4, <1>12, Zenon DEF Finishes, Panic, o, e

\* Where a frame that interrupts another starts.
Rest == At(0, {}, {})
Owes == At(0, {}, {"eoi"})

\* The points where kernel_main and an exception handler, and an interrupt handler, start.
LEMMA Starts ==
  /\ Rest \in Points /\ Rest.n = 0 /\ Rest.h = {} /\ Rest.m = {} /\ Open(Rest) /\ Quiet(Rest) /\ Done(Rest)
  /\ Owes \in Points /\ Owes.n = 0 /\ Owes.h = {} /\ Owes.m = {"eoi"} /\ Open(Owes) /\ Quiet(Owes)
BY DEF Rest, Owes, At, Points, Open, Quiet, Done

\* The exception handlers.
LEMMA ExceptionFinishes ==
  ASSUME NEW kind \in Exceptions
  PROVE  Finishes("exc", ExceptionHandler(kind), Rest)
<1>1. Rest.h \cap Printing = {} /\ "SERIAL1" \notin Rest.h /\ "exc" \in Kinds
  BY Starts DEF Kinds
<1>2. Finishes("exc", Panic, Rest)
  BY <1>1, Starts, PanicFinishes
<1>3. Goes("exc", SerialPrint, Rest, Rest)
  BY <1>1, Starts, SerialGoes
<1>4. Finishes("exc", SerialPrint, Rest)
  BY <1>3, Starts DEF Finishes
<1> QED BY <1>2, <1>4 DEF ExceptionHandler

\* The end of an interrupt.
LEMMA EoiGoes == Goes("irq", EndOfInterrupt, Owes, Rest)
<1> DEFINE o == Op("eoi", "")
           c == Op("lock", "PICS")
           r == Op("unlock", "PICS")
           u == At(0, {"PICS"}, {"eoi"})
           v == At(0, {"PICS"}, {})
<1>1. o \in Ops /\ o.op = "eoi"
  BY OpIs, Ops0, Zenon
<1>2. c \in Ops /\ c.op = "lock" /\ c.arg = "PICS"
  BY OpIs, Ops0, LockNames, Zenon
<1>3. r \in Ops /\ r.op = "unlock" /\ r.arg = "PICS"
  BY OpIs, Ops0, LockNames, Zenon
<1>4. /\ u \in Points /\ u.n = 0 /\ u.h = {"PICS"} /\ u.m = {"eoi"} /\ Open(u)
      /\ v \in Points /\ v.n = 0 /\ v.h = {"PICS"} /\ v.m = {} /\ Open(v)
  BY LockNames DEF At, Points, Open
<1>5. /\ u = At(Owes.n, Owes.h \cup {"PICS"}, Owes.m)
      /\ v = At(u.n, u.h, u.m \ {"eoi"})
      /\ Rest = At(v.n, v.h \ {"PICS"}, v.m)
  <2>1. Owes.h \cup {"PICS"} = {"PICS"} /\ {"eoi"} \ {"eoi"} = {} /\ {"PICS"} \ {"PICS"} = {}
    BY Starts
  <2> QED BY <1>4, <2>1, Starts, Zenon DEF Rest
<1> HIDE DEF o, c, r, u, v
<1>6. Moves("irq", Owes, c, u)
  BY <1>2, <1>4, <1>5, Starts, LockNames, ZenonT(40) DEF Moves
<1>7. Moves("irq", u, o, v)
  BY <1>1, <1>4, <1>5, Zenon DEF Moves
<1>8. Moves("irq", v, r, Rest)
  BY <1>3, <1>4, <1>5, Starts, ZenonT(40) DEF Moves
<1>9. /\ Goes("irq", << c >>, Owes, u) /\ Goes("irq", << o >>, u, v)
      /\ Goes("irq", << r >>, v, Rest)
  BY <1>1, <1>2, <1>3, <1>4, <1>6, <1>7, <1>8, Starts, GoesOne
<1>10. Goes("irq", << c >> \o << o >>, Owes, v)
  BY <1>9, GoesCat
<1>11. Goes("irq", << c >> \o << o >> \o << r >>, Owes, Rest)
  BY <1>9, <1>10, GoesCat
<1> QED BY <1>11, Zenon DEF EndOfInterrupt, Holding, o, c, r

\* The interrupt handlers: locks only where interrupts are off, one end of interrupt.
LEMMA HandlerFinishes ==
  ASSUME NEW line
  PROVE  Finishes("irq", Handler(line), Owes)
<1>0. /\ Owes \in Points /\ Quiet(Owes) /\ Open(Owes) /\ \A l : l \notin Owes.h
      /\ "irq" \in {"main", "irq"}
  BY Starts
<1>1. Goes("irq", DecodeScancode, Owes, Owes)
  BY <1>0, DecodeGoes
<1>2. Goes("irq", Holding("KEY_BUFFER", << >>), Owes, Owes)
  BY <1>0, LockNames, QuietLock
<1>3. Goes("irq", HandleInterrupt, Owes, Owes)
  BY <1>1, <1>2, GoesCat DEF HandleInterrupt
<1>4. Goes("irq", KeyboardHandler, Owes, Rest)
  BY <1>3, EoiGoes, GoesCat DEF KeyboardHandler
<1>5. Goes("irq", DispatchSignals, Owes, Owes)
  BY <1>0, LockNames, GuardedLock DEF DispatchSignals
<1>6. Goes("irq", Schedule, Owes, Owes)
  BY <1>0, ScheduleGoes
<1>7. Goes("irq", DispatchSignals \o Schedule, Owes, Owes)
  BY <1>5, <1>6, GoesCat
<1>8. Goes("irq", TimerHandler, Owes, Rest)
  BY <1>7, EoiGoes, GoesCat DEF TimerHandler
<1>9. Handler(line) \in {TimerHandler, KeyboardHandler, EndOfInterrupt}
  BY DEF Handler
<1> QED BY <1>4, <1>8, <1>9, EoiGoes, Starts DEF Finishes

-----------------------------------------------------------------------------
(* kernel_main.                                                             *)

\* The calls that take no lock of a handler with interrupts enabled.
GuardedCalls ==
  {"write", "read_key", "fork", "execve", "waitpid", "kill", "open", "read_file", "write_tty"}

\* fork and execve allocate under PROCESS_TABLE with interrupts off, where a panic can
\* still print, and waitpid frees under it.
LEMMA ForkGoes ==
  ASSUME NEW s \in Points, Open(s), s.h = {}
  PROVE  /\ Goes("main", Fork, s, s) /\ Goes("main", Execve, s, s)
         /\ Goes("main", Waitpid, s, s)
<1> DEFINE u == In(s)
           v == With(u, "PROCESS_TABLE")
<1>1. u \in Points /\ Quiet(u) /\ u.h = {}
  BY InIs
<1> HIDE DEF u
<1>2. v \in Points /\ Open(v) /\ v.h = u.h \cup {"PROCESS_TABLE"}
  BY <1>1, WithIs, LockNames, Zenon
<1> HIDE DEF v
<1>3. "ALLOCATOR" \notin v.h /\ v.h \cap Printing = {}
  BY <1>1, <1>2 DEF Printing
<1>4. Goes("main", Alloc, v, v)
  BY <1>2, <1>3, AllocGoes
<1>5. "PROCESS_TABLE" \notin u.h
  BY <1>1
<1>6. Goes("main", Holding("PROCESS_TABLE", Alloc), u, u)
  BY <1>1, <1>4, <1>5, LockNames, QuietHolding DEF v
<1>7. Goes("main", Fork, s, s) /\ Goes("main", Execve, s, s)
  BY <1>6, GuardedGoes DEF Fork, Execve, u
<1>8. Goes("main", Free, v, v)
  <2>1. With(v, "ALLOCATOR") \in Points /\ Open(With(v, "ALLOCATOR"))
    BY <1>2, <1>3, WithIs, LockNames
  <2> QED BY <1>2, <1>3, <2>1, HoldingGoes, GoesNot, LockNames DEF Free
<1>9. Goes("main", Holding("PROCESS_TABLE", Free), u, u)
  BY <1>1, <1>5, <1>8, LockNames, QuietHolding DEF v
<1>10. Goes("main", Waitpid, s, s)
  BY <1>9, GuardedGoes DEF Waitpid, u
<1> QED BY <1>7, <1>10

\* File calls allocate and print under FD_TABLE with interrupts on: no handler takes it.
LEMMA FileGoes ==
  ASSUME NEW s \in Points, Open(s), s.h = {}
  PROVE  /\ Goes("main", Holding("FD_TABLE", Alloc), s, s)
         /\ Goes("main", Holding("FD_TABLE", SerialPrint), s, s)
<1> DEFINE v == With(s, "FD_TABLE")
<1>1. v \in Points /\ Open(v) /\ v.h = s.h \cup {"FD_TABLE"}
  BY WithIs, LockNames, Zenon
<1> HIDE DEF v
<1>2. "ALLOCATOR" \notin v.h /\ v.h \cap Printing = {} /\ "SERIAL1" \notin v.h
  BY <1>1 DEF Printing
<1>3. Goes("main", Alloc, v, v)
  BY <1>1, <1>2, AllocGoes
<1>4. Goes("main", SerialPrint, v, v)
  BY <1>1, <1>2, SerialGoes DEF Kinds
<1>5. "FD_TABLE" \notin s.h
  OBVIOUS
<1>6. Goes("main", Holding("FD_TABLE", Alloc), s, s)
  BY <1>1, <1>3, <1>5, LockNames, HoldingGoes DEF v
<1>7. Goes("main", Holding("FD_TABLE", SerialPrint), s, s)
  BY <1>1, <1>4, <1>5, LockNames, HoldingGoes, SMTT(30) DEF v
<1> QED BY <1>6, <1>7

\* Each call, from kernel_main at rest back to it.
LEMMA PathGoes ==
  ASSUME NEW s \in Points, Open(s), s.h = {}, NEW name \in GuardedCalls
  PROVE  Goes("main", Path(name), s, s)
<1>0. /\ "main" \in Kinds /\ "main" \in {"main", "exc"} /\ "main" \in {"main", "irq"}
      /\ \A l : l \notin s.h
      /\ s.h \cap Printing = {}
  BY DEF Kinds
<1>1. Goes("main", SerialPrint, s, s)
  BY <1>0, SerialGoes
<1>2. Goes("main", Kprint, s, s)
  BY <1>0, KprintGoes
<1>3. Goes("main", TryReadChar, s, s)
  BY <1>0, LockNames, GuardedLock DEF TryReadChar
<1>4. Goes("main", PollChar, s, s)
  <2>1. In(s) \in Points /\ Quiet(In(s)) /\ In(s).h = {}
    BY InIs
  <2>2. Goes("main", DecodeScancode, In(s), In(s))
    BY <1>0, <2>1, DecodeGoes
  <2> QED BY <2>2, GuardedGoes DEF PollChar
<1>5. Goes("main", TableCall, s, s)
  BY <1>0, LockNames, GuardedLock DEF TableCall
<1>6. Goes("main", Alloc, s, s)
  BY <1>0, AllocGoes
<1>7. Goes("main", SerialPrint \o Kprint, s, s)
  BY <1>1, <1>2, GoesCat
<1>8. Goes("main", TryReadChar \o PollChar, s, s)
  BY <1>3, <1>4, GoesCat
<1>9. Goes("main", Alloc \o Holding("FD_TABLE", Alloc), s, s)
  BY <1>6, FileGoes, GoesCat
<1>10. CASE name = "write"
  BY <1>7, <1>10 DEF Path
<1>11. CASE name = "read_key"
  BY <1>8, <1>11 DEF Path
<1>12. CASE name = "fork"
  BY <1>12, ForkGoes DEF Path
<1>13. CASE name = "kill"
  BY <1>5, <1>13 DEF Path
<1>14. CASE name = "open"
  BY <1>9, <1>14 DEF Path
<1>15. CASE name = "read_file"
  BY <1>15, FileGoes DEF Path
<1>16. CASE name = "write_tty"
  BY <1>16, FileGoes DEF Path
<1>17. CASE name = "execve"
  BY <1>17, ForkGoes DEF Path
<1>18. CASE name = "waitpid"
  BY <1>18, ForkGoes DEF Path
<1> QED BY <1>10, <1>11, <1>12, <1>13, <1>14, <1>15, <1>16, <1>17, <1>18, SMTT(30) DEF GuardedCalls

-----------------------------------------------------------------------------
\* While the kernel boots: interrupts off, no lock, the parts m announced.
Booting(m) == At(0, {}, m)

\* The points between two steps of the boot.
LEMMA BootingIs ==
  ASSUME NEW m \in SUBSET Announced
  PROVE  LET s == Booting(m)
         IN  /\ s \in Points /\ s.n = 0 /\ s.h = {} /\ s.m = m
             /\ Quiet(s) /\ Open(s)
<1>1. "sti" \notin m
  BY DEF Announced, Parts
<1> QED BY <1>1 DEF Booting, At, Points, Quiet, Open

\* A step of the boot that announces its part.
LEMMA StepGoes ==
  ASSUME NEW m \in SUBSET Announced, NEW part \in Announced, NEW p,
         Goes("main", p, Booting(m), Booting(m))
  PROVE  Goes("main", Step(part, p), Booting(m), Booting(m \cup {part}))
<1> DEFINE s == Booting(m)
           t == Booting(m \cup {part})
           o == Op("ready", part)
<1>1. s \in Points /\ s.n = 0 /\ s.h = {} /\ s.m = m /\ Open(s)
  BY BootingIs
<1>2. m \cup {part} \in SUBSET Announced
  OBVIOUS
<1>3. t \in Points /\ t.n = 0 /\ t.h = {} /\ t.m = m \cup {part} /\ Open(t)
  BY <1>2, BootingIs
<1>4. t = At(s.n, s.h, s.m \cup {part})
  BY <1>1 DEF Booting
<1>5. o \in Ops /\ o.op = "ready" /\ o.arg = part
  <2>1. "ready" \in OpNames /\ part \in Args
    BY Ops0, ZenonT(40)
  <2> QED BY <2>1, OpIs
<1> HIDE DEF s, t, o
<1>6. Moves("main", s, o, t)
  BY <1>3, <1>4, <1>5, SMTT(30) DEF Moves
<1>7. Goes("main", << o >>, s, t)
  BY <1>1, <1>5, <1>6, GoesOne
<1>8. Goes("main", SerialPrint, s, s) /\ Goes("main", SerialPrint, t, t)
  BY <1>1, <1>3, SerialGoes DEF Kinds
<1>9. Goes("main", SerialPrint \o p, s, s)
  BY <1>8, GoesCat DEF s
<1>10. Goes("main", SerialPrint \o p \o << o >>, s, t)
  BY <1>7, <1>9, GoesCat
<1>11. Goes("main", SerialPrint \o p \o << o >> \o SerialPrint, s, t)
  BY <1>8, <1>10, GoesCat
<1> QED BY <1>11 DEF Step, s, t, o

\* The whole boot: every part is announced before interrupts are enabled.
LEMMA BootFinishes == Finishes("main", BootPath, Rest)
<1> DEFINE m1 == {"gdt"}
           m2 == m1 \cup {"idt"}
           m3 == m2 \cup {"pic"}
           m4 == m3 \cup {"memory"}
           m5 == m4 \cup {"pci"}
           m6 == m5 \cup {"keyboard"}
           m7 == m6 \cup {"process"}
           B(m) == Booting(m)
<1>1. /\ {} \in SUBSET Announced
      /\ m1 \in SUBSET Announced /\ m2 \in SUBSET Announced /\ m3 \in SUBSET Announced
      /\ m4 \in SUBSET Announced /\ m5 \in SUBSET Announced /\ m6 \in SUBSET Announced
      /\ m7 \in SUBSET Announced /\ Parts \subseteq m7
  BY DEF Announced, Parts
<1>2. {"gdt", "idt", "pic", "memory", "pci", "keyboard", "process"} \subseteq Announced
  BY DEF Announced, Parts
<1>3. m1 = {} \cup {"gdt"}
  OBVIOUS
<1> HIDE DEF m1, m7
<1>4. ASSUME NEW m \in SUBSET Announced
      PROVE  /\ Goes("main", << >>, B(m), B(m))
             /\ Goes("main", SerialPrint, B(m), B(m))
             /\ Goes("main", Kprint, B(m), B(m))
             /\ Goes("main", Alloc, B(m), B(m))
             /\ Goes("main", << Op("may_panic", "") >>, B(m), B(m))
             /\ \A l \in Locks : Goes("main", Holding(l, << >>), B(m), B(m))
  <2>1. B(m) \in Points /\ B(m).h = {} /\ Quiet(B(m)) /\ Open(B(m))
    BY BootingIs
  <2>2. /\ "main" \in Kinds /\ "main" \in {"main", "exc"} /\ B(m).h \cap Printing = {}
        /\ \A l : l \notin B(m).h
    BY <2>1 DEF Kinds
  <2> HIDE DEF B
  <2>3. Goes("main", << >>, B(m), B(m))
    BY <2>1, GoesNot
  <2>4. Goes("main", SerialPrint, B(m), B(m))
    BY <2>1, <2>2, SerialGoes
  <2>5. Goes("main", Kprint, B(m), B(m))
    BY <2>1, <2>2, KprintGoes
  <2>6. Goes("main", Alloc, B(m), B(m))
    BY <2>1, <2>2, AllocGoes
  <2>7. Goes("main", << Op("may_panic", "") >>, B(m), B(m))
    <3>1. PICK o : o = Op("may_panic", "")
      BY Zenon
    <3>2. "may_panic" \in OpNames /\ "" \in Args
      BY Ops0, Zenon
    <3>3. o \in Ops /\ o.op = "may_panic"
      BY <3>1, <3>2, OpIs, Zenon
    <3> QED BY <2>1, <2>2, <3>1, <3>3, StayGoes, Zenon
  <2>8. \A l \in Locks : Goes("main", Holding(l, << >>), B(m), B(m))
    BY <2>1, <2>2, QuietLock, LockNames
  <2> QED BY <2>3, <2>4, <2>5, <2>6, <2>7, <2>8, Zenon
<1> DEFINE p0 == Holding("SERIAL1", << >>) \o SerialPrint \o Holding("WRITER", << >>) \o Kprint
           q1 == Step("gdt", << >>)
           q2 == Step("idt", << >>)
           q3 == Step("pic", Holding("PICS", << >>))
           q4 == Step("memory", << Op("may_panic", "") >> \o Holding("ALLOCATOR", << >>))
           q5 == Step("pci", Holding("PCI_LOCK", << >>) \o Alloc \o SerialPrint)
           q6 == Step("keyboard", Holding("KEYBOARD", << >>))
           q7 == Step("process", Holding("PROCESS_TABLE", Alloc))
<1>5. Goes("main", p0, B({}), B({}))
  <2> HIDE DEF B
  <2>1. /\ Goes("main", Holding("SERIAL1", << >>), B({}), B({}))
        /\ Goes("main", Holding("WRITER", << >>), B({}), B({}))
        /\ Goes("main", SerialPrint, B({}), B({})) /\ Goes("main", Kprint, B({}), B({}))
    BY <1>1, <1>4, LockNames, Zenon
  <2>2. Goes("main", Holding("SERIAL1", << >>) \o SerialPrint, B({}), B({}))
    BY <2>1, GoesCat
  <2>3. Goes("main", Holding("SERIAL1", << >>) \o SerialPrint \o Holding("WRITER", << >>),
             B({}), B({}))
    BY <2>1, <2>2, GoesCat
  <2> QED BY <2>1, <2>3, GoesCat
<1>6. Goes("main", q1, B({}), B(m1))
  BY <1>1, <1>2, <1>3, <1>4, StepGoes, Zenon
<1>7. Goes("main", q2, B(m1), B(m2))
  BY <1>1, <1>2, <1>4, StepGoes, Zenon
<1> HIDE DEF m2
<1>8. Goes("main", q3, B(m2), B(m3))
  BY <1>1, <1>2, <1>4, LockNames, StepGoes, Zenon
<1> HIDE DEF m3
<1>9. Goes("main", q4, B(m3), B(m4))
  <2>1. Goes("main", << Op("may_panic", "") >>, B(m3), B(m3))
    BY <1>1, <1>4, Zenon
  <2>2. Goes("main", Holding("ALLOCATOR", << >>), B(m3), B(m3))
    BY <1>1, <1>4, LockNames, Zenon
  <2>3. Goes("main", << Op("may_panic", "") >> \o Holding("ALLOCATOR", << >>), B(m3), B(m3))
    BY <2>1, <2>2, GoesCat, Zenon
  <2> QED BY <1>1, <1>2, <2>3, StepGoes, Zenon
<1> HIDE DEF m4
<1>10. Goes("main", q5, B(m4), B(m5))
  <2>1. /\ Goes("main", Holding("PCI_LOCK", << >>), B(m4), B(m4))
        /\ Goes("main", Alloc, B(m4), B(m4)) /\ Goes("main", SerialPrint, B(m4), B(m4))
    BY <1>1, <1>4, LockNames, Zenon
  <2>2. Goes("main", Holding("PCI_LOCK", << >>) \o Alloc, B(m4), B(m4))
    BY <2>1, GoesCat
  <2>3. Goes("main", Holding("PCI_LOCK", << >>) \o Alloc \o SerialPrint, B(m4), B(m4))
    BY <2>1, <2>2, GoesCat
  <2> QED BY <1>1, <1>2, <2>3, StepGoes
<1> HIDE DEF m5
<1>11. Goes("main", q6, B(m5), B(m6))
  BY <1>1, <1>2, <1>4, LockNames, StepGoes, Zenon
<1> HIDE DEF m6
<1>12. Goes("main", q7, B(m6), B(m7))
  <2> DEFINE v == With(B(m6), "PROCESS_TABLE")
  <2>1. B(m6) \in Points /\ B(m6).h = {} /\ Quiet(B(m6))
    BY <1>1, BootingIs
  <2>2. v \in Points /\ Open(v) /\ v.h = B(m6).h \cup {"PROCESS_TABLE"}
    BY <2>1, WithIs, LockNames, Zenon
  <2>3. "ALLOCATOR" \notin v.h /\ v.h \cap Printing = {} /\ "PROCESS_TABLE" \notin B(m6).h
    BY <2>1, <2>2 DEF Printing
  <2> HIDE DEF v
  <2>4. Goes("main", Alloc, v, v)
    BY <2>2, <2>3, AllocGoes
  <2>5. Goes("main", Holding("PROCESS_TABLE", Alloc), B(m6), B(m6))
    BY <2>1, <2>3, <2>4, QuietHolding, LockNames, SMTT(30) DEF v
  <2> QED BY <1>1, <1>2, <2>5, StepGoes DEF m7
<1> DEFINE o == Op("sti", "")
           t == At(0, {}, m7 \cup {"sti"})
<1>13. Goes("main", << o >>, B(m7), t) /\ t \in Points /\ t.h = {} /\ Open(t) /\ Done(t)
  <2>1. "sti" \in OpNames /\ "" \in Args
    BY Ops0, Zenon
  <2>2. o \in Ops /\ o.op = "sti"
    BY <2>1, OpIs, Zenon
  <2>3. B(m7) \in Points /\ B(m7).n = 0 /\ B(m7).h = {} /\ B(m7).m = m7
    BY <1>1, BootingIs
  <2>4. "eoi" \notin m7
    BY <1>1 DEF Announced, Parts
  <2>5. t \in Points /\ t.h = {} /\ t.n = 0 /\ t.m = m7 \cup {"sti"}
    BY <1>1 DEF At, Points
  <2>6. Open(t) /\ Done(t)
    BY <2>4, <2>5 DEF Open, Done
  <2>7. t = At(B(m7).n, B(m7).h, B(m7).m \cup {"sti"})
    BY <2>3, SMTT(30)
  <2> HIDE DEF B, o, t
  <2>8. Moves("main", B(m7), o, t)
    BY <1>1, <2>2, <2>3, <2>5, <2>6, <2>7 DEF Moves
  <2> QED BY <2>2, <2>3, <2>5, <2>6, <2>8, GoesOne
<1>14. Goes("main", SerialPrint, t, t)
  <2> HIDE DEF t
  <2> QED BY <1>13, SerialGoes, Zenon DEF Kinds
<1> HIDE DEF B, o, t, p0, q1, q2, q3, q4, q5, q6, q7
<1>15. Goes("main", p0 \o q1, B({}), B(m1))
  BY <1>5, <1>6, GoesCat
<1>16. Goes("main", p0 \o q1 \o q2, B({}), B(m2))
  BY <1>7, <1>15, GoesCat
<1>17. Goes("main", p0 \o q1 \o q2 \o q3, B({}), B(m3))
  BY <1>8, <1>16, GoesCat
<1>18. Goes("main", p0 \o q1 \o q2 \o q3 \o q4, B({}), B(m4))
  BY <1>9, <1>17, GoesCat
<1>19. Goes("main", p0 \o q1 \o q2 \o q3 \o q4 \o q5, B({}), B(m5))
  BY <1>10, <1>18, GoesCat
<1>20. Goes("main", p0 \o q1 \o q2 \o q3 \o q4 \o q5 \o q6, B({}), B(m6))
  BY <1>11, <1>19, GoesCat
<1>21. Goes("main", p0 \o q1 \o q2 \o q3 \o q4 \o q5 \o q6 \o q7, B({}), B(m7))
  BY <1>12, <1>20, GoesCat
<1>22. Goes("main", p0 \o q1 \o q2 \o q3 \o q4 \o q5 \o q6 \o q7 \o << o >>, B({}), t)
  BY <1>13, <1>21, GoesCat
<1>23. Goes("main", p0 \o q1 \o q2 \o q3 \o q4 \o q5 \o q6 \o q7 \o << o >> \o SerialPrint,
            B({}), t)
  BY <1>14, <1>22, GoesCat
<1>24. BootPath = p0 \o q1 \o q2 \o q3 \o q4 \o q5 \o q6 \o q7 \o << o >> \o SerialPrint
  BY Zenon DEF BootPath, p0, q1, q2, q3, q4, q5, q6, q7, o
<1>25. B({}) = Rest
  BY DEF B, Booting, Rest
<1> QED BY <1>13, <1>23, <1>24, <1>25 DEF Finishes

-----------------------------------------------------------------------------
\* It gives the three invariants.
LEMMA InvGives ==
  ASSUME IntInv
  PROVE  NoSelfDeadlock /\ HandlersSeeReady /\ InServiceMatches
<1>1. PICK g : Holds(g, stack, intr, held, isr, ready, struck)
  BY DEF IntInv, Stands
<1>a. /\ Frames(g, stack, intr) /\ Shape(g, stack) /\ Owned(g, Len(stack), held)
      /\ Noted(g, stack, struck) /\ Informed(g, Len(stack), ready) /\ Serving(g, stack, isr)
  BY <1>1 DEF Holds
<1>2. PICK n \in Nat : n = Len(stack) /\ n > 0
  BY <1>a DEF Frames
<1>3. DOMAIN stack = 1 .. n /\ stack \in Seq(FrameSet)
  BY <1>a, <1>2 DEF Frames
<1>4. ASSUME NEW i \in 1 .. n
      PROVE  Fits(stack[i], g[i], FlagOf(stack, intr, i))
  BY <1>a, <1>2, SMTT(30) DEF Frames
<1>5. ASSUME NEW i \in 1 .. n, stack[i].line >= 0
      PROVE  n >= 2 /\ i = 2 /\ "sti" \in g[1].m /\ g[1].n = 0 /\ Parts \subseteq ready
  <2>1. i # 1
    BY <1>a, <1>5 DEF Shape, NoLine
  <2>2. i \in 2 .. n
    BY <2>1, SMTT(30)
  <2>3. i = 2 /\ stack[2].flag = TRUE
    BY <1>a, <1>2, <1>5, <2>2 DEF Shape, Exception
  <2>4. 1 \in 1 .. n /\ FlagOf(stack, intr, 1) = TRUE
    BY <1>2, <2>2, <2>3 DEF FlagOf
  <2>5. "sti" \in g[1].m /\ g[1].n = 0
    BY <1>4, <2>4, Zenon DEF Fits
  <2> QED BY <1>a, <1>2, <2>2, <2>3, <2>4, <2>5, SMTT(30) DEF Informed
<1>6. HandlersSeeReady
  BY <1>3, <1>5 DEF HandlersSeeReady, Parts
<1>7. InServiceMatches
  <2> DEFINE serving == {i \in DOMAIN stack : stack[i].line >= 0}
  <2>1. \A i, j \in serving : i = j
    BY <1>3, <1>5
  <2>2. ASSUME NEW x \in isr PROVE x \in {stack[i].line : i \in serving}
    <3>1. n >= 2 /\ stack[2].line = x /\ x >= 0
      BY <1>a, <1>2 DEF Serving
    <3>2. 2 \in serving
      BY <1>2, <1>3, <3>1
    <3> QED BY <3>1, <3>2
  <2> QED BY <2>1, <2>2 DEF InServiceMatches
<1>8. NoSelfDeadlock
  <2> SUFFICES ASSUME Top.todo # << >>, Head(Top.todo).op = "lock", Arg \in held
               PROVE  Arg \in struck \cap Printing
    BY DEF NoSelfDeadlock
  <2>1. PICK p, o, k, l, f : f = stack[n] /\ p = f.todo /\ o = Head(p) /\ k = Kind(f.line) /\ l = o.arg
    OBVIOUS
  <2>2. p # << >> /\ o.op = "lock" /\ l \in held /\ l = Arg
    BY <1>2, <2>1 DEF Top, Arg
  <2>3. n \in 1 .. n
    BY <1>2
  <2>4. Finishes(k, p, g[n])
    BY <1>4, <2>1, <2>3, ZenonT(40) DEF Fits
  <2>5. PICK u : Moves(k, g[n], o, u)
    BY <2>1, <2>2, <2>4, GoesFirst DEF Finishes
  <2>6. l \in LocksOf(k) /\ l \notin g[n].h
    <3>1. o.arg \in LocksOf(k) /\ o.arg \notin g[n].h
      BY <2>2, <2>5, LockMove, ZenonT(40)
    <3> QED BY <2>1, <3>1, Zenon
  <2>7. PICK i \in 1 .. n : l \in g[i].h
    BY <1>a, <1>2, <2>2 DEF Owned
  <2>8. i \in 1 .. n - 1 /\ i + 1 \in 2 .. n /\ n \in 2 .. n /\ i \in 1 .. n
    BY <1>2, <2>6, <2>7
  <2>9. k # "main" /\ l \in Shared
    <3>1. f.line # NoLine
      BY <1>a, <1>2, <2>1, <2>8 DEF Shape, NoLine, Exception
    <3>2. k # "main"
      BY <2>1, <3>1 DEF Kind
    <3> QED BY <2>6, <3>2, SMTT(30) DEF LocksOf, Shared, Printing
  <2>10. CASE stack[i + 1].line = Exception
    <3>1. l \in struck
      BY <1>a, <1>2, <2>7, <2>8, <2>10 DEF Noted
    <3>2. f.line = Exception
      <4>1. CASE n = 2
        <5>1. i + 1 = n
          BY <1>2, <2>8, <4>1, SMTT(30)
        <5> QED BY <2>1, <2>10, <5>1
      <4>2. CASE n # 2
        BY <1>a, <1>2, <2>1, <2>8, <4>2 DEF Shape
      <4> QED BY <4>1, <4>2
    <3>3. k = "exc"
      BY <2>1, <3>2 DEF Kind, NoLine, Exception
    <3> QED BY <2>2, <2>6, <3>1, <3>3 DEF LocksOf
  <2>11. CASE stack[i + 1].line # Exception
    <3>1. stack[i + 1].line >= 0 /\ i + 1 = 2
      BY <1>a, <1>2, <2>8, <2>11 DEF Shape
    <3>2. i = 1 /\ i + 1 \in 1 .. n
      BY <2>8, <3>1
    <3>3. "sti" \in g[1].m /\ g[1].n = 0
      BY <1>5, <3>1, <3>2
    <3>4. Open(g[1])
      BY <1>4, <2>8, <3>2, Zenon DEF Fits
    <3>5. l \in g[1].h
      BY <2>7, <3>2
    <3> QED BY <2>9, <3>3, <3>4, <3>5, SMTT(30) DEF Open
  <2> QED BY <2>10, <2>11
<1> QED BY <1>6, <1>7, <1>8

=============================================================================
