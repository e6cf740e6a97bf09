-------------------------- MODULE FileSystemsProofs --------------------------
(***************************************************************************)
(* Proofs about FileSystems: what InitramFs::new finds in an archive, and  *)
(* that lookup, read and readdir give back what was put into it, for       *)
(* archives of any number and sizes of files, cut short or damaged.        *)
(***************************************************************************)
EXTENDS FileSystems, WellFoundedInduction, TLAPS

\* Every set of natural numbers has a least one.
LEMMA Least ==
  ASSUME NEW T, T \subseteq Nat, T # {}
  PROVE  \E x \in T : \A y \in T : x <= y
  <1>1. IsWellFoundedOn(OpToRel(<, Nat), Nat)
    BY NatLessThanWellFounded, Zenon
  <1>2. PICK x \in T : \A y \in T : ~(<<y, x>> \in OpToRel(<, Nat))
    BY <1>1, WFMin, Zenon
  <1>3. ASSUME NEW y \in T PROVE x <= y
    <2>1. ~(y < x)
      BY <1>2, <1>3, ZenonT(40) DEF OpToRel
    <2> QED BY <2>1
  <1> QED BY <1>3

-----------------------------------------------------------------------------
(* The archive that the writer makes.                                       *)

\* f[n] is the archive after n files.
IsWritten(f, all, k) ==
  f = [n \in 0 .. k |-> IF n = 0 THEN NoArchive ELSE AppendFile(f[n - 1], all[n])]

WritesEach(f, all, k) == f[0] = NoArchive /\ \A n \in 1 .. k : f[n] = AppendFile(f[n - 1], all[n])

\* The first archive is empty, and each has one file more.
LEMMA WrittenSteps ==
  ASSUME NEW k \in Nat, NEW f, NEW all, IsWritten(f, all, k)
  PROVE  WritesEach(f, all, k)
  <1>1. \A n \in 0 .. k : f[n] = IF n = 0 THEN NoArchive ELSE AppendFile(f[n - 1], all[n])
    BY Zenon DEF IsWritten
  <1>2. f[0] = NoArchive
    BY <1>1
  <1>3. ASSUME NEW n \in 1 .. k PROVE f[n] = AppendFile(f[n - 1], all[n])
    <2>1. n \in 0 .. k /\ n # 0
      OBVIOUS
    <2> QED  BY <1>1, <2>1, Zenon
  <1> QED  BY <1>2, <1>3, Zenon DEF WritesEach

\* For every list of files there are such archives.
LEMMA WrittenExists ==
  ASSUME NEW k \in Nat, NEW all
  PROVE  \E f : IsWritten(f, all, k)
  <1> DEFINE T == {n \in Nat : ~ \E f : IsWritten(f, all, n)}
  <1>1. SUFFICES ASSUME T # {} PROVE FALSE
    BY Zenon
  <1>2. PICK n \in T : \A m \in T : n <= m
    BY <1>1, Least, Zenon
  <1>3. n \in Nat /\ ~ \E f : IsWritten(f, all, n)
    BY Zenon
  <1>4. CASE n = 0
    <2> DEFINE f == [i \in 0 .. 0 |-> NoArchive]
    <2>1. f = [i \in 0 .. 0 |-> IF i = 0 THEN NoArchive ELSE AppendFile(f[i - 1], all[i])]
      OBVIOUS
    <2>2. IsWritten(f, all, 0)
      BY <2>1, Zenon DEF IsWritten
    <2> QED  BY <1>3, <1>4, <2>2, Zenon
  <1>5. CASE n # 0
    <2>1. n - 1 \in Nat /\ ~(n <= n - 1)
      BY <1>3, <1>5
    <2>2. PICK e : IsWritten(e, all, n - 1)
      BY <1>2, <2>1, Zenon
    <2>3. WritesEach(e, all, n - 1)
      BY <2>1, <2>2, WrittenSteps, Zenon
    <2> DEFINE f == [i \in 0 .. n |-> IF i = n THEN AppendFile(e[n - 1], all[n]) ELSE e[i]]
    <2>4. ASSUME NEW i \in 0 .. n
          PROVE  f[i] = IF i = 0 THEN NoArchive ELSE AppendFile(f[i - 1], all[i])
      <3>1. CASE i = 0
        BY <1>3, <1>5, <2>3, <3>1 DEF WritesEach
      <3>2. CASE i = n
        <4>1. f[n - 1] = e[n - 1] /\ f[n] = AppendFile(e[n - 1], all[n])
          BY <1>3, <2>1
        <4> QED  BY <1>5, <3>2, <4>1, Zenon
      <3>3. CASE i \in 1 .. n - 1
        <4>1. f[i] = e[i] /\ f[i - 1] = e[i - 1] /\ i # 0
          BY <1>3, <3>3
        <4> QED  BY <2>3, <3>3, <4>1, Zenon DEF WritesEach
      <3> QED  BY <1>3, <3>1, <3>2, <3>3
    <2>5. f = [i \in 0 .. n |-> IF i = 0 THEN NoArchive ELSE AppendFile(f[i - 1], all[i])]
      BY <2>4, Zenon
    <2>6. IsWritten(f, all, n)
      BY <2>5, Zenon DEF IsWritten
    <2> QED  BY <1>3, <2>6, Zenon
  <1> QED  BY <1>4, <1>5

\* Written appends one file after the other.
LEMMA WrittenIs ==
  ASSUME NEW all, Len(all) \in Nat
  PROVE  WritesEach(Written(all), all, Len(all))
  <1> DEFINE f == CHOOSE f : f = [n \in 0 .. Len(all) |->
                                    IF n = 0 THEN NoArchive ELSE AppendFile(f[n - 1], all[n])]
  <1>1. Written(all) = f
    BY DEF Written
  <1>2. PICK e : IsWritten(e, all, Len(all))
    BY WrittenExists, Zenon
  <1>3. e = [n \in 0 .. Len(all) |-> IF n = 0 THEN NoArchive ELSE AppendFile(e[n - 1], all[n])]
    BY <1>2, Zenon DEF IsWritten
  <1>4. f = [n \in 0 .. Len(all) |-> IF n = 0 THEN NoArchive ELSE AppendFile(f[n - 1], all[n])]
    BY <1>3, Zenon
  <1> HIDE DEF f
  <1>5. IsWritten(f, all, Len(all))
    BY <1>4, Zenon DEF IsWritten
  <1>6. WritesEach(f, all, Len(all))
    BY <1>5, WrittenSteps, Zenon
  <1> QED  BY <1>1, <1>6, Zenon

\* Where the data of a file begin whose header is at pos, and where the next header is.
Start(pos, f) == Align4(pos + HEADER_SIZE + Len(f.path) + 1)
End(pos, f) == Align4(Start(pos, f) + Len(f.content))

\* Aligning moves up by less than four.
LEMMA AlignUp == ASSUME NEW x \in Nat PROVE Align4(x) \in Nat /\ x <= Align4(x)
  BY DEF Align4

\* The name fits before the data, and the data before the next header.
LEMMA Positions ==
  ASSUME NEW pos \in Nat, NEW f \in FileSet
  PROVE  /\ Start(pos, f) \in Nat /\ End(pos, f) \in Nat
         /\ pos + HEADER_SIZE + Len(f.path) + 1 <= Start(pos, f)
         /\ Start(pos, f) + Len(f.content) <= End(pos, f)
         /\ pos < Start(pos, f) /\ pos < End(pos, f)
  <1>1. Len(f.path) \in Nat /\ Len(f.content) \in Nat /\ HEADER_SIZE \in Nat
    BY FileSystemsAssumption DEF FileSet
  <1>2. PICK l, k : l = Len(f.path) /\ k = Len(f.content) /\ l \in Nat /\ k \in Nat
    BY <1>1, Zenon
  <1>3. PICK x : x = pos + HEADER_SIZE + l + 1
    BY Zenon
  <1>4. x \in Nat /\ pos < x
    <2>1. PICK h \in Nat : h = HEADER_SIZE
      BY <1>1, Zenon
    <2>2. x = pos + h + l + 1
      BY <1>3, <2>1, Zenon
    <2>3. l \in Nat
      BY <1>2, Zenon
    <2> QED  BY <2>2, <2>3
  <1>5. PICK y : y = Align4(x) /\ y \in Nat /\ x <= y
    BY <1>4, AlignUp, Zenon
  <1>6. y + k \in Nat
    BY <1>2, <1>5
  <1>7. PICK z : z = Align4(y + k) /\ z \in Nat /\ y + k <= z
    BY <1>6, AlignUp, Zenon
  <1>8. y = Start(pos, f) /\ z = End(pos, f)
    BY <1>2, <1>3, <1>5, <1>7, Zenon DEF Start, End
  <1>9. x <= y /\ y + k <= z /\ pos < y /\ pos < z
    BY <1>2, <1>4, <1>5, <1>7
  <1> QED  BY <1>2, <1>3, <1>5, <1>7, <1>8, <1>9, Zenon

\* The header of a file.
HeaderOf(f) ==
  [path |-> f.path, mode |-> ModeOf(f), namesize |-> Len(f.path) + 1,
   filesize |-> Len(f.content), hex |-> TRUE, utf8 |-> TRUE]

HeaderSet == [path : Seq(Chars), mode : Nat, namesize : Nat, filesize : Nat, hex : BOOLEAN,
              utf8 : BOOLEAN]

\* The mode of a file is a number, from which the code gets the type of the file.
LEMMA ModeIs ==
  ASSUME NEW f \in FileSet
  PROVE  ModeOf(f) \in Nat /\ FileType(ModeOf(f)) = TypeBits[f.type]
  <1>1. PICK t, p : t = TypeBits[f.type] /\ p = f.perm
    BY Zenon
  <1>2. t \in 1 .. 12 /\ p \in Nat /\ p < 4096
    <2>1. f.type \in Types /\ p \in Nat /\ p < 4096
      BY <1>1 DEF FileSet
    <2>2. t \in 1 .. 12
      BY <1>1, <2>1 DEF Types, TypeBits
    <2> QED  BY <2>1, <2>2
  <1>3. t * 4096 + p \in Nat /\ ((t * 4096 + p) \div 4096) % 16 = t
    BY <1>2
  <1> QED  BY <1>1, <1>3 DEF ModeOf, FileType

\* An archive with nothing behind its end.
Sound(a) ==
  /\ a = [headers |-> a.headers, bytes |-> a.bytes, len |-> a.len]
  /\ a.len \in Nat
  /\ \A o \in DOMAIN a.headers : o \in Nat /\ o < a.len /\ a.headers[o] \in HeaderSet
  /\ \A o \in DOMAIN a.bytes : o \in Nat /\ o < a.len

\* File f is in archive a, with its header at pos.
Laid(a, pos, f) ==
  /\ pos \in DOMAIN a.headers /\ a.headers[pos] = HeaderOf(f)
  /\ pos \in Nat /\ End(pos, f) <= a.len
  /\ \A j \in 1 .. Len(f.content) :
       /\ Start(pos, f) + (j - 1) \in DOMAIN a.bytes
       /\ a.bytes[Start(pos, f) + (j - 1)] = f.content[j]

\* What AppendFile does, in these words, where the data are those from s to e - 1.
Appends(c, a, f, s, e) ==
  /\ c = [headers |-> c.headers, bytes |-> c.bytes, len |-> c.len]
  /\ c.len = End(a.len, f)
  /\ DOMAIN c.headers = DOMAIN a.headers \cup {a.len}
  /\ c.headers[a.len] = HeaderOf(f)
  /\ \A o \in DOMAIN a.headers : o # a.len => c.headers[o] = a.headers[o]
  /\ \A o \in DOMAIN c.bytes : o \in DOMAIN a.bytes \/ o \in s .. e - 1
  /\ \A o \in DOMAIN a.bytes : o \in DOMAIN c.bytes /\ (o < s => c.bytes[o] = a.bytes[o])
  /\ \A o \in s .. e - 1 : o \in DOMAIN c.bytes /\ c.bytes[o] = f.content[o - s + 1]

\* AppendFile appends a file in that sense.
LEMMA AppendIs ==
  ASSUME NEW a, Sound(a), NEW f \in FileSet, NEW c, c = AppendFile(a, f),
         NEW s, s = Start(a.len, f), NEW e, e = s + Len(f.content)
  PROVE  Appends(c, a, f, s, e)
  <1>1. PICK l : l = End(a.len, f)
    BY Zenon
  <1>2. a.len \in Nat /\ Len(f.content) \in Nat
    BY DEF FileSet, Sound
  <1>3. s \in Nat /\ l \in Nat
    BY <1>1, <1>2, Positions, Zenon
  <1>4. s = ((a.len + HEADER_SIZE + Len(f.path) + 1 + 3) \div 4) * 4
    BY Zenon DEF Start, Align4
  <1>5. l = ((e + 3) \div 4) * 4
    BY <1>1, Zenon DEF End, Align4
  <1>6. PICK h : h = [o \in DOMAIN a.headers \cup {a.len} |->
                        IF o = a.len THEN HeaderOf(f) ELSE a.headers[o]]
    BY Zenon
  <1>7. PICK b : b = [o \in DOMAIN a.bytes \cup s .. e - 1 |->
                        IF o >= s THEN f.content[o - s + 1] ELSE a.bytes[o]]
    BY Zenon
  <1>8. c = [headers |-> h, bytes |-> b, len |-> l]
    BY <1>4, <1>5, <1>6, <1>7, Zenon DEF AppendFile, HeaderOf
  <1>9. c.headers = h /\ c.bytes = b /\ c.len = l
    BY <1>8
  <1>10. /\ DOMAIN h = DOMAIN a.headers \cup {a.len} /\ h[a.len] = HeaderOf(f)
         /\ \A o \in DOMAIN a.headers : o # a.len => h[o] = a.headers[o]
    BY <1>6
  <1>11. \A o \in DOMAIN b : o \in DOMAIN a.bytes \/ o \in s .. e - 1
    BY <1>7
  <1>12. \A o \in DOMAIN a.bytes : o \in DOMAIN b /\ (o < s => b[o] = a.bytes[o])
    BY <1>3, <1>7 DEF Sound
  <1>13. \A o \in s .. e - 1 : o \in DOMAIN b /\ b[o] = f.content[o - s + 1]
    BY <1>2, <1>3, <1>7
  <1> QED  BY <1>1, <1>8, <1>9, <1>10, <1>11, <1>12, <1>13, Zenon DEF Appends

\* A sound archive stays sound when a file is appended.
LEMMA SoundAppend ==
  ASSUME NEW a, Sound(a), NEW f \in FileSet, NEW c, c = AppendFile(a, f)
  PROVE  Sound(c) /\ Laid(c, a.len, f) /\ c.len = End(a.len, f)
  <1>1. PICK s, e, p : s = Start(a.len, f) /\ e = s + Len(f.content) /\ p = a.len
    BY Zenon
  <1>2. Appends(c, a, f, s, e)
    BY <1>1, AppendIs, Zenon
  <1>3. p \in Nat /\ Len(f.content) \in Nat /\ Len(f.path) \in Nat
    BY <1>1 DEF FileSet, Sound
  <1>4. PICK z : z = End(p, f)
    BY Zenon
  <1>5. s \in Nat /\ z \in Nat /\ p < s /\ p < z /\ e <= z
    BY <1>1, <1>3, <1>4, Positions, Zenon
  <1>6. /\ c = [headers |-> c.headers, bytes |-> c.bytes, len |-> c.len]
        /\ c.len = z /\ DOMAIN c.headers = DOMAIN a.headers \cup {p}
        /\ c.headers[p] = HeaderOf(f)
        /\ \A o \in DOMAIN a.headers : o # p => c.headers[o] = a.headers[o]
    BY <1>1, <1>2, <1>4, Zenon DEF Appends
  <1>7. HeaderOf(f) \in HeaderSet
    <2>1. PICK m \in Nat : m = ModeOf(f)
      BY ModeIs, Zenon
    <2> QED  BY <1>3, <2>1 DEF HeaderOf, HeaderSet, FileSet
  <1>8. ASSUME NEW o \in DOMAIN c.headers
        PROVE  o \in Nat /\ o < z /\ c.headers[o] \in HeaderSet
    <2>1. CASE o = p
      BY <1>3, <1>5, <1>6, <1>7, <2>1
    <2>2. CASE o # p
      <3>1. o \in DOMAIN a.headers /\ c.headers[o] = a.headers[o]
        BY <1>6, <2>2, Zenon
      <3>2. o \in Nat /\ o < p /\ a.headers[o] \in HeaderSet
        BY <1>1, <3>1, Zenon DEF Sound
      <3>3. o < z
        BY <1>3, <1>5, <3>2
      <3> QED  BY <3>1, <3>2, <3>3, Zenon
    <2> QED  BY <2>1, <2>2
  <1>9. ASSUME NEW o \in DOMAIN c.bytes
        PROVE  o \in Nat /\ o < z
    <2>1. CASE o \in DOMAIN a.bytes
      <3>1. o \in Nat /\ o < p
        BY <1>1, <2>1, Zenon DEF Sound
      <3> QED  BY <1>3, <1>5, <3>1
    <2>2. CASE o \in s .. e - 1
      <3>1. e \in Nat
        BY <1>1, <1>3, <1>5
      <3> QED  BY <1>5, <2>2, <3>1
    <2> QED  BY <1>2, <2>1, <2>2, Zenon DEF Appends
  <1>10. Sound(c)
    BY <1>5, <1>6, <1>8, <1>9, Zenon DEF Sound
  <1>11. ASSUME NEW j \in 1 .. Len(f.content)
         PROVE  s + (j - 1) \in DOMAIN c.bytes /\ c.bytes[s + (j - 1)] = f.content[j]
    <2>1. PICK o : o = s + (j - 1)
      BY Zenon
    <2>2. o \in s .. e - 1 /\ o - s + 1 = j
      BY <1>1, <1>3, <1>5, <2>1, SMTT(30)
    <2>3. o \in DOMAIN c.bytes /\ c.bytes[o] = f.content[o - s + 1]
      BY <1>2, <2>2, Zenon DEF Appends
    <2> QED  BY <2>1, <2>2, <2>3, Zenon
  <1>12. p \in DOMAIN c.headers /\ z <= c.len
    BY <1>5, <1>6
  <1>13. Laid(c, p, f)
    BY <1>1, <1>3, <1>4, <1>6, <1>11, <1>12, Zenon DEF Laid
  <1> QED  BY <1>1, <1>4, <1>6, <1>10, <1>13, Zenon

\* A file that is laid down stays where it is when another is appended.
LEMMA LaidStays ==
  ASSUME NEW a, Sound(a), NEW f \in FileSet, NEW c, c = AppendFile(a, f),
         NEW pos, NEW g \in FileSet, Laid(a, pos, g)
  PROVE  Laid(c, pos, g)
  <1>1. PICK s, e, p : s = Start(a.len, f) /\ e = s + Len(f.content) /\ p = a.len
    BY Zenon
  <1>2. Appends(c, a, f, s, e)
    BY <1>1, AppendIs, Zenon
  <1>3. /\ p \in Nat /\ \A o \in DOMAIN a.headers : o \in Nat /\ o < p
        /\ \A o \in DOMAIN a.bytes : o \in Nat /\ o < p
    BY <1>1, Zenon DEF Sound
  <1>4. PICK z, y : z = End(p, f) /\ y = End(pos, g)
    BY Zenon
  <1>5. s \in Nat /\ z \in Nat /\ p < s /\ p < z
    BY <1>1, <1>3, <1>4, Positions, Zenon
  <1>6. /\ pos \in DOMAIN a.headers /\ a.headers[pos] = HeaderOf(g) /\ pos \in Nat /\ y <= p
    BY <1>1, <1>4, Zenon DEF Laid
  <1>7. pos # p
    BY <1>3, <1>6
  <1>8. pos \in DOMAIN c.headers /\ c.headers[pos] = HeaderOf(g) /\ c.len = z
    BY <1>1, <1>2, <1>4, <1>6, <1>7, Zenon DEF Appends
  <1>9. y \in Nat
    BY <1>4, <1>6, Positions, Zenon
  <1>10. y <= c.len
    BY <1>3, <1>5, <1>6, <1>8, <1>9
  <1>11. ASSUME NEW o \in DOMAIN a.bytes PROVE o \in DOMAIN c.bytes /\ c.bytes[o] = a.bytes[o]
    <2>1. o < s
      <3>1. o \in Nat /\ o < p
        BY <1>3, Zenon
      <3> QED  BY <1>3, <1>5, <3>1
    <2> QED  BY <1>2, <2>1, Zenon DEF Appends
  <1>12. ASSUME NEW j \in 1 .. Len(g.content)
         PROVE  /\ Start(pos, g) + (j - 1) \in DOMAIN c.bytes
                /\ c.bytes[Start(pos, g) + (j - 1)] = g.content[j]
    <2>1. PICK o : o = Start(pos, g) + (j - 1)
      BY Zenon
    <2>2. o \in DOMAIN a.bytes /\ a.bytes[o] = g.content[j]
      BY <2>1, Zenon DEF Laid
    <2> QED  BY <1>11, <2>1, <2>2, Zenon
  <1> QED  BY <1>4, <1>6, <1>8, <1>10, <1>12, Zenon DEF Laid

\* What the archive after n files is like.
Layout(all, n) ==
  /\ Sound(Written(all)[n])
  /\ \A i \in 1 .. n : /\ Laid(Written(all)[n], Written(all)[i - 1].len, all[i])
                       /\ Written(all)[i].len = End(Written(all)[i - 1].len, all[i])

\* After every number of files the archive has that layout.
LEMMA LayoutHolds ==
  ASSUME NEW all \in Seq(FileSet), NEW k, k \in 0 .. Len(all)
  PROVE  Layout(all, k)
  <1> DEFINE T == {n \in 0 .. Len(all) : ~Layout(all, n)}
  <1>1. SUFFICES ASSUME T # {} PROVE FALSE
    OBVIOUS
  <1>2. T \subseteq Nat
    OBVIOUS
  <1>3. \A n : n \in T <=> n \in 0 .. Len(all) /\ ~Layout(all, n)
    BY Zenon
  <1> HIDE DEF T
  <1>4. PICK n \in T : \A m \in T : n <= m
    BY <1>1, <1>2, Least, Zenon
  <1>5. n \in 0 .. Len(all) /\ ~Layout(all, n)
    BY <1>3, Zenon
  <1>6. PICK w : w = Written(all)
    BY Zenon
  <1>7. w[0] = NoArchive /\ \A i \in 1 .. Len(all) : w[i] = AppendFile(w[i - 1], all[i])
    <2>1. Len(all) \in Nat
      OBVIOUS
    <2>2. WritesEach(w, all, Len(all))
      BY <1>6, <2>1, WrittenIs, Zenon
    <2> QED  BY <2>2, Zenon DEF WritesEach
  <1>8. CASE n = 0
    <2>1. Sound(NoArchive)
      BY DEF Sound, NoArchive
    <2>2. Sound(w[0])
      BY <1>7, <2>1, Zenon
    <2>3. Layout(all, 0)
      <3>1. \A i : i \notin 1 .. 0
        OBVIOUS
      <3> QED  BY <1>6, <2>2, <3>1, Zenon DEF Layout
    <2> QED  BY <1>5, <1>8, <2>3, Zenon
  <1>9. CASE n # 0
    <2>1. PICK m : m = n - 1
      BY Zenon
    <2>2. m \in 0 .. Len(all) /\ ~(n <= m) /\ n \in 1 .. Len(all) /\ m = n - 1
      BY <1>5, <1>9, <2>1
    <2>3. Layout(all, m)
      BY <1>3, <1>4, <2>2, Zenon
    <2>4. /\ Sound(w[m])
          /\ \A i \in 1 .. m : Laid(w[m], w[i - 1].len, all[i]) /\ w[i].len = End(w[i - 1].len, all[i])
      BY <1>6, <2>3, Zenon DEF Layout
    <2>5. w[n] = AppendFile(w[m], all[n])
      BY <1>7, <2>2, Zenon
    <2>6. \A i \in 1 .. Len(all) : all[i] \in FileSet
      OBVIOUS
    <2>7. /\ Sound(w[n]) /\ Laid(w[n], w[m].len, all[n]) /\ w[n].len = End(w[m].len, all[n])
      BY <2>2, <2>4, <2>5, <2>6, SoundAppend, ZenonT(40)
    <2>8. ASSUME NEW i \in 1 .. n
          PROVE  Laid(w[n], w[i - 1].len, all[i]) /\ w[i].len = End(w[i - 1].len, all[i])
      <3>1. CASE i = n
        BY <2>2, <2>7, <3>1, Zenon
      <3>2. CASE i # n
        <4>1. i \in 1 .. m /\ i \in 1 .. Len(all)
          BY <1>5, <2>2, <3>2
        <4>2. Laid(w[m], w[i - 1].len, all[i]) /\ w[i].len = End(w[i - 1].len, all[i])
          BY <2>4, <4>1, Zenon
        <4>3. all[i] \in FileSet /\ all[n] \in FileSet
          BY <2>2, <2>6, <4>1, Zenon
        <4>4. Laid(w[n], w[i - 1].len, all[i])
          BY <2>4, <2>5, <4>2, <4>3, LaidStays, Zenon
        <4> QED  BY <4>2, <4>4
      <3> QED  BY <3>1, <3>2
    <2>9. Layout(all, n)
      BY <1>6, <2>7, <2>8, Zenon DEF Layout
    <2> QED  BY <1>5, <2>9, Zenon
  <1> QED  BY <1>8, <1>9

-----------------------------------------------------------------------------
(* The ramdisk and its parser.                                              *)

\* A header with the same fields, perhaps not in hexadecimal digits or without a length.
SameFields(h, g) ==
  /\ h.path = g.path /\ h.mode = g.mode /\ h.filesize = g.filesize
  /\ h.namesize = g.namesize \/ h.namesize = 0

\* What is left of an archive when it lost its end or had a header damaged.
Damaged(a, whole) ==
  /\ a.bytes = whole.bytes /\ a.len \in Nat /\ a.len <= whole.len
  /\ \A o \in DOMAIN a.headers :
       o \in DOMAIN whole.headers /\ SameFields(a.headers[o], whole.headers[o])

\* Every ramdisk is such an archive.
LEMMA RamdiskIs ==
  ASSUME NEW whole, Sound(whole), NEW a \in Ramdisks(whole)
  PROVE  Damaged(a, whole)
  <1>1. PICK h, b, l : h = whole.headers /\ b = whole.bytes /\ l = whole.len
    BY Zenon
  <1>2. whole = [headers |-> h, bytes |-> b, len |-> l] /\ l \in Nat
    BY <1>1, Zenon DEF Sound
  <1>3. \A o \in DOMAIN h : h[o] \in HeaderSet
    BY <1>1, Zenon DEF Sound
  <1>4. ASSUME NEW n \in Lost, a = [whole EXCEPT !.len = IF n < @ THEN @ - n ELSE 0]
        PROVE  Damaged(a, whole)
    <2>1. n \in Nat
      BY FileSystemsAssumption
    <2>2. PICK k : k = (IF n < l THEN l - n ELSE 0) /\ k \in Nat /\ k <= l
      BY <1>2, <2>1
    <2>3. a.headers = h /\ a.bytes = b /\ a.len = k
      BY <1>2, <1>4, <2>2
    <2> QED  BY <1>1, <2>2, <2>3, Zenon DEF Damaged, SameFields
  <1>5. ASSUME NEW o \in DOMAIN h,
               a = [whole EXCEPT !.headers = [p \in DOMAIN @ \ {o} |-> @[p]]]
        PROVE  Damaged(a, whole)
    <2>1. a.headers = [p \in DOMAIN h \ {o} |-> h[p]] /\ a.bytes = b /\ a.len = l
      BY <1>2, <1>5
    <2>2. \A p \in DOMAIN a.headers : p \in DOMAIN h /\ a.headers[p] = h[p]
      BY <2>1
    <2>3. l <= l
      BY <1>2
    <2> QED  BY <1>1, <1>2, <2>1, <2>2, <2>3, Zenon DEF Damaged, SameFields
  <1>6. ASSUME NEW o \in DOMAIN h, NEW g, SameFields(g, h[o]),
               a.headers = [h EXCEPT ![o] = g], a.bytes = b, a.len = l
        PROVE  Damaged(a, whole)
    <2>1. ASSUME NEW p \in DOMAIN a.headers
          PROVE  p \in DOMAIN h /\ SameFields(a.headers[p], h[p])
      <3>1. p \in DOMAIN h
        BY <1>6
      <3>2. CASE p = o
        <4>1. a.headers[p] = g
          BY <1>6, <3>1, <3>2
        <4> QED  BY <1>6, <3>1, <3>2, <4>1, Zenon
      <3>3. CASE p # o
        <4>1. a.headers[p] = h[p]
          BY <1>6, <3>1, <3>3
        <4> QED  BY <3>1, <4>1, Zenon DEF SameFields
      <3> QED  BY <3>2, <3>3
    <2>2. l <= l
      BY <1>2
    <2> QED  BY <1>1, <1>2, <1>6, <2>1, <2>2, Zenon DEF Damaged
  <1>7. ASSUME NEW o \in DOMAIN h,
               \/ a = [whole EXCEPT !.headers[o].hex = FALSE]
               \/ a = [whole EXCEPT !.headers[o].namesize = 0]
               \/ a = [whole EXCEPT !.headers[o].utf8 = FALSE]
        PROVE  Damaged(a, whole)
    <2>1. PICK g \in HeaderSet : g = h[o]
      BY <1>3, Zenon
    <2>2. CASE a = [whole EXCEPT !.headers[o].hex = FALSE]
      <3>1. a.headers = [h EXCEPT ![o] = [g EXCEPT !.hex = FALSE]] /\ a.bytes = b /\ a.len = l
        BY <1>2, <2>1, <2>2
      <3>2. SameFields([g EXCEPT !.hex = FALSE], g)
        BY <2>1 DEF SameFields, HeaderSet
      <3> QED  BY <1>6, <2>1, <3>1, <3>2, Zenon
    <2>3. CASE a = [whole EXCEPT !.headers[o].namesize = 0]
      <3>1. a.headers = [h EXCEPT ![o] = [g EXCEPT !.namesize = 0]] /\ a.bytes = b /\ a.len = l
        BY <1>2, <2>1, <2>3
      <3>2. SameFields([g EXCEPT !.namesize = 0], g)
        BY <2>1 DEF SameFields, HeaderSet
      <3> QED  BY <1>6, <2>1, <3>1, <3>2, Zenon
    <2>4. CASE a = [whole EXCEPT !.headers[o].utf8 = FALSE]
      <3>1. a.headers = [h EXCEPT ![o] = [g EXCEPT !.utf8 = FALSE]] /\ a.bytes = b /\ a.len = l
        BY <1>2, <2>1, <2>4
      <3>2. SameFields([g EXCEPT !.utf8 = FALSE], g)
        BY <2>1 DEF SameFields, HeaderSet
      <3> QED  BY <1>6, <2>1, <3>1, <3>2, Zenon
    <2> QED  BY <1>7, <2>2, <2>3, <2>4, Zenon
  <1> QED  BY <1>1, <1>4, <1>5, <1>7, Zenon DEF Ramdisks

\* The file that ends an archive.
Last == [path |-> Trailer, type |-> "regular", perm |-> 0, content |-> << >>]

\* Where the header behind n files is.
Pos(list, n) == Written(WithTrailer(list))[n].len

\* What the writer makes of a list of files.
Whole(list, a) ==
  /\ Sound(a) /\ Pos(list, 0) = 0
  /\ \A i \in 1 .. Len(list) : /\ Laid(a, Pos(list, i - 1), list[i])
                               /\ Pos(list, i) = End(Pos(list, i - 1), list[i])
  /\ Laid(a, Pos(list, Len(list)), Last)

\* The writer makes such an archive of every list of files.
LEMMA ArchiveIs ==
  ASSUME NEW list \in FileLists
  PROVE  Whole(list, ArchiveOf(list))
  <1>1. list \in Seq(FileSet)
    BY FileSystemsAssumption, Zenon
  <1>2. Last \in FileSet
    <2>1. Trailer[1] \in Chars
      BY DEF Chars
    <2>2. Trailer \in Seq(Chars)
      BY <2>1 DEF Trailer
    <2>3. << >> \in Seq(Int)
      OBVIOUS
    <2>4. "regular" \in Types
      BY DEF Types, TypeBits
    <2> QED  BY <2>2, <2>3, <2>4 DEF Last, FileSet
  <1>3. PICK all, n : all = WithTrailer(list) /\ n = Len(list)
    BY Zenon
  <1>4. all = Append(list, Last)
    BY <1>3, Zenon DEF WithTrailer, Last
  <1>5. /\ all \in Seq(FileSet) /\ n \in Nat /\ Len(all) = n + 1 /\ all[n + 1] = Last
        /\ \A i \in 1 .. n : all[i] = list[i]
    BY <1>1, <1>2, <1>3, <1>4
  <1>6. PICK w : w = Written(all)
    BY Zenon
  <1>7. Layout(all, n + 1)
    <2>1. n + 1 \in 0 .. Len(all)
      BY <1>5
    <2> QED  BY <1>5, <2>1, LayoutHolds, Zenon
  <1>8. /\ Sound(w[n + 1])
        /\ \A i \in 1 .. n + 1 : /\ Laid(w[n + 1], w[i - 1].len, all[i])
                                 /\ w[i].len = End(w[i - 1].len, all[i])
    BY <1>6, <1>7, Zenon DEF Layout
  <1>9. w[0].len = 0
    <2>1. WritesEach(w, all, Len(all))
      <3>1. Len(all) \in Nat
        BY <1>5
      <3> QED  BY <1>6, <3>1, WrittenIs, Zenon
    <2> QED  BY <2>1 DEF WritesEach, NoArchive
  <1>10. ArchiveOf(list) = w[n + 1] /\ \A i : Pos(list, i) = w[i].len
    BY <1>3, <1>6, Zenon DEF ArchiveOf, Pos
  <1>11. ASSUME NEW i \in 1 .. n
         PROVE  /\ Laid(w[n + 1], w[i - 1].len, list[i])
                /\ w[i].len = End(w[i - 1].len, list[i])
    <2>1. i \in 1 .. n + 1
      BY <1>5
    <2> QED  BY <1>5, <1>8, <2>1, Zenon
  <1>12. Laid(w[n + 1], w[n].len, Last)
    <2>1. n + 1 \in 1 .. n + 1 /\ (n + 1) - 1 = n
      BY <1>5
    <2> QED  BY <1>5, <1>8, <2>1, Zenon
  <1> QED  BY <1>3, <1>8, <1>9, <1>10, <1>11, <1>12, Zenon DEF Whole

\* The entry that the parser makes of the file number i.
EntryOf(list, i) ==
  [path |-> list[i].path, inode_num |-> i + 1, mode |-> ModeOf(list[i]),
   size |-> Len(list[i].content), data_offset |-> Start(Pos(list, i - 1), list[i])]

EntrySet == [path : Seq(Chars), inode_num : Nat, mode : Nat, size : Nat, data_offset : Nat]

\* The entries are those of the first files.
Found(list, es) ==
  /\ es \in Seq(EntrySet) /\ Len(es) <= Len(list)
  /\ \A i \in 1 .. Len(es) : es[i] = EntryOf(list, i)

\* The invariant of the parser: it is at the header behind the files it has found.
ParseInv ==
  /\ files \in FileLists
  /\ Damaged(archive, ArchiveOf(files))
  /\ Found(files, entries)
  /\ offset = Pos(files, Len(entries))
  /\ mount = "mounted" /\ archive = ArchiveOf(files) => Len(entries) = Len(files)

\* The header at which the parser is, in an archive made of list, is that of the next
\* file, or the trailer's.
LEMMA HeaderAt ==
  ASSUME NEW list \in FileLists, NEW k \in 0 .. Len(list), NEW a, Damaged(a, ArchiveOf(list)),
         Pos(list, k) \in DOMAIN a.headers
  PROVE  /\ k < Len(list) => SameFields(a.headers[Pos(list, k)], HeaderOf(list[k + 1]))
         /\ k = Len(list) => a.headers[Pos(list, k)].path = Trailer
  <1>1. PICK whole : whole = ArchiveOf(list) /\ Whole(list, whole)
    BY ArchiveIs, Zenon
  <1>2. PICK p : p = Pos(list, k)
    BY Zenon
  <1>3. SameFields(a.headers[p], whole.headers[p])
    BY <1>1, <1>2, Zenon DEF Damaged
  <1>4. ASSUME k < Len(list) PROVE SameFields(a.headers[p], HeaderOf(list[k + 1]))
    <2>1. k + 1 \in 1 .. Len(list) /\ (k + 1) - 1 = k
      <3>1. list \in Seq(FileSet)
        BY FileSystemsAssumption, Zenon
      <3> QED  BY <1>4, <3>1
    <2>2. Laid(whole, p, list[k + 1])
      BY <1>1, <1>2, <2>1, Zenon DEF Whole
    <2> QED  BY <1>3, <2>2, Zenon DEF Laid
  <1>5. ASSUME k = Len(list) PROVE a.headers[p].path = Trailer
    <2>1. Laid(whole, p, Last)
      BY <1>1, <1>2, <1>5, Zenon DEF Whole
    <2>2. whole.headers[p].path = Trailer
      <3>1. whole.headers[p] = HeaderOf(Last)
        BY <2>1, Zenon DEF Laid
      <3> QED  BY <3>1 DEF HeaderOf, Last
    <2> QED  BY <1>3, <2>2, Zenon DEF SameFields
  <1> QED  BY <1>2, <1>4, <1>5, Zenon

\* The positions of the headers are numbers.
LEMMA PosType ==
  ASSUME NEW list \in FileLists, NEW k \in 0 .. Len(list)
  PROVE  Pos(list, k) \in Nat
  <1>1. PICK whole : Whole(list, whole)
    BY ArchiveIs, Zenon
  <1>2. list \in Seq(FileSet)
    BY FileSystemsAssumption, Zenon
  <1>3. CASE k = Len(list)
    BY <1>1, <1>3, Zenon DEF Whole, Laid
  <1>4. CASE k # Len(list)
    <2>1. k + 1 \in 1 .. Len(list) /\ (k + 1) - 1 = k
      BY <1>2, <1>4
    <2>2. Laid(whole, Pos(list, k), list[k + 1])
      BY <1>1, <2>1, Zenon DEF Whole
    <2> QED  BY <2>2, Zenon DEF Laid
  <1> QED  BY <1>3, <1>4

\* The entry that ParseEntry adds is that of the next file, and it goes on behind it.
LEMMA NextEntry ==
  ASSUME NEW list \in FileLists, NEW k \in Nat, k < Len(list), NEW h,
         SameFields(h, HeaderOf(list[k + 1])), h.namesize > 0, NEW p, p = Pos(list, k)
  PROVE  /\ EntryOf(list, k + 1) \in EntrySet
         /\ [path |-> h.path, inode_num |-> k + 2, mode |-> h.mode, size |-> h.filesize,
             data_offset |-> Align4(p + HEADER_SIZE + h.namesize)] = EntryOf(list, k + 1)
         /\ Align4(Align4(p + HEADER_SIZE + h.namesize) + h.filesize) = Pos(list, k + 1)
  <1>1. list \in Seq(FileSet) /\ HEADER_SIZE \in Nat
    BY FileSystemsAssumption
  <1>2. k + 1 \in 1 .. Len(list) /\ (k + 1) - 1 = k /\ (k + 1) + 1 = k + 2 /\ k \in 0 .. Len(list)
    BY <1>1
  <1>3. PICK f \in FileSet : f = list[k + 1]
    BY <1>1, <1>2
  <1>4. p \in Nat
    BY <1>2, PosType, Zenon
  <1>5. PICK l : l = Len(f.path) /\ l \in Nat
    BY <1>3 DEF FileSet
  <1>6. h.path = f.path /\ h.mode = ModeOf(f) /\ h.namesize = l + 1 /\ h.filesize = Len(f.content)
    <2>1. h.namesize # 0
      OBVIOUS
    <2> QED  BY <1>3, <1>5, <2>1 DEF SameFields, HeaderOf
  <1>7. p + HEADER_SIZE + (l + 1) = p + HEADER_SIZE + l + 1
    BY <1>1, <1>4, <1>5
  <1>8. Align4(p + HEADER_SIZE + h.namesize) = Start(p, f)
    BY <1>5, <1>6, <1>7, Zenon DEF Start
  <1>9. Align4(Start(p, f) + h.filesize) = End(p, f)
    BY <1>6, Zenon DEF End
  <1>10. Pos(list, k + 1) = End(p, f)
    <2>1. PICK whole : Whole(list, whole)
      BY ArchiveIs, Zenon
    <2> QED  BY <1>2, <1>3, <2>1, Zenon DEF Whole
  <1>11. EntryOf(list, k + 1) =
           [path |-> f.path, inode_num |-> k + 2, mode |-> ModeOf(f),
            size |-> Len(f.content), data_offset |-> Start(p, f)]
    BY <1>2, <1>3, Zenon DEF EntryOf
  <1>12. Start(p, f) \in Nat
    BY <1>3, <1>4, Positions, Zenon
  <1>13. EntryOf(list, k + 1) \in EntrySet
    <2>1. PICK d \in Nat : d = Start(p, f)
      BY <1>12, Zenon
    <2>2. f.path \in Seq(Chars) /\ Len(f.content) \in Nat
      BY <1>3 DEF FileSet
    <2>3. PICK m \in Nat : m = ModeOf(f)
      BY <1>3, ModeIs, Zenon
    <2> QED  BY <1>11, <2>1, <2>2, <2>3 DEF EntrySet
  <1> QED  BY <1>6, <1>8, <1>9, <1>10, <1>11, <1>13, Zenon

\* In an undamaged archive, the parser stops at the trailer only.
LEMMA GoesOn ==
  ASSUME NEW list \in FileLists, NEW a, a = ArchiveOf(list), NEW k \in Nat, k < Len(list),
         NEW p, p = Pos(list, k)
  PROVE  /\ p \in DOMAIN a.headers /\ p + HEADER_SIZE <= a.len
         /\ a.headers[p].hex /\ a.headers[p].utf8 /\ a.headers[p].namesize > 0
         /\ p + HEADER_SIZE + a.headers[p].namesize <= a.len
         /\ a.headers[p].path # Trailer
  <1>1. list \in Seq(FileSet) /\ HEADER_SIZE \in Nat
    BY FileSystemsAssumption
  <1>2. k + 1 \in 1 .. Len(list) /\ (k + 1) - 1 = k
    BY <1>1
  <1>3. PICK f \in FileSet : f = list[k + 1]
    BY <1>1, <1>2
  <1>4. WellNamed(f.path)
    BY <1>2, <1>3, FileSystemsAssumption, Zenon
  <1>5. Sound(a) /\ Laid(a, p, f)
    BY <1>2, <1>3, ArchiveIs, Zenon DEF Whole
  <1>6. /\ p \in DOMAIN a.headers /\ a.headers[p] = HeaderOf(f) /\ p \in Nat
        /\ End(p, f) <= a.len /\ a.len \in Nat
    BY <1>5, Zenon DEF Laid, Sound
  <1>7. PICK l, m : l = Len(f.path) /\ m = Len(f.content) /\ l \in Nat /\ m \in Nat
    <2>1. Len(f.path) \in Nat /\ Len(f.content) \in Nat
      BY <1>3 DEF FileSet
    <2> QED  BY <2>1, Zenon
  <1>8. PICK s, e : s = Start(p, f) /\ e = End(p, f)
    BY Zenon
  <1>9. s \in Nat /\ e \in Nat /\ p + HEADER_SIZE + l + 1 <= s /\ s + m <= e /\ e <= a.len
    BY <1>3, <1>6, <1>7, <1>8, Positions, Zenon
  <1>10. p + HEADER_SIZE + (l + 1) <= a.len /\ p + HEADER_SIZE <= a.len
    <2>1. PICK h \in Nat : h = HEADER_SIZE
      BY <1>1, Zenon
    <2>2. PICK q \in Nat : q = a.len
      BY <1>6, Zenon
    <2>3. p + h + l + 1 <= s /\ s + m <= e /\ e <= q
      BY <1>9, <2>1, <2>2, Zenon
    <2>4. p \in Nat /\ l \in Nat /\ m \in Nat /\ s \in Nat /\ e \in Nat
      BY <1>6, <1>7, <1>9, Zenon
    <2>5. p + h + (l + 1) <= q /\ p + h <= q
      BY <2>3, <2>4, SMTT(30)
    <2> QED  BY <2>1, <2>2, <2>5, Zenon
  <1>11. /\ a.headers[p].hex /\ a.headers[p].utf8
         /\ a.headers[p].namesize = l + 1 /\ a.headers[p].path = f.path
    BY <1>6, <1>7 DEF HeaderOf
  <1>12. a.headers[p].namesize > 0
    BY <1>7, <1>11
  <1> QED  BY <1>4, <1>6, <1>10, <1>11, <1>12, Zenon DEF WellNamed

\* An iteration of the loop of InitramFs::new keeps the parser's invariant.
LEMMA ParseStep ==
  ASSUME ParseInv, ParseEntry
  PROVE  ParseInv'
  <1>1. PICK k, h : k = Len(entries) /\ h = archive.headers[offset]
    BY Zenon
  <1>2. /\ files \in FileLists /\ Damaged(archive, ArchiveOf(files)) /\ Found(files, entries)
        /\ offset = Pos(files, k)
    BY <1>1, Zenon DEF ParseInv
  <1>3. files' = files /\ archive' = archive
    BY Zenon DEF ParseEntry
  <1>4. files \in Seq(FileSet) /\ entries \in Seq(EntrySet) /\ k \in 0 .. Len(files) /\ k \in Nat
    <2>1. files \in Seq(FileSet)
      BY <1>2, FileSystemsAssumption, Zenon
    <2>2. entries \in Seq(EntrySet) /\ k <= Len(files)
      BY <1>1, <1>2, Zenon DEF Found
    <2> QED  BY <1>1, <2>1, <2>2
  <1>5. CASE /\ offset + HEADER_SIZE <= archive.len /\ offset \in DOMAIN archive.headers
             /\ h.namesize > 0 /\ h.path # Trailer
             /\ entries' = Append(entries, [path |-> h.path, inode_num |-> Len(entries) + 2,
                                            mode |-> h.mode, size |-> h.filesize,
                                            data_offset |-> Align4(offset + HEADER_SIZE + h.namesize)])
             /\ offset' = Align4(Align4(offset + HEADER_SIZE + h.namesize) + h.filesize)
             /\ mount = "parsing" /\ mount' = mount
    <2>1. k < Len(files) /\ SameFields(h, HeaderOf(files[k + 1]))
      <3>1. k # Len(files)
        BY <1>1, <1>2, <1>4, <1>5, HeaderAt, Zenon
      <3>2. k < Len(files)
        BY <1>4, <3>1
      <3> QED  BY <1>1, <1>2, <1>4, <1>5, <3>2, HeaderAt, Zenon
    <2>2. PICK e \in EntrySet : e = EntryOf(files, k + 1)
      BY <1>2, <1>4, <1>5, <2>1, NextEntry, Zenon
    <2>3. entries' = Append(entries, e) /\ offset' = Pos(files, k + 1)
      BY <1>1, <1>2, <1>4, <1>5, <2>1, <2>2, NextEntry, ZenonT(40)
    <2>4. /\ entries' \in Seq(EntrySet) /\ Len(entries') = k + 1 /\ entries'[k + 1] = e
          /\ \A i \in 1 .. k : entries'[i] = entries[i]
      BY <1>1, <1>4, <2>3
    <2>5. Found(files, entries')
      <3>1. k + 1 <= Len(files)
        BY <1>4, <2>1
      <3>2. ASSUME NEW i \in 1 .. k + 1 PROVE entries'[i] = EntryOf(files, i)
        <4>1. CASE i = k + 1
          BY <2>2, <2>4, <4>1, Zenon
        <4>2. CASE i # k + 1
          <5>1. i \in 1 .. k
            BY <1>4, <4>2
          <5>2. entries[i] = EntryOf(files, i)
            BY <1>1, <1>2, <5>1, Zenon DEF Found
          <5> QED  BY <2>4, <5>1, <5>2, Zenon
        <4> QED  BY <4>1, <4>2
      <3> QED  BY <2>4, <3>1, <3>2, Zenon DEF Found
    <2>6. mount' # "mounted"
      BY <1>5
    <2>7. offset' = Pos(files, Len(entries'))
      BY <2>3, <2>4, Zenon
    <2> QED  BY <1>2, <1>3, <2>5, <2>6, <2>7, Zenon DEF ParseInv
  <1>6. CASE UNCHANGED <<offset, entries>> /\ mount' # "mounted"
    <2>1. offset' = offset /\ entries' = entries /\ mount' # "mounted"
      BY <1>6
    <2> QED  BY <1>3, <2>1, Zenon DEF ParseInv
  <1>7. CASE /\ ~(/\ offset + HEADER_SIZE <= archive.len /\ offset \in DOMAIN archive.headers
                  /\ (h.hex => offset + HEADER_SIZE + h.namesize <= archive.len)
                  /\ h.path # Trailer)
             /\ UNCHANGED <<offset, entries>>
    <2>1. offset' = offset /\ entries' = entries
      BY <1>7
    <2>2. ASSUME archive = ArchiveOf(files) PROVE k = Len(files)
      <3>1. SUFFICES ASSUME k < Len(files) PROVE FALSE
        BY <1>4
      <3>2. /\ offset \in DOMAIN archive.headers /\ offset + HEADER_SIZE <= archive.len
            /\ h.hex /\ offset + HEADER_SIZE + h.namesize <= archive.len /\ h.path # Trailer
        BY <1>1, <1>2, <1>4, <2>2, <3>1, GoesOn, Zenon
      <3> QED  BY <1>7, <3>2, Zenon
    <2> QED  BY <1>1, <1>2, <1>3, <2>1, <2>2, Zenon DEF ParseInv
  <1>8. mount = "parsing" /\ (mount' = mount \/ mount' = "none" => mount' # "mounted")
    BY DEF ParseEntry
  <1> QED  BY <1>1, <1>5, <1>6, <1>7, <1>8, Zenon DEF ParseEntry

\* What InitramFs::new has found is always what was put into the archive first.
LEMMA ParseInvHolds == Spec => []ParseInv
  <1>1. Init => ParseInv
    <2> SUFFICES ASSUME Init PROVE ParseInv
      OBVIOUS
    <2>1. /\ files \in FileLists /\ archive \in Ramdisks(ArchiveOf(files)) /\ offset = 0
          /\ entries = << >> /\ mount # "mounted"
      BY DEF Init
    <2>2. Whole(files, ArchiveOf(files))
      BY <2>1, ArchiveIs, Zenon
    <2>3. Damaged(archive, ArchiveOf(files)) /\ Pos(files, 0) = 0
      BY <2>1, <2>2, RamdiskIs, Zenon DEF Whole
    <2>4. entries \in Seq(EntrySet) /\ Len(entries) = 0 /\ 0 <= Len(files)
      <3>1. files \in Seq(FileSet)
        BY <2>1, FileSystemsAssumption, Zenon
      <3> QED  BY <2>1, <3>1
    <2>5. Found(files, entries)
      BY <2>4 DEF Found
    <2> QED  BY <2>1, <2>3, <2>4, <2>5, Zenon DEF ParseInv
  <1>2. ParseInv /\ [Next]_xvars => ParseInv'
    <2> SUFFICES ASSUME ParseInv, [Next]_xvars PROVE ParseInv'
      OBVIOUS
    <2>1. CASE ParseEntry
      BY <2>1, ParseStep, Zenon
    <2>2. CASE UNCHANGED <<files, archive, offset, entries, mount>>
      <3>1. /\ files' = files /\ archive' = archive /\ offset' = offset /\ entries' = entries
            /\ mount' = mount
        BY <2>2
      <3> QED  BY <3>1, Zenon DEF ParseInv
    <2>3. Open \/ Read \/ Second \/ UNCHANGED xvars => UNCHANGED <<files, archive, offset, entries, mount>>
      BY Zenon DEF Open, Read, Second, xvars
    <2> QED  BY <2>1, <2>2, <2>3, Zenon DEF Next
  <1> QED  BY <1>1, <1>2, PTL DEF Spec

-----------------------------------------------------------------------------
(* Looking files up.                                                        *)

\* First finds a position if there is one.
LEMMA FirstIs ==
  ASSUME NEW n \in Nat, NEW T, T \subseteq 1 .. n
  PROVE  /\ T = {} => First(T) = 0
         /\ T # {} => First(T) \in T
  <1>1. ASSUME T # {} PROVE First(T) \in T
    <2>1. T \subseteq Nat
      OBVIOUS
    <2>2. \E i \in T : \A j \in T : i <= j
      BY <1>1, <2>1, Least, Zenon
    <2> QED  BY <1>1, <2>2, Zenon DEF First
  <1> QED  BY <1>1, Zenon DEF First

\* The fields of an entry.
Fields(list, es, i) ==
  /\ es[i].path = list[i].path /\ es[i].inode_num = i + 1 /\ es[i].mode = ModeOf(list[i])
  /\ es[i].size = Len(list[i].content)
  /\ es[i].data_offset = Start(Pos(list, i - 1), list[i])

\* The fields of an entry that was found are those of its file.
LEMMA EntryFields ==
  ASSUME NEW list, NEW es, Found(list, es), NEW i \in 1 .. Len(es)
  PROVE  Fields(list, es, i)
  <1>1. es[i] = EntryOf(list, i)
    BY Zenon DEF Found
  <1>2. PICK d, l : d = Start(Pos(list, i - 1), list[i]) /\ l = Len(list[i].content)
    BY Zenon
  <1>3. EntryOf(list, i) = [path |-> list[i].path, inode_num |-> i + 1, mode |-> ModeOf(list[i]),
                           size |-> l, data_offset |-> d]
    BY <1>2, Zenon DEF EntryOf
  <1>4. /\ es[i].path = list[i].path /\ es[i].inode_num = i + 1 /\ es[i].mode = ModeOf(list[i])
        /\ es[i].size = l /\ es[i].data_offset = d
    BY <1>1, <1>3
  <1> QED  BY <1>2, <1>4, Zenon DEF Fields

\* InitramFs::read and readdir find an entry by its inode number.
LEMMA FindsInode ==
  ASSUME NEW list, Found(list, entries), NEW i \in 1 .. Len(entries)
  PROVE  FindInode(i + 1) = i
  <1>1. PICK T : T = {j \in 1 .. Len(entries) : entries[j].inode_num = i + 1}
    BY Zenon
  <1>2. entries \in Seq(EntrySet)
    BY Zenon DEF Found
  <1>3. Len(entries) \in Nat /\ T \subseteq 1 .. Len(entries)
    BY <1>1, <1>2
  <1>4. \A j \in 1 .. Len(entries) : entries[j].inode_num = j + 1
    BY EntryFields, ZenonT(40) DEF Fields
  <1>5. i \in T
    BY <1>1, <1>4
  <1>6. \A j \in T : j = i
    BY <1>1, <1>4
  <1>7. First(T) \in T
    BY <1>3, <1>5, FirstIs, Zenon
  <1> QED  BY <1>1, <1>6, <1>7, Zenon DEF FindInode

\* trim_start_matches takes the leading slashes off and nothing else.
LEMMA TrimIs ==
  ASSUME NEW S, NEW path \in Seq(S), NEW n \in 0 .. Len(path),
         \A i \in 1 .. n : path[i] = Slash, n < Len(path) => path[n + 1] # Slash
  PROVE  TrimStart(path) = SubSeq(path, n + 1, Len(path))
  <1> DEFINE P(m) == /\ \A i \in 1 .. m : path[i] = Slash
                     /\ m < Len(path) => path[m + 1] # Slash
  <1>1. P(n)
    BY Zenon
  <1>2. ASSUME NEW m \in 0 .. Len(path), P(m) PROVE m = n
    <2>1. CASE m < n
      <3>1. m + 1 \in 1 .. n /\ m < Len(path)
        BY <2>1
      <3> QED  BY <1>2, <3>1, Zenon
    <2>2. CASE n < m
      <3>1. n + 1 \in 1 .. m /\ n < Len(path)
        BY <2>2
      <3> QED  BY <1>2, <3>1, Zenon
    <2> QED  BY <2>1, <2>2
  <1>3. (CHOOSE m \in 0 .. Len(path) : P(m)) = n
    BY <1>1, <1>2, Zenon
  <1> QED  BY <1>3, Zenon DEF TrimStart

\* A path of the archive has none, and one with a slash before it is trimmed to it.
LEMMA TrimName ==
  ASSUME NEW S, Slash \in S, NEW q \in Seq(S), WellNamed(q)
  PROVE  TrimStart(q) = q /\ TrimStart(Root \o q) = q
  <1>1. Len(q) \in Nat /\ Len(q) > 0 /\ q[1] # Slash
    BY DEF WellNamed
  <1>2. TrimStart(q) = q
    <2>1. 0 \in 0 .. Len(q) /\ \A i \in 1 .. 0 : q[i] = Slash
      BY <1>1
    <2>2. 0 + 1 = 1
      OBVIOUS
    <2>3. TrimStart(q) = SubSeq(q, 1, Len(q))
      BY <1>1, <2>1, <2>2, TrimIs, Zenon
    <2> QED  BY <2>3
  <1>3. TrimStart(Root \o q) = q
    <2>1. PICK r : r = Root \o q
      BY Zenon
    <2>2. /\ r \in Seq(S) /\ Len(r) = Len(q) + 1 /\ r[1] = Slash
          /\ \A i \in 1 .. Len(q) : r[i + 1] = q[i]
      BY <2>1 DEF Root
    <2>3. 1 \in 0 .. Len(r) /\ (\A i \in 1 .. 1 : r[i] = Slash) /\ r[1 + 1] # Slash
      BY <1>1, <2>2
    <2>4. TrimStart(r) = SubSeq(r, 1 + 1, Len(r))
      BY <2>2, <2>3, TrimIs, Zenon
    <2>5. SubSeq(r, 1 + 1, Len(r)) = q
      BY <1>1, <2>2
    <2> QED  BY <2>1, <2>4, <2>5, Zenon
  <1> QED  BY <1>2, <1>3

\* The files that archives are made of are files, with well-formed names.
LEMMA FileFacts ==
  ASSUME NEW list \in FileLists, NEW i \in 1 .. Len(list)
  PROVE  /\ list[i] \in FileSet /\ list[i].path \in Seq(Chars) /\ WellNamed(list[i].path)
         /\ list[i].content \in Seq(Int)
  <1>1. list \in Seq(FileSet) /\ WellNamed(list[i].path)
    BY FileSystemsAssumption, Zenon
  <1>2. list[i] \in FileSet
    BY <1>1
  <1>3. list[i].path \in Seq(Chars) /\ list[i].content \in Seq(Int)
    BY <1>2 DEF FileSet
  <1> QED  BY <1>1, <1>2, <1>3

\* InitramFs::find finds a file under its path, with or without a slash before it.
LEMMA FindsPath ==
  ASSUME files \in FileLists, Found(files, entries), NEW q, q \in Seq(Chars), WellNamed(q),
         NEW path \in {q, Root \o q}
  PROVE  /\ TrimStart(path) = q
         /\ FindPath(path) = 0 => \A i \in 1 .. Len(entries) : files[i].path # q
         /\ FindPath(path) # 0 => /\ FindPath(path) \in 1 .. Len(entries)
                                  /\ files[FindPath(path)].path = q
  <1>1. entries \in Seq(EntrySet) /\ files \in Seq(FileSet) /\ Len(entries) <= Len(files)
    BY FileSystemsAssumption, Zenon DEF Found
  <1>2. \A i \in 1 .. Len(entries) : i \in 1 .. Len(files)
    BY <1>1
  <1>3. Slash \in Chars
    BY DEF Chars
  <1>4. TrimStart(path) = q
    BY <1>3, TrimName, Zenon
  <1>5. path[1] = Slash \/ path = q
    <2>1. (Root \o q)[1] = Slash
      BY <1>3 DEF Root
    <2> QED  BY <2>1, Zenon
  <1>6. PICK T : T = {i \in 1 .. Len(entries) : entries[i].path \in {path, TrimStart(path)}}
    BY Zenon
  <1>7. \A i \in 1 .. Len(entries) : entries[i].path = files[i].path /\ files[i].path[1] # Slash
    <2>1. ASSUME NEW i \in 1 .. Len(entries) PROVE entries[i].path = files[i].path
      <3>1. Fields(files, entries, i)
        BY EntryFields, Zenon
      <3> QED  BY <3>1, Zenon DEF Fields
    <2>2. \A i \in 1 .. Len(entries) : files[i].path[1] # Slash
      BY <1>2, FileFacts, Zenon DEF WellNamed
    <2> QED  BY <2>1, <2>2, Zenon
  <1>8. \A i : i \in T <=> i \in 1 .. Len(entries) /\ files[i].path = q
    BY <1>4, <1>5, <1>6, <1>7, Zenon
  <1>9. FindPath(path) = First(T)
    BY <1>6, Zenon DEF FindPath
  <1>10. Len(entries) \in Nat /\ T \subseteq 1 .. Len(entries) /\ 0 \notin 1 .. Len(entries)
    BY <1>1, <1>8
  <1>11. (T = {} => First(T) = 0) /\ (T # {} => First(T) \in T)
    BY <1>10, FirstIs, Zenon
  <1> QED  BY <1>4, <1>8, <1>9, <1>10, <1>11, Zenon

-----------------------------------------------------------------------------
(* Reading files in chunks.                                                 *)

\* t is the part of s behind position m, up to position n.
IsSlice(t, S, s, m, n) ==
  /\ t \in Seq(S) /\ Len(t) = n - m
  /\ \A i \in 1 .. n - m : t[i] = s[m + i]

\* w is s with t behind it.
IsJoin(w, S, s, t) ==
  /\ w \in Seq(S) /\ Len(w) = Len(s) + Len(t)
  /\ \A i \in 1 .. Len(s) : w[i] = s[i]
  /\ \A i \in 1 .. Len(t) : w[Len(s) + i] = t[i]

\* SubSeq takes such a part.
LEMMA Slices ==
  ASSUME NEW S, NEW s \in Seq(S), NEW m \in Nat, NEW n \in Nat, m <= n, n <= Len(s)
  PROVE  IsSlice(SubSeq(s, m + 1, n), S, s, m, n)
  <1>1. Len(SubSeq(s, m + 1, n)) = n - m
    OBVIOUS
  <1>2. SubSeq(s, m + 1, n) \in Seq(S)
    OBVIOUS
  <1>3. ASSUME NEW i \in 1 .. n - m PROVE SubSeq(s, m + 1, n)[i] = s[m + i]
    OBVIOUS
  <1> QED  BY <1>1, <1>2, <1>3, Zenon DEF IsSlice

\* Concatenation gives such a sequence.
LEMMA Joins ==
  ASSUME NEW S, NEW s \in Seq(S), NEW t \in Seq(S)
  PROVE  IsJoin(s \o t, S, s, t)
  BY DEF IsJoin

\* Sequences are equal if their elements are.
LEMMA SameElements ==
  \A S : \A s, t \in Seq(S) :
    (Len(s) = Len(t) /\ \A i \in 1 .. Len(s) : s[i] = t[i]) => s = t
  OBVIOUS

\* With the chunk b, what was read of c grows, or it is all of c.
Joint(g, b, c) ==
  /\ b \in Seq(Int) /\ g \o b \in Seq(Int) /\ IsPrefix(g \o b, c)
  /\ b = << >> => g = c

\* A chunk that is the part of the content behind what was read joins with it.
LEMMA SliceJoins ==
  ASSUME NEW c \in Seq(Int), NEW g \in Seq(Int), IsPrefix(g, c), NEW k, k = Len(g),
         NEW e \in Nat, k <= e, e <= Len(c), e = k => k = Len(c),
         NEW b, IsSlice(b, Int, c, k, e)
  PROVE  Joint(g, b, c)
  <1>1. PICK l : l = Len(c) /\ k \in Nat /\ l \in Nat
    <2>1. Len(g) \in Nat /\ Len(c) \in Nat
      OBVIOUS
    <2> QED  BY <2>1, Zenon
  <1>2. k <= l /\ \A i \in 1 .. k : g[i] = c[i]
    BY <1>1, Zenon DEF IsPrefix
  <1>3. b \in Seq(Int) /\ Len(b) = e - k /\ \A i \in 1 .. e - k : b[i] = c[k + i]
    BY Zenon DEF IsSlice
  <1>4. PICK w : w = g \o b /\ IsJoin(w, Int, g, b)
    BY <1>3, Joins, Zenon
  <1>5. k + (e - k) = e
    BY <1>1
  <1>6. /\ w \in Seq(Int) /\ Len(w) = e
        /\ \A i \in 1 .. k : w[i] = g[i]
        /\ \A i \in 1 .. e - k : w[k + i] = b[i]
    BY <1>3, <1>4, <1>5, Zenon DEF IsJoin
  <1>7. ASSUME NEW i \in 1 .. e PROVE w[i] = c[i]
    <2>1. CASE i \in 1 .. k
      BY <1>2, <1>6, <2>1, Zenon
    <2>2. CASE i \notin 1 .. k
      <3>1. PICK j \in 1 .. e - k : i = k + j
        <4>1. i - k \in 1 .. e - k /\ i = k + (i - k)
          BY <1>1, <2>2
        <4> QED  BY <4>1, Zenon
      <3> QED  BY <1>3, <1>6, <3>1, Zenon
    <2> QED  BY <2>1, <2>2
  <1>8. IsPrefix(w, c)
    BY <1>6, <1>7, Zenon DEF IsPrefix
  <1>9. ASSUME b = << >> PROVE g = c
    <2>1. Len(b) = 0
      BY <1>9
    <2>2. e = k
      BY <1>1, <1>3, <2>1
    <2>3. Len(g) = Len(c) /\ \A i \in 1 .. Len(g) : g[i] = c[i]
      BY <1>2, <2>2, Zenon
    <2> QED  BY <2>3, SameElements, Zenon
  <1> QED  BY <1>3, <1>4, <1>6, <1>8, <1>9, Zenon DEF Joint

\* The chunk that a buffer of n bytes takes of l bytes, from k on, ends behind k unless
\* nothing is left.
LEMMA ChunkEnd ==
  ASSUME NEW k \in Nat, NEW l \in Nat, k <= l, NEW n \in Nat \ {0},
         NEW e, e = IF k + n < l THEN k + n ELSE l
  PROVE  e \in Nat /\ k <= e /\ e <= l /\ (e = k => k = l)
  <1>1. CASE k + n < l
    BY <1>1
  <1>2. CASE ~(k + n < l)
    BY <1>2
  <1> QED  BY <1>1, <1>2

\* The chunk that From answers at the offset that was reached joins with what was read.
LEMMA FromJoins ==
  ASSUME NEW c \in Seq(Int), NEW g \in Seq(Int), IsPrefix(g, c), NEW n \in Nat \ {0}
  PROVE  From(c, Len(g), n).res = "ok" /\ Joint(g, From(c, Len(g), n).bytes, c)
  <1>1. PICK k, l : k = Len(g) /\ l = Len(c) /\ k \in Nat /\ l \in Nat
    <2>1. Len(g) \in Nat /\ Len(c) \in Nat
      OBVIOUS
    <2> QED  BY <2>1, Zenon
  <1>2. k <= l
    BY <1>1, Zenon DEF IsPrefix
  <1>3. PICK e : e = (IF k + n < l THEN k + n ELSE l)
    BY Zenon
  <1>4. e \in Nat /\ k <= e /\ e <= l /\ (e = k => k = l)
    BY <1>1, <1>2, <1>3, ChunkEnd, Zenon
  <1>5. PICK b : b = SubSeq(c, k + 1, e)
    BY Zenon
  <1>6. From(c, Len(g), n) = Ok(b)
    BY <1>1, <1>3, <1>5, Zenon DEF From
  <1>7. IsSlice(b, Int, c, k, e)
    BY <1>1, <1>4, <1>5, Slices, Zenon
  <1>8. Joint(g, b, c)
    BY <1>1, <1>4, <1>7, SliceJoins, Zenon
  <1>9. Ok(b).res = "ok" /\ Ok(b).bytes = b
    BY DEF Ok
  <1> QED  BY <1>6, <1>8, <1>9, Zenon

\* The bytes of a are c from position d on, and d + Len(c) is at most l.
HoldsAt(a, d, c, l) ==
  /\ d \in Nat /\ d + Len(c) <= l /\ l \in Nat
  /\ \A j \in 1 .. Len(c) : d + (j - 1) \in DOMAIN a.bytes /\ a.bytes[d + (j - 1)] = c[j]

\* Where the parser takes the data of the file number i to be, it is.
LEMMA EntryBytes ==
  ASSUME NEW list \in FileLists, NEW i \in 1 .. Len(list),
         NEW a, a.bytes = ArchiveOf(list).bytes, NEW d, d = Start(Pos(list, i - 1), list[i])
  PROVE  HoldsAt(a, d, list[i].content, ArchiveOf(list).len)
  <1>1. PICK w : w = ArchiveOf(list) /\ Whole(list, w)
    BY ArchiveIs, Zenon
  <1>2. PICK p : p = Pos(list, i - 1)
    BY Zenon
  <1>3. PICK f \in FileSet : f = list[i]
    BY FileFacts, Zenon
  <1>4. Laid(w, p, f) /\ Sound(w)
    BY <1>1, <1>2, <1>3, Zenon DEF Whole
  <1>5. p \in Nat /\ End(p, f) <= w.len /\ w.len \in Nat
    BY <1>4, Zenon DEF Laid, Sound
  <1>6. PICK e, m : e = End(p, f) /\ m = Len(f.content)
    BY Zenon
  <1>7. d \in Nat /\ e \in Nat /\ d + m <= e
    BY <1>2, <1>3, <1>5, <1>6, Positions, Zenon
  <1>8. d + m <= w.len
    <2>1. m \in Nat
      BY <1>3, <1>6 DEF FileSet
    <2>2. PICK l \in Nat : l = w.len
      BY <1>5, Zenon
    <2>3. e <= l
      BY <1>5, <1>6, <2>2, Zenon
    <2>4. d + m <= l
      BY <1>7, <2>1, <2>3
    <2> QED  BY <2>2, <2>4, Zenon
  <1>9. \A j \in 1 .. m : d + (j - 1) \in DOMAIN w.bytes /\ w.bytes[d + (j - 1)] = f.content[j]
    BY <1>2, <1>3, <1>4, <1>6, Zenon DEF Laid
  <1> QED  BY <1>1, <1>3, <1>5, <1>6, <1>7, <1>8, <1>9, Zenon DEF HoldsAt

\* So does the chunk that From answers from the part of c that is still to be read.
LEMMA RestJoins ==
  ASSUME NEW c \in Seq(Int), NEW g \in Seq(Int), IsPrefix(g, c), NEW n \in Nat \ {0},
         NEW r, IsSlice(r, Int, c, Len(g), Len(c))
  PROVE  From(r, 0, n).res = "ok" /\ Joint(g, From(r, 0, n).bytes, c)
  <1>1. PICK k, l : k = Len(g) /\ l = Len(c) /\ k \in Nat /\ l \in Nat
    <2>1. Len(g) \in Nat /\ Len(c) \in Nat
      OBVIOUS
    <2> QED  BY <2>1, Zenon
  <1>2. k <= l
    BY <1>1, Zenon DEF IsPrefix
  <1>3. r \in Seq(Int) /\ Len(r) = l - k /\ \A i \in 1 .. l - k : r[i] = c[k + i]
    BY <1>1, Zenon DEF IsSlice
  <1>4. PICK e : e = (IF 0 + n < l - k THEN 0 + n ELSE l - k)
    BY Zenon
  <1>5. 0 \in Nat /\ l - k \in Nat /\ 0 <= l - k
    BY <1>1, <1>2
  <1>6. e \in Nat /\ 0 <= e /\ e <= l - k /\ (e = 0 => 0 = l - k)
    BY <1>4, <1>5, ChunkEnd, Zenon
  <1>7. PICK b : b = SubSeq(r, 0 + 1, e)
    BY Zenon
  <1>8. From(r, 0, n) = Ok(b)
    BY <1>3, <1>4, <1>7, Zenon DEF From
  <1>9. IsSlice(b, Int, r, 0, e)
    BY <1>3, <1>5, <1>6, <1>7, Slices, Zenon
  <1>10. PICK q : q = k + e
    BY Zenon
  <1>11. q \in Nat /\ k <= q /\ q <= l /\ (q = k => k = l) /\ q - k = e - 0 /\ e - 0 = e
    BY <1>1, <1>2, <1>6, <1>10
  <1>12. \A i \in 1 .. e : i \in 1 .. l - k /\ 0 + i = i
    BY <1>1, <1>6
  <1>13. IsSlice(b, Int, c, k, q)
    <2>1. b \in Seq(Int) /\ Len(b) = e - 0 /\ \A i \in 1 .. e - 0 : b[i] = r[0 + i]
      BY <1>9, Zenon DEF IsSlice
    <2>2. \A i \in 1 .. e : b[i] = c[k + i]
      BY <1>3, <1>11, <1>12, <2>1, Zenon
    <2> QED  BY <1>11, <2>1, <2>2, Zenon DEF IsSlice
  <1>14. Joint(g, b, c)
    BY <1>1, <1>11, <1>13, SliceJoins, Zenon
  <1>15. Ok(b).res = "ok" /\ Ok(b).bytes = b
    BY DEF Ok
  <1> QED  BY <1>8, <1>14, <1>15, Zenon

\* At the end of a file an empty chunk joins with it.
LEMMA EndJoins ==
  ASSUME NEW c \in Seq(Int), NEW g \in Seq(Int), IsPrefix(g, c), Len(g) >= Len(c)
  PROVE  Joint(g, << >>, c)
  <1>1. Len(g) = Len(c) /\ \A i \in 1 .. Len(g) : g[i] = c[i]
    BY DEF IsPrefix
  <1>2. g = c
    BY <1>1, SameElements, Zenon
  <1>3. g \o << >> = g /\ << >> \in Seq(Int)
    OBVIOUS
  <1> QED  BY <1>2, <1>3, Zenon DEF Joint

\* InitramFs::read at the offset that was reached: the next chunk of the file, or a
\* panic when the archive lacks its end.
LEMMA InitramReads ==
  ASSUME files \in FileLists, Damaged(archive, ArchiveOf(files)), Found(files, entries),
         NEW i \in 1 .. Len(entries), NEW g \in Seq(Int), IsPrefix(g, files[i].content),
         NEW n \in Nat \ {0}, NEW a, a = InitramRead(i + 1, Len(g), n)
  PROVE  \/ a.res = "ok" /\ Joint(g, a.bytes, files[i].content)
         \/ a = Panics /\ archive.len < ArchiveOf(files).len
  <1>1. i \in 1 .. Len(files) /\ i > 0
    <2>1. entries \in Seq(EntrySet) /\ files \in Seq(FileSet) /\ Len(entries) <= Len(files)
      BY FileSystemsAssumption, Zenon DEF Found
    <2> QED  BY <2>1
  <1>2. PICK c : c = files[i].content /\ c \in Seq(Int)
    BY <1>1, FileFacts, Zenon
  <1>3. PICK k, m : k = Len(g) /\ m = Len(c) /\ k \in Nat /\ m \in Nat
    <2>1. Len(g) \in Nat /\ Len(c) \in Nat
      BY <1>2
    <2> QED  BY <2>1, Zenon
  <1>4. k <= m
    BY <1>2, <1>3, Zenon DEF IsPrefix
  <1>5. PICK d : d = Start(Pos(files, i - 1), files[i])
    BY Zenon
  <1>6. archive.bytes = ArchiveOf(files).bytes
    BY Zenon DEF Damaged
  <1>7. PICK l : /\ l = ArchiveOf(files).len /\ d \in Nat /\ d + m <= l /\ l \in Nat
                 /\ \A j \in 1 .. m : /\ d + (j - 1) \in DOMAIN archive.bytes
                                      /\ archive.bytes[d + (j - 1)] = c[j]
    <2>1. HoldsAt(archive, d, files[i].content, ArchiveOf(files).len)
      BY <1>1, <1>5, <1>6, EntryBytes, Zenon
    <2> QED  BY <1>2, <1>3, <2>1, Zenon DEF HoldsAt
  <1>8. FindInode(i + 1) = i
    BY FindsInode, Zenon
  <1>9. entries[i].data_offset = d /\ entries[i].size = m
    <2>1. Fields(files, entries, i)
      BY EntryFields, Zenon
    <2> QED  BY <1>2, <1>3, <1>5, <2>1, Zenon DEF Fields
  <1>10. PICK s, e : s = d + k /\ e = d + m
    BY Zenon
  <1>11. PICK r : r = [j \in 1 .. e - s |-> ByteAt(s + j - 1)]
    BY Zenon
  <1>12. a = CASE i = 0 -> Err
               [] i > 0 /\ s >= e -> Ok(<< >>)
               [] i > 0 /\ s < e /\ e > archive.len -> Panics
               [] OTHER -> From(r, 0, n)
    BY <1>3, <1>8, <1>9, <1>10, <1>11, Zenon DEF InitramRead, FileEnd
  <1>13. archive.len \in Nat
    BY <1>7, Zenon DEF Damaged
  <1>14. CASE s >= e
    <2>1. k >= m /\ ~(s < e) /\ i # 0
      BY <1>1, <1>3, <1>7, <1>10, <1>14, SMTT(30)
    <2>2. Joint(g, << >>, c)
      BY <1>2, <1>3, <2>1, EndJoins, Zenon
    <2>3. a = Ok(<< >>)
      BY <1>1, <1>12, <1>14, <2>1
    <2>4. a.res = "ok" /\ a.bytes = << >>
      BY <2>3 DEF Ok
    <2> QED  BY <1>2, <2>2, <2>4, Zenon
  <1>15. CASE s < e /\ e > archive.len
    <2>1. ~(s >= e) /\ i # 0
      BY <1>1, <1>3, <1>7, <1>10, <1>15, SMTT(30)
    <2>2. a = Panics
      BY <1>1, <1>12, <1>15, <2>1
    <2>3. e <= l
      BY <1>7, <1>10, Zenon
    <2>4. archive.len < l
      BY <1>3, <1>7, <1>10, <1>13, <1>15, <2>3, SMTT(30)
    <2> QED  BY <1>7, <2>2, <2>4, Zenon
  <1>16. CASE s < e /\ ~(e > archive.len)
    <2>1. ~(s >= e) /\ i # 0
      BY <1>1, <1>3, <1>7, <1>10, <1>16, SMTT(30)
    <2>2. a = From(r, 0, n)
      BY <1>1, <1>12, <1>16, <2>1
    <2>3. e - s = m - k /\ m - k \in Nat
      BY <1>3, <1>4, <1>7, <1>10
    <2>4. ASSUME NEW j \in 1 .. m - k PROVE ByteAt(s + j - 1) = c[k + j] /\ c[k + j] \in Int
      <3>1. k + j \in 1 .. m /\ d + ((k + j) - 1) = s + j - 1
        BY <1>3, <1>4, <1>7, <1>10
      <3>2. c[k + j] \in Int
        BY <1>2, <1>3, <3>1, SMTT(30)
      <3> QED  BY <1>7, <3>1, <3>2, Zenon DEF ByteAt
    <2>5. PICK t : t = [j \in 1 .. m - k |-> c[k + j]]
      BY Zenon
    <2>6. r = t
      BY <1>11, <2>3, <2>4, <2>5, Zenon
    <2>7. t \in Seq(Int) /\ Len(t) = m - k /\ \A j \in 1 .. m - k : t[j] = c[k + j]
      <3>1. PICK q \in Nat : q = m - k
        BY <2>3, Zenon
      <3>2. t = [j \in 1 .. q |-> c[k + j]] /\ \A j \in 1 .. q : c[k + j] \in Int
        BY <2>4, <2>5, <3>1, Zenon
      <3>3. t \in Seq(Int) /\ Len(t) = q /\ \A j \in 1 .. q : t[j] = c[k + j]
        BY <3>2
      <3> QED  BY <3>1, <3>3, Zenon
    <2>8. IsSlice(r, Int, c, k, m)
      BY <2>6, <2>7, Zenon DEF IsSlice
    <2>9. a.res = "ok" /\ Joint(g, a.bytes, c)
      BY <1>2, <1>3, <2>2, <2>8, RestJoins, Zenon
    <2> QED  BY <1>2, <2>9, Zenon
  <1>17. s >= e \/ s < e
    BY <1>3, <1>7, <1>10
  <1> QED  BY <1>14, <1>15, <1>16, <1>17, Zenon

\* What was read is the beginning of c, and at the end of the file all of it.
ReadOf(g, e, c) == IsPrefix(g, c) /\ (e => g = c)

\* The text of the file of /proc with that inode number, in second s.
TextOf(num, s) ==
  CASE num = 2 -> Version
    [] num = 3 -> Decimal(s) \o << 19 >> \o Decimal(s) \o << 19 >>
    [] num = 4 -> Meminfo

\* What the reader has of the open file f, by its file system.
InArchive(f, g, e, list, n) ==
  /\ f.fs = "initramfs"
  /\ \E i \in 1 .. n : /\ f.num = i + 1 /\ TrimStart(f.path) = list[i].path
                       /\ ReadOf(g, e, list[i].content)

InProc(f, g, e, t, s) ==
  /\ f.fs = "proc" /\ f.num \in 2 .. 4
  /\ t \/ ReadOf(g, e, TextOf(f.num, s))

InSys(f, g) == f.fs = "sysfs" /\ f.num = 3 /\ IsPrefix(g, Hostname)

InDev(f, g) ==
  /\ f.fs = "devfs"
  /\ \A i \in 1 .. Len(g) : g[i] = 0
  /\ f.num \in {2, 5} => g = << >>
  /\ \/ f.num \in {2, 5}
     \/ f.num \in {3, 4} /\ f.path \in {<< Slash, "zero" >>, << Slash, "full" >>}

Has(f, g, e, t, s, list, n) ==
  InArchive(f, g, e, list, n) \/ InProc(f, g, e, t, s) \/ InSys(f, g) \/ InDev(f, g)

\* The invariant of the reader.
ReadInv ==
  /\ seconds \in Nat
  /\ got \in Seq(Int)
  /\ panicked => CutShort \/ NoName
  /\ file = NoFile => got = << >> /\ eof = FALSE
  /\ file # NoFile => /\ mount # "parsing"
                      /\ Has(file, got, eof, torn, seconds, files, Len(entries))

-----------------------------------------------------------------------------

\* The texts of /proc are not empty.
LEMMA Texts ==
  ASSUME NEW num \in 2 .. 4, NEW s \in Nat
  PROVE  TextOf(num, s) \in Seq(Int) /\ TextOf(num, s) # << >>
  <1>1. CASE num = 2
    BY <1>1 DEF TextOf, Version
  <1>2. CASE num = 3
    <2>1. PICK d : d = Decimal(s) /\ d \in Seq(Int)
      <3>1. Decimal(s) \in Seq(Int)
        BY DEF Decimal
      <3> QED  BY <3>1, Zenon
    <2>2. TextOf(num, s) = d \o << 19 >> \o d \o << 19 >>
      BY <1>2, <2>1 DEF TextOf
    <2>3. PICK h : h = d \o << 19 >> \o d /\ h \in Seq(Int)
      <3>1. d \o << 19 >> \in Seq(Int)
        BY <2>1
      <3>2. d \o << 19 >> \o d \in Seq(Int)
        BY <2>1, <3>1
      <3> QED  BY <3>2, Zenon
    <2>4. h \o << 19 >> \in Seq(Int) /\ Len(h \o << 19 >>) = Len(h) + 1 /\ Len(h) \in Nat
      BY <2>3
    <2>5. h \o << 19 >> # << >>
      BY <2>4
    <2> QED  BY <2>2, <2>3, <2>4, <2>5, Zenon
  <1>3. CASE num = 4
    BY <1>3 DEF TextOf, Meminfo
  <1> QED  BY <1>1, <1>2, <1>3

\* ProcFs::read copies from these texts.
LEMMA ProcTexts == \A num : ProcContent(num) = TextOf(num, seconds)
  BY DEF ProcContent, TextOf, Uptime

\* With a chunk that joins, what was read is the beginning of the content, or all of it.
LEMMA JointReads ==
  ASSUME NEW g, NEW b, NEW c, g \in Seq(Int), Joint(g, b, c)
  PROVE  g \o b \in Seq(Int) /\ ReadOf(g \o b, b = << >>, c)
  <1>1. g \o << >> = g
    OBVIOUS
  <1> QED  BY <1>1, Zenon DEF Joint, ReadOf

\* From answers with bytes at any offset, also behind the end.
LEMMA FromType ==
  ASSUME NEW c \in Seq(Int), NEW k \in Nat, NEW n \in Nat \ {0}
  PROVE  From(c, k, n).res = "ok" /\ From(c, k, n).bytes \in Seq(Int)
  <1>1. PICK l \in Nat : l = Len(c)
    <2>1. Len(c) \in Nat
      OBVIOUS
    <2> QED  BY <2>1, Zenon
  <1>2. PICK e : e = (IF k + n < l THEN k + n ELSE l)
    BY Zenon
  <1>3. PICK b : b = SubSeq(c, k + 1, e)
    BY Zenon
  <1>4. b \in Seq(Int)
    <2>1. CASE k <= l
      <3>1. e \in Nat /\ k <= e /\ e <= l
        BY <1>2, <2>1, ChunkEnd, Zenon
      <3>2. IsSlice(b, Int, c, k, e)
        BY <1>1, <1>3, <3>1, Slices, Zenon
      <3> QED  BY <3>2, Zenon DEF IsSlice
    <2>2. CASE ~(k <= l)
      <3>1. e = l /\ k + 1 > l /\ k + 1 \in Nat
        BY <1>2, <2>2
      <3>2. b = << >>
        BY <1>1, <1>3, <3>1
      <3> QED  BY <3>2
    <2> QED  BY <2>1, <2>2
  <1>5. From(c, k, n) = Ok(b)
    BY <1>1, <1>2, <1>3, Zenon DEF From
  <1>6. Ok(b).res = "ok" /\ Ok(b).bytes = b
    BY DEF Ok
  <1> QED  BY <1>4, <1>5, <1>6, Zenon

\* What a read that answers a leaves the reader with.
After(a) ==
  /\ got \o a.bytes \in Seq(Int)
  /\ a.res = "panic" => archive.len < ArchiveOf(files).len
  /\ Has(file, got \o a.bytes, a.res = "ok" /\ a.bytes = << >>, torn, seconds, files, Len(entries))

\* InitramFs::read keeps what is known of the reader.
LEMMA ReadArchive ==
  ASSUME ParseInv, got \in Seq(Int), NEW n \in Nat \ {0},
         InArchive(file, got, eof, files, Len(entries)),
         NEW a, a = InitramRead(file.num, Len(got), n)
  PROVE  After(a)
  <1>1. PICK i \in 1 .. Len(entries) : /\ file.num = i + 1 /\ TrimStart(file.path) = files[i].path
                                       /\ ReadOf(got, eof, files[i].content)
    BY Zenon DEF InArchive
  <1>2. PICK c : c = files[i].content
    BY Zenon
  <1>3. file.fs = "initramfs"
    BY Zenon DEF InArchive
  <1>4. IsPrefix(got, c)
    BY <1>1, <1>2, Zenon DEF ReadOf
  <1>5. \/ a.res = "ok" /\ Joint(got, a.bytes, c)
        \/ a = Panics /\ archive.len < ArchiveOf(files).len
    <2>1. files \in FileLists /\ Damaged(archive, ArchiveOf(files)) /\ Found(files, entries)
      BY Zenon DEF ParseInv
    <2>2. a = InitramRead(i + 1, Len(got), n) /\ IsPrefix(got, files[i].content)
      BY <1>1, <1>2, <1>4, Zenon
    <2>3. \/ a.res = "ok" /\ Joint(got, a.bytes, files[i].content)
          \/ a = Panics /\ archive.len < ArchiveOf(files).len
      BY <2>1, <2>2, InitramReads, Zenon
    <2> QED  BY <1>2, <2>3, Zenon
  <1>6. CASE a.res = "ok" /\ Joint(got, a.bytes, c)
    <2>1. got \o a.bytes \in Seq(Int) /\ ReadOf(got \o a.bytes, a.bytes = << >>, c)
      BY <1>6, JointReads, Zenon
    <2>2. ReadOf(got \o a.bytes, a.res = "ok" /\ a.bytes = << >>, c)
      BY <2>1, Zenon DEF ReadOf
    <2>3. a.res # "panic"
      BY <1>6
    <2> QED  BY <1>1, <1>2, <1>3, <2>1, <2>2, <2>3, Zenon DEF After, Has, InArchive
  <1>7. CASE a = Panics /\ archive.len < ArchiveOf(files).len
    <2>1. a.res # "ok" /\ a.bytes = << >>
      BY <1>7 DEF Panics
    <2>2. got \o a.bytes = got
      BY <2>1
    <2>3. ReadOf(got \o a.bytes, a.res = "ok" /\ a.bytes = << >>, c)
      BY <1>4, <2>1, <2>2, Zenon DEF ReadOf
    <2> QED  BY <1>1, <1>2, <1>3, <1>7, <2>2, <2>3, Zenon DEF After, Has, InArchive
  <1> QED  BY <1>5, <1>6, <1>7

\* So does ProcFs::read, which formats the text again each time.
LEMMA ReadProc ==
  ASSUME seconds \in Nat, got \in Seq(Int), NEW n \in Nat \ {0},
         InProc(file, got, eof, torn, seconds), NEW a, a = ProcRead(file.num, Len(got), n)
  PROVE  After(a)
  <1>1. file.fs = "proc" /\ file.num \in 2 .. 4
    BY Zenon DEF InProc
  <1>2. PICK c : c = TextOf(file.num, seconds) /\ c \in Seq(Int)
    BY <1>1, Texts, Zenon
  <1>3. a = From(c, Len(got), n)
    BY <1>1, <1>2, ProcTexts, Zenon DEF ProcRead
  <1>4. Len(got) \in Nat
    OBVIOUS
  <1>5. a.res = "ok" /\ a.bytes \in Seq(Int) /\ a.res # "panic"
    <2>1. a.res = "ok" /\ a.bytes \in Seq(Int)
      BY <1>2, <1>3, <1>4, FromType, Zenon
    <2> QED  BY <2>1
  <1>6. got \o a.bytes \in Seq(Int)
    BY <1>5
  <1>7. CASE torn
    BY <1>1, <1>5, <1>6, <1>7, Zenon DEF After, Has, InProc
  <1>8. CASE ~torn
    <2>1. IsPrefix(got, c)
      BY <1>2, <1>8, Zenon DEF InProc, ReadOf
    <2>2. Joint(got, a.bytes, c)
      BY <1>2, <1>3, <2>1, FromJoins, Zenon
    <2>3. ReadOf(got \o a.bytes, a.bytes = << >>, c)
      BY <2>2, JointReads, Zenon
    <2>4. ReadOf(got \o a.bytes, a.res = "ok" /\ a.bytes = << >>, c)
      BY <2>3, Zenon DEF ReadOf
    <2> QED  BY <1>1, <1>2, <1>5, <1>6, <2>4, Zenon DEF After, Has, InProc
  <1> QED  BY <1>7, <1>8

\* So does SysFs::read, which gives one chunk.
LEMMA ReadSys ==
  ASSUME got \in Seq(Int), NEW n \in Nat \ {0}, InSys(file, got),
         NEW a, a = SysRead(file.num, Len(got), n)
  PROVE  After(a)
  <1>1. file.fs = "sysfs" /\ file.num = 3 /\ IsPrefix(got, Hostname)
    BY Zenon DEF InSys
  <1>2. CASE Len(got) > 0
    <2>1. a = Ok(<< >>)
      BY <1>2 DEF SysRead
    <2>2. a.res = "ok" /\ a.bytes = << >> /\ a.res # "panic"
      BY <2>1 DEF Ok
    <2>3. got \o a.bytes = got
      BY <2>2
    <2> QED  BY <1>1, <2>2, <2>3, Zenon DEF After, Has, InSys
  <1>3. CASE ~(Len(got) > 0)
    <2>1. Len(got) = 0 /\ Hostname \in Seq(Int)
      BY <1>3 DEF Hostname
    <2>2. a = From(Hostname, 0, n)
      BY <1>1, <2>1 DEF SysRead
    <2>3. a.res = "ok" /\ Joint(got, a.bytes, Hostname)
      <3>1. a = From(Hostname, Len(got), n)
        BY <2>1, <2>2, Zenon
      <3>2. Hostname \in Seq(Int)
        BY <2>1, Zenon
      <3>3. From(Hostname, Len(got), n).res = "ok" /\ Joint(got, From(Hostname, Len(got), n).bytes, Hostname)
        BY <1>1, <3>2, FromJoins, Zenon
      <3> QED  BY <3>1, <3>3, Zenon
    <2>4. a.res # "panic"
      BY <2>3
    <2> QED  BY <1>1, <2>3, <2>4, Zenon DEF After, Has, InSys, Joint
  <1> QED  BY <1>2, <1>3

\* So does DevFs::read.
LEMMA ReadDev ==
  ASSUME got \in Seq(Int), NEW n \in Nat \ {0}, InDev(file, got),
         NEW a, a = DevRead(file.num, n)
  PROVE  After(a)
  <1>1. CASE file.num \in {2, 5}
    <2>1. a = Ok(<< >>)
      BY <1>1 DEF DevRead
    <2>2. a.res = "ok" /\ a.bytes = << >> /\ a.res # "panic"
      BY <2>1 DEF Ok
    <2>3. got \o a.bytes = got
      BY <2>2
    <2> QED  BY <2>2, <2>3, Zenon DEF After, Has
  <1>2. CASE file.num \in {3, 4}
    <2>1. PICK z : z = [i \in 1 .. n |-> 0] /\ z \in Seq(Int) /\ Len(z) = n /\ \A i \in 1 .. n : z[i] = 0
      <3>1. /\ [i \in 1 .. n |-> 0] \in Seq(Int) /\ Len([i \in 1 .. n |-> 0]) = n
            /\ \A i \in 1 .. n : [j \in 1 .. n |-> 0][i] = 0
        OBVIOUS
      <3> QED  BY <3>1, Zenon
    <2>2. a = Ok(z) /\ file.num \notin {2, 5}
      BY <1>2, <2>1 DEF DevRead
    <2>3. a.res = "ok" /\ a.bytes = z /\ a.res # "panic"
      BY <2>2 DEF Ok
    <2>4. PICK w : w = got \o z /\ IsJoin(w, Int, got, z)
      BY <2>1, Joins, Zenon
    <2>5. \A i \in 1 .. Len(got) : got[i] = 0
      BY Zenon DEF InDev
    <2>6. w \in Seq(Int) /\ Len(w) = Len(got) + n
      BY <2>1, <2>4, Zenon DEF IsJoin
    <2>7. ASSUME NEW i \in 1 .. Len(w) PROVE w[i] = 0
      <3>1. CASE i \in 1 .. Len(got)
        BY <2>4, <2>5, <3>1, Zenon DEF IsJoin
      <3>2. CASE i \notin 1 .. Len(got)
        <4>1. PICK j \in 1 .. n : i = Len(got) + j
          <5>1. i - Len(got) \in 1 .. n /\ i = Len(got) + (i - Len(got))
            BY <2>6, <3>2
          <5> QED  BY <5>1, Zenon
        <4> QED  BY <2>1, <2>4, <4>1, Zenon DEF IsJoin
      <3> QED  BY <3>1, <3>2
    <2> QED  BY <1>2, <2>2, <2>3, <2>4, <2>6, <2>7, Zenon DEF After, Has, InDev
  <1> QED  BY <1>1, <1>2, Zenon DEF InDev

\* Before the first read the reader has the beginning of any content.
LEMMA NothingRead ==
  ASSUME NEW g, g = << >>, NEW c \in Seq(Int)
  PROVE  IsPrefix(g, c) /\ ReadOf(g, FALSE, c)
  <1>1. IsPrefix(g, c)
    BY DEF IsPrefix
  <1> QED  BY <1>1, Zenon DEF ReadOf

\* What lookup finds in the archive, other than a directory, is the file of that path.
LEMMA OpenArchive ==
  ASSUME ParseInv, NEW j \in 1 .. Len(files), NEW path \in {files[j].path, Root \o files[j].path},
         InitramLookup(path).kind \notin {"NotFound", "Directory"}
  PROVE  \E i \in 1 .. Len(entries) : /\ InitramLookup(path).num = i + 1
                                      /\ TrimStart(path) = files[i].path
                                      /\ files[i].content \in Seq(Int)
  <1>1. files \in FileLists /\ Found(files, entries)
    BY Zenon DEF ParseInv
  <1>2. PICK q : q = files[j].path /\ q \in Seq(Chars) /\ WellNamed(q)
    BY <1>1, FileFacts, Zenon
  <1>3. PICK p : p = FindPath(path)
    BY Zenon
  <1>4. /\ TrimStart(path) = q
        /\ p # 0 => p \in 1 .. Len(entries) /\ files[p].path = q
    BY <1>1, <1>2, <1>3, FindsPath, Zenon
  <1>5. path \notin {Root, << >>} /\ p > 0
    <2>1. Inode(1, "Directory").kind = "Directory" /\ NotFound.kind = "NotFound"
      BY DEF Inode, NotFound
    <2> QED  BY <1>3, <2>1 DEF InitramLookup
  <1>6. InitramLookup(path) = Inode(entries[p].inode_num, LookupKind(entries[p].mode))
    BY <1>3, <1>5, Zenon DEF InitramLookup
  <1>7. p \in 1 .. Len(entries) /\ files[p].path = q
    BY <1>4, <1>5
  <1>8. Fields(files, entries, p)
    BY <1>1, <1>7, EntryFields, Zenon
  <1>9. InitramLookup(path).num = p + 1
    <2>1. InitramLookup(path).num = entries[p].inode_num
      BY <1>6 DEF Inode
    <2> QED  BY <1>8, <2>1, Zenon DEF Fields
  <1>10. p \in 1 .. Len(files)
    <2>1. entries \in Seq(EntrySet) /\ files \in Seq(FileSet) /\ Len(entries) <= Len(files)
      BY <1>1, FileSystemsAssumption, Zenon DEF Found
    <2> QED  BY <1>7, <2>1
  <1>11. files[p].content \in Seq(Int)
    BY <1>1, <1>10, FileFacts, Zenon
  <1> QED  BY <1>4, <1>7, <1>9, <1>11, Zenon

\* What lookup finds in /proc, /sys and /dev, other than directories: the inodes that
\* read knows.
LEMMA OpenOther ==
  ASSUME NEW path
  PROVE  /\ ProcLookup(path).kind \notin {"NotFound", "Directory"} => ProcLookup(path).num \in 2 .. 4
         /\ SysLookup(path).kind \notin {"NotFound", "Directory"} => SysLookup(path).num = 3
         /\ DevLookup(path).kind \notin {"NotFound", "Directory"} =>
              \/ DevLookup(path).num \in {2, 5}
              \/ /\ DevLookup(path).num \in {3, 4}
                 /\ path \in {<< Slash, "zero" >>, << Slash, "full" >>}
  <1>1. \A n, k : Inode(n, k).num = n /\ Inode(n, k).kind = k
    BY DEF Inode
  <1>2. NotFound.kind = "NotFound"
    BY DEF Inode, NotFound
  <1>3. ASSUME ProcLookup(path).kind \notin {"NotFound", "Directory"}
        PROVE  ProcLookup(path).num \in 2 .. 4
    <2>1. ProcLookup(path) \in {Inode(2, "RegularFile"), Inode(3, "RegularFile"), Inode(4, "RegularFile")}
      BY <1>1, <1>2, <1>3 DEF ProcLookup
    <2> QED  BY <1>1, <2>1
  <1>4. ASSUME SysLookup(path).kind \notin {"NotFound", "Directory"}
        PROVE  SysLookup(path).num = 3
    <2>1. SysLookup(path) = Inode(3, "RegularFile")
      BY <1>1, <1>2, <1>4 DEF SysLookup
    <2> QED  BY <1>1, <2>1
  <1>5. ASSUME DevLookup(path).kind \notin {"NotFound", "Directory"}
        PROVE  \/ DevLookup(path).num \in {2, 5}
               \/ /\ DevLookup(path).num \in {3, 4}
                  /\ path \in {<< Slash, "zero" >>, << Slash, "full" >>}
    <2>1. \/ DevLookup(path) \in {Inode(2, "CharDevice"), Inode(5, "CharDevice")}
          \/ /\ DevLookup(path) \in {Inode(3, "CharDevice"), Inode(4, "CharDevice")}
             /\ path \in {<< Slash, "zero" >>, << Slash, "full" >>}
      BY <1>1, <1>2, <1>5 DEF DevLookup
    <2> QED  BY <1>1, <2>1
  <1> QED  BY <1>3, <1>4, <1>5, Zenon

\* Opening a file keeps the reader's invariant.
LEMMA OpenStep ==
  ASSUME ParseInv, ReadInv, Open PROVE ReadInv'
  <1>1. mount # "parsing" /\ file = NoFile /\ got = << >> /\ eof = FALSE /\ seconds \in Nat
    BY Zenon DEF Open, ReadInv
  <1>2. UNCHANGED <<files, archive, offset, entries, mount, seconds, got, eof, torn, panicked>>
    BY Zenon DEF Open
  <1>3. PICK fs \in FileSystemNames : \E path \in Paths(fs) :
          /\ Lookup(fs, path).kind \notin {"NotFound", "Directory"}
          /\ file' = [fs |-> fs, path |-> path, num |-> Lookup(fs, path).num]
    BY Zenon DEF Open
  <1>4. PICK path \in Paths(fs) :
          /\ Lookup(fs, path).kind \notin {"NotFound", "Directory"}
          /\ file' = [fs |-> fs, path |-> path, num |-> Lookup(fs, path).num]
    BY <1>3, Zenon
  <1>5. PICK f : f = file' /\ f.fs = fs /\ f.path = path /\ f.num = Lookup(fs, path).num
    <2>1. file'.fs = fs /\ file'.path = path /\ file'.num = Lookup(fs, path).num
      BY <1>4
    <2> QED  BY <2>1, Zenon
  <1>6. fs \in {"proc", "sysfs", "devfs", "initramfs"}
    BY DEF FileSystemNames
  <1>7. Has(f, got, FALSE, torn, seconds, files, Len(entries))
    <2>1. CASE fs = "initramfs"
      <3>1. Lookup(fs, path) = InitramLookup(path)
        BY <2>1 DEF Lookup
      <3>2. PICK j \in 1 .. Len(files) : path \in {files[j].path, Root \o files[j].path}
        BY <2>1, Zenon DEF Paths, Range
      <3>3. PICK i \in 1 .. Len(entries) : /\ InitramLookup(path).num = i + 1
                                           /\ TrimStart(path) = files[i].path
                                           /\ files[i].content \in Seq(Int)
        BY <1>4, <3>1, <3>2, OpenArchive, Zenon
      <3>4. ReadOf(got, FALSE, files[i].content)
        BY <1>1, <3>3, NothingRead, Zenon
      <3> QED  BY <1>5, <2>1, <3>1, <3>3, <3>4, Zenon DEF Has, InArchive
    <2>2. CASE fs = "proc"
      <3>1. Lookup(fs, path) = ProcLookup(path)
        BY <2>2 DEF Lookup
      <3>2. f.num \in 2 .. 4
        BY <1>4, <1>5, <3>1, OpenOther, Zenon
      <3>3. ReadOf(got, FALSE, TextOf(f.num, seconds))
        BY <1>1, <3>2, Texts, NothingRead, Zenon
      <3> QED  BY <1>5, <2>2, <3>2, <3>3, Zenon DEF Has, InProc
    <2>3. CASE fs = "sysfs"
      <3>1. Lookup(fs, path) = SysLookup(path)
        BY <2>3 DEF Lookup
      <3>2. f.num = 3
        BY <1>4, <1>5, <3>1, OpenOther, Zenon
      <3>3. Hostname \in Seq(Int)
        BY DEF Hostname
      <3>4. IsPrefix(got, Hostname)
        BY <1>1, <3>3, NothingRead, Zenon
      <3> QED  BY <1>5, <2>3, <3>2, <3>4, Zenon DEF Has, InSys
    <2>4. CASE fs = "devfs"
      <3>1. Lookup(fs, path) = DevLookup(path)
        BY <2>4 DEF Lookup
      <3>2. f.num \in {2, 5} \/ (f.num \in {3, 4} /\ path \in {<< Slash, "zero" >>, << Slash, "full" >>})
        BY <1>4, <1>5, <3>1, OpenOther, Zenon
      <3>3. \A i \in 1 .. Len(got) : got[i] = 0
        BY <1>1
      <3> QED  BY <1>1, <1>5, <2>4, <3>2, <3>3, Zenon DEF Has, InDev
    <2> QED  BY <1>6, <2>1, <2>2, <2>3, <2>4, ZenonT(40)
  <1>8. /\ files' = files /\ archive' = archive /\ entries' = entries /\ mount' = mount
        /\ seconds' = seconds /\ got' = got /\ eof' = eof /\ torn' = torn /\ panicked' = panicked
    BY <1>2
  <1> QED  BY <1>1, <1>5, <1>7, <1>8, Zenon DEF ReadInv, CutShort, NoName

\* So does a second that goes by.
LEMMA SecondStep ==
  ASSUME ReadInv, Second PROVE ReadInv'
  <1>1. /\ file # NoFile /\ seconds' = seconds + 1 /\ torn' = (torn \/ got # << >>)
        /\ files' = files /\ archive' = archive /\ entries' = entries /\ mount' = mount
        /\ file' = file /\ got' = got /\ eof' = eof /\ panicked' = panicked
    BY DEF Second
  <1>2. seconds \in Nat /\ got \in Seq(Int) /\ Has(file, got, eof, torn, seconds, files, Len(entries))
    BY <1>1, Zenon DEF ReadInv
  <1>3. seconds' \in Nat
    BY <1>1, <1>2
  <1>4. ASSUME InProc(file, got, eof, torn, seconds) PROVE InProc(file, got, eof, torn', seconds')
    <2>1. CASE torn \/ got # << >>
      BY <1>1, <1>4, <2>1, Zenon DEF InProc
    <2>2. CASE ~(torn \/ got # << >>)
      <3>1. file.num \in 2 .. 4 /\ (eof => got = TextOf(file.num, seconds))
        BY <1>4, <2>2, Zenon DEF InProc, ReadOf
      <3>2. TextOf(file.num, seconds) # << >> /\ TextOf(file.num, seconds') \in Seq(Int)
        BY <1>2, <1>3, <3>1, Texts, Zenon
      <3>3. ~eof
        BY <2>2, <3>1, <3>2, Zenon
      <3>4. IsPrefix(got, TextOf(file.num, seconds'))
        BY <2>2, <3>2, NothingRead, Zenon
      <3> QED  BY <1>4, <3>1, <3>3, <3>4, Zenon DEF InProc, ReadOf
    <2> QED  BY <2>1, <2>2
  <1>5. Has(file, got, eof, torn', seconds', files, Len(entries))
    BY <1>2, <1>4, Zenon DEF Has
  <1> QED  BY <1>1, <1>3, <1>5, Zenon DEF ReadInv, CutShort, NoName

\* So does a read, of any file system.
LEMMA ReadStep ==
  ASSUME ParseInv, ReadInv, Read PROVE ReadInv'
  <1>1. /\ file # NoFile
        /\ files' = files /\ archive' = archive /\ entries' = entries /\ mount' = mount
        /\ file' = file /\ seconds' = seconds /\ torn' = torn
    BY DEF Read
  <1>2. /\ seconds \in Nat /\ got \in Seq(Int) /\ mount # "parsing"
        /\ Has(file, got, eof, torn, seconds, files, Len(entries))
    BY <1>1, Zenon DEF ReadInv
  <1>3. PICK n \in Counts : \E a : /\ a = ReadAt(file.fs, file.num, Len(got), n)
                                   /\ got' = got \o a.bytes
                                   /\ eof' = (a.res = "ok" /\ a.bytes = << >>)
                                   /\ panicked' = (a.res = "panic")
    BY Zenon DEF Read
  <1>4. PICK a : /\ a = ReadAt(file.fs, file.num, Len(got), n)
                 /\ got' = got \o a.bytes
                 /\ eof' = (a.res = "ok" /\ a.bytes = << >>)
                 /\ panicked' = (a.res = "panic")
    BY <1>3, Zenon
  <1>5. n \in Nat \ {0}
    BY FileSystemsAssumption, Zenon
  <1>6. After(a)
    <2>1. CASE InArchive(file, got, eof, files, Len(entries))
      <3>1. file.fs = "initramfs"
        BY <2>1, Zenon DEF InArchive
      <3>2. a = InitramRead(file.num, Len(got), n)
        BY <1>4, <3>1 DEF ReadAt
      <3> QED  BY <1>2, <1>5, <2>1, <3>2, ReadArchive, Zenon
    <2>2. CASE InProc(file, got, eof, torn, seconds)
      <3>1. file.fs = "proc"
        BY <2>2, Zenon DEF InProc
      <3>2. a = ProcRead(file.num, Len(got), n)
        BY <1>4, <3>1 DEF ReadAt
      <3> QED  BY <1>2, <1>5, <2>2, <3>2, ReadProc, Zenon
    <2>3. CASE InSys(file, got)
      <3>1. file.fs = "sysfs"
        BY <2>3, Zenon DEF InSys
      <3>2. a = SysRead(file.num, Len(got), n)
        BY <1>4, <3>1 DEF ReadAt
      <3> QED  BY <1>2, <1>5, <2>3, <3>2, ReadSys, Zenon
    <2>4. CASE InDev(file, got)
      <3>1. file.fs = "devfs"
        BY <2>4, Zenon DEF InDev
      <3>2. a = DevRead(file.num, n)
        BY <1>4, <3>1 DEF ReadAt
      <3> QED  BY <1>2, <1>5, <2>4, <3>2, ReadDev, Zenon
    <2> QED  BY <1>2, <2>1, <2>2, <2>3, <2>4, Zenon DEF Has
  <1>7. /\ got' \in Seq(Int)
        /\ panicked' => archive.len < ArchiveOf(files).len
        /\ Has(file, got', eof', torn, seconds, files, Len(entries))
    <2>1. PICK b, e : /\ b = got \o a.bytes /\ e = (a.res = "ok" /\ a.bytes = << >>)
                      /\ got' = b /\ eof' = e
      BY <1>4, Zenon
    <2>2. b \in Seq(Int) /\ Has(file, b, e, torn, seconds, files, Len(entries))
      BY <1>6, <2>1, Zenon DEF After
    <2>3. panicked' => archive.len < ArchiveOf(files).len
      BY <1>4, <1>6, Zenon DEF After
    <2> QED  BY <2>1, <2>2, <2>3, Zenon
  <1>8. panicked' => CutShort'
    BY <1>1, <1>7, Zenon DEF CutShort
  <1>9. /\ seconds' \in Nat /\ file' # NoFile /\ mount' # "parsing"
        /\ Has(file', got', eof', torn', seconds', files', Len(entries'))
    BY <1>1, <1>2, <1>7, Zenon
  <1> QED  BY <1>7, <1>8, <1>9, Zenon DEF ReadInv

\* So does InitramFs::new, which is done before any file is open, and panics at a
\* header without a length only.
LEMMA ParseReads ==
  ASSUME ReadInv, ParseEntry PROVE ReadInv'
  <1>1. /\ mount = "parsing" /\ files' = files /\ archive' = archive /\ seconds' = seconds
        /\ file' = file /\ got' = got /\ eof' = eof /\ torn' = torn
    BY DEF ParseEntry
  <1>2. panicked' = panicked \/ NoName
    BY DEF ParseEntry, NoName
  <1>3. (CutShort \/ NoName) = (CutShort \/ NoName)'
    BY <1>1, Zenon DEF CutShort, NoName
  <1>4. panicked' => (CutShort \/ NoName)'
    BY <1>2, <1>3, Zenon DEF ReadInv
  <1> QED  BY <1>1, <1>4, Zenon DEF ReadInv

\* The parser's and the reader's invariants hold throughout.
LEMMA ReadInvHolds == Spec => [](ParseInv /\ ReadInv)
  <1>1. Init => ReadInv
    BY DEF Init, ReadInv
  <1>2. ASSUME ParseInv, ReadInv, [Next]_xvars PROVE ReadInv'
    <2>1. CASE Next
      BY <1>2, <2>1, ParseReads, OpenStep, ReadStep, SecondStep, Zenon DEF Next
    <2>2. CASE UNCHANGED xvars
      BY <1>2, <2>2, Zenon DEF xvars, ReadInv, CutShort, NoName
    <2> QED  BY <1>2, <2>1, <2>2
  <1> QED  BY <1>1, <1>2, ParseInvHolds, PTL DEF Spec

\* Under its path, an archive holds one file.
LEMMA ContentIs ==
  ASSUME files \in FileLists, NEW i \in 1 .. Len(files), TrimStart(file.path) = files[i].path,
         file.fs = "initramfs"
  PROVE  Content = files[i].content
  <1>1. \A j, k \in 1 .. Len(files) : files[j].path = files[k].path => j = k
    BY FileSystemsAssumption, Zenon
  <1>2. files[i] \in Range(files)
    BY Zenon DEF Range
  <1>3. ASSUME NEW f \in Range(files), f.path = TrimStart(file.path) PROVE f = files[i]
    <2>1. PICK j \in 1 .. Len(files) : f = files[j]
      BY Zenon DEF Range
    <2>2. j = i
      BY <1>1, <1>3, <2>1, Zenon
    <2> QED  BY <2>1, <2>2, Zenon
  <1>4. (CHOOSE f \in Range(files) : f.path = TrimStart(file.path)) = files[i]
    BY <1>2, <1>3, Zenon
  <1> QED  BY <1>4, ZenonT(40) DEF Content

\* A file read in chunks is read as it is (InitramFs::read, ProcFs::read, DevFs::read
\* and the first chunk of SysFs::read), for archives of every size, cut short or
\* damaged, and every sequence of buffer sizes; and the kernel panics only for an
\* archive without its end or with a name of no bytes.
THEOREM ChunksJoin == Spec => []ReadsJoin
  <1>1. ASSUME ParseInv, ReadInv PROVE ReadsJoin
    <2>1. files \in FileLists /\ Found(files, entries)
      BY <1>1, Zenon DEF ParseInv
    <2>2. panicked => CutShort \/ NoName
      BY <1>1, Zenon DEF ReadInv
    <2>3. CASE file = NoFile
      <3>1. file.fs = "none"
        BY <2>3 DEF NoFile
      <3> QED  BY <2>2, <3>1 DEF ReadsJoin
    <2>4. CASE InArchive(file, got, eof, files, Len(entries))
      <3>1. PICK i \in 1 .. Len(entries) : /\ TrimStart(file.path) = files[i].path
                                           /\ ReadOf(got, eof, files[i].content)
        BY <2>4, Zenon DEF InArchive
      <3>2. file.fs = "initramfs"
        BY <2>4, Zenon DEF InArchive
      <3>3. i \in 1 .. Len(files)
        <4>1. entries \in Seq(EntrySet) /\ files \in Seq(FileSet) /\ Len(entries) <= Len(files)
          BY <2>1, FileSystemsAssumption, Zenon DEF Found
        <4> QED  BY <4>1
      <3>4. Content = files[i].content
        BY <2>1, <3>1, <3>2, <3>3, ContentIs, Zenon
      <3>5. IsPrefix(got, Content) /\ (eof => got = Content)
        BY <3>1, <3>4, Zenon DEF ReadOf
      <3>6. file.fs # "devfs"
        BY <3>2
      <3> QED  BY <2>2, <3>5, <3>6, Zenon DEF ReadsJoin
    <2>5. CASE InProc(file, got, eof, torn, seconds)
      <3>1. file.fs = "proc" /\ file.fs # "devfs"
        BY <2>5 DEF InProc
      <3>2. Content = TextOf(file.num, seconds)
        BY <3>1, ProcTexts DEF Content
      <3>3. ~torn => IsPrefix(got, Content) /\ (eof => got = Content)
        BY <2>5, <3>2, Zenon DEF InProc, ReadOf
      <3> QED  BY <2>2, <3>1, <3>3, Zenon DEF ReadsJoin
    <2>6. CASE InSys(file, got)
      <3>1. file.fs = "sysfs" /\ file.fs # "devfs" /\ IsPrefix(got, Hostname)
        BY <2>6 DEF InSys
      <3>2. Content = Hostname
        BY <3>1 DEF Content
      <3> QED  BY <2>2, <3>1, <3>2, Zenon DEF ReadsJoin
    <2>7. CASE InDev(file, got)
      <3>1. file.fs = "devfs" /\ file.fs \notin {"initramfs", "proc", "sysfs"}
        BY <2>7 DEF InDev
      <3>2. Range(got) \subseteq {0}
        BY <2>7, Zenon DEF InDev, Range
      <3>3. got # << >> => file.path \in {<< Slash, "zero" >>, << Slash, "full" >>}
        BY <2>7, Zenon DEF InDev
      <3> QED  BY <2>2, <3>1, <3>2, <3>3, Zenon DEF ReadsJoin
    <2> QED  BY <1>1, <2>3, <2>4, <2>5, <2>6, <2>7, Zenon DEF ReadInv, Has
  <1> QED  BY <1>1, ReadInvHolds, PTL

-----------------------------------------------------------------------------
(* lookup and readdir.                                                      *)

\* The kinds that lookup and readdir derive from the mode of a file.
LEMMA KindsAgree ==
  ASSUME NEW f \in FileSet
  PROVE  LookupKind(ModeOf(f)) = KindOf(f) /\ ListedKind(ModeOf(f)) = ListedAs(f)
  <1>1. PICK t : t = FileType(ModeOf(f)) /\ t = TypeBits[f.type]
    BY ModeIs, Zenon
  <1>2. f.type \in Types
    BY DEF FileSet
  <1>3. (t = 4 <=> f.type = "directory") /\ (t = 10 <=> f.type = "symlink")
    BY <1>1, <1>2 DEF Types, TypeBits
  <1>4. 4 # 10 /\ "directory" # "symlink"
    OBVIOUS
  <1> QED  BY <1>1, <1>3, <1>4 DEF LookupKind, ListedKind, KindOf, ListedAs

\* Every file that was found is looked up under its path.
LEMMA LooksUp ==
  ASSUME ParseInv, NEW i \in 1 .. Len(entries)
  PROVE  Lookup("initramfs", Root \o files[i].path) = Inode(i + 1, KindOf(files[i]))
  <1>1. files \in FileLists /\ Found(files, entries)
    BY Zenon DEF ParseInv
  <1>2. \A j \in 1 .. Len(entries) : j \in 1 .. Len(files)
    <2>1. entries \in Seq(EntrySet) /\ files \in Seq(FileSet) /\ Len(entries) <= Len(files)
      BY <1>1, FileSystemsAssumption, Zenon DEF Found
    <2> QED  BY <2>1
  <1>3. PICK q : q = files[i].path /\ q \in Seq(Chars) /\ WellNamed(q)
    BY <1>1, <1>2, FileFacts, Zenon
  <1>4. PICK path : path = Root \o q
    BY Zenon
  <1>5. PICK p : p = FindPath(path)
    BY Zenon
  <1>6. /\ p = 0 => \A j \in 1 .. Len(entries) : files[j].path # q
        /\ p # 0 => p \in 1 .. Len(entries) /\ files[p].path = q
    BY <1>1, <1>3, <1>4, <1>5, FindsPath, Zenon
  <1>7. p \in 1 .. Len(entries) /\ files[p].path = q
    BY <1>3, <1>6, Zenon
  <1>8. p = i
    BY <1>1, <1>2, <1>3, <1>7, FileSystemsAssumption, Zenon
  <1>9. path \notin {Root, << >>}
    <2>1. Len(q) \in Nat /\ Len(q) > 0
      BY <1>3 DEF WellNamed
    <2>2. Len(path) = 1 + Len(q)
      <3>1. Root \in Seq(Chars) /\ Len(Root) = 1
        BY DEF Root, Chars
      <3>2. IsJoin(path, Chars, Root, q)
        BY <1>3, <1>4, <3>1, Joins, Zenon
      <3> QED  BY <3>1, <3>2, Zenon DEF IsJoin
    <2>3. Len(Root) = 1 /\ Len(<< >>) = 0
      BY DEF Root
    <2>4. Len(path) # 1 /\ Len(path) # 0
      BY <2>1, <2>2
    <2> QED  BY <2>3, <2>4, Zenon
  <1>10. InitramLookup(path) = Inode(entries[i].inode_num, LookupKind(entries[i].mode))
    <2>1. i > 0
      OBVIOUS
    <2> QED  BY <1>5, <1>8, <1>9, <2>1, Zenon DEF InitramLookup
  <1>11. Fields(files, entries, i)
    BY <1>1, EntryFields, Zenon
  <1>12. InitramLookup(path) = Inode(i + 1, KindOf(files[i]))
    <2>1. files[i] \in FileSet
      BY <1>1, <1>2, FileFacts, Zenon
    <2> QED  BY <1>10, <1>11, <2>1, KindsAgree, Zenon DEF Fields
  <1>13. Lookup("initramfs", path) = InitramLookup(path)
    BY DEF Lookup
  <1> QED  BY <1>3, <1>4, <1>12, <1>13, Zenon

\* What paths below p begin with, and the name of q there.
Below(p) == IF p = << >> THEN << >> ELSE Append(p, Slash)
NameIn(p, q) == SubSeq(q, Len(Below(p)) + 1, Len(q))

\* readdir lists q in p just if q is directly below p, under that name.
ListsRightly(p, q) ==
  /\ IsListed(q, p) <=> IsStrictPrefix(Below(p), q) /\ ~Contains(NameIn(p, q), Slash)
  /\ IsListed(q, p) => Rest(q, p) = NameIn(p, q)

\* It does so in the root directory.
LEMMA RootLists ==
  ASSUME NEW q \in Seq(Chars), WellNamed(q)
  PROVE  ListsRightly(<< >>, q)
  <1>1. Len(q) \in Nat /\ Len(q) > 0 /\ q # << >>
    BY DEF WellNamed
  <1>2. Len(<< >>) = 0 /\ 0 + 1 = 1
    OBVIOUS
  <1>3. SubSeq(q, 1, Len(q)) = q
    OBVIOUS
  <1>4. Below(<< >>) = << >> /\ NameIn(<< >>, q) = q
    BY <1>2, <1>3, Zenon DEF Below, NameIn
  <1>5. Slash \in Chars
    BY DEF Chars
  <1>6. Rest(q, << >>) = q
    BY <1>2, <1>3, <1>5, TrimName, Zenon DEF Rest
  <1>7. IsPrefix(<< >>, q) /\ IsStrictPrefix(<< >>, q)
    BY <1>1 DEF IsPrefix, IsStrictPrefix
  <1> QED  BY <1>1, <1>4, <1>6, <1>7, Zenon DEF ListsRightly, IsListed

\* Of the path of the directory itself nothing is left.
LEMMA NothingLeft == TrimStart(<< >>) = << >>
  <1>1. << >> \in Seq(Chars) /\ Len(<< >>) = 0 /\ 0 \in 0 .. 0 /\ ~(0 < 0)
    OBVIOUS
  <1>2. \A i \in 1 .. 0 : << >>[i] = Slash
    OBVIOUS
  <1>3. PICK z : z = << >> /\ z \in Seq(Chars) /\ Len(z) = 0
    BY <1>1, Zenon
  <1>4. TrimStart(z) = SubSeq(z, 0 + 1, Len(z))
    BY <1>1, <1>2, <1>3, TrimIs, Zenon
  <1>5. SubSeq(z, 0 + 1, Len(z)) = << >>
    BY <1>3
  <1> QED  BY <1>3, <1>4, <1>5, Zenon

\* It does so in a directory whose path is continued by a slash only.
LEMMA DirLists ==
  ASSUME NEW p \in Seq(Chars), p # << >>, NEW q \in Seq(Chars), WellNamed(q),
         IsStrictPrefix(p, q) => q[Len(p) + 1] = Slash
  PROVE  ListsRightly(p, q)
  <1>1. PICK n, l : n = Len(p) /\ l = Len(q) /\ n \in Nat /\ l \in Nat
    <2>1. Len(p) \in Nat /\ Len(q) \in Nat
      OBVIOUS
    <2> QED  BY <2>1, Zenon
  <1>2. Slash \in Chars
    BY DEF Chars
  <1>3. PICK b : b = Append(p, Slash) /\ b = Below(p)
    BY Zenon DEF Below
  <1>4. Len(b) = n + 1 /\ b[n + 1] = Slash /\ \A i \in 1 .. n : b[i] = p[i]
    <2>1. /\ Len(Append(p, Slash)) = Len(p) + 1 /\ Append(p, Slash)[Len(p) + 1] = Slash
          /\ \A i \in 1 .. Len(p) : Append(p, Slash)[i] = p[i]
      BY <1>2
    <2> QED  BY <1>1, <1>3, <2>1, Zenon
  <1>5. IsStrictPrefix(b, q) <=> IsPrefix(p, q) /\ n + 1 < l /\ q[n + 1] = Slash
    <2>1. IsPrefix(p, q) <=> n <= l /\ \A i \in 1 .. n : p[i] = q[i]
      BY <1>1, Zenon DEF IsPrefix
    <2>2. IsStrictPrefix(b, q) <=> n + 1 < l /\ n + 1 <= l /\ \A i \in 1 .. n + 1 : b[i] = q[i]
      BY <1>1, <1>4, Zenon DEF IsStrictPrefix, IsPrefix
    <2>3. \A i : i \in 1 .. n + 1 <=> i \in 1 .. n \/ i = n + 1
      BY <1>1
    <2>4. (\A i \in 1 .. n + 1 : b[i] = q[i]) <=> (\A i \in 1 .. n : p[i] = q[i]) /\ q[n + 1] = Slash
      BY <1>4, <2>3, Zenon
    <2>5. n + 1 < l => n <= l /\ n + 1 <= l
      BY <1>1
    <2> QED  BY <2>1, <2>2, <2>4, <2>5, Zenon
  <1>6. NameIn(p, q) = SubSeq(q, (n + 1) + 1, l)
    BY <1>1, <1>3, <1>4, Zenon DEF NameIn
  <1>7. Rest(q, p) = TrimStart(SubSeq(q, n + 1, l))
    BY <1>1, Zenon DEF Rest
  <1>8. CASE ~IsPrefix(p, q)
    BY <1>3, <1>5, <1>8, Zenon DEF ListsRightly, IsListed
  <1>9. CASE IsPrefix(p, q) /\ n = l
    <2>1. SubSeq(q, n + 1, l) = << >> /\ ~(n + 1 < l)
      BY <1>1, <1>9
    <2>2. Rest(q, p) = << >>
      BY <1>7, <2>1, NothingLeft, Zenon
    <2> QED  BY <1>3, <1>5, <2>1, <2>2, Zenon DEF ListsRightly, IsListed
  <1>10. CASE IsPrefix(p, q) /\ n # l
    <2>1. n < l
      <3>1. n <= l
        BY <1>1, <1>10, Zenon DEF IsPrefix
      <3> QED  BY <1>1, <1>10, <3>1
    <2>2. q[n + 1] = Slash
      BY <1>1, <1>10, <2>1, Zenon DEF IsStrictPrefix
    <2>3. n + 1 < l /\ q[(n + 1) + 1] # Slash
      <3>1. q[l] # Slash /\ \A i \in 1 .. l - 1 : q[i] = Slash => q[i + 1] # Slash
        BY <1>1, Zenon DEF WellNamed
      <3>2. n + 1 # l
        BY <2>2, <3>1, Zenon
      <3>3. n + 1 < l /\ n + 1 \in 1 .. l - 1
        BY <1>1, <2>1, <3>2
      <3> QED  BY <2>2, <3>1, <3>3, Zenon
    <2>4. PICK t : t = SubSeq(q, n + 1, l) /\ IsSlice(t, Chars, q, n, l)
      <3>1. n <= l /\ l <= l
        BY <1>1, <2>1
      <3> QED  BY <1>1, <3>1, Slices, Zenon
    <2>5. t \in Seq(Chars) /\ Len(t) = l - n /\ \A i \in 1 .. l - n : t[i] = q[n + i]
      BY <2>4, Zenon DEF IsSlice
    <2>6. /\ 1 \in 1 .. l - n /\ 2 \in 1 .. l - n /\ n + 2 = (n + 1) + 1 /\ 1 + 1 = 2
          /\ 1 \in 0 .. l - n /\ \A i \in 1 .. 1 : i = 1
      BY <1>1, <2>3
    <2>7. t[1] = Slash /\ t[2] # Slash
      BY <2>2, <2>3, <2>5, <2>6, Zenon
    <2>8. TrimStart(t) = SubSeq(t, 1 + 1, l - n)
      <3>1. \A i \in 1 .. 1 : t[i] = Slash
        BY <2>6, <2>7, Zenon
      <3>2. t[1 + 1] # Slash
        BY <2>6, <2>7, Zenon
      <3> QED  BY <2>5, <2>6, <3>1, <3>2, TrimIs, ZenonT(40)
    <2>9. PICK r : r = SubSeq(t, 1 + 1, l - n) /\ IsSlice(r, Chars, t, 1, l - n)
      <3>1. 1 \in Nat /\ l - n \in Nat /\ 1 <= l - n /\ l - n <= l - n
        BY <1>1, <2>1
      <3> QED  BY <2>5, <3>1, Slices, Zenon
    <2>10. PICK s : s = SubSeq(q, (n + 1) + 1, l) /\ IsSlice(s, Chars, q, n + 1, l)
      <3>1. n + 1 \in Nat /\ n + 1 <= l /\ l <= l
        BY <1>1, <2>3
      <3> QED  BY <1>1, <3>1, Slices, Zenon
    <2>11. r = s
      <3>1. r \in Seq(Chars) /\ Len(r) = (l - n) - 1 /\ \A i \in 1 .. (l - n) - 1 : r[i] = t[1 + i]
        BY <2>9, Zenon DEF IsSlice
      <3>2. s \in Seq(Chars) /\ Len(s) = l - (n + 1) /\ \A i \in 1 .. l - (n + 1) : s[i] = q[(n + 1) + i]
        BY <2>10, Zenon DEF IsSlice
      <3>3. (l - n) - 1 = l - (n + 1)
        BY <1>1
      <3>4. \A i \in 1 .. l - (n + 1) : 1 + i \in 1 .. l - n /\ n + (1 + i) = (n + 1) + i
        BY <1>1
      <3>5. \A i \in 1 .. l - (n + 1) : r[i] = s[i]
        BY <2>5, <3>1, <3>2, <3>3, <3>4, ZenonT(40)
      <3> QED  BY <3>1, <3>2, <3>3, <3>5, SameElements, Zenon
    <2>12. s # << >>
      <3>1. Len(s) = l - (n + 1)
        BY <2>10, Zenon DEF IsSlice
      <3>2. Len(s) # 0
        BY <1>1, <2>3, <3>1
      <3> QED  BY <3>2
    <2>13. Rest(q, p) = NameIn(p, q) /\ Rest(q, p) # << >>
      BY <1>6, <1>7, <2>4, <2>8, <2>9, <2>10, <2>11, <2>12, ZenonT(40)
    <2> QED  BY <1>3, <1>5, <1>10, <2>2, <2>3, <2>13, ZenonT(40) DEF ListsRightly, IsListed
  <1> QED  BY <1>8, <1>9, <1>10

\* What InitramFs::readdir collects for a prefix.
Listing(p) ==
  {DirEntry(Rest(e.path, p), e.inode_num, ListedKind(e.mode)) :
     e \in {e \in Range(entries) : IsListed(e.path, p)}}

\* Path q continues p other than by a slash, and is not below p.
Strays(p, q) ==
  /\ IsStrictPrefix(p, q) /\ q[Len(p) + 1] # Slash
  /\ ~IsStrictPrefix(Below(p), q)

\* What continues the path of a directory otherwise is not below it.
LEMMA StraysOnly ==
  ASSUME NEW p \in Seq(Chars), p # << >>, NEW q, IsStrictPrefix(p, q), q[Len(p) + 1] # Slash
  PROVE  Strays(p, q)
  <1>1. Below(p) = Append(p, Slash)
    BY Zenon DEF Below
  <1>2. Len(Append(p, Slash)) = Len(p) + 1 /\ Append(p, Slash)[Len(p) + 1] = Slash
    OBVIOUS
  <1>3. Len(p) + 1 \in 1 .. Len(p) + 1
    OBVIOUS
  <1> QED  BY <1>1, <1>2, <1>3, Zenon DEF Strays, IsStrictPrefix, IsPrefix

\* It collects the children of that directory, and strays.
LEMMA ListingIs ==
  ASSUME ParseInv, NEW p,
         \A i \in 1 .. Len(entries) : ListsRightly(p, files[i].path) \/ Strays(p, files[i].path)
  PROVE  /\ Children(p) \subseteq Listing(p)
         /\ \A x \in Listing(p) \ Children(p) : \E i \in 1 .. Len(entries) :
              x.num = i + 1 /\ ~ListsRightly(p, files[i].path)
  <1>1. files \in FileLists /\ Found(files, entries)
    BY Zenon DEF ParseInv
  <1>2. ASSUME NEW i \in 1 .. Len(entries)
        PROVE  /\ entries[i].path = files[i].path /\ entries[i].inode_num = i + 1
               /\ ListedKind(entries[i].mode) = ListedAs(files[i])
    <2>1. Fields(files, entries, i)
      BY <1>1, EntryFields, Zenon
    <2>2. i \in 1 .. Len(files)
      <3>1. entries \in Seq(EntrySet) /\ files \in Seq(FileSet) /\ Len(entries) <= Len(files)
        BY <1>1, FileSystemsAssumption, Zenon DEF Found
      <3> QED  BY <3>1
    <2>3. files[i] \in FileSet
      BY <1>1, <2>2, FileFacts, Zenon
    <2> QED  BY <2>1, <2>3, KindsAgree, Zenon DEF Fields
  <1> DEFINE Kids == {i \in 1 .. Len(entries) : /\ IsStrictPrefix(Below(p), files[i].path)
                                               /\ ~Contains(NameIn(p, files[i].path), Slash)}
             Under == {DirEntry(NameIn(p, files[i].path), i + 1, ListedAs(files[i])) : i \in Kids}
  <1>3. Children(p) = Under
    BY Zenon DEF Children, Below, NameIn
  <1>4. ASSUME NEW i \in 1 .. Len(entries), IsListed(files[i].path, p), ListsRightly(p, files[i].path)
        PROVE  DirEntry(Rest(entries[i].path, p), entries[i].inode_num, ListedKind(entries[i].mode)) =
               DirEntry(NameIn(p, files[i].path), i + 1, ListedAs(files[i]))
    <2>1. Rest(entries[i].path, p) = NameIn(p, files[i].path)
      BY <1>2, <1>4, Zenon DEF ListsRightly
    <2> QED  BY <1>2, <2>1, Zenon
  <1>5. ASSUME NEW x \in Listing(p), x \notin Under
        PROVE  \E i \in 1 .. Len(entries) : x.num = i + 1 /\ ~ListsRightly(p, files[i].path)
    <2>1. PICK e \in Range(entries) :
            IsListed(e.path, p) /\ x = DirEntry(Rest(e.path, p), e.inode_num, ListedKind(e.mode))
      BY <1>5, Zenon DEF Listing
    <2>2. PICK i \in 1 .. Len(entries) : e = entries[i]
      BY Zenon DEF Range
    <2>3. IsListed(files[i].path, p)
      BY <1>2, <2>1, <2>2, Zenon
    <2>4. ~ListsRightly(p, files[i].path)
      <3>1. SUFFICES ASSUME ListsRightly(p, files[i].path) PROVE x \in Under
        BY <1>5, Zenon
      <3>2. i \in Kids
        BY <2>3, <3>1, Zenon DEF ListsRightly
      <3> QED  BY <1>4, <2>1, <2>2, <2>3, <3>1, <3>2, Zenon
    <2>5. x.num = i + 1
      <3>1. x.num = e.inode_num
        BY <2>1 DEF DirEntry
      <3> QED  BY <1>2, <2>2, <3>1, Zenon
    <2> QED  BY <2>4, <2>5, Zenon
  <1>6. ASSUME NEW x \in Under PROVE x \in Listing(p)
    <2>1. PICK i \in Kids : x = DirEntry(NameIn(p, files[i].path), i + 1, ListedAs(files[i]))
      BY <1>6, Zenon
    <2>2. i \in 1 .. Len(entries) /\ ListsRightly(p, files[i].path)
      BY <2>1, Zenon DEF Strays
    <2>3. IsListed(files[i].path, p)
      BY <2>1, <2>2, Zenon DEF ListsRightly
    <2>4. entries[i] \in Range(entries) /\ IsListed(entries[i].path, p)
      BY <1>2, <2>2, <2>3, Zenon DEF Range
    <2> QED  BY <1>4, <2>1, <2>2, <2>3, <2>4, Zenon DEF Listing
  <1> QED  BY <1>3, <1>5, <1>6, Zenon

\* InitramFs::readdir lists the root directory, and of every other directory the
\* children and what continues its path.
LEMMA Lists ==
  ASSUME ParseInv
  PROVE  /\ Readdir("initramfs", 1) = Children(<< >>)
         /\ \A i \in 1 .. Len(entries) :
              /\ Children(files[i].path) \subseteq Readdir("initramfs", i + 1)
              /\ \A e \in Readdir("initramfs", i + 1) \ Children(files[i].path) :
                   e.num \in Continuing(files[i].path)
  <1>1. files \in FileLists /\ Found(files, entries)
    BY Zenon DEF ParseInv
  <1>2. \A i \in 1 .. Len(entries) : i \in 1 .. Len(files)
    <2>1. entries \in Seq(EntrySet) /\ files \in Seq(FileSet) /\ Len(entries) <= Len(files)
      BY <1>1, FileSystemsAssumption, Zenon DEF Found
    <2> QED  BY <2>1
  <1>3. \A num : Readdir("initramfs", num) = InitramReaddir(num)
    BY DEF Readdir
  <1>4. InitramReaddir(1) = Children(<< >>)
    <2>1. \A i \in 1 .. Len(entries) : ListsRightly(<< >>, files[i].path)
      BY <1>1, <1>2, FileFacts, RootLists, Zenon
    <2>2. InitramReaddir(1) = Listing(<< >>)
      BY Zenon DEF InitramReaddir, Listing
    <2> QED  BY <2>1, <2>2, ListingIs, Zenon
  <1>5. ASSUME NEW d \in 1 .. Len(entries), NEW p, p = files[d].path
        PROVE  /\ Children(p) \subseteq InitramReaddir(d + 1)
               /\ \A e \in InitramReaddir(d + 1) \ Children(p) : e.num \in Continuing(p)
    <2>1. p \in Seq(Chars) /\ p # << >>
      BY <1>1, <1>2, <1>5, FileFacts, Zenon DEF WellNamed
    <2>2. ASSUME NEW i \in 1 .. Len(entries)
          PROVE  \/ ListsRightly(p, files[i].path)
                 \/ Strays(p, files[i].path) /\ i + 1 \in Continuing(p)
      <3>1. files[i].path \in Seq(Chars) /\ WellNamed(files[i].path)
        BY <1>1, <1>2, FileFacts, Zenon
      <3>2. CASE IsStrictPrefix(p, files[i].path) /\ files[i].path[Len(p) + 1] # Slash
        BY <2>1, <3>2, StraysOnly, Zenon DEF Continuing
      <3>3. CASE ~(IsStrictPrefix(p, files[i].path) /\ files[i].path[Len(p) + 1] # Slash)
        BY <2>1, <3>1, <3>3, DirLists, Zenon
      <3> QED  BY <3>2, <3>3
    <2>3. FindInode(d + 1) = d
      BY <1>1, FindsInode, Zenon
    <2>4. d # 0 /\ d + 1 # 1
      OBVIOUS
    <2>5. entries[d].path = p
      <3>1. Fields(files, entries, d)
        BY <1>1, EntryFields, Zenon
      <3> QED  BY <1>5, <3>1, Zenon DEF Fields
    <2>6. InitramReaddir(d + 1) = Listing(p)
      BY <2>3, <2>4, <2>5, Zenon DEF InitramReaddir, Listing
    <2>7. /\ Children(p) \subseteq Listing(p)
          /\ \A x \in Listing(p) \ Children(p) : \E i \in 1 .. Len(entries) :
               x.num = i + 1 /\ ~ListsRightly(p, files[i].path)
      BY <2>2, ListingIs, Zenon
    <2> QED  BY <2>2, <2>6, <2>7, Zenon
  <1> QED  BY <1>3, <1>4, <1>5, Zenon

\* A path of one name.
LEMMA OneName ==
  ASSUME NEW S, NEW a \in S, NEW b \in S PROVE << a >> \o << b >> = << a, b >>
  <1>1. PICK s, t : s = << a >> /\ t = << b >>
    BY Zenon
  <1>2. s \in Seq(S) /\ t \in Seq(S) /\ Len(s) = 1 /\ Len(t) = 1 /\ s[1] = a /\ t[1] = b
    BY <1>1
  <1>3. PICK w : w = s \o t /\ IsJoin(w, S, s, t)
    BY <1>2, Joins, Zenon
  <1>4. w \in Seq(S) /\ Len(w) = 2 /\ w[1] = a /\ w[2] = b
    BY <1>2, <1>3 DEF IsJoin
  <1>5. PICK v : v = << a, b >>
    BY Zenon
  <1>6. v \in Seq(S) /\ Len(v) = 2 /\ v[1] = a /\ v[2] = b
    BY <1>5
  <1>7. \A i \in 1 .. 2 : w[i] = v[i]
    BY <1>4, <1>6
  <1>8. w = v
    BY <1>4, <1>6, <1>7, SameElements, Zenon
  <1> QED  BY <1>1, <1>3, <1>5, <1>8, Zenon

\* A path of two names.
LEMMA TwoNames ==
  ASSUME NEW S, NEW a \in S, NEW b \in S, NEW c \in S
  PROVE  << a >> \o << b >> \o << a >> \o << c >> = << a, b, a, c >>
  <1>1. PICK s, t, u : s = << a, b >> /\ t = << a >> /\ u = << c >>
    BY Zenon
  <1>2. /\ s \in Seq(S) /\ t \in Seq(S) /\ u \in Seq(S) /\ Len(s) = 2 /\ Len(t) = 1 /\ Len(u) = 1
        /\ s[1] = a /\ s[2] = b /\ t[1] = a /\ u[1] = c
    BY <1>1
  <1>3. PICK x : x = s \o t /\ IsJoin(x, S, s, t)
    BY <1>2, Joins, Zenon
  <1>4. x \in Seq(S) /\ Len(x) = 3 /\ x[1] = a /\ x[2] = b /\ x[3] = a
    BY <1>2, <1>3 DEF IsJoin
  <1>5. PICK w : w = x \o u /\ IsJoin(w, S, x, u)
    BY <1>2, <1>4, Joins, ZenonT(40)
  <1>6. w \in Seq(S) /\ Len(w) = 4 /\ w[1] = a /\ w[2] = b /\ w[3] = a /\ w[4] = c
    BY <1>2, <1>4, <1>5, SMTT(30) DEF IsJoin
  <1>7. PICK v : v = << a, b, a, c >>
    BY Zenon
  <1>8. v \in Seq(S) /\ Len(v) = 4 /\ v[1] = a /\ v[2] = b /\ v[3] = a /\ v[4] = c
    BY <1>7
  <1>9. \A i \in 1 .. 4 : w[i] = v[i]
    BY <1>6, <1>8
  <1>10. w = v
    BY <1>6, <1>8, <1>9, SameElements, Zenon
  <1>11. << a >> \o << b >> = s
    BY <1>1, OneName, Zenon
  <1> QED  BY <1>1, <1>3, <1>5, <1>7, <1>10, <1>11, ZenonT(40)

\* The directories of /proc, /sys and /dev list what lookup finds there.
LEMMA FixedLists ==
  \A fs \in {"proc", "sysfs", "devfs"} : \A e \in Readdir(fs, 1) :
    /\ Lookup(fs, Root \o e.name) = Inode(e.num, e.kind)
    /\ \A f \in Readdir(fs, e.num) :
         Lookup(fs, Root \o e.name \o Root \o f.name) = Inode(f.num, f.kind)
  <1>1. \A n, i, k : DirEntry(n, i, k).name = n /\ DirEntry(n, i, k).num = i /\ DirEntry(n, i, k).kind = k
    BY DEF DirEntry
  <1>2. ASSUME NEW c PROVE Root \o << c >> = << Slash, c >>
    <2>1. Slash \in {Slash, c} /\ c \in {Slash, c}
      BY Zenon
    <2> QED  BY <2>1, OneName, Zenon DEF Root
  <1>3. ASSUME NEW e \in Readdir("proc", 1)
        PROVE  Lookup("proc", Root \o e.name) = Inode(e.num, e.kind) /\ Readdir("proc", e.num) = {}
    <2>1. e \in {DirEntry(<< "version" >>, 2, "RegularFile"), DirEntry(<< "uptime" >>, 3, "RegularFile"),
                 DirEntry(<< "meminfo" >>, 4, "RegularFile")}
      BY DEF Readdir, ProcReaddir
    <2>2. e.num # 1
      BY <1>1, <2>1
    <2>3. Readdir("proc", e.num) = {}
      BY <2>2 DEF Readdir, ProcReaddir
    <2>4. \A path : Lookup("proc", path) = ProcLookup(path)
      BY DEF Lookup
    <2>5. ProcLookup(Root \o e.name) = Inode(e.num, e.kind)
      <3>1. CASE e = DirEntry(<< "version" >>, 2, "RegularFile")
        <4>1. e.name = << "version" >> /\ e.num = 2 /\ e.kind = "RegularFile"
          BY <1>1, <3>1
        <4>2. ProcLookup(<< Slash, "version" >>) = Inode(2, "RegularFile")
          BY DEF ProcLookup, Root
        <4> QED  BY <1>2, <4>1, <4>2, Zenon
      <3>2. CASE e = DirEntry(<< "uptime" >>, 3, "RegularFile")
        <4>1. e.name = << "uptime" >> /\ e.num = 3 /\ e.kind = "RegularFile"
          BY <1>1, <3>2
        <4>2. ProcLookup(<< Slash, "uptime" >>) = Inode(3, "RegularFile")
          BY DEF ProcLookup, Root
        <4> QED  BY <1>2, <4>1, <4>2, Zenon
      <3>3. CASE e = DirEntry(<< "meminfo" >>, 4, "RegularFile")
        <4>1. e.name = << "meminfo" >> /\ e.num = 4 /\ e.kind = "RegularFile"
          BY <1>1, <3>3
        <4>2. ProcLookup(<< Slash, "meminfo" >>) = Inode(4, "RegularFile")
          BY DEF ProcLookup, Root
        <4> QED  BY <1>2, <4>1, <4>2, Zenon
      <3> QED  BY <2>1, <3>1, <3>2, <3>3
    <2> QED  BY <2>3, <2>4, <2>5, Zenon
  <1>4. ASSUME NEW e \in Readdir("devfs", 1)
        PROVE  Lookup("devfs", Root \o e.name) = Inode(e.num, e.kind) /\ Readdir("devfs", e.num) = {}
    <2>1. e \in {DirEntry(<< "null" >>, 2, "CharDevice"), DirEntry(<< "zero" >>, 3, "CharDevice"),
                 DirEntry(<< "full" >>, 4, "CharDevice"), DirEntry(<< "ttyS0" >>, 5, "CharDevice")}
      BY DEF Readdir, DevReaddir
    <2>2. e.num # 1
      BY <1>1, <2>1
    <2>3. Readdir("devfs", e.num) = {}
      BY <2>2 DEF Readdir, DevReaddir
    <2>4. \A path : Lookup("devfs", path) = DevLookup(path)
      BY DEF Lookup
    <2>5. DevLookup(Root \o e.name) = Inode(e.num, e.kind)
      <3>1. CASE e = DirEntry(<< "null" >>, 2, "CharDevice")
        <4>1. e.name = << "null" >> /\ e.num = 2 /\ e.kind = "CharDevice"
          BY <1>1, <3>1
        <4>2. DevLookup(<< Slash, "null" >>) = Inode(2, "CharDevice")
          BY DEF DevLookup, Root
        <4> QED  BY <1>2, <4>1, <4>2, Zenon
      <3>2. CASE e = DirEntry(<< "zero" >>, 3, "CharDevice")
        <4>1. e.name = << "zero" >> /\ e.num = 3 /\ e.kind = "CharDevice"
          BY <1>1, <3>2
        <4>2. DevLookup(<< Slash, "zero" >>) = Inode(3, "CharDevice")
          BY DEF DevLookup, Root
        <4> QED  BY <1>2, <4>1, <4>2, Zenon
      <3>3. CASE e = DirEntry(<< "full" >>, 4, "CharDevice")
        <4>1. e.name = << "full" >> /\ e.num = 4 /\ e.kind = "CharDevice"
          BY <1>1, <3>3
        <4>2. DevLookup(<< Slash, "full" >>) = Inode(4, "CharDevice")
          BY DEF DevLookup, Root
        <4> QED  BY <1>2, <4>1, <4>2, Zenon
      <3>4. CASE e = DirEntry(<< "ttyS0" >>, 5, "CharDevice")
        <4>1. e.name = << "ttyS0" >> /\ e.num = 5 /\ e.kind = "CharDevice"
          BY <1>1, <3>4
        <4>2. DevLookup(<< Slash, "ttyS0" >>) = Inode(5, "CharDevice")
          BY DEF DevLookup, Root
        <4> QED  BY <1>2, <4>1, <4>2, Zenon
      <3> QED  BY <2>1, <3>1, <3>2, <3>3, <3>4
    <2> QED  BY <2>3, <2>4, <2>5, Zenon
  <1>5. ASSUME NEW e \in Readdir("sysfs", 1)
        PROVE  /\ Lookup("sysfs", Root \o e.name) = Inode(e.num, e.kind)
               /\ \A f \in Readdir("sysfs", e.num) :
                    Lookup("sysfs", Root \o e.name \o Root \o f.name) = Inode(f.num, f.kind)
    <2>1. e = DirEntry(<< "kernel" >>, 2, "Directory")
      BY DEF Readdir, SysReaddir
    <2>2. e.name = << "kernel" >> /\ e.num = 2 /\ e.kind = "Directory"
      BY <1>1, <2>1
    <2>3. \A path : Lookup("sysfs", path) = SysLookup(path)
      BY DEF Lookup
    <2>4. SysLookup(Root \o e.name) = Inode(e.num, e.kind)
      <3>1. SysLookup(<< Slash, "kernel" >>) = Inode(2, "Directory")
        BY DEF SysLookup, Root
      <3> QED  BY <1>2, <2>2, <3>1, Zenon
    <2>5. ASSUME NEW f \in Readdir("sysfs", e.num)
          PROVE  SysLookup(Root \o e.name \o Root \o f.name) = Inode(f.num, f.kind)
      <3>1. f = DirEntry(<< "hostname" >>, 3, "RegularFile")
        BY <2>2 DEF Readdir, SysReaddir
      <3>2. f.name = << "hostname" >> /\ f.num = 3 /\ f.kind = "RegularFile"
        BY <1>1, <3>1
      <3>3. Root \o e.name \o Root \o f.name = << Slash, "kernel", Slash, "hostname" >>
        <4>1. PICK S : Slash \in S /\ "kernel" \in S /\ "hostname" \in S
          <5>1. LET S == {Slash, "kernel", "hostname"} IN Slash \in S /\ "kernel" \in S /\ "hostname" \in S
            OBVIOUS
          <5> QED  BY <5>1, Zenon
        <4> QED  BY <2>2, <3>2, <4>1, TwoNames, Zenon DEF Root
      <3>4. SysLookup(<< Slash, "kernel", Slash, "hostname" >>) = Inode(3, "RegularFile")
        BY DEF SysLookup, Root
      <3> QED  BY <3>2, <3>3, <3>4, Zenon
    <2> QED  BY <2>3, <2>4, <2>5, Zenon
  <1>6. ASSUME NEW fs \in {"proc", "sysfs", "devfs"}
        PROVE  \A e \in Readdir(fs, 1) :
                 /\ Lookup(fs, Root \o e.name) = Inode(e.num, e.kind)
                 /\ \A f \in Readdir(fs, e.num) :
                      Lookup(fs, Root \o e.name \o Root \o f.name) = Inode(f.num, f.kind)
    <2>1. CASE fs = "proc"
      BY <1>3, <2>1, Zenon
    <2>2. CASE fs = "sysfs"
      BY <1>5, <2>2, ZenonT(40)
    <2>3. CASE fs = "devfs"
      BY <1>4, <2>3, Zenon
    <2> QED  BY <2>1, <2>2, <2>3, Zenon
  <1> QED  BY <1>6, Zenon

\* lookup and readdir agree with each other and with the archive (InitramFs::new,
\* lookup and readdir, and those of the fixed file systems), for archives of any
\* number of files of every type, of any well-formed names, cut short or damaged
\* anywhere, apart from the kinds and the stray entries that DirsAgree names.
THEOREM DirectoriesAgree == Spec => []DirsAgree
  <1>1. ASSUME ParseInv PROVE DirsAgree
    <2>1. mount = "mounted" /\ archive = ArchiveOf(files) => Len(entries) = Len(files)
      BY <1>1, Zenon DEF ParseInv
    <2>2. \A i \in 1 .. Len(entries) :
            Lookup("initramfs", Root \o files[i].path) = Inode(i + 1, KindOf(files[i]))
      BY <1>1, LooksUp, Zenon
    <2> QED  BY <1>1, <2>1, <2>2, Lists, FixedLists, Zenon DEF DirsAgree
  <1> QED  BY <1>1, ParseInvHolds, PTL

=============================================================================
