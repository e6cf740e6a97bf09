--------------------------- MODULE ProcessProofs ---------------------------
(***************************************************************************)
(* The safety invariants of Process hold for every number of processes,    *)
(* every time slice, every set of signals, codes and calls, as long as     *)
(* NEXT_PID has not wrapped.                                               *)
(*                                                                         *)
(* The inductive invariant IInv puts together what each invariant needs    *)
(* of the others: typing needs the table sorted (a lookup by pid finds the *)
(* one entry there is), and CURRENT_PID staying in the table needs parents *)
(* older than children (only idle and init can reap themselves).           *)
(***************************************************************************)
EXTENDS Process, SequenceTheorems, TLAPS

\* NEXT_PID has handed out every pid at most once.
NoWrap == MaxPid < PidSpace

IInv == /\ TypeOK
        /\ TableSorted
        /\ ParentOlder
        /\ CurrentInTable

\* A counter below the modulus is not changed by it.
LEMMA ModSmall ==
  ASSUME NEW n \in Nat, NEW m \in Nat \ {0}, n < m
  PROVE  n % m = n
OBVIOUS

\* A remainder lies below the modulus.
LEMMA ModRange ==
  ASSUME NEW n \in Int, NEW m \in Nat \ {0}
  PROVE  n % m \in 0 .. m - 1
OBVIOUS

-----------------------------------------------------------------------------
(* Lookups and removal in a table sorted by pid.                            *)

Sorted(t) == \A i, j \in DOMAIN t : i < j => t[i].pid < t[j].pid

\* In a sorted table `find` returns the entry with the pid it looks for.
LEMMA FindSorted ==
  ASSUME NEW t \in Seq(Entries), Sorted(t), NEW p, Has(t, p)
  PROVE  Find(t, p) \in DOMAIN t /\ t[Find(t, p)].pid = p
<1>1. PICK k \in DOMAIN t : t[k].pid = p
  BY DEF Has
<1>2. \A j \in 1 .. k-1 : t[j].pid # p
  <2>1. SUFFICES ASSUME NEW j \in 1 .. k-1 PROVE t[j].pid # p
    OBVIOUS
  <2>2. j \in DOMAIN t /\ j < k
    BY LenProperties
  <2>3. t[j].pid < t[k].pid
    BY <2>2 DEF Sorted
  <2>4. t[j] \in Entries /\ t[k] \in Entries
    BY <2>2, ElementOfSeq, LenProperties
  <2>5. t[j].pid \in Pids /\ t[k].pid \in Pids
    BY <2>4 DEF Entries
  <2>6. t[j].pid \in Int /\ t[k].pid \in Int
    BY <2>5, ProcessAssumption DEF Pids
  <2> QED BY <2>3, <2>6, <1>1
<1> QED BY <1>1, <1>2 DEF Find

\* Vec::remove keeps the other entries, in order.
LEMMA RemoveAtProperties ==
  ASSUME NEW S, NEW t \in Seq(S), NEW i \in DOMAIN t
  PROVE  /\ RemoveAt(t, i) \in Seq(S)
         /\ Len(RemoveAt(t, i)) = Len(t) - 1
         /\ \A j \in 1 .. Len(t) - 1 :
              RemoveAt(t, i)[j] = IF j < i THEN t[j] ELSE t[j+1]
<1> DEFINE a == SubSeq(t, 1, i-1)
           b == SubSeq(t, i+1, Len(t))
<1>1. Len(t) \in Nat /\ DOMAIN t = 1 .. Len(t) /\ i \in 1 .. Len(t)
  BY LenProperties
<1>2. \A k \in 1 .. Len(t) : t[k] \in S
  BY <1>1, ElementOfSeq
<1>3. /\ a \in Seq(S)
      /\ Len(a) = i - 1
      /\ \A k \in 1 .. i-1 : a[k] = t[k]
  <2>1. 1 \in Int /\ i-1 \in Int /\ \A k \in 1 .. i-1 : t[k] \in S
    BY <1>1, <1>2
  <2>2. /\ a \in Seq(S)
        /\ Len(a) = IF 1 <= i-1 THEN (i-1)-1+1 ELSE 0
        /\ \A k \in 1 .. (i-1)-1+1 : a[k] = t[1+k-1]
    BY ONLY <2>1, SubSeqProperties
  <2> QED BY <1>1, <2>2
<1>4. /\ b \in Seq(S)
      /\ Len(b) = Len(t) - i
      /\ \A k \in 1 .. Len(t) - i : b[k] = t[i+k]
  <2>1. i+1 \in Int /\ Len(t) \in Int /\ \A k \in i+1 .. Len(t) : t[k] \in S
    BY <1>1, <1>2
  <2>2. /\ b \in Seq(S)
        /\ Len(b) = IF i+1 <= Len(t) THEN Len(t)-(i+1)+1 ELSE 0
        /\ \A k \in 1 .. Len(t)-(i+1)+1 : b[k] = t[i+1+k-1]
    BY ONLY <2>1, SubSeqProperties
  <2> QED BY <1>1, <2>2, SMTT(60)
<1> HIDE DEF a, b
<1>5. /\ a \o b \in Seq(S)
      /\ Len(a \o b) = Len(a) + Len(b)
      /\ \A k \in 1 .. Len(a) + Len(b) :
           (a \o b)[k] = IF k <= Len(a) THEN a[k] ELSE b[k - Len(a)]
  BY <1>3, <1>4, ConcatProperties, Zenon
<1>6. RemoveAt(t, i) = a \o b
  BY DEF RemoveAt, a, b
<1>7. Len(a \o b) = Len(t) - 1
  BY <1>1, <1>3, <1>4, <1>5
<1>8. ASSUME NEW j \in 1 .. Len(t) - 1
      PROVE  (a \o b)[j] = IF j < i THEN t[j] ELSE t[j+1]
  <2>1. (a \o b)[j] = IF j <= i - 1 THEN a[j] ELSE b[j - (i - 1)]
    BY <1>1, <1>3, <1>4, <1>5, SMTT(30)
  <2>2. CASE j < i
    BY <1>1, <1>3, <2>1, <2>2
  <2>3. CASE ~(j < i)
    <3>1. j - (i - 1) \in 1 .. Len(t) - i /\ i + (j - (i - 1)) = j + 1
      BY <1>1, <2>3
    <3>2. b[j - (i - 1)] = t[i + (j - (i - 1))]
      BY <1>4, <3>1
    <3> QED BY <1>1, <2>1, <2>3, <3>1, <3>2
  <2> QED BY <2>2, <2>3, Zenon
<1> QED BY <1>5, <1>6, <1>7, <1>8

-----------------------------------------------------------------------------
(* What the steps do to the table: entries keep their place and pid, only   *)
(* reparenting changes a parent.                                            *)

SameTree(t, u) ==
  /\ DOMAIN u = DOMAIN t
  /\ \A i \in DOMAIN t : /\ u[i].pid = t[i].pid
                         /\ u[i].parent_pid = t[i].parent_pid

\* Delivering signals keeps an entry an entry and leaves its pid and parent.
LEMMA DeliverType ==
  ASSUME NEW e \in Entries
  PROVE  /\ Deliver(e) \in Entries
         /\ Deliver(e).pid = e.pid
         /\ Deliver(e).parent_pid = e.parent_pid
<1>1. TerminatingSig(e.pending) \in Int
  BY DEF TerminatingSig, SIGKILL, SIGTERM, SIGINT, SIGQUIT
<1>2. 128 + TerminatingSig(e.pending) \in Int
  BY <1>1
<1> QED BY <1>2, ZenonT(40) DEF Deliver, Entries, States

\* Replacing the entry found by pid with one of the same pid and parent.
LEMMA UpdateFound ==
  ASSUME NEW t \in Seq(Entries), Sorted(t), NEW p, Has(t, p),
         NEW e \in Entries,
         e.pid = t[Find(t, p)].pid, e.parent_pid = t[Find(t, p)].parent_pid
  PROVE  /\ [t EXCEPT ![Find(t, p)] = e] \in Seq(Entries)
         /\ SameTree(t, [t EXCEPT ![Find(t, p)] = e])
<1>1. Find(t, p) \in DOMAIN t
  BY FindSorted
<1>2. [t EXCEPT ![Find(t, p)] = e] \in Seq(Entries)
  BY <1>1, ExceptSeq, LenProperties
<1> QED BY <1>1, <1>2 DEF SameTree

\* Delivering signals changes neither pids nor parents of a table.
LEMMA DispatchTable ==
  ASSUME NEW t \in Seq(Entries), Sorted(t), NEW p
  PROVE  /\ DispatchSignals(t, p) \in Seq(Entries)
         /\ SameTree(t, DispatchSignals(t, p))
<1>1. CASE ~Has(t, p)
  BY <1>1 DEF DispatchSignals, SameTree
<1>2. CASE Has(t, p)
  <2> DEFINE e == Deliver(t[Find(t, p)])
  <2>1. Find(t, p) \in DOMAIN t
    BY <1>2, FindSorted
  <2>2. t[Find(t, p)] \in Entries
    BY <2>1, ElementOfSeq, LenProperties
  <2>3. e \in Entries /\ e.pid = t[Find(t, p)].pid
                      /\ e.parent_pid = t[Find(t, p)].parent_pid
    BY <2>2, DeliverType
  <2>4. DispatchSignals(t, p) = [t EXCEPT ![Find(t, p)] = e]
    BY <1>2, <2>1 DEF DispatchSignals
  <2> HIDE DEF e
  <2>5. /\ [t EXCEPT ![Find(t, p)] = e] \in Seq(Entries)
        /\ SameTree(t, [t EXCEPT ![Find(t, p)] = e])
    BY <1>2, <2>3, UpdateFound
  <2> QED BY <2>4, <2>5
<1> QED BY <1>1, <1>2

\* A table with the same tree is sorted like the old one, has the same pids,
\* and its parents are as old.
LEMMA SameTreeKeeps ==
  ASSUME TypeOK, TableSorted, ParentOlder, next_pid' = next_pid,
         SameTree(table, table')
  PROVE  /\ TableSorted'
         /\ ParentOlder'
         /\ \A p : Has(table, p) <=> Has(table', p)
BY DEF SameTree, TableSorted, ParentOlder, Has

\* Steps that leave the table, the pid counter and CURRENT_PID alone.
LEMMA SameTableKeeps ==
  ASSUME IInv, UNCHANGED <<table, next_pid, current>>
  PROVE  TableSorted' /\ ParentOlder' /\ CurrentInTable'
BY DEF IInv, TableSorted, ParentOlder, CurrentInTable, Has

-----------------------------------------------------------------------------
(* IInv holds initially and every step preserves it.                        *)

\* process::init establishes the inductive invariant.
LEMMA InitInv == Init => IInv
<1> SUFFICES ASSUME Init PROVE IInv
  OBVIOUS
<1> USE ProcessAssumption
<1>1. Process(0, 0, "Running") \in Entries /\ Process(1, 0, "Ready") \in Entries
  BY DEF Process, Entries, Pids, States
<1>2. table \in Seq(Entries)
  BY <1>1 DEF Init
<1>3. TypeOK
  <2>1. NoCall \in [caller : Pids, target : Pids \cup {AnyChild}]
    BY DEF NoCall, Pids
  <2>2. call \in [caller : Pids, target : Pids \cup {AnyChild}]
    BY <2>1 DEF Init
  <2>3. pc \in Points
    BY DEF Init, Points
  <2>4. next_pid \in 2 .. MaxPid + 1 /\ current \in Pids /\ slice \in 0 .. Timeslice - 1
    BY DEF Init, Pids
  <2> QED BY <1>2, <2>2, <2>3, <2>4, Zenon DEF Init, TypeOK
<1>4. TableSorted /\ ParentOlder
  BY DEF Init, TableSorted, ParentOlder, Process
<1>5. CurrentInTable
  BY DEF Init, CurrentInTable
<1> QED BY <1>3, <1>4, <1>5 DEF IInv

\* fork appends an entry with a pid above all others.
LEMMA ForkInv ==
  ASSUME NoWrap, IInv, Fork
  PROVE  IInv'
<1> USE ProcessAssumption
<1> DEFINE e == Process(PidOf(next_pid), Entry(current).pid, "Ready")
<1>1. /\ table \in Seq(Entries)
      /\ Sorted(table)
      /\ Len(table) \in Nat
      /\ DOMAIN table = 1 .. Len(table)
  BY LenProperties DEF IInv, TypeOK, TableSorted, Sorted
<1>2. next_pid \in 2 .. MaxPid /\ PidOf(next_pid) = next_pid
  <2>1. next_pid \in 2 .. MaxPid
    BY DEF Fork, IInv, TypeOK
  <2>2. next_pid \in Nat /\ PidSpace \in Nat \ {0} /\ next_pid < PidSpace
    BY <2>1 DEF NoWrap
  <2> QED BY <2>1, <2>2, ModSmall DEF PidOf
<1>3. Entry(current).pid = current /\ current \in Pids
  BY <1>1, FindSorted DEF Fork, Entry, IInv, TypeOK
<1>4. current < next_pid
  <2>1. PICK k \in DOMAIN table : table[k].pid = current
    BY DEF Fork, Has
  <2> QED BY <2>1 DEF IInv, TableSorted
<1>5. e \in Entries /\ e.pid = next_pid /\ e.parent_pid = current
  BY <1>2, <1>3 DEF Process, Entries, Pids, States
<1>6. table' = Append(table, e)
  BY DEF Fork
<1> HIDE DEF e
<1>7. /\ table' \in Seq(Entries)
      /\ Len(table') = Len(table) + 1
      /\ DOMAIN table' = 1 .. Len(table) + 1
      /\ \A i \in 1 .. Len(table) : table'[i] = table[i]
      /\ table'[Len(table) + 1] = e
  BY <1>1, <1>5, <1>6, AppendProperties, LenProperties
<1>8. next_pid' = next_pid + 1 /\ UNCHANGED <<current, slice, pc, call, hung>>
  BY DEF Fork
<1>9. TypeOK'
  BY <1>2, <1>7, <1>8 DEF IInv, TypeOK
<1>10. TableSorted'
  <2>1. \A i \in 1 .. Len(table) : table[i].pid < next_pid /\ table[i].pid \in Int
    <3>1. \A i \in 1 .. Len(table) : table[i] \in Entries
      BY <1>1, ElementOfSeq
    <3>2. \A i \in 1 .. Len(table) : table[i].pid \in Pids
      BY <3>1 DEF Entries
    <3> QED BY <1>1, <3>2 DEF IInv, TableSorted, Pids
  <2>2. ASSUME NEW i \in 1 .. Len(table) + 1
        PROVE  \/ i \in 1 .. Len(table) /\ table'[i].pid = table[i].pid
               \/ i = Len(table) + 1 /\ table'[i].pid = next_pid
    BY <1>1, <1>5, <1>7
  <2>3. next_pid \in Int /\ next_pid' = next_pid + 1
    BY <1>2, <1>8
  <2>4. \A i, j \in 1 .. Len(table) : i < j => table[i].pid < table[j].pid
    BY <1>1 DEF IInv, TableSorted
  <2>5. ASSUME NEW i \in 1 .. Len(table) + 1, NEW j \in 1 .. Len(table) + 1, i < j
        PROVE  table'[i].pid < table'[j].pid
    <3>1. i \in 1 .. Len(table) /\ table'[i].pid = table[i].pid
      BY <1>1, <2>2, <2>5
    <3>2. CASE j \in 1 .. Len(table) /\ table'[j].pid = table[j].pid
      BY <2>4, <2>5, <3>1, <3>2
    <3>3. CASE j = Len(table) + 1 /\ table'[j].pid = next_pid
      BY <2>1, <3>1, <3>3
    <3> QED BY <2>2, <3>2, <3>3, Zenon
  <2>6. ASSUME NEW i \in 1 .. Len(table) + 1
        PROVE  table'[i].pid < next_pid'
    BY <2>1, <2>2, <2>3
  <2>7. DOMAIN table' = 1 .. Len(table) + 1
    BY <1>7
  <2> QED BY <2>5, <2>6, <2>7, Zenon DEF TableSorted
<1>11. ParentOlder'
  BY <1>1, <1>4, <1>5, <1>7 DEF IInv, ParentOlder
<1>12. CurrentInTable'
  BY <1>1, <1>7, <1>8 DEF IInv, CurrentInTable, Has
<1> QED BY <1>9, <1>10, <1>11, <1>12 DEF IInv

\* A step that keeps the tree and the control point.
LEMMA SameTreeInv ==
  ASSUME IInv, table' \in Seq(Entries), SameTree(table, table'),
         UNCHANGED <<next_pid, pc, call, hung>>,
         slice' \in 0 .. Timeslice - 1, current' \in Pids, CurrentInTable'
  PROVE  IInv'
<1>1. TypeOK'
  BY DEF IInv, TypeOK
<1>2. TableSorted' /\ ParentOlder'
  BY SameTreeKeeps DEF IInv
<1> QED BY <1>1, <1>2 DEF IInv

\* execve and kill write the pending set of one entry.
LEMMA PendingInv ==
  ASSUME IInv, NEW p, Has(table, p), NEW s \in SUBSET Signals,
         table' = [table EXCEPT ![Find(table, p)].pending = s],
         UNCHANGED <<next_pid, current, slice, pc, call, hung>>
  PROVE  IInv'
<1> DEFINE k == Find(table, p)
           e == [table[k] EXCEPT !.pending = s]
<1>1. table \in Seq(Entries) /\ Sorted(table)
  BY DEF IInv, TypeOK, TableSorted, Sorted
<1>2. k \in DOMAIN table
  BY <1>1, FindSorted
<1>3. table[k] \in Entries
  BY <1>1, <1>2, ElementOfSeq, LenProperties
<1>4. e \in Entries /\ e.pid = table[k].pid /\ e.parent_pid = table[k].parent_pid
  BY <1>3 DEF Entries
<1>5. table' = [table EXCEPT ![k] = e]
  BY <1>2
<1> HIDE DEF e
<1>6. /\ [table EXCEPT ![Find(table, p)] = e] \in Seq(Entries)
      /\ SameTree(table, [table EXCEPT ![Find(table, p)] = e])
  BY <1>1, <1>4, UpdateFound, Zenon
<1>7. table' \in Seq(Entries) /\ SameTree(table, table')
  BY <1>5, <1>6, Zenon
<1>8. CurrentInTable'
  BY <1>7, SameTreeKeeps, Zenon DEF IInv, CurrentInTable
<1>9. slice' \in 0 .. Timeslice - 1 /\ current' \in Pids
  BY DEF IInv, TypeOK
<1> QED BY <1>7, <1>8, <1>9, SameTreeInv

\* execve only clears pending signals of the current entry.
LEMMA ExecveInv ==
  ASSUME IInv, Execve
  PROVE  IInv'
<1> DEFINE none == {}
<1>1. table' = [table EXCEPT ![Find(table, current)].pending = none]
  BY DEF Execve
<1>2. Has(table, current) /\ UNCHANGED <<next_pid, current, slice, pc, call, hung>>
  BY DEF Execve
<1>3. none \in SUBSET Signals
  OBVIOUS
<1> HIDE DEF none
<1> QED BY <1>1, <1>2, <1>3, PendingInv, Zenon

\* kill only adds a pending signal to one entry.
LEMMA KillInv ==
  ASSUME IInv, NEW p \in Pids, NEW sig \in Signals, Kill(p, sig)
  PROVE  IInv'
<1> DEFINE k == Find(table, p)
           s == table[k].pending \cup {sig}
<1>1. k \in DOMAIN table
  BY FindSorted DEF Kill, IInv, TypeOK, TableSorted, Sorted
<1>2. table[k] \in Entries
  BY <1>1, ElementOfSeq, LenProperties DEF IInv, TypeOK
<1>3. s \in SUBSET Signals
  BY <1>2 DEF Entries
<1>4. table' = [table EXCEPT ![Find(table, p)].pending = s]
  BY <1>1 DEF Kill
<1>5. Has(table, p) /\ UNCHANGED <<next_pid, current, slice, pc, call, hung>>
  BY DEF Kill
<1> HIDE DEF s
<1> QED BY <1>3, <1>4, <1>5, PendingInv, Zenon

-----------------------------------------------------------------------------
(* exit.                                                                    *)

\* Marking an entry as a zombie changes neither pids nor parents.
LEMMA MarkZombieTable ==
  ASSUME NEW t \in Seq(Entries), Sorted(t), NEW p, NEW code \in Int
  PROVE  /\ MarkZombie(t, p, code) \in Seq(Entries)
         /\ SameTree(t, MarkZombie(t, p, code))
<1>1. CASE ~Has(t, p)
  BY <1>1 DEF MarkZombie, SameTree
<1>2. CASE Has(t, p)
  <2> DEFINE k == Find(t, p)
             e == [t[k] EXCEPT !.state = "Zombie", !.exit_code = code]
  <2>1. k \in DOMAIN t
    BY <1>2, FindSorted
  <2>2. t[k] \in Entries
    BY <2>1, ElementOfSeq, LenProperties
  <2>3. e \in Entries /\ e.pid = t[k].pid /\ e.parent_pid = t[k].parent_pid
    BY <2>2, Zenon DEF Entries, States
  <2>4. MarkZombie(t, p, code) = [t EXCEPT ![k] = e]
    BY <1>2, <2>1, Zenon DEF MarkZombie
  <2> HIDE DEF e
  <2>5. /\ [t EXCEPT ![Find(t, p)] = e] \in Seq(Entries)
        /\ SameTree(t, [t EXCEPT ![Find(t, p)] = e])
    BY <1>2, <2>3, UpdateFound
  <2> QED BY <2>4, <2>5
<1> QED BY <1>1, <1>2

\* Reparenting moves the children of p, and nobody else, to init.
LEMMA ReparentTable ==
  ASSUME NEW t \in Seq(Entries), NEW p
  PROVE  /\ Reparent(t, p) \in Seq(Entries)
         /\ DOMAIN Reparent(t, p) = DOMAIN t
         /\ \A i \in DOMAIN t :
              /\ Reparent(t, p)[i].pid = t[i].pid
              /\ Reparent(t, p)[i].parent_pid =
                   IF t[i].parent_pid = p THEN 1 ELSE t[i].parent_pid
<1> USE ProcessAssumption
<1> DEFINE u == Reparent(t, p)
<1>1. Len(t) \in Nat /\ DOMAIN t = 1 .. Len(t)
  BY LenProperties
<1>2. \A i \in DOMAIN t : t[i] \in Entries
  BY <1>1, ElementOfSeq
<1>3. DOMAIN u = DOMAIN t
  BY DEF Reparent
<1>4. ASSUME NEW i \in DOMAIN t
      PROVE  /\ u[i] \in Entries
             /\ u[i].pid = t[i].pid
             /\ u[i].parent_pid = IF t[i].parent_pid = p THEN 1 ELSE t[i].parent_pid
  <2>1. 1 \in Pids
    BY DEF Pids
  <2>2. t[i] \in Entries
    BY <1>2
  <2>3. u[i] = IF t[i].parent_pid = p THEN [t[i] EXCEPT !.parent_pid = 1] ELSE t[i]
    BY DEF Reparent
  <2> HIDE DEF u
  <2> QED BY <2>1, <2>2, <2>3, SMTT(30) DEF Entries
<1>5. u \in Seq(Entries)
  <2>1. u = [i \in 1 .. Len(t) |-> u[i]]
    BY <1>1, <1>3 DEF Reparent
  <2> HIDE DEF u
  <2> QED BY <1>1, <1>4, <2>1
<1> QED BY <1>3, <1>4, <1>5

\* The first part of exit: the reparenting makes no parent younger than its child.
LEMMA ExitMarkInv ==
  ASSUME IInv, NEW code \in Codes, ExitMark(code)
  PROVE  IInv'
<1> USE ProcessAssumption
<1> DEFINE m == MarkZombie(table, current, code)
<1>1. table \in Seq(Entries) /\ Sorted(table) /\ code \in Int /\ current \in Pids
  BY DEF IInv, TypeOK, TableSorted, Sorted
<1>2. m \in Seq(Entries) /\ SameTree(table, m)
  BY <1>1, MarkZombieTable
<1>3. table' = Reparent(m, current)
  BY DEF ExitMark
<1> HIDE DEF m
<1>4. /\ table' \in Seq(Entries)
      /\ DOMAIN table' = DOMAIN table
      /\ \A i \in DOMAIN table :
           /\ table'[i].pid = table[i].pid
           /\ table'[i].parent_pid = IF table[i].parent_pid = current
                                     THEN 1 ELSE table[i].parent_pid
  BY <1>2, <1>3, ReparentTable DEF SameTree
<1>5. UNCHANGED <<next_pid, current, slice, hung>>
  BY DEF ExitMark
<1>6. /\ pc' = "exit_marked"
      /\ call' = [caller |-> current, target |-> AnyChild]
  BY DEF ExitMark, Enter
<1>7. TypeOK'
  <2>1. pc' \in Points
    BY <1>6 DEF Points, ExitPoints
  <2>2. call' \in [caller : Pids, target : Pids \cup {AnyChild}]
    BY <1>1, <1>6
  <2> QED BY <1>4, <1>5, <2>1, <2>2 DEF IInv, TypeOK
<1>8. TableSorted'
  BY <1>4, <1>5 DEF IInv, TableSorted
<1>9. ParentOlder'
  BY <1>4 DEF IInv, ParentOlder
<1>10. CurrentInTable'
  BY <1>4, <1>5 DEF IInv, CurrentInTable, Has
<1> QED BY <1>7, <1>8, <1>9, <1>10 DEF IInv

\* schedule() leaves CURRENT_PID alone or stores a pid of the table (or 0).
LEMMA SchedulePicks ==
  ASSUME NEW t \in Seq(Entries), Sorted(t), Schedule(t), current \in Pids,
         Has(t, current) \/ current \in {0, 1}
  PROVE  current' \in Pids /\ (Has(t, current') \/ current' \in {0, 1})
<1> USE ProcessAssumption
<1>1. Len(t) \in Nat /\ DOMAIN t = 1 .. Len(t)
  BY LenProperties
<1>2. CASE t = << >> /\ current' = 0
  BY <1>2 DEF Pids
<1>3. CASE current' = current
  BY <1>3
<1>4. ASSUME NEW i \in 1 .. Len(t),
             current' = t[SlotAfter(t, StartSlot(t, current), i)].pid
      PROVE  current' \in Pids /\ Has(t, current')
  <2> DEFINE start == StartSlot(t, current)
             k == SlotAfter(t, start, i)
  <2>1. start \in Int
    <3>1. CASE ~Has(t, current)
      BY <3>1 DEF StartSlot
    <3>2. CASE Has(t, current)
      <4>1. Find(t, current) \in 1 .. Len(t)
        BY <1>1, <3>2, FindSorted
      <4> QED BY <1>1, <3>2, <4>1 DEF StartSlot
    <3> QED BY <3>1, <3>2
  <2> HIDE DEF start
  <2>2. k \in 1 .. Len(t)
    <3>1. start + i \in Int /\ Len(t) \in Nat \ {0}
      BY <1>1, <2>1
    <3>2. (start + i) % Len(t) \in 0 .. Len(t) - 1
      BY <3>1, ModRange, Zenon
    <3> QED BY <1>1, <3>2 DEF SlotAfter
  <2>3. t[k] \in Entries
    BY <1>1, <2>2
  <2>4. current' = t[k].pid
    BY <1>4 DEF start
  <2> HIDE DEF k
  <2> QED BY <1>1, <2>2, <2>3, <2>4, SMTT(30) DEF Entries, Has
<1> QED BY <1>2, <1>3, <1>4 DEF Schedule

\* A step of the flow from one point to another that leaves the table alone.
LEMMA PointInv ==
  ASSUME IInv, pc' \in Points, UNCHANGED <<table, next_pid, slice, hung>>,
         call' \in [caller : Pids, target : Pids \cup {AnyChild}],
         current' \in Pids, CurrentInTable'
  PROVE  IInv'
<1>1. TypeOK'
  BY DEF IInv, TypeOK
<1>2. TableSorted' /\ ParentOlder'
  BY DEF IInv, TableSorted, ParentOlder
<1> QED BY <1>1, <1>2 DEF IInv

\* ... and CURRENT_PID too.
LEMMA QuietInv ==
  ASSUME IInv, pc' \in Points, UNCHANGED <<table, next_pid, current, slice, hung>>,
         call' \in [caller : Pids, target : Pids \cup {AnyChild}]
  PROVE  IInv'
<1>1. current' \in Pids /\ CurrentInTable'
  BY SameTableKeeps DEF IInv, TypeOK
<1> QED BY <1>1, PointInv

\* exit goes on to take the lock.
LEMMA ExitLockInv ==
  ASSUME IInv, ExitLock
  PROVE  IInv'
<1>1. pc' \in Points /\ UNCHANGED <<table, next_pid, current, slice, call, hung>>
  BY DEF ExitLock, Points, LockedPoints
<1>2. call' \in [caller : Pids, target : Pids \cup {AnyChild}]
  BY <1>1 DEF IInv, TypeOK
<1> QED BY <1>1, <1>2, QuietInv

\* exit moves CURRENT_PID to an entry of the table, or leaves it.
LEMMA ExitScheduleInv ==
  ASSUME IInv, ExitSchedule
  PROVE  IInv'
<1>1. pc' \in Points /\ call' \in [caller : Pids, target : Pids \cup {AnyChild}]
  BY DEF ExitSchedule, Points, ExitPoints, IInv, TypeOK
<1>2. UNCHANGED <<table, next_pid, slice, hung>> /\ Schedule(table)
  BY DEF ExitSchedule
<1>3. table \in Seq(Entries) /\ Sorted(table) /\ current \in Pids
      /\ (Has(table, current) \/ current \in {0, 1})
  BY DEF IInv, TypeOK, TableSorted, Sorted, CurrentInTable
<1>4. current' \in Pids /\ (Has(table, current') \/ current' \in {0, 1})
  BY <1>2, <1>3, SchedulePicks
<1>5. CurrentInTable'
  BY <1>2, <1>4 DEF CurrentInTable
<1> QED BY <1>1, <1>2, <1>4, <1>5, PointInv

-----------------------------------------------------------------------------
(* waitpid and the readers of the table.                                    *)

\* A call of waitpid records its caller.
LEMMA WaitCallInv ==
  ASSUME IInv, NEW target \in Pids \cup {AnyChild}, WaitCall(target)
  PROVE  IInv'
<1>1. /\ pc' = "wait" /\ call' = [caller |-> current, target |-> target]
      /\ UNCHANGED <<table, next_pid, current, slice, hung>>
  BY DEF WaitCall, Enter
<1>2. pc' \in Points /\ call' \in [caller : Pids, target : Pids \cup {AnyChild}]
  BY <1>1 DEF Points, IInv, TypeOK
<1> QED BY <1>1, <1>2, QuietInv

\* What the return from waitpid leaves behind.
LEMMA ReturnTypes ==
  ASSUME Return
  PROVE  pc' \in Points /\ call' \in [caller : Pids, target : Pids \cup {AnyChild}]
<1>1. NoCall \in [caller : Pids, target : Pids \cup {AnyChild}]
  BY ProcessAssumption DEF NoCall, Pids
<1> QED BY <1>1 DEF Return, Points

\* waitpid without a child changes no table.
LEMMA WaitNoChildInv ==
  ASSUME IInv, WaitNoChild
  PROVE  IInv'
<1>1. Return /\ UNCHANGED <<table, next_pid, current, slice, hung>>
  BY DEF WaitNoChild
<1> QED BY <1>1, ReturnTypes, QuietInv

\* The readers of the table leave it alone.
LEMMA LockInv ==
  ASSUME IInv, GetppidLock \/ PsLock \/ Unlock
  PROVE  IInv'
<1>1. UNCHANGED <<table, next_pid, current, slice, call, hung>>
  BY DEF GetppidLock, PsLock, LockTable, Unlock
<1>2. pc' \in Points
  BY DEF GetppidLock, PsLock, LockTable, Unlock, Points, LockedPoints
<1>3. call' \in [caller : Pids, target : Pids \cup {AnyChild}]
  BY <1>1 DEF IInv, TypeOK
<1> QED BY <1>1, <1>2, <1>3, QuietInv

\* A reaped entry's pid is CURRENT_PID only if it was its own parent, and a
\* parent is older than its child.
LEMMA WaitReapInv ==
  ASSUME IInv, WaitReap
  PROVE  IInv'
<1> USE ProcessAssumption
<1>1. PICK i \in DOMAIN table : /\ FirstReapable(i, current, call.target)
                               /\ table' = RemoveAt(table, i)
  BY DEF WaitReap
<1>2. Return /\ UNCHANGED <<next_pid, current, slice, hung>>
  BY DEF WaitReap
<1>3. table \in Seq(Entries) /\ Len(table) \in Nat /\ DOMAIN table = 1 .. Len(table)
  BY LenProperties DEF IInv, TypeOK
<1>4. /\ table' \in Seq(Entries)
      /\ Len(table') = Len(table) - 1
      /\ \A j \in 1 .. Len(table) - 1 :
           table'[j] = IF j < i THEN table[j] ELSE table[j+1]
  BY <1>1, <1>3, RemoveAtProperties, Zenon
<1>5. DOMAIN table' = 1 .. Len(table) - 1
  BY <1>4, LenProperties
<1>6. TypeOK'
  BY <1>2, <1>4, ReturnTypes DEF IInv, TypeOK
<1>7. ASSUME NEW j \in DOMAIN table'
      PROVE  \E k \in DOMAIN table : table'[j] = table[k]
  <2>1. j \in DOMAIN table /\ j + 1 \in DOMAIN table
    BY <1>3, <1>5
  <2>2. table'[j] = table[j] \/ table'[j] = table[j+1]
    BY <1>4, <1>5
  <2> QED BY <2>1, <2>2
<1>8. TableSorted'
  <2>1. \A j \in DOMAIN table' : table'[j].pid < next_pid'
    BY <1>2, <1>7 DEF IInv, TableSorted
  <2>2. ASSUME NEW j \in DOMAIN table', NEW k \in DOMAIN table', j < k
        PROVE  table'[j].pid < table'[k].pid
    <3> DEFINE jj == IF j < i THEN j ELSE j + 1
               kk == IF k < i THEN k ELSE k + 1
    <3>1. jj \in DOMAIN table /\ kk \in DOMAIN table /\ jj < kk
      BY <1>1, <1>3, <1>5, <2>2
    <3>2. table'[j] = table[jj] /\ table'[k] = table[kk]
      BY <1>4, <1>5
    <3> HIDE DEF jj, kk
    <3> QED BY <3>1, <3>2 DEF IInv, TableSorted
  <2> QED BY <2>1, <2>2 DEF TableSorted
<1>9. ParentOlder'
  BY <1>7 DEF IInv, ParentOlder
<1>10. CurrentInTable'
  <2>1. CASE current \in {0, 1}
    BY <1>2, <2>1 DEF CurrentInTable
  <2>2. CASE current \notin {0, 1}
    <3>1. PICK k \in DOMAIN table : table[k].pid = current
      BY <2>2 DEF IInv, CurrentInTable, Has
    <3>2. current \in Int /\ current > 1
      BY <2>2 DEF IInv, TypeOK, Pids
    <3>3. k # i
      BY <1>1, <3>1, <3>2 DEF FirstReapable, Reapable, ChildOf, IInv, ParentOlder
    <3> DEFINE j == IF k < i THEN k ELSE k - 1
    <3>4. j \in DOMAIN table' /\ table'[j] = table[k]
      BY <1>1, <1>3, <1>4, <1>5, <3>1, <3>3, SMTT(30)
    <3> HIDE DEF j
    <3> QED BY <1>2, <3>1, <3>4 DEF CurrentInTable, Has
  <2> QED BY <2>1, <2>2
<1> QED BY <1>6, <1>8, <1>9, <1>10 DEF IInv

-----------------------------------------------------------------------------
(* The timer.                                                               *)

\* The timer interrupt: signals, then perhaps a new CURRENT_PID.
LEMMA TickInv ==
  ASSUME IInv, Tick
  PROVE  IInv'
<1> USE ProcessAssumption
<1>1. table \in Seq(Entries) /\ Sorted(table) /\ current \in Pids
  BY DEF IInv, TypeOK, TableSorted, Sorted
<1>2. table' \in Seq(Entries) /\ SameTree(table, table')
  BY <1>1, DispatchTable DEF Tick
<1>3. UNCHANGED <<next_pid, pc, call, hung>>
  BY DEF Tick
<1>4. TableSorted' /\ \A p : Has(table, p) <=> Has(table', p)
  BY <1>2, <1>3, SameTreeKeeps DEF IInv
<1>5. Sorted(table')
  BY <1>4 DEF TableSorted, Sorted
<1>6. Has(table', current) \/ current \in {0, 1}
  BY <1>4 DEF IInv, CurrentInTable
<1>7. current' \in Pids /\ (Has(table', current') \/ current' \in {0, 1})
  <2>1. CASE Schedule(table')
    BY <1>1, <1>2, <1>5, <1>6, <2>1, SchedulePicks
  <2>2. CASE current' = current
    BY <1>1, <1>6, <2>2
  <2> QED BY <2>1, <2>2 DEF Tick
<1>8. slice' \in 0 .. Timeslice - 1
  BY ModRange DEF Tick, IInv, TypeOK
<1>9. CurrentInTable'
  BY <1>7 DEF CurrentInTable
<1> QED BY <1>2, <1>3, <1>7, <1>8, <1>9, SameTreeInv

\* A handler that spins changes nothing but hung.
LEMMA TimerSpinInv ==
  ASSUME IInv, TimerSpin
  PROVE  IInv'
<1>1. hung' \in BOOLEAN /\ UNCHANGED <<table, next_pid, current, slice, pc, call>>
  BY DEF TimerSpin
<1>2. TypeOK'
  BY <1>1 DEF IInv, TypeOK
<1>3. TableSorted' /\ ParentOlder' /\ CurrentInTable'
  BY <1>1, SameTableKeeps
<1> QED BY <1>2, <1>3 DEF IInv

\* A step that changes nothing keeps the invariant.
LEMMA StutterInv ==
  ASSUME IInv, UNCHANGED vars
  PROVE  IInv'
<1>1. UNCHANGED <<table, next_pid, current, slice, pc, call, hung>>
  BY DEF vars
<1>2. TypeOK'
  BY <1>1 DEF IInv, TypeOK
<1>3. TableSorted' /\ ParentOlder' /\ CurrentInTable'
  BY <1>1, SameTableKeeps
<1> QED BY <1>2, <1>3 DEF IInv

-----------------------------------------------------------------------------
\* Every step of the subsystem keeps the invariant.
LEMMA NextInv ==
  ASSUME NoWrap, IInv, [Next]_vars
  PROVE  IInv'
<1>1. CASE Tick
  BY <1>1, TickInv
<1>2. CASE TimerSpin
  BY <1>2, TimerSpinInv
<1>3. CASE Begin
  <2>1. CASE Fork
    BY <2>1, ForkInv
  <2>2. CASE Execve
    BY <2>2, ExecveInv
  <2>3. CASE \E p \in Pids, sig \in Signals : Kill(p, sig)
    BY <2>3, KillInv
  <2>4. CASE \E code \in Codes : ExitMark(code)
    BY <2>4, ExitMarkInv
  <2>5. CASE \E target \in Pids \cup {AnyChild} : WaitCall(target)
    BY <2>5, WaitCallInv
  <2>6. CASE GetppidLock \/ PsLock
    BY <2>6, LockInv
  <2> QED BY <1>3, <2>1, <2>2, <2>3, <2>4, <2>5, <2>6 DEF Begin
<1>4. CASE Continue
  <2>1. CASE ExitLock
    BY <2>1, ExitLockInv
  <2>2. CASE ExitSchedule
    BY <2>2, ExitScheduleInv
  <2>3. CASE WaitNoChild
    BY <2>3, WaitNoChildInv
  <2>4. CASE WaitReap
    BY <2>4, WaitReapInv
  <2>5. CASE Unlock
    BY <2>5, LockInv
  <2> QED BY <1>4, <2>1, <2>2, <2>3, <2>4, <2>5 DEF Continue
<1>5. CASE UNCHANGED vars
  BY <1>5, StutterInv
<1> QED BY <1>1, <1>2, <1>3, <1>4, <1>5 DEF Next

\* The inductive invariant holds in every reachable state.
LEMMA InductiveInvariant ==
  ASSUME NoWrap
  PROVE  Spec => []IInv
<1>1. NoWrap
  OBVIOUS
<1>2. IInv /\ [Next]_vars => IInv'
  BY <1>1, NextInv
<1> QED BY <1>2, InitInv, PTL DEF Spec

\* Every variable keeps its type, for any number of processes.
THEOREM TypeCorrect ==
  ASSUME NoWrap
  PROVE  Spec => []TypeOK
<1>1. IInv => TypeOK
  BY DEF IInv
<1> QED BY <1>1, InductiveInvariant, PTL

\* No two entries of the process table ever share a pid: the pid a call looks up
\* names one process.
THEOREM PidsUnique ==
  ASSUME NoWrap
  PROVE  Spec => []TableSorted
<1>1. IInv => TableSorted
  BY DEF IInv
<1> QED BY <1>1, InductiveInvariant, PTL

\* A parent is older than its child: no cycle of processes waiting for each
\* other can be built by fork, exit and waitpid.
THEOREM ParentsAcyclic ==
  ASSUME NoWrap
  PROVE  Spec => []ParentOlder
<1>1. IInv => ParentOlder
  BY DEF IInv
<1> QED BY <1>1, InductiveInvariant, PTL

\* CURRENT_PID names a process of the table, or idle or init.
THEOREM CurrentPresent ==
  ASSUME NoWrap
  PROVE  Spec => []CurrentInTable
<1>1. IInv => CurrentInTable
  BY DEF IInv
<1> QED BY <1>1, InductiveInvariant, PTL

-----------------------------------------------------------------------------
(* What schedule() picks, and what nobody does to a zombie.                 *)

\* In a sorted table the entry with a pid is the one `find` returns.
LEMMA FindIs ==
  ASSUME NEW t \in Seq(Entries), Sorted(t), NEW i \in DOMAIN t
  PROVE  Has(t, t[i].pid) /\ Find(t, t[i].pid) = i
<1> DEFINE k == Find(t, t[i].pid)
<1>1. Has(t, t[i].pid)
  BY DEF Has
<1>2. k \in DOMAIN t /\ t[k].pid = t[i].pid
  BY <1>1, FindSorted
<1> HIDE DEF k
<1>3. DOMAIN t = 1 .. Len(t) /\ Len(t) \in Nat
  BY LenProperties
<1>4. t[k] \in Entries /\ t[i] \in Entries
  BY <1>2, <1>3, ElementOfSeq
<1>5. t[k].pid \in Int /\ t[i].pid \in Int
  BY <1>4, ProcessAssumption, SMTT(30) DEF Entries, Pids
<1>6. ~(k < i) /\ ~(i < k)
  BY <1>2, <1>5 DEF Sorted
<1> QED BY <1>1, <1>2, <1>3, <1>6 DEF k

\* schedule() moves CURRENT_PID to an entry that may run, or to 0 when there is none.
LEMMA ScheduleRunnable ==
  ASSUME NEW t \in Seq(Entries), Sorted(t), Schedule(t), current' # current
  PROVE  \/ t = << >> /\ current' = 0
         \/ Has(t, current') /\ Runnable(t[Find(t, current')])
<1>1. Len(t) \in Nat /\ DOMAIN t = 1 .. Len(t)
  BY LenProperties
<1>2. CASE t = << >> /\ current' = 0
  BY <1>2
<1>3. ASSUME NEW i \in 1 .. Len(t),
             Runnable(t[SlotAfter(t, StartSlot(t, current), i)]),
             current' = t[SlotAfter(t, StartSlot(t, current), i)].pid
      PROVE  Has(t, current') /\ Runnable(t[Find(t, current')])
  <2> DEFINE start == StartSlot(t, current)
             k == SlotAfter(t, start, i)
  <2>1. start \in Int
    <3>1. CASE ~Has(t, current)
      BY <3>1 DEF StartSlot
    <3>2. CASE Has(t, current)
      <4>1. Find(t, current) \in 1 .. Len(t)
        BY <1>1, <3>2, FindSorted
      <4> QED BY <1>1, <3>2, <4>1 DEF StartSlot
    <3> QED BY <3>1, <3>2
  <2> HIDE DEF start
  <2>2. k \in 1 .. Len(t)
    <3>1. start + i \in Int /\ Len(t) \in Nat \ {0}
      BY <1>1, <2>1
    <3>2. (start + i) % Len(t) \in 0 .. Len(t) - 1
      BY <3>1, ModRange, Zenon
    <3> QED BY <1>1, <3>2 DEF SlotAfter
  <2>3. current' = t[k].pid /\ Runnable(t[k])
    BY <1>3 DEF start
  <2> HIDE DEF k
  <2>4. Has(t, t[k].pid) /\ Find(t, t[k].pid) = k
    BY <1>1, <2>2, FindIs
  <2> QED BY <2>3, <2>4
<1> QED BY <1>2, <1>3 DEF Schedule

\* The action ScheduledIsRunnable speaks of.
PicksRunnable ==
  current' # current =>
    \/ table' = << >> /\ current' = 0
    \/ Has(table', current') /\ Runnable(table'[Find(table', current')])

\* Only the timer at the end of a slice and exit move CURRENT_PID, by schedule().
LEMMA StepPicksRunnable ==
  ASSUME IInv, IInv', [Next]_vars
  PROVE  PicksRunnable
<1> SUFFICES ASSUME current' # current
             PROVE  \/ table' = << >> /\ current' = 0
                    \/ Has(table', current') /\ Runnable(table'[Find(table', current')])
  BY DEF PicksRunnable
<1>1. table' \in Seq(Entries) /\ Sorted(table')
  BY DEF IInv, TypeOK, TableSorted, Sorted
<1>2. Schedule(table')
  <2>1. CASE Tick
    BY <2>1 DEF Tick
  <2>2. CASE ExitSchedule
    <3>1. table' = table /\ Schedule(table)
      BY <2>2 DEF ExitSchedule
    <3> QED BY <3>1
  <2>3. ~UNCHANGED vars /\ ~TimerSpin
    BY DEF vars, TimerSpin
  <2>4. ~Begin
    BY DEF Begin, Fork, Execve, Kill, ExitMark, WaitCall, GetppidLock, PsLock, LockTable
  <2>5. Continue => ExitSchedule
    BY DEF Continue, ExitLock, WaitNoChild, WaitReap, Unlock
  <2> QED BY <2>1, <2>2, <2>3, <2>4, <2>5 DEF Next
<1> QED BY <1>1, <1>2, ScheduleRunnable

\* Whoever gets the CPU from schedule() may run, after the signals of the same tick.
THEOREM SchedulerPicksRunnable ==
  ASSUME NoWrap
  PROVE  Spec => ScheduledIsRunnable
<1>1. ASSUME IInv, IInv', [Next]_vars PROVE [PicksRunnable]_vars
  BY <1>1, StepPicksRunnable
<1>2. Spec => [][PicksRunnable]_vars
  BY <1>1, InductiveInvariant, PTL DEF Spec
<1> QED BY <1>2 DEF ScheduledIsRunnable, PicksRunnable

-----------------------------------------------------------------------------
(* What a step does to the entry of one process.                            *)

Kept(e, d) == /\ d.state = e.state
              /\ d.exit_code = e.exit_code
              /\ e.pending \subseteq d.pending

\* Entry e becomes d: it keeps state, code and signals, unless it is the current one
\* and execve, the timer or exit changes it.
EntryStep(e, d) ==
  \/ Kept(e, d)
  \/ /\ e.pid = current
     /\ \/ Execve /\ d.state = e.state /\ d.exit_code = e.exit_code
        \/ Tick /\ d = Deliver(e)
        \/ (\E code \in Codes : ExitMark(code)) /\ d.state = "Zombie"

SamePids(t, u) ==
  DOMAIN u = DOMAIN t /\ \A i \in DOMAIN t : u[i].pid = t[i].pid

\* Entries of two tables with the same pids in the same places match by place.
LEMMA SamePlace ==
  ASSUME NEW t \in Seq(Entries), Sorted(t), NEW u, SamePids(t, u),
         NEW i \in DOMAIN t, NEW j \in DOMAIN u, t[i].pid = u[j].pid
  PROVE  i = j
<1>1. j \in DOMAIN t /\ t[i].pid = t[j].pid
  BY DEF SamePids
<1>2. Find(t, t[i].pid) = i /\ Find(t, t[j].pid) = j
  BY <1>1, FindIs
<1> QED BY <1>1, <1>2

\* A table that only loses or gains entries keeps the ones that match.
LEMMA SubTableKeeps ==
  ASSUME NEW t \in Seq(Entries), Sorted(t), NEW u,
         NEW i \in DOMAIN t, NEW j \in DOMAIN u, t[i].pid = u[j].pid,
         NEW n \in DOMAIN t, u[j] = t[n]
  PROVE  Kept(t[i], u[j])
<1>1. Find(t, t[i].pid) = i /\ Find(t, t[n].pid) = n
  BY FindIs
<1>2. i = n
  BY <1>1
<1> QED BY <1>2 DEF Kept

\* The table after a step, entry by entry.
EntrySteps == \A i \in DOMAIN table, j \in DOMAIN table' :
                table[i].pid = table'[j].pid => EntryStep(table[i], table'[j])

\* Steps that keep every entry in its place.
LEMMA InPlaceSteps ==
  ASSUME IInv, SamePids(table, table'),
         \A i \in DOMAIN table : EntryStep(table[i], table'[i])
  PROVE  EntrySteps
<1> SUFFICES ASSUME NEW i \in DOMAIN table, NEW j \in DOMAIN table',
                    table[i].pid = table'[j].pid
             PROVE  EntryStep(table[i], table'[j])
  BY DEF EntrySteps
<1>1. table \in Seq(Entries) /\ Sorted(table)
  BY DEF IInv, TypeOK, TableSorted, Sorted
<1>2. i = j
  BY <1>1, SamePlace
<1> QED BY <1>2

\* Steps that leave the table alone.
LEMMA SameTableSteps ==
  ASSUME IInv, table' = table
  PROVE  EntrySteps /\ SamePids(table, table')
<1>1. SamePids(table, table')
  BY DEF SamePids
<1>2. \A i \in DOMAIN table : EntryStep(table[i], table'[i])
  BY DEF EntryStep, Kept
<1> QED BY <1>1, <1>2, InPlaceSteps

\* Replacing the one entry that is found by pid p.
LEMMA UpdateSteps ==
  ASSUME IInv, NEW p, Has(table, p), NEW e,
         table' = [table EXCEPT ![Find(table, p)] = e],
         e.pid = Entry(p).pid, EntryStep(Entry(p), e)
  PROVE  EntrySteps /\ SamePids(table, table')
<1> DEFINE k == Find(table, p)
<1>1. k \in DOMAIN table /\ table[k] = Entry(p)
  BY FindSorted DEF IInv, TypeOK, TableSorted, Sorted, Entry
<1> HIDE DEF k
<1>2. /\ DOMAIN table' = DOMAIN table
      /\ \A i \in DOMAIN table : table'[i] = IF i = k THEN e ELSE table[i]
  BY <1>1 DEF k
<1>3. SamePids(table, table')
  BY <1>1, <1>2 DEF SamePids
<1>4. ASSUME NEW i \in DOMAIN table PROVE EntryStep(table[i], table'[i])
  <2>1. CASE i = k
    BY <1>1, <1>2, <2>1
  <2>2. CASE i # k
    <3>1. table'[i] = table[i]
      BY <1>2, <2>2
    <3> QED BY <3>1 DEF EntryStep, Kept
  <2> QED BY <2>1, <2>2
<1> QED BY <1>3, <1>4, InPlaceSteps

\* execve keeps the state and the code of the current process.
LEMMA ExecveSteps ==
  ASSUME IInv, Execve
  PROVE  EntrySteps /\ SamePids(table, table')
<1> DEFINE k == Find(table, current)
           e == [table[k] EXCEPT !.pending = {}]
<1>1. k \in DOMAIN table /\ table[k] \in Entries /\ table[k].pid = current
  BY FindSorted, ElementOfSeq, LenProperties DEF Execve, IInv, TypeOK, TableSorted, Sorted
<1>2. Has(table, current) /\ table' = [table EXCEPT ![Find(table, current)] = e]
  BY <1>1 DEF Execve
<1>3. e.pid = table[k].pid /\ e.state = table[k].state /\ e.exit_code = table[k].exit_code
  BY <1>1 DEF Entries
<1>4. Entry(current) = table[k]
  BY DEF Entry
<1> HIDE DEF e, k
<1>5. EntryStep(Entry(current), e) /\ e.pid = Entry(current).pid
  BY <1>1, <1>3, <1>4 DEF EntryStep
<1> QED BY <1>2, <1>5, UpdateSteps

\* kill adds to what is pending.
LEMMA KillSteps ==
  ASSUME IInv, NEW p \in Pids, NEW sig \in Signals, Kill(p, sig)
  PROVE  EntrySteps /\ SamePids(table, table')
<1> DEFINE k == Find(table, p)
           e == [table[k] EXCEPT !.pending = table[k].pending \cup {sig}]
<1>1. k \in DOMAIN table /\ table[k] \in Entries
  BY FindSorted, ElementOfSeq, LenProperties DEF Kill, IInv, TypeOK, TableSorted, Sorted
<1>2. Has(table, p) /\ table' = [table EXCEPT ![Find(table, p)] = e]
  BY <1>1 DEF Kill
<1>3. e.pid = table[k].pid /\ Kept(table[k], e)
  BY <1>1 DEF Entries, Kept
<1>4. Entry(p) = table[k]
  BY DEF Entry
<1> HIDE DEF e, k
<1>5. EntryStep(Entry(p), e) /\ e.pid = Entry(p).pid
  BY <1>3, <1>4 DEF EntryStep
<1> QED BY <1>2, <1>5, UpdateSteps

\* The timer delivers to the current process only.
LEMMA TickSteps ==
  ASSUME IInv, Tick
  PROVE  EntrySteps /\ SamePids(table, table')
<1>1. table' = DispatchSignals(table, current)
  BY DEF Tick
<1>2. CASE ~Has(table, current)
  BY <1>1, <1>2, SameTableSteps DEF DispatchSignals
<1>3. CASE Has(table, current)
  <2> DEFINE k == Find(table, current)
             e == Deliver(table[k])
  <2>1. k \in DOMAIN table /\ table[k] \in Entries /\ table[k].pid = current
    BY <1>3, FindSorted, ElementOfSeq, LenProperties DEF IInv, TypeOK, TableSorted, Sorted
  <2>2. table' = [table EXCEPT ![Find(table, current)] = e]
    BY <1>1, <1>3, <2>1 DEF DispatchSignals
  <2>3. e.pid = table[k].pid
    BY <2>1, DeliverType
  <2>4. Entry(current) = table[k] /\ e = Deliver(table[k])
    BY DEF Entry
  <2> HIDE DEF e, k
  <2>5. EntryStep(Entry(current), e) /\ e.pid = Entry(current).pid
    BY <2>1, <2>3, <2>4 DEF EntryStep
  <2> QED BY <1>3, <2>2, <2>5, UpdateSteps
<1> QED BY <1>2, <1>3

\* exit makes the current process a zombie and changes only parents of others.
LEMMA ExitSteps ==
  ASSUME IInv, NEW code \in Codes, ExitMark(code)
  PROVE  EntrySteps /\ SamePids(table, table')
<1> DEFINE m == MarkZombie(table, current, code)
<1>1. table \in Seq(Entries) /\ Sorted(table) /\ code \in Int
  BY ProcessAssumption DEF IInv, TypeOK, TableSorted, Sorted
<1>2. m \in Seq(Entries) /\ SameTree(table, m)
  BY <1>1, MarkZombieTable
<1>3. \A i \in DOMAIN table :
        IF table[i].pid = current THEN m[i].state = "Zombie" ELSE m[i] = table[i]
  <2>1. CASE ~Has(table, current)
    BY <2>1 DEF MarkZombie, Has
  <2>2. CASE Has(table, current)
    <3> DEFINE k == Find(table, current)
    <3>1. /\ k \in DOMAIN table /\ table[k].pid = current
          /\ \A i \in DOMAIN table : table[i].pid = current => i = k
      BY <1>1, <2>2, FindSorted, FindIs
    <3>2. table[k] \in Entries
      BY <1>1, <3>1, ElementOfSeq, LenProperties
    <3>3. m[k].state = "Zombie"
      BY <2>2, <3>1, <3>2, Zenon DEF MarkZombie, Entries
    <3>4. \A i \in DOMAIN table : i # k => m[i] = table[i]
      BY <2>2, <3>1 DEF MarkZombie
    <3> HIDE DEF k, m
    <3> QED BY <3>1, <3>3, <3>4
  <2> QED BY <2>1, <2>2
<1>4. table' = Reparent(m, current)
  BY DEF ExitMark
<1> HIDE DEF m
<1>5. DOMAIN m = DOMAIN table /\ \A i \in DOMAIN table : m[i].pid = table[i].pid
  BY <1>2 DEF SameTree
<1>6. \A i \in DOMAIN m : m[i] \in Entries
  BY <1>2, ElementOfSeq, LenProperties
<1>7. /\ DOMAIN table' = DOMAIN m
      /\ \A i \in DOMAIN m : /\ table'[i].pid = m[i].pid
                             /\ table'[i].state = m[i].state
                             /\ table'[i].exit_code = m[i].exit_code
                             /\ table'[i].pending = m[i].pending
  BY <1>4, <1>6 DEF Reparent, Entries
<1>8. SamePids(table, table')
  BY <1>5, <1>7 DEF SamePids
<1>9. ASSUME NEW i \in DOMAIN table PROVE EntryStep(table[i], table'[i])
  <2>1. CASE table[i].pid = current
    <3>1. table'[i].state = "Zombie"
      BY <1>3, <1>5, <1>7, <2>1
    <3> QED BY <2>1, <3>1 DEF EntryStep
  <2>2. CASE table[i].pid # current
    <3>1. m[i] = table[i]
      BY <1>3, <2>2
    <3>2. Kept(table[i], table'[i])
      BY <1>5, <1>7, <3>1 DEF Kept
    <3> QED BY <3>2 DEF EntryStep
  <2> QED BY <2>1, <2>2
<1> QED BY <1>8, <1>9, InPlaceSteps

\* A fork adds a pid the table does not have; the entries before it stay.
LEMMA ForkSteps ==
  ASSUME NoWrap, IInv, Fork
  PROVE  EntrySteps /\ \A p : Has(table, p) => Has(table', p)
<1> USE ProcessAssumption
<1> DEFINE e == Process(PidOf(next_pid), Entry(current).pid, "Ready")
<1>1. table \in Seq(Entries) /\ Sorted(table) /\ Len(table) \in Nat
      /\ DOMAIN table = 1 .. Len(table)
  BY LenProperties DEF IInv, TypeOK, TableSorted, Sorted
<1>2. PidOf(next_pid) = next_pid /\ next_pid \in Int
  <2>1. next_pid \in 2 .. MaxPid + 1 /\ next_pid <= MaxPid
    BY SMTT(30) DEF Fork, IInv, TypeOK
  <2> QED BY <2>1, ModSmall DEF NoWrap, PidOf
<1>3. e.pid = next_pid
  BY <1>2 DEF Process
<1>4. \A i \in DOMAIN table : table[i].pid # next_pid
  <2>1. \A i \in DOMAIN table : table[i].pid < next_pid
    BY DEF IInv, TableSorted
  <2> QED BY <1>2, <2>1
<1>5. table' = Append(table, e)
  BY DEF Fork
<1> HIDE DEF e
<1>6. /\ DOMAIN table' = 1 .. Len(table) + 1
      /\ \A j \in 1 .. Len(table) : table'[j] = table[j]
      /\ table'[Len(table) + 1] = e
  BY <1>1, <1>5
<1>7. ASSUME NEW i \in DOMAIN table, NEW j \in DOMAIN table', table[i].pid = table'[j].pid
      PROVE  EntryStep(table[i], table'[j])
  <2>1. j # Len(table) + 1
    BY <1>3, <1>4, <1>6, <1>7
  <2>2. j \in DOMAIN table /\ table'[j] = table[j]
    BY <1>1, <1>6, <2>1
  <2>3. Kept(table[i], table'[j])
    BY <1>1, <1>7, <2>2, SubTableKeeps
  <2> QED BY <2>3 DEF EntryStep
<1>8. \A p : Has(table, p) => Has(table', p)
  <2> SUFFICES ASSUME NEW p, Has(table, p) PROVE Has(table', p)
    OBVIOUS
  <2>1. PICK i \in DOMAIN table : table[i].pid = p
    BY DEF Has
  <2>2. i \in DOMAIN table' /\ table'[i] = table[i]
    BY <1>1, <1>6
  <2> QED BY <2>1, <2>2 DEF Has
<1> QED BY <1>7, <1>8 DEF EntrySteps

\* waitpid removes one zombie; the other entries stay.
LEMMA ReapSteps ==
  ASSUME IInv, WaitReap
  PROVE  EntrySteps /\ \A p : Live(p) => Has(table', p)
<1>1. PICK k \in DOMAIN table : /\ table[k].state = "Zombie"
                               /\ table' = RemoveAt(table, k)
  BY DEF WaitReap, FirstReapable, Reapable
<1>2. table \in Seq(Entries) /\ Sorted(table) /\ Len(table) \in Nat
      /\ DOMAIN table = 1 .. Len(table)
  BY LenProperties DEF IInv, TypeOK, TableSorted, Sorted
<1>3. /\ table' \in Seq(Entries)
      /\ Len(table') = Len(table) - 1
      /\ \A j \in 1 .. Len(table) - 1 :
           table'[j] = IF j < k THEN table[j] ELSE table[j+1]
  BY <1>1, <1>2, RemoveAtProperties, Zenon
<1>4. DOMAIN table' = 1 .. Len(table) - 1
  BY <1>3, LenProperties
<1>5. ASSUME NEW i \in DOMAIN table, NEW j \in DOMAIN table', table[i].pid = table'[j].pid
      PROVE  EntryStep(table[i], table'[j])
  <2>1. j \in DOMAIN table /\ j + 1 \in DOMAIN table
    BY <1>2, <1>4
  <2>2. PICK n \in DOMAIN table : table'[j] = table[n]
    BY <1>3, <1>4, <2>1
  <2>3. Kept(table[i], table'[j])
    BY <1>2, <1>5, <2>2, SubTableKeeps
  <2> QED BY <2>3 DEF EntryStep
<1>6. ASSUME NEW p, Live(p) PROVE Has(table', p)
  <2>1. PICK i \in DOMAIN table : i = Find(table, p) /\ table[i].pid = p
    BY <1>2, <1>6, FindSorted DEF Live
  <2>2. i # k
    BY <1>1, <1>6, <2>1 DEF Live, Entry
  <2> DEFINE j == IF i < k THEN i ELSE i - 1
  <2>3. j \in DOMAIN table' /\ table'[j] = table[i]
    BY <1>1, <1>2, <1>3, <1>4, <2>1, <2>2, SMTT(30)
  <2> HIDE DEF j
  <2> QED BY <2>1, <2>3 DEF Has
<1> QED BY <1>5, <1>6 DEF EntrySteps

\* Every step changes entries only as EntryStep says, and removes no live process.
LEMMA StepEntries ==
  ASSUME NoWrap, IInv, [Next]_vars
  PROVE  EntrySteps /\ \A p : Live(p) => Has(table', p)
<1>1. ASSUME EntrySteps, SamePids(table, table')
      PROVE  EntrySteps /\ \A p : Live(p) => Has(table', p)
  BY <1>1 DEF SamePids, Has, Live
<1>2. CASE table' = table
  BY <1>1, <1>2, SameTableSteps
<1>3. CASE Tick
  BY <1>1, <1>3, TickSteps
<1>4. CASE Fork
  BY <1>4, ForkSteps DEF Live
<1>5. CASE Execve
  BY <1>1, <1>5, ExecveSteps
<1>6. CASE \E p \in Pids, sig \in Signals : Kill(p, sig)
  BY <1>1, <1>6, KillSteps
<1>7. CASE \E code \in Codes : ExitMark(code)
  BY <1>1, <1>7, ExitSteps
<1>8. CASE WaitReap
  BY <1>8, ReapSteps
<1>9. CASE Begin
  <2>1. CASE \E target \in Pids \cup {AnyChild} : WaitCall(target)
    BY <1>2, <2>1 DEF WaitCall
  <2>2. CASE GetppidLock \/ PsLock
    BY <1>2, <2>2 DEF GetppidLock, PsLock, LockTable
  <2> QED BY <1>4, <1>5, <1>6, <1>7, <1>9, <2>1, <2>2, Zenon DEF Begin
<1>10. CASE Continue
  BY <1>2, <1>8, <1>10 DEF Continue, ExitLock, ExitSchedule, WaitNoChild, Unlock
<1>11. CASE TimerSpin \/ UNCHANGED vars
  BY <1>2, <1>11 DEF TimerSpin, vars
<1>12. Tick \/ TimerSpin \/ Begin \/ Continue \/ UNCHANGED vars
  BY DEF Next
<1> QED BY <1>3, <1>9, <1>10, <1>11, <1>12, Zenon

\* What happens to the entry of a process that is in the table before and after a step.
LEMMA FoundStep ==
  ASSUME NoWrap, IInv, IInv', [Next]_vars, NEW p, Has(table, p), Has(table', p)
  PROVE  /\ EntryStep(Entry(p), table'[Find(table', p)])
         /\ Entry(p).pid = p
         /\ Entry(p) \in Entries
<1>1. table \in Seq(Entries) /\ Sorted(table) /\ table' \in Seq(Entries) /\ Sorted(table')
  BY DEF IInv, TypeOK, TableSorted, Sorted
<1>2. Find(table, p) \in DOMAIN table /\ table[Find(table, p)].pid = p
  BY <1>1, FindSorted
<1>3. Find(table', p) \in DOMAIN table' /\ table'[Find(table', p)].pid = p
  BY <1>1, FindSorted
<1>4. EntrySteps
  BY StepEntries
<1>5. table[Find(table, p)] \in Entries
  BY <1>1, <1>2, ElementOfSeq, LenProperties
<1> QED BY <1>2, <1>3, <1>4, <1>5, Zenon DEF EntrySteps, Entry

\* Delivery never revives; it writes an exit code only for a terminating signal, and
\* then the process is a zombie.
LEMMA DeliverEnds ==
  ASSUME NEW e \in Entries
  PROVE  /\ e.state = "Zombie" => Deliver(e).state = "Zombie"
         /\ e.pending \cap TermSignals = {} => Deliver(e).exit_code = e.exit_code
         /\ e.pending \cap TermSignals # {} => Deliver(e).state = "Zombie"
BY ZenonT(30) DEF Deliver, Entries

\* The action ZombieFrozen speaks of.
DeadUntouched ==
  \A p \in Pids :
    /\ Has(table, p) /\ Entry(p).state = "Zombie"
    /\ Has(table', p)
    => LET e == table'[Find(table', p)]
       IN  /\ e.state = "Zombie"
           /\ \/ e.exit_code = Entry(p).exit_code
              \/ p = current /\ Tick /\ Entry(p).pending \cap TermSignals # {}
              \/ p = current /\ \E code \in Codes : ExitMark(code)

\* No kill, tick, exit, execve or reap revives a zombie; its exit code changes only
\* while it is current, by a tick with a terminating signal pending or a second exit.
THEOREM ZombiesStayFrozen ==
  ASSUME NoWrap
  PROVE  Spec => ZombieFrozen
<1>1. ASSUME IInv, IInv', [Next]_vars PROVE [DeadUntouched]_vars
  <2> SUFFICES ASSUME NEW p \in Pids, Has(table, p), Entry(p).state = "Zombie",
                      Has(table', p), NEW d, d = table'[Find(table', p)]
               PROVE  /\ d.state = "Zombie"
                      /\ \/ d.exit_code = Entry(p).exit_code
                         \/ p = current /\ Tick /\ Entry(p).pending \cap TermSignals # {}
                         \/ p = current /\ \E code \in Codes : ExitMark(code)
    BY Zenon DEF DeadUntouched
  <2>1. EntryStep(Entry(p), d) /\ Entry(p).pid = p /\ Entry(p) \in Entries
    BY <1>1, FoundStep
  <2>2. CASE Kept(Entry(p), d)
    BY <2>2 DEF Kept
  <2>3. CASE d.state = Entry(p).state /\ d.exit_code = Entry(p).exit_code
    BY <2>3
  <2>4. CASE p = current /\ Tick /\ d = Deliver(Entry(p))
    BY <2>1, <2>4, DeliverEnds, Zenon
  <2>5. CASE p = current /\ (\E code \in Codes : ExitMark(code)) /\ d.state = "Zombie"
    BY <2>5
  <2> QED BY <2>1, <2>2, <2>3, <2>4, <2>5, Zenon DEF EntryStep
<1>2. Spec => [][DeadUntouched]_vars
  BY <1>1, InductiveInvariant, PTL DEF Spec
<1> QED BY <1>2 DEF ZombieFrozen, DeadUntouched

\* The action SignalKept speaks of.
SignalStays ==
  \A p \in Pids :
    Live(p) /\ Entry(p).pending \cap TermSignals # {} =>
      \/ p = current /\ Execve
      \/ /\ Has(table', p)
         /\ LET e == table'[Find(table', p)]
            IN  e.state = "Zombie" \/ Entry(p).pending \subseteq e.pending

\* A terminating signal that kill() accepted for a live process stays pending until
\* the process is a zombie, unless an execve on its behalf drops it.
THEOREM SignalsNotLost ==
  ASSUME NoWrap
  PROVE  Spec => SignalKept
<1>1. ASSUME IInv, IInv', [Next]_vars PROVE [SignalStays]_vars
  <2> SUFFICES ASSUME NEW p \in Pids, Live(p), Entry(p).pending \cap TermSignals # {},
                      NEW d, d = table'[Find(table', p)]
               PROVE  \/ p = current /\ Execve
                      \/ /\ Has(table', p)
                         /\ d.state = "Zombie" \/ Entry(p).pending \subseteq d.pending
    BY Zenon DEF SignalStays
  <2>1. Has(table, p) /\ Has(table', p)
    BY <1>1, StepEntries DEF Live
  <2>2. EntryStep(Entry(p), d) /\ Entry(p).pid = p /\ Entry(p) \in Entries
    BY <1>1, <2>1, FoundStep
  <2>3. CASE Kept(Entry(p), d)
    BY <2>1, <2>3 DEF Kept
  <2>4. CASE d = Deliver(Entry(p))
    BY <2>1, <2>2, <2>4, DeliverEnds, Zenon
  <2> QED BY <2>1, <2>2, <2>3, <2>4, Zenon DEF EntryStep
<1>2. Spec => [][SignalStays]_vars
  BY <1>1, InductiveInvariant, PTL DEF Spec
<1> QED BY <1>2 DEF SignalKept, SignalStays

=============================================================================
