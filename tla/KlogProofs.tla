------------------------------ MODULE KlogProofs ------------------------------
(* For any number of parts, part size and record lengths: the types of     *)
(* Klog and the bound on its files, with failing I/O and crashes; the      *)
(* order of the parts, with crashes, until some I/O fails; and what a      *)
(* rotation gives up, until that or until the process is killed.           *)
EXTENDS Klog, TLAPS

LEMMA InitIInv == Init => IInv
<1> SUFFICES ASSUME Init PROVE IInv
  OBVIOUS
<1>1. TypeOK
  <2>1. crashed \in BOOLEAN /\ failed \in BOOLEAN
    BY DEF Init
  <2> QED
    BY <2>1, KlogAssumption DEF Init, TypeOK, Parts, Closed, Pc, Call
<1>2. SizeInv
  BY KlogAssumption DEF Init, SizeInv, FileBounded, Bounded, Closed
<1> QED
  BY <1>1, <1>2 DEF IInv

\* What writing out a buffer does to the disk.
LEMMA WriteOutOK ==
  ASSUME TypeOK, FileBounded, log # Closed, NEW n \in Nat, Bounded(n), WriteOut(n)
  PROVE  /\ size' \in [Parts -> Nat] /\ recs' \in [Parts -> SUBSET Nat]
         /\ \A p \in Parts : Bounded(size'[p])
<1>1. \A p \in Parts : size'[p] = IF p = log /\ n > size[p] THEN n ELSE size[p]
  BY DEF WriteOut, TypeOK
<1>2. size' \in [Parts -> Nat]
  BY DEF WriteOut, TypeOK
<1>3. {b.n : b \in {x \in buf : x.end <= n}} \subseteq Nat
  BY DEF TypeOK, Record
<1>4. recs' \in [Parts -> SUBSET Nat]
  BY <1>3 DEF WriteOut, TypeOK
<1> QED
  BY <1>1, <1>2, <1>4 DEF FileBounded

LEMMA CleanupOK ==
  ASSUME IInv, Cleanup
  PROVE  /\ size' \in [Parts -> Nat] /\ recs' \in [Parts -> SUBSET Nat]
         /\ FileBounded' /\ log' = Closed /\ pos' = 0 /\ buf' = {}
         /\ UNCHANGED <<exists, part, psize, call, logged, crashed>>
<1>1. CASE log = Closed
  BY <1>1 DEF Cleanup, IInv, TypeOK, SizeInv, FileBounded, Bounded
<1>2. CASE log # Closed
  <2>1. WriteOut(pos) /\ pos \in Nat /\ Bounded(pos) /\ TypeOK /\ FileBounded
    BY <1>2 DEF Cleanup, IInv, TypeOK, SizeInv
  <2> QED
    BY <1>2, <2>1, WriteOutOK DEF Cleanup, FileBounded, Bounded
<1> QED
  BY <1>1, <1>2

\* A step that leaves every file as it is, or empties parts.
LEMMA Emptied ==
  ASSUME FileBounded, TypeOK, NEW p \in Nat, size' = [size EXCEPT ![p] = 0]
  PROVE  FileBounded'
<1>1. Bounded(0)
  BY KlogAssumption DEF Bounded
<1> QED
  BY <1>1 DEF FileBounded, Bounded, TypeOK

LEMMA FailedType ==
  ASSUME TypeOK, [Next]_vars
  PROVE  failed' \in BOOLEAN
<1>1. failed \in BOOLEAN
  BY DEF TypeOK
<1>2. CASE UNCHANGED failed
  BY <1>1, <1>2
<1>3. CASE failed' = TRUE
  BY <1>3
<1>4. CASE \E i \in 0..MaxParts - 1, fails \in BOOLEAN : ScanStopsAt(i, fails)
  BY <1>4 DEF ScanStopsAt
<1>5. CASE ScanFindsNone
  BY <1>5 DEF ScanFindsNone
<1> QED
  BY <1>2, <1>3, <1>4, <1>5
     DEF Next, vars, klog_init_file, klog_file, WriteRecord, klog_cleanup, CloseFirst, Cleanup,
         ScanCreate, ScanReopen, ReopenWith, ScanCannotOpen, Rotate, RotateTo, Create, Drop, Crash

LEMMA NextIInv == IInv /\ [Next]_vars => IInv'
<1> SUFFICES ASSUME IInv, [Next]_vars PROVE IInv'
  OBVIOUS
<1> USE DEF IInv
<1>a. failed' \in BOOLEAN
  BY FailedType
<1> USE <1>a
<1>0. /\ PartSize \in Nat \ {0} /\ Lengths \subseteq Nat \ {0} /\ MaxParts \in 1..255
      /\ Bounded(0)
  BY KlogAssumption DEF Bounded
<1>1. CASE klog_init_file
  BY <1>1 DEF klog_init_file, TypeOK, SizeInv, FileBounded, Bounded, diskVars, fileVars, Pc, Call
<1>2. CASE klog_file
  BY <1>2 DEF klog_file, TypeOK, SizeInv, FileBounded, Bounded, diskVars, fileVars, Pc, Call
<1>3. ASSUME NEW len \in Lengths, WriteRecord(len) PROVE IInv'
  <2>0. len \in Nat /\ pos \in Nat /\ psize \in Nat /\ logged \in Nat
    BY <1>0 DEF TypeOK
  <2>1. TypeOK'
    BY <1>3, <2>0 DEF WriteRecord, TypeOK, diskVars, Record, Pc, Call
  <2>2. /\ log # Closed /\ log' = log /\ pos < PartSize /\ pos <= psize
        /\ pos' = pos + len /\ psize' = psize + len
        /\ pc' = "close" \/ (pc' = "idle" /\ psize + len < PartSize)
    BY <1>0, <1>3, <2>0 DEF WriteRecord, SizeInv
  <2>3. Bounded(pos') /\ pos' <= psize'
    BY <1>0, <2>0, <2>2 DEF Bounded
  <2>4. FileBounded'
    BY <1>3 DEF WriteRecord, SizeInv, FileBounded, Bounded, diskVars
  <2>5. pc' \in {"idle", "append"} => pos' < PartSize
    BY <1>0, <2>0, <2>2
  <2> QED
    BY <2>1, <2>2, <2>3, <2>4, <2>5 DEF SizeInv
<1>4. CASE klog_cleanup \/ CloseFirst
  <2>1. Cleanup /\ pc' \in {"idle", "scan"}
    BY <1>4 DEF klog_cleanup, CloseFirst
  <2> QED
    BY <2>1, CleanupOK DEF TypeOK, SizeInv, Pc, Closed
<1>5. ASSUME NEW i \in 0..MaxParts - 1, ScanCreate(i) PROVE IInv'
  <2>1. /\ i \in Parts /\ i # Closed /\ log' = i /\ pos' = 0 /\ psize' = 0 /\ part' = i /\ i \in 0..255
        /\ pc' \in {"append", "idle"}
        /\ exists' = exists \union {i}
        /\ UNCHANGED <<size, recs, buf, call, logged, crashed>>
    BY <1>0, <1>5 DEF ScanCreate, ScanStopsAt, Return, Parts, Closed
  <2>2. TypeOK'
    BY <2>1 DEF TypeOK, Pc
  <2> QED
    BY <1>0, <2>1, <2>2 DEF SizeInv, FileBounded, Bounded
<1>6. ASSUME NEW i \in 0..MaxParts - 1, ScanReopen(i) PROVE IInv'
  <2>1. /\ i \in Parts /\ i # Closed /\ i \in exists /\ size[i] \in Nat /\ i \in 0..255
        /\ log' = i /\ part' = i /\ psize' = size[i] /\ pos' = IF size[i] - 1 = 0 THEN 0 ELSE size[i]
        /\ pc' \in {"append", "idle"}
        /\ UNCHANGED <<exists, size, recs, buf, call, logged, crashed>>
    BY <1>0, <1>6 DEF ScanReopen, ReopenWith, ScanStopsAt, Return, Parts, Closed, diskVars, TypeOK
  <2>2. size[i] < PartSize
    BY <1>0, <1>6, <2>1 DEF ScanReopen, ReopenWith, ScanStopsAt, Full
  <2>3. pos' \in Nat /\ pos' <= size[i] /\ pos' < PartSize
    BY <1>0, <2>1, <2>2
  <2>4. Bounded(pos')
    BY <1>0, <2>3 DEF Bounded
  <2>5. TypeOK'
    BY <2>1, <2>3 DEF TypeOK, Pc
  <2> QED
    BY <2>1, <2>3, <2>4, <2>5 DEF SizeInv, FileBounded, Bounded
<1>7. ASSUME NEW i \in 0..MaxParts - 1, ScanCannotOpen(i) PROVE IInv'
  <2>1. size[i] \in Nat /\ i \in 0..255 /\ part' = i /\ psize' = size[i] /\ pc' = "rotate" /\ log = Closed
        /\ UNCHANGED <<diskVars, fileVars, call, logged, crashed>>
    BY <1>0, <1>7 DEF ScanCannotOpen, ScanStopsAt, TypeOK, SizeInv, Parts
  <2> QED
    BY <2>1 DEF TypeOK, SizeInv, FileBounded, Bounded, diskVars, fileVars, Pc
<1>8. CASE ScanFindsNone
  BY <1>8 DEF ScanFindsNone, TypeOK, SizeInv, FileBounded, Bounded, diskVars, fileVars, Pc
<1>9. CASE Rotate
  <2> DEFINE p == IF Next8 > MaxParts THEN 0 ELSE Next8
  <2>1. p \in Parts /\ p \in 0..255 /\ p \in Nat
    BY <1>0 DEF Next8, Parts, TypeOK
  <2> HIDE DEF p
  <2>2. RotateTo(p)
    BY <1>9 DEF Rotate, p
  <2>3. /\ part' = p /\ pc' = "create" /\ log = Closed
        /\ UNCHANGED <<fileVars, psize, call, logged, crashed>>
    BY <2>2 DEF RotateTo, SizeInv
  <2>4. FileBounded'
    <3>1. CASE size' = [size EXCEPT ![p] = 0]
      BY <2>1, <3>1, Emptied DEF SizeInv
    <3>2. CASE size' = size
      BY <3>2 DEF SizeInv, FileBounded, Bounded
    <3> QED
      BY <2>2, <3>1, <3>2 DEF RotateTo, diskVars
  <2>5. exists' \in SUBSET Parts /\ size' \in [Parts -> Nat] /\ recs' \in [Parts -> SUBSET Nat]
    BY <2>2 DEF RotateTo, TypeOK, diskVars
  <2> QED
    BY <2>1, <2>3, <2>4, <2>5 DEF TypeOK, SizeInv, fileVars, Pc
<1>10. CASE Create
  <2>1. part \in Nat /\ UNCHANGED <<buf, part, psize, call, logged, crashed>>
    BY <1>10 DEF Create, TypeOK
  <2>2. CASE /\ exists' = exists \union {part}
             /\ size' = [size EXCEPT ![part] = 0]
             /\ recs' = [recs EXCEPT ![part] = {}]
             /\ log' = part
             /\ pos' = 0
             /\ Return(part)
    <3>1. FileBounded'
      BY <2>1, <2>2, Emptied DEF SizeInv
    <3>2. pc' \in {"append", "idle"} /\ part # Closed
      BY <2>1, <2>2 DEF Return, Closed
    <3>3. part \in Parts
      BY <1>10 DEF Create, SizeInv
    <3>4. TypeOK'
      BY <2>1, <2>2, <3>2, <3>3 DEF TypeOK, Pc
    <3> QED
      BY <1>0, <2>1, <2>2, <3>1, <3>2, <3>4 DEF SizeInv, TypeOK
  <2>3. CASE UNCHANGED <<diskVars, log, pos>> /\ Return(Closed)
    <3>1. pc' = "idle"
      BY <2>3 DEF Return
    <3> QED
      BY <1>10, <2>1, <2>3, <3>1 DEF Create, TypeOK, SizeInv, FileBounded, Bounded, diskVars, Pc
  <2> QED
    BY <1>10, <2>2, <2>3 DEF Create
<1>11. CASE Drop
  BY <1>11 DEF Drop, Forget, TypeOK, SizeInv, FileBounded, Bounded, diskVars, Pc, Closed
<1>12. CASE Crash
  <2>1. log' = Closed /\ pos' = 0 /\ buf' = {} /\ pc' = "new"
        /\ crashed' \in BOOLEAN /\ UNCHANGED <<exists, part, psize, call, logged>>
    BY <1>12 DEF Crash, Forget
  <2>2. size' \in [Parts -> Nat] /\ recs' \in [Parts -> SUBSET Nat] /\ FileBounded'
    <3>1. CASE log = Closed
      BY <1>12, <3>1 DEF Crash, TypeOK, SizeInv, FileBounded, Bounded
    <3>2. CASE log # Closed
      <4>1. PICK n \in 0..pos : WriteOut(n)
        BY <1>12, <3>2 DEF Crash
      <4>2. n \in Nat /\ Bounded(n)
        BY <1>0, <3>2 DEF SizeInv, Bounded, TypeOK
      <4> QED
        BY <3>2, <4>1, <4>2, WriteOutOK DEF SizeInv, FileBounded, Bounded
    <3> QED
      BY <3>1, <3>2
  <2> QED
    BY <2>1, <2>2 DEF TypeOK, SizeInv, Pc, Closed
<1>13. CASE UNCHANGED vars
  BY <1>13 DEF vars, diskVars, fileVars, TypeOK, SizeInv, FileBounded, Bounded
<1> QED
  BY <1>1, <1>2, <1>3, <1>4, <1>5, <1>6, <1>7, <1>8, <1>9, <1>10, <1>11, <1>12, <1>13 DEF Next

LEMMA KlogInvariant == Spec => []IInv
BY InitIInv, NextIInv, PTL DEF Spec

\* Every variable of the model of klog.c keeps its type.
THEOREM TypeCorrect == Spec => []TypeOK
<1>1. IInv => TypeOK
  BY DEF IInv
<1> QED
  BY <1>1, KlogInvariant, PTL

\* klog_file and _next_log_file keep every part below part_size and one
\* record, whatever fails and whenever the process is killed.
THEOREM BoundedParts == Spec => []FileBounded
<1>1. IInv => FileBounded
  BY DEF IInv, SizeInv
<1> QED
  BY <1>1, KlogInvariant, PTL

-----------------------------------------------------------------------------
(* The order of the parts, while no call of stdio fails. *)

\* What a handle's buffer being written out, as a whole or in part, does.
Flushed ==
  /\ \/ log = Closed /\ UNCHANGED <<size, recs>>
     \/ /\ log \in Parts
        /\ \A p \in Parts \ {log} : size'[p] = size[p] /\ recs'[p] = recs[p]
        /\ size'[log] \in Nat /\ size'[log] >= size[log]
        /\ recs[log] \subseteq recs'[log] /\ recs'[log] \subseteq recs[log] \union Buffered
  /\ log' = Closed /\ buf' = {} /\ exists' = exists /\ logged' = logged /\ part' = part

LEMMA WriteOutFlushes ==
  ASSUME TypeOK, log # Closed, NEW n \in Nat, WriteOut(n)
  PROVE  /\ log \in Parts
         /\ \A p \in Parts \ {log} : size'[p] = size[p] /\ recs'[p] = recs[p]
         /\ size'[log] \in Nat /\ size'[log] >= size[log]
         /\ recs[log] \subseteq recs'[log] /\ recs'[log] \subseteq recs[log] \union Buffered
<1>1. /\ log \in Parts /\ size \in [Parts -> Nat] /\ recs \in [Parts -> SUBSET Nat]
      /\ n \in Nat
  BY DEF TypeOK
<1> DEFINE done == {b.n : b \in {x \in buf : x.end <= n}}
<1>2. done \subseteq Buffered
  BY DEF Buffered
<1>3. \A p \in Parts : size'[p] = IF p = log /\ n > size[p] THEN n ELSE size[p]
  BY <1>1 DEF WriteOut
<1>4. recs' = [recs EXCEPT ![log] = @ \union done]
  BY DEF WriteOut
<1> HIDE DEF done
<1>5. \A p \in Parts : recs'[p] = IF p = log THEN recs[p] \union done ELSE recs[p]
  BY <1>1, <1>4
<1>6. size'[log] \in Nat /\ size'[log] >= size[log]
  <2>1. size[log] \in Nat /\ size'[log] = IF n > size[log] THEN n ELSE size[log]
    BY <1>1, <1>3
  <2> QED
    BY <2>1
<1>7. \A p \in Parts \ {log} : size'[p] = size[p] /\ recs'[p] = recs[p]
  BY <1>3, <1>5
<1> QED
  BY <1>1, <1>2, <1>5, <1>6, <1>7

LEMMA CleanupFlushes ==
  ASSUME TypeOK, Cleanup
  PROVE  Flushed
<1>1. CASE log = Closed
  BY <1>1 DEF Cleanup, Flushed
<1>2. CASE log # Closed
  <2>1. WriteOut(pos) /\ pos \in Nat
    BY <1>2 DEF Cleanup, TypeOK
  <2> QED
    BY <1>2, <2>1, WriteOutFlushes DEF Cleanup, Flushed
<1> QED
  BY <1>1, <1>2

LEMMA CrashFlushes ==
  ASSUME TypeOK, Crash
  PROVE  Flushed
<1>1. CASE log = Closed
  BY <1>1 DEF Crash, Forget, Flushed
<1>2. CASE log # Closed
  <2>1. PICK n \in 0..pos : WriteOut(n)
    BY <1>2 DEF Crash
  <2>2. n \in Nat
    BY DEF TypeOK
  <2> QED
    BY <1>2, <2>1, <2>2, WriteOutFlushes DEF Crash, Forget, Flushed
<1> QED
  BY <1>1, <1>2

LEMMA PartFacts == /\ MaxParts \in 1..255 /\ PartSize \in Nat \ {0} /\ Low \subseteq Parts
                   /\ Closed \notin Parts /\ Parts \subseteq 0..255
                   /\ \A j \in Low : j # MaxParts /\ j + 1 \in Parts
BY KlogAssumption DEF Low, Parts, Closed

\* A file does not shrink, and only the one that is written to changes.
LEMMA FlushedFull ==
  ASSUME TypeOK, Flushed
  PROVE  /\ \A p \in Parts : Full(p) => Full(p)'
         /\ \A p \in Parts : p # log => (Full(p)' <=> Full(p)) /\ recs'[p] = recs[p]
<1>1. size \in [Parts -> Nat]
  BY DEF TypeOK
<1>2. \A p \in Parts : (Full(p)' <=> p \in exists /\ size'[p] >= PartSize)
  BY DEF Flushed, Full
<1>3. CASE log = Closed
  BY <1>3, PartFacts DEF Flushed, Full
<1>4. CASE log # Closed
  <2>1. /\ log \in Parts /\ size'[log] \in Nat /\ size'[log] >= size[log]
        /\ \A p \in Parts \ {log} : size'[p] = size[p] /\ recs'[p] = recs[p]
    BY <1>4, PartFacts DEF Flushed
  <2>2. size[log] >= PartSize => size'[log] >= PartSize
    BY <1>1, <2>1, PartFacts
  <2> QED
    BY <1>1, <1>2, <2>1, <2>2 DEF Full
<1> QED
  BY <1>3, <1>4

LEMMA FlushOrder ==
  ASSUME TypeOK, OrderInv, Flushed, pc' \in {"new", "idle", "scan"}
  PROVE  OrderInv'
<1>0. /\ log' = Closed /\ buf' = {} /\ exists' = exists /\ logged' = logged
      /\ log \in Parts \union {Closed} /\ logged \in Nat
  BY DEF Flushed, TypeOK
<1>1. /\ \A p \in Parts : Full(p) => Full(p)'
      /\ \A p \in Parts : p # log => (Full(p)' <=> Full(p)) /\ recs'[p] = recs[p] /\ size'[p] = size[p]
  BY FlushedFull DEF Flushed
<1>2. \A p \in Parts : recs'[p] \subseteq recs[p] \union (IF p = log THEN Buffered ELSE {})
  BY <1>1 DEF Flushed
<1>3. log # Closed =>
        /\ log \in Parts /\ log \in exists /\ ~Full(log) /\ Newest(log, recs[log] \union Buffered)
  BY <1>0 DEF OrderInv
<1>4. InOrder'
  <2> SUFFICES ASSUME NEW p \in Parts, NEW q \in Parts, p # q
               PROVE  Older(recs'[p], recs'[q]) \/ Older(recs'[q], recs'[p])
    BY DEF InOrder, Parts
  <2>1. CASE p # log /\ q # log
    BY <1>1, <2>1 DEF OrderInv, InOrder
  <2>2. CASE p = log \/ q = log
    BY <1>0, <1>1, <1>2, <1>3, <2>2, PartFacts DEF Newest, Older
  <2> QED
    BY <2>1, <2>2
<1>5. \A p \in Parts \ exists : size'[p] = 0 /\ recs'[p] = {}
  BY <1>0, <1>1, <1>3, PartFacts DEF OrderInv
<1>6. \A p \in Parts : \A n \in recs'[p] : n <= logged
  BY <1>2 DEF OrderInv
<1>7. \A j, k \in Low : ~Full(j)' /\ ~Full(k)' /\ j < k => recs'[k] = {}
  <2> SUFFICES ASSUME NEW j \in Low, NEW k \in Low, ~Full(j)', ~Full(k)', j < k
               PROVE  recs'[k] = {}
    OBVIOUS
  <2>1. ~Full(j) /\ ~Full(k) /\ recs[k] = {}
    BY <1>1, PartFacts DEF OrderInv
  <2>2. k # log
    BY <2>1, PartFacts DEF OrderInv
  <2> QED
    BY <1>1, <2>1, <2>2, PartFacts
<1>8. \A j \in Low : ~Full(j)' => \A q \in Parts \ {j} : Older(recs'[q], recs'[j])
  <2> SUFFICES ASSUME NEW j \in Low, ~Full(j)', NEW q \in Parts \ {j}
               PROVE  Older(recs'[q], recs'[j])
    OBVIOUS
  <2>1. j \in Parts /\ ~Full(j)
    BY <1>1, PartFacts
  <2>2. CASE j = log
    BY <1>1, <1>2, <1>3, <2>1, <2>2, PartFacts DEF Newest, Older
  <2>3. CASE j # log /\ q # log
    BY <1>1, <2>1, <2>3 DEF OrderInv, Newest
  <2>4. CASE j # log /\ q = log
    <3>0. log \in Parts /\ log # Closed /\ ~Full(log)
      BY <1>3, <2>4, PartFacts
    <3>1. ~(j < log)
      BY <2>1, <3>0 DEF OrderInv
    <3>2. log < j /\ log \in Low
      <4>1. MaxParts \in Nat /\ j \in 0..MaxParts - 1 /\ log \in 0..MaxParts
        BY <3>0, PartFacts DEF Parts, Low
      <4>2. log < j
        BY <2>4, <3>1, <4>1
      <4> QED
        BY <4>1, <4>2 DEF Low
    <3>3. recs[j] = {}
      BY <1>3, <2>1, <2>4, <3>2, PartFacts DEF OrderInv
    <3> QED
      BY <1>1, <2>1, <2>4, <3>3 DEF Older
  <2> QED
    BY <2>2, <2>3, <2>4
<1>9. Low' = Low /\ Parts' = Parts /\ (\A n \in Buffered' : n <= logged')
  BY <1>0 DEF Low, Parts, Buffered
<1> QED
  BY <1>0, <1>4, <1>5, <1>6, <1>7, <1>8, <1>9 DEF OrderInv, Newest

\* A step that leaves files and handle as they are.
LEMMA QuietOrder ==
  ASSUME OrderInv, UNCHANGED <<diskVars, log, buf, logged>>, pc' \notin {"rotate", "create"}
  PROVE  OrderInv'
BY DEF OrderInv, diskVars, InOrder, Newest, Buffered, Full

\* The new record is the newest of all.
LEMMA WriteOrder ==
  ASSUME TypeOK, SizeInv, OrderInv, NEW len \in Lengths, WriteRecord(len)
  PROVE  OrderInv'
<1>1. /\ UNCHANGED <<exists, size, recs, log>> /\ logged' = logged + 1 /\ logged \in Nat
      /\ buf' = buf \union {[n |-> logged + 1, end |-> pos + len]}
      /\ log # Closed /\ pc' \in {"close", "idle"} /\ recs \in [Parts -> SUBSET Nat]
      /\ log \in Parts
  BY DEF WriteRecord, TypeOK, SizeInv, diskVars
<1>2. Buffered' = Buffered \union {logged + 1}
  <2> DEFINE r == [n |-> logged + 1, end |-> pos + len]
  <2>1. r.n = logged + 1 /\ buf' = buf \union {r}
    BY <1>1
  <2> HIDE DEF r
  <2>2. \A n : n \in Buffered' <=> n \in Buffered \/ n = logged + 1
    BY <2>1, Zenon DEF Buffered
  <2> QED
    BY <2>2
<1>3. Buffered \subseteq Nat
  BY DEF Buffered, TypeOK, Record
<1>4. \A n \in Buffered' : n <= logged'
  BY <1>1, <1>2, <1>3 DEF OrderInv
<1>5. \A p \in Parts : \A n \in recs'[p] : n <= logged'
  BY <1>1 DEF OrderInv
<1>6. \A q \in Parts \ {log} : Older(recs[q], recs[log] \union Buffered')
  <2> SUFFICES ASSUME NEW q \in Parts \ {log}, NEW m \in recs[q], NEW n \in recs[log] \union Buffered'
               PROVE  m < n
    BY DEF Older
  <2>1. CASE n \in recs[log] \union Buffered
    BY <1>1, <2>1 DEF OrderInv, Newest, Older
  <2>2. CASE n = logged + 1
    <3>1. m \in Nat /\ m <= logged
      BY <1>1 DEF OrderInv
    <3> QED
      BY <1>1, <2>2, <3>1
  <2> QED
    BY <1>2, <2>1, <2>2
<1> QED
  BY <1>1, <1>4, <1>5, <1>6 DEF OrderInv, InOrder, Newest, Full

\* A scan opens the newest part, or an empty one.
LEMMA ScanOrder ==
  ASSUME ~failed', TypeOK, SizeInv, OrderInv, NEW i \in Low, ScanCreate(i) \/ ScanReopen(i)
  PROVE  OrderInv'
<1>1. /\ exists' = exists \union {i} /\ UNCHANGED <<size, recs, buf, logged>> /\ log' = i
      /\ ~Full(i) /\ (\A j \in 0..i - 1 : Full(j)) /\ pc' \in {"append", "idle"}
      /\ log = Closed /\ (i \in exists \/ size[i] = 0)
      /\ buf = {} /\ i \in Parts
  <2>1. log = Closed /\ buf = {} /\ i \in Parts /\ (i \in exists \/ size[i] = 0)
    BY PartFacts DEF ScanCreate, ScanReopen, ReopenWith, ScanStopsAt, SizeInv, OrderInv
  <2>2. CASE ScanCreate(i)
    BY <2>1, <2>2 DEF ScanCreate, ScanStopsAt, PassedOver, Return
  <2>3. CASE ScanReopen(i)
    <3>1. i \in exists /\ exists' = exists
      BY <2>3 DEF ScanReopen, ReopenWith, diskVars
    <3>2. exists' = exists \union {i}
      BY <3>1
    <3>3. UNCHANGED <<size, recs, buf, logged>> /\ log' = i /\ ~Full(i) /\ pc' \in {"append", "idle"}
      BY <2>3 DEF ScanReopen, ReopenWith, ScanStopsAt, Return, diskVars
    <3>4. \A j \in 0..i - 1 : Full(j)
      BY <2>3 DEF ScanReopen, ReopenWith, ScanStopsAt, PassedOver
    <3> QED
      BY <2>1, <3>2, <3>3, <3>4
  <2> QED
    BY <2>2, <2>3
<1>2. \A p \in Parts : Full(p)' <=> Full(p)
  BY <1>1, PartFacts DEF Full
<1>3. \A j \in Low : j < i => Full(j)
  BY <1>1, PartFacts DEF Low
<1>4. Newest(i, recs[i]) /\ Buffered' = {}
  BY <1>1 DEF OrderInv, Buffered
<1>5. \A j \in Low : Full(j)' <=> Full(j)
  BY <1>2, PartFacts
<1>6. ~Full(log)' /\ log' \in exists'
  BY <1>1, <1>2, PartFacts DEF Full
<1>7. Newest(log, recs[log] \union Buffered)'
  BY <1>1, <1>4 DEF Newest
<1> QED
  BY <1>1, <1>3, <1>4, <1>5, <1>6, <1>7, PartFacts DEF OrderInv, InOrder, Newest

\* Once every part below the last is full, any may be given up ...
LEMMA RotateOrder ==
  ASSUME ~failed', TypeOK, SizeInv, OrderInv, Rotate
  PROVE  OrderInv'
<1> DEFINE p == IF Next8 > MaxParts THEN 0 ELSE Next8
<1>1. p \in Parts
  BY PartFacts DEF Next8, Parts, TypeOK
<1> HIDE DEF p
<1>2. RotateTo(p)
  BY DEF Rotate, p
<1>3. /\ exists' = exists \ {p} /\ part' = p /\ log' = Closed /\ log = Closed
      /\ UNCHANGED <<buf, logged>> /\ pc' = "create" /\ pc = "rotate"
      /\ \A q \in Parts : /\ size'[q] = IF q = p THEN 0 ELSE size[q]
                          /\ recs'[q] = IF q = p THEN {} ELSE recs[q]
  BY <1>1, <1>2 DEF RotateTo, TypeOK, SizeInv, fileVars
<1>4. \A j \in Low : Full(j)
  BY <1>3 DEF OrderInv
<1>5. \A j \in Low \ {p} : Full(j)'
  BY <1>3, <1>4, PartFacts DEF Full
<1>6. InOrder'
  BY <1>3 DEF OrderInv, InOrder, Older, Parts
<1>7. \A j \in Low : ~Full(j)' => recs'[j] = {} /\ Newest(j, recs[j])'
  BY <1>3, <1>5, PartFacts DEF Newest, Older
<1>8. Buffered' = Buffered /\ buf' = {}
  BY <1>3 DEF Buffered, OrderInv
<1> QED
  BY <1>1, <1>3, <1>5, <1>6, <1>7, <1>8 DEF OrderInv

\* ... and it is written to next.
LEMMA CreateOrder ==
  ASSUME ~failed', TypeOK, SizeInv, OrderInv, Create
  PROVE  OrderInv'
<1>1. /\ exists' = exists \union {part} /\ log' = part /\ part \in Parts /\ buf = {}
      /\ UNCHANGED <<buf, logged>> /\ pc' \in {"append", "idle"} /\ log = Closed
      /\ recs[part] = {} /\ size[part] = 0 /\ \A j \in Low \ {part} : Full(j)
  BY PartFacts DEF Create, Return, SizeInv, OrderInv
<1>2. \A q \in Parts : recs'[q] = recs[q] /\ size'[q] = size[q]
  BY <1>1 DEF Create, TypeOK
<1>3. \A q \in Parts : Full(q)' <=> Full(q)
  BY <1>1, <1>2, PartFacts DEF Full
<1>4. Buffered' = {}
  BY <1>1 DEF Buffered
<1>5. InOrder'
  BY <1>2 DEF OrderInv, InOrder, Parts
<1>6. /\ log' \in exists' /\ ~Full(log)' /\ Newest(log, recs[log] \union Buffered)'
  BY <1>1, <1>2, <1>3, <1>4, PartFacts DEF Newest, Older, Full
<1>7. \A j \in Low : Full(j)' <=> Full(j)
  BY <1>3, PartFacts
<1>8. \A j \in Low : ~Full(j) => j = part
  BY <1>1
<1>9. \A j, k \in Low : ~Full(j)' /\ ~Full(k)' /\ j < k => recs'[k] = {}
  BY <1>7, <1>8, PartFacts DEF Low
<1>10. \A j \in Low : ~Full(j)' => Newest(j, recs[j])'
  BY <1>1, <1>2, <1>7, <1>8 DEF Newest, Older
<1>11. \A j \in Low : j < part => Full(j)
  BY <1>8, PartFacts DEF Low
<1> QED
  BY <1>1, <1>2, <1>4, <1>5, <1>6, <1>7, <1>9, <1>10, <1>11 DEF OrderInv

LEMMA InitOrder == Init => OrderInv
<1> SUFFICES ASSUME Init PROVE OrderInv
  OBVIOUS
<1>1. /\ exists = {} /\ buf = {} /\ log = Closed /\ pc = "new"
      /\ \A p \in Parts : size[p] = 0 /\ recs[p] = {}
  BY DEF Init
<1>2. Buffered = {}
  BY <1>1 DEF Buffered
<1>3. InOrder /\ \A j \in Low : recs[j] = {} /\ Newest(j, recs[j])
  BY <1>1, PartFacts DEF InOrder, Older, Newest
<1> QED
  BY <1>1, <1>2, <1>3 DEF OrderInv

LEMMA NextOrder == ~failed' /\ IInv /\ OrderInv /\ [Next]_vars => OrderInv'
<1> SUFFICES ASSUME ~failed', IInv, OrderInv, [Next]_vars PROVE OrderInv'
  OBVIOUS
<1>0. TypeOK /\ SizeInv
  BY DEF IInv
<1>1. CASE klog_init_file \/ klog_file
  BY <1>1, QuietOrder DEF klog_init_file, klog_file, fileVars, diskVars
<1>2. CASE \E len \in Lengths : WriteRecord(len)
  BY <1>0, <1>2, WriteOrder
<1>3. CASE klog_cleanup \/ CloseFirst
  BY <1>0, <1>3, CleanupFlushes, FlushOrder DEF klog_cleanup, CloseFirst
<1>4. CASE \E i \in Low : ScanCreate(i) \/ ScanReopen(i) \/ ScanCannotOpen(i)
  BY <1>0, <1>4, ScanOrder DEF ScanCannotOpen, ScanStopsAt
<1>5. CASE ScanFindsNone
  <2>1. UNCHANGED <<exists, size, recs, log, pos, buf, logged>> /\ pc' = "rotate"
        /\ \A i \in Low : Full(i)
    BY <1>5 DEF ScanFindsNone, PassedOver, Low, diskVars, fileVars
  <2> QED
    BY <2>1 DEF OrderInv, InOrder, Newest, Buffered, Full
<1>6. CASE Rotate
  BY <1>0, <1>6, RotateOrder
<1>7. CASE Create
  BY <1>0, <1>7, CreateOrder
<1>8. CASE Drop
  <2>1. UNCHANGED <<diskVars, log, buf, logged>> /\ pc' = "new"
    BY <1>8 DEF Drop, Forget, OrderInv
  <2> QED
    BY <2>1, QuietOrder
<1>9. CASE Crash
  BY <1>0, <1>9, CrashFlushes, FlushOrder DEF Crash, Forget
<1>10. CASE UNCHANGED vars
  BY <1>10 DEF vars, diskVars, fileVars, OrderInv, InOrder, Newest, Buffered, Full
<1> QED
  BY <1>1, <1>2, <1>3, <1>4, <1>5, <1>6, <1>7, <1>8, <1>9, <1>10 DEF Next, Low

\* What has failed once has failed.
LEMMA FailedStays == ~failed' /\ [Next]_vars => ~failed
BY DEF Next, vars, klog_init_file, klog_file, WriteRecord, klog_cleanup, CloseFirst, Cleanup,
       ScanCreate, ScanReopen, ReopenWith, ScanStopsAt, ScanCannotOpen, ScanFindsNone, Rotate,
       RotateTo, Create, Drop, Crash

\* Until a stat(), fopen() or remove() fails, the scan and the rotation of
\* _next_log_file never let two parts interleave, whenever the process is
\* killed and started again.
THEOREM PartsStayOrdered == Spec => []PartsOrdered
<1> DEFINE Ordered == ~failed => OrderInv
<1>1. Init => Ordered
  BY InitOrder
<1>2. IInv /\ Ordered /\ [Next]_vars => Ordered'
  BY NextOrder, FailedStays
<1>3. Ordered => PartsOrdered
  BY DEF OrderInv, PartsOrdered
<1> HIDE DEF Ordered
<1> QED
  BY <1>1, <1>2, <1>3, KlogInvariant, PTL DEF Spec

-----------------------------------------------------------------------------
(* The ring of the parts, while the process is not killed either. *)

\* A step that changes no part.
LEMMA QuietRing ==
  ASSUME NEW c \in Parts, RingAt(c),
         \A p \in Parts : recs'[p] = recs[p] /\ (Full(p)' <=> Full(p)),
         log' # Closed => log' = c /\ part' = c,
         log' = Closed /\ c \in Low /\ pc' \in {"new", "idle"} => ~Full(c),
         log' = Closed /\ pc' \in {"idle", "scan", "rotate"} =>
           part' = c \/ (part' = 255 /\ (c \in Low => ~Full(c))),
         pc' = "create" => part' = c
  PROVE  RingAt(c)'
<1>1. \A p, q \in Parts : Before(p, q, c) => Older(recs'[p], recs'[q])
  BY DEF RingAt
<1>2. \A j \in Low : (Full(j)' <=> Full(j)) /\ recs'[j] = recs[j]
  BY PartFacts
<1>3. Beyond(c) \subseteq Low
  BY DEF Beyond
<1>4. c \in Low => \A j \in Low : j < c => Full(j)'
  BY <1>2 DEF RingAt
<1>5. \/ \A j \in Beyond(c) : Full(j)'
      \/ \A j \in Beyond(c) : ~Full(j)' /\ recs'[j] = {}
  BY <1>2, <1>3 DEF RingAt
<1>6. c \in Low => (Full(c)' <=> Full(c))
  BY <1>2
<1> QED
  BY <1>1, <1>4, <1>5, <1>6 DEF RingAt, Before, Beyond, Low, Parts

\* The buffer's records are the newest.
LEMMA FlushRing ==
  ASSUME TypeOK, OrderInv, NEW c \in Parts, RingAt(c), Flushed, log # Closed,
         pc' \in {"idle", "scan"}, pc' = "idle" => ~Full(c)'
  PROVE  RingAt(c)'
<1>1. log = c /\ part' = c /\ log' = Closed
  BY DEF RingAt, Flushed
<1>2. /\ \A p \in Parts : p # c => (Full(p)' <=> Full(p)) /\ recs'[p] = recs[p]
      /\ recs'[c] \subseteq recs[c] \union Buffered
  BY <1>1, FlushedFull DEF Flushed
<1>3. \A q \in Parts \ {c} : Older(recs'[q], recs'[c])
  BY <1>1, <1>2 DEF OrderInv, Newest, Older
<1>4. ASSUME NEW p \in Parts, NEW q \in Parts, Before(p, q, c) PROVE Older(recs'[p], recs'[q])
  <2>1. p # c
    <3>1. p \in 0..MaxParts /\ q \in 0..MaxParts /\ c \in 0..MaxParts /\ MaxParts \in Nat
      BY PartFacts DEF Parts
    <3> QED
      BY <1>4, <3>1 DEF Before
  <2> QED
    BY <1>2, <1>3, <1>4, <2>1 DEF RingAt
<1>5. Beyond(c) \subseteq Parts \ {c} /\ \A j \in Low : j < c => j \in Parts \ {c}
  BY PartFacts DEF Beyond, Low, Parts
<1>6. c \in Low => \A j \in Low : j < c => Full(j)'
  BY <1>2, <1>5 DEF RingAt
<1>7. \/ \A j \in Beyond(c) : Full(j)'
      \/ \A j \in Beyond(c) : ~Full(j)' /\ recs'[j] = {}
  BY <1>2, <1>5 DEF RingAt
<1> QED
  BY <1>1, <1>4, <1>6, <1>7 DEF RingAt, Before, Beyond, Low, Parts

\* The scan goes on to the next part only if that is empty.
LEMMA ScanRing ==
  ASSUME ~failed', TypeOK, SizeInv, OrderInv, NEW c \in Parts, RingAt(c), NEW i \in Low,
         ScanCreate(i) \/ ScanReopen(i)
  PROVE  RingAt(i)'
<1>1. /\ UNCHANGED <<size, recs>> /\ log' = i /\ part' = i /\ pc' \in {"append", "idle"}
      /\ ~Full(i) /\ \A j \in 0..i - 1 : Full(j)
      /\ exists' = exists \union {i} /\ (i \in exists \/ size[i] = 0)
  <2>1. i \in exists \/ size[i] = 0
    BY PartFacts DEF OrderInv
  <2>2. ScanStopsAt(i, FALSE)
    BY DEF ScanCreate, ScanReopen, ReopenWith
  <2>3. UNCHANGED <<size, recs>> /\ log' = i /\ pc' \in {"append", "idle"}
    BY DEF ScanCreate, ScanReopen, ReopenWith, Return, diskVars
  <2>4. exists' = exists \union {i}
    <3>1. CASE ScanCreate(i)
      BY <3>1 DEF ScanCreate
    <3>2. CASE ScanReopen(i)
      BY <3>2 DEF ScanReopen, ReopenWith, diskVars
    <3> QED
      BY <3>1, <3>2
  <2> QED
    BY <2>1, <2>2, <2>3, <2>4 DEF ScanStopsAt, PassedOver
<1>2. \A p \in Parts : recs'[p] = recs[p] /\ (Full(p)' <=> Full(p))
  <2>1. ~(size[i] >= PartSize)
    BY <1>1, PartFacts DEF Full
  <2>2. \A p \in Parts : Full(p)' <=> (p \in exists \/ p = i) /\ size[p] >= PartSize
    BY <1>1 DEF Full
  <2> QED
    BY <1>1, <2>1, <2>2 DEF Full
<1>3. i \in 0..MaxParts - 1 /\ c \in 0..MaxParts /\ MaxParts \in Nat /\ i # Closed /\ i \in Parts
  BY PartFacts DEF Parts, Low
<1>4. \A j \in Low : j < i => Full(j)
  BY <1>1 DEF Low
<1>5. CASE i = c
  BY <1>1, <1>2, <1>3, <1>5, QuietRing
<1>6. CASE i # c
  <2>1. i \in Beyond(c)
    <3>1. c \in Low /\ i < c => Full(i)
      BY DEF RingAt
    <3>2. c \in Low => i > c
      BY <1>1, <1>3, <1>6, <3>1
    <3>3. c \notin Low => c = MaxParts
      BY <1>3 DEF Low
    <3> QED
      BY <3>2, <3>3 DEF Beyond
  <2>2. \A j \in Beyond(c) : ~Full(j) /\ recs[j] = {}
    BY <1>1, <2>1 DEF RingAt
  <2>3. Beyond(i) \subseteq Beyond(c)
    BY <1>3, <2>1 DEF Beyond, Low
  <2>4. \A j \in Beyond(i) : ~Full(j)' /\ recs'[j] = {}
    BY <1>2, <2>2, <2>3, PartFacts DEF Beyond
  <2>5. ASSUME NEW p \in Parts, NEW q \in Parts, Before(p, q, i) PROVE Older(recs[p], recs[q])
    <3>1. CASE p \in Beyond(c) \/ q \in Beyond(c)
      BY <2>2, <3>1 DEF Older
    <3>2. CASE p \notin Beyond(c) /\ q \notin Beyond(c)
      <4>1. p \in 0..MaxParts /\ q \in 0..MaxParts
        BY DEF Parts
      <4>2. /\ p = MaxParts \/ (c # MaxParts /\ p <= c)
            /\ q = MaxParts \/ (c # MaxParts /\ q <= c)
            /\ c # MaxParts => c < i
        BY <1>3, <2>1, <3>2, <4>1 DEF Beyond, Low
      <4>3. Before(p, q, c)
        BY <1>3, <2>5, <4>1, <4>2 DEF Before
      <4> QED
        BY <4>3 DEF RingAt
    <3> QED
      BY <3>1, <3>2
  <2>6. \A p, q \in Parts : Before(p, q, i) => Older(recs'[p], recs'[q])
    BY <1>2, <2>5
  <2>7. \A j \in Low : j < i => Full(j)'
    BY <1>2, <1>4, PartFacts
  <2> QED
    BY <1>1, <1>3, <2>4, <2>6, <2>7 DEF RingAt, Before, Beyond, Low, Parts
<1> QED
  BY <1>5, <1>6

\* The part behind the newest is given up and is the newest from then on.
LEMMA RotateRing ==
  ASSUME ~failed', TypeOK, SizeInv, OrderInv, NEW c \in Parts, RingAt(c), Rotate
  PROVE  /\ RingAt(NextPart(c))' /\ NextPart(c) \in Parts
         /\ \A q \in Parts : q # NextPart(c) => recs'[q] = recs[q]
<1>0. /\ MaxParts \in 1..255 /\ c \in 0..MaxParts /\ part \in 0..255
      /\ pc = "rotate" /\ log = Closed
  BY PartFacts DEF Parts, TypeOK, SizeInv, Rotate, RotateTo
<1>1. \A j \in Low : Full(j)
  BY <1>0 DEF OrderInv
<1>2. part = c \/ (part = 255 /\ c = MaxParts)
  <2>1. part = c \/ (part = 255 /\ (c \in Low => ~Full(c)))
    BY <1>0 DEF RingAt
  <2>2. c \notin Low => c = MaxParts
    BY <1>0 DEF Low
  <2> QED
    BY <1>1, <2>1, <2>2
<1> DEFINE p == NextPart(c)
<1>3. (IF Next8 > MaxParts THEN 0 ELSE Next8) = p /\ p \in Parts /\ p \in 0..MaxParts
  BY <1>0, <1>2 DEF Next8, NextPart, Parts
<1>4. \A q, r \in Parts \ {p} : Before(q, r, p) <=> Before(q, r, c)
  <2>1. \A q \in Parts \ {p} : q \in 0..MaxParts /\ q # p
    BY DEF Parts
  <2>2. CASE c = MaxParts
    <3>1. p = 0
      BY <2>2 DEF NextPart
    <3> QED
      BY <1>0, <2>1, <2>2, <3>1 DEF Before
  <2>3. CASE c # MaxParts
    <3>1. p = c + 1
      BY <2>3 DEF NextPart
    <3> QED
      BY <1>0, <2>1, <3>1 DEF Before
  <2> QED
    BY <2>2, <2>3
<1> HIDE DEF p
<1>5. RotateTo(p)
  BY <1>3 DEF Rotate
<1>6. /\ exists' = exists \ {p} /\ part' = p /\ log' = Closed /\ pc' = "create"
      /\ \A q \in Parts : /\ size'[q] = IF q = p THEN 0 ELSE size[q]
                          /\ recs'[q] = IF q = p THEN {} ELSE recs[q]
  BY <1>0, <1>3, <1>5 DEF RotateTo, TypeOK, fileVars
<1>7. \A j \in Low : j # p => Full(j)'
  BY <1>1, <1>6, PartFacts DEF Full
<1>8. (\A j \in Low : j < p => Full(j)') /\ (\A j \in Beyond(p) : Full(j)')
  BY <1>3, <1>7, PartFacts DEF Beyond, Low
<1>9. ASSUME NEW q \in Parts, NEW r \in Parts, Before(q, r, p) PROVE Older(recs'[q], recs'[r])
  <2>1. CASE q = p \/ r = p
    BY <1>6, <2>1 DEF Older
  <2>2. CASE q # p /\ r # p
    BY <1>4, <1>6, <1>9, <2>2 DEF RingAt
  <2> QED
    BY <2>1, <2>2
<1>10. RingAt(p)'
  BY <1>3, <1>6, <1>8, <1>9 DEF RingAt, Before, Beyond, Low, Parts
<1> QED
  BY <1>3, <1>6, <1>10 DEF p

\* Of the parts behind the newest, the next one has the oldest records.
LEMMA NextIsOldest ==
  ASSUME NEW c \in Parts, RingAt(c), NEW q \in Parts \ {NextPart(c)}
  PROVE  Older(recs[NextPart(c)], recs[q])
<1>1. MaxParts \in 1..255 /\ c \in 0..MaxParts /\ q \in 0..MaxParts /\ NextPart(c) \in Parts
  BY PartFacts DEF Parts, NextPart
<1>2. Before(NextPart(c), q, c)
  BY <1>1 DEF NextPart, Before
<1> QED
  BY <1>1, <1>2 DEF RingAt

LEMMA InitRing == Init => RingInv
<1> SUFFICES ASSUME Init PROVE RingAt(MaxParts)
  BY PartFacts DEF RingInv, Parts
<1>1. /\ exists = {} /\ log = Closed /\ pc = "new" /\ MaxParts \in 1..255
      /\ \A p \in Parts : recs[p] = {}
  BY PartFacts DEF Init
<1>2. MaxParts \notin Low /\ Beyond(MaxParts) \subseteq Low
  BY <1>1 DEF Low, Beyond
<1>3. \A j \in Beyond(MaxParts) : ~Full(j) /\ recs[j] = {}
  BY <1>1, <1>2, PartFacts DEF Full
<1> QED
  BY <1>1, <1>2, <1>3 DEF RingAt, Older

\* The part that is written to is not full between two calls.
LEMMA CleanupRing ==
  ASSUME TypeOK, SizeInv, OrderInv, NEW c \in Parts, RingAt(c), klog_cleanup \/ CloseFirst
  PROVE  RingAt(c)'
<1>1. Cleanup /\ Flushed /\ pc' \in {"idle", "scan"}
  BY CleanupFlushes DEF klog_cleanup, CloseFirst
<1>2. CASE log = Closed
  <2>1. pc = "idle" /\ pc' = "idle"
    BY <1>2 DEF klog_cleanup, CloseFirst, SizeInv
  <2>2. UNCHANGED <<exists, size, recs, part, log>>
    BY <1>1, <1>2, PartFacts DEF Flushed
  <2>3. \A p \in Parts : recs'[p] = recs[p] /\ (Full(p)' <=> Full(p))
    BY <2>2 DEF Full
  <2> QED
    BY <1>2, <2>1, <2>2, <2>3, QuietRing DEF RingAt
<1>3. CASE log # Closed
  <2>1. pc' = "idle" => ~Full(c)'
    <3> SUFFICES ASSUME pc' = "idle" PROVE ~Full(c)'
      OBVIOUS
    <3>1. /\ pos \in Nat /\ pos < PartSize /\ log = c /\ WriteOut(pos) /\ size \in [Parts -> Nat]
          /\ ~Full(c) /\ c \in exists
      BY <1>1, <1>3 DEF klog_cleanup, CloseFirst, Cleanup, SizeInv, RingAt, OrderInv, TypeOK
    <3>2. size[c] \in Nat /\ size[c] < PartSize /\ PartSize \in Nat
      BY <3>1, PartFacts DEF Full
    <3>3. size'[c] = IF pos > size[c] THEN pos ELSE size[c]
      BY <3>1 DEF WriteOut
    <3> QED
      BY <3>1, <3>2, <3>3 DEF Full
  <2> QED
    BY <1>1, <1>3, <2>1, FlushRing
<1> QED
  BY <1>2, <1>3

LEMMA NextRing ==
  ~failed' /\ IInv /\ OrderInv /\ RingInv /\ [Next]_vars => RingInv'
<1> SUFFICES ASSUME ~failed', IInv, OrderInv, RingInv, [Next]_vars, ~crashed'
             PROVE  \E c \in Parts : RingAt(c)'
  BY DEF RingInv, Parts
<1>0. TypeOK /\ SizeInv
  BY DEF IInv
<1>1. ~crashed /\ ~Crash
  <2>1. ~Crash
    BY DEF Crash
  <2>2. UNCHANGED vars => crashed' = crashed
    BY DEF vars
  <2>3. \A i \in Low : ScanCreate(i) \/ ScanReopen(i) \/ ScanCannotOpen(i) => crashed' = crashed
    BY DEF ScanCreate, ScanReopen, ReopenWith, ScanCannotOpen
  <2>4. Rotate \/ Create \/ Drop => crashed' = crashed
    BY DEF Rotate, RotateTo, Create, Drop
  <2>5. klog_init_file \/ klog_file \/ (\E len \in Lengths : WriteRecord(len)) \/ klog_cleanup
          \/ CloseFirst \/ ScanFindsNone => crashed' = crashed
    BY DEF klog_init_file, klog_file, WriteRecord, klog_cleanup, CloseFirst, Cleanup, ScanFindsNone
  <2> QED
    BY <2>1, <2>2, <2>3, <2>4, <2>5 DEF Next, Low
<1>2. PICK c \in Parts : RingAt(c)
  BY <1>1 DEF RingInv
<1>3. CASE klog_init_file \/ klog_file \/ (\E len \in Lengths : WriteRecord(len)) \/ ScanFindsNone
           \/ Drop \/ UNCHANGED vars
  <2>1. UNCHANGED <<exists, size, recs, log>>
    BY <1>3 DEF klog_init_file, klog_file, WriteRecord, ScanFindsNone, Drop, Forget, vars,
                diskVars, fileVars
  <2>2. \A p \in Parts : recs'[p] = recs[p] /\ (Full(p)' <=> Full(p))
    BY <2>1 DEF Full
  <2>3. CASE klog_init_file
    BY <1>0, <1>2, <2>1, <2>2, <2>3, QuietRing DEF klog_init_file, SizeInv, RingAt
  <2>4. CASE klog_file \/ ScanFindsNone
    BY <1>0, <1>2, <2>1, <2>2, <2>4, QuietRing DEF klog_file, ScanFindsNone, SizeInv, RingAt
  <2>5. CASE \E len \in Lengths : WriteRecord(len)
    <3>1. log # Closed /\ part' = part /\ pc' \in {"close", "idle"}
      BY <1>0, <2>5 DEF WriteRecord, SizeInv
    <3> QED
      BY <1>2, <2>1, <2>2, <3>1, QuietRing DEF RingAt
  <2>6. CASE Drop
    BY <1>2, <2>1, <2>2, <2>6, QuietRing DEF Drop, Forget, RingAt
  <2>7. CASE UNCHANGED vars
    BY <1>2, <2>2, <2>7, QuietRing DEF vars, fileVars, RingAt
  <2> QED
    BY <1>3, <2>3, <2>4, <2>5, <2>6, <2>7
<1>4. CASE klog_cleanup \/ CloseFirst
  BY <1>0, <1>2, <1>4, CleanupRing
<1>5. CASE \E i \in Low : ScanCreate(i) \/ ScanReopen(i) \/ ScanCannotOpen(i)
  <2>1. PICK i \in Low : ScanCreate(i) \/ ScanReopen(i)
    BY <1>5 DEF ScanCannotOpen, ScanStopsAt
  <2>2. RingAt(i)'
    BY <1>0, <1>2, <2>1, ScanRing
  <2> QED
    BY <2>2, PartFacts
<1>6. CASE Rotate
  BY <1>0, <1>2, <1>6, RotateRing
<1>7. CASE Create
  <2>1. /\ exists' = exists \union {part} /\ log' = part /\ part' = part /\ part = c
        /\ pc' \in {"append", "idle"} /\ recs[part] = {} /\ size[part] = 0 /\ part \notin exists
    BY <1>0, <1>2, <1>7, PartFacts DEF Create, Return, SizeInv, OrderInv, RingAt
  <2>2. \A q \in Parts : recs'[q] = recs[q] /\ size'[q] = size[q]
    BY <1>0, <1>7, <2>1 DEF Create, TypeOK
  <2>3. \A q \in Parts : Full(q)' <=> Full(q)
    <3>1. ~(size[part] >= PartSize)
      BY <2>1, PartFacts
    <3>2. \A q \in Parts : Full(q)' <=> (q \in exists \/ q = part) /\ size[q] >= PartSize
      BY <2>1, <2>2 DEF Full
    <3> QED
      BY <3>1, <3>2 DEF Full
  <2> QED
    BY <1>2, <2>1, <2>2, <2>3, PartFacts, QuietRing
<1> QED
  BY <1>1, <1>3, <1>4, <1>5, <1>6, <1>7 DEF Next, Low

\* Until a stat(), fopen() or remove() fails or the process is killed, what a
\* rotation of _next_log_file gives up is older than all that is left.
THEOREM OldestIsGivenUp == Spec => OldestGoes
<1> DEFINE Oldest == ~crashed /\ ~failed' => \A p \in Parts : recs[p] # {} /\ recs'[p] = {} =>
                       \A q \in Parts \ {p} : Older(recs[p], recs[q])
           Kept == ~failed => OrderInv /\ RingInv
<1>1. IInv /\ Kept /\ [Next]_vars => [Oldest]_vars
  <2> SUFFICES ASSUME IInv, OrderInv, RingInv, Next, ~crashed, ~failed', NEW p \in Parts,
                      recs[p] # {}, recs'[p] = {}
               PROVE  \A q \in Parts \ {p} : Older(recs[p], recs[q])
    BY FailedStays
  <2>0. TypeOK /\ SizeInv
    BY DEF IInv
  <2>1. ~Flushed
    BY DEF Flushed
  <2>2. recs' # recs
    OBVIOUS
  <2>3. ~Create
    BY <2>0 DEF Create, OrderInv, TypeOK
  <2>4. Rotate
    BY <2>0, <2>1, <2>2, <2>3, CleanupFlushes, CrashFlushes
       DEF Next, klog_init_file, klog_file, WriteRecord, klog_cleanup, CloseFirst, ScanCreate, ScanReopen,
           ReopenWith, ScanCannotOpen, ScanFindsNone, Drop, diskVars
  <2>5. PICK c \in Parts : RingAt(c)
    BY DEF RingInv
  <2>6. p = NextPart(c)
    BY <2>0, <2>4, <2>5, RotateRing
  <2> QED
    BY <2>5, <2>6, NextIsOldest
<1>2. Init => Kept
  BY InitOrder, InitRing
<1>3. IInv /\ Kept /\ [Next]_vars => Kept'
  BY NextOrder, NextRing, FailedStays
<1> HIDE DEF Oldest, Kept
<1>4. Spec => []Kept
  BY <1>2, <1>3, KlogInvariant, PTL DEF Spec
<1>5. Spec => [][Oldest]_vars
  BY <1>1, <1>4, KlogInvariant, PTL DEF Spec
<1> QED
  BY <1>5 DEF OldestGoes, Oldest
=============================================================================
