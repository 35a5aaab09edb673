--------------------------------- MODULE Klog ---------------------------------
(***************************************************************************)
(* The rotating log of kubos-core/source/modules/klog/klog.c: one handle,  *)
(* used by one thread, over the files <path>.000 ... <path>.<MaxParts>     *)
(* that outlive it.  The steps of a call are separate where a crash of the *)
(* process leaves a different disk behind.  Records are numbered; of a     *)
(* file we keep its size and the records that are complete in it.          *)
(***************************************************************************)
EXTENDS Integers, FiniteSets

CONSTANTS
  MaxParts,    \* config.max_parts.
  PartSize,    \* config.part_size.
  Lengths,     \* Lengths a formatted record may have.
  MaxRecords,  \* Bound: records logged.
  Crashes      \* Whether the process may be killed.

ASSUME KlogAssumption ==
  /\ MaxParts \in 1..255
  /\ PartSize \in Nat \ {0}
  /\ Lengths \subseteq Nat \ {0}
  /\ MaxRecords \in Nat
  /\ Crashes \in BOOLEAN

VARIABLES
  exists,  \* Parts that are on the disk.
  size,    \* size[p]: st_size of part p.
  recs,    \* recs[p]: records complete in part p.
  log,     \* The part handle->log_file has open, or Closed for NULL.
  pos,     \* File position: bytes written to log_file, buffered ones too.
  buf,     \* Records of stdio's buffer, each with the position it ends at.
  part,    \* handle->current_part, 8 bits.
  psize,   \* handle->current_part_size.
  pc,      \* Where the calling thread is.
  call,    \* Which call of _next_log_file it is in.
  logged,  \* Number of the last record written.
  crashed, \* History: the process was killed before.
  failed   \* History: a stat(), fopen() or remove() has failed before.

diskVars == <<exists, size, recs>>
fileVars == <<log, pos, buf>>
vars == <<diskVars, fileVars, part, psize, pc, call, logged, crashed, failed>>

Parts == 0..MaxParts
Closed == -1

\* "new": no handle; "idle": between two calls; the others are steps of
\* klog_file ("append") and of _next_log_file.
Pc == {"new", "idle", "append", "close", "scan", "rotate", "create"}
Call == {"init", "write", "roll"}

Init ==
  /\ exists = {}
  /\ size = [p \in Parts |-> 0]
  /\ recs = [p \in Parts |-> {}]
  /\ log = Closed
  /\ pos = 0
  /\ buf = {}
  /\ part = 0
  /\ psize = 0
  /\ pc = "new"
  /\ call = "init"
  /\ logged = 0
  /\ crashed = FALSE
  /\ failed = FALSE

(***************************************************************************)
(* klog_init_file, klog_file, klog_cleanup.                                *)
(***************************************************************************)

\* klog_init_file: current_part is -1 in 8 bits; then _next_log_file.
klog_init_file ==
  /\ pc = "new"
  /\ part' = 255
  /\ psize' = 0
  /\ call' = "init"
  /\ pc' = "scan"
  /\ UNCHANGED <<diskVars, fileVars, logged, crashed, failed>>

\* klog_file: opens a file first if none is open.
klog_file ==
  /\ pc = "idle"
  /\ logged < MaxRecords
  /\ pc' = IF log = Closed THEN "scan" ELSE "append"
  /\ call' = "write"
  /\ UNCHANGED <<diskVars, fileVars, part, psize, logged, crashed, failed>>

\* _klog, and the next file when this one has reached its size.  fsync()
\* does not touch what stdio still buffers.
WriteRecord(len) ==
  /\ pc = "append"
  /\ pos' = pos + len
  /\ buf' = buf \union {[n |-> logged + 1, end |-> pos + len]}
  /\ logged' = logged + 1
  /\ psize' = psize + len
  /\ IF psize + len >= PartSize THEN pc' = "close" /\ call' = "roll"
                                ELSE pc' = "idle" /\ call' = call
  /\ UNCHANGED <<diskVars, log, part, crashed, failed>>

\* What reaches part log when the first n bytes of it are written out.
WriteOut(n) ==
  /\ size' = [size EXCEPT ![log] = IF n > @ THEN n ELSE @]
  /\ recs' = [recs EXCEPT ![log] = @ \union {b.n : b \in {x \in buf : x.end <= n}}]

\* klog_cleanup: fclose() writes out the buffer.
Cleanup ==
  /\ IF log = Closed THEN UNCHANGED <<size, recs>> ELSE WriteOut(pos)
  /\ log' = Closed
  /\ pos' = 0
  /\ buf' = {}
  /\ UNCHANGED <<exists, part, psize, call, logged, crashed, failed>>

klog_cleanup == pc = "idle" /\ Cleanup /\ pc' = "idle"

(***************************************************************************)
(* _next_log_file.                                                         *)
(***************************************************************************)

CloseFirst == pc = "close" /\ Cleanup /\ pc' = "scan"

\* klog_file goes on to write if it has a file, and gives the record up if
\* it has none; the other callers return.
Return(file) == pc' = IF call = "write" /\ file # Closed THEN "append" ELSE "idle"

Full(p) == p \in exists /\ size[p] >= PartSize

\* A stat() that fails, for another reason than a missing file, passes over
\* its part.
PassedOver(i) == \E j \in 0..i - 1 : ~Full(j)

\* Mutant: the loop stops at any part that is missing or not full.
ScanStopsAnywhere(i, cannotOpen) ==
  pc = "scan" /\ ~Full(i) /\ part' = i /\ failed' = (failed \/ cannotOpen)

\* The loop stops at part i: the first that is missing or not full.
ScanStopsAt(i, cannotOpen) ==
  /\ pc = "scan"
  /\ ~Full(i)
  /\ part' = i
  /\ failed' = (failed \/ cannotOpen \/ PassedOver(i))

\* fopen "w+" of a new file.
ScanCreate(i) ==
  /\ ScanStopsAt(i, FALSE)
  /\ i \notin exists
  /\ exists' = exists \union {i}
  /\ log' = i
  /\ pos' = 0
  /\ psize' = 0
  /\ Return(i)
  /\ UNCHANGED <<size, recs, buf, call, logged, crashed>>

\* fopen "r+" of a partial one.  The position goes to the end, except in a
\* file of a single byte.
ReopenWith(i, n) ==
  /\ ScanStopsAt(i, FALSE)
  /\ i \in exists
  /\ log' = i
  /\ pos' = IF size[i] - 1 = 0 THEN 0 ELSE size[i]
  /\ psize' = n
  /\ Return(i)
  /\ UNCHANGED <<diskVars, buf, call, logged, crashed>>

\* Mutant: current_part_size is not taken from the file.
ReopenForgetsSize(i) == ReopenWith(i, 0)

ScanReopen(i) == ReopenWith(i, size[i])

\* fopen fails; the loop has been left, with log_file still NULL.
ScanCannotOpen(i) ==
  /\ ScanStopsAt(i, TRUE)
  /\ psize' = size[i]
  /\ pc' = "rotate"
  /\ UNCHANGED <<diskVars, fileVars, call, logged, crashed>>

ScanFindsNone ==
  /\ pc = "scan"
  /\ pc' = "rotate"
  /\ failed' = (failed \/ PassedOver(MaxParts))
  /\ UNCHANGED <<diskVars, fileVars, part, psize, call, logged, crashed>>

\* Rotate: remove() the next part.
RotateTo(p) ==
  /\ pc = "rotate"
  /\ part' = p
  /\ \/ /\ exists' = exists \ {p}
        /\ size' = [size EXCEPT ![p] = 0]
        /\ recs' = [recs EXCEPT ![p] = {}]
        /\ UNCHANGED failed
     \/ UNCHANGED diskVars /\ failed' = TRUE
  /\ pc' = "create"
  /\ UNCHANGED <<fileVars, psize, call, logged, crashed>>

\* current_part++ in 8 bits.
Next8 == (part + 1) % 256

\* Mutants: no bound; always the first part.
RotateUnbounded == RotateTo(Next8)
RotateToFirst == RotateTo(0)

Rotate == RotateTo(IF Next8 > MaxParts THEN 0 ELSE Next8)

\* ... and fopen it "w+"; current_part_size stays as it was.
Create ==
  /\ pc = "create"
  /\ \/ /\ exists' = exists \union {part}
        /\ size' = [size EXCEPT ![part] = 0]
        /\ recs' = [recs EXCEPT ![part] = {}]
        /\ log' = part
        /\ pos' = 0
        /\ Return(part)
        /\ UNCHANGED failed
     \/ UNCHANGED <<diskVars, log, pos>> /\ Return(Closed) /\ failed' = TRUE
  /\ UNCHANGED <<buf, part, psize, call, logged, crashed>>

(***************************************************************************)
(* The process.                                                            *)
(***************************************************************************)

Forget == log' = Closed /\ pos' = 0 /\ buf' = {} /\ pc' = "new"

\* The caller is done with a handle it has cleaned up, as telemetry_store is
\* after every packet.
Drop ==
  /\ pc = "idle"
  /\ log = Closed
  /\ Forget
  /\ UNCHANGED <<diskVars, part, psize, call, logged, crashed, failed>>

\* The process is killed: of the buffer any number of bytes was written out.
Crash ==
  /\ Crashes
  /\ pc # "new"
  /\ IF log = Closed THEN UNCHANGED <<size, recs>> ELSE \E n \in 0..pos : WriteOut(n)
  /\ Forget
  /\ crashed' = TRUE
  /\ UNCHANGED <<exists, part, psize, call, logged, failed>>

Next ==
  \/ klog_init_file
  \/ klog_file
  \/ \E len \in Lengths : WriteRecord(len)
  \/ klog_cleanup
  \/ CloseFirst
  \/ \E i \in 0..MaxParts - 1 : ScanCreate(i) \/ ScanReopen(i) \/ ScanCannotOpen(i)
  \/ ScanFindsNone
  \/ Rotate
  \/ Create
  \/ Drop
  \/ Crash

Spec == Init /\ [][Next]_vars

-----------------------------------------------------------------------------

Record == [n : Nat, end : Nat]

\* The types of all variables: klog_handle and the files of klog.c.
TypeOK ==
  /\ exists \in SUBSET Parts
  /\ size \in [Parts -> Nat]
  /\ recs \in [Parts -> SUBSET Nat]
  /\ log \in Parts \union {Closed}
  /\ pos \in Nat
  /\ buf \in SUBSET Record
  /\ part \in 0..255
  /\ psize \in Nat
  /\ pc \in Pc
  /\ call \in Call
  /\ logged \in Nat
  /\ crashed \in BOOLEAN
  /\ failed \in BOOLEAN

\* A part never grows beyond part_size by more than the record that filled
\* it, although current_part_size is only a copy of the file's size, kept
\* across rotations, reopenings and failures of klog.c.
Bounded(n) == \E len \in Lengths \union {1} : n < PartSize + len

FileBounded == \A p \in Parts : Bounded(size[p])

\* a is older than b.
Older(a, b) == \A m \in a, n \in b : m < n

InOrder ==
  \A p, q \in Parts : p # q => Older(recs[p], recs[q]) \/ Older(recs[q], recs[p])

\* The parts never interleave: of any two, all records of one were logged
\* before all records of the other, crashes and restarts included, until a
\* stat(), fopen() or remove() fails.
PartsOrdered == ~failed => InOrder

\* A rotation of _next_log_file gives up the oldest records there are, if the
\* process was never killed, after which current_part starts anew, and no
\* stat(), fopen() or remove() has failed.
OldestGoes ==
  [][~crashed /\ ~failed' => \A p \in Parts : recs[p] # {} /\ recs'[p] = {} =>
       \A q \in Parts \ {p} : Older(recs[p], recs[q])]_vars

-----------------------------------------------------------------------------
\* Why FileBounded holds: current_part_size may run ahead of the file, never
\* behind it, and no call returns with a full file open.
SizeInv ==
  /\ FileBounded
  /\ pc \in {"new", "scan", "rotate", "create"} => log = Closed
  /\ pc \in {"append", "close"} => log # Closed
  /\ log # Closed => pos <= psize /\ Bounded(pos)
  /\ log # Closed /\ pc \in {"idle", "append"} => pos < PartSize
  /\ pc = "create" => part \in Parts

IInv == TypeOK /\ SizeInv

-----------------------------------------------------------------------------
\* Why PartsOrdered holds until a stat(), fopen() or remove() fails: the
\* part that is written to holds the newest records, and a scan stops at no
\* part but the newest one or an empty one.
Low == 0..MaxParts - 1
Newest(p, R) == \A q \in Parts \ {p} : Older(recs[q], R)
Buffered == {b.n : b \in buf}

OrderInv ==
  /\ InOrder
  /\ \A p \in Parts \ exists : size[p] = 0 /\ recs[p] = {}
  /\ \A p \in Parts : \A n \in recs[p] : n <= logged
  /\ \A n \in Buffered : n <= logged
  /\ log = Closed => buf = {}
  /\ log # Closed => /\ log \in exists /\ ~Full(log)
                     /\ Newest(log, recs[log] \union Buffered)
  /\ \A j \in Low : log # Closed /\ j < log => Full(j)
  /\ \A j, k \in Low : ~Full(j) /\ ~Full(k) /\ j < k => recs[k] = {}
  /\ \A j \in Low : ~Full(j) => Newest(j, recs[j])
  /\ pc = "rotate" => \A j \in Low : Full(j)
  /\ pc = "create" => /\ \A j \in Low \ {part} : Full(j)
                      /\ recs[part] = {} /\ part \notin exists

-----------------------------------------------------------------------------
\* Why OldestGoes holds: the parts are a ring, the newest records are in part
\* c, and of the parts behind c the next one has the oldest.
Before(p, q, c) == IF (p <= c) = (q <= c) THEN p < q ELSE q <= c
NextPart(c) == IF c = MaxParts THEN 0 ELSE c + 1
Beyond(c) == {j \in Low : c = MaxParts \/ j > c}

RingAt(c) ==
  /\ \A p, q \in Parts : Before(p, q, c) => Older(recs[p], recs[q])
  /\ c \in Low => \A j \in Low : j < c => Full(j)
  /\ \/ \A j \in Beyond(c) : Full(j)
     \/ \A j \in Beyond(c) : ~Full(j) /\ recs[j] = {}
  /\ log # Closed => log = c /\ part = c
  /\ log = Closed /\ c \in Low /\ pc \in {"new", "idle"} => ~Full(c)
  /\ log = Closed /\ pc \in {"idle", "scan", "rotate"} =>
       part = c \/ (part = 255 /\ (c \in Low => ~Full(c)))
  /\ pc = "create" => part = c

RingInv == ~crashed => \E c \in Parts : RingAt(c)

-----------------------------------------------------------------------------
\* klog.h:71, of max_parts: "Partition count limit".
PartCountLimit == Cardinality(exists) <= MaxParts
=============================================================================
