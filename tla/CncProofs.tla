------------------------------ MODULE CncProofs ------------------------------
(* Theorems of CncSystem, for any clients, commands, connections, buffers  *)
(* and lengths of frames, reads and queues.                                *)
EXTENDS CncSystem, WellFoundedInduction, TLAPS

(***************************************************************************)
(* The pool of buffers.                                                    *)
(***************************************************************************)

\* What induction over the packets of a queue comes to.
LEMMA LeastNat ==
  ASSUME NEW T, T \subseteq Nat, T # {}
  PROVE  \E x \in T : \A y \in T : x <= y
<1>1. IsWellFoundedOn(OpToRel(<, Nat), Nat)
  BY NatLessThanWellFounded, Zenon
<1>2. PICK x \in T : \A y \in T : ~(<<y, x>> \in OpToRel(<, Nat))
  BY <1>1, WFMin, Zenon
<1>3. \A y \in T : ~(y < x)
  BY <1>2, Zenon DEF OpToRel
<1>4. \A y \in T : y \in Nat
  OBVIOUS
<1>5. \A y \in T : x <= y
  BY <1>3, <1>4, SMT
<1> QED
  BY <1>5

\* f[n] is the pool after the first n packets of pkts have been freed.
FreesUpTo(f, p, pkts, m) ==
  f = [n \in 0..m |-> IF n = 0 THEN p ELSE csp_buffer_free(f[n - 1], pkts[n])]

LEMMA FreesExtend ==
  ASSUME NEW p, NEW pkts, NEW m \in Nat, m # 0, NEW f, FreesUpTo(f, p, pkts, m - 1)
  PROVE  \E g : FreesUpTo(g, p, pkts, m)
<1> DEFINE g == [n \in 0..m |-> IF n = m THEN csp_buffer_free(f[m - 1], pkts[m]) ELSE f[n]]
<1>1. \A n \in 0..m - 1 : f[n] = IF n = 0 THEN p ELSE csp_buffer_free(f[n - 1], pkts[n])
  BY DEF FreesUpTo
<1>2. ASSUME NEW n \in 0..m
      PROVE  g[n] = IF n = 0 THEN p ELSE csp_buffer_free(g[n - 1], pkts[n])
  <2>1. CASE n = m
    <3>1. g[n] = csp_buffer_free(f[m - 1], pkts[m]) /\ g[m - 1] = f[m - 1]
      BY <2>1
    <3> QED
      BY <2>1, <3>1
  <2>2. CASE n # m /\ n # 0
    <3>1. n - 1 \in 0..m /\ n - 1 # m /\ n \in 0..m - 1
      BY <2>2
    <3>2. g[n] = f[n] /\ g[n - 1] = f[n - 1]
      BY <2>2, <3>1
    <3> QED
      BY <1>1, <2>2, <3>1, <3>2
  <2>3. CASE n = 0
    <3>1. g[0] = f[0] /\ f[0] = p
      BY <1>1
    <3> QED
      BY <2>3, <3>1
  <2> QED
    BY <2>1, <2>2, <2>3
<1>3. g = [n \in 0..m |-> IF n = 0 THEN p ELSE csp_buffer_free(g[n - 1], pkts[n])]
  BY <1>2
<1> QED
  BY <1>3 DEF FreesUpTo

\* The recursion of FreeAll has a solution, and FreeAll is its last value.
LEMMA FreeAllUnfolds ==
  ASSUME NEW p, NEW pkts, Len(pkts) \in Nat
  PROVE  \E f : FreesUpTo(f, p, pkts, Len(pkts)) /\ FreeAll(p, pkts) = f[Len(pkts)]
<1> DEFINE T == {m \in Nat : ~\E f : FreesUpTo(f, p, pkts, m)}
<1>1. T = {}
  <2> SUFFICES ASSUME T # {} PROVE FALSE
    OBVIOUS
  <2>1. T \subseteq Nat
    OBVIOUS
  <2> HIDE DEF T
  <2>2. PICK m \in T : \A y \in T : m <= y
    BY <2>1, LeastNat
  <2> USE DEF T
  <2>3. \E f : FreesUpTo(f, p, pkts, 0)
    <3> DEFINE f == [n \in 0..0 |-> p]
    <3>1. f = [n \in 0..0 |-> IF n = 0 THEN p ELSE csp_buffer_free(f[n - 1], pkts[n])]
      OBVIOUS
    <3> QED
      BY <3>1 DEF FreesUpTo
  <2>4. m \in Nat /\ m # 0
    BY <2>3
  <2>5. m - 1 \in Nat /\ ~(m <= m - 1)
    BY <2>4
  <2>6. PICK f : FreesUpTo(f, p, pkts, m - 1)
    BY <2>2, <2>5
  <2> QED
    BY <2>4, <2>6, FreesExtend
<1>2. \E f : FreesUpTo(f, p, pkts, Len(pkts))
  BY <1>1
<1> DEFINE g == CHOOSE f : f = [n \in 0..Len(pkts) |->
                              IF n = 0 THEN p ELSE csp_buffer_free(f[n - 1], pkts[n])]
<1>3. FreeAll(p, pkts) = g[Len(pkts)]
  BY DEF FreeAll
<1>4. FreesUpTo(g, p, pkts, Len(pkts))
  BY <1>2, Zenon DEF FreesUpTo
<1> QED
  BY <1>3, <1>4

LEMMA AppendDistinct ==
  ASSUME NEW S, NEW s \in Seq(S), NEW x \in S, IsInjective(s), x \notin ToSet(s)
  PROVE  IsInjective(Append(s, x)) /\ \A y : y \in ToSet(Append(s, x)) <=> y \in ToSet(s) \/ y = x
<1>1. /\ Len(s) \in Nat /\ DOMAIN s = 1..Len(s) /\ DOMAIN Append(s, x) = 1..Len(s) + 1
      /\ Append(s, x)[Len(s) + 1] = x /\ \A i \in 1..Len(s) : Append(s, x)[i] = s[i]
  OBVIOUS
<1>2. \A i \in 1..Len(s) : s[i] # x
  BY <1>1 DEF ToSet
<1>3. IsInjective(Append(s, x))
  BY <1>1, <1>2 DEF IsInjective
<1>4. \A y : y \in ToSet(Append(s, x)) <=> \E i \in 1..Len(s) + 1 : Append(s, x)[i] = y
  BY <1>1 DEF ToSet
<1>5. \A y : y \in ToSet(s) <=> \E i \in 1..Len(s) : s[i] = y
  BY <1>1 DEF ToSet
<1> QED
  BY <1>1, <1>3, <1>4, <1>5

LEMMA TailDistinct ==
  ASSUME NEW S, NEW s \in Seq(S), s # <<>>, IsInjective(s)
  PROVE  IsInjective(Tail(s)) /\ \A y : y \in ToSet(Tail(s)) <=> y \in ToSet(s) /\ y # Head(s)
<1>1. /\ Len(s) \in Nat /\ Len(s) # 0 /\ DOMAIN s = 1..Len(s) /\ DOMAIN Tail(s) = 1..Len(s) - 1
      /\ Head(s) = s[1] /\ \A i \in 1..Len(s) - 1 : Tail(s)[i] = s[i + 1]
  OBVIOUS
<1>2. \A i, j \in 1..Len(s) : s[i] = s[j] => i = j
  BY <1>1 DEF IsInjective
<1>3. IsInjective(Tail(s))
  BY <1>1, <1>2 DEF IsInjective
<1>4. \A y : y \in ToSet(Tail(s)) <=> \E i \in 1..Len(s) - 1 : s[i + 1] = y
  BY <1>1 DEF ToSet
<1>5. \A y : y \in ToSet(s) <=> \E i \in 1..Len(s) : s[i] = y
  BY <1>1 DEF ToSet
<1>6. \A y : (\E i \in 1..Len(s) - 1 : s[i + 1] = y) <=> (\E i \in 1..Len(s) : i # 1 /\ s[i] = y)
  <2> TAKE y
  <2>1. \A i \in 1..Len(s) - 1 : i + 1 \in 1..Len(s) /\ i + 1 # 1
    BY <1>1
  <2>2. \A i \in 1..Len(s) : i # 1 => i - 1 \in 1..Len(s) - 1 /\ (i - 1) + 1 = i
    BY <1>1
  <2> QED
    BY <2>1, <2>2
<1>7. 1 \in 1..Len(s)
  BY <1>1
<1>8. \A y : (\E i \in 1..Len(s) : i # 1 /\ s[i] = y) <=> (\E i \in 1..Len(s) : s[i] = y) /\ y # s[1]
  BY <1>2, <1>7, Zenon
<1>9. Head(s) = s[1]
  BY <1>1
<1> QED
  BY <1>3, <1>4, <1>5, <1>6, <1>8, <1>9, Zenon

LEMMA FreeOK ==
  ASSUME NEW p, PoolOK(p), NEW b \in Buffers
  PROVE  /\ PoolOK(csp_buffer_free(p, b))
         /\ \A x \in Buffers : csp_buffer_free(p, b).ref[x] = IF x = b THEN 0 ELSE p.ref[x]
<1>0. p \in [free : Seq(Buffers), ref : [Buffers -> 0..1]] /\ p.ref[b] \in 0..1
  BY DEF PoolOK
<1>1. CASE p.ref[b] = 0
  <2>1. csp_buffer_free(p, b) = p
    BY <1>1 DEF csp_buffer_free
  <2> QED
    BY <1>1, <2>1
<1>2. CASE p.ref[b] = 1
  <2> DEFINE q == [free |-> Append(p.free, b), ref |-> [p.ref EXCEPT ![b] = 0]]
  <2>1. csp_buffer_free(p, b) = q
    BY <1>2 DEF csp_buffer_free
  <2>2. q.free = Append(p.free, b) /\ q.ref = [p.ref EXCEPT ![b] = 0]
        /\ q \in [free : Seq(Buffers), ref : [Buffers -> 0..1]]
    BY <1>0
  <2>3. b \notin ToSet(p.free)
    BY <1>2 DEF PoolOK
  <2> HIDE DEF q
  <2>4. \A x \in Buffers : q.ref[x] = IF x = b THEN 0 ELSE p.ref[x]
    BY <1>0, <2>2
  <2>5. IsInjective(q.free) /\ \A y : y \in ToSet(q.free) <=> y \in ToSet(p.free) \/ y = b
    <3>1. p.free \in Seq(Buffers) /\ IsInjective(p.free)
      BY DEF PoolOK
    <3> QED
      BY <2>2, <2>3, <3>1, AppendDistinct
  <2>6. \A x \in Buffers : q.ref[x] = 0 <=> x \in ToSet(q.free)
    BY <2>4, <2>5 DEF PoolOK
  <2> QED
    BY <2>1, <2>2, <2>4, <2>5, <2>6 DEF PoolOK
<1> QED
  BY <1>0, <1>1, <1>2

LEMMA TakeOK ==
  ASSUME PoolOK(pool), pool.free # <<>>
  PROVE  /\ Given \in Buffers /\ pool.ref[Given] = 0
         /\ PoolOK(Taken)
         /\ \A x \in Buffers : Taken.ref[x] = IF x = Given THEN 1 ELSE pool.ref[x]
<1>0. pool.free \in Seq(Buffers) /\ IsInjective(pool.free) /\ pool.ref \in [Buffers -> 0..1]
  BY DEF PoolOK
<1>1. Given \in Buffers /\ Given \in ToSet(pool.free)
  BY <1>0 DEF Given, ToSet
<1>2. pool.ref[Given] = 0
  BY <1>1 DEF PoolOK
<1> DEFINE q == [free |-> Tail(pool.free), ref |-> [pool.ref EXCEPT ![Given] = @ + 1]]
<1>3. Taken = q
  BY DEF Taken
<1>4. q.free = Tail(pool.free) /\ q.ref = [pool.ref EXCEPT ![Given] = 1]
      /\ q \in [free : Seq(Buffers), ref : [Buffers -> 0..1]]
  BY <1>0, <1>1, <1>2
<1> HIDE DEF q
<1>5. \A x \in Buffers : q.ref[x] = IF x = Given THEN 1 ELSE pool.ref[x]
  BY <1>0, <1>1, <1>4
<1>6. IsInjective(q.free) /\ \A x : x \in ToSet(q.free) <=> x \in ToSet(pool.free) /\ x # Given
  BY <1>0, <1>4, TailDistinct DEF Given
<1>7. \A x \in Buffers : q.ref[x] = 0 <=> x \in ToSet(q.free)
  BY <1>5, <1>6 DEF PoolOK
<1> QED
  BY <1>1, <1>2, <1>3, <1>4, <1>5, <1>6, <1>7 DEF PoolOK

\* csp_conn_flush_rx_queue frees the buffers of its packets, and no other.
LEMMA FreeAllOK ==
  ASSUME NEW p, PoolOK(p), NEW pkts \in Seq(Buffers)
  PROVE  /\ PoolOK(FreeAll(p, pkts))
         /\ \A x \in Buffers : FreeAll(p, pkts).ref[x] = IF In(pkts, x) # {} THEN 0 ELSE p.ref[x]
<1> DEFINE N == Len(pkts)
           UpTo(x, n) == \E i \in 1..n : pkts[i] = x
<1>0. N \in Nat /\ DOMAIN pkts = 1..N /\ \A i \in 1..N : pkts[i] \in Buffers
  <2> HIDE DEF UpTo
  <2> QED
    OBVIOUS
<1>1. PICK f : FreesUpTo(f, p, pkts, N) /\ FreeAll(p, pkts) = f[N]
  BY <1>0, FreeAllUnfolds
<1>2. \A n \in 0..N : f[n] = IF n = 0 THEN p ELSE csp_buffer_free(f[n - 1], pkts[n])
  BY <1>1 DEF FreesUpTo
<1> DEFINE Right(n) == /\ PoolOK(f[n])
                       /\ \A x \in Buffers : f[n].ref[x] = IF UpTo(x, n) THEN 0 ELSE p.ref[x]
           T == {n \in 0..N : ~Right(n)}
<1> HIDE DEF N
<1>3. T = {}
  <2> SUFFICES ASSUME T # {} PROVE FALSE
    OBVIOUS
  <2>1. T \subseteq Nat
    BY <1>0
  <2> HIDE DEF T
  <2>2. PICK n \in T : \A y \in T : n <= y
    BY <2>1, LeastNat
  <2> USE DEF T
  <2>3. Right(0)
    BY <1>0, <1>2
  <2>4. n \in 1..N /\ ~Right(n)
    BY <1>0, <2>3
  <2>5. n - 1 \in 0..N /\ ~(n <= n - 1)
    BY <1>0, <2>4
  <2>6. Right(n - 1)
    BY <2>2, <2>5
  <2>7. f[n] = csp_buffer_free(f[n - 1], pkts[n]) /\ pkts[n] \in Buffers
    BY <1>0, <1>2, <2>4
  <2>8. \A x \in Buffers : UpTo(x, n) <=> UpTo(x, n - 1) \/ x = pkts[n]
    BY <1>0, <2>4
  <2> HIDE DEF UpTo, T
  <2>9. /\ PoolOK(f[n])
        /\ \A x \in Buffers : f[n].ref[x] = IF x = pkts[n] THEN 0 ELSE f[n - 1].ref[x]
    <3>1. PoolOK(f[n - 1]) /\ pkts[n] \in Buffers /\ f[n] = csp_buffer_free(f[n - 1], pkts[n])
      BY <2>6, <2>7
    <3>2. /\ PoolOK(csp_buffer_free(f[n - 1], pkts[n]))
          /\ \A x \in Buffers : csp_buffer_free(f[n - 1], pkts[n]).ref[x]
                                 = IF x = pkts[n] THEN 0 ELSE f[n - 1].ref[x]
      BY <3>1, FreeOK, Zenon
    <3> QED
      BY <3>1, <3>2, Zenon
  <2>10. Right(n)
    BY <2>6, <2>8, <2>9
  <2> QED
    BY <2>4, <2>10
<1>4. Right(N)
  BY <1>0, <1>3
<1>5. \A x : UpTo(x, N) <=> In(pkts, x) # {}
  BY <1>0 DEF In
<1> QED
  BY <1>1, <1>4, <1>5 DEF N

(***************************************************************************)
(* CoreInv: the types, the pool and the connections.                       *)
(***************************************************************************)

Entry == [open : BOOLEAN, port : Ports \union {NoPort}, rx : Seq(Buffers),
          post : {"never", "due", "done"}]

PoolTypes(p) == p \in [free : Seq(Buffers), ref : [Buffers -> 0..1]]

LEMMA PoolTyped == ASSUME NEW p, PoolOK(p) PROVE PoolTypes(p)
  BY DEF PoolOK, PoolTypes

\* What csp_close does to the entry and the buffers of connection s.
LEMMA CloseOK ==
  ASSUME NEW s \in Slots, conn \in [Slots -> Entry], NEW p, PoolOK(p), csp_close(s, p)
  PROVE  /\ PoolOK(pool') /\ conn' \in [Slots -> Entry]
         /\ \A x \in Buffers :
              pool'.ref[x] = IF conn[s].open /\ In(conn[s].rx, x) # {} THEN 0 ELSE p.ref[x]
         /\ \A t \in Slots \ {s} : conn'[t] = conn[t]
         /\ ~conn'[s].open /\ conn'[s].post = conn[s].post
         /\ conn'[s].rx = IF conn[s].open THEN <<>> ELSE conn[s].rx
<1>0. conn[s] \in Entry /\ conn[s].open \in BOOLEAN /\ conn[s].rx \in Seq(Buffers)
  BY DEF Entry
<1>1. CASE conn[s].open
  <2>1. pool' = FreeAll(p, conn[s].rx) /\ conn' = [conn EXCEPT ![s] = [@ EXCEPT !.open = FALSE, !.rx = <<>>]]
    BY <1>1 DEF csp_close, Closed
  <2>2. <<>> \in Seq(Buffers)
    OBVIOUS
  <2> DEFINE e == [conn[s] EXCEPT !.open = FALSE, !.rx = <<>>]
  <2>3. e \in Entry /\ e.open = FALSE /\ e.post = conn[s].post /\ e.rx = <<>>
    BY <1>0, <2>2 DEF Entry
  <2> HIDE DEF e
  <2>4. conn' = [conn EXCEPT ![s] = e]
    BY <1>0, <2>1 DEF e
  <2>5. conn' \in [Slots -> Entry]
    BY <2>3, <2>4
  <2>6. /\ \A t \in Slots \ {s} : conn'[t] = conn[t]
        /\ ~conn'[s].open /\ conn'[s].post = conn[s].post /\ conn'[s].rx = <<>>
    BY <2>3, <2>4
  <2> QED
    BY <1>0, <1>1, <2>1, <2>5, <2>6, FreeAllOK
<1>2. CASE ~conn[s].open
  BY <1>2 DEF csp_close
<1> QED
  BY <1>0, <1>1, <1>2

\* What csp_conn_new does to them.
LEMMA OpenOK ==
  ASSUME NEW s \in Slots, conn \in [Slots -> Entry], NEW p, PoolOK(p),
         NEW port \in Ports \union {NoPort}, NEW post \in {"never", "due", "done"},
         pool' = FreeAll(p, conn[s].rx), conn' = Opened(s, port, post)
  PROVE  /\ PoolOK(pool') /\ conn' \in [Slots -> Entry]
         /\ \A x \in Buffers : pool'.ref[x] = IF In(conn[s].rx, x) # {} THEN 0 ELSE p.ref[x]
         /\ \A t \in Slots \ {s} : conn'[t] = conn[t]
         /\ conn'[s] = [open |-> TRUE, port |-> port, rx |-> <<>>, post |-> post]
<1>1. conn[s].rx \in Seq(Buffers)
  BY DEF Entry
<1>2. [open |-> TRUE, port |-> port, rx |-> <<>>, post |-> post] \in Entry
  BY DEF Entry
<1>3. conn' = [conn EXCEPT ![s] = [open |-> TRUE, port |-> port, rx |-> <<>>, post |-> post]]
  BY DEF Opened
<1> QED
  BY <1>1, <1>2, <1>3, FreeAllOK

\* The variables of the clients, and those of the daemon behind its node.
ClientTypes ==
  /\ cl \in [Clients -> ClientState]
  /\ inq \in [Clients -> Seq(Replies \union {Noise})]
  /\ inbox \in [Clients -> Seq(Replies \union {Noise})]
  /\ shown \in [Clients -> Replies \union {NoReply}]
  /\ asked \in [Clients -> Requests \union {NoRequest}]
  /\ crossed \in BOOLEAN
  /\ \A c \in Clients : cl[c] # "idle" => asked[c] \in Requests /\ asked[c].from = c

MainTypes ==
  /\ main \in Main
  /\ held \in Slots \union {NoSlot}
  /\ request \in Requests \union {Noise}
  /\ err \in BOOLEAN
  /\ reply \in Replies \union {NoReply}
  /\ out \in Buffers \union {NoBuf}
  /\ runs \in [Clients -> Nat]
  /\ main \in {"send", "release"} => out \in Buffers
  /\ main = "running" => request \in Requests
  /\ main \in {"respond", "send"} => reply \in Replies

NodeTypes ==
  /\ rx \in [at : {"off", "get", "read", "ended"}, buf : Buffers \union {NoBuf}]
  /\ qfifo \in Seq(Buffers)
  /\ route \in [at : {"idle", "enqueue", "post"}, pkt : Buffers \union {NoBuf},
                slot : Slots \union {NoSlot}]
  /\ conn \in [Slots -> Entry]
  /\ socket \in {"none", "bound", "listening"}
  /\ accepts \in Seq(Slots)
  /\ rx.at = "read" => rx.buf \in Buffers
  /\ route.at = "enqueue" => route.pkt \in Buffers

UpTypes == up \in Seq([msg : Requests, at : 1..RequestSize])
DownTypes == down \in Seq([msg : Replies \union {Noise}, at : Nat])
MemTypes == /\ mem \in [Buffers -> Requests \union {Noise, Answer}]
            /\ again \in SUBSET Clients /\ twice \in SUBSET Buffers

Parts == /\ UpTypes /\ DownTypes /\ NodeTypes /\ MainTypes /\ ClientTypes
         /\ PoolOK(pool) /\ ConnInv

LEMMA CoreParts == CoreInv <=> Parts /\ MemTypes
<1>1. PoolOK(pool) => PoolTypes(pool)
  BY PoolTyped
<1> QED
  BY <1>1 DEF CoreInv, Parts, TypeOK, CspTypeOK, UpTypes, DownTypes, NodeTypes, MainTypes, ClientTypes,
              MemTypes, PoolTypes, Entry

LEMMA CorePartsNext == CoreInv' <=> Parts' /\ MemTypes'
BY CoreParts, PTL

LEMMA InitCore == Init => CoreInv
<1> SUFFICES ASSUME Init PROVE Parts /\ MemTypes
  BY CoreParts
<1> USE DEF Init, DaemonInit, CspInit
<1>1. UpTypes /\ DownTypes /\ NodeTypes
  <2>1. [s \in Slots |-> [open |-> FALSE, port |-> NoPort, rx |-> <<>>, post |-> "never"]]
          \in [Slots -> Entry]
    BY DEF Entry
  <2>2. route \in [at : {"idle", "enqueue", "post"}, pkt : Buffers \union {NoBuf},
                   slot : Slots \union {NoSlot}]
    BY DEF Idle
  <2>3. rx \in [at : {"off", "get", "read", "ended"}, buf : Buffers \union {NoBuf}] /\ rx.at = "off"
    OBVIOUS
  <2>4. up = <<>> /\ down = <<>> /\ qfifo = <<>> /\ accepts = <<>> /\ route.at = "idle"
    BY DEF Idle
  <2>5. socket = "none" /\ conn = [s \in Slots |-> [open |-> FALSE, port |-> NoPort, rx |-> <<>>, post |-> "never"]]
    OBVIOUS
  <2> HIDE DEF Init, DaemonInit, CspInit
  <2>6. UpTypes /\ DownTypes
    BY <2>4 DEF UpTypes, DownTypes
  <2>7. qfifo \in Seq(Buffers) /\ accepts \in Seq(Slots) /\ conn \in [Slots -> Entry]
    <3>1. <<>> \in Seq(Buffers) /\ <<>> \in Seq(Slots)
      OBVIOUS
    <3>2. conn \in [Slots -> Entry]
      BY <2>1, <2>5, Zenon
    <3> QED
      BY <2>4, <3>1, <3>2
  <2>8. socket \in {"none", "bound", "listening"} /\ ~(rx.at = "read") /\ ~(route.at = "enqueue")
    BY <2>3, <2>4, <2>5
  <2>9. NodeTypes
    BY <2>2, <2>3, <2>7, <2>8 DEF NodeTypes
  <2> QED
    BY <2>6, <2>9
<1>2. MainTypes /\ ClientTypes
  <2>1. crossed \in BOOLEAN /\ err \in BOOLEAN
    OBVIOUS
  <2>2. MainTypes
    BY <2>1 DEF MainTypes, Main
  <2>3. ClientTypes
    BY <2>1 DEF ClientTypes, ClientState
  <2> QED
    BY <2>2, <2>3
<1>3. PoolOK(pool)
  <2> DEFINE f == [i \in Buffers |-> i]
             r == [b \in Buffers |-> 0]
  <2>1. pool.free = f /\ pool.ref = r /\ pool = [free |-> f, ref |-> r]
    OBVIOUS
  <2>2. f \in Seq(Buffers) /\ IsInjective(f) /\ DOMAIN f = Buffers /\ \A b \in Buffers : f[b] = b
    BY CspAssumption DEF Buffers, IsInjective
  <2>3. r \in [Buffers -> 0..1] /\ \A b \in Buffers : r[b] = 0
    OBVIOUS
  <2> HIDE DEF f, r
  <2>4. \A b \in Buffers : b \in ToSet(f)
    BY <2>2 DEF ToSet
  <2> QED
    BY <2>1, <2>2, <2>3, <2>4 DEF PoolOK
<1>4. ConnInv
  <2>1. ToSet(accepts) = {} /\ IsInjective(accepts)
    BY DEF ToSet, IsInjective
  <2> QED
    BY <2>1 DEF ConnInv, Idle
<1>5. MemTypes
  <2>1. mem = [b \in Buffers |-> Noise] /\ again = {} /\ twice = {}
    OBVIOUS
  <2> HIDE DEF Init, DaemonInit, CspInit
  <2> QED
    BY <2>1 DEF MemTypes
<1> QED
  BY <1>1, <1>2, <1>3, <1>4, <1>5 DEF Parts

(* The FIFOs. *)

LEMMA FrameType ==
  ASSUME NEW M, NEW m \in M, m.size \in Nat \ {0}, NEW N, 1..m.size \subseteq N
  PROVE  Frame(m) \in Seq([msg : M, at : N])
<1> DEFINE S == [msg : M, at : N]
           n == m.size
           cell(i) == [msg |-> m, at |-> i]
<1>1. \A i \in 1..n : cell(i) \in S
  OBVIOUS
<1>2. Frame(m) = [i \in 1..n |-> cell(i)] /\ n \in Nat
  BY DEF Frame
<1> HIDE DEF S, n, cell
<1>3. [i \in 1..n |-> cell(i)] \in Seq(S)
  BY <1>1, <1>2
<1> QED
  BY <1>2, <1>3 DEF S

LEMMA UnreadFacts ==
  ASSUME NEW S, NEW q \in Seq(S), q # <<>>
  PROVE  /\ Unread(q) \in Seq(S) /\ Head(q) \in S /\ Head(q) = q[1] /\ 1 \in DOMAIN q
         /\ \A i \in DOMAIN Unread(q) :
              i + ReadSize \in DOMAIN q /\ i + ReadSize # 1 /\ Unread(q)[i] = q[i + ReadSize] /\ i \in Nat
<1>0. ReadSize \in Nat \ {0} /\ Len(q) \in Nat \ {0} /\ DOMAIN q = 1..Len(q)
  BY CspAssumption
<1>1. \A i \in ReadSize + 1..Len(q) : i \in 1..Len(q)
  BY <1>0
<1>2. Unread(q) \in Seq(S)
  BY <1>0, <1>1 DEF Unread
<1>3. /\ DOMAIN Unread(q) = 1..(IF ReadSize + 1 <= Len(q) THEN Len(q) - ReadSize ELSE 0)
      /\ \A i \in DOMAIN Unread(q) : Unread(q)[i] = q[i + ReadSize]
  <2>1. CASE ReadSize + 1 <= Len(q)
    BY <1>0, <2>1 DEF Unread
  <2>2. CASE ~(ReadSize + 1 <= Len(q))
    <3>1. Unread(q) = <<>>
      BY <1>0, <2>2 DEF Unread
    <3> QED
      BY <2>2, <3>1
  <2> QED
    BY <2>1, <2>2
<1> QED
  BY <1>0, <1>2, <1>3

LEMMA RxCore ==
  ASSUME Parts, RxStep
  PROVE  Parts'
<1>0. Parts /\ UNCHANGED <<main, held, request, err, reply, out, runs, down>> /\ UNCHANGED clientVars
      /\ UNCHANGED <<crossed, route, conn, socket, accepts>>
  BY DEF RxStep, RxThread, RxGet, RxRead, daemonVars
<1>1. DownTypes' /\ MainTypes' /\ ClientTypes' /\ ConnInv'
  BY <1>0 DEF Parts, DownTypes, MainTypes, ClientTypes, ConnInv, clientVars
<1>2. CASE RxGet
  <2>1. up' = up /\ qfifo' = qfifo
    BY <1>2 DEF RxGet
  <2>2. PoolOK(pool') /\ rx' \in [at : {"off", "get", "read", "ended"}, buf : Buffers \union {NoBuf}]
        /\ (rx'.at = "read" => rx'.buf \in Buffers)
    <3>1. CASE pool.free = <<>>
      BY <1>0, <1>2, <3>1 DEF RxGet, Parts
    <3>2. CASE pool.free # <<>>
      <4>1. rx' = [at |-> "read", buf |-> Given] /\ pool' = Taken
        BY <1>2, <3>2 DEF RxGet
      <4>2. Given \in Buffers /\ PoolOK(Taken)
        BY <1>0, <3>2, TakeOK DEF Parts
      <4> QED
        BY <4>1, <4>2
    <3> QED
      BY <3>1, <3>2
  <2>3. UpTypes' /\ NodeTypes'
    BY <1>0, <2>1, <2>2 DEF Parts, UpTypes, NodeTypes
  <2> QED
    BY <1>1, <2>2, <2>3 DEF Parts, PoolOK
<1>3. CASE RxRead
  <2>1. /\ up # <<>> /\ up' = Unread(up) /\ pool' = pool
        /\ qfifo' = Append(qfifo, rx.buf)
        /\ rx' = [at |-> "get", buf |-> NoBuf] /\ rx.buf \in Buffers
    BY <1>0, <1>3 DEF RxRead, Parts, NodeTypes
  <2>2. up' \in Seq([msg : Requests, at : 1..RequestSize])
    BY <1>0, <2>1, UnreadFacts DEF Parts, UpTypes
  <2>5. qfifo' \in Seq(Buffers)
    BY <1>0, <2>1 DEF Parts, NodeTypes
  <2>6. NodeTypes' /\ UpTypes'
    BY <1>0, <2>1, <2>2, <2>5 DEF Parts, NodeTypes, UpTypes
  <2> QED
    BY <1>0, <1>1, <2>1, <2>6 DEF Parts, PoolOK
<1> QED
  BY <1>2, <1>3 DEF RxStep, RxThread

(* The router. *)

RouterTakes(pkt) ==
  /\ route.at = "idle" /\ qfifo # <<>> /\ pkt = Head(qfifo) /\ pkt \in Buffers /\ qfifo' = Tail(qfifo)
  /\ UNCHANGED <<up, mem, rx, socket, accepts>>

Drops(pkt) == pool' = csp_buffer_free(pool, pkt) /\ UNCHANGED <<route, conn>>

Matches(pkt, s) ==
  /\ conn[s].open /\ route' = [at |-> "enqueue", pkt |-> pkt, slot |-> s]
  /\ UNCHANGED <<pool, conn>>

OpensNew(pkt, s, port, post) ==
  /\ ~conn[s].open /\ pool' = FreeAll(pool, conn[s].rx) /\ conn' = Opened(s, port, post)
  /\ route' = [at |-> "enqueue", pkt |-> pkt, slot |-> s]

LEMMA RouteTakeCases ==
  ASSUME NodeTypes, MemTypes, RouteTake
  PROVE  \E pkt : /\ RouterTakes(pkt)
                  /\ \/ Drops(pkt)
                     \/ \E s \in Slots : Matches(pkt, s)
                     \/ \E s \in Slots, port \in Ports, post \in {"due", "never"} :
                          OpensNew(pkt, s, port, post)
<1> DEFINE pkt == Head(qfifo)
<1>1. /\ route.at = "idle" /\ qfifo # <<>> /\ qfifo' = Tail(qfifo)
      /\ UNCHANGED <<up, mem, rx, socket, accepts>>
      /\ IF Contents(pkt) = Noise THEN RouteDrop(pkt) \/ \E port \in Ports : RouteTo(pkt, port)
                                  ELSE RouteTo(pkt, mem[pkt].port)
  BY DEF RouteTake, memVars
<1>2. pkt \in Buffers
  BY <1>1 DEF NodeTypes
<1>3. Contents(pkt) # Noise => mem[pkt].port \in Ports
  BY <1>2 DEF MemTypes, Contents, Requests
<1>4. RouterTakes(pkt)
  BY <1>1, <1>2 DEF RouterTakes
<1> HIDE DEF pkt
<1>5. CASE RouteDrop(pkt)
  BY <1>4, <1>5 DEF RouteDrop, Drops
<1>6. ASSUME NEW port \in Ports, RouteTo(pkt, port)
      PROVE  \/ Drops(pkt)
             \/ \E s \in Slots : Matches(pkt, s)
             \/ \E s \in Slots, q \in Ports, post \in {"due", "never"} : OpensNew(pkt, s, q, post)
  <2>1. CASE \E s \in Matching(port) :
               /\ route' = [at |-> "enqueue", pkt |-> pkt, slot |-> s]
               /\ UNCHANGED <<pool, conn>>
    BY <2>1 DEF Matching, Matches
  <2>2. CASE \E s \in FreeSlots :
               /\ pool' = FreeAll(pool, conn[s].rx)
               /\ conn' = Opened(s, port, IF socket = "listening" THEN "due" ELSE "never")
               /\ route' = [at |-> "enqueue", pkt |-> pkt, slot |-> s]
    <3> DEFINE post == IF socket = "listening" THEN "due" ELSE "never"
    <3>1. post \in {"due", "never"}
      OBVIOUS
    <3>2. PICK s \in Slots : OpensNew(pkt, s, port, post)
      BY <2>2 DEF FreeSlots, OpensNew
    <3> QED
      BY <3>1, <3>2
  <2>3. CASE RouteDrop(pkt)
    BY <2>3 DEF RouteDrop, Drops
  <2> QED
    BY <1>6, <2>1, <2>2, <2>3 DEF RouteTo
<1> QED
  BY <1>1, <1>3, <1>4, <1>5, <1>6

LEMMA RouterFrame ==
  ASSUME Parts, RouterStep
  PROVE  /\ UNCHANGED <<up, mem, again, rx, socket, main, held, request, err, reply, out, runs, down, twice>>
         /\ UNCHANGED clientVars /\ crossed' = crossed
         /\ UpTypes' /\ DownTypes' /\ MainTypes' /\ ClientTypes'
<1>1. /\ UNCHANGED <<up, mem, again, rx, socket, main, held, request, err, reply, out, runs, down, twice>>
      /\ UNCHANGED clientVars /\ crossed' = crossed
  BY DEF RouterStep, Router, RouteTake, RouteEnqueue, RoutePost, daemonVars, memVars
<1> QED
  BY <1>1 DEF Parts, UpTypes, DownTypes, MainTypes, ClientTypes, clientVars

LEMMA RouteTakeCore ==
  ASSUME Parts, MemTypes, RouterStep, RouteTake
  PROVE  NodeTypes' /\ PoolOK(pool') /\ ConnInv'
<1>0. NodeTypes /\ PoolOK(pool) /\ ConnInv
  BY DEF Parts
<1>1. PICK pkt : /\ RouterTakes(pkt)
                 /\ \/ Drops(pkt)
                    \/ \E s \in Slots : Matches(pkt, s)
                    \/ \E s \in Slots, port \in Ports, post \in {"due", "never"} :
                         OpensNew(pkt, s, port, post)
  BY <1>0, RouteTakeCases
<1>2. /\ route.at = "idle" /\ pkt \in Buffers /\ qfifo' \in Seq(Buffers)
      /\ UNCHANGED <<up, rx, socket, accepts, main, held>>
  BY <1>0, <1>1, RouterFrame DEF RouterTakes, NodeTypes
<1>3. CASE Drops(pkt)
  BY <1>0, <1>2, <1>3, FreeOK DEF Drops, NodeTypes, ConnInv
<1>4. ASSUME NEW s \in Slots, Matches(pkt, s) PROVE NodeTypes' /\ PoolOK(pool') /\ ConnInv'
  <2>1. /\ route' = [at |-> "enqueue", pkt |-> pkt, slot |-> s] /\ pool' = pool /\ conn' = conn
        /\ conn[s].open
    BY <1>4 DEF Matches
  <2>2. NodeTypes'
    BY <1>0, <1>2, <2>1 DEF NodeTypes
  <2>3. ConnInv'
    BY <1>0, <1>2, <2>1 DEF ConnInv
  <2> QED
    BY <1>0, <2>1, <2>2, <2>3
<1>5. ASSUME NEW s \in Slots, NEW port \in Ports, NEW post \in {"due", "never"},
             OpensNew(pkt, s, port, post)
      PROVE  NodeTypes' /\ PoolOK(pool') /\ ConnInv'
  <2>1. /\ route' = [at |-> "enqueue", pkt |-> pkt, slot |-> s] /\ ~conn[s].open
        /\ PoolOK(pool') /\ conn' \in [Slots -> Entry]
        /\ \A t \in Slots \ {s} : conn'[t] = conn[t]
        /\ conn'[s] = [open |-> TRUE, port |-> port, rx |-> <<>>, post |-> post]
    <3>1. port \in Ports \union {NoPort} /\ post \in {"never", "due", "done"}
      OBVIOUS
    <3>2. /\ conn \in [Slots -> Entry] /\ PoolOK(pool) /\ conn' = Opened(s, port, post)
          /\ pool' = FreeAll(pool, conn[s].rx) /\ ~conn[s].open
          /\ route' = [at |-> "enqueue", pkt |-> pkt, slot |-> s]
      BY <1>0, <1>5 DEF OpensNew, NodeTypes
    <3> QED
      BY <3>1, <3>2, OpenOK
  <2>2. NodeTypes'
    <3>1. /\ route' \in [at : {"idle", "enqueue", "post"}, pkt : Buffers \union {NoBuf},
                         slot : Slots \union {NoSlot}]
          /\ route'.pkt \in Buffers
      BY <1>2, <2>1
    <3>2. conn' \in [Slots -> Entry]
      BY <2>1
    <3> QED
      BY <1>0, <1>2, <3>1, <3>2 DEF NodeTypes
  <2>3. /\ conn'[s].open /\ conn'[s].post = post /\ conn'[s].port # NoPort /\ post # "done"
        /\ s # held /\ s \notin ToSet(accepts) /\ NoSlot \notin Slots
    <3>1. s # held /\ s \notin ToSet(accepts)
      BY <1>0, <2>1, CspAssumption DEF ConnInv
    <3>2. port # NoPort
      BY CspAssumption
    <3> QED
      BY <2>1, <3>1, <3>2, CspAssumption
  <2>4. ToSet(accepts) \subseteq Slots
    BY <1>0 DEF NodeTypes, ToSet
  <2>5. ConnInv'
    BY <1>0, <1>2, <2>1, <2>3, <2>4 DEF ConnInv
  <2> QED
    BY <2>1, <2>2, <2>5
<1> QED
  BY <1>1, <1>3, <1>4, <1>5

LEMMA RouteEnqueueCore ==
  ASSUME Parts, RouterStep, RouteEnqueue
  PROVE  NodeTypes' /\ PoolOK(pool') /\ ConnInv'
<1>0. NodeTypes /\ PoolOK(pool) /\ ConnInv
  BY DEF Parts
<1> DEFINE s == route.slot
           e == [conn[s] EXCEPT !.rx = Append(@, route.pkt)]
<1>1. /\ route.at = "enqueue" /\ s \in Slots /\ route.pkt \in Buffers /\ conn \in [Slots -> Entry]
      /\ UNCHANGED <<up, pool, rx, qfifo, socket, accepts, main, held>>
      /\ route' = IF conn[s].post = "due" THEN [at |-> "post", pkt |-> NoBuf, slot |-> s] ELSE Idle
      /\ conn' = [conn EXCEPT ![s] = e]
  <2>1. conn' = [conn EXCEPT ![route.slot].rx = Append(@, route.pkt)]
    BY DEF RouteEnqueue
  <2>2. conn' = [conn EXCEPT ![s] = e]
    BY <2>1
  <2> QED
    BY <1>0, <2>2, RouterFrame DEF RouteEnqueue, NodeTypes, ConnInv
<1>2. conn[s] \in Entry /\ conn[s].rx \in Seq(Buffers)
  BY <1>1 DEF Entry
<1>3. /\ e.rx \in Seq(Buffers) /\ e.rx # <<>> /\ e.open = conn[s].open /\ e.port = conn[s].port
      /\ e.post = conn[s].post /\ e \in Entry
  <2> DEFINE q == Append(conn[s].rx, route.pkt)
  <2>1. q \in Seq(Buffers) /\ q # <<>>
    BY <1>1, <1>2
  <2>2. e = [conn[s] EXCEPT !.rx = q]
    OBVIOUS
  <2> HIDE DEF q, e
  <2> QED
    BY <1>2, <2>1, <2>2 DEF Entry
<1> HIDE DEF e
<1>4. conn' \in [Slots -> Entry] /\ conn'[s] = e /\ \A t \in Slots \ {s} : conn'[t] = conn[t]
  BY <1>1, <1>3
<1>5. /\ \A t \in Slots : conn'[t].open = conn[t].open /\ conn'[t].post = conn[t].post
                          /\ conn'[t].port = conn[t].port
      /\ \A t \in Slots : conn[t].rx # <<>> => conn'[t].rx # <<>>
  BY <1>3, <1>4
<1>6. ToSet(accepts) \subseteq Slots
  BY <1>0 DEF NodeTypes, ToSet
<1>7. NodeTypes'
  BY <1>0, <1>1, <1>4 DEF NodeTypes, Idle
<1>8. CASE conn[s].post = "due"
  <2>1. route'.at = "post" /\ route'.slot = s
    BY <1>1, <1>8
  <2>2. conn'[s].rx # <<>> /\ conn'[s].post = "due"
    BY <1>3, <1>4, <1>8
  <2> QED
    BY <1>0, <1>1, <1>5, <1>6, <1>7, <1>8, <2>1, <2>2 DEF ConnInv
<1>9. CASE conn[s].post # "due"
  <2>1. route'.at = "idle"
    BY <1>1, <1>9 DEF Idle
  <2> QED
    BY <1>0, <1>1, <1>5, <1>6, <1>7, <1>9, <2>1 DEF ConnInv
<1> QED
  BY <1>8, <1>9

LEMMA RoutePostCore ==
  ASSUME Parts, RouterStep, RoutePost
  PROVE  NodeTypes' /\ PoolOK(pool') /\ ConnInv'
<1>0. NodeTypes /\ PoolOK(pool) /\ ConnInv
  BY DEF Parts
<1> DEFINE s == route.slot
<1>1. /\ route.at = "post" /\ s \in Slots /\ conn[s].post = "due" /\ conn[s].rx # <<>> /\ conn[s].open
      /\ conn \in [Slots -> Entry] /\ conn[s] \in Entry /\ accepts \in Seq(Slots)
      /\ UNCHANGED <<up, rx, qfifo, socket, main, held>>
      /\ route' = Idle
  BY <1>0, RouterFrame DEF RoutePost, NodeTypes, ConnInv
<1>2. s # held /\ s \notin ToSet(accepts)
  BY <1>0, <1>1, CspAssumption DEF ConnInv
<1>3. ToSet(accepts) \subseteq Slots
  BY <1>0 DEF NodeTypes, ToSet
<1>4. CASE Len(accepts) < ListenQueue
  <2> DEFINE e == [conn[s] EXCEPT !.post = "done"]
  <2>1. accepts' = Append(accepts, s) /\ pool' = pool /\ conn' = [conn EXCEPT ![s].post = "done"]
    BY <1>4 DEF RoutePost
  <2>2. conn' = [conn EXCEPT ![s] = e]
    BY <2>1
  <2>3. e.open /\ e.rx = conn[s].rx /\ e.post = "done" /\ e \in Entry
    BY <1>1 DEF Entry
  <2> HIDE DEF e
  <2>4. conn' \in [Slots -> Entry] /\ conn'[s] = e /\ \A t \in Slots \ {s} : conn'[t] = conn[t]
    BY <1>1, <2>2, <2>3
  <2>5. IsInjective(accepts') /\ \A t : t \in ToSet(accepts') <=> t \in ToSet(accepts) \/ t = s
    BY <1>0, <1>1, <1>2, <2>1, AppendDistinct DEF ConnInv
  <2>6. NodeTypes'
    BY <1>0, <1>1, <2>1, <2>4 DEF NodeTypes, Idle
  <2>7. ConnInv'
    BY <1>0, <1>1, <1>2, <1>3, <2>3, <2>4, <2>5 DEF ConnInv, Idle
  <2> QED
    BY <1>0, <2>1, <2>6, <2>7
<1>5. CASE ~(Len(accepts) < ListenQueue)
  <2>1. csp_close(s, pool) /\ accepts' = accepts
    BY <1>5 DEF RoutePost
  <2>2. /\ PoolOK(pool') /\ conn' \in [Slots -> Entry] /\ ~conn'[s].open
        /\ \A t \in Slots \ {s} : conn'[t] = conn[t]
    BY <1>0, <1>1, <2>1, CloseOK
  <2>3. NodeTypes'
    BY <1>0, <1>1, <2>1, <2>2 DEF NodeTypes, Idle
  <2>4. ConnInv'
    BY <1>0, <1>1, <1>2, <1>3, <2>1, <2>2 DEF ConnInv, Idle
  <2> QED
    BY <2>2, <2>3, <2>4
<1> QED
  BY <1>4, <1>5

LEMMA RouterCore ==
  ASSUME Parts, MemTypes, RouterStep
  PROVE  Parts'
<1>2. NodeTypes' /\ PoolOK(pool') /\ ConnInv'
  BY RouteTakeCore, RouteEnqueueCore, RoutePostCore DEF RouterStep, Router
<1>3. PoolOK(pool)'
  BY <1>2 DEF PoolOK
<1> QED
  BY <1>2, <1>3, RouterFrame DEF Parts

(* The thread main. *)

LEMMA ResponseType ==
  ASSUME NEW m \in Requests, NEW e \in BOOLEAN, request = m
  PROVE  /\ Response(e).for = m.from
         /\ Response(e).kind = (IF e THEN "error" ELSE "result")
         /\ e \/ Encodable(Response(e)) => Response(e) \in Replies
<1>1. m.from \in Clients /\ m.cmd.status \in Nat /\ m.cmd.size \in Nat \ {0}
  BY DaemonAssumption DEF Requests
<1>2. m.cmd.status % 256 \in 0..255
  BY <1>1
<1>3. CASE e
  BY <1>1, <1>3 DEF Response, Replies
<1>4. CASE ~e
  <2>1. Response(e) = [for |-> m.from, kind |-> "result", code |-> m.cmd.status % 256, size |-> m.cmd.size]
    BY <1>4 DEF Response
  <2>2. Encodable(Response(e)) => m.cmd.size \in 1..EncodeSize
    BY <1>1, <2>1, DaemonAssumption DEF Encodable
  <2> QED
    BY <1>1, <1>2, <1>4, <2>1, <2>2 DEF Replies
<1> QED
  BY <1>3, <1>4

QuietMain ==
  \/ DaemonStart \/ DaemonBind \/ DaemonListen
  \/ RejectCommand \/ RefuseCommand \/ CommandNotStarted \/ CommandStarts \/ CommandEnds

LEMMA QuietMainFrame ==
  ASSUME QuietMain
  PROVE  /\ UNCHANGED <<up, pool, mem, again, qfifo, route, conn, accepts, down, held, request, out, twice>>
         /\ main \in {"off", "init", "bound", "parse", "running"}
         /\ main' \in {"init", "bound", "accept", "running", "respond"}
         /\ socket' = socket \/ socket' \in {"bound", "listening"}
         /\ rx' = rx \/ rx' = [rx EXCEPT !.at = "get"]
         /\ runs' = runs \/ runs' = [runs EXCEPT ![request.from] = @ + 1]
BY DEF QuietMain, DaemonStart, DaemonBind, DaemonListen, RejectCommand, RefuseCommand, CommandNotStarted,
       CommandStarts, CommandEnds, NextCommand, Parsing, cspVars, memVars

LEMMA QuietMainTypes ==
  ASSUME MainTypes, QuietMain
  PROVE  /\ err' \in BOOLEAN /\ reply' \in Replies \union {NoReply}
         /\ main' = "running" => request' \in Requests
         /\ main' = "respond" => reply' \in Replies
<1>1. err \in BOOLEAN /\ reply \in Replies \union {NoReply} /\ request \in Requests \union {Noise}
      /\ request' = request /\ (main = "running" => request \in Requests)
  BY QuietMainFrame DEF MainTypes
<1>2. CASE DaemonStart \/ DaemonBind \/ DaemonListen
  BY <1>1, <1>2 DEF DaemonStart, DaemonBind, DaemonListen
<1>3. CASE RejectCommand \/ CommandNotStarted
  BY <1>1, <1>3 DEF RejectCommand, CommandNotStarted, NextCommand
<1>4. CASE CommandStarts
  BY <1>1, <1>4 DEF CommandStarts, Parsing
<1>5. CASE RefuseCommand
  <2>1. request \in Requests /\ err' = TRUE /\ reply' = Response(TRUE)
    BY <1>1, <1>5 DEF RefuseCommand, Parsing
  <2> QED
    BY <1>5, <2>1, ResponseType DEF RefuseCommand
<1>6. CASE CommandEnds
  <2>1. request \in Requests
    BY <1>1, <1>6 DEF CommandEnds
  <2>2. Encodable(Response(err)) => Response(err) \in Replies
    BY <1>1, <2>1, ResponseType
  <2>3. CASE Encodable(Response(err)) /\ reply' = Response(err) /\ main' = "respond" /\ UNCHANGED err
    BY <1>1, <2>2, <2>3
  <2>4. CASE NextCommand
    BY <1>1, <2>4 DEF NextCommand
  <2> QED
    BY <1>6, <2>3, <2>4 DEF CommandEnds
<1> QED
  BY <1>2, <1>3, <1>4, <1>5, <1>6 DEF QuietMain

LEMMA QuietMainCore ==
  ASSUME Parts, QuietMain, UNCHANGED clientVars, crossed' = crossed
  PROVE  Parts'
<1>0. /\ UNCHANGED <<up, pool, qfifo, route, conn, accepts, down, held, request, out>>
      /\ main \in {"off", "init", "bound", "parse", "running"}
      /\ main' \in {"init", "bound", "accept", "running", "respond"}
  BY QuietMainFrame
<1>1. UpTypes' /\ DownTypes' /\ ClientTypes'
  BY <1>0 DEF Parts, UpTypes, DownTypes, ClientTypes, clientVars
<1>2. rx' \in [at : {"off", "get", "read", "ended"}, buf : Buffers \union {NoBuf}]
      /\ (rx'.at = "read" => rx'.buf \in Buffers)
  BY QuietMainFrame DEF Parts, NodeTypes
<1>3. NodeTypes'
  BY <1>0, <1>2, QuietMainFrame DEF Parts, NodeTypes
<1>4. runs' \in [Clients -> Nat]
  BY QuietMainFrame DEF Parts, MainTypes
<1>5. MainTypes'
  BY <1>0, <1>4, QuietMainTypes DEF Parts, MainTypes, Main
<1>6. ConnInv'
  BY <1>0 DEF Parts, ConnInv
<1> QED
  BY <1>0, <1>1, <1>3, <1>5, <1>6 DEF Parts, PoolOK

\* The connection csp_accept gives has a packet.
LEMMA AcceptFacts ==
  ASSUME Parts, AcceptCommand
  PROVE  LET s == Head(accepts) IN
         /\ main = "accept" /\ main' = "close" /\ s \in Slots /\ s \in ToSet(accepts)
         /\ held' = s /\ accepts' = Tail(accepts) /\ accepts # <<>>
         /\ conn[s].open /\ conn[s].rx # <<>> /\ conn[s].rx \in Seq(Buffers) /\ conn[s].post = "done"
         /\ Head(conn[s].rx) \in Buffers
         /\ request' = Contents(Head(conn[s].rx))
         /\ pool' = csp_buffer_free(pool, Head(conn[s].rx))
         /\ conn' \in [Slots -> Entry]
         /\ \A t \in Slots \ {s} : conn'[t] = conn[t]
         /\ conn'[s].open /\ conn'[s].rx = Tail(conn[s].rx)
         /\ conn'[s].post = "done" /\ conn'[s].port = conn[s].port
         /\ UNCHANGED <<up, mem, again, rx, qfifo, route, socket, down, err, reply, out, runs, twice>>
<1> DEFINE s == Head(accepts)
           e == [conn[s] EXCEPT !.rx = Tail(@)]
<1>1. /\ main = "accept" /\ main' = "close" /\ accepts # <<>> /\ held' = s /\ accepts' = Tail(accepts)
      /\ UNCHANGED <<up, mem, again, rx, qfifo, route, socket, down, err, reply, out, runs, twice>>
  BY DEF AcceptCommand, memVars
<1>2. s \in Slots /\ s \in ToSet(accepts) /\ conn \in [Slots -> Entry]
  BY <1>1 DEF Parts, NodeTypes, ToSet
<1>3. conn[s].open /\ conn[s].rx # <<>> /\ conn[s].post = "done"
  BY <1>2 DEF Parts, ConnInv
<1>4. conn[s] \in Entry /\ conn[s].rx \in Seq(Buffers)
  BY <1>2 DEF Entry
<1>5. Head(conn[s].rx) \in Buffers /\ Tail(conn[s].rx) \in Seq(Buffers)
  BY <1>3, <1>4
<1>6. /\ request' = Contents(Head(conn[s].rx))
      /\ pool' = csp_buffer_free(pool, Head(conn[s].rx))
      /\ conn' = [conn EXCEPT ![s].rx = Tail(@)]
  BY <1>3 DEF AcceptCommand
<1>7. conn' = [conn EXCEPT ![s] = e]
  BY <1>6
<1>8. e \in Entry /\ e.open /\ e.rx = Tail(conn[s].rx) /\ e.post = "done" /\ e.port = conn[s].port
  BY <1>3, <1>4, <1>5 DEF Entry
<1> HIDE DEF e
<1>9. conn' \in [Slots -> Entry] /\ conn'[s] = e /\ \A t \in Slots \ {s} : conn'[t] = conn[t]
  BY <1>2, <1>7, <1>8
<1> QED
  BY <1>1, <1>2, <1>3, <1>4, <1>5, <1>6, <1>8, <1>9

LEMMA AcceptCore ==
  ASSUME Parts, MemTypes, AcceptCommand, UNCHANGED clientVars, crossed' = crossed
  PROVE  Parts'
<1> DEFINE s == Head(accepts)
<1>1. /\ main' = "close" /\ s \in Slots /\ s \in ToSet(accepts)
      /\ held' = s /\ accepts' = Tail(accepts) /\ accepts # <<>> /\ conn[s].open
      /\ Head(conn[s].rx) \in Buffers
      /\ request' = Contents(Head(conn[s].rx))
      /\ pool' = csp_buffer_free(pool, Head(conn[s].rx))
      /\ conn' \in [Slots -> Entry]
      /\ (\A t \in Slots \ {s} : conn'[t] = conn[t])
      /\ conn'[s].open /\ conn'[s].post = "done" /\ conn[s].post = "done"
      /\ UNCHANGED <<up, mem, again, rx, qfifo, route, socket, down, err, reply, out, runs, twice>>
  BY AcceptFacts
<1> HIDE DEF s
<1>2. UpTypes' /\ DownTypes' /\ ClientTypes'
  BY <1>1 DEF Parts, UpTypes, DownTypes, ClientTypes, clientVars
<1>3. Contents(Head(conn[s].rx)) \in Requests \union {Noise}
  BY <1>1 DEF MemTypes, Contents
<1>4. PoolOK(pool)'
  BY <1>1, <1>3, FreeOK DEF Parts, PoolOK
<1>5. accepts \in Seq(Slots) /\ accepts' \in Seq(Slots) /\ ToSet(accepts) \subseteq Slots
  BY <1>1 DEF Parts, NodeTypes, ToSet
<1>6. NodeTypes'
  BY <1>1, <1>5 DEF Parts, NodeTypes
<1>7. MainTypes'
  BY <1>1, <1>3 DEF Parts, MainTypes, Main
<1>8. IsInjective(accepts') /\ \A t : t \in ToSet(accepts') <=> t \in ToSet(accepts) /\ t # s
  BY <1>1, <1>5, TailDistinct DEF Parts, ConnInv, s
<1>9. held = NoSlot /\ NoSlot \notin Slots
  BY CspAssumption DEF Parts, ConnInv, AcceptCommand
<1>10. ConnInv'
  <2>1. ConnInv
    BY DEF Parts
  <2>2. \A t \in ToSet(accepts)' :
          conn'[t].open /\ conn'[t].post = "done" /\ conn'[t].rx # <<>> /\ t # held'
    BY <1>1, <1>5, <1>8, <2>1 DEF ConnInv
  <2>3. \A t \in Slots : conn'[t].open =>
          /\ conn'[t].post = "due" => route.at # "idle" /\ route.slot = t
          /\ conn'[t].post = "done" => t \in ToSet(accepts)' \union {s}
          /\ conn'[t].post = "never" /\ conn'[t].port = NoPort => t = s
    BY <1>1, <1>8, <1>9, <2>1 DEF ConnInv
  <2>4. route.at # "idle" =>
          route.slot \in Slots /\ (conn'[route.slot].post = "due" => conn'[route.slot].open)
    BY <1>1, <2>1 DEF ConnInv
  <2>5. route.at = "post" => conn'[route.slot].post = "due" /\ conn'[route.slot].rx # <<>>
    BY <1>1, <2>1 DEF ConnInv
  <2> QED
    BY <1>1, <1>8, <2>2, <2>3, <2>4, <2>5 DEF ConnInv
<1> QED
  BY <1>2, <1>4, <1>6, <1>7, <1>10 DEF Parts

\* csp_close at the end of a command, and of its response.
LEMMA EndCore ==
  ASSUME Parts, NEW p, PoolOK(p), main \in {"close", "send", "release"}, csp_close(held, p), held' = NoSlot,
         main' \in {"parse", "accept"},
         err' \in BOOLEAN, reply' \in Replies \union {NoReply}, out' \in Buffers \union {NoBuf},
         UNCHANGED <<up, rx, qfifo, route, socket, accepts, down, request, runs>>,
         UNCHANGED clientVars, crossed' = crossed
  PROVE  Parts'
<1>1. UpTypes' /\ DownTypes' /\ ClientTypes' /\ MainTypes'
  BY DEF Parts, UpTypes, DownTypes, ClientTypes, MainTypes, Main, clientVars
<1>2. held \in Slots /\ conn[held].open /\ conn \in [Slots -> Entry] /\ NoSlot \notin Slots
      /\ conn[held].post # "due" /\ held \notin ToSet(accepts) /\ ConnInv
      /\ ToSet(accepts) \subseteq Slots
  BY CspAssumption DEF Parts, ConnInv, NodeTypes, ToSet
<1>3. /\ PoolOK(pool') /\ conn' \in [Slots -> Entry]
      /\ (\A t \in Slots \ {held} : conn'[t] = conn[t])
      /\ ~conn'[held].open /\ conn'[held].post = conn[held].post
  BY <1>2, CloseOK
<1>4. NodeTypes' /\ PoolOK(pool)'
  BY <1>3 DEF Parts, NodeTypes, PoolOK
<1>5. ConnInv'
  BY <1>2, <1>3 DEF ConnInv
<1> QED
  BY <1>1, <1>4, <1>5 DEF Parts

LEMMA ConnectCore ==
  ASSUME Parts, Connect, UNCHANGED clientVars, crossed' = crossed
  PROVE  Parts'
<1>0. /\ main = "respond" /\ UNCHANGED <<up, rx, qfifo, route, socket, accepts, down, request, runs>>
      /\ held = NoSlot /\ NoSlot \notin Slots /\ conn \in [Slots -> Entry] /\ PoolOK(pool)
      /\ ToSet(accepts) \subseteq Slots /\ ConnInv
  BY CspAssumption DEF Connect, Parts, ConnInv, NodeTypes, ToSet
<1>1. UpTypes' /\ DownTypes' /\ ClientTypes'
  BY <1>0 DEF Parts, UpTypes, DownTypes, ClientTypes, clientVars
<1>2. CASE NextCommand /\ UNCHANGED <<conn, held, out>> /\ PoolOK(pool')
  <2>1. /\ UNCHANGED <<conn, held, out>> /\ PoolOK(pool') /\ main' = "accept" /\ err' = FALSE
        /\ reply' = NoReply
    BY <1>2 DEF NextCommand
  <2>2. MainTypes' /\ PoolOK(pool)'
    BY <1>0, <2>1 DEF Parts, MainTypes, Main, PoolOK
  <2>3. NodeTypes'
    BY <1>0, <2>1 DEF Parts, NodeTypes
  <2>4. ConnInv'
    BY <1>0, <2>1 DEF ConnInv
  <2> QED
    BY <1>1, <2>2, <2>3, <2>4 DEF Parts
<1>3. ASSUME pool.free # <<>>, NEW s \in Slots, ~conn[s].open,
             pool' = FreeAll(Taken, conn[s].rx), conn' = Opened(s, NoPort, "never"),
             held' = s, out' = Given, main' = "send", UNCHANGED <<err, reply>>
      PROVE  Parts'
  <2>1. Given \in Buffers /\ PoolOK(Taken)
    BY <1>0, <1>3, TakeOK
  <2>2. /\ PoolOK(pool') /\ conn' \in [Slots -> Entry]
        /\ (\A t \in Slots \ {s} : conn'[t] = conn[t])
        /\ conn'[s] = [open |-> TRUE, port |-> NoPort, rx |-> <<>>, post |-> "never"]
    <3>1. NoPort \in Ports \union {NoPort} /\ "never" \in {"never", "due", "done"}
      OBVIOUS
    <3> QED
      BY <1>0, <1>3, <2>1, <3>1, OpenOK
  <2>3. conn'[s].open /\ conn'[s].port = NoPort /\ conn'[s].post = "never"
    BY <2>2
  <2>4. MainTypes'
    BY <1>0, <1>3, <2>1 DEF Parts, MainTypes, Main
  <2>5. NodeTypes' /\ PoolOK(pool)'
    BY <1>0, <2>2 DEF Parts, NodeTypes, PoolOK
  <2>6. s \notin ToSet(accepts) /\ (route.at = "post" => route.slot # s)
    BY <1>0, <1>3 DEF ConnInv
  <2>7. ConnInv'
    BY <1>0, <1>3, <2>2, <2>3, <2>6 DEF ConnInv
  <2> QED
    BY <1>1, <2>4, <2>5, <2>7 DEF Parts
<1>4. CASE pool.free = <<>>
  BY <1>0, <1>2, <1>4 DEF Connect
<1>5. CASE pool.free # <<>> /\ FreeSlots = {} /\ pool' = csp_buffer_free(Taken, Given) /\ NextCommand
           /\ UNCHANGED <<conn, held, out>>
  <2>1. Given \in Buffers /\ PoolOK(Taken)
    BY <1>0, <1>5, TakeOK
  <2>2. PoolOK(pool')
    BY <1>5, <2>1, FreeOK
  <2> QED
    BY <1>2, <1>5, <2>2
<1> QED
  BY <1>3, <1>4, <1>5 DEF Connect, FreeSlots

LEMMA SendCore ==
  ASSUME Parts, Send, UNCHANGED clientVars, crossed' = crossed
  PROVE  Parts'
<1> DEFINE Sent == IF mem[out] = Answer THEN Frame(reply) ELSE <<[msg |-> Noise, at |-> 1]>>
<1>0. /\ main = "send" /\ main' = "release" /\ out \in Buffers /\ reply \in Replies
      /\ down' = down \o Sent /\ pool' = csp_buffer_free(pool, out)
      /\ UNCHANGED <<up, rx, qfifo, route, conn, socket, accepts, held, request, err, reply, out, runs>>
  BY DEF Send, Parts, MainTypes
<1>1. reply.size \in Nat \ {0}
  BY <1>0, DaemonAssumption DEF Replies
<1>2. Sent \in Seq([msg : Replies \union {Noise}, at : Nat])
  <2>1. 1..reply.size \subseteq Nat
    BY <1>1
  <2>2. Frame(reply) \in Seq([msg : Replies \union {Noise}, at : Nat])
    BY <1>0, <1>1, <2>1, FrameType
  <2>3. <<[msg |-> Noise, at |-> 1]>> \in Seq([msg : Replies \union {Noise}, at : Nat])
    OBVIOUS
  <2> QED
    BY <2>2, <2>3
<1> HIDE DEF Sent
<1>3. DownTypes'
  BY <1>0, <1>2 DEF Parts, DownTypes
<1>4. UpTypes' /\ ClientTypes' /\ NodeTypes'
  BY <1>0 DEF Parts, UpTypes, ClientTypes, NodeTypes, clientVars
<1>5. MainTypes' /\ ConnInv'
  BY <1>0 DEF Parts, MainTypes, ConnInv, Main
<1>6. PoolOK(pool)'
  BY <1>0, FreeOK DEF Parts, PoolOK
<1> QED
  BY <1>3, <1>4, <1>5, <1>6 DEF Parts

LEMMA MainCore ==
  ASSUME Parts, MemTypes, MainStep
  PROVE  Parts'
<1>0. Parts /\ UNCHANGED clientVars /\ crossed' = crossed
  BY DEF MainStep
<1>1. err \in BOOLEAN /\ reply \in Replies \union {NoReply} /\ out \in Buffers \union {NoBuf} /\ PoolOK(pool)
  BY <1>0 DEF Parts, MainTypes
<1>2. ASSUME CloseCommand PROVE Parts'
  <2>1. /\ main = "close" /\ main' = "parse" /\ csp_close(held, pool) /\ held' = NoSlot
        /\ UNCHANGED <<up, rx, qfifo, route, socket, accepts, down, request, err, reply, out, runs>>
    BY <1>2 DEF CloseCommand
  <2>2. /\ main \in {"close", "send", "release"} /\ main' \in {"parse", "accept"}
        /\ err' \in BOOLEAN /\ reply' \in Replies \union {NoReply} /\ out' \in Buffers \union {NoBuf}
        /\ UNCHANGED <<up, rx, qfifo, route, socket, accepts, down, request, runs>>
    BY <1>1, <2>1
  <2> QED
    BY <1>0, <1>1, <2>1, <2>2, EndCore
<1>3. ASSUME Release PROVE Parts'
  <2>1. out \in Buffers /\ PoolOK(csp_buffer_free(pool, out))
    BY <1>0, <1>1, <1>3, FreeOK DEF Release, Parts, MainTypes
  <2>2. csp_close(held, csp_buffer_free(pool, out)) /\ main = "release" /\ held' = NoSlot /\ out' = NoBuf
        /\ main' = "accept" /\ err' = FALSE /\ reply' = NoReply
        /\ UNCHANGED <<up, rx, qfifo, route, socket, accepts, down, request, runs>>
    BY <1>3 DEF Release, NextCommand
  <2>3. /\ main \in {"close", "send", "release"} /\ main' \in {"parse", "accept"}
        /\ err' \in BOOLEAN /\ reply' \in Replies \union {NoReply} /\ out' \in Buffers \union {NoBuf}
    BY <2>2
  <2> QED
    BY <1>0, <2>1, <2>2, <2>3, EndCore
<1> QED
  BY <1>0, <1>2, <1>3, QuietMainCore, AcceptCore, ConnectCore, SendCore
     DEF MainStep, MainThread, QuietMain

(* The clients. *)

ClientStep(c) ==
  \/ \E cmd \in Commands, port \in Ports : ClientStart(c, cmd, port)
  \/ ClientReads(c) \/ ClientRoutes(c) \/ ClientMain(c)

NodeAndMain == <<pool, rx, qfifo, route, conn, socket, accepts, main, held, request, err, reply, out, runs>>

LEMMA ClientFrame ==
  ASSUME Parts, UNCHANGED NodeAndMain, UpTypes', DownTypes', ClientTypes'
  PROVE  Parts'
<1>1. UNCHANGED <<pool, rx, qfifo, route, conn, socket, accepts, main, held, request, err, reply, out, runs>>
  BY DEF NodeAndMain
<1>2. NodeTypes' /\ PoolOK(pool)'
  BY <1>1 DEF Parts, NodeTypes, PoolOK
<1>3. MainTypes'
  BY <1>1 DEF Parts, MainTypes
<1>4. ConnInv'
  BY <1>1 DEF Parts, ConnInv
<1> QED
  BY <1>2, <1>3, <1>4 DEF Parts

LEMMA ClientEndsTypes ==
  ASSUME Parts, NEW c \in Clients, cl[c] # "idle", ClientEnds(c), shown' \in [Clients -> Replies \union {NoReply}]
  PROVE  UpTypes' /\ DownTypes' /\ ClientTypes' /\ UNCHANGED NodeAndMain
<1>1. /\ cl' = [cl EXCEPT ![c] = "done"] /\ inq' = [inq EXCEPT ![c] = <<>>]
      /\ inbox' = [inbox EXCEPT ![c] = <<>>] /\ crossed' = (crossed \/ Pending(c)) /\ asked' = asked
      /\ UNCHANGED <<pool, rx, qfifo, route, conn, socket, accepts, main, held, request, err, reply, out, runs>>
  BY DEF ClientEnds, daemonVars
<1>2. (up' = up \/ up' = <<>>) /\ (down' = down \/ down' = <<>>)
  BY DEF ClientEnds
<1>3. UpTypes' /\ DownTypes'
  <2>1. <<>> \in Seq([msg : Requests, at : 1..RequestSize]) /\ <<>> \in Seq([msg : Replies \union {Noise}, at : Nat])
    OBVIOUS
  <2> QED
    BY <1>2, <2>1 DEF Parts, UpTypes, DownTypes
<1>4. cl' \in [Clients -> ClientState] /\ asked' \in [Clients -> Requests \union {NoRequest}]
      /\ \A d \in Clients : cl'[d] # "idle" => asked'[d] \in Requests /\ asked'[d].from = d
  <2>1. cl \in [Clients -> ClientState] /\ asked \in [Clients -> Requests \union {NoRequest}]
        /\ \A d \in Clients : cl[d] # "idle" => asked[d] \in Requests /\ asked[d].from = d
    BY DEF Parts, ClientTypes
  <2>2. cl[c] # "idle"
    OBVIOUS
  <2> QED
    BY <1>1, <2>1, <2>2 DEF ClientState
<1>5. <<>> \in Seq(Replies \union {Noise})
  OBVIOUS
<1>6. crossed' \in BOOLEAN
  BY <1>1 DEF Parts, ClientTypes
<1>7. inq' \in [Clients -> Seq(Replies \union {Noise})] /\ inbox' \in [Clients -> Seq(Replies \union {Noise})]
  BY <1>1, <1>5 DEF Parts, ClientTypes
<1> QED
  BY <1>1, <1>3, <1>4, <1>6, <1>7 DEF ClientTypes, NodeAndMain

LEMMA ReadFacts ==
  ASSUME DownTypes, down # <<>>
  PROVE  /\ Unread(down) \in Seq([msg : Replies \union {Noise}, at : Nat])
         /\ Packet(down) \in Replies \union {Noise}
         /\ 1 \in DOMAIN down
         /\ Packet(down) = down[1].msg \/ Packet(down) = Noise
<1>1. /\ Unread(down) \in Seq([msg : Replies \union {Noise}, at : Nat]) /\ Head(down) \in [msg : Replies \union {Noise}, at : Nat]
      /\ Head(down) = down[1] /\ 1 \in DOMAIN down
  BY UnreadFacts DEF DownTypes
<1> QED
  BY <1>1 DEF Packet

LEMMA ClientCore ==
  ASSUME Parts, NEW c \in Clients, ClientStep(c)
  PROVE  Parts'
<1>0. Parts /\ ClientTypes /\ UpTypes /\ DownTypes
  BY DEF Parts
<1> DEFINE Goal == UpTypes' /\ DownTypes' /\ ClientTypes' /\ UNCHANGED NodeAndMain
<1>1. ASSUME NEW cmd \in Commands, NEW port \in Ports, ClientStart(c, cmd, port)
      PROVE  Goal
  <2> DEFINE m == [from |-> c, port |-> port, cmd |-> cmd, size |-> RequestSize]
  <2>1. /\ cl' = [cl EXCEPT ![c] = "encode"] /\ asked' = [asked EXCEPT ![c] = m]
        /\ crossed' = (crossed \/ \E d \in Clients : Active(d))
        /\ UNCHANGED <<up, down, inq, inbox, shown>> /\ UNCHANGED NodeAndMain
    BY <1>1 DEF ClientStart, cspVars, daemonVars, NodeAndMain
  <2>2. m \in Requests
    BY DEF Requests
  <2> HIDE DEF m
  <2>3. cl' \in [Clients -> ClientState] /\ asked' \in [Clients -> Requests \union {NoRequest}]
    BY <1>0, <2>1, <2>2 DEF ClientTypes, ClientState
  <2>4. crossed' \in BOOLEAN
    BY <1>0, <2>1 DEF ClientTypes
  <2>5. m.from = c
    BY DEF m
  <2>6. \A d \in Clients : cl'[d] # "idle" => asked'[d] \in Requests /\ asked'[d].from = d
    BY <1>0, <2>1, <2>2, <2>5 DEF ClientTypes
  <2> QED
    BY <1>0, <2>1, <2>3, <2>4, <2>6 DEF UpTypes, DownTypes, ClientTypes
<1>2. ASSUME ClientReads(c) PROVE Goal
  <2>1. /\ down # <<>> /\ inq' = [inq EXCEPT ![c] = Append(@, Packet(down))] /\ down' = Unread(down)
        /\ UNCHANGED <<up, cl, inbox, shown, asked, crossed>> /\ UNCHANGED NodeAndMain
    BY <1>2 DEF ClientReads, cspVars, daemonVars, NodeAndMain
  <2>2. Unread(down) \in Seq([msg : Replies \union {Noise}, at : Nat]) /\ Packet(down) \in Replies \union {Noise}
    BY <1>0, <2>1, ReadFacts
  <2>3. Append(inq[c], Packet(down)) \in Seq(Replies \union {Noise})
    BY <1>0, <2>2 DEF ClientTypes
  <2>4. inq' \in [Clients -> Seq(Replies \union {Noise})]
    BY <1>0, <2>1, <2>3 DEF ClientTypes
  <2> QED
    BY <1>0, <2>1, <2>2, <2>4 DEF UpTypes, DownTypes, ClientTypes
<1>3. ASSUME ClientRoutes(c) PROVE Goal
  <2>1. /\ inq[c] # <<>> /\ inq' = [inq EXCEPT ![c] = Tail(@)]
        /\ inbox' = inbox \/ inbox' = [inbox EXCEPT ![c] = Append(@, Head(inq[c]))]
        /\ UNCHANGED <<up, down, cl, shown, asked, crossed>> /\ UNCHANGED NodeAndMain
    BY <1>3 DEF ClientRoutes, cspVars, daemonVars, NodeAndMain
  <2>2. /\ Tail(inq[c]) \in Seq(Replies \union {Noise})
        /\ Append(inbox[c], Head(inq[c])) \in Seq(Replies \union {Noise})
    BY <1>0, <2>1 DEF ClientTypes
  <2>3. inq' \in [Clients -> Seq(Replies \union {Noise})] /\ inbox' \in [Clients -> Seq(Replies \union {Noise})]
    BY <1>0, <2>1, <2>2 DEF ClientTypes
  <2> QED
    BY <1>0, <2>1, <2>3 DEF UpTypes, DownTypes, ClientTypes
<1>4. ASSUME ClientSends(c) PROVE Goal
  <2>1. /\ cl[c] = "encode" /\ up' = up \o Frame(asked[c]) /\ cl' = [cl EXCEPT ![c] = "sent"]
        /\ UNCHANGED <<down, inq, inbox, shown, asked, crossed>> /\ UNCHANGED NodeAndMain
    BY <1>4 DEF ClientSends, daemonVars, NodeAndMain
  <2>2. asked[c] \in Requests /\ asked[c].size = RequestSize /\ RequestSize \in Nat \ {0}
    BY <1>0, <2>1, ClientAssumption DEF ClientTypes, Requests
  <2>3. Frame(asked[c]) \in Seq([msg : Requests, at : 1..RequestSize])
    BY <2>2, FrameType
  <2>4. up' \in Seq([msg : Requests, at : 1..RequestSize])
    BY <1>0, <2>1, <2>3 DEF UpTypes
  <2>5. cl' \in [Clients -> ClientState]
    BY <1>0, <2>1 DEF ClientTypes, ClientState
  <2> QED
    BY <1>0, <2>1, <2>4, <2>5 DEF UpTypes, DownTypes, ClientTypes
<1>5. ASSUME ClientListens(c) PROVE Goal
  <2>1. /\ cl[c] = "sent" /\ cl' = [cl EXCEPT ![c] = "listening"]
        /\ UNCHANGED <<up, down, inq, inbox, shown, asked, crossed>> /\ UNCHANGED NodeAndMain
    BY <1>5 DEF ClientListens, cspVars, daemonVars, NodeAndMain
  <2>2. cl' \in [Clients -> ClientState]
    BY <1>0, <2>1 DEF ClientTypes, ClientState
  <2> QED
    BY <1>0, <2>1, <2>2 DEF UpTypes, DownTypes, ClientTypes
<1>6. ASSUME ClientGivesUp(c) \/ ClientTimesOut(c) PROVE Goal
  <2>1. ClientEnds(c) /\ cl[c] # "idle" /\ shown' \in [Clients -> Replies \union {NoReply}]
    BY <1>0, <1>6 DEF ClientGivesUp, ClientTimesOut, ClientTypes
  <2> QED
    BY <1>0, <2>1, ClientEndsTypes
<1>7. ASSUME ClientShows(c) PROVE Goal
  <2>1. /\ inbox[c] # <<>> /\ ClientEnds(c) /\ cl[c] # "idle"
        /\ shown' = [shown EXCEPT ![c] = IF Head(inbox[c]) = Noise THEN @ ELSE Head(inbox[c])]
    BY <1>7 DEF ClientShows
  <2>2. Head(inbox[c]) \in Replies \union {Noise}
    BY <1>0, <2>1 DEF ClientTypes
  <2>3. shown' \in [Clients -> Replies \union {NoReply}]
    BY <1>0, <2>1, <2>2 DEF ClientTypes
  <2> QED
    BY <1>0, <2>1, <2>3, ClientEndsTypes
<1>8. Goal
  BY <1>1, <1>2, <1>3, <1>4, <1>5, <1>6, <1>7 DEF ClientStep, ClientMain
<1> QED
  BY <1>0, <1>8, ClientFrame

LEMMA NextCases ==
  ASSUME Next
  PROVE  RxStep \/ RouterStep \/ MainStep \/ \E c \in Clients : ClientStep(c)
BY DEF Next, ClientStep

LEMMA StutterCore ==
  ASSUME Parts, UNCHANGED vars
  PROVE  Parts'
<1>1. UNCHANGED <<up, pool, rx, qfifo, route, conn, socket, accepts, main, held, request, err, reply,
                  out, runs, down, cl, inq, inbox, shown, asked, crossed>>
  BY DEF vars, cspVars, daemonVars, clientVars
<1>2. UpTypes' /\ DownTypes' /\ ClientTypes' /\ UNCHANGED NodeAndMain
  BY <1>1 DEF Parts, UpTypes, DownTypes, ClientTypes, NodeAndMain
<1> QED
  BY <1>2, ClientFrame

(* What the buffers hold. *)

\* How a step changes the contents of a buffer, if it does: read() of a frame
\* or of the end of one, or a response that is written.
Refills(b) ==
  /\ rx.at = "read" /\ b = rx.buf /\ up # <<>> /\ again' = again
  /\ mem' = [mem EXCEPT ![b] = Packet(up)]
Recovers(b) ==
  /\ rx.at = "read" /\ b = rx.buf /\ Contents(b) # Noise
  /\ again' = again \union {mem[b].from}
  /\ \E port \in Ports : mem' = [mem EXCEPT ![b].port = port]
Fills(b) ==
  /\ main = "respond" /\ pool.free # <<>> /\ b = Given /\ again' = again
  /\ mem' = [x \in Buffers |-> IF x = b THEN Answer ELSE mem[x]]
KeepsMem == UNCHANGED <<mem, again>>

LEMMA MemChanges ==
  ASSUME Parts, MemTypes, [Next]_vars
  PROVE  /\ \/ KeepsMem
            \/ RxRead /\ RxStep /\ \E b \in Buffers : Refills(b) \/ Recovers(b)
            \/ Connect /\ MainStep /\ \E b \in Buffers : Fills(b)
         /\ twice' = twice \/ (twice' = twice \union {out} /\ out \in Buffers)
<1>1. CASE UNCHANGED vars \/ \E c \in Clients : ClientStep(c)
  BY <1>1 DEF KeepsMem, vars, cspVars, memVars, daemonVars, ClientStep, ClientMain, ClientStart, ClientReads,
              ClientRoutes, ClientGivesUp, ClientSends, ClientListens, ClientShows, ClientTimesOut, ClientEnds
<1>2. CASE RouterStep
  BY <1>2, RouterFrame DEF KeepsMem
<1>3. CASE RxStep
  <2>1. twice' = twice
    BY <1>3 DEF RxStep, daemonVars
  <2>2. CASE RxGet
    BY <2>1, <2>2 DEF RxGet, memVars, KeepsMem
  <2>3. CASE RxRead
    <3>1. rx.buf \in Buffers
      BY <2>3 DEF RxRead, Parts, NodeTypes
    <3>2. Refills(rx.buf) \/ Recovers(rx.buf)
      BY <2>3 DEF RxRead, Reads, ReadsAgain, Refills, Recovers
    <3> QED
      BY <1>3, <2>1, <2>3, <3>1, <3>2
  <2> QED
    BY <1>3, <2>2, <2>3 DEF RxStep, RxThread
<1>4. CASE MainStep
  <2>1. CASE QuietMain
    BY <2>1, QuietMainFrame DEF KeepsMem
  <2>2. CASE AcceptCommand \/ CloseCommand \/ Send
    BY <2>2 DEF AcceptCommand, CloseCommand, Send, memVars, KeepsMem
  <2>3. CASE Connect
    <3>1. /\ main = "respond" /\ again' = again /\ twice' = twice
          /\ mem' = [b \in Buffers |-> IF pool.free # <<>> /\ b = Given THEN Answer ELSE mem[b]]
      BY <2>3 DEF Connect
    <3>2. CASE pool.free = <<>>
      BY <3>1, <3>2 DEF KeepsMem, MemTypes
    <3>3. CASE pool.free # <<>>
      <4>1. Given \in Buffers
        BY <3>3, TakeOK DEF Parts
      <4>2. mem' = [b \in Buffers |-> IF b = Given THEN Answer ELSE mem[b]]
        BY <3>1, <3>3
      <4> QED
        BY <1>4, <2>3, <3>1, <3>3, <4>1, <4>2 DEF Fills
    <3> QED
      BY <3>2, <3>3
  <2>4. CASE Release
    BY <2>4 DEF Release, memVars, KeepsMem, Parts, MainTypes
  <2> QED
    BY <1>4, <2>1, <2>2, <2>3, <2>4 DEF MainStep, MainThread, QuietMain
<1> QED
  BY <1>1, <1>2, <1>3, <1>4, NextCases

LEMMA NextMem ==
  ASSUME Parts, MemTypes, [Next]_vars
  PROVE  MemTypes'
<1> DEFINE Held == Requests \union {Noise, Answer}
<1>0. mem \in [Buffers -> Held] /\ again \in SUBSET Clients /\ twice \in SUBSET Buffers
  BY DEF MemTypes
<1>1. twice' \in SUBSET Buffers
  BY <1>0, MemChanges
<1>2. CASE KeepsMem
  BY <1>0, <1>1, <1>2 DEF KeepsMem, MemTypes
<1>3. ASSUME NEW b \in Buffers, Refills(b) PROVE MemTypes'
  <2>1. Head(up) \in [msg : Requests, at : 1..RequestSize]
    BY <1>3, UnreadFacts DEF Refills, Parts, UpTypes
  <2>2. Packet(up) \in Held
    BY <2>1 DEF Packet
  <2> QED
    BY <1>0, <1>1, <1>3, <2>2 DEF Refills, MemTypes
<1>4. ASSUME NEW b \in Buffers, Recovers(b) PROVE MemTypes'
  <2>1. mem[b] \in Requests /\ again' = again \union {mem[b].from}
    BY <1>0, <1>4 DEF Recovers, Contents
  <2>2. PICK port \in Ports : mem' = [mem EXCEPT ![b].port = port]
    BY <1>4 DEF Recovers
  <2> DEFINE m == [mem[b] EXCEPT !.port = port]
  <2>3. m \in Requests /\ mem[b].from \in Clients
    BY <2>1 DEF Requests
  <2>4. mem' = [mem EXCEPT ![b] = m]
    BY <2>2
  <2> HIDE DEF m
  <2>5. mem' \in [Buffers -> Held]
    BY <1>0, <2>3, <2>4
  <2> QED
    BY <1>0, <1>1, <2>1, <2>3, <2>5 DEF MemTypes
<1>5. ASSUME NEW b \in Buffers, Fills(b) PROVE MemTypes'
  BY <1>0, <1>1, <1>5 DEF Fills, MemTypes
<1> QED
  BY <1>2, <1>3, <1>4, <1>5, MemChanges

LEMMA NextCore ==
  ASSUME CoreInv, [Next]_vars
  PROVE  CoreInv'
<1>1. Parts /\ MemTypes
  BY CoreParts
<1>2. Parts'
  BY <1>1, NextCases, RxCore, RouterCore, MainCore, ClientCore, StutterCore
<1> QED
  BY <1>1, <1>2, NextMem, CorePartsNext

(* CoreInv is an invariant: entries of arr_conn, packets, buffers and what *)
(* fifo_rx, the router, main and the clients keep stay what they should be.*)
LEMMA CoreInvariant == Spec => []CoreInv
<1>1. CoreInv /\ [Next]_vars => CoreInv'
  BY NextCore
<1> QED
  BY InitCore, <1>1, PTL DEF Spec

(* Every variable of the daemon, its node and the clients keeps its type,  *)
(* whatever is read from the FIFOs and however csp_route_work, fifo_rx and *)
(* main take turns: no reference count of a buffer exceeds one, and what a *)
(* buffer holds is a request of a client, an answer or noise.              *)
THEOREM CncTypeCorrect == Spec => []TypeOK
<1>1. CoreInv => TypeOK
  BY DEF CoreInv
<1> QED
  BY <1>1, CoreInvariant, PTL

(* A connection csp_new_packet opens is not lost: until main closes it, it *)
(* is the router's, or in the queue of the socket, or main's; only those   *)
(* opened between csp_bind and csp_listen stay open for good.              *)
THEOREM NoConnectionIsLost == Spec => []NoConnLost
<1>1. CoreInv => NoConnLost
  <2> SUFFICES ASSUME CoreInv, NEW s \in Slots, conn[s].open
               PROVE  \/ s \in ToSet(accepts) \union {held, route.slot}
                      \/ conn[s].post = "never" /\ conn[s].port # NoPort
    BY DEF NoConnLost
  <2>1. Parts
    BY CoreParts
  <2>2. conn[s].post \in {"never", "due", "done"}
    BY <2>1 DEF Parts, NodeTypes, Entry
  <2> QED
    BY <2>1, <2>2 DEF Parts, ConnInv
<1> QED
  BY <1>1, CoreInvariant, PTL

(***************************************************************************)
(* Where in a queue the members of a set are.                              *)
(***************************************************************************)

At(q, M) == {i \in DOMAIN q : q[i] \in M}

\* Of M there is nothing in p that is not in q.
Sheds(q, p, M) == (At(p, M) # {} => At(q, M) # {}) /\ (Single(At(q, M)) => Single(At(p, M)))

LEMMA AtAppend ==
  ASSUME NEW S, NEW q \in Seq(S), NEW x \in S, NEW M
  PROVE  /\ At(Append(q, x), M) # {} <=> At(q, M) # {} \/ x \in M
         /\ x \notin M => Sheds(q, Append(q, x), M)
         /\ At(q, M) = {} => Single(At(Append(q, x), M))
<1>1. /\ Len(q) \in Nat /\ DOMAIN q = 1..Len(q) /\ DOMAIN Append(q, x) = 1..Len(q) + 1
      /\ Append(q, x)[Len(q) + 1] = x /\ \A i \in 1..Len(q) : Append(q, x)[i] = q[i]
  OBVIOUS
<1>2. \A i : i \in At(Append(q, x), M) <=> i \in At(q, M) \/ (i = Len(q) + 1 /\ x \in M)
  BY <1>1 DEF At
<1> QED
  BY <1>2 DEF Sheds, Single

LEMMA AtTail ==
  ASSUME NEW S, NEW q \in Seq(S), q # <<>>, NEW M
  PROVE  /\ At(q, M) # {} <=> At(Tail(q), M) # {} \/ Head(q) \in M
         /\ Sheds(q, Tail(q), M)
         /\ Single(At(q, M)) /\ Head(q) \in M => At(Tail(q), M) = {}
<1>1. /\ Len(q) \in Nat /\ Len(q) # 0 /\ DOMAIN q = 1..Len(q) /\ DOMAIN Tail(q) = 1..Len(q) - 1
      /\ Head(q) = q[1] /\ \A i \in 1..Len(q) - 1 : Tail(q)[i] = q[i + 1]
  OBVIOUS
<1>2. 1 \in At(q, M) <=> Head(q) \in M
  BY <1>1 DEF At
<1>3. \A i : i \in At(Tail(q), M) => i + 1 \in At(q, M) /\ i \in Nat /\ i + 1 # 1
  BY <1>1 DEF At
<1>4. \A i : i \in At(q, M) /\ i # 1 => i - 1 \in At(Tail(q), M)
  BY <1>1 DEF At
<1>5. At(q, M) # {} <=> At(Tail(q), M) # {} \/ Head(q) \in M
  BY <1>2, <1>3, <1>4
<1>6. Single(At(q, M)) => Single(At(Tail(q), M))
  <2> SUFFICES ASSUME Single(At(q, M)), NEW i \in At(Tail(q), M), NEW j \in At(Tail(q), M) PROVE i = j
    BY DEF Single
  <2>1. i + 1 \in At(q, M) /\ j + 1 \in At(q, M) /\ i \in Nat /\ j \in Nat
    BY <1>3
  <2>2. i + 1 = j + 1
    BY <2>1 DEF Single
  <2> QED
    BY <2>1, <2>2
<1>7. Single(At(q, M)) /\ Head(q) \in M => At(Tail(q), M) = {}
  BY <1>2, <1>3 DEF Single
<1> QED
  BY <1>5, <1>6, <1>7 DEF Sheds

LEMMA AtUnread ==
  ASSUME NEW S, NEW q \in Seq(S), q # <<>>, NEW M
  PROVE  /\ Head(q) \in M => At(q, M) # {}
         /\ Sheds(q, Unread(q), M)
         /\ Single(At(q, M)) /\ Head(q) \in M => At(Unread(q), M) = {}
<1>1. /\ Head(q) = q[1] /\ 1 \in DOMAIN q
      /\ \A i \in DOMAIN Unread(q) :
           i + ReadSize \in DOMAIN q /\ i + ReadSize # 1 /\ Unread(q)[i] = q[i + ReadSize] /\ i \in Nat
  BY UnreadFacts
<1>2. 1 \in At(q, M) <=> Head(q) \in M
  BY <1>1 DEF At
<1>3. \A i : i \in At(Unread(q), M) => i + ReadSize \in At(q, M) /\ i \in Nat /\ i + ReadSize # 1
  BY <1>1 DEF At
<1>4. Single(At(q, M)) => Single(At(Unread(q), M))
  <2> SUFFICES ASSUME Single(At(q, M)), NEW i \in At(Unread(q), M), NEW j \in At(Unread(q), M) PROVE i = j
    BY DEF Single
  <2>1. i + ReadSize \in At(q, M) /\ j + ReadSize \in At(q, M) /\ i \in Nat /\ j \in Nat /\ ReadSize \in Nat
    BY <1>3, CspAssumption
  <2>2. i + ReadSize = j + ReadSize
    BY <2>1 DEF Single
  <2> QED
    BY <2>1, <2>2
<1>5. Single(At(q, M)) /\ Head(q) \in M => At(Unread(q), M) = {}
  BY <1>2, <1>3 DEF Single
<1> QED
  BY <1>2, <1>3, <1>4, <1>5 DEF Sheds

LEMMA AtEmpty ==
  ASSUME NEW M PROVE At(<<>>, M) = {} /\ Single(At(<<>>, M)) /\ \A q : Sheds(q, <<>>, M)
<1>1. At(<<>>, M) = {}
  BY DEF At
<1> QED
  BY <1>1 DEF Single, Sheds

LEMMA ShedsSame == ASSUME NEW q, NEW M PROVE Sheds(q, q, M)
BY DEF Sheds

(***************************************************************************)
(* OnceInv: where the request of a client is.                              *)
(***************************************************************************)

Cells == [msg : Requests, at : 1..RequestSize]
Stages == {"none", "up", "queued", "enqueue", "conn", "taken", "ran"}
Of(c, m) == {x \in Buffers : From(m[x], c)}
StartsOf(c) == {x \in Cells : x.at = 1 /\ x.msg.from = c}

\* RequestAt and what else OnceInv says of c.
OnceAt(c, k, s, m) ==
  /\ Single(At(up, StartsOf(c))) /\ Single(At(qfifo, Of(c, m)))
  /\ \A t \in Slots : Single(At(conn[t].rx, Of(c, m)))
  /\ runs[c] <= 1
  /\ At(up, StartsOf(c)) # {} => k = "up"
  /\ At(qfifo, Of(c, m)) # {} => k = "queued"
  /\ route.at = "enqueue" /\ From(m[route.pkt], c) => k = "enqueue"
  /\ \A t \in Slots : At(conn[t].rx, Of(c, m)) # {} => k = "conn" /\ s = t
  /\ main \in {"close", "parse"} /\ From(request, c) => k = "taken"
  /\ runs[c] > 0 => k = "ran"
  /\ cl[c] \in {"idle", "encode"} => k = "none"

Once(c, m) == \E k \in Stages, s \in Slots \union {NoSlot} : OnceAt(c, k, s, m)

LEMMA HoldsAt ==
  ASSUME NEW q \in Seq(Buffers), NEW c PROVE Holds(q, c) = At(q, Of(c, mem))
<1>1. \A i \in DOMAIN q : q[i] \in Buffers
  OBVIOUS
<1> QED
  BY <1>1 DEF Holds, At, Of

LEMMA StartsAt ==
  ASSUME UpTypes, NEW c PROVE Starts(c) = At(up, StartsOf(c))
<1>0. up \in Seq(Cells)
  BY DEF UpTypes, Cells
<1>1. \A i \in DOMAIN up : up[i] \in Cells
  BY <1>0
<1> QED
  BY <1>1 DEF Starts, At, StartsOf

LEMMA OnceParts == Parts => (OnceInv <=> \A c \in Clients : c \in again \/ twice # {} \/ Once(c, mem))
<1> SUFFICES ASSUME Parts PROVE OnceInv <=> \A c \in Clients : c \in again \/ twice # {} \/ Once(c, mem)
  OBVIOUS
<1>1. \A c : Starts(c) = At(up, StartsOf(c))
  BY StartsAt DEF Parts
<1>2. \A c : Holds(qfifo, c) = At(qfifo, Of(c, mem))
  BY HoldsAt DEF Parts, NodeTypes
<1>3. \A t \in Slots : conn[t].rx \in Seq(Buffers)
  BY DEF Parts, NodeTypes, Entry
<1>4. \A c : \A t \in Slots : Holds(conn[t].rx, c) = At(conn[t].rx, Of(c, mem))
  BY <1>3, HoldsAt
<1> DEFINE Alone(c) == /\ Single(Starts(c)) /\ Single(Holds(qfifo, c))
                       /\ \A t \in Slots : Single(Holds(conn[t].rx, c))
                       /\ runs[c] <= 1
<1>5. ASSUME NEW c, NEW k, NEW s
      PROVE  OnceAt(c, k, s, mem) <=> RequestAt(c, k, s) /\ Alone(c)
  <2>1. Starts(c) = At(up, StartsOf(c)) /\ Holds(qfifo, c) = At(qfifo, Of(c, mem))
    BY <1>1, <1>2
  <2>2. (\A t \in Slots : Single(At(conn[t].rx, Of(c, mem)))) <=> (\A t \in Slots : Single(Holds(conn[t].rx, c)))
    BY <1>4
  <2>3. (\A t \in Slots : At(conn[t].rx, Of(c, mem)) # {} => k = "conn" /\ s = t)
          <=> (\A t \in Slots : Holds(conn[t].rx, c) # {} => k = "conn" /\ s = t)
    BY <1>4
  <2> QED
    BY <2>1, <2>2, <2>3, Zenon DEF OnceAt, RequestAt
<1>6. OnceInv <=> \A c \in Clients :
        \/ c \in again \/ twice # {}
        \/ Alone(c) /\ \E k \in Stages, s \in Slots \union {NoSlot} : RequestAt(c, k, s)
  BY DEF OnceInv, Stages
<1> HIDE DEF Alone
<1> QED
  BY <1>5, <1>6 DEF Once

LEMMA OncePartsNext == Parts' => (OnceInv' <=> (\A c \in Clients : c \in again \/ twice # {} \/ Once(c, mem))')
BY OnceParts, PTL

\* A step that moves nothing of c.
LEMMA OnceKept ==
  ASSUME NEW c \in Clients, NEW m, Once(c, m),
         Sheds(up, up', StartsOf(c)), Sheds(qfifo, qfifo', Of(c, m)),
         \A t \in Slots : Sheds(conn[t].rx, conn'[t].rx, Of(c, m)),
         route'.at = "enqueue" /\ From(m[route'.pkt], c) => route.at = "enqueue" /\ From(m[route.pkt], c),
         main' \in {"close", "parse"} /\ From(request', c) => main \in {"close", "parse"} /\ From(request, c),
         runs'[c] = runs[c],
         cl'[c] \in {"idle", "encode"} => cl[c] \in {"idle", "encode"}
  PROVE  Once(c, m)'
<1>1. PICK k \in Stages, s \in Slots \union {NoSlot} : OnceAt(c, k, s, m)
  BY DEF Once
<1>2. OnceAt(c, k, s, m)'
  BY <1>1 DEF OnceAt, Sheds
<1> QED
  BY <1>2 DEF Once

LEMMA FromOf == ASSUME NEW x \in Buffers, NEW c, NEW m PROVE x \in Of(c, m) <=> From(m[x], c)
BY DEF Of

LEMMA RxOnce ==
  ASSUME Parts, RxStep, NEW c \in Clients, NEW m, Once(c, m),
         RxRead => ~From(m[rx.buf], c) \/ m[rx.buf] = Packet(up)
  PROVE  Once(c, m)'
<1>0. /\ UNCHANGED <<route, conn, main, request, runs, cl>>
      /\ \A t \in Slots : Sheds(conn[t].rx, conn'[t].rx, Of(c, m))
  <2>1. UNCHANGED <<route, conn, main, request, runs, cl>>
    BY DEF RxStep, RxThread, RxGet, RxRead, daemonVars, clientVars
  <2> QED
    BY <2>1, ShedsSame
<1>1. CASE RxGet
  <2>1. up' = up /\ qfifo' = qfifo
    BY <1>1 DEF RxGet
  <2> QED
    BY <1>0, <2>1, ShedsSame, OnceKept
<1>2. CASE RxRead
  <2> DEFINE pkt == rx.buf
  <2>1. up # <<>> /\ up' = Unread(up) /\ qfifo' = Append(qfifo, pkt) /\ rx.buf \in Buffers
    BY <1>2 DEF RxRead, Parts, NodeTypes
  <2>2. up \in Seq(Cells) /\ Head(up) \in Cells /\ qfifo \in Seq(Buffers)
    <3>1. up \in Seq(Cells) /\ qfifo \in Seq(Buffers)
      BY DEF Parts, UpTypes, Cells, NodeTypes
    <3> QED
      BY <2>1, <3>1
  <2>4. pkt \in Buffers /\ (From(m[pkt], c) => m[pkt] = Packet(up))
    BY <1>2, <2>1
  <2> HIDE DEF pkt
  <2>5. /\ Head(up) \in StartsOf(c) => At(up, StartsOf(c)) # {}
        /\ Sheds(up, up', StartsOf(c))
        /\ Single(At(up, StartsOf(c))) /\ Head(up) \in StartsOf(c) => At(up', StartsOf(c)) = {}
    BY <2>1, <2>2, AtUnread
  <2>6. From(m[pkt], c) => Head(up) \in StartsOf(c)
    BY <2>2, <2>4 DEF Packet, From, StartsOf
  <2>7. CASE ~From(m[pkt], c)
    <3>1. Sheds(qfifo, qfifo', Of(c, m))
      BY <2>1, <2>2, <2>4, <2>7, AtAppend, FromOf
    <3> QED
      BY <1>0, <2>5, <3>1, OnceKept
  <2>8. CASE From(m[pkt], c)
    <3>1. PICK k \in Stages, s \in Slots \union {NoSlot} : OnceAt(c, k, s, m)
      BY DEF Once
    <3>2. k = "up" /\ At(qfifo, Of(c, m)) = {} /\ At(up', StartsOf(c)) = {}
      BY <2>5, <2>6, <2>8, <3>1 DEF OnceAt
    <3>3. Single(At(qfifo', Of(c, m)))
      BY <2>1, <2>2, <2>4, <3>2, AtAppend
    <3>4. OnceAt(c, "queued", s, m)'
      BY <1>0, <3>1, <3>2, <3>3 DEF OnceAt, Single
    <3> QED
      BY <3>4 DEF Once, Stages
  <2> QED
    BY <2>7, <2>8
<1> QED
  BY <1>1, <1>2 DEF RxStep, RxThread

\* The queue of connection t stays, or is emptied.
Cut(t) == conn'[t].rx = conn[t].rx \/ conn'[t].rx = <<>>

LEMMA CutSheds ==
  ASSUME \A t \in Slots : Cut(t), NEW M
  PROVE  \A t \in Slots : Sheds(conn[t].rx, conn'[t].rx, M)
BY ShedsSame, AtEmpty DEF Cut

LEMMA ConnSheds ==
  ASSUME NEW s \in Slots, \A t \in Slots \ {s} : conn'[t] = conn[t], NEW M, Sheds(conn[s].rx, conn'[s].rx, M)
  PROVE  \A t \in Slots : Sheds(conn[t].rx, conn'[t].rx, M)
BY ShedsSame

LEMMA TakeCuts ==
  ASSUME NodeTypes, MemTypes, RouteTake
  PROVE  \A t \in Slots : Cut(t)
<1>1. PICK pkt : \/ Drops(pkt)
                 \/ \E s \in Slots : Matches(pkt, s)
                 \/ \E s \in Slots, port \in Ports, post \in {"due", "never"} : OpensNew(pkt, s, port, post)
  BY RouteTakeCases
<1>2. CASE conn' = conn
  BY <1>2 DEF Cut
<1>3. ASSUME NEW s \in Slots, NEW port \in Ports, NEW post \in {"due", "never"}, OpensNew(pkt, s, port, post)
      PROVE  \A t \in Slots : Cut(t)
  <2>1. /\ conn' = [conn EXCEPT ![s] = [open |-> TRUE, port |-> port, rx |-> <<>>, post |-> post]]
        /\ conn \in [Slots -> Entry]
    BY <1>3 DEF OpensNew, Opened, NodeTypes
  <2>2. conn'[s].rx = <<>> /\ \A t \in Slots \ {s} : conn'[t] = conn[t]
    BY <2>1
  <2> QED
    BY <2>2 DEF Cut
<1> QED
  BY <1>1, <1>2, <1>3 DEF Drops, Matches

LEMMA RouteTakeOnce ==
  ASSUME Parts, MemTypes, RouterStep, RouteTake, NEW c \in Clients, NEW m, Once(c, m)
  PROVE  Once(c, m)'
<1>0. NodeTypes /\ PoolOK(pool) /\ UNCHANGED <<up, main, request, runs, cl>> /\ Sheds(up, up', StartsOf(c))
  BY RouterFrame, ShedsSame DEF Parts, clientVars
<1>1. PICK pkt : /\ RouterTakes(pkt)
                 /\ \/ Drops(pkt)
                    \/ \E s \in Slots : Matches(pkt, s)
                    \/ \E s \in Slots, port \in Ports, post \in {"due", "never"} :
                         OpensNew(pkt, s, port, post)
  BY <1>0, RouteTakeCases
<1>2. /\ route.at = "idle" /\ qfifo # <<>> /\ pkt = Head(qfifo) /\ pkt \in Buffers /\ qfifo' = Tail(qfifo)
      /\ qfifo \in Seq(Buffers)
  BY <1>0, <1>1 DEF RouterTakes, NodeTypes
<1>3. \A t \in Slots : Sheds(conn[t].rx, conn'[t].rx, Of(c, m))
  BY <1>0, TakeCuts, CutSheds
<1>4. route'.at = "enqueue" => route'.pkt = pkt
  BY <1>1, <1>2 DEF Drops, Matches, OpensNew
<1>5. /\ At(qfifo, Of(c, m)) # {} <=> At(qfifo', Of(c, m)) # {} \/ pkt \in Of(c, m)
      /\ Sheds(qfifo, qfifo', Of(c, m))
      /\ Single(At(qfifo, Of(c, m))) /\ pkt \in Of(c, m) => At(qfifo', Of(c, m)) = {}
  BY <1>2, AtTail
<1>6. pkt \in Of(c, m) <=> From(m[pkt], c)
  BY <1>2, FromOf
<1>7. CASE ~From(m[pkt], c)
  BY <1>0, <1>3, <1>4, <1>5, <1>7, OnceKept
<1>8. CASE From(m[pkt], c)
  <2>1. PICK k \in Stages, s \in Slots \union {NoSlot} : OnceAt(c, k, s, m)
    BY DEF Once
  <2>2. k = "queued" /\ At(qfifo', Of(c, m)) = {} /\ Single(At(qfifo', Of(c, m)))
    BY <1>5, <1>6, <1>8, <2>1 DEF OnceAt, Single
  <2>3. OnceAt(c, "enqueue", s, m)'
    BY <1>0, <1>3, <2>1, <2>2 DEF OnceAt, Sheds
  <2> QED
    BY <2>3 DEF Once, Stages
<1> QED
  BY <1>7, <1>8

\* What csp_udp_new_packet does to the connection of its packet.
LEMMA EnqueueFacts ==
  ASSUME Parts, RouterStep, RouteEnqueue
  PROVE  LET s == route.slot IN
         /\ route.at = "enqueue" /\ s \in Slots /\ route.pkt \in Buffers /\ conn[s].rx \in Seq(Buffers)
         /\ \A t \in Slots \ {s} : conn'[t] = conn[t]
         /\ conn'[s].rx = Append(conn[s].rx, route.pkt)
         /\ route'.at # "enqueue"
         /\ UNCHANGED <<pool, qfifo>>
<1> DEFINE s == route.slot
           e == [conn[s] EXCEPT !.rx = Append(@, route.pkt)]
<1>1. /\ route.at = "enqueue" /\ s \in Slots /\ route.pkt \in Buffers /\ conn \in [Slots -> Entry]
      /\ conn' = [conn EXCEPT ![s] = e] /\ UNCHANGED <<pool, qfifo>>
  BY DEF RouteEnqueue, Parts, NodeTypes, ConnInv
<1>2. conn[s] \in Entry /\ conn[s].rx \in Seq(Buffers)
  BY <1>1 DEF Entry
<1>3. e.rx = Append(conn[s].rx, route.pkt)
  BY <1>2 DEF Entry
<1>4. route'.at # "enqueue"
  BY DEF RouteEnqueue, Idle
<1> HIDE DEF e
<1>5. conn'[s] = e /\ \A t \in Slots \ {s} : conn'[t] = conn[t]
  BY <1>1
<1> QED
  BY <1>1, <1>2, <1>3, <1>4, <1>5

LEMMA RouteEnqueueOnce ==
  ASSUME Parts, RouterStep, RouteEnqueue, NEW c \in Clients, NEW m, Once(c, m)
  PROVE  Once(c, m)'
<1> DEFINE s == route.slot
<1>1. /\ UNCHANGED <<up, main, request, runs, cl, qfifo>> /\ Sheds(up, up', StartsOf(c))
      /\ Sheds(qfifo, qfifo', Of(c, m))
  BY RouterFrame, EnqueueFacts, ShedsSame DEF clientVars
<1>2. /\ route.at = "enqueue" /\ s \in Slots /\ route.pkt \in Buffers /\ conn[s].rx \in Seq(Buffers)
      /\ (\A t \in Slots \ {s} : conn'[t] = conn[t])
      /\ conn'[s].rx = Append(conn[s].rx, route.pkt) /\ route'.at # "enqueue"
  BY EnqueueFacts
<1> HIDE DEF s
<1>3. route.pkt \in Of(c, m) <=> From(m[route.pkt], c)
  BY <1>2, FromOf
<1>4. CASE ~From(m[route.pkt], c)
  <2>1. Sheds(conn[s].rx, conn'[s].rx, Of(c, m))
    BY <1>2, <1>3, <1>4, AtAppend
  <2>2. \A t \in Slots : Sheds(conn[t].rx, conn'[t].rx, Of(c, m))
    BY <1>2, <2>1, ConnSheds
  <2> QED
    BY <1>1, <1>2, <2>2, OnceKept
<1>5. CASE From(m[route.pkt], c)
  <2>1. PICK k \in Stages, r \in Slots \union {NoSlot} : OnceAt(c, k, r, m)
    BY DEF Once
  <2>2. k = "enqueue"
    BY <1>2, <1>5, <2>1 DEF OnceAt
  <2>3. \A t \in Slots : At(conn[t].rx, Of(c, m)) = {}
    BY <2>1, <2>2 DEF OnceAt
  <2>4. Single(At(conn'[s].rx, Of(c, m)))
    <3>1. At(conn[s].rx, Of(c, m)) = {}
      BY <1>2, <2>3
    <3>2. Single(At(Append(conn[s].rx, route.pkt), Of(c, m)))
      BY <1>2, <3>1, AtAppend
    <3> QED
      BY <1>2, <3>2
  <2>5. ASSUME NEW t \in Slots
        PROVE  Single(At(conn'[t].rx, Of(c, m))) /\ (At(conn'[t].rx, Of(c, m)) # {} => t = s)
    <3>1. CASE t = s
      BY <2>4, <3>1
    <3>2. CASE t # s
      <4>1. At(conn'[t].rx, Of(c, m)) = {}
        BY <1>2, <2>3, <3>2
      <4> QED
        BY <4>1 DEF Single
    <3> QED
      BY <3>1, <3>2
  <2>6. PICK x \in Slots : x = s
    BY <1>2
  <2>7. OnceAt(c, "conn", x, m)'
    BY <1>1, <1>2, <2>1, <2>2, <2>5, <2>6 DEF OnceAt
  <2> QED
    BY <2>7 DEF Once, Stages
<1> QED
  BY <1>4, <1>5

\* csp_close of a connection.
LEMMA CloseCuts ==
  ASSUME Parts, NEW s \in Slots, NEW p, PoolOK(p), csp_close(s, p)
  PROVE  \A t \in Slots : Cut(t)
<1>1. conn \in [Slots -> Entry]
  BY DEF Parts, NodeTypes
<1>2. /\ \A t \in Slots \ {s} : conn'[t] = conn[t]
      /\ conn'[s].rx = <<>> \/ conn'[s].rx = conn[s].rx
  BY <1>1, CloseOK
<1> QED
  BY <1>2 DEF Cut

LEMMA PostCuts ==
  ASSUME Parts, RouterStep, RoutePost
  PROVE  /\ \A t \in Slots : Cut(t)
         /\ qfifo' = qfifo /\ route'.at = "idle"
<1> DEFINE s == route.slot
<1>1. s \in Slots /\ PoolOK(pool) /\ qfifo' = qfifo /\ route'.at = "idle" /\ conn \in [Slots -> Entry]
  BY DEF RoutePost, Parts, NodeTypes, ConnInv, Idle
<1>2. CASE conn' = [conn EXCEPT ![route.slot].post = "done"]
  <2> DEFINE e == [conn[s] EXCEPT !.post = "done"]
  <2>1. conn' = [conn EXCEPT ![s] = e]
    BY <1>2
  <2>2. e.rx = conn[s].rx
    BY <1>1 DEF Entry
  <2> HIDE DEF e
  <2>3. conn'[s].rx = conn[s].rx /\ \A t \in Slots \ {s} : conn'[t] = conn[t]
    BY <1>1, <2>1, <2>2
  <2> QED
    BY <1>1, <2>3 DEF Cut
<1>3. CASE csp_close(s, pool)
  BY <1>1, <1>3, CloseCuts
<1> QED
  BY <1>1, <1>2, <1>3 DEF RoutePost

LEMMA RoutePostOnce ==
  ASSUME Parts, RouterStep, RoutePost, NEW c \in Clients, NEW m, Once(c, m)
  PROVE  Once(c, m)'
<1>1. UNCHANGED <<up, main, request, runs, cl>> /\ Sheds(up, up', StartsOf(c))
  BY RouterFrame, ShedsSame DEF clientVars
<1>2. /\ \A t \in Slots : Sheds(conn[t].rx, conn'[t].rx, Of(c, m))
      /\ Sheds(qfifo, qfifo', Of(c, m)) /\ route'.at # "enqueue"
  BY PostCuts, CutSheds, ShedsSame
<1> QED
  BY <1>1, <1>2, OnceKept

LEMMA AcceptOnce ==
  ASSUME Parts, AcceptCommand, UNCHANGED clientVars, NEW c \in Clients, NEW m, m = mem, Once(c, m)
  PROVE  Once(c, m)'
<1> DEFINE s == Head(accepts)
           pkt == Head(conn[s].rx)
<1>1. /\ main = "accept" /\ main' = "close" /\ s \in Slots
      /\ conn[s].rx # <<>> /\ conn[s].rx \in Seq(Buffers) /\ pkt \in Buffers /\ request' = Contents(pkt)
      /\ (\A t \in Slots \ {s} : conn'[t] = conn[t])
      /\ conn'[s].rx = Tail(conn[s].rx)
      /\ UNCHANGED <<up, qfifo, route, runs>>
  BY AcceptFacts
<1> HIDE DEF s
<1>2. /\ cl' = cl /\ Sheds(up, up', StartsOf(c)) /\ Sheds(qfifo, qfifo', Of(c, m))
  BY <1>1, ShedsSame DEF clientVars
<1>3. /\ At(conn[s].rx, Of(c, m)) # {} <=> At(conn'[s].rx, Of(c, m)) # {} \/ pkt \in Of(c, m)
      /\ Sheds(conn[s].rx, conn'[s].rx, Of(c, m))
      /\ Single(At(conn[s].rx, Of(c, m))) /\ pkt \in Of(c, m) => At(conn'[s].rx, Of(c, m)) = {}
  BY <1>1, AtTail
<1>4. pkt \in Of(c, m) <=> From(request', c)
  BY <1>1, FromOf DEF Contents, From
<1>5. \A t \in Slots : Sheds(conn[t].rx, conn'[t].rx, Of(c, m))
  BY <1>1, <1>3, ConnSheds
<1> HIDE DEF pkt
<1>6. CASE ~From(request', c)
  BY <1>1, <1>2, <1>5, <1>6, OnceKept
<1>7. CASE From(request', c)
  <2>1. PICK k \in Stages, r \in Slots \union {NoSlot} : OnceAt(c, k, r, m)
    BY DEF Once
  <2>2. k = "conn" /\ r = s
    BY <1>1, <1>3, <1>4, <1>7, <2>1 DEF OnceAt
  <2>3. ASSUME NEW t \in Slots PROVE At(conn'[t].rx, Of(c, m)) = {} /\ Single(At(conn'[t].rx, Of(c, m)))
    <3>1. CASE t = s
      <4>1. At(conn'[t].rx, Of(c, m)) = {}
        BY <1>3, <1>4, <1>7, <2>1, <3>1 DEF OnceAt
      <4> QED
        BY <4>1 DEF Single
    <3>2. CASE t # s
      <4>1. At(conn'[t].rx, Of(c, m)) = {}
        BY <1>1, <2>1, <2>2, <3>2 DEF OnceAt
      <4> QED
        BY <4>1 DEF Single
    <3> QED
      BY <3>1, <3>2
  <2>4. OnceAt(c, "taken", NoSlot, m)'
    BY <1>1, <1>2, <2>1, <2>2, <2>3 DEF OnceAt
  <2> QED
    BY <2>4 DEF Once, Stages
<1> QED
  BY <1>6, <1>7

LEMMA QuietMainOnce ==
  ASSUME Parts, QuietMain, UNCHANGED clientVars, NEW c \in Clients, NEW m, Once(c, m)
  PROVE  Once(c, m)'
<1>1. /\ UNCHANGED <<up, qfifo, route, conn, request, cl>> /\ main' \notin {"close", "parse"}
      /\ runs' = runs \/ runs' = [runs EXCEPT ![request.from] = @ + 1]
  BY QuietMainFrame DEF clientVars
<1>2. /\ Sheds(up, up', StartsOf(c)) /\ Sheds(qfifo, qfifo', Of(c, m))
      /\ \A t \in Slots : Sheds(conn[t].rx, conn'[t].rx, Of(c, m))
  BY <1>1, ShedsSame
<1>3. CASE runs'[c] = runs[c]
  BY <1>1, <1>2, <1>3, OnceKept
<1>4. CASE runs'[c] # runs[c]
  <2>1. CommandStarts
    BY <1>4 DEF QuietMain, DaemonStart, DaemonBind, DaemonListen, RejectCommand, RefuseCommand,
                CommandNotStarted, CommandEnds
  <2>2. /\ main = "parse" /\ request \notin {Noise, Answer} /\ runs' = [runs EXCEPT ![request.from] = @ + 1]
        /\ runs \in [Clients -> Nat]
    BY <2>1, AnswerAssumption DEF CommandStarts, Parsing, Parts, MainTypes
  <2>3. request.from = c /\ runs'[c] = runs[c] + 1 /\ runs[c] \in Nat
    BY <1>4, <2>2
  <2>4. PICK k \in Stages, s \in Slots \union {NoSlot} : OnceAt(c, k, s, m)
    BY DEF Once
  <2>5. k = "taken"
    BY <2>2, <2>3, <2>4 DEF OnceAt, From
  <2>6. ~(runs[c] > 0)
    BY <2>4, <2>5 DEF OnceAt
  <2>7. runs'[c] <= 1
    BY <2>3, <2>6
  <2>8. OnceAt(c, "ran", s, m)'
    BY <1>1, <1>2, <2>4, <2>5, <2>7 DEF OnceAt, Sheds
  <2> QED
    BY <2>8 DEF Once, Stages
<1> QED
  BY <1>3, <1>4

\* What the rest of main does to the queues.
LEMMA MainCuts ==
  ASSUME Parts, CloseCommand \/ Connect \/ Send \/ Release
  PROVE  /\ \A t \in Slots : Cut(t)
         /\ UNCHANGED <<up, qfifo, route, request, runs>>
         /\ main' \in {"close", "parse"} => main \in {"close", "parse"}
<1>1. UNCHANGED <<up, qfifo, route, request, runs>>
  BY DEF CloseCommand, Connect, Send, Release
<1>2. main' \in {"close", "parse"} => main \in {"close", "parse"}
  BY DEF CloseCommand, Connect, Send, Release, NextCommand
<1>3. conn \in [Slots -> Entry] /\ PoolOK(pool) /\ (main \in {"close", "release"} => held \in Slots)
  BY DEF Parts, NodeTypes, ConnInv
<1>4. CASE conn' = conn
  BY <1>1, <1>2, <1>4 DEF Cut
<1>5. CASE CloseCommand
  <2>1. csp_close(held, pool) /\ held \in Slots
    BY <1>3, <1>5 DEF CloseCommand
  <2> QED
    BY <1>1, <1>2, <1>3, <2>1, CloseCuts
<1>6. CASE Release
  <2>1. csp_close(held, csp_buffer_free(pool, out)) /\ held \in Slots /\ out \in Buffers
    BY <1>3, <1>6 DEF Release, Parts, MainTypes
  <2>2. PoolOK(csp_buffer_free(pool, out))
    BY <1>3, <2>1, FreeOK
  <2> QED
    BY <1>1, <1>2, <2>1, <2>2, CloseCuts
<1>7. ASSUME NEW s \in Slots, conn' = Opened(s, NoPort, "never")
      PROVE  \A t \in Slots : Cut(t)
  <2>1. conn' = [conn EXCEPT ![s] = [open |-> TRUE, port |-> NoPort, rx |-> <<>>, post |-> "never"]]
    BY <1>7 DEF Opened
  <2>2. conn'[s].rx = <<>> /\ \A t \in Slots \ {s} : conn'[t] = conn[t]
    BY <1>3, <2>1
  <2> QED
    BY <2>2 DEF Cut
<1>8. CASE Connect
  <2>1. conn' = conn \/ \E s \in Slots : conn' = Opened(s, NoPort, "never")
    BY <1>8 DEF Connect, FreeSlots
  <2> QED
    BY <1>1, <1>2, <1>4, <1>7, <2>1
<1>9. CASE Send
  BY <1>4, <1>9 DEF Send
<1> QED
  BY <1>5, <1>6, <1>8, <1>9

LEMMA MainOnce ==
  ASSUME Parts, MainStep, NEW c \in Clients, NEW m, AcceptCommand => m = mem, Once(c, m)
  PROVE  Once(c, m)'
<1>0. UNCHANGED clientVars /\ cl' = cl
  BY DEF MainStep, clientVars
<1>1. CASE CloseCommand \/ Connect \/ Send \/ Release
  <2>1. /\ \A t \in Slots : Cut(t)
        /\ UNCHANGED <<up, qfifo, route, request, runs>>
        /\ main' \in {"close", "parse"} => main \in {"close", "parse"}
    BY <1>1, MainCuts
  <2>2. /\ Sheds(up, up', StartsOf(c)) /\ Sheds(qfifo, qfifo', Of(c, m))
        /\ \A t \in Slots : Sheds(conn[t].rx, conn'[t].rx, Of(c, m))
    BY <2>1, ShedsSame, CutSheds
  <2> QED
    BY <1>0, <2>1, <2>2, OnceKept
<1> QED
  BY <1>0, <1>1, QuietMainOnce, AcceptOnce DEF MainStep, MainThread, QuietMain

LEMMA FrameStarts ==
  ASSUME UpTypes, NEW m \in Requests, NEW c \in Clients
  PROVE  \A i : i \in At(up \o Frame(m), StartsOf(c))
                  <=> i \in At(up, StartsOf(c)) \/ (i = Len(up) + 1 /\ m.from = c)
<1> DEFINE n == m.size
           f == Frame(m)
<1>1. up \in Seq(Cells) /\ n = RequestSize /\ n \in Nat \ {0}
  BY ClientAssumption DEF UpTypes, Cells, Requests
<1>2. f \in Seq(Cells)
  <2>1. f \in Seq([msg : Requests, at : 1..RequestSize])
    BY <1>1, FrameType
  <2> QED
    BY <2>1 DEF Cells
<1>3. DOMAIN f = 1..n /\ Len(f) = n /\ \A i \in 1..n : f[i] = [msg |-> m, at |-> i]
  <2>1. f = [i \in 1..n |-> [msg |-> m, at |-> i]]
    BY DEF Frame
  <2> HIDE DEF f, n
  <2>2. DOMAIN f = 1..n /\ \A i \in 1..n : f[i] = [msg |-> m, at |-> i]
    BY <2>1
  <2>3. Len(f) \in Nat /\ DOMAIN f = 1..Len(f)
    BY <1>2
  <2>4. Len(f) = n
    BY <1>1, <2>2, <2>3
  <2> QED
    BY <2>2, <2>4
<1> HIDE DEF f, n
<1>4. /\ Len(up) \in Nat /\ DOMAIN up = 1..Len(up) /\ DOMAIN (up \o f) = 1..Len(up) + n
      /\ \A i \in 1..Len(up) : (up \o f)[i] = up[i]
      /\ \A i \in Len(up) + 1..Len(up) + n : (up \o f)[i] = f[i - Len(up)]
  BY <1>1, <1>2, <1>3
<1>5. \A i \in 1..n : f[i].at = i /\ f[i].msg = m /\ f[i] \in Cells
  BY <1>2, <1>3
<1>6. \A i \in 1..n : f[i] \in StartsOf(c) <=> i = 1 /\ m.from = c
  BY <1>5 DEF StartsOf
<1>7. \A i \in Len(up) + 1..Len(up) + n : i - Len(up) \in 1..n /\ (i - Len(up) = 1 <=> i = Len(up) + 1)
  BY <1>1, <1>4
<1>8. \A i \in 1..Len(up) + n : i \in 1..Len(up) \/ i \in Len(up) + 1..Len(up) + n
  BY <1>1, <1>4
<1>9. Len(up) + 1 \in Len(up) + 1..Len(up) + n /\ Len(up) + 1 \in 1..Len(up) + n
      /\ \A i \in 1..Len(up) : i \in 1..Len(up) + n
  BY <1>1, <1>4
<1>10. \A i : i \in At(up \o f, StartsOf(c)) => i \in At(up, StartsOf(c)) \/ (i = Len(up) + 1 /\ m.from = c)
  BY <1>4, <1>6, <1>7, <1>8 DEF At
<1>11. \A i : i \in At(up, StartsOf(c)) => i \in At(up \o f, StartsOf(c))
  BY <1>4, <1>9 DEF At
<1>12. m.from = c => Len(up) + 1 \in At(up \o f, StartsOf(c))
  BY <1>4, <1>6, <1>7, <1>9 DEF At
<1> QED
  BY <1>10, <1>11, <1>12 DEF f

LEMMA ClientOnce ==
  ASSUME Parts, NEW d \in Clients, ClientStep(d), NEW c \in Clients, NEW m, Once(c, m)
  PROVE  Once(c, m)'
<1>1. /\ UNCHANGED <<qfifo, route, conn, main, request, runs>>
      /\ up' = up \/ up' = <<>> \/ ClientSends(d)
  BY DEF ClientStep, ClientMain, ClientStart, ClientReads, ClientRoutes, ClientGivesUp, ClientListens,
         ClientShows, ClientTimesOut, ClientEnds, ClientSends, cspVars, daemonVars
<1>2. /\ Sheds(qfifo, qfifo', Of(c, m)) /\ \A t \in Slots : Sheds(conn[t].rx, conn'[t].rx, Of(c, m))
  BY <1>1, ShedsSame
<1>3. cl \in [Clients -> ClientState]
  BY DEF Parts, ClientTypes
<1>4. cl'[c] \in {"idle", "encode"} => cl[c] \in {"idle", "encode"}
  BY <1>3 DEF ClientStep, ClientMain, ClientStart, ClientReads, ClientRoutes, ClientGivesUp, ClientListens,
         ClientShows, ClientTimesOut, ClientEnds, ClientSends
<1>5. CASE up' = up \/ up' = <<>>
  <2>1. Sheds(up, up', StartsOf(c))
    BY <1>5, ShedsSame, AtEmpty
  <2> QED
    BY <1>1, <1>2, <1>4, <2>1, OnceKept
<1>6. CASE ClientSends(d)
  <2>1. /\ cl[d] = "encode" /\ up' = up \o Frame(asked[d]) /\ cl' = [cl EXCEPT ![d] = "sent"]
        /\ asked[d] \in Requests /\ asked[d].from = d
    BY <1>6 DEF ClientSends, Parts, ClientTypes
  <2>2. \A i : i \in At(up', StartsOf(c)) <=> i \in At(up, StartsOf(c)) \/ (i = Len(up) + 1 /\ d = c)
    BY <2>1, FrameStarts DEF Parts
  <2>3. CASE c # d
    <3>1. Sheds(up, up', StartsOf(c))
      BY <2>2, <2>3 DEF Sheds, Single
    <3> QED
      BY <1>1, <1>2, <1>4, <3>1, OnceKept
  <2>4. CASE c = d
    <3>1. PICK k \in Stages, s \in Slots \union {NoSlot} : OnceAt(c, k, s, m)
      BY DEF Once
    <3>2. k = "none"
      BY <2>1, <2>4, <3>1 DEF OnceAt
    <3>3. At(up, StartsOf(c)) = {}
      BY <3>1, <3>2 DEF OnceAt
    <3>4. Single(At(up', StartsOf(c)))
      BY <2>2, <3>3 DEF Single
    <3>5. cl'[c] = "sent"
      BY <1>3, <2>1, <2>4
    <3>6. OnceAt(c, "up", s, m)'
      BY <1>1, <1>2, <3>1, <3>2, <3>4, <3>5 DEF OnceAt, Sheds
    <3> QED
      BY <3>6 DEF Once, Stages
  <2> QED
    BY <2>3, <2>4
<1> QED
  BY <1>1, <1>5, <1>6

(***************************************************************************)
(* KindInv: what a request and a response say stays true of its client.    *)
(***************************************************************************)

\* Every member of p is one of q, or x.
Within(p, q, x) == \A i \in DOMAIN p : p[i] = x \/ \E j \in DOMAIN q : p[i] = q[j]

LEMMA WithinAppend ==
  ASSUME NEW S, NEW q \in Seq(S), NEW x \in S
  PROVE  Within(Append(q, x), q, x)
<1>1. /\ Len(q) \in Nat /\ DOMAIN q = 1..Len(q) /\ DOMAIN Append(q, x) = 1..Len(q) + 1
      /\ Append(q, x)[Len(q) + 1] = x /\ \A i \in 1..Len(q) : Append(q, x)[i] = q[i]
  OBVIOUS
<1> QED
  BY <1>1 DEF Within

LEMMA WithinTail ==
  ASSUME NEW S, NEW q \in Seq(S), q # <<>>, NEW x
  PROVE  Within(Tail(q), q, x) /\ 1 \in DOMAIN q /\ Head(q) = q[1]
<1>1. /\ Len(q) \in Nat /\ Len(q) # 0 /\ DOMAIN q = 1..Len(q) /\ DOMAIN Tail(q) = 1..Len(q) - 1
      /\ Head(q) = q[1] /\ \A i \in 1..Len(q) - 1 : Tail(q)[i] = q[i + 1]
  OBVIOUS
<1>2. \A i \in 1..Len(q) - 1 : i + 1 \in 1..Len(q)
  BY <1>1
<1> QED
  BY <1>1, <1>2 DEF Within

LEMMA WithinUnread ==
  ASSUME NEW S, NEW q \in Seq(S), q # <<>>, NEW x
  PROVE  Within(Unread(q), q, x) /\ 1 \in DOMAIN q /\ Head(q) = q[1]
BY UnreadFacts DEF Within

LEMMA FrameMembers ==
  ASSUME NEW S, NEW q \in Seq(S), NEW m, m.size \in Nat, Frame(m) \in Seq(S)
  PROVE  \A i \in DOMAIN (q \o Frame(m)) :
           (q \o Frame(m))[i].msg = m \/ \E j \in DOMAIN q : (q \o Frame(m))[i] = q[j]
<1> DEFINE f == Frame(m)
           n == m.size
<1>1. DOMAIN f = 1..n /\ \A i \in 1..n : f[i].msg = m
  <2>1. f = [i \in 1..n |-> [msg |-> m, at |-> i]]
    BY DEF Frame
  <2> HIDE DEF f, n
  <2> QED
    BY <2>1
<1> HIDE DEF f, n
<1>2. f \in Seq(S)
  BY DEF f
<1>3. Len(f) \in Nat /\ DOMAIN f = 1..Len(f)
  BY <1>2
<1>4. /\ Len(q) \in Nat /\ DOMAIN q = 1..Len(q) /\ DOMAIN (q \o f) = 1..Len(q) + Len(f)
      /\ \A i \in 1..Len(q) : (q \o f)[i] = q[i]
      /\ \A i \in Len(q) + 1..Len(q) + Len(f) : (q \o f)[i] = f[i - Len(q)]
  BY <1>2, <1>3
<1>5. \A i \in Len(q) + 1..Len(q) + Len(f) : i - Len(q) \in DOMAIN f
  BY <1>3, <1>4
<1>6. \A i \in 1..Len(q) + Len(f) : i \in 1..Len(q) \/ i \in Len(q) + 1..Len(q) + Len(f)
  BY <1>3, <1>4
<1> QED
  BY <1>1, <1>4, <1>5, <1>6 DEF f

\* Asked and Fits after a step.
AskedNext(m) == m \notin {Noise, Answer} => cl'[m.from] # "idle" /\ m.cmd = asked'[m.from].cmd
FitsNext(r) ==
  r \notin {Noise, NoReply} =>
    /\ cl'[r.for] # "idle"
    /\ IF r.kind = "error" THEN asked'[r.for].cmd.path # "ok" ELSE runs'[r.for] > 0

LEMMA ClientsKeep ==
  ASSUME Parts, [Next]_vars, NEW c \in Clients, cl[c] # "idle"
  PROVE  cl'[c] # "idle" /\ asked'[c] = asked[c]
<1>1. cl \in [Clients -> ClientState] /\ asked \in [Clients -> Requests \union {NoRequest}]
  BY DEF Parts, ClientTypes
<1>2. CASE UNCHANGED clientVars
  BY <1>2 DEF clientVars
<1>3. ASSUME NEW d \in Clients, ClientStep(d) PROVE cl'[c] # "idle" /\ asked'[c] = asked[c]
  <2>1. CASE \E cmd \in Commands, port \in Ports : ClientStart(d, cmd, port)
    BY <1>1, <2>1 DEF ClientStart
  <2>2. CASE ClientReads(d) \/ ClientRoutes(d) \/ ClientMain(d)
    BY <1>1, <2>2 DEF ClientMain, ClientReads, ClientRoutes, ClientGivesUp, ClientListens, ClientShows,
                      ClientTimesOut, ClientEnds, ClientSends
  <2> QED
    BY <1>3, <2>1, <2>2 DEF ClientStep
<1> QED
  BY <1>2, <1>3, NextCases DEF vars, RxStep, RouterStep, MainStep

\* Only the command main has parsed is run.
LEMMA RunsNext ==
  ASSUME CoreInv, [Next]_vars
  PROVE  /\ runs' = runs \/ (CommandStarts /\ runs' = [runs EXCEPT ![request.from] = @ + 1])
         /\ \A c \in Clients : runs[c] > 0 => runs'[c] > 0
<1>1. runs' = runs \/ (CommandStarts /\ runs' = [runs EXCEPT ![request.from] = @ + 1])
  BY NextCases DEF vars, daemonVars, RxStep, RouterStep, MainStep, MainThread, ClientStep, ClientMain, ClientStart,
       ClientReads, ClientRoutes, ClientGivesUp, ClientListens, ClientShows, ClientTimesOut, ClientEnds, ClientSends,
       DaemonStart, DaemonBind, DaemonListen, AcceptCommand, CloseCommand, RejectCommand, RefuseCommand,
       CommandNotStarted, CommandStarts, CommandEnds, Connect, Send, Release
<1>2. runs \in [Clients -> Nat]
  BY DEF CoreInv, TypeOK
<1>3. \A c \in Clients : runs'[c] = runs[c] \/ runs'[c] = runs[c] + 1
  BY <1>1, <1>2
<1> QED
  BY <1>1, <1>2, <1>3

LEMMA KeptNext ==
  ASSUME CoreInv, [Next]_vars
  PROVE  /\ \A m \in Requests \union {Noise, Answer} : Asked(m) => AskedNext(m)
         /\ \A r \in Replies \union {Noise, NoReply} : Fits(r) => FitsNext(r)
<1>0. Parts
  BY CoreParts
<1>1. ASSUME NEW m \in Requests \union {Noise, Answer}, Asked(m) PROVE AskedNext(m)
  <2> SUFFICES ASSUME m \notin {Noise, Answer}
               PROVE  cl'[m.from] # "idle" /\ m.cmd = asked'[m.from].cmd
    BY DEF AskedNext
  <2>1. m.from \in Clients /\ cl[m.from] # "idle" /\ m.cmd = asked[m.from].cmd
    BY <1>1 DEF Asked, Requests
  <2> QED
    BY <1>0, <2>1, ClientsKeep
<1>2. ASSUME NEW r \in Replies \union {Noise, NoReply}, Fits(r) PROVE FitsNext(r)
  <2> SUFFICES ASSUME r \notin {Noise, NoReply}
               PROVE  /\ cl'[r.for] # "idle"
                      /\ IF r.kind = "error" THEN asked'[r.for].cmd.path # "ok" ELSE runs'[r.for] > 0
    BY DEF FitsNext
  <2>1. /\ r.for \in Clients /\ cl[r.for] # "idle"
        /\ IF r.kind = "error" THEN asked[r.for].cmd.path # "ok" ELSE runs[r.for] > 0
    BY <1>2 DEF Fits, Replies
  <2>2. cl'[r.for] # "idle" /\ asked'[r.for] = asked[r.for]
    BY <1>0, <2>1, ClientsKeep
  <2>3. runs[r.for] > 0 => runs'[r.for] > 0
    BY <2>1, RunsNext
  <2> QED
    BY <2>1, <2>2, <2>3
<1> QED
  BY <1>1, <1>2

(* What a step changes, one variable at a time. *)

LEMMA UpChanges ==
  ASSUME Parts, [Next]_vars
  PROVE  \/ up' = up \/ up' = <<>> \/ (up # <<>> /\ up' = Unread(up))
         \/ \E d \in Clients : ClientSends(d)
<1>1. CASE UNCHANGED vars
  BY <1>1 DEF vars, cspVars
<1>2. CASE RxStep
  BY <1>2 DEF RxStep, RxThread, RxGet, RxRead
<1>3. CASE RouterStep
  BY <1>3, RouterFrame
<1>4. CASE MainStep
  BY <1>4, MainCuts, QuietMainFrame, AcceptFacts DEF MainStep, MainThread, QuietMain
<1>5. ASSUME NEW d \in Clients, ClientStep(d) PROVE up' = up \/ up' = <<>> \/ ClientSends(d)
  BY <1>5 DEF ClientStep, ClientMain, ClientStart, ClientReads, ClientRoutes, ClientGivesUp, ClientListens,
              ClientShows, ClientTimesOut, ClientEnds, cspVars
<1> QED
  BY <1>1, <1>2, <1>3, <1>4, <1>5, NextCases

LEMMA QueueChanges ==
  ASSUME Parts, [Next]_vars
  PROVE  \/ qfifo' = qfifo \/ (qfifo # <<>> /\ qfifo' = Tail(qfifo))
         \/ /\ RxRead /\ up # <<>> /\ rx.buf \in Buffers
            /\ qfifo' = Append(qfifo, rx.buf)
<1>1. CASE UNCHANGED vars
  BY <1>1 DEF vars, cspVars
<1>2. CASE RxStep
  BY <1>2 DEF RxStep, RxThread, RxGet, RxRead, Parts, NodeTypes
<1>3. CASE RouterStep
  BY <1>3, EnqueueFacts, PostCuts DEF RouterStep, Router, RouteTake
<1>4. CASE MainStep
  BY <1>4, MainCuts, QuietMainFrame, AcceptFacts DEF MainStep, MainThread, QuietMain
<1>5. ASSUME NEW d \in Clients, ClientStep(d) PROVE qfifo' = qfifo
  BY <1>5 DEF ClientStep, ClientMain, ClientStart, ClientReads, ClientRoutes, ClientGivesUp, ClientListens,
              ClientShows, ClientTimesOut, ClientEnds, ClientSends, cspVars
<1> QED
  BY <1>1, <1>2, <1>3, <1>4, <1>5, NextCases

LEMMA ConnChanges ==
  ASSUME Parts, MemTypes, [Next]_vars, NEW t \in Slots
  PROVE  /\ conn[t].rx \in Seq(Buffers)
         /\ \/ Cut(t)
            \/ conn[t].rx # <<>> /\ conn'[t].rx = Tail(conn[t].rx)
            \/ route.pkt \in Buffers /\ conn'[t].rx = Append(conn[t].rx, route.pkt)
<1>0. NodeTypes /\ conn[t].rx \in Seq(Buffers)
  BY DEF Parts, NodeTypes, Entry
<1>1. CASE conn' = conn
  BY <1>0, <1>1 DEF Cut
<1>2. CASE RouterStep
  <2>1. CASE RouteEnqueue
    BY <1>0, <1>2, <2>1, EnqueueFacts DEF Cut
  <2> QED
    BY <1>0, <1>2, <2>1, TakeCuts, PostCuts DEF RouterStep, Router
<1>3. CASE MainStep
  <2>1. CASE AcceptCommand
    BY <1>0, <2>1, AcceptFacts DEF Cut
  <2>2. CASE QuietMain
    BY <1>1, <2>2, QuietMainFrame
  <2> QED
    BY <1>0, <1>3, <2>1, <2>2, MainCuts DEF MainStep, MainThread, QuietMain
<1>4. CASE RxStep
  BY <1>1, <1>4 DEF RxStep, RxThread, RxGet, RxRead
<1>5. ASSUME NEW d \in Clients, ClientStep(d) PROVE conn' = conn
  BY <1>5 DEF ClientStep, ClientMain, ClientStart, ClientReads, ClientRoutes, ClientGivesUp, ClientListens,
              ClientShows, ClientTimesOut, ClientEnds, ClientSends, cspVars
<1>6. CASE UNCHANGED vars
  BY <1>1, <1>6 DEF vars, cspVars
<1> QED
  BY <1>1, <1>2, <1>3, <1>4, <1>5, <1>6, NextCases

LEMMA RouteChanges ==
  ASSUME Parts, MemTypes, [Next]_vars
  PROVE  \/ route' = route \/ route'.pkt = NoBuf
         \/ route.at = "idle" /\ qfifo # <<>> /\ route'.pkt = Head(qfifo)
<1>1. CASE UNCHANGED vars
  BY <1>1 DEF vars, cspVars
<1>2. CASE RxStep
  BY <1>2 DEF RxStep, RxThread, RxGet, RxRead
<1>3. CASE RouterStep
  <2>1. CASE RouteTake
    BY <2>1, RouteTakeCases DEF Parts, RouterTakes, Drops, Matches, OpensNew
  <2>2. CASE RouteEnqueue \/ RoutePost
    BY <2>2 DEF RouteEnqueue, RoutePost, Idle
  <2> QED
    BY <1>3, <2>1, <2>2 DEF RouterStep, Router
<1>4. CASE MainStep
  BY <1>4, MainCuts, QuietMainFrame, AcceptFacts DEF MainStep, MainThread, QuietMain
<1>5. ASSUME NEW d \in Clients, ClientStep(d) PROVE route' = route
  BY <1>5 DEF ClientStep, ClientMain, ClientStart, ClientReads, ClientRoutes, ClientGivesUp, ClientListens,
              ClientShows, ClientTimesOut, ClientEnds, ClientSends, cspVars
<1> QED
  BY <1>1, <1>2, <1>3, <1>4, <1>5, NextCases

LEMMA MainStays ==
  ASSUME Parts, [Next]_vars
  PROVE  \/ UNCHANGED <<main, request, err, reply, out, runs>>
         \/ MainStep
<1>1. CASE UNCHANGED vars
  BY <1>1 DEF vars, daemonVars
<1>2. CASE RxStep
  BY <1>2 DEF RxStep, daemonVars
<1>3. CASE RouterStep
  BY <1>3, RouterFrame
<1>4. ASSUME NEW d \in Clients, ClientStep(d) PROVE UNCHANGED <<main, request, err, reply, out, runs>>
  BY <1>4 DEF ClientStep, ClientMain, ClientStart, ClientReads, ClientRoutes, ClientGivesUp, ClientListens,
              ClientShows, ClientTimesOut, ClientEnds, ClientSends, daemonVars
<1> QED
  BY <1>1, <1>2, <1>3, <1>4, NextCases

LEMMA DownChanges ==
  ASSUME Parts, [Next]_vars
  PROVE  \/ down' = down \/ down' = <<>> \/ (down # <<>> /\ down' = Unread(down))
         \/ main = "send" /\ reply \in Replies /\ down' = down \o Frame(reply)
         \/ down' = Append(down, [msg |-> Noise, at |-> 1])
<1>1. CASE UNCHANGED vars
  BY <1>1 DEF vars
<1>2. CASE RxStep
  BY <1>2 DEF RxStep
<1>3. CASE RouterStep
  BY <1>3, RouterFrame
<1>4. CASE MainStep
  <2>1. ASSUME NEW x PROVE down \o <<x>> = Append(down, x)
    BY DEF Parts, DownTypes
  <2>2. CASE Send
    BY <2>1, <2>2 DEF Send, Parts, MainTypes
  <2> QED
    BY <1>4, <2>2, QuietMainFrame, AcceptFacts
       DEF MainStep, MainThread, QuietMain, CloseCommand, Connect, Release
<1>5. ASSUME NEW d \in Clients, ClientStep(d)
      PROVE  down' = down \/ down' = <<>> \/ (down # <<>> /\ down' = Unread(down))
  BY <1>5 DEF ClientStep, ClientMain, ClientStart, ClientReads, ClientRoutes, ClientGivesUp, ClientListens,
              ClientShows, ClientTimesOut, ClientEnds, ClientSends
<1> QED
  BY <1>1, <1>2, <1>3, <1>4, <1>5, NextCases

(* The requests. *)

LEMMA UpAsked ==
  ASSUME CoreInv, KindInv, [Next]_vars
  PROVE  \A i \in DOMAIN up' : AskedNext(up'[i].msg)
<1>0. Parts /\ up \in Seq(Cells) /\ \A i \in DOMAIN up : Asked(up[i].msg)
  BY CoreParts DEF Parts, UpTypes, Cells, KindInv
<1>1. \A i \in DOMAIN up : AskedNext(up[i].msg)
  <2> SUFFICES ASSUME NEW i \in DOMAIN up PROVE AskedNext(up[i].msg)
    OBVIOUS
  <2>1. up[i] \in Cells
    BY <1>0
  <2>2. up[i].msg \in Requests \union {Noise}
    BY <2>1 DEF Cells
  <2> QED
    BY <1>0, <2>2, KeptNext
<1>2. CASE up' = up \/ up' = <<>>
  BY <1>1, <1>2
<1>3. CASE up # <<>> /\ up' = Unread(up)
  <2>1. Within(up', up, up[1]) /\ 1 \in DOMAIN up
    BY <1>0, <1>3, WithinUnread
  <2> QED
    BY <1>1, <2>1 DEF Within
<1>4. ASSUME NEW d \in Clients, ClientSends(d) PROVE \A i \in DOMAIN up' : AskedNext(up'[i].msg)
  <2>1. /\ up' = up \o Frame(asked[d]) /\ cl' = [cl EXCEPT ![d] = "sent"] /\ asked' = asked
        /\ asked[d] \in Requests /\ asked[d].from = d /\ cl \in [Clients -> ClientState]
    BY <1>0, <1>4 DEF ClientSends, Parts, ClientTypes
  <2>2. AskedNext(asked[d])
    BY <2>1 DEF AskedNext
  <2>3. asked[d].size \in Nat \ {0} /\ asked[d].size = RequestSize
    BY <2>1, ClientAssumption DEF Requests
  <2>4. Frame(asked[d]) \in Seq(Cells)
    <3>1. Frame(asked[d]) \in Seq([msg : Requests, at : 1..RequestSize])
      BY <2>1, <2>3, FrameType
    <3> QED
      BY <3>1 DEF Cells
  <2>5. \A i \in DOMAIN up' : up'[i].msg = asked[d] \/ \E j \in DOMAIN up : up'[i] = up[j]
    BY <1>0, <2>1, <2>3, <2>4, FrameMembers
  <2> QED
    BY <1>1, <2>2, <2>5
<1> QED
  BY <1>0, <1>2, <1>3, <1>4, UpChanges

LEMMA MemAsked ==
  ASSUME CoreInv, KindInv, [Next]_vars
  PROVE  /\ \A b \in Buffers : AskedNext(mem[b]) /\ AskedNext(mem'[b])
         /\ AskedNext(request)
<1>0. Parts /\ MemTypes /\ up \in Seq(Cells)
  BY CoreParts DEF Parts, UpTypes, Cells
<1>1. \A b \in Buffers : AskedNext(mem[b])
  BY <1>0, KeptNext DEF KindInv, MemTypes
<1>2. AskedNext(request)
  BY <1>0, KeptNext DEF KindInv, Parts, MainTypes
<1>3. ASSUME NEW b \in Buffers, Refills(b) PROVE \A x \in Buffers : AskedNext(mem'[x])
  <2>1. 1 \in DOMAIN up /\ Head(up) = up[1] /\ up[1] \in Cells
    BY <1>0, <1>3 DEF Refills
  <2>2. AskedNext(up[1].msg)
    BY <2>1, KeptNext DEF KindInv, Cells
  <2>3. AskedNext(Packet(up))
    BY <2>1, <2>2 DEF Packet, AskedNext
  <2> QED
    BY <1>0, <1>1, <1>3, <2>3 DEF Refills, MemTypes
<1>4. ASSUME NEW b \in Buffers, Recovers(b) PROVE \A x \in Buffers : AskedNext(mem'[x])
  <2>1. mem[b] \in Requests
    BY <1>0, <1>4 DEF Recovers, Contents, MemTypes
  <2>2. PICK port \in Ports : mem' = [mem EXCEPT ![b].port = port]
    BY <1>4 DEF Recovers
  <2> DEFINE m == [mem[b] EXCEPT !.port = port]
  <2>3. m.from = mem[b].from /\ m.cmd = mem[b].cmd
    BY <2>1 DEF Requests
  <2>4. mem' = [mem EXCEPT ![b] = m]
    BY <2>2
  <2> HIDE DEF m
  <2>5. mem[b] \notin {Noise, Answer}
    BY <1>4 DEF Recovers, Contents
  <2>6. AskedNext(m)
    BY <1>1, <2>3, <2>5 DEF AskedNext
  <2> QED
    BY <1>0, <1>1, <2>4, <2>6 DEF MemTypes
<1>5. ASSUME NEW b \in Buffers, Fills(b) PROVE \A x \in Buffers : AskedNext(mem'[x])
  BY <1>1, <1>5 DEF Fills, AskedNext
<1>6. ASSUME KeepsMem PROVE \A x \in Buffers : AskedNext(mem'[x])
  BY <1>1, <1>6 DEF KeepsMem
<1>7. \A x \in Buffers : AskedNext(mem'[x])
  <2>1. KeepsMem \/ \E b \in Buffers : Refills(b) \/ Recovers(b) \/ Fills(b)
    BY <1>0, MemChanges
  <2> QED
    BY <1>3, <1>4, <1>5, <1>6, <2>1
<1> QED
  BY <1>1, <1>2, <1>7

LEMMA RequestAsked ==
  ASSUME CoreInv, KindInv, [Next]_vars
  PROVE  AskedNext(request')
<1>0. Parts
  BY CoreParts
<1>1. CASE request' = request
  BY <1>1, MemAsked
<1>2. CASE AcceptCommand
  <2>1. PICK b \in Buffers : request' = Contents(b)
    BY <1>0, <1>2, AcceptFacts
  <2> QED
    BY <2>1, MemAsked DEF Contents, AskedNext
<1>3. CASE MainStep /\ ~AcceptCommand
  BY <1>0, <1>1, <1>3, QuietMainFrame, MainCuts DEF MainStep, MainThread, QuietMain
<1> QED
  BY <1>0, <1>1, <1>2, <1>3, MainStays

(* The responses. *)

LEMMA ReplyFits ==
  ASSUME CoreInv, KindInv, [Next]_vars
  PROVE  /\ FitsNext(reply')
         /\ main' \notin {"respond", "send", "release"} => ~err'
         /\ main' = "running" => request' # Noise /\ runs'[request'.from] > 0
<1>0. /\ Parts /\ reply \in Replies \union {NoReply} /\ err \in BOOLEAN /\ runs \in [Clients -> Nat]
      /\ request \in Requests \union {Noise}
  BY CoreParts DEF Parts, MainTypes
<1>1. /\ FitsNext(reply) /\ AskedNext(request)
      /\ main \notin {"respond", "send", "release"} => ~err
      /\ main = "running" => request # Noise /\ runs[request.from] > 0
  <2>1. Fits(reply)
    BY DEF KindInv
  <2> QED
    BY <1>0, <2>1, KeptNext, MemAsked DEF KindInv
<1>2. CASE UNCHANGED <<main, request, err, reply, out, runs>>
  BY <1>1, <1>2
<1>3. ASSUME NextCommand PROVE FitsNext(reply') /\ ~err' /\ main' = "accept"
  BY <1>3 DEF NextCommand, FitsNext
<1>4. CASE RefuseCommand
  <2>1. /\ request \notin {Noise, Answer} /\ request.cmd.path # "ok" /\ reply' = Response(TRUE)
        /\ main' = "respond"
    BY <1>0, <1>4, AnswerAssumption DEF RefuseCommand, Parsing
  <2>2. reply'.for = request.from /\ reply'.kind = "error"
    BY <2>1 DEF Response
  <2>3. FitsNext(reply')
    BY <1>1, <2>1, <2>2 DEF FitsNext, AskedNext
  <2> QED
    BY <2>1, <2>3
<1>5. CASE CommandStarts
  <2>1. /\ main = "parse" /\ request # Noise /\ runs' = [runs EXCEPT ![request.from] = @ + 1]
        /\ UNCHANGED <<request, err, reply>>
    BY <1>5 DEF CommandStarts, Parsing
  <2>2. request.from \in Clients
    BY <1>0, <2>1 DEF Requests
  <2>3. runs'[request.from] = runs[request.from] + 1 /\ runs[request.from] \in Nat
    BY <1>0, <2>1, <2>2
  <2>4. runs'[request'.from] > 0
    BY <2>1, <2>3
  <2> QED
    BY <1>1, <2>1, <2>4
<1>6. CASE CommandEnds
  <2>1. /\ main = "running" /\ request \notin {Noise, Answer} /\ runs[request.from] > 0 /\ ~err
        /\ request \in Requests
    BY <1>0, <1>1, <1>6, AnswerAssumption DEF CommandEnds
  <2>2. CASE reply' = Response(err) /\ main' = "respond"
    <3>1. reply'.for = request.from /\ reply'.kind = "result"
      BY <2>1, <2>2 DEF Response
    <3>2. runs'[request.from] > 0 /\ request.from \in Clients
      BY <2>1, RunsNext DEF Requests
    <3>3. FitsNext(reply')
      BY <1>1, <2>1, <3>1, <3>2 DEF FitsNext, AskedNext
    <3> QED
      BY <2>2, <3>3
  <2> QED
    BY <1>3, <1>6, <2>2 DEF CommandEnds
<1>7. CASE RejectCommand \/ CommandNotStarted \/ Release
  BY <1>3, <1>7 DEF RejectCommand, CommandNotStarted, Release
<1>8. CASE Connect
  <2>1. NextCommand \/ (main' = "send" /\ UNCHANGED <<err, reply>>)
    BY <1>8 DEF Connect
  <2> QED
    BY <1>1, <1>3, <2>1
<1>9. CASE DaemonStart \/ DaemonBind \/ DaemonListen \/ AcceptCommand \/ CloseCommand \/ Send
  <2>1. /\ UNCHANGED <<err, reply>> /\ main' # "running"
        /\ main' \notin {"respond", "send", "release"} => main \notin {"respond", "send", "release"}
    BY <1>9 DEF DaemonStart, DaemonBind, DaemonListen, AcceptCommand, CloseCommand, Send
  <2> QED
    BY <1>1, <2>1
<1> QED
  BY <1>0, <1>2, <1>4, <1>5, <1>6, <1>7, <1>8, <1>9, MainStays DEF MainStep, MainThread

LEMMA DownFits ==
  ASSUME CoreInv, KindInv, [Next]_vars
  PROVE  \A i \in DOMAIN down' : FitsNext(down'[i].msg)
<1> DEFINE S == [msg : Replies \union {Noise}, at : Nat]
<1>0. Parts /\ down \in Seq(S) /\ \A i \in DOMAIN down : Fits(down[i].msg)
  BY CoreParts DEF Parts, DownTypes, KindInv
<1>1. ASSUME NEW x \in S PROVE x.msg \in Replies \union {Noise}
  OBVIOUS
<1> HIDE DEF S
<1>2. ASSUME NEW i \in DOMAIN down PROVE FitsNext(down[i].msg)
  <2>1. down[i] \in S
    BY <1>0
  <2> QED
    BY <1>0, <1>1, <2>1, KeptNext
<1>3. CASE down' = down \/ down' = <<>>
  BY <1>2, <1>3
<1>4. CASE down # <<>> /\ down' = Unread(down)
  <2>1. Within(down', down, down[1]) /\ 1 \in DOMAIN down
    BY <1>0, <1>4, WithinUnread
  <2> QED
    BY <1>2, <2>1 DEF Within
<1>5. CASE reply \in Replies /\ down' = down \o Frame(reply)
  <2>1. FitsNext(reply)
    BY <1>5, KeptNext DEF KindInv
  <2>2. reply.size \in Nat \ {0} /\ 1..reply.size \subseteq Nat
    BY <1>5, DaemonAssumption DEF Replies
  <2>3. Frame(reply) \in Seq(S)
    BY <1>5, <2>2, FrameType DEF S
  <2>4. \A i \in DOMAIN down' : down'[i].msg = reply \/ \E j \in DOMAIN down : down'[i] = down[j]
    BY <1>0, <1>5, <2>2, <2>3, FrameMembers
  <2> QED
    BY <1>2, <2>1, <2>4
<1>6. CASE down' = Append(down, [msg |-> Noise, at |-> 1])
  <2>1. [msg |-> Noise, at |-> 1] \in S
    BY DEF S
  <2>2. Within(down', down, [msg |-> Noise, at |-> 1])
    BY <1>0, <1>6, <2>1, WithinAppend
  <2> QED
    BY <1>2, <2>2 DEF Within, FitsNext
<1> QED
  BY <1>0, <1>3, <1>4, <1>5, <1>6, DownChanges

\* What the queues of client c hold after a step.
LEMMA ClientQueues ==
  ASSUME Parts, [Next]_vars, NEW c \in Clients
  PROVE  /\ \/ inq'[c] = inq[c] \/ inq'[c] = <<>> \/ (inq[c] # <<>> /\ inq'[c] = Tail(inq[c]))
            \/ Active(c) /\ down # <<>> /\ inq'[c] = Append(inq[c], Packet(down))
         /\ \/ inbox'[c] = inbox[c] \/ inbox'[c] = <<>>
            \/ inq[c] # <<>> /\ inbox'[c] = Append(inbox[c], Head(inq[c]))
         /\ \/ shown'[c] = shown[c]
            \/ inbox[c] # <<>> /\ shown'[c] = Head(inbox[c]) /\ shown'[c] # Noise
<1>1. CASE UNCHANGED <<inq, inbox, shown>>
  BY <1>1
<1>2. ASSUME NEW d \in Clients, ClientStep(d), ~UNCHANGED <<inq, inbox, shown>>
      PROVE  /\ \/ inq'[c] = inq[c] \/ inq'[c] = <<>> \/ (inq[c] # <<>> /\ inq'[c] = Tail(inq[c]))
                \/ Active(c) /\ down # <<>> /\ inq'[c] = Append(inq[c], Packet(down))
             /\ \/ inbox'[c] = inbox[c] \/ inbox'[c] = <<>>
                \/ inq[c] # <<>> /\ inbox'[c] = Append(inbox[c], Head(inq[c]))
             /\ \/ shown'[c] = shown[c]
                \/ inbox[c] # <<>> /\ shown'[c] = Head(inbox[c]) /\ shown'[c] # Noise
  <2>0. /\ inq \in [Clients -> Seq(Replies \union {Noise})] /\ inbox \in [Clients -> Seq(Replies \union {Noise})]
        /\ shown \in [Clients -> Replies \union {NoReply}]
    BY DEF Parts, ClientTypes
  <2>1. CASE ClientReads(d)
    BY <2>0, <2>1 DEF ClientReads
  <2>2. CASE ClientRoutes(d)
    BY <2>0, <2>2 DEF ClientRoutes
  <2>3. CASE ClientGivesUp(d) \/ ClientTimesOut(d)
    BY <2>0, <2>3 DEF ClientGivesUp, ClientTimesOut, ClientEnds
  <2>4. CASE ClientShows(d)
    BY <2>0, <2>4 DEF ClientShows, ClientEnds
  <2> QED
    BY <1>2, <2>1, <2>2, <2>3, <2>4 DEF ClientStep, ClientMain, ClientStart, ClientSends, ClientListens
<1> QED
  BY <1>1, <1>2, NextCases DEF vars, clientVars, RxStep, RouterStep, MainStep

LEMMA ClientFits ==
  ASSUME CoreInv, KindInv, [Next]_vars, NEW c \in Clients
  PROVE  /\ \A i \in DOMAIN inq'[c] : FitsNext(inq'[c][i])
         /\ \A i \in DOMAIN inbox'[c] : FitsNext(inbox'[c][i])
         /\ FitsNext(shown'[c]) /\ (shown'[c] = NoReply \/ shown'[c] # Noise)
<1> DEFINE R == Replies \union {Noise}
<1>0. /\ Parts /\ inq[c] \in Seq(R) /\ inbox[c] \in Seq(R) /\ shown[c] \in Replies \union {NoReply}
      /\ \A r \in R : Fits(r) => FitsNext(r)
      /\ Fits(shown[c]) => FitsNext(shown[c])
  <2>1. Parts /\ inq[c] \in Seq(R) /\ inbox[c] \in Seq(R) /\ shown[c] \in Replies \union {NoReply}
    BY CoreParts DEF Parts, ClientTypes
  <2> QED
    BY <2>1, KeptNext
<1> HIDE DEF R
<1>1. ASSUME NEW i \in DOMAIN inq[c] PROVE FitsNext(inq[c][i])
  <2>1. inq[c][i] \in R
    BY <1>0
  <2> QED
    BY <1>0, <2>1 DEF KindInv
<1>2. ASSUME NEW i \in DOMAIN inbox[c] PROVE FitsNext(inbox[c][i])
  <2>1. inbox[c][i] \in R
    BY <1>0
  <2> QED
    BY <1>0, <2>1 DEF KindInv
<1>3. FitsNext(shown[c])
  BY <1>0 DEF KindInv
<1>4. ASSUME inq[c] # <<>>
      PROVE  Within(Tail(inq[c]), inq[c], Noise) /\ FitsNext(Head(inq[c])) /\ Head(inq[c]) \in R
  <2>1. Within(Tail(inq[c]), inq[c], Noise) /\ 1 \in DOMAIN inq[c] /\ Head(inq[c]) = inq[c][1]
    BY <1>0, <1>4, WithinTail
  <2> QED
    BY <1>0, <1>1, <1>4, <2>1
<1>5. ASSUME inbox[c] # <<>> PROVE FitsNext(Head(inbox[c]))
  <2>1. 1 \in DOMAIN inbox[c] /\ Head(inbox[c]) = inbox[c][1]
    BY <1>0, <1>5
  <2> QED
    BY <1>2, <2>1
<1>6. ASSUME down # <<>> PROVE FitsNext(Packet(down)) /\ Packet(down) \in R
  <2>1. /\ Packet(down) \in Replies \union {Noise} /\ 1 \in DOMAIN down
        /\ Packet(down) = down[1].msg \/ Packet(down) = Noise
    BY <1>0, <1>6, ReadFacts DEF Parts
  <2>2. Fits(Packet(down))
    BY <2>1 DEF KindInv, Fits
  <2> QED
    BY <1>0, <2>1, <2>2 DEF R
<1>7. FitsNext(Noise)
  BY DEF FitsNext
<1>8. \A i \in DOMAIN inq'[c] : FitsNext(inq'[c][i])
  <2>1. CASE inq'[c] = inq[c] \/ inq'[c] = <<>>
    BY <1>1, <2>1
  <2>2. CASE inq[c] # <<>> /\ inq'[c] = Tail(inq[c])
    BY <1>1, <1>4, <1>7, <2>2 DEF Within
  <2>3. CASE down # <<>> /\ inq'[c] = Append(inq[c], Packet(down))
    <3>1. Within(inq'[c], inq[c], Packet(down))
      BY <1>0, <1>6, <2>3, WithinAppend
    <3> QED
      BY <1>1, <1>6, <2>3, <3>1 DEF Within
  <2> QED
    BY <1>0, <2>1, <2>2, <2>3, ClientQueues
<1>9. \A i \in DOMAIN inbox'[c] : FitsNext(inbox'[c][i])
  <2>1. CASE inbox'[c] = inbox[c] \/ inbox'[c] = <<>>
    BY <1>2, <2>1
  <2>2. CASE inq[c] # <<>> /\ inbox'[c] = Append(inbox[c], Head(inq[c]))
    <3>1. Within(inbox'[c], inbox[c], Head(inq[c]))
      BY <1>0, <1>4, <2>2, WithinAppend
    <3> QED
      BY <1>2, <1>4, <2>2, <3>1 DEF Within
  <2> QED
    BY <1>0, <2>1, <2>2, ClientQueues
<1>10. FitsNext(shown'[c]) /\ (shown'[c] = NoReply \/ shown'[c] # Noise)
  <2>1. shown[c] = NoReply \/ shown[c] # Noise
    BY DEF KindInv
  <2> QED
    BY <1>0, <1>3, <1>5, <2>1, ClientQueues
<1> QED
  BY <1>8, <1>9, <1>10

LEMMA RanOK ==
  ASSUME CoreInv, KindInv, [Next]_vars, NEW c \in Clients, runs'[c] > 0
  PROVE  cl'[c] # "idle" /\ asked'[c].cmd.path = "ok"
<1>0. Parts /\ runs \in [Clients -> Nat] /\ request \in Requests \union {Noise}
  BY CoreParts DEF Parts, MainTypes
<1>1. CASE runs[c] > 0
  BY <1>0, <1>1, ClientsKeep DEF KindInv
<1>2. CASE ~(runs[c] > 0)
  <2>1. CommandStarts /\ runs' = [runs EXCEPT ![request.from] = @ + 1]
    BY <1>2, RunsNext
  <2>2. request \notin {Noise, Answer} /\ request.cmd.path = "ok"
    BY <1>0, <2>1, AnswerAssumption DEF CommandStarts, Parsing
  <2>3. request.from = c
    BY <1>0, <1>2, <2>1
  <2>4. cl'[c] # "idle" /\ request.cmd = asked'[c].cmd
    BY <2>2, <2>3, MemAsked DEF AskedNext
  <2> QED
    BY <2>2, <2>4
<1> QED
  BY <1>1, <1>2

LEMMA NextKind ==
  ASSUME CoreInv, KindInv, [Next]_vars
  PROVE  KindInv'
<1>1. \A i \in DOMAIN up' : AskedNext(up'[i].msg)
  BY UpAsked
<1>2. (\A b \in Buffers : AskedNext(mem'[b])) /\ AskedNext(request')
  BY MemAsked, RequestAsked
<1>3. /\ FitsNext(reply')
      /\ main' \notin {"respond", "send", "release"} => ~err'
      /\ main' = "running" => request' # Noise /\ runs'[request'.from] > 0
  BY ReplyFits
<1>4. \A i \in DOMAIN down' : FitsNext(down'[i].msg)
  BY DownFits
<1>5. \A c \in Clients :
        /\ \A i \in DOMAIN inq'[c] : FitsNext(inq'[c][i])
        /\ \A i \in DOMAIN inbox'[c] : FitsNext(inbox'[c][i])
        /\ FitsNext(shown'[c]) /\ (shown'[c] = NoReply \/ shown'[c] # Noise)
  BY ClientFits
<1>6. \A c \in Clients : runs'[c] > 0 => cl'[c] # "idle" /\ asked'[c].cmd.path = "ok"
  BY RanOK
<1> QED
  BY <1>1, <1>2, <1>3, <1>4, <1>5, <1>6 DEF KindInv, AskedNext, FitsNext, Asked, Fits

LEMMA InitKind == Init => KindInv
<1> SUFFICES ASSUME Init PROVE KindInv
  OBVIOUS
<1>1. /\ up = <<>> /\ mem = [b \in Buffers |-> Noise] /\ request = Noise /\ down = <<>>
      /\ main = "off" /\ err = FALSE /\ reply = NoReply
      /\ \A c \in Clients : inq[c] = <<>> /\ inbox[c] = <<>> /\ shown[c] = NoReply /\ runs[c] = 0
  BY DEF Init, DaemonInit, CspInit
<1> QED
  BY <1>1 DEF KindInv, Asked, Fits

LEMMA KindInvariant == Spec => []KindInv
<1>1. CoreInv /\ KindInv /\ [Next]_vars => KindInv'
  BY NextKind
<1> QED
  BY InitKind, CoreInvariant, <1>1, PTL DEF Spec

(* What a client prints fits the command it is of.  The one data_wrapper   *)
(* is used again for every command: zero_vars clears wrapper->err, so that *)
(* a result is not sent as the error of the command before, and a response *)
(* is built of the command in the wrapper and of no other.                 *)
THEOREM PrintedKindIsRight == Spec => []RightKind
<1>1. CoreInv /\ KindInv => RightKind
  <2> SUFFICES ASSUME CoreInv, KindInv, NEW c \in Clients, shown[c] # NoReply
               PROVE  LET d == shown[c].for IN
                        IF shown[c].kind = "error" THEN asked[d].cmd.path # "ok" /\ runs[d] = 0 ELSE runs[d] > 0
    BY DEF RightKind
  <2> DEFINE d == shown[c].for
  <2>1. shown[c] \in Replies /\ d \in Clients /\ runs[d] \in Nat
    BY DEF CoreInv, TypeOK, Replies
  <2>2. shown[c] # Noise
    BY DEF KindInv
  <2> QED
    BY <2>1, <2>2 DEF KindInv, Fits
<1> QED
  BY <1>1, CoreInvariant, KindInvariant, PTL

(***************************************************************************)
(* OwnInv: what there is is of the client that runs.                       *)
(***************************************************************************)

Working == {"close", "parse", "running", "respond", "send"}

\* Pending, by positions.
UpOf(c) == \E i \in DOMAIN up : up[i].at = 1 /\ up[i].msg.from = c
Carry(b, c) == b # NoBuf /\ From(mem[b], c)
QueueOf(c) == \E i \in DOMAIN qfifo : Carry(qfifo[i], c)
RouteOf(c) == Carry(route.pkt, c)
ConnOf(c) == \E s \in Slots : \E i \in DOMAIN conn[s].rx : Carry(conn[s].rx[i], c)
RequestOf(c) == main \in Working /\ From(request, c)
DownOf(c) == \E i \in DOMAIN down : down[i].at = 1 /\ down[i].msg # Noise /\ down[i].msg.for = c

Carries(c) == UpOf(c) \/ QueueOf(c) \/ RouteOf(c) \/ ConnOf(c) \/ RequestOf(c) \/ DownOf(c)

LEMMA PendingParts == \A c : Pending(c) <=> Carries(c)
<1> TAKE c
<1>1. (\E b \in ToSet(qfifo) : Carry(b, c)) <=> QueueOf(c)
  BY DEF ToSet, QueueOf
<1>2. (\E b \in UNION {ToSet(conn[s].rx) : s \in Slots} : Carry(b, c)) <=> ConnOf(c)
  BY DEF ToSet, ConnOf
<1>3. InDaemon(c) <=> QueueOf(c) \/ RouteOf(c) \/ ConnOf(c) \/ RequestOf(c)
  <2>1. InDaemon(c) <=> \/ \E b \in ToSet(qfifo) : Carry(b, c)
                        \/ Carry(route.pkt, c)
                        \/ \E b \in UNION {ToSet(conn[s].rx) : s \in Slots} : Carry(b, c)
                        \/ main \in Working /\ From(request, c)
    BY DEF InDaemon, Working, Carry
  <2> QED
    BY <1>1, <1>2, <2>1 DEF RouteOf, RequestOf
<1> QED
  BY <1>3 DEF Pending, Carries, UpOf, DownOf

LEMMA PendingPartsNext == (\A c : Pending(c) <=> Carries(c))'
BY PendingParts, PTL

Answered == main \in {"respond", "send"} => request # Noise /\ reply.for = request.from

\* Unless a request is read again, a buffer gets one only from the FIFO.
LEMMA CarryNext ==
  ASSUME Parts, MemTypes, [Next]_vars, again' = {}, NEW c \in Clients, NEW b \in Buffers \union {NoBuf},
         b # NoBuf, From(mem'[b], c)
  PROVE  Carry(b, c) \/ UpOf(c)
<1>1. b # NoBuf /\ b \in Buffers /\ From(mem'[b], c) /\ mem \in [Buffers -> Requests \union {Noise, Answer}]
  BY DEF MemTypes
<1>2. CASE KeepsMem
  BY <1>1, <1>2 DEF KeepsMem, Carry
<1>3. ASSUME NEW x \in Buffers, Refills(x) PROVE Carry(b, c) \/ UpOf(c)
  <2>1. Head(up) = up[1] /\ 1 \in DOMAIN up
    BY <1>3 DEF Refills, Parts, UpTypes
  <2>2. From(Packet(up), c) => UpOf(c)
    BY <2>1 DEF Packet, From, UpOf
  <2> QED
    BY <1>1, <1>3, <2>2 DEF Refills, Carry
<1>4. ASSUME NEW x \in Buffers, Recovers(x) PROVE FALSE
  BY <1>4 DEF Recovers
<1>5. ASSUME NEW x \in Buffers, Fills(x) PROVE Carry(b, c)
  BY <1>1, <1>5 DEF Fills, Carry, From
<1> QED
  BY <1>2, <1>3, <1>4, <1>5, MemChanges

LEMMA UpOfNext ==
  ASSUME Parts, [Next]_vars, NEW c \in Clients, UpOf(c)'
  PROVE  UpOf(c) \/ ClientSends(c)
<1>0. up \in Seq(Cells)
  BY DEF Parts, UpTypes, Cells
<1>1. PICK i \in DOMAIN up' : up'[i].at = 1 /\ up'[i].msg.from = c
  BY DEF UpOf
<1>2. CASE up' = up \/ up' = <<>>
  BY <1>1, <1>2 DEF UpOf
<1>3. CASE up # <<>> /\ up' = Unread(up)
  <2>1. Within(up', up, up[1]) /\ 1 \in DOMAIN up
    BY <1>0, <1>3, WithinUnread
  <2> QED
    BY <1>1, <2>1 DEF Within, UpOf
<1>4. ASSUME NEW d \in Clients, ClientSends(d) PROVE UpOf(c) \/ ClientSends(c)
  <2>1. up' = up \o Frame(asked[d]) /\ asked[d] \in Requests /\ asked[d].from = d
    BY <1>4 DEF ClientSends, Parts, ClientTypes
  <2>2. asked[d].size \in Nat \ {0} /\ asked[d].size = RequestSize
    BY <2>1, ClientAssumption DEF Requests
  <2>3. Frame(asked[d]) \in Seq(Cells)
    <3>1. Frame(asked[d]) \in Seq([msg : Requests, at : 1..RequestSize])
      BY <2>1, <2>2, FrameType
    <3> QED
      BY <3>1 DEF Cells
  <2>4. up'[i].msg = asked[d] \/ \E j \in DOMAIN up : up'[i] = up[j]
    BY <1>0, <1>1, <2>1, <2>2, <2>3, FrameMembers
  <2> QED
    BY <1>1, <1>4, <2>1, <2>4 DEF UpOf
<1> QED
  BY <1>2, <1>3, <1>4, UpChanges

LEMMA QueueOfNext ==
  ASSUME Parts, MemTypes, [Next]_vars, again' = {}, NEW c \in Clients, QueueOf(c)'
  PROVE  QueueOf(c) \/ UpOf(c)
<1>0. qfifo \in Seq(Buffers) /\ up \in Seq(Cells)
  BY DEF Parts, NodeTypes, UpTypes, Cells
<1>1. PICK i \in DOMAIN qfifo' : qfifo'[i] # NoBuf /\ From(mem'[qfifo'[i]], c)
  BY DEF QueueOf, Carry
<1>2. ASSUME NEW j \in DOMAIN qfifo, qfifo'[i] = qfifo[j] PROVE QueueOf(c) \/ UpOf(c)
  <2>1. qfifo[j] \in Buffers
    BY <1>0
  <2>2. PICK x \in Buffers : x = qfifo[j]
    BY <2>1
  <2>3. x # NoBuf /\ From(mem'[x], c)
    BY <1>1, <1>2, <2>2
  <2>4. Carry(x, c) \/ UpOf(c)
    BY <2>3, CarryNext
  <2> QED
    BY <2>2, <2>4 DEF QueueOf
<1>3. CASE qfifo' = qfifo
  BY <1>2, <1>3
<1>4. CASE qfifo # <<>> /\ qfifo' = Tail(qfifo)
  <2>1. Within(qfifo', qfifo, qfifo[1]) /\ 1 \in DOMAIN qfifo
    BY <1>0, <1>4, WithinTail
  <2> QED
    BY <1>2, <2>1 DEF Within
<1>5. CASE RxRead /\ up # <<>> /\ rx.buf \in Buffers /\ qfifo' = Append(qfifo, rx.buf)
  <2>1. Within(qfifo', qfifo, rx.buf)
    BY <1>0, <1>5, WithinAppend
  <2>2. mem' = [mem EXCEPT ![rx.buf] = Packet(up)] /\ mem \in [Buffers -> Requests \union {Noise, Answer}]
    BY <1>5 DEF RxRead, Reads, ReadsAgain, MemTypes
  <2>3. Head(up) = up[1] /\ 1 \in DOMAIN up
    BY <1>0, <1>5
  <2>4. qfifo'[i] = rx.buf => UpOf(c)
    BY <1>1, <1>5, <2>2, <2>3 DEF Packet, From, UpOf
  <2> QED
    BY <1>2, <2>1, <2>4 DEF Within
<1> QED
  BY <1>3, <1>4, <1>5, QueueChanges

LEMMA ConnOfNext ==
  ASSUME Parts, MemTypes, [Next]_vars, again' = {}, NEW c \in Clients, ConnOf(c)'
  PROVE  ConnOf(c) \/ RouteOf(c) \/ UpOf(c)
<1>1. PICK s \in Slots : \E i \in DOMAIN conn'[s].rx : conn'[s].rx[i] # NoBuf /\ From(mem'[conn'[s].rx[i]], c)
  BY DEF ConnOf, Carry
<1>2. PICK i \in DOMAIN conn'[s].rx : conn'[s].rx[i] # NoBuf /\ From(mem'[conn'[s].rx[i]], c)
  BY <1>1
<1>3. conn[s].rx \in Seq(Buffers)
  BY ConnChanges
<1>4. ASSUME NEW j \in DOMAIN conn[s].rx, conn'[s].rx[i] = conn[s].rx[j] PROVE ConnOf(c) \/ UpOf(c)
  <2>1. conn[s].rx[j] \in Buffers
    BY <1>3
  <2> DEFINE b == conn[s].rx[j]
  <2>2. b # NoBuf /\ From(mem'[b], c)
    BY <1>2, <1>4
  <2>3. PICK x \in Buffers : x = b
    BY <2>1
  <2>4. x # NoBuf /\ From(mem'[x], c)
    BY <2>2, <2>3
  <2>5. Carry(x, c) \/ UpOf(c)
    BY <2>4, CarryNext
  <2> QED
    BY <2>3, <2>5 DEF ConnOf
<1>5. CASE Cut(s)
  BY <1>2, <1>4, <1>5 DEF Cut
<1>6. CASE conn[s].rx # <<>> /\ conn'[s].rx = Tail(conn[s].rx)
  <2>1. Within(conn'[s].rx, conn[s].rx, conn[s].rx[1]) /\ 1 \in DOMAIN conn[s].rx
    BY <1>3, <1>6, WithinTail
  <2> QED
    BY <1>4, <2>1 DEF Within
<1>7. CASE route.pkt \in Buffers /\ conn'[s].rx = Append(conn[s].rx, route.pkt)
  <2>1. Within(conn'[s].rx, conn[s].rx, route.pkt)
    BY <1>3, <1>7, WithinAppend
  <2>2. PICK x \in Buffers : x = route.pkt
    BY <1>7
  <2>3. conn'[s].rx[i] = x => x # NoBuf /\ From(mem'[x], c)
    BY <1>2
  <2>4. conn'[s].rx[i] = x => RouteOf(c) \/ UpOf(c)
    BY <2>2, <2>3, CarryNext DEF RouteOf
  <2> QED
    BY <1>4, <2>1, <2>2, <2>4 DEF Within
<1> QED
  BY <1>5, <1>6, <1>7, ConnChanges

LEMMA RouteOfNext ==
  ASSUME Parts, MemTypes, [Next]_vars, again' = {}, NEW c \in Clients, RouteOf(c)'
  PROVE  RouteOf(c) \/ QueueOf(c) \/ UpOf(c)
<1>0. route'.pkt # NoBuf /\ From(mem'[route'.pkt], c)
  BY DEF RouteOf, Carry
<1>1. CASE route' = route
  <2>1. PICK x \in Buffers \union {NoBuf} : x = route.pkt
    BY DEF Parts, NodeTypes
  <2>2. x # NoBuf /\ From(mem'[x], c)
    BY <1>0, <1>1, <2>1
  <2> QED
    BY <2>1, <2>2, CarryNext DEF RouteOf
<1>2. CASE qfifo # <<>> /\ route'.pkt = Head(qfifo)
  <2>1. qfifo \in Seq(Buffers)
    BY DEF Parts, NodeTypes
  <2>2. 1 \in DOMAIN qfifo /\ Head(qfifo) = qfifo[1]
    BY <1>2, <2>1
  <2>3. PICK x \in Buffers : x = qfifo[1]
    BY <2>1, <2>2
  <2>4. x # NoBuf /\ From(mem'[x], c)
    BY <1>0, <1>2, <2>2, <2>3
  <2> QED
    BY <2>2, <2>3, <2>4, CarryNext DEF QueueOf
<1> QED
  BY <1>0, <1>1, <1>2, RouteChanges

LEMMA RequestOfNext ==
  ASSUME Parts, [Next]_vars, NEW c \in Clients, RequestOf(c)'
  PROVE  RequestOf(c) \/ ConnOf(c)
<1>0. main' \in Working /\ From(request', c)
  BY DEF RequestOf
<1>1. CASE UNCHANGED <<main, request>>
  BY <1>0, <1>1 DEF RequestOf
<1>2. CASE AcceptCommand
  <2> DEFINE s == Head(accepts)
  <2>1. s \in Slots /\ conn[s].rx # <<>> /\ conn[s].rx \in Seq(Buffers) /\ request' = Contents(Head(conn[s].rx))
        /\ Head(conn[s].rx) \in Buffers
    BY <1>2, AcceptFacts
  <2> HIDE DEF s
  <2>2. 1 \in DOMAIN conn[s].rx /\ Head(conn[s].rx) = conn[s].rx[1]
    BY <2>1
  <2> QED
    BY <1>0, <2>1, <2>2 DEF ConnOf, Carry, Contents, From, Buffers, NoBuf
<1>3. CASE MainStep /\ ~AcceptCommand
  <2>1. request' = request
    BY <1>3, QuietMainFrame, MainCuts DEF MainStep, MainThread, QuietMain
  <2>2. main \in Working
    BY <1>0, <1>3 DEF MainStep, MainThread, DaemonStart, DaemonBind, DaemonListen, CloseCommand, RejectCommand,
       RefuseCommand, CommandNotStarted, CommandStarts, CommandEnds, Connect, Send, Release, NextCommand,
       Parsing, Working
  <2> QED
    BY <1>0, <2>1, <2>2 DEF RequestOf
<1> QED
  BY <1>1, <1>2, <1>3, MainStays

LEMMA DownOfNext ==
  ASSUME Parts, Answered, [Next]_vars, NEW c \in Clients, DownOf(c)'
  PROVE  DownOf(c) \/ RequestOf(c)
<1> DEFINE S == [msg : Replies \union {Noise}, at : Nat]
<1>0. down \in Seq(S)
  BY DEF Parts, DownTypes
<1> HIDE DEF S
<1>1. PICK i \in DOMAIN down' : down'[i].at = 1 /\ down'[i].msg # Noise /\ down'[i].msg.for = c
  BY DEF DownOf
<1>2. CASE down' = down \/ down' = <<>>
  BY <1>1, <1>2 DEF DownOf
<1>3. CASE down # <<>> /\ down' = Unread(down)
  <2>1. Within(down', down, down[1]) /\ 1 \in DOMAIN down
    BY <1>0, <1>3, WithinUnread
  <2> QED
    BY <1>1, <2>1 DEF Within, DownOf
<1>4. CASE main = "send" /\ reply \in Replies /\ down' = down \o Frame(reply)
  <2>1. reply.size \in Nat \ {0} /\ 1..reply.size \subseteq Nat
    BY <1>4, DaemonAssumption DEF Replies
  <2>2. Frame(reply) \in Seq(S)
    BY <1>4, <2>1, FrameType DEF S
  <2>3. down'[i].msg = reply \/ \E j \in DOMAIN down : down'[i] = down[j]
    BY <1>0, <1>1, <1>4, <2>1, <2>2, FrameMembers
  <2>4. request \notin {Noise, Answer} /\ reply.for = request.from
    BY <1>4, AnswerAssumption DEF Answered, Parts, MainTypes
  <2> QED
    BY <1>1, <1>4, <2>3, <2>4 DEF DownOf, RequestOf, Working, From
<1>5. CASE down' = Append(down, [msg |-> Noise, at |-> 1])
  <2>1. [msg |-> Noise, at |-> 1] \in S
    BY DEF S
  <2>2. Within(down', down, [msg |-> Noise, at |-> 1])
    BY <1>0, <1>5, <2>1, WithinAppend
  <2> QED
    BY <1>1, <2>2 DEF Within, DownOf
<1> QED
  BY <1>2, <1>3, <1>4, <1>5, DownChanges

LEMMA PendingNext ==
  ASSUME Parts, MemTypes, Answered, [Next]_vars, again' = {}, NEW c \in Clients, Pending(c)'
  PROVE  Pending(c) \/ ClientSends(c)
<1>1. Carries(c)'
  BY PendingPartsNext
<1>2. UpOf(c)' \/ QueueOf(c)' \/ RouteOf(c)' \/ ConnOf(c)' \/ RequestOf(c)' \/ DownOf(c)'
  BY <1>1 DEF Carries
<1> QED
  BY <1>2, UpOfNext, QueueOfNext, RouteOfNext, ConnOfNext, RequestOfNext, DownOfNext, PendingParts DEF Carries

LEMMA AnsweredNext ==
  ASSUME CoreInv, KindInv, Answered, [Next]_vars
  PROVE  Answered'
<1>0. Parts /\ request \in Requests \union {Noise}
  BY CoreParts DEF Parts, MainTypes
<1>1. CASE UNCHANGED <<main, request, err, reply, out, runs>>
  BY <1>1 DEF Answered
<1>2. CASE RefuseCommand
  BY <1>2 DEF RefuseCommand, Parsing, Response, Answered
<1>3. CASE CommandEnds
  <2>1. request # Noise
    BY <1>3 DEF CommandEnds, KindInv
  <2> QED
    BY <1>3, <2>1 DEF CommandEnds, NextCommand, Response, Answered
<1>4. CASE Connect
  BY <1>4 DEF Connect, NextCommand, Answered
<1>5. CASE MainStep /\ ~RefuseCommand /\ ~CommandEnds /\ ~Connect
  <2>1. main' \notin {"respond", "send"}
    BY <1>5 DEF MainStep, MainThread, DaemonStart, DaemonBind, DaemonListen, AcceptCommand, CloseCommand,
       RejectCommand, CommandNotStarted, CommandStarts, Send, Release, NextCommand
  <2> QED
    BY <2>1 DEF Answered
<1> QED
  BY <1>0, <1>1, <1>2, <1>3, <1>4, <1>5, MainStays

\* What OwnInv says as long as clients do not cross.
Quiet ==
  /\ \A c, d \in Clients : Active(c) /\ Active(d) => c = d
  /\ \A c \in Clients : Pending(c) => Active(c)
  /\ \A c \in Clients :
       /\ \A i \in DOMAIN inq[c] : Own(inq[c][i], c)
       /\ \A i \in DOMAIN inbox[c] : Own(inbox[c][i], c)
       /\ Own(shown[c], c)

LEMMA ActiveNext ==
  ASSUME Parts, [Next]_vars, crossed' = FALSE
  PROVE  /\ crossed = FALSE
         /\ \/ \A c \in Clients : Active(c)' <=> Active(c)
            \/ \E d \in Clients :
                 /\ \A c \in Clients : ~Active(c)
                 /\ \A c \in Clients : Active(c)' => c = d
                 /\ \A e \in Clients : ~ClientSends(e)
            \/ \E d \in Clients :
                 /\ ~Pending(d)
                 /\ \A c \in Clients : Active(c)' <=> Active(c) /\ c # d
                 /\ \A e \in Clients : ~ClientSends(e)
<1>0. cl \in [Clients -> ClientState] /\ crossed \in BOOLEAN
  BY DEF Parts, ClientTypes
<1>1. CASE cl' = cl /\ crossed' = crossed
  BY <1>1 DEF Active
<1>2. ASSUME NEW d \in Clients, ClientStep(d)
      PROVE  /\ crossed = FALSE
             /\ \/ \A c \in Clients : Active(c)' <=> Active(c)
                \/ /\ \A c \in Clients : ~Active(c)
                   /\ \A c \in Clients : Active(c)' => c = d
                   /\ \A e \in Clients : ~ClientSends(e)
                \/ /\ ~Pending(d)
                   /\ \A c \in Clients : Active(c)' <=> Active(c) /\ c # d
                   /\ \A e \in Clients : ~ClientSends(e)
  <2>1. CASE \E cmd \in Commands, port \in Ports : ClientStart(d, cmd, port)
    <3>1. /\ cl[d] = "idle" /\ cl' = [cl EXCEPT ![d] = "encode"] /\ crossed' = (crossed \/ \E e \in Clients : Active(e))
      BY <2>1 DEF ClientStart
    <3>2. \A c \in Clients : ~Active(c) /\ (Active(c)' => c = d)
      BY <1>0, <3>1 DEF Active
    <3>3. \A e \in Clients : ~ClientSends(e)
      BY <3>2 DEF ClientSends, Active
    <3> QED
      BY <1>0, <3>1, <3>2, <3>3
  <2>2. CASE ClientReads(d) \/ ClientRoutes(d)
    BY <2>2 DEF ClientReads, ClientRoutes, Active
  <2>3. CASE ClientSends(d) \/ ClientListens(d)
    BY <1>0, <2>3 DEF ClientSends, ClientListens, Active
  <2>4. CASE ClientGivesUp(d) \/ ClientShows(d) \/ ClientTimesOut(d)
    <3>1. ClientEnds(d)
      BY <2>4 DEF ClientGivesUp, ClientShows, ClientTimesOut
    <3>2. cl' = [cl EXCEPT ![d] = "done"] /\ crossed' = (crossed \/ Pending(d))
      BY <3>1 DEF ClientEnds
    <3>3. ~Pending(d) /\ crossed = FALSE
      BY <1>0, <3>2
    <3>4. \A c \in Clients : Active(c)' <=> Active(c) /\ c # d
      BY <1>0, <3>2 DEF Active
    <3>5. \A e \in Clients : ~ClientSends(e)
      BY <1>0, <3>2 DEF ClientSends
    <3> QED
      BY <3>3, <3>4, <3>5
  <2> QED
    BY <1>2, <2>1, <2>2, <2>3, <2>4 DEF ClientStep, ClientMain
<1> QED
  BY <1>1, <1>2, NextCases DEF vars, clientVars, RxStep, RouterStep, MainStep

LEMMA OwnQueues ==
  ASSUME Parts, Quiet, [Next]_vars, NEW c \in Clients
  PROVE  /\ \A i \in DOMAIN inq'[c] : Own(inq'[c][i], c)
         /\ \A i \in DOMAIN inbox'[c] : Own(inbox'[c][i], c)
         /\ Own(shown'[c], c)
<1> DEFINE R == Replies \union {Noise}
<1>0. inq[c] \in Seq(R) /\ inbox[c] \in Seq(R)
  BY DEF Parts, ClientTypes
<1>1. /\ \A i \in DOMAIN inq[c] : Own(inq[c][i], c)
      /\ \A i \in DOMAIN inbox[c] : Own(inbox[c][i], c)
      /\ Own(shown[c], c)
  BY DEF Quiet
<1>2. ASSUME down # <<>>, Active(c) PROVE Own(Packet(down), c) /\ Packet(down) \in R
  <2>1. /\ Packet(down) \in R /\ 1 \in DOMAIN down
        /\ Packet(down) = Noise \/ (down[1].at = 1 /\ Packet(down) = down[1].msg)
    <3>1. /\ Head(down) = down[1] /\ 1 \in DOMAIN down
      BY <1>2, UnreadFacts DEF Parts, DownTypes
    <3> QED
      BY <1>2, <3>1, ReadFacts DEF Packet, Parts
  <2>2. CASE Packet(down) \notin {Noise, NoReply}
    <3>1. Packet(down) \in Replies /\ Packet(down).for \in Clients
      BY <2>1, <2>2 DEF Replies
    <3>2. Pending(Packet(down).for)
      BY <2>1, <2>2 DEF Pending
    <3> QED
      BY <1>2, <2>1, <3>1, <3>2 DEF Quiet, Own
  <2> QED
    BY <2>1, <2>2 DEF Own
<1> HIDE DEF R
<1>3. ASSUME inq[c] # <<>>
      PROVE  Within(Tail(inq[c]), inq[c], inq[c][1]) /\ 1 \in DOMAIN inq[c] /\ Head(inq[c]) = inq[c][1]
             /\ Head(inq[c]) \in R
  BY <1>0, <1>3, WithinTail
<1>4. ASSUME inbox[c] # <<>> PROVE Own(Head(inbox[c]), c)
  <2>1. 1 \in DOMAIN inbox[c] /\ Head(inbox[c]) = inbox[c][1]
    BY <1>0, <1>4
  <2> QED
    BY <1>1, <2>1
<1>5. \A i \in DOMAIN inq'[c] : Own(inq'[c][i], c)
  <2>1. CASE inq'[c] = inq[c] \/ inq'[c] = <<>>
    BY <1>1, <2>1
  <2>2. CASE inq[c] # <<>> /\ inq'[c] = Tail(inq[c])
    BY <1>1, <1>3, <2>2 DEF Within
  <2>3. CASE Active(c) /\ down # <<>> /\ inq'[c] = Append(inq[c], Packet(down))
    <3>1. Within(inq'[c], inq[c], Packet(down))
      BY <1>0, <1>2, <2>3, WithinAppend
    <3> QED
      BY <1>1, <1>2, <2>3, <3>1 DEF Within
  <2> QED
    BY <2>1, <2>2, <2>3, ClientQueues
<1>6. \A i \in DOMAIN inbox'[c] : Own(inbox'[c][i], c)
  <2>1. CASE inbox'[c] = inbox[c] \/ inbox'[c] = <<>>
    BY <1>1, <2>1
  <2>2. CASE inq[c] # <<>> /\ inbox'[c] = Append(inbox[c], Head(inq[c]))
    <3>1. Within(inbox'[c], inbox[c], Head(inq[c]))
      BY <1>0, <1>3, <2>2, WithinAppend
    <3> QED
      BY <1>1, <1>3, <2>2, <3>1 DEF Within
  <2> QED
    BY <2>1, <2>2, ClientQueues
<1>7. Own(shown'[c], c)
  BY <1>1, <1>4, ClientQueues
<1> QED
  BY <1>5, <1>6, <1>7

LEMMA NextOwn ==
  ASSUME CoreInv, KindInv, OwnInv, [Next]_vars
  PROVE  OwnInv'
<1>0. Parts /\ MemTypes /\ Answered /\ Answered' /\ crossed \in BOOLEAN
  BY CoreParts, AnsweredNext DEF OwnInv, Answered, Parts, ClientTypes
<1>1. CASE crossed' \/ again' # {}
  BY <1>0, <1>1 DEF OwnInv, Answered
<1>2. CASE ~crossed' /\ again' = {}
  <2>0. crossed' = FALSE
    BY <1>2, NextCore DEF CoreInv, TypeOK
  <2>1. ~crossed /\ again = {} /\ Quiet
    <3>1. again = {}
      BY <1>0, <1>2, MemChanges DEF KeepsMem, Refills, Recovers, Fills
    <3> QED
      BY <1>0, <2>0, <3>1, ActiveNext DEF OwnInv, Quiet
  <2>2. \A c, d \in Clients : Active(c)' /\ Active(d)' => c = d
    BY <1>0, <2>0, <2>1, ActiveNext DEF Quiet
  <2>3. ASSUME NEW c \in Clients, Pending(c)' PROVE Active(c)'
    <3>1. Pending(c) \/ ClientSends(c)
      BY <1>0, <1>2, <2>3, PendingNext
    <3>2. Active(c)
      BY <2>1, <3>1 DEF Quiet, ClientSends, Active
    <3>3. ~ClientSends(c) => Pending(c)
      BY <3>1
    <3> QED
      BY <1>0, <2>0, <3>2, <3>3, ActiveNext
  <2>4. \A c \in Clients :
          /\ \A i \in DOMAIN inq'[c] : Own(inq'[c][i], c)
          /\ \A i \in DOMAIN inbox'[c] : Own(inbox'[c][i], c)
          /\ Own(shown'[c], c)
    BY <1>0, <2>1, OwnQueues
  <2> QED
    BY <1>0, <2>2, <2>3, <2>4 DEF OwnInv, Answered, Own
<1> QED
  BY <1>1, <1>2

LEMMA InitOwn == Init => OwnInv
<1> SUFFICES ASSUME Init PROVE OwnInv
  OBVIOUS
<1>1. /\ up = <<>> /\ qfifo = <<>> /\ route.pkt = NoBuf /\ down = <<>> /\ main = "off"
      /\ (\A s \in Slots : conn[s].rx = <<>>)
      /\ \A c \in Clients : inq[c] = <<>> /\ inbox[c] = <<>> /\ shown[c] = NoReply /\ cl[c] = "idle"
  BY DEF Init, DaemonInit, CspInit, Idle
<1>2. \A c : ~Carries(c)
  BY <1>1 DEF Carries, UpOf, QueueOf, RouteOf, Carry, ConnOf, RequestOf, DownOf, Working, From
<1>3. \A c : ~Pending(c)
  BY <1>2, PendingParts
<1> QED
  BY <1>1, <1>3 DEF OwnInv, Own, Active

LEMMA OwnInvariant == Spec => []OwnInv
<1>1. CoreInv /\ KindInv /\ OwnInv /\ [Next]_vars => OwnInv'
  BY NextOwn
<1> QED
  BY InitOwn, CoreInvariant, KindInvariant, <1>1, PTL DEF Spec

(* As long as clients are run one after the other, each until its command  *)
(* is answered, a client prints the answer to its own command, although    *)
(* all have the same address and the same FIFO, and a client that binds to *)
(* the port takes whatever comes for the answer.                           *)
THEOREM AnswerIsOwn == Spec => []OwnAnswer
<1>1. KindInv /\ OwnInv => OwnAnswer
  BY DEF KindInv, OwnInv, Own, OwnAnswer
<1> QED
  BY <1>1, KindInvariant, OwnInvariant, PTL

(***************************************************************************)
(* BufInv: where a buffer is.                                              *)
(***************************************************************************)

Uses == {"free", "queued", "conn", "read", "enqueue", "send"}
Has(b) == {b}

\* BufferAt and what else BufInv says of b.
BufAt(b, k, s) ==
  /\ Single(At(qfifo, Has(b)))
  /\ \A t \in Slots : Single(At(conn[t].rx, Has(b)))
  /\ k = "conn" => s \in Slots
  /\ pool.ref[b] = 0 <=> k = "free"
  /\ At(qfifo, Has(b)) # {} <=> k = "queued"
  /\ \A t \in Slots : At(conn[t].rx, Has(b)) # {} <=> k = "conn" /\ s = t
  /\ rx.at = "read" /\ rx.buf = b <=> k = "read"
  /\ route.at = "enqueue" /\ route.pkt = b <=> k = "enqueue"
  /\ main = "send" /\ out = b <=> k = "send"

Buf(b) == \E k \in Uses, s \in Slots \union {NoSlot} : BufAt(b, k, s)

Started == main = "off" => rx.at = "off"

LEMMA InAt == ASSUME NEW q, NEW b PROVE In(q, b) = At(q, Has(b))
BY DEF In, At, Has

LEMMA BufParts == BufInv <=> Started /\ \A b \in Buffers : b \in twice \/ Buf(b)
<1> DEFINE Alone(b) == Single(In(qfifo, b)) /\ \A t \in Slots : Single(In(conn[t].rx, b))
<1>1. ASSUME NEW b, NEW k, NEW s
      PROVE  BufAt(b, k, s) <=> Alone(b) /\ BufferAt(b, k, s) /\ (k = "conn" => s \in Slots)
  <2>1. In(qfifo, b) = At(qfifo, Has(b)) /\ \A t \in Slots : In(conn[t].rx, b) = At(conn[t].rx, Has(b))
    BY InAt
  <2>2. (\A t \in Slots : Single(At(conn[t].rx, Has(b)))) <=> (\A t \in Slots : Single(In(conn[t].rx, b)))
    BY <2>1
  <2>3. (\A t \in Slots : At(conn[t].rx, Has(b)) # {} <=> k = "conn" /\ s = t)
          <=> (\A t \in Slots : In(conn[t].rx, b) # {} <=> k = "conn" /\ s = t)
    BY <2>1
  <2> QED
    BY <2>1, <2>2, <2>3, Zenon DEF BufAt, BufferAt
<1>2. BufInv <=> /\ Started
                 /\ \A b \in Buffers \ twice :
                      Alone(b) /\ \E k \in Uses, s \in Slots \union {NoSlot} :
                                     BufferAt(b, k, s) /\ (k = "conn" => s \in Slots)
  BY DEF BufInv, Uses, Started
<1> HIDE DEF Alone
<1> QED
  BY <1>1, <1>2 DEF Buf

LEMMA BufPartsNext == BufInv' <=> Started' /\ (\A b \in Buffers : b \in twice \/ Buf(b))'
BY BufParts, PTL

\* Of M there is as much in p as in q.
Alike(q, p, M) == (At(p, M) # {} <=> At(q, M) # {}) /\ (Single(At(q, M)) => Single(At(p, M)))

LEMMA AlikeSame == ASSUME NEW q, NEW M PROVE Alike(q, q, M)
BY DEF Alike

\* A step that moves nothing of b.
LEMMA BufKept ==
  ASSUME NEW b \in Buffers, Buf(b),
         pool'.ref[b] = 0 <=> pool.ref[b] = 0,
         Alike(qfifo, qfifo', Has(b)),
         \A t \in Slots : Alike(conn[t].rx, conn'[t].rx, Has(b)),
         rx'.at = "read" /\ rx'.buf = b <=> rx.at = "read" /\ rx.buf = b,
         route'.at = "enqueue" /\ route'.pkt = b <=> route.at = "enqueue" /\ route.pkt = b,
         main' = "send" /\ out' = b <=> main = "send" /\ out = b
  PROVE  Buf(b)'
<1>1. PICK k \in Uses, s \in Slots \union {NoSlot} : BufAt(b, k, s)
  BY DEF Buf
<1>2. BufAt(b, k, s)'
  BY <1>1 DEF BufAt, Alike
<1> QED
  BY <1>2 DEF Buf

LEMMA RxBuf ==
  ASSUME Parts, RxStep, NEW b \in Buffers, Buf(b)
  PROVE  Buf(b)'
<1>0. /\ UNCHANGED <<route, conn, main, out>> /\ PoolOK(pool) /\ qfifo \in Seq(Buffers) /\ up \in Seq(Cells)
      /\ rx \in [at : {"off", "get", "read", "ended"}, buf : Buffers \union {NoBuf}]
      /\ \A t \in Slots : Alike(conn[t].rx, conn'[t].rx, Has(b))
  <2>1. UNCHANGED <<route, conn, main, out>>
    BY DEF RxStep, RxThread, RxGet, RxRead, daemonVars
  <2> QED
    BY <2>1, AlikeSame DEF Parts, NodeTypes, UpTypes, Cells
<1>1. PICK k \in Uses, s \in Slots \union {NoSlot} : BufAt(b, k, s)
  BY DEF Buf
<1>2. CASE RxGet
  <2>0. rx.at = "get" /\ qfifo' = qfifo /\ Alike(qfifo, qfifo', Has(b))
    BY <1>2, AlikeSame DEF RxGet
  <2>1. CASE pool.free = <<>>
    <3>1. rx'.at = "ended" /\ pool' = pool
      BY <1>2, <2>1 DEF RxGet
    <3> QED
      BY <1>0, <2>0, <3>1, BufKept
  <2>2. CASE pool.free # <<>>
    <3>1. rx' = [at |-> "read", buf |-> Given] /\ pool' = Taken
      BY <1>2, <2>2 DEF RxGet
    <3>2. /\ pool.ref[Given] = 0
          /\ \A x \in Buffers : pool'.ref[x] = IF x = Given THEN 1 ELSE pool.ref[x]
      BY <1>0, <2>2, <3>1, TakeOK
    <3>3. CASE b # Given
      BY <1>0, <2>0, <3>1, <3>2, <3>3, BufKept
    <3>4. CASE b = Given
      <4>1. k = "free" /\ pool'.ref[b] = 1
        BY <1>1, <3>2, <3>4 DEF BufAt
      <4>2. rx'.at = "read" /\ rx'.buf = b
        BY <3>1, <3>4
      <4>3. UNCHANGED <<qfifo, conn, route, main, out>>
        BY <1>0, <2>0
      <4>4. BufAt(b, "free", s)
        BY <1>1, <4>1
      <4>5. BufAt(b, "read", s)'
        BY <4>1, <4>2, <4>3, <4>4 DEF BufAt
      <4> QED
        BY <4>5 DEF Buf, Uses
    <3> QED
      BY <3>3, <3>4
  <2> QED
    BY <2>1, <2>2
<1>3. CASE RxRead
  <2> DEFINE pkt == rx.buf
  <2>1. /\ rx.at = "read" /\ up # <<>> /\ pool' = pool /\ qfifo' = Append(qfifo, pkt) /\ rx.buf \in Buffers
        /\ rx'.at = "get"
    BY <1>3 DEF RxRead, Parts, NodeTypes
  <2>2. pkt \in Buffers /\ pkt = rx.buf
    BY <2>1
  <2> HIDE DEF pkt
  <2>3. pkt \in Has(b) <=> rx.buf = b
    BY <2>2 DEF Has
  <2>4. /\ At(qfifo', Has(b)) # {} <=> At(qfifo, Has(b)) # {} \/ pkt \in Has(b)
        /\ pkt \notin Has(b) => Sheds(qfifo, qfifo', Has(b))
        /\ At(qfifo, Has(b)) = {} => Single(At(qfifo', Has(b)))
    BY <1>0, <2>1, <2>2, AtAppend
  <2>5. CASE rx.buf # b
    <3>1. Alike(qfifo, qfifo', Has(b))
      BY <2>3, <2>4, <2>5 DEF Alike, Sheds
    <3> QED
      BY <1>0, <2>1, <2>5, <3>1, BufKept
  <2>6. CASE rx.buf = b
    <3>1. k = "read"
      BY <1>1, <2>1, <2>6 DEF BufAt
    <3>2. At(qfifo, Has(b)) = {}
      BY <1>1, <3>1 DEF BufAt
    <3>3. Single(At(qfifo', Has(b))) /\ At(qfifo', Has(b)) # {}
      BY <2>3, <2>4, <2>6, <3>2
    <3>4. BufAt(b, "queued", s)'
      BY <1>0, <1>1, <2>1, <3>1, <3>3 DEF BufAt
    <3> QED
      BY <3>4 DEF Buf, Uses
  <2> QED
    BY <2>5, <2>6
<1> QED
  BY <1>2, <1>3 DEF RxStep, RxThread

\* The packets of connection s are freed, of the pool p.
Flushes(s, p) ==
  /\ conn'[s].rx = <<>> /\ \A t \in Slots \ {s} : conn'[t] = conn[t]
  /\ \A x \in Buffers : pool'.ref[x] = IF In(conn[s].rx, x) # {} THEN 0 ELSE p.ref[x]

LEMMA FlushKept ==
  ASSUME NodeTypes, NEW s \in Slots, NEW p, Flushes(s, p), NEW b \in Buffers, At(conn[s].rx, Has(b)) = {}
  PROVE  pool'.ref[b] = p.ref[b] /\ \A t \in Slots : Alike(conn[t].rx, conn'[t].rx, Has(b))
<1>1. conn[s].rx \in Seq(Buffers)
  BY DEF NodeTypes, Entry
<1>2. pool'.ref[b] = p.ref[b]
  BY <1>1, InAt DEF Flushes
<1>3. ASSUME NEW t \in Slots PROVE Alike(conn[t].rx, conn'[t].rx, Has(b))
  <2>1. CASE t = s
    BY <2>1, AtEmpty DEF Flushes, Alike
  <2>2. CASE t # s
    BY <2>2, AlikeSame DEF Flushes
  <2> QED
    BY <2>1, <2>2
<1> QED
  BY <1>2, <1>3

LEMMA FlushFrees ==
  ASSUME NodeTypes, NEW s \in Slots, NEW p, Flushes(s, p), NEW b \in Buffers, At(conn[s].rx, Has(b)) # {},
         Buf(b), At(qfifo', Has(b)) # {} => At(qfifo, Has(b)) # {},
         rx'.at = "read" /\ rx'.buf = b => rx.at = "read" /\ rx.buf = b,
         ~(route'.at = "enqueue" /\ route'.pkt = b),
         ~(main' = "send" /\ out' = b)
  PROVE  Buf(b)'
<1>1. conn[s].rx \in Seq(Buffers)
  BY DEF NodeTypes, Entry
<1>2. pool'.ref[b] = 0
  BY <1>1, InAt DEF Flushes
<1>3. PICK k \in Uses, r \in Slots \union {NoSlot} : BufAt(b, k, r)
  BY DEF Buf
<1>4. k = "conn" /\ r = s
  BY <1>3 DEF BufAt
<1>5. ASSUME NEW t \in Slots PROVE At(conn'[t].rx, Has(b)) = {} /\ Single(At(conn'[t].rx, Has(b)))
  <2>1. CASE t = s
    BY <2>1, AtEmpty DEF Flushes
  <2>2. CASE t # s
    <3>1. conn'[t] = conn[t]
      BY <2>2 DEF Flushes
    <3>2. At(conn[t].rx, Has(b)) = {}
      BY <1>3, <1>4, <2>2 DEF BufAt
    <3> QED
      BY <3>1, <3>2 DEF Single
  <2> QED
    BY <2>1, <2>2
<1>6. At(qfifo', Has(b)) = {}
  BY <1>3, <1>4 DEF BufAt
<1>7. Single(At(qfifo', Has(b)))
  BY <1>6 DEF Single
<1>8. ~(rx'.at = "read" /\ rx'.buf = b)
  BY <1>3, <1>4 DEF BufAt
<1>9. BufAt(b, "free", s)'
  BY <1>2, <1>5, <1>6, <1>7, <1>8 DEF BufAt
<1> QED
  BY <1>9 DEF Buf, Uses

\* csp_conn_new frees the packets the entry still has.
LEMMA OpenFlushes ==
  ASSUME NodeTypes, NEW s \in Slots, NEW p, PoolOK(p), NEW port, NEW post,
         pool' = FreeAll(p, conn[s].rx), conn' = Opened(s, port, post)
  PROVE  Flushes(s, p)
<1>1. conn \in [Slots -> Entry]
  BY DEF NodeTypes
<1>2. conn[s].rx \in Seq(Buffers)
  BY <1>1 DEF Entry
<1>3. \A x \in Buffers : pool'.ref[x] = IF In(conn[s].rx, x) # {} THEN 0 ELSE p.ref[x]
  BY <1>2, FreeAllOK
<1>4. conn' = [conn EXCEPT ![s] = [open |-> TRUE, port |-> port, rx |-> <<>>, post |-> post]]
  BY DEF Opened
<1>5. conn'[s].rx = <<>> /\ \A t \in Slots \ {s} : conn'[t] = conn[t]
  BY <1>1, <1>4
<1> QED
  BY <1>3, <1>5 DEF Flushes

LEMMA RouteTakeBuf ==
  ASSUME Parts, MemTypes, RouterStep, RouteTake, NEW b \in Buffers, Buf(b)
  PROVE  Buf(b)'
<1>0. NodeTypes /\ PoolOK(pool) /\ UNCHANGED <<rx, main, out>>
  BY RouterFrame DEF Parts
<1>1. PICK pkt : /\ RouterTakes(pkt)
                 /\ \/ Drops(pkt)
                    \/ \E s \in Slots : Matches(pkt, s)
                    \/ \E s \in Slots, port \in Ports, post \in {"due", "never"} :
                         OpensNew(pkt, s, port, post)
  BY <1>0, RouteTakeCases
<1>2. /\ route.at = "idle" /\ qfifo # <<>> /\ pkt = Head(qfifo) /\ pkt \in Buffers /\ qfifo' = Tail(qfifo)
      /\ qfifo \in Seq(Buffers)
  BY <1>0, <1>1 DEF RouterTakes, NodeTypes
<1>3. PICK k \in Uses, r \in Slots \union {NoSlot} : BufAt(b, k, r)
  BY DEF Buf
<1>4. pkt \in Has(b) <=> pkt = b
  BY DEF Has
<1>5. /\ At(qfifo, Has(b)) # {} <=> At(qfifo', Has(b)) # {} \/ pkt \in Has(b)
      /\ Sheds(qfifo, qfifo', Has(b))
      /\ Single(At(qfifo, Has(b))) /\ pkt \in Has(b) => At(qfifo', Has(b)) = {}
  BY <1>2, AtTail
<1>6. pkt # b => Alike(qfifo, qfifo', Has(b))
  BY <1>4, <1>5 DEF Alike, Sheds
<1>7. ASSUME pkt = b
      PROVE  /\ k = "queued" /\ At(qfifo', Has(b)) = {} /\ Single(At(qfifo', Has(b)))
             /\ pool.ref[b] # 0 /\ \A t \in Slots : At(conn[t].rx, Has(b)) = {}
  <2>1. k = "queued"
    BY <1>3, <1>4, <1>5, <1>7 DEF BufAt
  <2>2. At(qfifo', Has(b)) = {}
    BY <1>3, <1>4, <1>5, <1>7 DEF BufAt
  <2> QED
    BY <1>3, <2>1, <2>2 DEF BufAt, Single
<1>8. CASE Drops(pkt)
  <2>1. /\ UNCHANGED <<route, conn>>
        /\ \A x \in Buffers : pool'.ref[x] = IF x = pkt THEN 0 ELSE pool.ref[x]
    BY <1>0, <1>2, <1>8, FreeOK DEF Drops
  <2>2. \A t \in Slots : Alike(conn[t].rx, conn'[t].rx, Has(b))
    BY <2>1, AlikeSame
  <2>3. CASE pkt # b
    BY <1>0, <1>6, <2>1, <2>2, <2>3, BufKept
  <2>4. CASE pkt = b
    <3>1. pool'.ref[b] = 0
      BY <2>1, <2>4
    <3>2. BufAt(b, "queued", r) /\ At(qfifo', Has(b)) = {} /\ Single(At(qfifo', Has(b)))
      BY <1>3, <1>7, <2>4
    <3>3. BufAt(b, "free", r)'
      BY <1>0, <2>1, <3>1, <3>2 DEF BufAt
    <3> QED
      BY <3>3 DEF Buf, Uses
  <2> QED
    BY <2>3, <2>4
<1>9. ASSUME route'.at = "enqueue", route'.pkt = pkt, pool'.ref[b] = pool.ref[b],
             \A t \in Slots : Alike(conn[t].rx, conn'[t].rx, Has(b))
      PROVE  Buf(b)'
  <2>1. CASE pkt # b
    BY <1>0, <1>2, <1>6, <1>9, <2>1, BufKept
  <2>2. CASE pkt = b
    <3>1. BufAt(b, "queued", r) /\ At(qfifo', Has(b)) = {} /\ Single(At(qfifo', Has(b)))
      BY <1>3, <1>7, <2>2
    <3>2. BufAt(b, "enqueue", r)'
      BY <1>0, <1>9, <2>2, <3>1 DEF BufAt, Alike
    <3> QED
      BY <3>2 DEF Buf, Uses
  <2> QED
    BY <2>1, <2>2
<1>10. ASSUME NEW s \in Slots, Matches(pkt, s) PROVE Buf(b)'
  <2>1. route'.at = "enqueue" /\ route'.pkt = pkt /\ pool' = pool /\ conn' = conn
    BY <1>10 DEF Matches
  <2> QED
    BY <1>9, <2>1, AlikeSame
<1>11. ASSUME NEW s \in Slots, NEW port \in Ports, NEW post \in {"due", "never"}, OpensNew(pkt, s, port, post)
       PROVE  Buf(b)'
  <2>1. route'.at = "enqueue" /\ route'.pkt = pkt
    BY <1>11 DEF OpensNew
  <2>2. Flushes(s, pool)
    <3>1. pool' = FreeAll(pool, conn[s].rx) /\ conn' = Opened(s, port, post)
      BY <1>11 DEF OpensNew
    <3> QED
      BY <1>0, <3>1, OpenFlushes
  <2>3. CASE At(conn[s].rx, Has(b)) = {}
    BY <1>0, <1>9, <2>1, <2>2, <2>3, FlushKept
  <2>4. CASE At(conn[s].rx, Has(b)) # {}
    <3>1. pkt # b
      BY <1>7, <2>4
    <3>2. /\ At(qfifo', Has(b)) # {} => At(qfifo, Has(b)) # {}
          /\ rx'.at = "read" /\ rx'.buf = b => rx.at = "read" /\ rx.buf = b
          /\ ~(route'.at = "enqueue" /\ route'.pkt = b)
      BY <1>0, <1>5, <2>1, <3>1
    <3>3. ~(main' = "send" /\ out' = b)
      BY <1>0, <1>3, <2>4 DEF BufAt
    <3> QED
      BY <1>0, <2>2, <2>4, <3>2, <3>3, FlushFrees
  <2> QED
    BY <2>3, <2>4
<1> QED
  BY <1>1, <1>8, <1>10, <1>11

LEMMA RouteEnqueueBuf ==
  ASSUME Parts, RouterStep, RouteEnqueue, NEW b \in Buffers, Buf(b)
  PROVE  Buf(b)'
<1>1. PICK s \in Slots : s = route.slot
  BY EnqueueFacts
<1>2. /\ route.at = "enqueue" /\ route.pkt \in Buffers /\ conn[s].rx \in Seq(Buffers)
      /\ (\A t \in Slots \ {s} : conn'[t] = conn[t])
      /\ conn'[s].rx = Append(conn[s].rx, route.pkt) /\ route'.at # "enqueue"
      /\ UNCHANGED <<pool, qfifo, rx, main, out>>
  BY <1>1, EnqueueFacts, RouterFrame
<1>3. PICK k \in Uses, r \in Slots \union {NoSlot} : BufAt(b, k, r)
  BY DEF Buf
<1>4. route.pkt \in Has(b) <=> route.pkt = b
  BY DEF Has
<1>5. /\ At(conn'[s].rx, Has(b)) # {} <=> At(conn[s].rx, Has(b)) # {} \/ route.pkt \in Has(b)
      /\ route.pkt \notin Has(b) => Sheds(conn[s].rx, conn'[s].rx, Has(b))
      /\ At(conn[s].rx, Has(b)) = {} => Single(At(conn'[s].rx, Has(b)))
  BY <1>2, AtAppend
<1>6. CASE route.pkt # b
  <2>1. ASSUME NEW t \in Slots PROVE Alike(conn[t].rx, conn'[t].rx, Has(b))
    BY <1>2, <1>4, <1>5, <1>6, AlikeSame DEF Alike, Sheds
  <2> QED
    BY <1>2, <1>6, <2>1, AlikeSame, BufKept
<1>7. CASE route.pkt = b
  <2>1. k = "enqueue"
    BY <1>2, <1>3, <1>7 DEF BufAt
  <2>2. \A t \in Slots : At(conn[t].rx, Has(b)) = {}
    BY <1>3, <2>1 DEF BufAt
  <2>3. Single(At(conn'[s].rx, Has(b))) /\ At(conn'[s].rx, Has(b)) # {}
    <3>1. At(conn[s].rx, Has(b)) = {}
      BY <2>2
    <3> QED
      BY <1>4, <1>5, <1>7, <3>1
  <2>4. ASSUME NEW t \in Slots
        PROVE  Single(At(conn'[t].rx, Has(b))) /\ (At(conn'[t].rx, Has(b)) # {} <=> t = s)
    <3>1. CASE t = s
      BY <2>3, <3>1
    <3>2. CASE t # s
      <4>1. At(conn'[t].rx, Has(b)) = {}
        BY <1>2, <2>2, <3>2
      <4> QED
        BY <3>2, <4>1 DEF Single
    <3> QED
      BY <3>1, <3>2
  <2>5. BufAt(b, "enqueue", r)
    BY <1>3, <2>1
  <2>6. BufAt(b, "conn", s)'
    BY <1>2, <2>4, <2>5 DEF BufAt
  <2> QED
    BY <2>6 DEF Buf, Uses
<1> QED
  BY <1>6, <1>7

\* csp_close frees the packets of an open connection.
LEMMA CloseFlushes ==
  ASSUME NodeTypes, NEW s \in Slots, conn[s].open, NEW p, PoolOK(p), csp_close(s, p)
  PROVE  Flushes(s, p)
<1>1. conn \in [Slots -> Entry]
  BY DEF NodeTypes
<1>2. /\ \A x \in Buffers : pool'.ref[x] = IF conn[s].open /\ In(conn[s].rx, x) # {} THEN 0 ELSE p.ref[x]
      /\ \A t \in Slots \ {s} : conn'[t] = conn[t]
      /\ conn'[s].rx = IF conn[s].open THEN <<>> ELSE conn[s].rx
  BY <1>1, CloseOK
<1> QED
  BY <1>2 DEF Flushes

LEMMA RoutePostBuf ==
  ASSUME Parts, RouterStep, RoutePost, NEW b \in Buffers, Buf(b)
  PROVE  Buf(b)'
<1>1. PICK s \in Slots : s = route.slot
  BY DEF RoutePost, Parts, ConnInv
<1>2. /\ route.at = "post" /\ route'.at = "idle" /\ conn[s].open /\ UNCHANGED <<qfifo, rx, main, out>>
      /\ NodeTypes /\ PoolOK(pool) /\ conn \in [Slots -> Entry]
  BY <1>1, RouterFrame DEF RoutePost, Parts, NodeTypes, ConnInv, Idle
<1>3. CASE Len(accepts) < ListenQueue
  <2> DEFINE e == [conn[s] EXCEPT !.post = "done"]
  <2>1. pool' = pool /\ conn' = [conn EXCEPT ![s].post = "done"]
    BY <1>1, <1>3 DEF RoutePost
  <2>2. conn' = [conn EXCEPT ![s] = e]
    BY <2>1
  <2>3. e.rx = conn[s].rx
    BY <1>2 DEF Entry
  <2> HIDE DEF e
  <2>4. conn'[s].rx = conn[s].rx /\ \A t \in Slots \ {s} : conn'[t] = conn[t]
    BY <1>2, <2>2, <2>3
  <2>5. ASSUME NEW t \in Slots PROVE Alike(conn[t].rx, conn'[t].rx, Has(b))
    BY <2>4, AlikeSame
  <2> QED
    BY <1>2, <2>1, <2>5, AlikeSame, BufKept
<1>4. CASE ~(Len(accepts) < ListenQueue)
  <2>1. Flushes(s, pool)
    BY <1>1, <1>2, <1>4, CloseFlushes DEF RoutePost
  <2>2. CASE At(conn[s].rx, Has(b)) = {}
    BY <1>2, <2>1, <2>2, FlushKept, AlikeSame, BufKept
  <2>3. CASE At(conn[s].rx, Has(b)) # {}
    <3>1. ~(main' = "send" /\ out' = b)
      BY <1>2, <2>3 DEF Buf, BufAt
    <3> QED
      BY <1>2, <2>1, <2>3, <3>1, FlushFrees
  <2> QED
    BY <2>2, <2>3
<1> QED
  BY <1>3, <1>4

LEMMA AcceptBuf ==
  ASSUME Parts, AcceptCommand, NEW b \in Buffers, Buf(b)
  PROVE  Buf(b)'
<1>1. PICK s \in Slots : s = Head(accepts)
  BY AcceptFacts
<1> DEFINE pkt == Head(conn[s].rx)
<1>2. /\ main = "accept" /\ main' = "close"
      /\ conn[s].rx # <<>> /\ conn[s].rx \in Seq(Buffers) /\ pkt \in Buffers
      /\ pool' = csp_buffer_free(pool, pkt)
      /\ (\A t \in Slots \ {s} : conn'[t] = conn[t])
      /\ conn'[s].rx = Tail(conn[s].rx)
      /\ UNCHANGED <<rx, qfifo, route, out>>
  BY <1>1, AcceptFacts
<1>3. PICK k \in Uses, r \in Slots \union {NoSlot} : BufAt(b, k, r)
  BY DEF Buf
<1>4. pkt \in Buffers /\ (pkt \in Has(b) <=> pkt = b)
  BY <1>2 DEF Has
<1>5. /\ At(conn[s].rx, Has(b)) # {} <=> At(conn'[s].rx, Has(b)) # {} \/ pkt \in Has(b)
      /\ Sheds(conn[s].rx, conn'[s].rx, Has(b))
      /\ Single(At(conn[s].rx, Has(b))) /\ pkt \in Has(b) => At(conn'[s].rx, Has(b)) = {}
  BY <1>2, AtTail
<1>6. \A x \in Buffers : pool'.ref[x] = IF x = pkt THEN 0 ELSE pool.ref[x]
  <2>1. PoolOK(pool)
    BY DEF Parts
  <2> QED
    BY <1>2, <1>4, <2>1, FreeOK
<1> HIDE DEF pkt
<1>7. CASE pkt # b
  <2>1. ASSUME NEW t \in Slots PROVE Alike(conn[t].rx, conn'[t].rx, Has(b))
    BY <1>2, <1>4, <1>5, <1>7, AlikeSame DEF Alike, Sheds
  <2>2. pool'.ref[b] = pool.ref[b]
    BY <1>6, <1>7
  <2> QED
    BY <1>2, <2>1, <2>2, AlikeSame, BufKept
<1>8. CASE pkt = b
  <2>1. k = "conn" /\ r = s
    BY <1>3, <1>4, <1>5, <1>8 DEF BufAt
  <2>2. ASSUME NEW t \in Slots PROVE At(conn'[t].rx, Has(b)) = {} /\ Single(At(conn'[t].rx, Has(b)))
    <3>1. CASE t = s
      <4>1. At(conn'[t].rx, Has(b)) = {}
        BY <1>3, <1>4, <1>5, <1>8, <3>1 DEF BufAt
      <4> QED
        BY <4>1 DEF Single
    <3>2. CASE t # s
      <4>1. At(conn'[t].rx, Has(b)) = {}
        BY <1>2, <1>3, <2>1, <3>2 DEF BufAt
      <4> QED
        BY <4>1 DEF Single
    <3> QED
      BY <3>1, <3>2
  <2>3. pool'.ref[b] = 0
    BY <1>6, <1>8
  <2>4. BufAt(b, "conn", s)
    BY <1>3, <2>1
  <2>5. BufAt(b, "free", s)'
    BY <1>2, <2>2, <2>3, <2>4 DEF BufAt
  <2> QED
    BY <2>5 DEF Buf, Uses
<1> QED
  BY <1>7, <1>8

\* A step of main that closes a connection and frees its packets.
LEMMA FlushBuf ==
  ASSUME Parts, NEW s \in Slots, NEW p, Flushes(s, p), NEW b \in Buffers, Buf(b), p.ref[b] = pool.ref[b],
         UNCHANGED <<qfifo, rx, route>>, main # "send", main' # "send"
  PROVE  Buf(b)'
<1>0. NodeTypes
  BY DEF Parts
<1>1. CASE At(conn[s].rx, Has(b)) = {}
  <2>1. pool'.ref[b] = pool.ref[b] /\ \A t \in Slots : Alike(conn[t].rx, conn'[t].rx, Has(b))
    BY <1>0, <1>1, FlushKept
  <2> QED
    BY <2>1, AlikeSame, BufKept
<1>2. CASE At(conn[s].rx, Has(b)) # {}
  <2>1. ~(route'.at = "enqueue" /\ route'.pkt = b)
    BY <1>2 DEF Buf, BufAt
  <2> QED
    BY <1>0, <1>2, <2>1, FlushFrees
<1> QED
  BY <1>1, <1>2

LEMMA CloseBuf ==
  ASSUME Parts, CloseCommand, NEW b \in Buffers, Buf(b)
  PROVE  Buf(b)'
<1>1. /\ held \in Slots /\ conn[held].open /\ NodeTypes /\ PoolOK(pool)
      /\ csp_close(held, pool) /\ UNCHANGED <<qfifo, rx, route>> /\ main # "send" /\ main' # "send"
  BY DEF CloseCommand, Parts, ConnInv
<1>2. Flushes(held, pool)
  BY <1>1, CloseFlushes
<1> QED
  BY <1>1, <1>2, FlushBuf

\* The second csp_buffer_free of the same packet: a free buffer is left alone,
\* and one that is somebody's goes into twice.
LEMMA ReleaseBuf ==
  ASSUME Parts, Release, NEW b \in Buffers, b \notin twice', Buf(b)
  PROVE  Buf(b)'
<1> DEFINE p == csp_buffer_free(pool, out)
<1>1. /\ held \in Slots /\ conn[held].open /\ NodeTypes /\ PoolOK(pool) /\ out \in Buffers
      /\ (pool.ref[out] = 0 \/ b # out)
      /\ csp_close(held, p) /\ UNCHANGED <<qfifo, rx, route>> /\ main # "send" /\ main' # "send"
  BY DEF Release, NextCommand, Parts, ConnInv, MainTypes
<1>2. PoolOK(p) /\ p.ref[b] = pool.ref[b]
  BY <1>1, FreeOK
<1> HIDE DEF p
<1>3. Flushes(held, p)
  BY <1>1, <1>2, CloseFlushes
<1> QED
  BY <1>1, <1>2, <1>3, FlushBuf

LEMMA SendBuf ==
  ASSUME Parts, Send, NEW b \in Buffers, Buf(b)
  PROVE  Buf(b)'
<1>1. /\ main = "send" /\ main' = "release" /\ out \in Buffers /\ PoolOK(pool)
      /\ pool' = csp_buffer_free(pool, out) /\ UNCHANGED <<rx, qfifo, route, conn, out>>
  BY DEF Send, Parts, MainTypes
<1>2. \A x \in Buffers : pool'.ref[x] = IF x = out THEN 0 ELSE pool.ref[x]
  BY <1>1, FreeOK
<1>3. \A t \in Slots : Alike(conn[t].rx, conn'[t].rx, Has(b))
  BY <1>1, AlikeSame
<1>4. CASE b # out
  BY <1>1, <1>2, <1>3, <1>4, AlikeSame, BufKept
<1>5. CASE b = out
  <2>1. PICK k \in Uses, s \in Slots \union {NoSlot} : BufAt(b, k, s)
    BY DEF Buf
  <2>2. k = "send"
    BY <1>1, <1>5, <2>1 DEF BufAt
  <2>3. pool'.ref[b] = 0
    BY <1>2, <1>5
  <2>4. BufAt(b, "send", s)
    BY <2>1, <2>2
  <2>5. BufAt(b, "free", s)'
    BY <1>1, <2>3, <2>4 DEF BufAt
  <2> QED
    BY <2>5 DEF Buf, Uses
<1> QED
  BY <1>4, <1>5

LEMMA ConnectBuf ==
  ASSUME Parts, Connect, NEW b \in Buffers, Buf(b)
  PROVE  Buf(b)'
<1>0. main = "respond" /\ UNCHANGED <<rx, qfifo, route>> /\ NodeTypes /\ PoolOK(pool)
  BY DEF Connect, Parts
<1>1. PICK k \in Uses, r \in Slots \union {NoSlot} : BufAt(b, k, r)
  BY DEF Buf
<1>2. ASSUME conn' = conn, main' = "accept", pool'.ref[b] = pool.ref[b] PROVE Buf(b)'
  <2>1. \A t \in Slots : Alike(conn[t].rx, conn'[t].rx, Has(b))
    BY <1>2, AlikeSame
  <2> QED
    BY <1>0, <1>2, <2>1, AlikeSame, BufKept
<1>3. CASE pool.free = <<>>
  <2>1. conn' = conn /\ main' = "accept" /\ pool' = pool
    BY <1>3 DEF Connect, NextCommand
  <2> QED
    BY <1>2, <2>1
<1>4. CASE pool.free # <<>>
  <2>1. /\ Given \in Buffers /\ pool.ref[Given] = 0 /\ PoolOK(Taken)
        /\ \A x \in Buffers : Taken.ref[x] = IF x = Given THEN 1 ELSE pool.ref[x]
    BY <1>0, <1>4, TakeOK
  <2>2. CASE pool' = csp_buffer_free(Taken, Given) /\ NextCommand /\ UNCHANGED conn
    <3>1. \A x \in Buffers : pool'.ref[x] = IF x = Given THEN 0 ELSE Taken.ref[x]
      BY <2>1, <2>2, FreeOK
    <3>2. pool'.ref[b] = pool.ref[b]
      BY <2>1, <3>1
    <3> QED
      BY <1>2, <2>2, <3>2 DEF NextCommand
  <2>3. ASSUME NEW s \in Slots, pool' = FreeAll(Taken, conn[s].rx), conn' = Opened(s, NoPort, "never"),
               out' = Given, main' = "send"
        PROVE  Buf(b)'
    <3>1. Flushes(s, Taken)
      <4>1. NodeTypes /\ PoolOK(Taken) /\ pool' = FreeAll(Taken, conn[s].rx) /\ conn' = Opened(s, NoPort, "never")
        BY <1>0, <2>1, <2>3
      <4> QED
        BY <4>1, OpenFlushes
    <3>2. CASE b = Given
      <4>1. k = "free"
        BY <1>1, <2>1, <3>2 DEF BufAt
      <4>2. At(conn[s].rx, Has(b)) = {}
        BY <1>1, <4>1 DEF BufAt
      <4>3. pool'.ref[b] = 1 /\ \A t \in Slots : Alike(conn[t].rx, conn'[t].rx, Has(b))
        BY <1>0, <2>1, <3>1, <3>2, <4>2, FlushKept
      <4>4. BufAt(b, "free", r)
        BY <1>1, <4>1
      <4>5. BufAt(b, "send", r)'
        BY <1>0, <2>3, <3>2, <4>3, <4>4 DEF BufAt, Alike
      <4> QED
        BY <4>5 DEF Buf, Uses
    <3>3. CASE b # Given /\ At(conn[s].rx, Has(b)) = {}
      <4>1. pool'.ref[b] = Taken.ref[b] /\ \A t \in Slots : Alike(conn[t].rx, conn'[t].rx, Has(b))
        BY <1>0, <3>1, <3>3, FlushKept
      <4>2. pool'.ref[b] = pool.ref[b]
        BY <2>1, <3>3, <4>1
      <4> QED
        BY <1>0, <2>3, <3>3, <4>1, <4>2, AlikeSame, BufKept
    <3>4. CASE b # Given /\ At(conn[s].rx, Has(b)) # {}
      <4>1. ~(route'.at = "enqueue" /\ route'.pkt = b)
        BY <1>0, <1>1, <3>4 DEF BufAt
      <4> QED
        BY <1>0, <2>3, <3>1, <3>4, <4>1, FlushFrees
    <3> QED
      BY <3>2, <3>3, <3>4
  <2>4. \/ pool' = csp_buffer_free(Taken, Given) /\ NextCommand /\ UNCHANGED conn
        \/ \E s \in Slots : /\ pool' = FreeAll(Taken, conn[s].rx) /\ conn' = Opened(s, NoPort, "never")
                            /\ out' = Given /\ main' = "send"
    BY <1>4 DEF Connect, FreeSlots
  <2> QED
    BY <2>2, <2>3, <2>4
<1> QED
  BY <1>3, <1>4

LEMMA QuietMainBuf ==
  ASSUME Started, QuietMain, NEW b \in Buffers, Buf(b)
  PROVE  Buf(b)'
<1>1. UNCHANGED <<pool, qfifo, route, conn, out>> /\ main # "send" /\ main' # "send"
  BY QuietMainFrame
<1>2. rx'.at = "read" /\ rx'.buf = b <=> rx.at = "read" /\ rx.buf = b
  <2>1. CASE DaemonStart
    BY <2>1 DEF DaemonStart, Started
  <2>2. CASE ~DaemonStart
    BY <2>2 DEF QuietMain, DaemonBind, DaemonListen, RejectCommand, RefuseCommand, CommandNotStarted,
                CommandStarts, CommandEnds, cspVars
  <2> QED
    BY <2>1, <2>2
<1>3. \A t \in Slots : Alike(conn[t].rx, conn'[t].rx, Has(b))
  BY <1>1, AlikeSame
<1> QED
  BY <1>1, <1>2, <1>3, AlikeSame, BufKept

LEMMA RouterBuf ==
  ASSUME Parts, MemTypes, RouterStep, NEW b \in Buffers, Buf(b)
  PROVE  Buf(b)'
BY RouteTakeBuf, RouteEnqueueBuf, RoutePostBuf DEF RouterStep, Router

LEMMA MainBuf ==
  ASSUME Parts, Started, MainStep, NEW b \in Buffers, b \notin twice', Buf(b)
  PROVE  Buf(b)'
BY AcceptBuf, CloseBuf, ReleaseBuf, SendBuf, ConnectBuf, QuietMainBuf DEF MainStep, MainThread, QuietMain

LEMMA ClientBuf ==
  ASSUME UNCHANGED NodeAndMain, NEW b \in Buffers, Buf(b)
  PROVE  Buf(b)'
<1>1. UNCHANGED <<pool, rx, qfifo, route, conn, main, out>>
  BY DEF NodeAndMain
<1> QED
  BY <1>1, AlikeSame, BufKept

\* Clients, and no step at all, leave the node and main alone.
LEMMA StepFrame ==
  ASSUME [Next]_vars
  PROVE  RxStep \/ RouterStep \/ MainStep \/ UNCHANGED NodeAndMain
<1>1. CASE UNCHANGED vars
  BY <1>1 DEF vars, cspVars, daemonVars, NodeAndMain
<1>2. ASSUME NEW c \in Clients, ClientStep(c) PROVE UNCHANGED NodeAndMain
  BY <1>2 DEF ClientStep, ClientStart, ClientReads, ClientRoutes, ClientMain, ClientGivesUp, ClientSends,
              ClientListens, ClientShows, ClientTimesOut, ClientEnds, cspVars, daemonVars, NodeAndMain
<1> QED
  BY <1>1, <1>2, NextCases

LEMMA StartedNext ==
  ASSUME Started, [Next]_vars
  PROVE  Started'
<1>1. CASE RxStep
  BY <1>1 DEF RxStep, RxThread, RxGet, RxRead, daemonVars, Started
<1>2. CASE RouterStep
  BY <1>2 DEF RouterStep, Router, RouteTake, RouteEnqueue, RoutePost, daemonVars, Started
<1>3. CASE MainStep
  BY <1>3 DEF MainStep, MainThread, DaemonStart, DaemonBind, DaemonListen, AcceptCommand, CloseCommand,
              RejectCommand, RefuseCommand, CommandNotStarted, CommandStarts, CommandEnds, Connect, Send,
              Release, NextCommand, Started
<1>4. CASE UNCHANGED NodeAndMain
  BY <1>4 DEF NodeAndMain, Started
<1> QED
  BY <1>1, <1>2, <1>3, <1>4, StepFrame

LEMMA NextBuf ==
  ASSUME CoreInv, BufInv, [Next]_vars
  PROVE  BufInv'
<1>1. Parts /\ MemTypes /\ Started /\ \A b \in Buffers : b \in twice \/ Buf(b)
  BY CoreParts, BufParts
<1>2. Started'
  BY <1>1, StartedNext
<1>3. twice \subseteq twice'
  BY <1>1, MemChanges
<1>4. ASSUME NEW b \in Buffers, b \notin twice' PROVE Buf(b)'
  <2>1. Buf(b)
    BY <1>1, <1>3, <1>4
  <2> QED
    BY <1>1, <1>4, <2>1, RxBuf, RouterBuf, MainBuf, ClientBuf, StepFrame
<1>5. (\A b \in Buffers : b \in twice \/ Buf(b))'
  BY <1>4 DEF Buffers
<1> QED
  BY <1>2, <1>5, BufPartsNext

LEMMA InitBuf == Init => BufInv
<1> SUFFICES ASSUME Init PROVE BufInv
  OBVIOUS
<1>1. /\ \A b \in Buffers : pool.ref[b] = 0
      /\ rx.at = "off" /\ qfifo = <<>> /\ route.at = "idle" /\ main = "off"
      /\ \A s \in Slots : conn[s].rx = <<>>
  BY DEF Init, DaemonInit, CspInit, Idle
<1>2. \A b : In(<<>>, b) = {}
  BY DEF In
<1>3. ASSUME NEW b \in Buffers
      PROVE  /\ Single(In(qfifo, b)) /\ \A t \in Slots : Single(In(conn[t].rx, b))
             /\ BufferAt(b, "free", NoSlot)
  <2>1. Single(In(qfifo, b)) /\ \A t \in Slots : Single(In(conn[t].rx, b))
    BY <1>1, <1>2 DEF Single
  <2>2. BufferAt(b, "free", NoSlot)
    BY <1>1, <1>2 DEF BufferAt
  <2> QED
    BY <2>1, <2>2
<1>4. \A b \in Buffers :
        \E k \in {"free", "queued", "conn", "read", "enqueue", "send"}, s \in Slots \union {NoSlot} :
          BufferAt(b, k, s) /\ (k = "conn" => s \in Slots)
  BY <1>3
<1> QED
  BY <1>1, <1>3, <1>4 DEF BufInv

\* Where there is one index, there is one place.
LEMMA OnePlace ==
  ASSUME NEW S, Single(S), NEW kind, NEW s
  PROVE  /\ S # {} => \E w : Put(kind, s, S) = {w}
         /\ S = {} => Put(kind, s, S) = {}
<1>1. ASSUME S # {} PROVE \E w : Put(kind, s, S) = {w}
  <2>1. PICK i \in S : S = {i}
    BY <1>1 DEF Single
  <2> QED
    BY <2>1 DEF Put
<1>2. ASSUME S = {} PROVE Put(kind, s, S) = {}
  BY <1>2 DEF Put
<1> QED
  BY <1>1, <1>2

LEMMA PlacedOnce ==
  ASSUME CoreInv, BufInv, NEW b \in Buffers \ twice
  PROVE  \E w : Places(b) = {w}
<1> DEFINE S == {i \in DOMAIN pool.free : pool.free[i] = b}
           Free == Put("free", NoSlot, S)
           Queued == Put("queued", NoSlot, In(qfifo, b))
           InConn(t) == Put("conn", t, In(conn[t].rx, b))
           Conns == UNION {InConn(t) : t \in Slots}
           Reading == {w \in {<<"read", NoSlot, 0>>} : rx.at = "read" /\ rx.buf = b}
           Routing == {w \in {<<"enqueue", NoSlot, 0>>} : route.at = "enqueue" /\ route.pkt = b}
           Sending == {w \in {<<"send", NoSlot, 0>>} : main = "send" /\ out = b}
<1>1. Places(b) = Free \union Queued \union Conns \union Reading \union Routing \union Sending
  BY DEF Places
<1>2. PICK k \in Uses, s \in Slots \union {NoSlot} : BufferAt(b, k, s) /\ (k = "conn" => s \in Slots)
  BY DEF BufInv, Uses
<1>3. /\ k = "free" => \E w : Free = {w}
      /\ k # "free" => Free = {}
  <2>1. S # {} <=> b \in ToSet(pool.free)
    BY DEF ToSet
  <2>2. b \in ToSet(pool.free) <=> k = "free"
    BY <1>2 DEF CoreInv, PoolOK, BufferAt
  <2>3. Single(S)
    BY DEF Single, CoreInv, PoolOK, IsInjective
  <2> HIDE DEF S
  <2> QED
    BY <2>1, <2>2, <2>3, OnePlace
<1>4. /\ k = "queued" => \E w : Queued = {w}
      /\ k # "queued" => Queued = {}
  <2>1. Single(In(qfifo, b)) /\ (In(qfifo, b) # {} <=> k = "queued")
    BY <1>2 DEF BufInv, BufferAt
  <2> QED
    BY <2>1, OnePlace
<1>5. /\ k = "conn" => \E w : Conns = {w}
      /\ k # "conn" => Conns = {}
  <2>1. \A t \in Slots : Single(In(conn[t].rx, b)) /\ (In(conn[t].rx, b) # {} <=> k = "conn" /\ s = t)
    BY <1>2 DEF BufInv, BufferAt
  <2>2. \A t \in Slots : k # "conn" \/ s # t => InConn(t) = {}
    BY <2>1, OnePlace
  <2>3. ASSUME k = "conn" PROVE Conns = InConn(s) /\ \E w : InConn(s) = {w}
    <3>1. s \in Slots
      BY <1>2, <2>3
    <3>2. \E w : InConn(s) = {w}
      BY <2>1, <2>3, <3>1, OnePlace
    <3> HIDE DEF InConn
    <3> QED
      BY <2>2, <3>1, <3>2
  <2>4. ASSUME k # "conn" PROVE Conns = {}
    <3> HIDE DEF InConn
    <3> QED
      BY <2>2, <2>4
  <2> QED
    BY <2>3, <2>4
<1>6. /\ k = "read" => \E w : Reading = {w}
      /\ k # "read" => Reading = {}
  BY <1>2 DEF BufferAt
<1>7. /\ k = "enqueue" => \E w : Routing = {w}
      /\ k # "enqueue" => Routing = {}
  BY <1>2 DEF BufferAt
<1>8. /\ k = "send" => \E w : Sending = {w}
      /\ k # "send" => Sending = {}
  BY <1>2 DEF BufferAt
<1> HIDE DEF S, Free, Queued, Conns, Reading, Routing, Sending
<1> QED
  BY <1>1, <1>3, <1>4, <1>5, <1>6, <1>7, <1>8 DEF Uses

LEMMA BufInvariant == Spec => []BufInv
<1>1. CoreInv /\ BufInv /\ [Next]_vars => BufInv'
  BY NextBuf
<1> QED
  BY InitBuf, CoreInvariant, <1>1, PTL DEF Spec

(* Each buffer of csp_buffer_init stays in one place: the pool, a queue, a *)
(* connection, or the hands of fifo_rx, the router or main.  No packet     *)
(* that is dropped and no connection that is closed or taken over loses    *)
(* one.  The buffers left out are those cnc_daemon_send_buffer freed when  *)
(* csp_send had freed them and somebody else had got them since.           *)
THEOREM BuffersHaveOneOwner == Spec => []BufferHasOneOwner
<1>1. CoreInv /\ BufInv => BufferHasOneOwner
  <2> SUFFICES ASSUME CoreInv, BufInv, NEW b \in Buffers \ twice
               PROVE  \E w \in Places(b) : Places(b) = {w}
    BY DEF BufferHasOneOwner
  <2> QED
    BY PlacedOnce
<1> QED
  BY <1>1, CoreInvariant, BufInvariant, PTL

(***************************************************************************)
(* OnceInv again: with BufInv, what a buffer is filled with replaces no    *)
(* packet that is on its way.                                              *)
(***************************************************************************)

LEMMA OnceSame ==
  ASSUME Parts, NEW c \in Clients, NEW m, NEW n, NEW b \in Buffers, Once(c, m),
         \A x \in Buffers \ {b} : From(m[x], c) <=> From(n[x], c),
         At(qfifo, Has(b)) = {}, \A t \in Slots : At(conn[t].rx, Has(b)) = {},
         ~(route.at = "enqueue" /\ route.pkt = b)
  PROVE  Once(c, n)
<1>1. \A x \in Buffers \ {b} : x \in Of(c, m) <=> x \in Of(c, n)
  BY DEF Of
<1>2. ASSUME NEW q \in Seq(Buffers), At(q, Has(b)) = {} PROVE At(q, Of(c, m)) = At(q, Of(c, n))
  <2>1. \A i \in DOMAIN q : q[i] \in Buffers \ {b}
    BY <1>2 DEF At, Has
  <2> QED
    BY <1>1, <2>1 DEF At
<1>3. qfifo \in Seq(Buffers) /\ \A t \in Slots : conn[t].rx \in Seq(Buffers)
  BY DEF Parts, NodeTypes, Entry
<1>4. At(qfifo, Of(c, m)) = At(qfifo, Of(c, n))
  BY <1>2, <1>3
<1>5. \A t \in Slots : At(conn[t].rx, Of(c, m)) = At(conn[t].rx, Of(c, n))
  BY <1>2, <1>3
<1>6. route.at = "enqueue" => (From(m[route.pkt], c) <=> From(n[route.pkt], c))
  BY DEF Parts, NodeTypes
<1>7. PICK k \in Stages, s \in Slots \union {NoSlot} : OnceAt(c, k, s, m)
  BY DEF Once
<1>8. OnceAt(c, k, s, n)
  BY <1>4, <1>5, <1>6, <1>7 DEF OnceAt
<1> QED
  BY <1>8 DEF Once

\* A buffer that is read into or given to main is in no queue.
LEMMA OnceRefilled ==
  ASSUME CoreInv, BufInv, [Next]_vars, twice = {}, NEW c \in Clients, c \notin again', Once(c, mem),
         NEW m, m = mem'
  PROVE  Once(c, m)
<1>0. Parts /\ MemTypes /\ \A b \in Buffers : Buf(b)
  BY CoreParts, BufParts
<1>1. CASE KeepsMem
  BY <1>1 DEF KeepsMem
<1>2. ASSUME NEW b \in Buffers, ~(pool.ref[b] # 0 /\ ~(rx.at = "read" /\ rx.buf = b)),
             \A x \in Buffers \ {b} : m[x] = mem[x]
      PROVE  Once(c, m)
  <2>1. PICK k \in Uses, s \in Slots \union {NoSlot} : BufAt(b, k, s)
    BY <1>0 DEF Buf
  <2>2. k \in {"free", "read"}
    BY <1>2, <2>1 DEF BufAt
  <2>3. /\ At(qfifo, Has(b)) = {} /\ (\A t \in Slots : At(conn[t].rx, Has(b)) = {})
        /\ ~(route.at = "enqueue" /\ route.pkt = b)
    BY <2>1, <2>2 DEF BufAt
  <2>4. \A x \in Buffers \ {b} : From(mem[x], c) <=> From(m[x], c)
    BY <1>2
  <2> QED
    BY <1>0, <2>3, <2>4, OnceSame
<1>3. ASSUME NEW b \in Buffers, Refills(b) PROVE Once(c, m)
  <2>1. \A x \in Buffers \ {b} : m[x] = mem[x]
    BY <1>0, <1>3 DEF Refills, MemTypes
  <2> QED
    BY <1>2, <1>3, <2>1 DEF Refills
<1>4. ASSUME NEW b \in Buffers, Recovers(b) PROVE Once(c, m)
  <2>1. \A x \in Buffers \ {b} : m[x] = mem[x]
    BY <1>0, <1>4 DEF Recovers, MemTypes
  <2> QED
    BY <1>2, <1>4, <2>1 DEF Recovers
<1>5. ASSUME NEW b \in Buffers, Fills(b) PROVE Once(c, m)
  <2>1. \A x \in Buffers \ {b} : m[x] = mem[x]
    BY <1>0, <1>5 DEF Fills, MemTypes
  <2>2. pool.ref[b] = 0
    BY <1>0, <1>5, TakeOK DEF Fills, Parts
  <2> QED
    BY <1>2, <2>1, <2>2
<1> QED
  BY <1>0, <1>1, <1>3, <1>4, <1>5, MemChanges

\* What fifo_rx has put into the buffer is no request of c, or the one it read.
LEMMA RefilledBy ==
  ASSUME Parts, MemTypes, RxRead, NEW c \in Clients, c \notin again', NEW m, m = mem'
  PROVE  ~From(m[rx.buf], c) \/ m[rx.buf] = Packet(up)
<1>0. rx.buf \in Buffers /\ mem \in [Buffers -> Requests \union {Noise, Answer}]
  BY DEF RxRead, Parts, NodeTypes, MemTypes
<1>1. CASE Reads(rx.buf)
  BY <1>0, <1>1 DEF Reads
<1>2. CASE ReadsAgain(rx.buf)
  <2>1. mem[rx.buf] \in Requests /\ again' = again \union {mem[rx.buf].from}
    BY <1>0, <1>2 DEF ReadsAgain, Contents
  <2>2. PICK port \in Ports : mem' = [mem EXCEPT ![rx.buf].port = port]
    BY <1>2 DEF ReadsAgain
  <2> DEFINE r == [mem[rx.buf] EXCEPT !.port = port]
  <2>3. r.from = mem[rx.buf].from
    BY <2>1 DEF Requests
  <2>4. mem' = [mem EXCEPT ![rx.buf] = r]
    BY <2>2
  <2> HIDE DEF r
  <2>5. m[rx.buf] = r
    BY <1>0, <2>4
  <2> QED
    BY <2>1, <2>3, <2>5 DEF From
<1> QED
  BY <1>1, <1>2 DEF RxRead

LEMMA NextOnce ==
  ASSUME CoreInv, BufInv, OnceInv, [Next]_vars
  PROVE  OnceInv'
<1>1. Parts /\ MemTypes /\ Parts'
  BY NextCore, CoreParts, CorePartsNext
<1>2. SUFFICES ASSUME NEW c \in Clients, c \notin again', twice' = {} PROVE Once(c, mem)'
  BY <1>1, OncePartsNext
<1>3. c \notin again /\ twice = {}
  BY <1>1, <1>2, MemChanges DEF KeepsMem, Refills, Recovers, Fills
<1>4. PICK m : m = mem'
  OBVIOUS
<1>5. Once(c, m)
  <2>1. Once(c, mem)
    BY <1>1, <1>3, OnceParts
  <2> QED
    BY <1>2, <1>3, <1>4, <2>1, OnceRefilled
<1>6. Once(c, m)'
  <2>1. CASE RouterStep
    BY <1>1, <1>5, <2>1, RouteTakeOnce, RouteEnqueueOnce, RoutePostOnce DEF RouterStep, Router
  <2>2. CASE UNCHANGED vars
    BY <1>5, <2>2 DEF vars, cspVars, daemonVars, clientVars, Once, OnceAt
  <2>3. CASE RxStep
    BY <1>1, <1>2, <1>4, <1>5, <2>3, RefilledBy, RxOnce
  <2>4. CASE MainStep
    <3>1. AcceptCommand => m = mem
      BY <1>4 DEF AcceptCommand, memVars
    <3> QED
      BY <1>1, <1>5, <2>4, <3>1, MainOnce
  <2> QED
    BY <1>1, <1>5, <2>1, <2>2, <2>3, <2>4, NextCases, ClientOnce
<1> QED
  BY <1>4, <1>6 DEF Once, OnceAt

LEMMA InitOnce == Init => OnceInv
<1> SUFFICES ASSUME Init, NEW c \in Clients PROVE Once(c, mem)
  BY InitCore, CoreParts, OnceParts
<1>1. up = <<>> /\ qfifo = <<>> /\ route.at = "idle" /\ main = "off" /\ runs[c] = 0
      /\ \A t \in Slots : conn[t].rx = <<>>
  BY DEF Init, DaemonInit, CspInit, Idle
<1>2. OnceAt(c, "none", NoSlot, mem)
  BY <1>1, AtEmpty DEF OnceAt
<1> QED
  BY <1>2 DEF Once, Stages

LEMMA OnceInvariant == Spec => []OnceInv
<1>1. CoreInv /\ BufInv /\ OnceInv /\ [Next]_vars => OnceInv'
  BY NextOnce
<1> QED
  BY InitOnce, CoreInvariant, BufInvariant, <1>1, PTL DEF Spec

(* A command is run once at most.  Its packet is copied into the one       *)
(* data_wrapper and freed, csp_close throws away what else came on the     *)
(* connection, and between two rounds of main's loop the wrapper keeps the *)
(* command that was run: for it to be run again csp_accept would have to   *)
(* give a connection with no packet, which the router never queues.  Two   *)
(* things can make it run again, and the claim names them: a read() that   *)
(* ends so early that the buffer still holds the request (again), and a    *)
(* buffer freed under its user (twice).                                    *)
THEOREM CommandsRunOnce == Spec => []EachRunOnce
<1>1. CoreInv /\ OnceInv => EachRunOnce
  <2> SUFFICES ASSUME CoreInv, OnceInv, NEW c \in Clients, runs[c] > 1, ~(c \in again \/ twice # {})
               PROVE  FALSE
    BY DEF EachRunOnce
  <2>1. runs[c] <= 1
    BY Zenon DEF OnceInv
  <2>2. runs[c] \in Nat
    BY DEF CoreInv, TypeOK
  <2> QED
    BY <2>1, <2>2
<1> QED
  BY <1>1, CoreInvariant, OnceInvariant, PTL

=============================================================================
