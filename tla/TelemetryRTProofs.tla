--------------------------- MODULE TelemetryRTProofs ---------------------------
(***************************************************************************)
(* Theorems of TelemetryRT, for any apps, connections, items, ports and    *)
(* lengths of the queues.  What no lock and no check keeps apart happens   *)
(* here as in the code and is noted in strayed: the types hold whatever    *)
(* happens, the list and the connections while no connect has run beside a *)
(* disconnect or has been too early for its hello (Apart), and the packets *)
(* while no disconnect has run beside a send either (strayed = {}).        *)
(***************************************************************************)
EXTENDS TelemetryRT, FiniteSetTheorems, WellFoundedInduction, TLAPS

(***************************************************************************)
(* The list.                                                               *)
(***************************************************************************)

LEMMA LeastNat ==
  ASSUME NEW T, T \subseteq Nat, T # {}
  PROVE  \E x \in T : \A y \in T : x <= y
<1>1. IsWellFoundedOn(OpToRel(<, Nat), Nat)
  BY NatLessThanWellFounded, Zenon
<1>2. PICK x \in T : \A y \in T : ~(<<y, x>> \in OpToRel(<, Nat))
  BY <1>1, WFMin, Zenon
<1>3. \A y \in T : ~(y < x)
  BY <1>2, Zenon DEF OpToRel
<1>4. \A y \in T : y \in Nat
  OBVIOUS
<1>5. \A y \in T : x <= y
  BY <1>3, <1>4, SMT
<1> QED
  BY <1>5

LEMMA MinIs ==
  ASSUME NEW T, NEW x \in T, T \subseteq Int, \A y \in T : x <= y
  PROVE  Min(T) = x
<1>1. \A z \in T : (\A y \in T : z <= y) => z = x
  OBVIOUS
<1> QED
  BY <1>1, Zenon DEF Min

\* A list has no more items than there are.
LEMMA ChainFits ==
  ASSUME NEW q \in Seq(Items), IsInjective(q)
  PROVE  Len(q) \in Nat /\ Cardinality(Items) \in Nat /\ Len(q) <= Cardinality(Items)
<1>1. IsFiniteSet(Items)
  BY RTAssumption DEF RTAssumption
<1>2. Len(q) \in Nat /\ DOMAIN q = 1..Len(q) /\ q \in [1..Len(q) -> Items]
  OBVIOUS
<1>3. q \in Injection(1..Len(q), Items)
  BY <1>2, Zenon DEF Injection, IsInjective
<1>4. Cardinality(1..Len(q)) <= Cardinality(Items)
  BY <1>1, <1>3, FS_Injection, Zenon
<1>5. Cardinality(1..Len(q)) = Len(q)
  BY <1>2, FS_Interval
<1>6. Cardinality(Items) \in Nat
  BY <1>1, FS_CardinalityType, Zenon
<1> QED
  BY <1>2, <1>4, <1>5, <1>6

\* Listed walks the chain there is.
LEMMA ChainListed ==
  ASSUME NEW q, IsChain(q)
  PROVE  Listed = q
<1> DEFINE N == Cardinality(Items)
           Walk(f) == f = [n \in 0..N |->
                             IF n = 0 THEN head ELSE IF f[n - 1] = Null THEN Null ELSE item[f[n - 1]].next]
           at == CHOOSE f : Walk(f)
           ends == {n \in 0..N : n = N \/ at[n] = Null}
<1>1. q \in Seq(Items) /\ IsInjective(q) /\ N \in Nat /\ Len(q) \in Nat /\ Len(q) <= N
  BY ChainFits, Zenon DEF IsChain
<1>2. /\ head = IF Len(q) = 0 THEN Null ELSE q[1]
      /\ \A n \in 1..Len(q) : item[q[n]].next = IF n = Len(q) THEN Null ELSE q[n + 1]
  BY <1>1 DEF IsChain
<1>3. \A n \in 1..Len(q) : q[n] # Null
  BY <1>1, RTAssumption DEF RTAssumption
<1>4. Listed = [n \in 1..Min(ends) |-> at[n - 1]]
  BY Zenon DEF Listed
<1> HIDE DEF N
<1>5. \E f : Walk(f)
  <2> DEFINE g == [n \in 0..N |-> IF n < Len(q) THEN q[n + 1] ELSE Null]
  <2>1. ASSUME NEW n \in 0..N
        PROVE  g[n] = IF n = 0 THEN head ELSE IF g[n - 1] = Null THEN Null ELSE item[g[n - 1]].next
    <3>1. CASE n = 0
      BY <1>1, <1>2, <3>1
    <3>2. CASE n # 0 /\ n - 1 < Len(q)
      <4>1. n - 1 \in 0..N /\ n \in 1..Len(q) /\ g[n - 1] = q[n]
        BY <1>1, <3>2
      <4>2. g[n] = IF n = Len(q) THEN Null ELSE q[n + 1]
        BY <1>1, <4>1
      <4> HIDE DEF g
      <4> QED
        BY <1>2, <1>3, <3>2, <4>1, <4>2
    <3>3. CASE n # 0 /\ ~(n - 1 < Len(q))
      <4>1. n - 1 \in 0..N /\ g[n - 1] = Null /\ g[n] = Null
        BY <1>1, <3>3
      <4> HIDE DEF g
      <4> QED
        BY <3>3, <4>1
    <3> QED
      BY <3>1, <3>2, <3>3
  <2>2. Walk(g)
    <3> DEFINE E(n) == IF n = 0 THEN head ELSE IF g[n - 1] = Null THEN Null ELSE item[g[n - 1]].next
    <3>1. g = [n \in 0..N |-> g[n]]
      OBVIOUS
    <3>2. \A n \in 0..N : g[n] = E(n)
      BY <2>1
    <3> HIDE DEF g
    <3>3. g = [n \in 0..N |-> E(n)]
      BY <3>1, <3>2
    <3> QED
      BY <3>3
  <2> QED
    BY <2>2
<1>6. Walk(at)
  BY <1>5, Zenon
<1> HIDE DEF at
<1>7. \A n \in 0..N :
        at[n] = IF n = 0 THEN head ELSE IF at[n - 1] = Null THEN Null ELSE item[at[n - 1]].next
  BY <1>6
<1>8. \A n \in 1..Len(q) : at[n - 1] = q[n]
  <2> DEFINE T == {n \in 1..Len(q) : at[n - 1] # q[n]}
  <2> SUFFICES ASSUME T # {} PROVE FALSE
    OBVIOUS
  <2>1. T \subseteq Nat
    OBVIOUS
  <2>2. PICK n \in T : \A m \in T : n <= m
    BY <2>1, LeastNat
  <2>3. n \in 1..Len(q) /\ at[n - 1] # q[n]
    OBVIOUS
  <2>4. \A m \in 1..Len(q) : m < n => at[m - 1] = q[m]
    BY <2>2, <2>3
  <2> HIDE DEF T
  <2>5. n - 1 \in 0..N /\ n - 1 # Len(q)
    BY <1>1, <2>3
  <2>6. CASE n = 1
    BY <1>1, <1>2, <1>7, <2>3, <2>5, <2>6
  <2>7. CASE n # 1
    <3>1. n - 1 \in 1..Len(q) /\ n - 1 < n /\ n - 1 # 0
      BY <1>1, <2>3, <2>7
    <3>2. at[(n - 1) - 1] = q[n - 1]
      BY <2>4, <3>1
    <3>3. item[q[n - 1]].next = q[n]
      BY <1>2, <2>3, <2>5, <3>1
    <3>4. at[n - 1] = q[n]
      BY <1>3, <1>7, <2>5, <3>1, <3>2, <3>3
    <3> QED
      BY <3>4, <2>3
  <2> QED
    BY <2>6, <2>7
<1>9. Min(ends) = Len(q)
  <2>1. Len(q) \in ends
    <3>1. CASE Len(q) = 0
      BY <1>1, <1>2, <1>7, <3>1
    <3>2. CASE Len(q) # 0
      <4>1. at[Len(q) - 1] = q[Len(q)] /\ Len(q) \in 1..Len(q) /\ Len(q) \in 0..N
        BY <1>1, <1>8, <3>2
      <4>2. at[Len(q)] = Null
        BY <1>2, <1>3, <1>7, <3>2, <4>1
      <4> QED
        BY <4>1, <4>2
    <3> QED
      BY <3>1, <3>2
  <2>2. \A n \in ends : Len(q) <= n
    <3> SUFFICES ASSUME NEW n \in 0..N, n < Len(q) PROVE at[n] # Null /\ n # N
      BY <1>1
    <3>1. n + 1 \in 1..Len(q) /\ (n + 1) - 1 = n
      BY <1>1
    <3>2. at[n] = q[n + 1]
      BY <1>8, <3>1
    <3> QED
      BY <1>1, <1>3, <3>1, <3>2
  <2>3. ends \subseteq Int
    BY <1>1
  <2> HIDE DEF ends
  <2> QED
    BY <2>1, <2>2, <2>3, MinIs
<1>10. Listed = [n \in 1..Len(q) |-> q[n]]
  BY <1>4, <1>8, <1>9
<1> QED
  BY <1>1, <1>10

LEMMA ChainListedNext ==
  (\A q : IsChain(q) => Listed = q)'
<1>1. \A q : IsChain(q) => Listed = q
  BY ChainListed
<1> QED
  BY <1>1, PTL

LEMMA ListFacts ==
  ASSUME IsChain(Listed)
  PROVE  /\ Listed \in Seq(Items) /\ Len(Listed) \in Nat /\ DOMAIN Listed = 1..Len(Listed)
         /\ \A n \in 1..Len(Listed) : Listed[n] \in Items /\ Listed[n] # Null
         /\ \A m, n \in 1..Len(Listed) : Listed[m] = Listed[n] => m = n
         /\ \A i : i \in ToSet(Listed) <=> \E n \in 1..Len(Listed) : Listed[n] = i
         /\ head = IF Len(Listed) = 0 THEN Null ELSE Listed[1]
         /\ \A n \in 1..Len(Listed) :
              item[Listed[n]].next = IF n = Len(Listed) THEN Null ELSE Listed[n + 1]
<1>1. Listed \in Seq(Items) /\ Len(Listed) \in Nat /\ DOMAIN Listed = 1..Len(Listed)
  BY DEF IsChain
<1>2. \A n \in 1..Len(Listed) : Listed[n] \in Items /\ Listed[n] # Null
  BY <1>1, RTAssumption DEF RTAssumption
<1>3. \A i : i \in ToSet(Listed) <=> \E n \in 1..Len(Listed) : Listed[n] = i
  BY <1>1, Zenon DEF ToSet
<1>4. \A m, n \in 1..Len(Listed) : Listed[m] = Listed[n] => m = n
  BY <1>1 DEF IsChain, IsInjective
<1>5. head = IF Len(Listed) = 0 THEN Null ELSE Listed[1]
  BY <1>1 DEF IsChain
<1>6. \A n \in 1..Len(Listed) : item[Listed[n]].next = IF n = Len(Listed) THEN Null ELSE Listed[n + 1]
  BY <1>1 DEF IsChain
<1> QED
  BY <1>1, <1>2, <1>3, <1>4, <1>5, <1>6

\* A step that leaves the items of the list where they are.
LEMMA ChainNext ==
  ASSUME NEW q, q \in Seq(Items), IsInjective(q), head' = IF q = <<>> THEN Null ELSE q[1],
         \A n \in DOMAIN q : item'[q[n]].next = IF n = Len(q) THEN Null ELSE q[n + 1]
  PROVE  Listed' = q /\ IsChain(Listed)'
<1>1. IsChain(q)'
  BY Zenon DEF IsChain
<1>2. Listed' = q
  BY <1>1, ChainListedNext, Zenon
<1>3. IsChain(Listed)' <=>
        /\ Listed' \in Seq(Items) /\ IsInjective(Listed')
        /\ head' = IF Listed' = <<>> THEN Null ELSE Listed'[1]
        /\ \A n \in DOMAIN Listed' : item'[Listed'[n]].next = IF n = Len(Listed') THEN Null ELSE Listed'[n + 1]
  BY Zenon DEF IsChain, IsInjective
<1> QED
  BY <1>2, <1>3

\* A step that leaves the items of the list where they are.
LEMMA ListKept ==
  ASSUME IsChain(Listed), head' = head, \A i \in ToSet(Listed) : item'[i].next = item[i].next
  PROVE  Listed' = Listed /\ IsChain(Listed)'
<1>1. PICK q : q = Listed
  OBVIOUS
<1>2. q \in Seq(Items) /\ IsInjective(q) /\ head = IF q = <<>> THEN Null ELSE q[1]
  BY <1>1 DEF IsChain
<1>3. \A n \in DOMAIN q : item[q[n]].next = IF n = Len(q) THEN Null ELSE q[n + 1]
  BY <1>1 DEF IsChain
<1>4. \A n \in DOMAIN q : item'[q[n]].next = item[q[n]].next
  BY <1>1 DEF ToSet
<1>5. Listed' = q /\ IsChain(Listed)'
  BY <1>2, <1>3, <1>4, ChainNext
<1> QED
  BY <1>1, <1>5

(***************************************************************************)
(* Types.                                                                  *)
(***************************************************************************)

Inv == TypeOK /\ ListInv /\ PairsInv /\ ClientsInv /\ ServersInv /\ HelloInv

\* A task is in one call at a time, and a call has its lock.
LEMMA OneTask ==
  ASSUME TypeOK, NEW j \in Apps, NEW k \in Apps,
         \/ task[j].at \in {"accept", "find", "link"} /\ task[k].at \in {"accept", "find", "link"}
         \/ Removing(j) /\ Removing(k)
  PROVE  j = k
BY DEF TypeOK, Removing

LEMMA NextPortFree ==
  ASSUME TypeOK, FreePorts # {}
  PROVE  NextPort \in Ports /\ Unused(NextPort)
<1>1. LastPort \in Nat /\ LastPort # 0 /\ sport \in 1..LastPort
  BY RTAssumption DEF RTAssumption, TypeOK, Ports
<1>2. FreePorts \subseteq Nat /\ \A n \in FreePorts : n \in Nat /\ n # 0 /\ Unused(After(sport, n))
  BY <1>1 DEF FreePorts
<1>3. PICK n \in FreePorts : NextPort = After(sport, n)
  <2> DEFINE n == CHOOSE n \in FreePorts : \A o \in FreePorts : n <= o
  <2>1. n \in FreePorts
    BY <1>2, LeastNat
  <2>2. NextPort = After(sport, n)
    BY DEF NextPort
  <2> QED
    BY <2>1, <2>2, Zenon
<1>4. sport + n - 1 \in Nat
  BY <1>1, <1>2
<1>5. \A x \in Nat : (x % LastPort) \in 0..LastPort - 1
  BY <1>1
<1>6. After(sport, n) \in 1..LastPort
  <2>1. (sport + n - 1) % LastPort \in 0..LastPort - 1
    BY <1>4, <1>5
  <2> QED
    BY <1>1, <2>1 DEF After
<1> QED
  BY <1>2, <1>3, <1>6 DEF Ports

LEMMA TailFacts ==
  ASSUME NEW S, NEW q \in Seq(S), q # <<>>
  PROVE  /\ Tail(q) \in Seq(S) /\ Len(q) \in Nat /\ Len(q) # 0 /\ Len(Tail(q)) = Len(q) - 1
         /\ DOMAIN q = 1..Len(q) /\ DOMAIN Tail(q) = 1..Len(q) - 1 /\ Head(q) = q[1] /\ Head(q) \in S
         /\ \A n \in 1..Len(q) - 1 : Tail(q)[n] = q[n + 1]
OBVIOUS

LEMMA SentType ==
  ASSUME net \in Seq(PacketType), NEW m \in PacketType
  PROVE  Sent(m) \in Seq(PacketType)
<1> DEFINE P == PacketType
<1>1. m \in P /\ net \in Seq(P) /\ (Sent(m) = Append(net, m) \/ Sent(m) = net)
  BY DEF Sent
<1> HIDE DEF P
<1> QED
  BY <1>1

LEMMA ShutType ==
  ASSUME TypeOK, NEW S
  PROVE  Shut(S) \in [Slots -> ConnType]
<1>1. Closed \in ConnType
  BY RTAssumption DEF Closed, ConnType, RTAssumption
<1>2. \A s \in Slots : conn[s] \in ConnType
  BY DEF TypeOK
<1> HIDE DEF ConnType
<1> QED
  BY <1>1, <1>2 DEF Shut

\* What the two locks come to when task k moves to t.
LEMMA LocksHeld ==
  ASSUME TypeOK, NEW k \in Apps, NEW t \in TaskType, task' = [task EXCEPT ![k] = t],
         lock' \in [sub : Apps \union {Nobody}, unsub : Apps \union {Nobody}],
         IF t.at \in {"accept", "find", "link"} THEN lock'.sub = k /\ lock.sub \in {k, Nobody}
           ELSE lock'.sub = IF lock.sub = k THEN Nobody ELSE lock.sub,
         IF t.at \in {"scan", "pred", "unlink"} THEN lock'.unsub = k /\ lock.unsub \in {k, Nobody}
           ELSE lock'.unsub = IF lock.unsub = k THEN Nobody ELSE lock.unsub
  PROVE  /\ task' \in [Apps -> TaskType]
         /\ \A j \in Apps : /\ (lock'.sub = j) <=> (task'[j].at \in {"accept", "find", "link"})
                            /\ (lock'.unsub = j) <=> (task'[j].at \in {"scan", "pred", "unlink"})
<1>1. task \in [Apps -> TaskType] /\ Nobody \notin Apps
  BY RTAssumption DEF TypeOK, RTAssumption, Nobody
<1>2. \A j \in Apps : /\ (lock.sub = j) <=> (task[j].at \in {"accept", "find", "link"})
                      /\ (lock.unsub = j) <=> (task[j].at \in {"scan", "pred", "unlink"})
  BY DEF TypeOK
<1> HIDE DEF TaskType, Nobody
<1>3. task' \in [Apps -> TaskType] /\ task'[k] = t /\ \A j \in Apps : j # k => task'[j] = task[j]
  BY <1>1
<1>4. ASSUME NEW j \in Apps, j # k
      PROVE  /\ (lock'.sub = j) <=> (task'[j].at \in {"accept", "find", "link"})
             /\ (lock'.unsub = j) <=> (task'[j].at \in {"scan", "pred", "unlink"})
  BY <1>1, <1>2, <1>3, <1>4
<1>5. /\ (lock'.sub = k) <=> (task'[k].at \in {"accept", "find", "link"})
      /\ (lock'.unsub = k) <=> (task'[k].at \in {"scan", "pred", "unlink"})
  BY <1>1, <1>3
<1> QED
  BY <1>3, <1>4, <1>5

\* What a connection's queue comes to.
LEMMA RxType1 ==
  ASSUME TypeOK, NEW s \in Slots, NEW q \in Seq(0..MaxPackets), conn' = [conn EXCEPT ![s].rx = q]
  PROVE  conn' \in [Slots -> ConnType]
<1>1. PICK c : c = [conn[s] EXCEPT !.rx = q]
  OBVIOUS
<1>2. conn \in [Slots -> ConnType] /\ conn[s] \in ConnType
  BY DEF TypeOK
<1>3. c \in ConnType
  BY <1>1, <1>2 DEF ConnType
<1>4. conn' = [conn EXCEPT ![s] = c]
  BY <1>1
<1> QED
  BY <1>2, <1>3, <1>4

LEMMA ConnectOpenTyped ==
  ASSUME TypeOK, NEW k \in Apps, ConnectOpen(k)
  PROVE  TypeOK'
<1>1. NextPort \in Ports /\ strayed' \subseteq StrayType
  BY NextPortFree DEF ConnectOpen, TypeOK, If, StrayType
<1>2. CASE Free = {} /\ UNCHANGED <<conn, net, lock, task, leaked>>
  <2>1. /\ sport' \in Ports /\ strayed' \subseteq StrayType
        /\ UNCHANGED <<conn, net, lock, task, leaked, accepts, head, item, live, handle, seen, quit,
                       queue, rx, sent, up>>
    BY <1>1, <1>2 DEF ConnectOpen, listVars, rxVars
  <2> HIDE DEF ConnectOpen
  <2> QED
    BY <2>1 DEF TypeOK
<1>3. ASSUME NEW s \in Free, conn' = [conn EXCEPT ![s] = Opened("client", NextPort, <<>>)],
             IF HasBuffer
               THEN /\ net' = Sent([to |-> "server", port |-> NextPort, pkt |-> Hello])
                    /\ lock' = [lock EXCEPT !.sub = k]
                    /\ task' = [task EXCEPT ![k] = [IdleTask EXCEPT !.at = "accept", !.client = s]]
                    /\ UNCHANGED leaked
               ELSE /\ leaked' = leaked \union {s}
                    /\ UNCHANGED <<net, lock, task>>
      PROVE  TypeOK'
  <2>1. /\ sport' \in Ports /\ strayed' \subseteq StrayType
        /\ UNCHANGED <<accepts, head, item, live, handle, seen, quit, queue, rx, sent, up>>
    BY <1>1 DEF ConnectOpen, listVars, rxVars
  <2>2. s \in Slots
    BY DEF Free
  <2>3. conn' \in [Slots -> ConnType]
    <3>1. Opened("client", NextPort, <<>>) \in ConnType
      BY <1>1, RTAssumption DEF Opened, ConnType, Ports, RTAssumption
    <3> HIDE DEF ConnType
    <3> QED
      BY <1>3, <2>2, <3>1 DEF TypeOK
  <2>4. net' \in Seq(PacketType)
    <3>1. [to |-> "server", port |-> NextPort, pkt |-> Hello] \in PacketType
      BY <1>1, RTAssumption DEF PacketType, Hello, RTAssumption, MaxPackets
    <3> QED
      BY <1>3, <3>1, SentType DEF TypeOK
  <2>5. task' \in [Apps -> TaskType] /\ lock' \in [sub : Apps \union {Nobody}, unsub : Apps \union {Nobody}]
    <3>1. [IdleTask EXCEPT !.at = "accept", !.client = s] \in TaskType
      BY <2>2 DEF IdleTask, TaskType, TaskPc
    <3> QED
      BY <1>3, <3>1 DEF TypeOK
  <2>6. leaked' \subseteq Slots
    BY <1>3, <2>2 DEF TypeOK
  <2>7. ASSUME NEW j \in Apps
        PROVE  /\ (lock'.sub = j) <=> (task'[j].at \in {"accept", "find", "link"})
               /\ (lock'.unsub = j) <=> (task'[j].at \in {"scan", "pred", "unlink"})
    <3>1. task[k].at = "idle" /\ lock.sub = Nobody /\ Nobody \notin Apps
      BY RTAssumption DEF ConnectOpen, RTAssumption, Nobody
    <3>2. PICK t : t = [IdleTask EXCEPT !.at = "accept", !.client = s]
      OBVIOUS
    <3>3. t.at = "accept" /\ t \in TaskType
      BY <2>2, <3>2 DEF IdleTask, TaskType, TaskPc
    <3>4. CASE HasBuffer
      <4>1. lock.unsub # k /\ lock' = [lock EXCEPT !.sub = k] /\ task' = [task EXCEPT ![k] = t]
        BY <1>3, <3>1, <3>2, <3>4 DEF TypeOK
      <4>2. lock'.sub = k /\ lock'.unsub = lock.unsub
        BY <4>1 DEF TypeOK
      <4> QED
        BY <2>5, <3>1, <3>3, <4>1, <4>2, LocksHeld
    <3> QED
      BY <1>3, <3>4 DEF TypeOK
  <2> QED
    BY <2>1, <2>3, <2>4, <2>5, <2>6, <2>7 DEF TypeOK
<1> QED
  BY <1>2, <1>3 DEF ConnectOpen

LEMMA EmptyTopics ==
  <<>> \in Seq(Topics)
<1> DEFINE T == Topics
<1> HIDE DEF T
<1>1. <<>> \in Seq(T)
  OBVIOUS
<1> QED
  BY <1>1 DEF T

LEMMA AcceptTyped ==
  ASSUME TypeOK, NEW k \in Apps, Accept(k)
  PROVE  TypeOK'
<1> DEFINE s == Head(accepts)
<1>1. PICK i \in Items \ live :
        /\ live' = live \union {i}
        /\ item' = [item EXCEPT ![i] = [NoItem EXCEPT !.client = task[k].client, !.server = s]]
        /\ task' = [task EXCEPT ![k].at = "find", ![k].item = i]
  BY DEF Accept
<1>2. /\ accepts # <<>> /\ accepts' = Tail(accepts) /\ conn' = [conn EXCEPT ![s].rx = Tail(@)]
      /\ task[k].at = "accept"
      /\ UNCHANGED <<sport, net, head, lock, handle, seen, quit, queue, rx, sent, leaked, strayed, up>>
  BY DEF Accept, rxVars
<1>3. s \in Slots /\ accepts' \in Seq(Slots)
  <2>1. accepts \in Seq(Slots)
    BY DEF TypeOK
  <2> QED
    BY <1>2, <2>1, TailFacts, Zenon
<1>4. conn[s] \in ConnType /\ conn[s].rx # <<>>
  BY <1>3 DEF TypeOK, Accept
<1>5. conn' \in [Slots -> ConnType]
  <2> DEFINE c == [conn[s] EXCEPT !.rx = Tail(@)]
  <2>1. Tail(conn[s].rx) \in Seq(0..MaxPackets)
    <3>1. conn[s].rx \in Seq(0..MaxPackets) /\ conn[s].rx # <<>>
      BY <1>4 DEF ConnType
    <3> QED
      BY <3>1, TailFacts, Zenon
  <2>2. c \in ConnType
    BY <1>4, <2>1 DEF ConnType
  <2>3. conn' = [conn EXCEPT ![s] = c]
    BY <1>2
  <2> HIDE DEF c, ConnType
  <2> QED
    BY <1>3, <2>2, <2>3 DEF TypeOK
<1>6. item' \in [Items -> ItemType]
  <2> DEFINE e == [NoItem EXCEPT !.client = task[k].client, !.server = s]
  <2>1. task[k].client \in Slots \union {NoSlot}
    BY DEF TypeOK, TaskType
  <2>2. e \in ItemType
    <3>1. <<>> \in Seq(Topics) /\ Null \in Items \union {Null}
      BY EmptyTopics
    <3> QED
      BY <1>3, <2>1, <3>1 DEF NoItem, ItemType
  <2>3. item' = [item EXCEPT ![i] = e] /\ item \in [Items -> ItemType]
    BY <1>1 DEF TypeOK
  <2> HIDE DEF e, ItemType
  <2> QED
    BY <2>2, <2>3
<1>7. /\ task' \in [Apps -> TaskType]
      /\ \A j \in Apps : /\ (lock'.sub = j) <=> (task'[j].at \in {"accept", "find", "link"})
                         /\ (lock'.unsub = j) <=> (task'[j].at \in {"scan", "pred", "unlink"})
  <2>1. PICK t : t = [task[k] EXCEPT !.at = "find", !.item = i]
    OBVIOUS
  <2>2. task[k] \in TaskType /\ i \in Items
    BY DEF TypeOK
  <2>3. t \in TaskType /\ t.at = "find"
    BY <2>1, <2>2 DEF TaskType, TaskPc
  <2>6. task' = [task EXCEPT ![k] = t]
    BY <1>1, <2>1
  <2>4. lock.sub = k /\ lock.unsub # k /\ lock' = lock
    BY <1>2 DEF TypeOK
  <2>5. lock' \in [sub : Apps \union {Nobody}, unsub : Apps \union {Nobody}]
    BY <2>4 DEF TypeOK
  <2> QED
    BY <2>3, <2>4, <2>5, <2>6, LocksHeld
<1> HIDE DEF s
<1>8. live' \subseteq Items
  BY <1>1 DEF TypeOK
<1> QED
  BY <1>2, <1>3, <1>5, <1>6, <1>7, <1>8 DEF TypeOK

\* A call is over, and its lock given back.
LEMMA LocksFreed ==
  ASSUME TypeOK, NEW k \in Apps, task' = [task EXCEPT ![k] = IdleTask],
         \/ task[k].at \in {"accept", "find", "link"} /\ lock' = [lock EXCEPT !.sub = Nobody]
         \/ task[k].at \in {"scan", "pred", "unlink"} /\ lock' = [lock EXCEPT !.unsub = Nobody]
  PROVE  /\ task' \in [Apps -> TaskType]
         /\ lock' \in [sub : Apps \union {Nobody}, unsub : Apps \union {Nobody}]
         /\ \A j \in Apps : /\ (lock'.sub = j) <=> (task'[j].at \in {"accept", "find", "link"})
                            /\ (lock'.unsub = j) <=> (task'[j].at \in {"scan", "pred", "unlink"})
<1>1. IdleTask \in TaskType /\ IdleTask.at = "idle"
  BY DEF IdleTask, TaskType, TaskPc
<1>2. lock \in [sub : Apps \union {Nobody}, unsub : Apps \union {Nobody}] /\ Nobody \notin Apps
  BY RTAssumption DEF TypeOK, RTAssumption, Nobody
<1>3. /\ lock.sub = k <=> task[k].at \in {"accept", "find", "link"}
      /\ lock.unsub = k <=> task[k].at \in {"scan", "pred", "unlink"}
  BY DEF TypeOK
<1>4. /\ lock' \in [sub : Apps \union {Nobody}, unsub : Apps \union {Nobody}]
      /\ lock'.sub = IF lock.sub = k THEN Nobody ELSE lock.sub
      /\ lock'.unsub = IF lock.unsub = k THEN Nobody ELSE lock.unsub
  BY <1>2, <1>3
<1> QED
  BY <1>1, <1>4, LocksHeld

LEMMA AcceptFailsTyped ==
  ASSUME TypeOK, CallInv, NEW k \in Apps, AcceptFails(k)
  PROVE  TypeOK'
<1>1. PICK s : s = Head(accepts)
  OBVIOUS
<1>2. PICK t : t = [IdleTask EXCEPT !.at = IF conn[s].rx # <<>> THEN "lost" ELSE "idle"]
  OBVIOUS
<1>3. /\ task[k].at = "accept" /\ accepts # <<>> /\ accepts' = Tail(accepts)
      /\ conn' = IF conn[s].rx # <<>> THEN [conn EXCEPT ![s].rx = Tail(@)] ELSE conn
      /\ leaked' = leaked \union {task[k].client, s}
      /\ task' = [task EXCEPT ![k] = t] /\ lock' = [lock EXCEPT !.sub = Nobody]
      /\ UNCHANGED <<sport, net, head, item, live, handle, seen, quit, queue, rx, sent, strayed, up>>
  BY <1>1, <1>2 DEF AcceptFails, listVars, rxVars
<1>4. s \in Slots /\ accepts' \in Seq(Slots)
  <2>1. accepts \in Seq(Slots)
    BY DEF TypeOK
  <2> QED
    BY <1>1, <1>3, <2>1, TailFacts, Zenon
<1>5. conn' \in [Slots -> ConnType]
  <2>1. CASE conn[s].rx # <<>>
    <3>1. PICK q : q = Tail(conn[s].rx)
      OBVIOUS
    <3>2. conn[s].rx \in Seq(0..MaxPackets)
      BY <1>4 DEF TypeOK, ConnType
    <3>3. q \in Seq(0..MaxPackets)
      BY <2>1, <3>1, <3>2, TailFacts, Zenon
    <3>4. conn' = [conn EXCEPT ![s].rx = q]
      BY <1>3, <2>1, <3>1
    <3> QED
      BY <1>4, <3>3, <3>4, RxType1
  <2>2. CASE conn[s].rx = <<>>
    BY <1>3, <2>2 DEF TypeOK
  <2> QED
    BY <2>1, <2>2
<1>6. t \in TaskType /\ t.at \in {"idle", "lost"}
  BY <1>2 DEF IdleTask, TaskType, TaskPc
<1>7. /\ lock \in [sub : Apps \union {Nobody}, unsub : Apps \union {Nobody}]
      /\ lock.sub = k /\ lock.unsub # k
  BY <1>3 DEF TypeOK
<1>8. /\ lock' \in [sub : Apps \union {Nobody}, unsub : Apps \union {Nobody}]
      /\ lock'.sub = Nobody /\ lock'.unsub = lock.unsub
  BY <1>3, <1>7
<1>9. /\ task' \in [Apps -> TaskType]
      /\ \A j \in Apps : /\ (lock'.sub = j) <=> (task'[j].at \in {"accept", "find", "link"})
                         /\ (lock'.unsub = j) <=> (task'[j].at \in {"scan", "pred", "unlink"})
  BY <1>3, <1>6, <1>7, <1>8, LocksHeld
<1>10. leaked' \subseteq Slots
  <2>1. task[k].client \in Slots \union {NoSlot}
    BY DEF TypeOK, TaskType
  <2>2. task[k].client # NoSlot
    BY <1>3 DEF CallInv
  <2> QED
    BY <1>3, <1>4, <2>1, <2>2 DEF TypeOK
<1> QED
  BY <1>3, <1>4, <1>5, <1>8, <1>9, <1>10 DEF TypeOK

LEMMA AcceptTimeoutTyped ==
  ASSUME TypeOK, NEW k \in Apps, AcceptTimeout(k)
  PROVE  TypeOK'
<1>1. /\ conn' = Shut({task[k].client}) /\ lock' = [lock EXCEPT !.sub = Nobody]
      /\ task' = [task EXCEPT ![k] = IdleTask] /\ task[k].at = "accept"
      /\ UNCHANGED <<sport, net, accepts, head, item, live, handle, seen, quit, queue, rx, sent, leaked, up>>
      /\ strayed' = strayed \union If(HelloComing, "late")
  BY DEF AcceptTimeout, GivesUp, listVars, rxVars
<1>2. conn' \in [Slots -> ConnType]
  BY <1>1, ShutType
<1>4. /\ task' \in [Apps -> TaskType]
      /\ lock' \in [sub : Apps \union {Nobody}, unsub : Apps \union {Nobody}]
      /\ \A j \in Apps : /\ (lock'.sub = j) <=> (task'[j].at \in {"accept", "find", "link"})
                         /\ (lock'.unsub = j) <=> (task'[j].at \in {"scan", "pred", "unlink"})
  BY <1>1, LocksFreed
<1>5. strayed' \subseteq StrayType
  BY <1>1 DEF TypeOK, If, StrayType
<1> QED
  BY <1>1, <1>2, <1>4, <1>5 DEF TypeOK

LEMMA AppendFindTyped ==
  ASSUME TypeOK, NEW k \in Apps, AppendFind(k)
  PROVE  TypeOK'
<1>1. PICK c \in Items \union {Null} : task' = [task EXCEPT ![k].at = "link", ![k].cur = c]
  BY DEF AppendFind
<1>2. PICK t : t = [task[k] EXCEPT !.at = "link", !.cur = c]
  OBVIOUS
<1>3. /\ task[k].at = "find" /\ task' = [task EXCEPT ![k].at = "link", ![k].cur = c]
      /\ UNCHANGED <<conn, sport, net, accepts, head, item, live, lock, handle, seen, quit, queue, rx,
                     sent, leaked, strayed, up>>
  BY <1>1 DEF AppendFind, cspVars, listVars, rxVars
<1>4. c \in Items \union {Null}
  OBVIOUS
<1>5. task[k] \in TaskType
  BY DEF TypeOK
<1>6. t \in TaskType /\ t.at = "link"
  BY <1>2, <1>4, <1>5 DEF TaskType, TaskPc
<1>7. task' = [task EXCEPT ![k] = t]
  BY <1>2, <1>3
<1>8. /\ lock.sub = k /\ lock.unsub # k /\ lock' = lock
      /\ lock \in [sub : Apps \union {Nobody}, unsub : Apps \union {Nobody}]
  BY <1>3 DEF TypeOK
<1>9. /\ task' \in [Apps -> TaskType]
      /\ \A j \in Apps : /\ (lock'.sub = j) <=> (task'[j].at \in {"accept", "find", "link"})
                         /\ (lock'.unsub = j) <=> (task'[j].at \in {"scan", "pred", "unlink"})
  BY <1>6, <1>7, <1>8, LocksHeld
<1> QED
  BY <1>3, <1>9 DEF TypeOK

LEMMA AppendLinkTyped ==
  ASSUME TypeOK, NEW k \in Apps, AppendLink(k)
  PROVE  TypeOK'
<1>1. /\ task[k].at = "link" /\ lock' = [lock EXCEPT !.sub = Nobody] /\ task' = [task EXCEPT ![k] = IdleTask]
      /\ handle' = [handle EXCEPT ![k] = task[k].item]
      /\ UNCHANGED <<conn, sport, net, accepts, live, seen, quit, queue, rx, sent, leaked, strayed, up>>
  BY DEF AppendLink, cspVars, rxVars
<1>2. task[k].item \in Items \union {Null} /\ task[k].cur \in Items \union {Null}
  BY DEF TypeOK, TaskType
<1>4. head' \in Items \union {Null} /\ item' \in [Items -> ItemType]
  <2>1. CASE head' = task[k].item /\ item' = item
    BY <1>2, <2>1 DEF TypeOK
  <2>2. CASE head' = head /\ task[k].cur # Null /\ item' = [item EXCEPT ![task[k].cur].next = task[k].item]
    <3>1. PICK c : c = task[k].cur
      OBVIOUS
    <3>2. PICK e : e = [item[c] EXCEPT !.next = task[k].item]
      OBVIOUS
    <3>3. c \in Items /\ item[c] \in ItemType
      BY <1>2, <2>2, <3>1 DEF TypeOK
    <3>4. e \in ItemType
      BY <1>2, <3>2, <3>3 DEF ItemType
    <3>5. item' = [item EXCEPT ![c] = e]
      <4>1. item' = [item EXCEPT ![c].next = task[k].item]
        BY <2>2, <3>1
      <4> QED
        BY <3>2, <4>1
    <3>6. item \in [Items -> ItemType] /\ head' \in Items \union {Null}
      BY <2>2 DEF TypeOK
    <3> QED
      BY <3>3, <3>4, <3>5, <3>6
  <2> QED
    BY <2>1, <2>2 DEF AppendLink
<1>5. handle' \in [Apps -> Items \union {Null}]
  BY <1>1, <1>2 DEF TypeOK
<1>6. /\ task' \in [Apps -> TaskType]
      /\ lock' \in [sub : Apps \union {Nobody}, unsub : Apps \union {Nobody}]
      /\ \A j \in Apps : /\ (lock'.sub = j) <=> (task'[j].at \in {"accept", "find", "link"})
                         /\ (lock'.unsub = j) <=> (task'[j].at \in {"scan", "pred", "unlink"})
  BY <1>1, LocksFreed
<1> QED
  BY <1>1, <1>4, <1>5, <1>6 DEF TypeOK

LEMMA DisconnectCloseTyped ==
  ASSUME TypeOK, NEW k \in Apps, DisconnectClose(k)
  PROVE  TypeOK'
<1>1. /\ conn' = Shut({item[handle[k]].client}) /\ lock' = [lock EXCEPT !.unsub = k]
      /\ task' = [task EXCEPT ![k].at = "scan", ![k].cur = head]
      /\ task[k].at = "idle" /\ lock.unsub = Nobody
      /\ UNCHANGED <<sport, net, accepts, head, item, live, handle, seen, quit, queue, rx, sent, leaked, up>>
      /\ strayed' = strayed \union If(Connecting, "append") \union If(Sending, "send")
  BY DEF DisconnectClose, listVars, rxVars
<1>2. conn' \in [Slots -> ConnType]
  BY <1>1, ShutType
<1>3. PICK t : t = [task[k] EXCEPT !.at = "scan", !.cur = head]
  OBVIOUS
<1>4. task[k] \in TaskType /\ head \in Items \union {Null}
  BY DEF TypeOK
<1>5. t \in TaskType /\ t.at = "scan"
  BY <1>3, <1>4 DEF TaskType, TaskPc
<1>6. task' = [task EXCEPT ![k] = t]
  BY <1>1, <1>3
<1>7. /\ lock' \in [sub : Apps \union {Nobody}, unsub : Apps \union {Nobody}] /\ lock.sub # k
      /\ lock'.unsub = k /\ lock'.sub = lock.sub
  BY <1>1 DEF TypeOK
<1>8. /\ task' \in [Apps -> TaskType]
      /\ \A j \in Apps : /\ (lock'.sub = j) <=> (task'[j].at \in {"accept", "find", "link"})
                         /\ (lock'.unsub = j) <=> (task'[j].at \in {"scan", "pred", "unlink"})
  BY <1>1, <1>5, <1>6, <1>7, LocksHeld
<1>9. strayed' \subseteq StrayType
  BY <1>1 DEF TypeOK, If, StrayType
<1> QED
  BY <1>1, <1>2, <1>7, <1>8, <1>9 DEF TypeOK

\* A disconnect is over.
LEMMA DisconnectedTyped ==
  ASSUME TypeOK, NEW k \in Apps, Disconnected(k)
  PROVE  /\ handle' \in [Apps -> Items \union {Null}] /\ seen' \in [Apps -> 0..MaxPackets]
         /\ quit' \in [Apps -> 0..MaxPackets]
<1>1. /\ handle' = [handle EXCEPT ![k] = Null] /\ seen' = [seen EXCEPT ![k] = 0]
      /\ quit' = [quit EXCEPT ![k] = MaxPackets]
  BY DEF Disconnected, NotQuit
<1>2. MaxPackets \in Nat
  BY RTAssumption DEF MaxPackets, RTAssumption
<1> QED
  BY <1>1, <1>2 DEF TypeOK

LEMMA DisconnectScanTyped ==
  ASSUME TypeOK, NEW k \in Apps, DisconnectScan(k)
  PROVE  TypeOK'
<1>1. /\ task[k].at = "scan"
      /\ UNCHANGED <<sport, net, accepts, head, item, live, queue, rx, sent, leaked, strayed, up>>
  BY DEF DisconnectScan, listVars, rxVars
<1>2. PICK i : i = task[k].cur
  OBVIOUS
<1>3. CASE i = Null
  <2>1. Disconnected(k) /\ conn' = conn
    BY <1>2, <1>3 DEF DisconnectScan
  <2>2. /\ handle' \in [Apps -> Items \union {Null}] /\ seen' \in [Apps -> 0..MaxPackets]
        /\ quit' \in [Apps -> 0..MaxPackets]
    BY <2>1, DisconnectedTyped
  <2>3. /\ task' \in [Apps -> TaskType]
        /\ lock' \in [sub : Apps \union {Nobody}, unsub : Apps \union {Nobody}]
        /\ \A j \in Apps : /\ (lock'.sub = j) <=> (task'[j].at \in {"accept", "find", "link"})
                           /\ (lock'.unsub = j) <=> (task'[j].at \in {"scan", "pred", "unlink"})
    BY <1>1, <2>1, LocksFreed DEF Disconnected
  <2> QED
    BY <1>1, <2>1, <2>2, <2>3 DEF TypeOK
<1> SUFFICES ASSUME i # Null PROVE TypeOK'
  BY <1>3
<1>10. i \in Items
  BY <1>2 DEF TypeOK, TaskType
<1>4. /\ \/ task' = [task EXCEPT ![k].cur = item[i].next] /\ conn' = conn
         \/ task' = [task EXCEPT ![k].at = "pred"] /\ conn' = Shut({item[i].server})
      /\ UNCHANGED <<lock, handle, seen, quit>>
  BY <1>2 DEF DisconnectScan
<1>5. conn' \in [Slots -> ConnType]
  BY <1>4, ShutType DEF TypeOK
<1>6. task[k] \in TaskType /\ item[i].next \in Items \union {Null}
  BY <1>10 DEF TypeOK, ItemType
<1>7. PICK t \in TaskType : t.at \in {"scan", "pred"} /\ task' = [task EXCEPT ![k] = t]
  <2>1. CASE task' = [task EXCEPT ![k].cur = item[i].next]
    <3>1. PICK t : t = [task[k] EXCEPT !.cur = item[i].next]
      OBVIOUS
    <3>2. t \in TaskType /\ t.at = "scan"
      BY <1>1, <1>6, <3>1 DEF TaskType, TaskPc
    <3>3. task' = [task EXCEPT ![k] = t]
      BY <2>1, <3>1
    <3> QED
      BY <3>2, <3>3
  <2>2. CASE task' = [task EXCEPT ![k].at = "pred"]
    <3>1. PICK t : t = [task[k] EXCEPT !.at = "pred"]
      OBVIOUS
    <3>2. t \in TaskType /\ t.at = "pred"
      BY <1>6, <3>1 DEF TaskType, TaskPc
    <3>3. task' = [task EXCEPT ![k] = t]
      BY <2>2, <3>1
    <3> QED
      BY <3>2, <3>3
  <2> QED
    BY <1>4, <2>1, <2>2
<1>8. /\ lock.unsub = k /\ lock.sub # k /\ lock' = lock
      /\ lock \in [sub : Apps \union {Nobody}, unsub : Apps \union {Nobody}]
  BY <1>1, <1>4 DEF TypeOK
<1>9. /\ task' \in [Apps -> TaskType]
      /\ \A j \in Apps : /\ (lock'.sub = j) <=> (task'[j].at \in {"accept", "find", "link"})
                         /\ (lock'.unsub = j) <=> (task'[j].at \in {"scan", "pred", "unlink"})
  BY <1>7, <1>8, LocksHeld
<1> QED
  BY <1>1, <1>4, <1>5, <1>9 DEF TypeOK

LEMMA DeleteFindTyped ==
  ASSUME TypeOK, NEW k \in Apps, DeleteFind(k)
  PROVE  TypeOK'
<1>1. PICK p \in Items \union {Null} : task' = [task EXCEPT ![k].at = "unlink", ![k].item = p]
  BY DEF DeleteFind
<1>2. /\ task[k].at = "pred"
      /\ UNCHANGED <<conn, sport, net, accepts, head, item, live, lock, handle, seen, quit, queue, rx,
                     sent, leaked, strayed, up>>
  BY DEF DeleteFind, cspVars, listVars, rxVars
<1>4. PICK t : t = [task[k] EXCEPT !.at = "unlink", !.item = p]
  OBVIOUS
<1>5. task[k] \in TaskType
  BY DEF TypeOK
<1>6. t \in TaskType /\ t.at = "unlink"
  BY <1>4, <1>5 DEF TaskType, TaskPc
<1>7. task' = [task EXCEPT ![k] = t]
  BY <1>1, <1>4
<1>8. /\ lock.unsub = k /\ lock.sub # k /\ lock' = lock
      /\ lock \in [sub : Apps \union {Nobody}, unsub : Apps \union {Nobody}]
  BY <1>2 DEF TypeOK
<1>9. /\ task' \in [Apps -> TaskType]
      /\ \A j \in Apps : /\ (lock'.sub = j) <=> (task'[j].at \in {"accept", "find", "link"})
                         /\ (lock'.unsub = j) <=> (task'[j].at \in {"scan", "pred", "unlink"})
  BY <1>6, <1>7, <1>8, LocksHeld
<1> QED
  BY <1>2, <1>9 DEF TypeOK

LEMMA DeleteUnlinkTyped ==
  ASSUME TypeOK, CallInv, NEW k \in Apps, DeleteUnlink(k)
  PROVE  TypeOK'
<1>1. PICK i : i = task[k].cur
  OBVIOUS
<1>2. PICK p : p = task[k].item
  OBVIOUS
<1>3. /\ task[k].at = "unlink" /\ lock' = [lock EXCEPT !.unsub = Nobody] /\ task' = [task EXCEPT ![k] = IdleTask]
      /\ head' = IF head = i THEN item[i].next ELSE head
      /\ live' = live \ {i}
      /\ item' = Unlinked(i, p)
      /\ UNCHANGED <<conn, sport, net, accepts, queue, rx, sent, leaked, strayed, up>>
  BY <1>1, <1>2 DEF DeleteUnlink, Disconnected, cspVars, rxVars
<1>4. Disconnected(k)
  BY DEF DeleteUnlink
<1>5. i \in Items
  BY <1>1, <1>3 DEF TypeOK, TaskType, CallInv
<1>6. item[i].next \in Items \union {Null}
  BY <1>5 DEF TypeOK, ItemType
<1>7. item' \in [Items -> ItemType]
  <2>1. ASSUME NEW j \in Items PROVE item'[j] \in ItemType
    <3>1. item[j] \in ItemType
      BY DEF TypeOK
    <3>2. [item[j] EXCEPT !.next = item[i].next] \in ItemType
      BY <1>6, <3>1 DEF ItemType
    <3> HIDE DEF ItemType
    <3> QED
      BY <1>3, <3>1, <3>2 DEF Unlinked
  <2> QED
    BY <1>3, <2>1 DEF Unlinked
<1>8. head' \in Items \union {Null} /\ live' \subseteq Items
  BY <1>3, <1>6 DEF TypeOK
<1>9. /\ task' \in [Apps -> TaskType]
      /\ lock' \in [sub : Apps \union {Nobody}, unsub : Apps \union {Nobody}]
      /\ \A j \in Apps : /\ (lock'.sub = j) <=> (task'[j].at \in {"accept", "find", "link"})
                         /\ (lock'.unsub = j) <=> (task'[j].at \in {"scan", "pred", "unlink"})
  BY <1>3, LocksFreed
<1>10. /\ handle' \in [Apps -> Items \union {Null}] /\ seen' \in [Apps -> 0..MaxPackets]
       /\ quit' \in [Apps -> 0..MaxPackets]
  BY <1>4, DisconnectedTyped
<1> QED
  BY <1>3, <1>7, <1>8, <1>9, <1>10 DEF TypeOK

LEMMA AppendType ==
  ASSUME NEW S, NEW q \in Seq(S), NEW x \in S
  PROVE  Append(q, x) \in Seq(S)
OBVIOUS

LEMMA RemoveAtType ==
  ASSUME NEW S, NEW q \in Seq(S), NEW n \in DOMAIN q
  PROVE  RemoveAt(q, n) \in Seq(S)
<1>1. DOMAIN q = 1..Len(q) /\ Len(q) \in Nat /\ n \in Nat /\ n - 1 \in Int /\ n + 1 \in Nat
  OBVIOUS
<1>2. SubSeq(q, 1, n - 1) \in Seq(S) /\ SubSeq(q, n + 1, Len(q)) \in Seq(S)
  BY <1>1
<1> QED
  BY <1>2 DEF RemoveAt

\* A call for topics leaves a list of topics.
LEMMA TopicsSet ==
  ASSUME TypeOK, NEW k \in Apps, Subscribe(k) \/ Unsubscribe(k)
  PROVE  \E i \in Items, q \in Seq(Topics) : SetTopics(k, i, q)
<1> DEFINE T == Topics
<1>1. \A i \in Items : item[i].topics \in Seq(T)
  BY DEF TypeOK, ItemType
<1>2. CASE Subscribe(k)
  <2>1. PICK i \in Items, t \in T : SetTopics(k, i, Append(item[i].topics, t))
    BY <1>2 DEF Subscribe
  <2> HIDE DEF T
  <2>2. Append(item[i].topics, t) \in Seq(T)
    BY <1>1, AppendType, Zenon
  <2> QED
    BY <2>1, <2>2, Zenon DEF T
<1>3. CASE Unsubscribe(k)
  <2>1. PICK i \in Items, n \in 1..MaxTopics : n \in DOMAIN item[i].topics /\ SetTopics(k, i, RemoveAt(item[i].topics, n))
    BY <1>3 DEF Unsubscribe
  <2> HIDE DEF T
  <2>2. RemoveAt(item[i].topics, n) \in Seq(T)
    BY <1>1, <2>1, RemoveAtType, Zenon
  <2> QED
    BY <2>1, <2>2, Zenon DEF T
<1> QED
  BY <1>2, <1>3

LEMMA SetTopicsTyped ==
  ASSUME TypeOK, NEW k \in Apps, NEW i \in Items, NEW q \in Seq(Topics), SetTopics(k, i, q)
  PROVE  TypeOK'
<1>1. /\ item' = [item EXCEPT ![i].topics = q]
      /\ quit' = [quit EXCEPT ![k] = IF q = <<>> THEN sent ELSE MaxPackets]
      /\ UNCHANGED <<conn, sport, net, accepts, head, live, lock, task, handle, seen, queue, rx, sent,
                     leaked, strayed, up>>
  BY DEF SetTopics, NotQuit, cspVars, rxVars
<1>2. item' \in [Items -> ItemType]
  <2>1. PICK e : e = [item[i] EXCEPT !.topics = q]
    OBVIOUS
  <2>2. item[i] \in ItemType
    BY DEF TypeOK
  <2>3. e \in ItemType
    BY <2>1, <2>2 DEF ItemType
  <2>4. item' = [item EXCEPT ![i] = e] /\ item \in [Items -> ItemType]
    BY <1>1, <2>1 DEF TypeOK
  <2> HIDE DEF ItemType
  <2> QED
    BY <2>3, <2>4
<1>3. quit' \in [Apps -> 0..MaxPackets]
  <2>1. MaxPackets \in Nat
    BY RTAssumption DEF MaxPackets, RTAssumption
  <2> QED
    BY <1>1, <2>1 DEF TypeOK
<1> QED
  BY <1>1, <1>2, <1>3 DEF TypeOK

LEMMA ReadTyped ==
  ASSUME TypeOK, NEW k \in Apps, Read(k)
  PROVE  TypeOK'
<1>1. PICK s : s = item[handle[k]].client
  OBVIOUS
<1>2. /\ handle[k] # Null /\ s # NoSlot /\ conn[s].rx # <<>> /\ seen' = [seen EXCEPT ![k] = Head(conn[s].rx)]
      /\ conn' = [conn EXCEPT ![s].rx = Tail(@)]
      /\ UNCHANGED <<sport, net, accepts, head, item, live, lock, task, handle, quit, queue, rx, sent, leaked, strayed, up>>
  BY <1>1 DEF Read, MayCall, listVars, rxVars
<1>3. handle[k] \in Items
  BY <1>2 DEF TypeOK
<1>4. s \in Slots
  BY <1>1, <1>2, <1>3 DEF TypeOK, ItemType
<1>5. conn[s].rx \in Seq(0..MaxPackets)
  BY <1>4 DEF TypeOK, ConnType
<1>6. Tail(conn[s].rx) \in Seq(0..MaxPackets) /\ Head(conn[s].rx) \in 0..MaxPackets
  BY <1>2, <1>5, TailFacts, Zenon
<1>7. conn' \in [Slots -> ConnType]
  <2>1. PICK q : q = Tail(conn[s].rx)
    OBVIOUS
  <2>2. conn' = [conn EXCEPT ![s].rx = q]
    BY <1>2, <2>1
  <2> QED
    BY <1>4, <1>6, <2>1, <2>2, RxType1
<1>8. seen' \in [Apps -> 0..MaxPackets]
  BY <1>2, <1>6 DEF TypeOK
<1> QED
  BY <1>2, <1>7, <1>8 DEF TypeOK

LEMMA RouteTyped ==
  ASSUME TypeOK, Route
  PROVE  TypeOK'
<1>1. PICK m : m = Head(net)
  OBVIOUS
<1>2. /\ net # <<>> /\ net' = Tail(net)
      /\ UNCHANGED <<sport, head, item, live, lock, task, handle, seen, quit, queue, rx, sent, leaked, strayed, up>>
  BY DEF Route, listVars, appVars, rxVars
<1>3. m \in PacketType /\ net' \in Seq(PacketType)
  BY <1>1, <1>2, TailFacts, Zenon DEF TypeOK
<1>4. m.port \in Ports /\ m.pkt \in 0..MaxPackets
  BY <1>3 DEF PacketType
<1>5. conn' \in [Slots -> ConnType] /\ accepts' \in Seq(Slots)
  <2>1. CASE RouteToEnd(m)
    <3>1. PICK s \in Slots : conn' = IF Len(conn[s].rx) < RxLength
                                       THEN [conn EXCEPT ![s].rx = Append(@, m.pkt)] ELSE conn
      BY <2>1 DEF RouteToEnd, EndsAt
    <3>2. PICK q : q = Append(conn[s].rx, m.pkt)
      OBVIOUS
    <3>3. conn[s].rx \in Seq(0..MaxPackets)
      BY DEF TypeOK, ConnType
    <3>4. q \in Seq(0..MaxPackets)
      BY <1>4, <3>2, <3>3
    <3>5. conn' = conn \/ conn' = [conn EXCEPT ![s].rx = q]
      BY <3>1, <3>2
    <3> QED
      BY <2>1, <3>4, <3>5, RxType1 DEF TypeOK, RouteToEnd
  <2>2. CASE RouteNew(m)
    <3>1. CASE UNCHANGED <<conn, accepts>>
      BY <3>1 DEF TypeOK
    <3>2. ASSUME NEW s \in Free, conn' = [conn EXCEPT ![s] = Opened("server", m.port, <<m.pkt>>)],
                 accepts' = Append(accepts, s)
          PROVE  conn' \in [Slots -> ConnType] /\ accepts' \in Seq(Slots)
      <4>1. s \in Slots
        BY DEF Free
      <4>2. Opened("server", m.port, <<m.pkt>>) \in ConnType
        BY <1>4 DEF Opened, ConnType, Ports
      <4> HIDE DEF ConnType
      <4>3. conn \in [Slots -> ConnType] /\ accepts \in Seq(Slots)
        BY DEF TypeOK
      <4>4. accepts' \in Seq(Slots)
        BY <3>2, <4>1, <4>3
      <4> QED
        BY <3>2, <4>1, <4>2, <4>3, <4>4
    <3> QED
      BY <2>2, <3>1, <3>2 DEF RouteNew
  <2>3. CASE RouteLost(m)
    BY <2>3 DEF RouteLost, TypeOK
  <2> QED
    BY <1>1, <2>1, <2>2, <2>3 DEF Route
<1> QED
  BY <1>2, <1>3, <1>5 DEF TypeOK

LEMMA TelemetryTyped ==
  ASSUME TypeOK, CallInv, Publish \/ RxDequeue \/ RxSend
  PROVE  TypeOK'
<1>1. /\ UNCHANGED <<conn, sport, accepts, head, item, live, lock, task, handle, seen, quit, leaked, up>>
      /\ strayed' \subseteq StrayType
  BY DEF Publish, RxDequeue, Dequeues, RxSend, cspVars, listVars, appVars, TypeOK, If, StrayType
<1>2. queue \in Seq(1..MaxPackets) /\ sent \in 0..MaxPackets /\ MaxPackets \in Nat /\ rx \in RxType
  BY RTAssumption DEF TypeOK, MaxPackets, RTAssumption
<1>3. net' \in Seq(PacketType) /\ queue' \in Seq(1..MaxPackets) /\ sent' \in 0..MaxPackets /\ rx' \in RxType
  <2>1. CASE Publish
    <3>1. sent' = sent + 1 /\ sent < MaxPackets /\ queue' = Append(queue, sent') /\ UNCHANGED <<net, rx>>
      BY <2>1 DEF Publish, cspVars
    <3>2. sent' \in 1..MaxPackets /\ sent' \in 0..MaxPackets
      BY <1>2, <3>1
    <3>3. queue' \in Seq(1..MaxPackets)
      BY <1>2, <3>1, <3>2
    <3> QED
      BY <3>1, <3>2, <3>3 DEF TypeOK
  <2>2. CASE RxDequeue
    <3>1. /\ queue # <<>> /\ queue' = Tail(queue) /\ rx' = [at |-> "send", pkt |-> Head(queue), cur |-> head]
          /\ UNCHANGED <<net, sent>>
      BY <2>2 DEF RxDequeue, Dequeues, cspVars
    <3>2. queue' \in Seq(1..MaxPackets) /\ Head(queue) \in 1..MaxPackets
      BY <1>2, <3>1, TailFacts, Zenon
    <3>3. head \in Items \union {Null}
      BY DEF TypeOK
    <3>4. rx' \in RxType
      BY <1>2, <3>1, <3>2, <3>3 DEF RxType
    <3> QED
      BY <3>1, <3>2, <3>4 DEF TypeOK
  <2>3. CASE RxSend
    <3>1. rx.at = "send" /\ UNCHANGED <<queue, sent>>
      BY <2>3 DEF RxSend
    <3>2. CASE rx.cur = Null
      <4>1. rx' = RxIdle /\ net' = net
        BY <2>3, <3>2 DEF RxSend
      <4>2. rx' \in RxType
        BY <1>2, <4>1 DEF RxIdle, RxType
      <4> QED
        BY <3>1, <4>1, <4>2 DEF TypeOK
    <3>3. CASE rx.cur # Null
      <4>1. PICK s : s = item[rx.cur].server
        OBVIOUS
      <4>2. /\ rx' = [rx EXCEPT !.cur = item[rx.cur].next]
            /\ \/ net' = net
               \/ /\ s \in Slots /\ conn[s].open
                  /\ net' = Sent([to |-> "client", port |-> conn[s].port, pkt |-> rx.pkt])
        BY <2>3, <3>3, <4>1 DEF RxSend
      <4>3. rx.cur \in Items /\ rx.pkt \in 0..MaxPackets
        BY <1>2, <3>3 DEF RxType
      <4>4. item[rx.cur].next \in Items \union {Null}
        BY <4>3 DEF TypeOK, ItemType
      <4>5. rx' \in RxType
        BY <1>2, <4>2, <4>4 DEF RxType
      <4>6. ASSUME s \in Slots, conn[s].open
            PROVE  [to |-> "client", port |-> conn[s].port, pkt |-> rx.pkt] \in PacketType
        BY <4>3, <4>6 DEF PacketType, CallInv
      <4>7. net \in Seq(PacketType)
        BY DEF TypeOK
      <4>8. net' \in Seq(PacketType)
        BY <4>2, <4>6, <4>7, SentType
      <4> QED
        BY <1>2, <3>1, <4>5, <4>8
    <3> QED
      BY <3>2, <3>3
  <2> QED
    BY <2>1, <2>2, <2>3
<1> QED
  BY <1>1, <1>3 DEF TypeOK

LEMMA CleanupTyped ==
  ASSUME TypeOK, telemetry_cleanup
  PROVE  TypeOK'
<1>1. /\ rx' = RxIdle /\ head' = Null /\ live' = live \ ToSet(Listed) /\ up' = FALSE
      /\ handle' = [k \in Apps |-> Null] /\ seen' = [k \in Apps |-> 0] /\ quit' = [k \in Apps |-> MaxPackets]
      /\ UNCHANGED <<sport, net, accepts, item, lock, task, queue, sent, leaked, strayed>>
      /\ \E S : conn' = Shut(S)
  BY DEF telemetry_cleanup, NotQuit
<1>2. conn' \in [Slots -> ConnType]
  BY <1>1, ShutType
<1>3. MaxPackets \in Nat
  BY RTAssumption DEF MaxPackets, RTAssumption
<1>4. rx' \in RxType
  BY <1>1, <1>3 DEF RxIdle, RxType
<1>6. quit' \in [Apps -> 0..MaxPackets] /\ seen' \in [Apps -> 0..MaxPackets] /\ handle' \in [Apps -> Items \union {Null}]
  BY <1>1, <1>3
<1>7. live' \subseteq Items
  BY <1>1 DEF TypeOK
<1> QED
  BY <1>1, <1>2, <1>4, <1>6, <1>7 DEF TypeOK

\* What a step leaves open had its port before, or has one of the ports.
PortsKept ==
  \A s \in Slots : conn'[s].open => (conn[s].open /\ conn'[s].port = conn[s].port) \/ conn'[s].port \in Ports

\* A step that sets the rx of one connection, or shuts some.
LEMMA PortsSame ==
  ASSUME TypeOK,
         \/ conn' = conn
         \/ \E S : conn' = Shut(S)
         \/ \E s \in Slots : \E q : conn' = [conn EXCEPT ![s].rx = q]
  PROVE  PortsKept
<1>1. conn \in [Slots -> ConnType]
  BY DEF TypeOK
<1>2. CASE conn' = conn
  BY <1>2 DEF PortsKept
<1>3. ASSUME NEW S, conn' = Shut(S) PROVE PortsKept
  BY <1>3 DEF PortsKept, Shut, Closed
<1>4. ASSUME NEW s \in Slots, NEW q, conn' = [conn EXCEPT ![s].rx = q] PROVE PortsKept
  <2>1. PICK c : c = [conn[s] EXCEPT !.rx = q]
    OBVIOUS
  <2>2. conn' = [conn EXCEPT ![s] = c] /\ c.open = conn[s].open /\ c.port = conn[s].port
    BY <1>1, <1>4, <2>1 DEF ConnType
  <2> QED
    BY <1>1, <2>2 DEF PortsKept
<1> QED
  BY <1>2, <1>3, <1>4

\* A connection that is opened, on one of the ports.
LEMMA PortsOpened ==
  ASSUME TypeOK, NEW s \in Slots, NEW e, NEW p \in Ports, NEW q, conn' = [conn EXCEPT ![s] = Opened(e, p, q)]
  PROVE  PortsKept
<1>1. Opened(e, p, q).port = p
  BY DEF Opened
<1>2. conn'[s] = Opened(e, p, q) /\ \A r \in Slots : r # s => conn'[r] = conn[r]
  BY DEF TypeOK
<1> QED
  BY <1>1, <1>2 DEF PortsKept

LEMMA AppPorts ==
  ASSUME TypeOK, NEW k \in Apps, AppStep(k)
  PROVE  PortsKept
<1>1. CASE ConnectOpen(k)
  <2>1. NextPort \in Ports
    BY <1>1, NextPortFree DEF ConnectOpen
  <2>2. conn' = conn \/ \E s \in Slots : conn' = [conn EXCEPT ![s] = Opened("client", NextPort, <<>>)]
    BY <1>1 DEF ConnectOpen, Free
  <2> QED
    BY <2>1, <2>2, PortsSame, PortsOpened
<1>2. CASE Accept(k) \/ AcceptFails(k)
  <2>1. PICK s : s = Head(accepts)
    OBVIOUS
  <2>2. accepts \in Seq(Slots) /\ accepts # <<>>
    BY <1>2 DEF TypeOK, Accept, AcceptFails
  <2>3. s \in Slots
    BY <2>1, <2>2, TailFacts, Zenon
  <2>4. conn' = [conn EXCEPT ![s].rx = Tail(@)] \/ conn' = conn
    BY <1>2, <2>1 DEF Accept, AcceptFails
  <2>5. PICK q : q = Tail(conn[s].rx)
    OBVIOUS
  <2>6. conn' = [conn EXCEPT ![s].rx = q] \/ conn' = conn
    BY <2>4, <2>5
  <2> QED
    BY <2>3, <2>6, PortsSame
<1>3. CASE AcceptTimeout(k) \/ DisconnectClose(k) \/ DisconnectScan(k)
  <2>1. conn' = conn \/ \E S : conn' = Shut(S)
    BY <1>3 DEF AcceptTimeout, GivesUp, DisconnectClose, DisconnectScan
  <2> QED
    BY <2>1, PortsSame
<1>4. CASE Read(k)
  <2>1. PICK s : s = item[handle[k]].client
    OBVIOUS
  <2>2. handle[k] \in Items /\ s # NoSlot /\ conn' = [conn EXCEPT ![s].rx = Tail(@)]
    BY <1>4, <2>1 DEF Read, MayCall, TypeOK
  <2>3. s \in Slots
    BY <2>1, <2>2 DEF TypeOK, ItemType
  <2>4. PICK q : q = Tail(conn[s].rx)
    OBVIOUS
  <2>5. conn' = [conn EXCEPT ![s].rx = q]
    BY <2>2, <2>4
  <2> QED
    BY <2>3, <2>5, PortsSame
<1>5. CASE AppendFind(k) \/ AppendLink(k) \/ DeleteFind(k) \/ DeleteUnlink(k) \/ Subscribe(k) \/ Unsubscribe(k)
  <2>1. conn' = conn
    BY <1>5 DEF AppendFind, AppendLink, DeleteFind, DeleteUnlink, Subscribe, Unsubscribe, SetTopics, cspVars
  <2> QED
    BY <2>1, PortsSame
<1> QED
  BY <1>1, <1>2, <1>3, <1>4, <1>5 DEF AppStep

LEMMA RoutePorts ==
  ASSUME TypeOK, Route
  PROVE  PortsKept
<1>1. PICK m : m = Head(net)
  OBVIOUS
<1>2. net # <<>> /\ net \in Seq(PacketType) /\ (RouteToEnd(m) \/ RouteNew(m) \/ RouteLost(m))
  BY <1>1 DEF Route, TypeOK
<1>3. m.port \in Ports
  <2>1. m \in PacketType
    BY <1>1, <1>2, TailFacts, Zenon
  <2> QED
    BY <2>1 DEF PacketType
<1>4. CASE RouteToEnd(m)
  <2>1. PICK s \in Slots : conn' = IF Len(conn[s].rx) < RxLength
                                     THEN [conn EXCEPT ![s].rx = Append(@, m.pkt)] ELSE conn
    BY <1>4 DEF RouteToEnd, EndsAt
  <2>2. PICK q : q = Append(conn[s].rx, m.pkt)
    OBVIOUS
  <2>3. conn' = conn \/ conn' = [conn EXCEPT ![s].rx = q]
    BY <2>1, <2>2
  <2> QED
    BY <2>3, PortsSame
<1>5. CASE RouteNew(m)
  <2>1. conn' = conn \/ \E s \in Slots : conn' = [conn EXCEPT ![s] = Opened("server", m.port, <<m.pkt>>)]
    BY <1>5 DEF RouteNew, Free
  <2> QED
    BY <1>3, <2>1, PortsSame, PortsOpened
<1>6. CASE RouteLost(m)
  BY <1>6, PortsSame DEF RouteLost
<1> QED
  BY <1>2, <1>4, <1>5, <1>6

\* A step of an app: it and no other moves, with what its place needs.
LEMMA AppCalls ==
  ASSUME TypeOK, CallInv, NEW k \in Apps, AppStep(k)
  PROVE  \/ task' = task
         \/ \E t : /\ task' = [task EXCEPT ![k] = t]
                   /\ t.at = "accept" => t.client # NoSlot
                   /\ t.at \in {"pred", "unlink"} => t.cur # Null
<1> DEFINE Fine(t) == /\ t.at = "accept" => t.client # NoSlot
                      /\ t.at \in {"pred", "unlink"} => t.cur # Null
<1>1. task[k] \in TaskType
  BY DEF TypeOK
<1>2. CASE ConnectOpen(k)
  <2>1. ASSUME NEW s \in Free, task' = [task EXCEPT ![k] = [IdleTask EXCEPT !.at = "accept", !.client = s]]
        PROVE  \E t : task' = [task EXCEPT ![k] = t] /\ Fine(t)
    <3>1. PICK t : t = [IdleTask EXCEPT !.at = "accept", !.client = s]
      OBVIOUS
    <3>2. s # NoSlot
      BY RTAssumption DEF Free, RTAssumption
    <3>3. Fine(t)
      BY <3>1, <3>2 DEF IdleTask
    <3> QED
      BY <2>1, <3>1, <3>3
  <2> QED
    BY <1>2, <2>1 DEF ConnectOpen
<1>3. CASE AcceptFails(k)
  <2>1. PICK t : /\ task' = [task EXCEPT ![k] = t]
                 /\ t = [IdleTask EXCEPT !.at = IF conn[Head(accepts)].rx # <<>> THEN "lost" ELSE "idle"]
    BY <1>3 DEF AcceptFails
  <2>2. Fine(t)
    BY <2>1 DEF IdleTask
  <2> QED
    BY <2>1, <2>2
<1>4. CASE Accept(k)
  <2>1. PICK i : task' = [task EXCEPT ![k].at = "find", ![k].item = i]
    BY <1>4 DEF Accept
  <2>2. PICK t : t = [task[k] EXCEPT !.at = "find", !.item = i]
    OBVIOUS
  <2>3. task' = [task EXCEPT ![k] = t] /\ Fine(t)
    BY <1>1, <2>1, <2>2 DEF TaskType
  <2> QED
    BY <2>3
<1>5. CASE AppendFind(k)
  <2>1. PICK i : task' = [task EXCEPT ![k].at = "link", ![k].cur = i]
    BY <1>5 DEF AppendFind
  <2>2. PICK t : t = [task[k] EXCEPT !.at = "link", !.cur = i]
    OBVIOUS
  <2>3. task' = [task EXCEPT ![k] = t] /\ Fine(t)
    BY <1>1, <2>1, <2>2 DEF TaskType
  <2> QED
    BY <2>3
<1>6. CASE AcceptTimeout(k) \/ AppendLink(k) \/ DeleteUnlink(k)
  <2>1. task' = [task EXCEPT ![k] = IdleTask]
    BY <1>6 DEF AcceptTimeout, GivesUp, AppendLink, DeleteUnlink, Disconnected
  <2>2. Fine(IdleTask)
    BY DEF IdleTask
  <2> QED
    BY <2>1, <2>2
<1>7. CASE DisconnectClose(k)
  <2>1. PICK t : t = [task[k] EXCEPT !.at = "scan", !.cur = head]
    OBVIOUS
  <2>2. task' = [task EXCEPT ![k] = t] /\ Fine(t)
    BY <1>1, <1>7, <2>1 DEF DisconnectClose, TaskType
  <2> QED
    BY <2>2
<1>8. CASE DisconnectScan(k)
  <2>1. \/ task' = [task EXCEPT ![k] = IdleTask]
        \/ /\ task[k].at = "scan"
           /\ \E n : task' = [task EXCEPT ![k].cur = n]
        \/ task[k].cur # Null /\ task' = [task EXCEPT ![k].at = "pred"]
    BY <1>8 DEF DisconnectScan, Disconnected
  <2>2. CASE task' = [task EXCEPT ![k] = IdleTask]
    <3>1. Fine(IdleTask)
      BY DEF IdleTask
    <3> QED
      BY <2>2, <3>1
  <2>3. ASSUME NEW n, task[k].at = "scan", task' = [task EXCEPT ![k].cur = n]
        PROVE  \E t : task' = [task EXCEPT ![k] = t] /\ Fine(t)
    <3>1. PICK t : t = [task[k] EXCEPT !.cur = n]
      OBVIOUS
    <3>2. task' = [task EXCEPT ![k] = t] /\ Fine(t)
      BY <1>1, <2>3, <3>1 DEF TaskType
    <3> QED
      BY <3>2
  <2>4. ASSUME task[k].cur # Null, task' = [task EXCEPT ![k].at = "pred"]
        PROVE  \E t : task' = [task EXCEPT ![k] = t] /\ Fine(t)
    <3>1. PICK t : t = [task[k] EXCEPT !.at = "pred"]
      OBVIOUS
    <3>2. task' = [task EXCEPT ![k] = t] /\ Fine(t)
      BY <1>1, <2>4, <3>1 DEF TaskType
    <3> QED
      BY <3>2
  <2> QED
    BY <2>1, <2>2, <2>3, <2>4
<1>9. CASE DeleteFind(k)
  <2>1. PICK p : task' = [task EXCEPT ![k].at = "unlink", ![k].item = p]
    BY <1>9 DEF DeleteFind
  <2>2. PICK t : t = [task[k] EXCEPT !.at = "unlink", !.item = p]
    OBVIOUS
  <2>3. task[k].cur # Null
    BY <1>9 DEF DeleteFind, CallInv
  <2>4. task' = [task EXCEPT ![k] = t] /\ Fine(t)
    BY <1>1, <2>1, <2>2, <2>3 DEF TaskType
  <2> QED
    BY <2>4
<1>10. CASE Subscribe(k) \/ Unsubscribe(k) \/ Read(k)
  BY <1>10 DEF Subscribe, Unsubscribe, SetTopics, Read
<1> QED
  BY <1>2, <1>3, <1>4, <1>5, <1>6, <1>7, <1>8, <1>9, <1>10 DEF AppStep

LEMMA CallsNext ==
  ASSUME TypeOK, CallInv, Next \/ UNCHANGED vars
  PROVE  CallInv'
<1>1. PortsKept
  <2>1. ASSUME NEW k \in Apps, AppStep(k) PROVE PortsKept
    BY <2>1, AppPorts
  <2>2. CASE Route
    BY <2>2, RoutePorts
  <2>3. CASE Publish \/ RxDequeue \/ RxSend \/ Finished \/ UNCHANGED vars
    <3>1. conn' = conn
      BY <2>3 DEF Publish, RxDequeue, Dequeues, RxSend, Finished, vars, cspVars
    <3> QED
      BY <3>1, PortsSame
  <2>4. CASE telemetry_cleanup
    <3>1. \E S : conn' = Shut(S)
      BY <2>4 DEF telemetry_cleanup
    <3> QED
      BY <3>1, PortsSame
  <2> QED
    BY <2>1, <2>2, <2>3, <2>4 DEF Next
<1>2. (\A s \in Slots : conn[s].open => conn[s].port \in Ports)'
  BY <1>1 DEF PortsKept, CallInv, Ports
<1>3. \A k \in Apps : /\ task'[k].at = "accept" => task'[k].client # NoSlot
                      /\ task'[k].at \in {"pred", "unlink"} => task'[k].cur # Null
  <2>1. CASE task' = task
    BY <2>1 DEF CallInv
  <2>2. ASSUME NEW k \in Apps, AppStep(k), ~(task' = task)
        PROVE  \A j \in Apps : /\ task'[j].at = "accept" => task'[j].client # NoSlot
                               /\ task'[j].at \in {"pred", "unlink"} => task'[j].cur # Null
    <3>1. PICK t : /\ task' = [task EXCEPT ![k] = t]
                   /\ t.at = "accept" => t.client # NoSlot
                   /\ t.at \in {"pred", "unlink"} => t.cur # Null
      BY <2>2, AppCalls
    <3>2. task'[k] = t /\ \A j \in Apps : j # k => task'[j] = task[j]
      BY <3>1 DEF TypeOK
    <3> QED
      BY <3>1, <3>2 DEF CallInv
  <2>3. CASE Route \/ Publish \/ RxDequeue \/ RxSend \/ telemetry_cleanup \/ Finished \/ UNCHANGED vars
    BY <2>1, <2>3 DEF Route, Publish, RxDequeue, Dequeues, RxSend, telemetry_cleanup, Finished, vars, appVars
  <2> QED
    BY <2>1, <2>2, <2>3 DEF Next
<1> QED
  BY <1>2, <1>3 DEF CallInv

LEMMA TypesNext ==
  ASSUME TypeOK, CallInv, Next \/ UNCHANGED vars
  PROVE  TypeOK'
<1>1. ASSUME NEW k \in Apps, AppStep(k) PROVE TypeOK'
  <2>1. ASSUME Subscribe(k) \/ Unsubscribe(k) PROVE TypeOK'
    BY <2>1, TopicsSet, SetTopicsTyped
  <2> QED
    BY <1>1, <2>1, ConnectOpenTyped, AcceptTyped, AcceptFailsTyped, AcceptTimeoutTyped, AppendFindTyped,
       AppendLinkTyped, DisconnectCloseTyped, DisconnectScanTyped, DeleteFindTyped, DeleteUnlinkTyped,
       ReadTyped DEF AppStep
<1>2. CASE Route
  BY <1>2, RouteTyped
<1>3. CASE Publish \/ RxDequeue \/ RxSend
  BY <1>3, TelemetryTyped
<1>4. CASE telemetry_cleanup
  BY <1>4, CleanupTyped
<1>5. CASE Finished \/ UNCHANGED vars
  BY <1>5 DEF Finished, vars, cspVars, listVars, appVars, rxVars, TypeOK
<1> QED
  BY <1>1, <1>2, <1>3, <1>4, <1>5 DEF Next

(***************************************************************************)
(* The list is whole.                                                      *)
(***************************************************************************)

\* The connection accept gives: it has the hello.
LEMMA HeadAccept ==
  ASSUME TypeOK, ServersInv, accepts # <<>>
  PROVE  /\ Head(accepts) \in ToSet(accepts) /\ Head(accepts) \in Slots
         /\ Tail(accepts) \in Seq(Slots) /\ Len(Tail(accepts)) = 0 /\ ToSet(Tail(accepts)) = {}
<1>1. accepts \in Seq(Slots) /\ Len(accepts) <= 1
  BY DEF TypeOK, ServersInv
<1>2. /\ Tail(accepts) \in Seq(Slots) /\ Len(accepts) \in Nat /\ Len(accepts) # 0
      /\ Len(Tail(accepts)) = Len(accepts) - 1 /\ DOMAIN Tail(accepts) = 1..Len(accepts) - 1
      /\ DOMAIN accepts = 1..Len(accepts) /\ Head(accepts) = accepts[1] /\ Head(accepts) \in Slots
  BY <1>1, TailFacts
<1>3. 1 \in DOMAIN accepts /\ DOMAIN Tail(accepts) = {} /\ Len(Tail(accepts)) = 0
  BY <1>1, <1>2
<1> QED
  BY <1>2, <1>3 DEF ToSet

LEMMA FirstAtIs ==
  ASSUME IsChain(Listed), NEW N, N \subseteq DOMAIN Listed
  PROVE  /\ N = {} => FirstAt(N) = Null
         /\ N # {} => \E n \in N : FirstAt(N) = Listed[n]
         /\ FirstAt(N) \in Items \union {Null}
<1>1. DOMAIN Listed = 1..Len(Listed) /\ \A n \in 1..Len(Listed) : Listed[n] \in Items
  BY ListFacts
<1>2. N \subseteq Nat
  BY <1>1
<1>3. ASSUME N # {} PROVE \E n \in N : FirstAt(N) = Listed[n]
  <2>1. PICK n \in N : \A m \in N : n <= m
    BY <1>2, <1>3, LeastNat
  <2>2. Min(N) = n
    BY <1>2, <2>1, MinIs
  <2> QED
    BY <1>3, <2>2 DEF FirstAt
<1>4. N = {} => FirstAt(N) = Null
  BY DEF FirstAt
<1> QED
  BY <1>1, <1>3, <1>4

\* A disconnect has come no further than its own item.
LEMMA ScanAt ==
  ASSUME ListInv, NEW k \in Apps, Removing(k)
  PROVE  /\ \E n \in 1..Len(Listed) : Listed[n] = handle[k]
         /\ handle[k] \in Items /\ handle[k] # Null /\ task[k].cur \in Items /\ task[k].cur # Null
         /\ task[k].at = "scan" =>
              \E m, n \in 1..Len(Listed) : m <= n /\ Listed[m] = task[k].cur /\ Listed[n] = handle[k]
         /\ task[k].at # "scan" => task[k].cur = handle[k]
<1>1. IsChain(Listed) /\ PlaceOK(k)
  BY DEF ListInv
<1>2. /\ DOMAIN Listed = 1..Len(Listed) /\ \A n \in 1..Len(Listed) : Listed[n] \in Items /\ Listed[n] # Null
      /\ \A i : i \in ToSet(Listed) <=> \E n \in 1..Len(Listed) : Listed[n] = i
  BY <1>1, ListFacts
<1>3. handle[k] # Null /\ handle[k] \in ToSet(Listed)
  BY <1>1 DEF PlaceOK
<1>4. task[k].at = "scan" =>
        \E m, n \in 1..Len(Listed) : m <= n /\ Listed[m] = task[k].cur /\ Listed[n] = handle[k]
  BY <1>1, <1>2, Zenon DEF PlaceOK
<1>5. task[k].at # "scan" => task[k].cur = handle[k]
  BY <1>1 DEF PlaceOK, Removing
<1> QED
  BY <1>2, <1>3, <1>4, <1>5

\* An item at the end of the list.
LEMMA ListAppended ==
  ASSUME IsChain(Listed), item \in [Items -> ItemType],
         NEW i \in Items, i \notin ToSet(Listed), item[i].next = Null,
         NEW c, c = IF Listed = <<>> THEN Null ELSE Last(Listed),
         IF c = Null THEN head' = i /\ item' = item
           ELSE item' = [item EXCEPT ![c].next = i] /\ head' = head
  PROVE  Listed' = Append(Listed, i) /\ IsChain(Listed)' /\ ToSet(Listed)' = ToSet(Listed) \union {i}
<1>1. PICK L : L = Listed
  OBVIOUS
<1>2. /\ L \in Seq(Items) /\ Len(L) \in Nat /\ DOMAIN L = 1..Len(L)
      /\ \A n \in 1..Len(L) : L[n] \in Items /\ L[n] # Null
      /\ \A m, n \in 1..Len(L) : L[m] = L[n] => m = n
      /\ \A j : j \in ToSet(L) <=> \E n \in 1..Len(L) : L[n] = j
      /\ head = IF Len(L) = 0 THEN Null ELSE L[1]
      /\ \A n \in 1..Len(L) : item[L[n]].next = IF n = Len(L) THEN Null ELSE L[n + 1]
  BY <1>1, ListFacts
<1>3. PICK q : q = Append(L, i)
  OBVIOUS
<1>4. /\ q \in Seq(Items) /\ Len(q) = Len(L) + 1 /\ DOMAIN q = 1..Len(L) + 1 /\ q[Len(L) + 1] = i
      /\ q # <<>> /\ \A n \in 1..Len(L) : q[n] = L[n]
  BY <1>2, <1>3
<1>5. \A n \in 1..Len(L) : L[n] # i
  BY <1>1, <1>2
<1>6. IsInjective(q)
  BY <1>2, <1>4, <1>5 DEF IsInjective
<1>7. c = IF Len(L) = 0 THEN Null ELSE L[Len(L)]
  <2>1. L = <<>> <=> Len(L) = 0
    BY <1>2
  <2> QED
    BY <1>1, <2>1 DEF Last
<1>8. head' = q[1] /\ \A n \in DOMAIN q : item'[q[n]].next = IF n = Len(q) THEN Null ELSE q[n + 1]
  <2>1. CASE Len(L) = 0
    <3>1. head' = i /\ item' = item /\ DOMAIN q = {1} /\ q[1] = i /\ Len(q) = 1
      BY <1>4, <1>7, <2>1
    <3> QED
      BY <3>1
  <2>2. CASE Len(L) # 0
    <3>1. Len(L) \in 1..Len(L)
      BY <1>2, <2>2
    <3>2. /\ c = L[Len(L)] /\ c \in Items /\ c # Null /\ c # i
      BY <1>2, <1>5, <1>7, <2>2, <3>1
    <3>3. head' = head /\ item' = [item EXCEPT ![c].next = i]
      BY <3>2
    <3>4. item'[c].next = i /\ \A j \in Items : j # c => item'[j].next = item[j].next
      <4>1. item[c] \in ItemType
        BY <3>2
      <4> QED
        BY <3>2, <3>3, <4>1 DEF ItemType
    <3>5. head' = q[1]
      BY <1>2, <1>4, <2>2, <3>1, <3>3
    <3>6. ASSUME NEW n \in DOMAIN q
          PROVE  item'[q[n]].next = IF n = Len(q) THEN Null ELSE q[n + 1]
      <4>1. CASE n = Len(L) + 1
        <5>1. item'[i].next = Null
          BY <3>2, <3>4
        <5> QED
          BY <1>4, <4>1, <5>1
      <4>2. CASE n = Len(L)
        <5>1. q[n] = c /\ q[n + 1] = i /\ n # Len(q)
          BY <1>2, <1>4, <3>1, <3>2, <4>2
        <5> QED
          BY <3>4, <5>1
      <4>3. CASE n \in 1..Len(L) /\ n # Len(L)
        <5>1. n + 1 \in 1..Len(L) /\ n # Len(q)
          BY <1>2, <1>4, <4>3
        <5>2. q[n] = L[n] /\ q[n + 1] = L[n + 1] /\ L[n] # c /\ L[n] \in Items
          BY <1>2, <1>4, <3>1, <3>2, <4>3, <5>1
        <5>3. item'[L[n]].next = item[L[n]].next /\ item[L[n]].next = L[n + 1]
          BY <1>2, <3>4, <4>3, <5>2
        <5> QED
          BY <5>1, <5>2, <5>3
      <4>4. n = Len(L) + 1 \/ n = Len(L) \/ (n \in 1..Len(L) /\ n # Len(L))
        BY <1>2, <1>4
      <4> QED
        BY <4>1, <4>2, <4>3, <4>4
    <3> QED
      BY <3>5, <3>6
  <2> QED
    BY <2>1, <2>2
<1>9. Listed' = q /\ IsChain(Listed)'
  BY <1>4, <1>6, <1>8, ChainNext
<1>10. ToSet(q) = ToSet(L) \union {i}
  <2>1. \A j : j \in ToSet(q) <=> \E n \in 1..Len(L) + 1 : q[n] = j
    BY <1>4, Zenon DEF ToSet
  <2>2. \A n \in 1..Len(L) : n \in 1..Len(L) + 1
    BY <1>2
  <2>3. \A n \in 1..Len(L) + 1 : n = Len(L) + 1 \/ n \in 1..Len(L)
    BY <1>2
  <2>4. Len(L) + 1 \in 1..Len(L) + 1
    BY <1>2
  <2>5. \A j : j \in ToSet(q) <=> j \in ToSet(L) \/ j = i
    BY <1>2, <1>4, <2>1, <2>2, <2>3, <2>4
  <2> QED
    BY <2>5
<1>11. ToSet(Listed)' = ToSet(q)
  BY <1>9 DEF ToSet
<1> QED
  BY <1>1, <1>3, <1>9, <1>10, <1>11

\* A sequence without its d-th element.
Cut(L, d) == [n \in 1..Len(L) - 1 |-> IF n < d THEN L[n] ELSE L[n + 1]]

LEMMA CutIs ==
  ASSUME NEW S, NEW L \in Seq(S), NEW d \in 1..Len(L), IsInjective(L)
  PROVE  /\ Cut(L, d) \in Seq(S) /\ Len(Cut(L, d)) = Len(L) - 1 /\ IsInjective(Cut(L, d))
         /\ DOMAIN Cut(L, d) = 1..Len(L) - 1 /\ Len(L) - 1 \in Nat
         /\ \A n \in 1..Len(L) - 1 : Cut(L, d)[n] = IF n < d THEN L[n] ELSE L[n + 1]
         /\ ToSet(Cut(L, d)) = ToSet(L) \ {L[d]}
<1>1. PICK q : q = Cut(L, d)
  OBVIOUS
<1>2. Len(L) \in Nat /\ DOMAIN L = 1..Len(L) /\ \A n \in 1..Len(L) : L[n] \in S
  OBVIOUS
<1>3. Len(L) - 1 \in Nat /\ \A n \in 1..Len(L) - 1 : n \in 1..Len(L) /\ n + 1 \in 1..Len(L) /\ n # Len(L)
  <2>1. Len(L) \in Nat
    BY <1>2
  <2>2. Len(L) - 1 \in Nat
    BY <2>1
  <2> QED
    BY <2>1, <2>2
<1>4. \A n \in 1..Len(L) - 1 : q[n] = IF n < d THEN L[n] ELSE L[n + 1]
  BY <1>1 DEF Cut
<1>5. q \in Seq(S) /\ Len(q) = Len(L) - 1 /\ DOMAIN q = 1..Len(L) - 1
  <2>1. q \in [1..Len(L) - 1 -> S]
    BY <1>1, <1>2, <1>3 DEF Cut
  <2>2. PICK N \in Nat : N = Len(L) - 1
    BY <1>3
  <2>3. q \in [1..N -> S]
    BY <2>1, <2>2
  <2>4. q \in Seq(S) /\ Len(q) = N /\ DOMAIN q = 1..N
    BY <2>3
  <2> QED
    BY <2>2, <2>4
<1>6. ASSUME NEW m \in 1..Len(L) - 1, NEW n \in 1..Len(L) - 1, q[m] = q[n] PROVE m = n
  <2>1. PICK a \in 1..Len(L), b \in 1..Len(L) :
          a = (IF m < d THEN m ELSE m + 1) /\ b = (IF n < d THEN n ELSE n + 1)
    BY <1>3
  <2>2. q[m] = L[a] /\ q[n] = L[b]
    BY <1>4, <2>1
  <2>3. a = b
    BY <1>2, <1>6, <2>2 DEF IsInjective
  <2> QED
    BY <2>1, <2>3
<1>7. IsInjective(q)
  BY <1>5, <1>6 DEF IsInjective
<1>8. ToSet(q) = ToSet(L) \ {L[d]}
  <2>1. \A x : x \in ToSet(q) <=> \E n \in 1..Len(L) - 1 : q[n] = x
    BY <1>5, Zenon DEF ToSet
  <2>2. ASSUME NEW n \in 1..Len(L) - 1 PROVE \E m \in 1..Len(L) : m # d /\ q[n] = L[m]
    <3>1. CASE n < d
      BY <1>3, <1>4, <3>1
    <3>2. CASE ~(n < d)
      <4>1. n + 1 \in 1..Len(L) /\ n + 1 # d /\ q[n] = L[n + 1]
        BY <1>3, <1>4, <3>2
      <4> QED
        BY <4>1
    <3> QED
      BY <3>1, <3>2
  <2>3. ASSUME NEW m \in 1..Len(L), m # d PROVE \E n \in 1..Len(L) - 1 : q[n] = L[m]
    <3>1. CASE m < d
      <4>1. m \in 1..Len(L) - 1
        BY <3>1
      <4>2. q[m] = L[m]
        BY <1>4, <3>1, <4>1
      <4> QED
        BY <4>1, <4>2
    <3>2. CASE ~(m < d)
      <4>1. PICK n : n = m - 1
        OBVIOUS
      <4>2. n \in 1..Len(L) - 1 /\ ~(n < d) /\ n + 1 = m
        BY <2>3, <3>2, <4>1
      <4>3. q[n] = L[m]
        BY <1>4, <4>2
      <4> QED
        BY <4>2, <4>3
    <3> QED
      BY <3>1, <3>2
  <2>4. \A x : x \in ToSet(L) <=> \E n \in 1..Len(L) : L[n] = x
    BY <1>2, Zenon DEF ToSet
  <2>6. \A m \in 1..Len(L) : L[m] = L[d] => m = d
    BY <1>2 DEF IsInjective
  <2>5. \A x : x \in ToSet(q) <=> x \in ToSet(L) /\ x # L[d]
    <3> TAKE x
    <3>1. ASSUME x \in ToSet(q) PROVE x \in ToSet(L) /\ x # L[d]
      BY <2>1, <2>2, <2>4, <2>6, <3>1
    <3>2. ASSUME x \in ToSet(L), x # L[d] PROVE x \in ToSet(q)
      <4>1. PICK m \in 1..Len(L) : L[m] = x /\ m # d
        BY <2>4, <3>2
      <4> QED
        BY <2>1, <2>3, <4>1
    <3> QED
      BY <3>1, <3>2
  <2> QED
    BY <2>5
<1> QED
  BY <1>1, <1>3, <1>4, <1>5, <1>7, <1>8

\* The successors in a list without its d-th item.
LEMMA CutNext ==
  ASSUME NEW L \in Seq(Items), NEW d \in 1..Len(L), NEW old, NEW new,
         IsInjective(L),
         \A n \in 1..Len(L) : old[L[n]] = IF n = Len(L) THEN Null ELSE L[n + 1],
         \A n \in 1..Len(L) : n # d /\ n # d - 1 => new[L[n]] = old[L[n]],
         d # 1 => new[L[d - 1]] = old[L[d]],
         NEW q, q = Cut(L, d),
         NEW n \in DOMAIN q
  PROVE  new[q[n]] = IF n = Len(q) THEN Null ELSE q[n + 1]
<1>1. /\ Len(L) - 1 \in Nat /\ Len(q) = Len(L) - 1 /\ DOMAIN q = 1..Len(L) - 1
      /\ \A m \in 1..Len(L) - 1 : q[m] = IF m < d THEN L[m] ELSE L[m + 1]
  BY CutIs, Zenon
<1>2. n \in Nat /\ n \in 1..Len(L) - 1 /\ n \in 1..Len(L) /\ n + 1 \in 1..Len(L) /\ d \in Nat /\ n # Len(L)
  BY <1>1
<1>3. CASE n < d - 1
  <2>1. n < d /\ n + 1 < d /\ n # d /\ n # d - 1 /\ n + 1 \in 1..Len(L) - 1 /\ n # Len(L) - 1
    BY <1>1, <1>2, <1>3
  <2>2. q[n] = L[n] /\ q[n + 1] = L[n + 1]
    BY <1>1, <1>2, <2>1
  <2>3. new[L[n]] = L[n + 1]
    BY <1>2, <2>1
  <2> QED
    BY <1>1, <2>1, <2>2, <2>3
<1>4. CASE n = d - 1
  <2>1. n < d /\ d # 1 /\ n + 1 = d /\ ~(n + 1 < d)
    BY <1>2, <1>4
  <2>2. q[n] = L[d - 1]
    BY <1>1, <1>2, <1>4, <2>1
  <2>3. new[q[n]] = IF d = Len(L) THEN Null ELSE L[d + 1]
    BY <2>1, <2>2
  <2>4. n # Len(L) - 1 => q[n + 1] = L[d + 1]
    <3>1. n # Len(L) - 1 => n + 1 \in 1..Len(L) - 1
      BY <1>1, <1>2
    <3> QED
      BY <1>1, <2>1, <3>1
  <2> QED
    BY <1>1, <1>2, <2>1, <2>3, <2>4
<1>5. CASE ~(n < d)
  <2>1. q[n] = L[n + 1] /\ n + 1 # d /\ n + 1 # d - 1
    BY <1>1, <1>2, <1>5
  <2>2. new[q[n]] = IF n + 1 = Len(L) THEN Null ELSE L[(n + 1) + 1]
    <3>1. PICK m \in 1..Len(L) : m = n + 1
      BY <1>2
    <3>2. new[L[m]] = IF m = Len(L) THEN Null ELSE L[m + 1]
      BY <2>1, <3>1
    <3> QED
      BY <2>1, <3>1, <3>2
  <2>3. n # Len(L) - 1 => q[n + 1] = L[(n + 1) + 1]
    <3>1. PICK N \in Nat : N = Len(L) - 1
      BY <1>1
    <3>2. n \in 1..N /\ n \in Nat /\ d \in Nat
      BY <1>2, <3>1
    <3>3. n # N => n + 1 \in 1..N /\ ~(n + 1 < d)
      BY <1>5, <3>1, <3>2
    <3> QED
      BY <1>1, <3>1, <3>3
  <2> QED
    BY <1>1, <1>2, <2>2, <2>3
<1> QED
  BY <1>2, <1>3, <1>4, <1>5

\* An item out of the list.
LEMMA ListDeleted ==
  ASSUME IsChain(Listed), item \in [Items -> ItemType], NEW i, NEW p,
         NEW d \in 1..Len(Listed), i = Listed[d], p = IF d = 1 THEN Null ELSE Listed[d - 1],
         head' = IF head = i THEN item[i].next ELSE head,
         item' = Unlinked(i, p)
  PROVE  IsChain(Listed)' /\ ToSet(Listed)' = ToSet(Listed) \ {i}
<1>1. PICK L : L = Listed
  OBVIOUS
<1>2. /\ L \in Seq(Items) /\ Len(L) \in Nat /\ DOMAIN L = 1..Len(L) /\ IsInjective(L)
      /\ \A n \in 1..Len(L) : L[n] \in Items /\ L[n] # Null
      /\ head = IF Len(L) = 0 THEN Null ELSE L[1]
  BY <1>1, ListFacts DEF IsChain
<1>14. \A m, n \in 1..Len(L) : L[m] = L[n] => m = n
  BY <1>1, ListFacts
<1>15. \A n \in 1..Len(L) : item[L[n]].next = IF n = Len(L) THEN Null ELSE L[n + 1]
  BY <1>1, ListFacts
<1>3. /\ d \in 1..Len(L) /\ i = L[d] /\ p = (IF d = 1 THEN Null ELSE L[d - 1]) /\ Len(L) # 0
      /\ d # 1 => d - 1 \in 1..Len(L)
  <2>1. d \in 1..Len(L) /\ i = L[d] /\ p = IF d = 1 THEN Null ELSE L[d - 1]
    BY <1>1
  <2>2. Len(L) \in Nat
    BY <1>2
  <2> QED
    BY <2>1, <2>2
<1>4. i \in Items /\ i # Null /\ p # i /\ p \in Items \union {Null}
  <2>1. CASE d = 1
    BY <1>2, <1>3, <2>1
  <2>2. CASE d # 1
    <3>1. d - 1 \in 1..Len(L) /\ d - 1 # d
      BY <1>3, <2>2
    <3> QED
      BY <1>2, <1>3, <1>14, <2>2, <3>1
  <2> QED
    BY <2>1, <2>2
<1>5. /\ \A j \in Items : j # i /\ j # p => item'[j].next = item[j].next
      /\ p # Null => item'[p].next = item[i].next
  <2>1. \A j \in Items : j # i /\ j # p => item'[j] = item[j]
    BY DEF Unlinked
  <2>2. ASSUME p # Null PROVE item'[p].next = item[i].next
    <3>1. p \in Items /\ item[p] \in ItemType
      BY <1>4, <2>2
    <3>2. item'[p] = [item[p] EXCEPT !.next = item[i].next]
      BY <1>4, <3>1 DEF Unlinked
    <3> QED
      BY <3>1, <3>2 DEF ItemType
  <2> QED
    BY <2>1, <2>2
<1>6. PICK old, new : /\ old = [j \in Items |-> item[j].next] /\ new = [j \in Items |-> item'[j].next]
  OBVIOUS
<1>7. /\ \A n \in 1..Len(L) : old[L[n]] = IF n = Len(L) THEN Null ELSE L[n + 1]
      /\ \A n \in 1..Len(L) : n # d /\ n # d - 1 => new[L[n]] = old[L[n]]
      /\ d # 1 => new[L[d - 1]] = old[L[d]]
  <2>1. \A j \in Items : old[j] = item[j].next /\ new[j] = item'[j].next
    BY <1>6
  <2>2. ASSUME NEW n \in 1..Len(L), n # d, n # d - 1
        PROVE  new[L[n]] = old[L[n]]
    <3>1. L[n] \in Items /\ L[n] # i /\ L[n] # Null
      BY <1>2, <1>3, <1>14, <2>2
    <3>3. L[n] # p
      BY <1>3, <1>14, <2>2, <3>1
    <3> QED
      BY <1>5, <2>1, <3>1, <3>3
  <2>3. ASSUME d # 1 PROVE new[L[d - 1]] = old[L[d]]
    <3>1. d - 1 \in 1..Len(L) /\ p = L[d - 1]
      BY <1>3, <2>3
    <3>2. p # Null /\ p \in Items
      BY <1>2, <3>1
    <3> QED
      BY <1>3, <1>4, <1>5, <2>1, <3>1, <3>2
  <2>4. \A n \in 1..Len(L) : old[L[n]] = IF n = Len(L) THEN Null ELSE L[n + 1]
    BY <1>2, <1>15, <2>1
  <2> QED
    BY <2>2, <2>3, <2>4
<1>8. PICK q : q = Cut(L, d)
  OBVIOUS
<1>9. /\ q \in Seq(Items) /\ Len(q) = Len(L) - 1 /\ IsInjective(q) /\ DOMAIN q = 1..Len(L) - 1
      /\ \A n \in 1..Len(L) - 1 : q[n] = IF n < d THEN L[n] ELSE L[n + 1]
      /\ ToSet(q) = ToSet(L) \ {i}
  <2>1. L \in Seq(Items) /\ d \in 1..Len(L) /\ IsInjective(L)
    BY <1>2, <1>3
  <2>2. /\ Cut(L, d) \in Seq(Items) /\ Len(Cut(L, d)) = Len(L) - 1 /\ IsInjective(Cut(L, d))
        /\ DOMAIN Cut(L, d) = 1..Len(L) - 1 /\ Len(L) - 1 \in Nat
        /\ \A n \in 1..Len(L) - 1 : Cut(L, d)[n] = IF n < d THEN L[n] ELSE L[n + 1]
        /\ ToSet(Cut(L, d)) = ToSet(L) \ {L[d]}
    BY <2>1, CutIs
  <2> QED
    BY <1>3, <1>8, <2>2
<1>10. \A n \in DOMAIN q : item'[q[n]].next = IF n = Len(q) THEN Null ELSE q[n + 1]
  <2>1. \A n \in DOMAIN q : new[q[n]] = IF n = Len(q) THEN Null ELSE q[n + 1]
    <3>1. L \in Seq(Items) /\ d \in 1..Len(L) /\ IsInjective(L)
      BY <1>2, <1>3
    <3> TAKE n \in DOMAIN q
    <3> QED
      BY <1>7, <1>8, <3>1, CutNext
  <2>2. \A n \in DOMAIN q : q[n] \in Items
    BY <1>9
  <2> QED
    BY <1>6, <2>1, <2>2
<1>11. head' = IF q = <<>> THEN Null ELSE q[1]
  <2>1. q = <<>> <=> Len(L) - 1 = 0
    BY <1>9
  <2>2. head = L[1] /\ 1 \in 1..Len(L)
    BY <1>2, <1>3
  <2>3. CASE d = 1
    <3>1. head' = item[i].next
      BY <1>3, <2>2, <2>3
    <3>2. head' = IF d = Len(L) THEN Null ELSE L[d + 1]
      BY <1>3, <1>15, <3>1
    <3>3. Len(L) - 1 # 0 => d \in 1..Len(L) - 1 /\ ~(d < d) /\ d # Len(L)
      BY <1>2, <1>3, <2>3
    <3>4. Len(L) - 1 # 0 => q[d] = L[d + 1]
      BY <1>9, <3>3
    <3>5. Len(L) - 1 = 0 => d = Len(L)
      <4>1. Len(L) \in Nat
        BY <1>2
      <4> QED
        BY <2>3, <4>1
    <3> QED
      BY <2>1, <2>3, <3>2, <3>3, <3>4, <3>5
  <2>4. CASE d # 1
    <3>1. 1 \in 1..Len(L) - 1 /\ 1 < d
      BY <1>2, <1>3, <2>4
    <3>3. head # i
      BY <1>3, <1>14, <2>2, <2>4
    <3>2. q[1] = L[1] /\ Len(L) - 1 # 0
      BY <1>2, <1>9, <3>1
    <3> QED
      BY <2>1, <2>2, <3>2, <3>3
  <2> QED
    BY <2>3, <2>4
<1>12. Listed' = q /\ IsChain(Listed)'
  BY <1>9, <1>10, <1>11, ChainNext
<1>13. ToSet(Listed)' = ToSet(q)
  BY <1>12 DEF ToSet
<1> QED
  BY <1>1, <1>9, <1>12, <1>13

LEMMA PlaceKept ==
  ASSUME NEW j \in Apps, PlaceOK(j), Listed' = Listed, task'[j] = task[j], handle'[j] = handle[j],
         Adding(j) => /\ task[j].item \in live => task[j].item \in live'
                      /\ item'[task[j].item].next = item[task[j].item].next
  PROVE  PlaceOK(j)'
<1>1. /\ Adding(j) <=> task[j].at \in {"find", "link"}
      /\ Adding(j)' <=> task[j].at \in {"find", "link"}
      /\ Removing(j) <=> task[j].at \in {"scan", "pred", "unlink"}
      /\ Removing(j)' <=> task[j].at \in {"scan", "pred", "unlink"}
  BY DEF Adding, Removing
<1>2. ToSet(Listed)' = ToSet(Listed) /\ Last(Listed)' = Last(Listed) /\ (DOMAIN Listed)' = DOMAIN Listed
  BY DEF ToSet, Last
<1>3. (Adding(j) => task[j].item \in live \ ToSet(Listed) /\ item[task[j].item].next = Null)'
  BY <1>1, <1>2 DEF PlaceOK
<1>4. (task[j].at = "link" => task[j].cur = IF Listed = <<>> THEN Null ELSE Last(Listed))'
  BY <1>2 DEF PlaceOK
<1>5. /\ (task[j].at \in {"accept", "find", "link"} => handle[j] = Null)'
      /\ (Removing(j) => handle[j] # Null)'
      /\ (handle[j] # Null => handle[j] \in ToSet(Listed))'
      /\ (task[j].at \in {"pred", "unlink"} => task[j].cur = handle[j])'
  BY <1>1, <1>2 DEF PlaceOK
<1>6. (task[j].at = "scan" =>
         \E m, n \in DOMAIN Listed : m <= n /\ Listed[m] = task[j].cur /\ Listed[n] = handle[j])'
  BY <1>2 DEF PlaceOK
<1>7. (task[j].at = "unlink" =>
         \A n \in DOMAIN Listed : Listed[n] = handle[j] =>
           task[j].item = IF n = 1 THEN Null ELSE Listed[n - 1])'
  BY <1>2 DEF PlaceOK
<1> QED
  BY <1>3, <1>4, <1>5, <1>6, <1>7 DEF PlaceOK

\* A step that changes neither the list nor who has an item.
LEMMA ListSame ==
  ASSUME ListInv, head' = head, live' = live, handle' = handle,
         \A i \in live : item'[i].next = item[i].next,
         \A j \in Apps : task'[j] = task[j] \/ PlaceOK(j)',
         \A j \in Apps : Adding(j) => Adding(j)' /\ task'[j].item = task[j].item,
         (Disconnecting => ~Connecting)'
  PROVE  ListInv'
<1>1. IsChain(Listed) /\ ToSet(Listed) \subseteq live
  BY DEF ListInv
<1>2. Listed' = Listed /\ IsChain(Listed)'
  BY <1>1, ListKept
<1>3. ToSet(Listed)' = ToSet(Listed)
  BY <1>2 DEF ToSet
<1>4. (\A i \in live \ ToSet(Listed) : \E k \in Apps : Adding(k) /\ task[k].item = i)'
  BY <1>3 DEF ListInv
<1>5. ASSUME NEW j \in Apps PROVE PlaceOK(j)'
  <2>1. CASE task'[j] = task[j]
    <3>1. PlaceOK(j)
      BY DEF ListInv
    <3> QED
      BY <1>2, <2>1, <3>1, PlaceKept DEF PlaceOK
  <2> QED
    BY <2>1
<1>6. (\A j, k \in Apps : handle[j] = handle[k] /\ handle[j] # Null => j = k)'
  BY DEF ListInv
<1>7. (ToSet(Listed) \subseteq live)'
  BY <1>1, <1>3
<1> QED
  BY <1>2, <1>4, <1>5, <1>6, <1>7 DEF ListInv

\* ... and no task either.
LEMMA ListIdle ==
  ASSUME ListInv, UNCHANGED <<head, live, handle, task>>, \A i \in live : item'[i].next = item[i].next
  PROVE  ListInv'
<1>1. (Disconnecting => ~Connecting)'
  BY DEF ListInv, Disconnecting, Connecting
<1>2. \A j \in Apps : Adding(j) => Adding(j)' /\ task'[j].item = task[j].item
  BY DEF Adding
<1> QED
  BY <1>1, <1>2, ListSame

\* What leaves the list and the tasks as they are.
LEMMA QuietKeeps ==
  ASSUME Inv,
         \/ Route \/ Publish \/ RxDequeue \/ RxSend
         \/ \E k \in Apps : Read(k) \/ \E i \in Items : \E q : SetTopics(k, i, q)
  PROVE  UNCHANGED <<head, live, handle, task>> /\ \A i \in live : item'[i].next = item[i].next
<1>1. CASE Route \/ Publish \/ RxDequeue \/ RxSend \/ \E k \in Apps : Read(k)
  BY <1>1 DEF Route, Publish, RxDequeue, Dequeues, RxSend, Read, listVars, appVars
<1>2. ASSUME NEW k \in Apps, NEW i \in Items, NEW q, SetTopics(k, i, q)
      PROVE  UNCHANGED <<head, live, handle, task>> /\ \A j \in live : item'[j].next = item[j].next
  <2>1. PICK e : e = [item[i] EXCEPT !.topics = q]
    OBVIOUS
  <2>2. item \in [Items -> ItemType] /\ live \subseteq Items
    BY DEF Inv, TypeOK
  <2>3. item' = [item EXCEPT ![i] = e] /\ e.next = item[i].next
    BY <1>2, <2>1, <2>2 DEF SetTopics, ItemType
  <2> QED
    BY <1>2, <2>2, <2>3 DEF SetTopics
<1> QED
  BY <1>1, <1>2

LEMMA QuietList ==
  ASSUME Inv,
         \/ Route \/ Publish \/ RxDequeue \/ RxSend
         \/ \E k \in Apps : Read(k) \/ \E i \in Items : \E q : SetTopics(k, i, q)
  PROVE  ListInv'
BY QuietKeeps, ListIdle DEF Inv

\* A task that neither adds nor removes.
LEMMA PlaceIdle ==
  ASSUME NEW k \in Apps, PlaceOK(k), ToSet(Listed)' = ToSet(Listed), handle'[k] = handle[k],
         \/ task'[k].at \in {"idle", "lost"}
         \/ task'[k].at = "accept" /\ handle[k] = Null
  PROVE  PlaceOK(k)'
BY DEF PlaceOK, Adding, Removing

LEMMA ListUnchanged ==
  ASSUME ListInv, head' = head, \A i \in live : item'[i].next = item[i].next
  PROVE  Listed' = Listed /\ ToSet(Listed)' = ToSet(Listed)
<1>1. IsChain(Listed) /\ ToSet(Listed) \subseteq live
  BY DEF ListInv
<1>2. Listed' = Listed
  BY <1>1, ListKept
<1> QED
  BY <1>2 DEF ToSet

\* What a step of task k does to the tasks of the others.
LEMMA OthersKept ==
  ASSUME TypeOK, NEW k \in Apps, NEW t, task' = [task EXCEPT ![k] = t]
  PROVE  task'[k] = t /\ \A j \in Apps : j # k => task'[j] = task[j]
BY DEF TypeOK

LEMMA ConnectOpenList ==
  ASSUME Inv, Apart', NEW k \in Apps, ConnectOpen(k)
  PROVE  ListInv'
<1> USE DEF Inv
<1>1. /\ UNCHANGED <<head, item, live, handle>> /\ handle[k] = Null /\ task[k].at = "idle"
      /\ ~Disconnecting
  BY DEF ConnectOpen, Apart, If, listVars
<1>2. Listed' = Listed /\ ToSet(Listed)' = ToSet(Listed)
  BY <1>1, ListUnchanged
<1>3. CASE task' = task
  <2>1. (Disconnecting => ~Connecting)'
    BY <1>1, <1>3 DEF Disconnecting
  <2> QED
    BY <1>1, <1>3, ListIdle
<1>4. ASSUME NEW t, t.at = "accept", task' = [task EXCEPT ![k] = t]
      PROVE  ListInv'
  <2>1. task'[k] = t /\ \A j \in Apps : j # k => task'[j] = task[j]
    BY <1>4, OthersKept
  <2>2. (Disconnecting => ~Connecting)'
    BY <1>1, <1>4, <2>1 DEF Disconnecting
  <2>3. PlaceOK(k)'
    BY <1>1, <1>2, <1>4, <2>1, PlaceIdle DEF ListInv
  <2>4. \A j \in Apps : Adding(j) => Adding(j)' /\ task'[j].item = task[j].item
    BY <1>1, <2>1 DEF Adding
  <2> QED
    BY <1>1, <2>1, <2>2, <2>3, <2>4, ListSame
<1>5. task' = task \/ \E s : task' = [task EXCEPT ![k] = [IdleTask EXCEPT !.at = "accept", !.client = s]]
  BY DEF ConnectOpen
<1>6. \A s : [IdleTask EXCEPT !.at = "accept", !.client = s].at = "accept"
  BY DEF IdleTask
<1> QED
  BY <1>3, <1>4, <1>5, <1>6

\* A connect that has failed.
LEMMA AcceptEndsList ==
  ASSUME Inv, NEW k \in Apps, AcceptFails(k) \/ AcceptTimeout(k)
  PROVE  ListInv'
<1> USE DEF Inv
<1>1. /\ UNCHANGED <<head, item, live, handle>> /\ task[k].at = "accept"
      /\ \E t : task' = [task EXCEPT ![k] = t] /\ t.at \in {"idle", "lost"}
  <2>1. CASE AcceptTimeout(k)
    <3>1. IdleTask.at = "idle"
      BY DEF IdleTask
    <3> QED
      BY <2>1, <3>1 DEF AcceptTimeout, GivesUp, listVars
  <2>2. CASE AcceptFails(k)
    <3>1. PICK x \in {"idle", "lost"} : task' = [task EXCEPT ![k] = [IdleTask EXCEPT !.at = x]]
      BY <2>2 DEF AcceptFails
    <3>2. [IdleTask EXCEPT !.at = x].at = x
      BY DEF IdleTask
    <3> QED
      BY <2>2, <3>1, <3>2 DEF AcceptFails, listVars
  <2> QED
    BY <2>1, <2>2
<1>2. Listed' = Listed /\ ToSet(Listed)' = ToSet(Listed)
  BY <1>1, ListUnchanged
<1>3. task'[k].at \in {"idle", "lost"} /\ \A j \in Apps : j # k => task'[j] = task[j]
  BY <1>1, OthersKept
<1>4. ~Disconnecting /\ (Disconnecting => ~Connecting)'
  BY <1>1, <1>3 DEF ListInv, Disconnecting, Connecting
<1>5. PlaceOK(k)'
  BY <1>1, <1>2, <1>3, PlaceIdle DEF ListInv
<1>6. \A j \in Apps : Adding(j) => Adding(j)' /\ task'[j].item = task[j].item
  BY <1>1, <1>3 DEF Adding
<1> QED
  BY <1>1, <1>3, <1>4, <1>5, <1>6, ListSame

\* Where LL_APPEND ends is the last item.
LEMMA LastIs ==
  ASSUME IsChain(Listed), NEW c, IsLast(c)
  PROVE  c = IF Listed = <<>> THEN Null ELSE Last(Listed)
<1>1. PICK N \in Nat : N = Len(Listed)
  BY ListFacts
<1>2. /\ Listed \in Seq(Items) /\ \A n \in 1..N : Listed[n] # Null
      /\ \A i : i \in ToSet(Listed) <=> \E n \in 1..N : Listed[n] = i
      /\ head = IF N = 0 THEN Null ELSE Listed[1]
      /\ \A n \in 1..N : item[Listed[n]].next = IF n = N THEN Null ELSE Listed[n + 1]
  BY <1>1, ListFacts
<1>3. Listed = <<>> <=> N = 0
  BY <1>1, <1>2
<1>4. CASE N = 0
  BY <1>2, <1>3, <1>4 DEF IsLast
<1>5. CASE N # 0
  <2>1. 1 \in 1..N
    BY <1>5
  <2>2. head # Null
    BY <1>2, <1>5, <2>1
  <2>3. c \in ToSet(Listed) /\ item[c].next = Null
    BY <2>2 DEF IsLast
  <2>4. PICK n \in 1..N : Listed[n] = c
    BY <1>2, <2>3
  <2>5. n # N => n + 1 \in 1..N
    OBVIOUS
  <2>6. n = N
    BY <1>2, <2>3, <2>4, <2>5
  <2> QED
    BY <1>1, <1>3, <1>5, <2>4, <2>6 DEF Last
<1> QED
  BY <1>4, <1>5

LEMMA AppendFindList ==
  ASSUME Inv, NEW k \in Apps, AppendFind(k)
  PROVE  ListInv'
<1> USE DEF Inv
<1>1. PICK c : /\ c = IF Listed = <<>> THEN Null ELSE Last(Listed)
               /\ task' = [task EXCEPT ![k].at = "link", ![k].cur = c]
  <2>1. PICK c : IsLast(c) /\ task' = [task EXCEPT ![k].at = "link", ![k].cur = c]
    BY DEF AppendFind
  <2> QED
    BY <2>1, LastIs DEF ListInv
<1>2. /\ UNCHANGED <<head, item, live, handle, rx>> /\ task[k].at = "find"
      /\ task' = [task EXCEPT ![k].at = "link", ![k].cur = c]
  BY <1>1 DEF AppendFind, listVars, rxVars
<1>3. Listed' = Listed /\ ToSet(Listed)' = ToSet(Listed)
  BY <1>2, ListUnchanged
<1>4. /\ task'[k].at = "link" /\ task'[k].cur = c /\ task'[k].item = task[k].item
      /\ \A j \in Apps : j # k => task'[j] = task[j]
  <2>1. PICK t : t = [task[k] EXCEPT !.at = "link", !.cur = c]
    OBVIOUS
  <2>2. task' = [task EXCEPT ![k] = t] /\ task[k] \in TaskType
    BY <1>2, <2>1 DEF TypeOK
  <2>3. t.at = "link" /\ t.cur = c /\ t.item = task[k].item
    BY <2>1, <2>2 DEF TaskType
  <2> QED
    BY <2>2, <2>3, OthersKept
<1>5. ~Disconnecting /\ (Disconnecting => ~Connecting)'
  BY <1>2, <1>4 DEF ListInv, Disconnecting, Connecting
<1>6. PlaceOK(k)'
  <2>1. /\ task[k].item \in live \ ToSet(Listed) /\ item[task[k].item].next = Null /\ handle[k] = Null
    BY <1>2 DEF ListInv, PlaceOK, Adding
  <2>2. (IF Listed = <<>> THEN Null ELSE Last(Listed))' = c
    BY <1>1, <1>3 DEF Last
  <2>3. Adding(k)' /\ ~Removing(k)'
    BY <1>4 DEF Adding, Removing
  <2> QED
    BY <1>2, <1>3, <1>4, <2>1, <2>2, <2>3 DEF PlaceOK
<1>7. \A j \in Apps : Adding(j) => Adding(j)' /\ task'[j].item = task[j].item
  BY <1>2, <1>4 DEF Adding
<1> QED
  BY <1>2, <1>4, <1>5, <1>6, <1>7, ListSame

LEMMA DisconnectCloseList ==
  ASSUME Inv, Apart', NEW k \in Apps, DisconnectClose(k)
  PROVE  ListInv'
<1> USE DEF Inv
<1>1. /\ UNCHANGED <<head, item, live, handle, rx>> /\ task[k].at = "idle" /\ handle[k] # Null
      /\ task' = [task EXCEPT ![k].at = "scan", ![k].cur = head] /\ ~Connecting
  BY DEF DisconnectClose, listVars, rxVars, Apart, If
<1>2. Listed' = Listed /\ ToSet(Listed)' = ToSet(Listed)
  BY <1>1, ListUnchanged
<1>3. /\ task'[k].at = "scan" /\ task'[k].cur = head
      /\ \A j \in Apps : j # k => task'[j] = task[j]
  <2>1. PICK t : t = [task[k] EXCEPT !.at = "scan", !.cur = head]
    OBVIOUS
  <2>2. task' = [task EXCEPT ![k] = t] /\ task[k] \in TaskType
    BY <1>1, <2>1 DEF TypeOK
  <2>3. t.at = "scan" /\ t.cur = head
    BY <2>1, <2>2 DEF TaskType
  <2> QED
    BY <2>2, <2>3, OthersKept
<1>4. (Disconnecting => ~Connecting)'
  BY <1>1, <1>3 DEF Connecting
<1>5. PlaceOK(k)'
  <2>1. handle[k] \in ToSet(Listed) /\ IsChain(Listed)
    BY <1>1 DEF ListInv, PlaceOK
  <2>2. PICK n \in 1..Len(Listed) : Listed[n] = handle[k]
    BY <2>1, ListFacts
  <2>3. Len(Listed) \in Nat /\ DOMAIN Listed = 1..Len(Listed) /\ head = IF Len(Listed) = 0 THEN Null ELSE Listed[1]
    BY <2>1, ListFacts
  <2>4. n \in DOMAIN Listed /\ 1 \in DOMAIN Listed /\ 1 <= n /\ Listed[1] = head
    BY <2>3
  <2>5. (\E m, o \in DOMAIN Listed : m <= o /\ Listed[m] = task[k].cur /\ Listed[o] = handle[k])'
    BY <1>1, <1>2, <1>3, <2>2, <2>4
  <2>6. ~Adding(k)'
    BY <1>3 DEF Adding
  <2> QED
    BY <1>1, <1>2, <1>3, <2>1, <2>5, <2>6 DEF PlaceOK
<1>6. \A j \in Apps : Adding(j) => Adding(j)' /\ task'[j].item = task[j].item
  BY <1>1, <1>3 DEF Adding
<1> QED
  BY <1>1, <1>3, <1>4, <1>5, <1>6, ListSame

\* The first item that is not alive is the one whose client's end was closed.
LEMMA ScanFinds ==
  ASSUME Inv, NEW k \in Apps, task[k].at = "scan"
  PROVE  Alive(item[task[k].cur].server) <=> task[k].cur # handle[k]
<1> USE DEF Inv
<1>1. PICK i : i = task[k].cur
  OBVIOUS
<1>2. Removing(k) /\ Parted(k)
  BY DEF Removing, PairsInv
<1>3. i = handle[k] => ~Alive(item[i].server)
  BY <1>2 DEF Parted, Alive
<1>4. ASSUME i # handle[k]
      PROVE  Alive(item[i].server)
  <2>1. i \in live
    <3>1. IsChain(Listed) /\ ToSet(Listed) \subseteq live
      BY DEF ListInv
    <3>2. \E m \in 1..Len(Listed) : Listed[m] = i
      BY <1>1, <1>2, ScanAt
    <3>3. i \in ToSet(Listed)
      BY <3>1, <3>2, ListFacts
    <3> QED
      BY <3>1, <3>3
  <2>2. ~Leaving(i)
    BY <1>2, <1>4, OneTask DEF Leaving
  <2>3. Paired(i)
    BY <2>1, <2>2 DEF PairsInv
  <2> QED
    BY <2>3 DEF Paired, IsEnd, Alive, EndsAt
<1> QED
  BY <1>1, <1>3, <1>4

LEMMA DisconnectScanList ==
  ASSUME Inv, NEW k \in Apps, DisconnectScan(k)
  PROVE  ListInv'
<1> USE DEF Inv
<1>1. UNCHANGED <<head, item, live>> /\ task[k].at = "scan"
  BY DEF DisconnectScan, listVars, rxVars
<1>2. Removing(k) /\ task[k].cur # Null /\ task[k].cur \in Items
  BY <1>1, ScanAt DEF Removing
<1>3. /\ handle' = handle
      /\ IF Alive(item[task[k].cur].server)
           THEN task' = [task EXCEPT ![k].cur = item[task[k].cur].next]
           ELSE task' = [task EXCEPT ![k].at = "pred"]
  BY <1>2 DEF DisconnectScan
<1>4. Listed' = Listed /\ ToSet(Listed)' = ToSet(Listed)
  BY <1>1, ListUnchanged
<1>5. PICK t : /\ task' = [task EXCEPT ![k] = t]
               /\ IF task[k].cur # handle[k]
                    THEN t.at = "scan" /\ t.cur = item[task[k].cur].next
                    ELSE t.at = "pred" /\ t.cur = task[k].cur
  <2>1. task[k] \in TaskType
    BY DEF TypeOK
  <2>2. CASE task[k].cur # handle[k]
    <3>1. PICK x : x = item[task[k].cur].next
      OBVIOUS
    <3>2. task' = [task EXCEPT ![k].cur = x]
      BY <1>1, <1>3, <2>2, <3>1, ScanFinds
    <3>3. PICK t : t = [task[k] EXCEPT !.cur = x]
      OBVIOUS
    <3>4. t.at = "scan" /\ t.cur = x
      BY <1>1, <2>1, <3>3 DEF TaskType
    <3>5. task' = [task EXCEPT ![k] = t]
      BY <3>2, <3>3
    <3> QED
      BY <2>2, <3>1, <3>4, <3>5
  <2>3. CASE task[k].cur = handle[k]
    <3>1. task' = [task EXCEPT ![k].at = "pred"]
      BY <1>1, <1>3, <2>3, ScanFinds
    <3>2. PICK t : t = [task[k] EXCEPT !.at = "pred"]
      OBVIOUS
    <3>3. t.at = "pred" /\ t.cur = task[k].cur
      BY <2>1, <3>2 DEF TaskType
    <3>4. task' = [task EXCEPT ![k] = t]
      BY <3>1, <3>2
    <3> QED
      BY <2>3, <3>3, <3>4
  <2> QED
    BY <2>2, <2>3
<1>6. task'[k] = t /\ \A j \in Apps : j # k => task'[j] = task[j]
  BY <1>5, OthersKept
<1>7. t.at \in {"scan", "pred"}
  BY <1>5
<1>8. Disconnecting
  BY <1>1 DEF Disconnecting
<1>9. (Disconnecting => ~Connecting)'
  BY <1>1, <1>6, <1>7, <1>8 DEF ListInv, Connecting
<1>10. PlaceOK(k)'
  <2>1. handle[k] # Null /\ handle[k] \in ToSet(Listed) /\ IsChain(Listed)
    BY <1>2 DEF ListInv, PlaceOK
  <2>2. ~Adding(k)' /\ task'[k].at \notin {"accept", "find", "link", "unlink"}
    BY <1>6, <1>7 DEF Adding
  <2>3. task'[k].at = "pred" => task'[k].cur = handle[k]
    BY <1>5, <1>6
  <2>4. ASSUME task'[k].at = "scan"
        PROVE  (\E m, n \in DOMAIN Listed : m <= n /\ Listed[m] = task[k].cur /\ Listed[n] = handle[k])'
    <3>1. task[k].cur # handle[k] /\ task'[k].cur = item[task[k].cur].next
      BY <1>5, <1>6, <2>4
    <3>2. PICK m \in 1..Len(Listed), n \in 1..Len(Listed) :
            m <= n /\ Listed[m] = task[k].cur /\ Listed[n] = handle[k]
      BY <1>1, <1>2, ScanAt
    <3>3. Len(Listed) \in Nat /\ DOMAIN Listed = 1..Len(Listed)
      BY <2>1, ListFacts
    <3>4. m # n /\ m + 1 <= n /\ m + 1 \in DOMAIN Listed /\ n \in DOMAIN Listed /\ m # Len(Listed)
      <4>1. m # n
        BY <3>1, <3>2
      <4>2. PICK N \in Nat : N = Len(Listed)
        BY <3>3
      <4>3. m \in 1..N /\ n \in 1..N /\ m <= n
        BY <3>2, <4>2
      <4>4. m + 1 <= n /\ m + 1 \in 1..N /\ m # N
        BY <4>1, <4>3
      <4> QED
        BY <3>3, <4>1, <4>2, <4>3, <4>4
    <3>5. item[Listed[m]].next = Listed[m + 1]
      BY <2>1, <3>4, ListFacts
    <3>6. m + 1 <= n /\ Listed'[m + 1] = task'[k].cur /\ Listed'[n] = handle'[k]
      BY <1>3, <1>4, <3>1, <3>2, <3>4, <3>5
    <3>7. m + 1 \in DOMAIN Listed' /\ n \in DOMAIN Listed'
      BY <1>4, <3>4
    <3> QED
      BY <3>6, <3>7
  <2> QED
    BY <1>3, <1>4, <2>1, <2>2, <2>3, <2>4 DEF PlaceOK
<1>11. \A j \in Apps : Adding(j) => Adding(j)' /\ task'[j].item = task[j].item
  BY <1>1, <1>6 DEF Adding
<1> QED
  BY <1>1, <1>3, <1>6, <1>9, <1>10, <1>11, ListSame

LEMMA DeleteFindList ==
  ASSUME Inv, NEW k \in Apps, DeleteFind(k)
  PROVE  ListInv'
<1> USE DEF Inv
<1> DEFINE before == {n \in DOMAIN Listed : item[Listed[n]].next = task[k].cur}
<1>1. PICK p : /\ p = IF head = task[k].cur THEN Null ELSE FirstAt(before)
               /\ task' = [task EXCEPT ![k].at = "unlink", ![k].item = p]
  BY DEF DeleteFind
<1>2. /\ UNCHANGED <<head, item, live, handle, rx>> /\ task[k].at = "pred"
      /\ task' = [task EXCEPT ![k].at = "unlink", ![k].item = p]
  BY <1>1 DEF DeleteFind, listVars, rxVars
<1>3. Listed' = Listed /\ ToSet(Listed)' = ToSet(Listed)
  BY <1>2, ListUnchanged
<1>4. /\ task'[k].at = "unlink" /\ task'[k].item = p /\ task'[k].cur = task[k].cur
      /\ \A j \in Apps : j # k => task'[j] = task[j]
  <2>1. PICK t : t = [task[k] EXCEPT !.at = "unlink", !.item = p]
    OBVIOUS
  <2>2. task' = [task EXCEPT ![k] = t] /\ task[k] \in TaskType
    BY <1>2, <2>1 DEF TypeOK
  <2>3. t.at = "unlink" /\ t.item = p /\ t.cur = task[k].cur
    BY <2>1, <2>2 DEF TaskType
  <2> QED
    BY <2>2, <2>3, OthersKept
<1>5. Disconnecting
  BY <1>2 DEF Disconnecting
<1>6. (Disconnecting => ~Connecting)'
  BY <1>2, <1>4, <1>5 DEF ListInv, Connecting
<1>7. Removing(k) /\ IsChain(Listed) /\ task[k].cur = handle[k] /\ handle[k] # Null /\ handle[k] \in ToSet(Listed)
  BY <1>2 DEF ListInv, PlaceOK, Removing
<1>8. ASSUME NEW n \in DOMAIN Listed, Listed[n] = handle[k]
      PROVE  p = IF n = 1 THEN Null ELSE Listed[n - 1]
  <2>1. /\ Len(Listed) \in Nat /\ DOMAIN Listed = 1..Len(Listed)
        /\ \A m, o \in 1..Len(Listed) : Listed[m] = Listed[o] => m = o
        /\ \A m \in 1..Len(Listed) : Listed[m] # Null
        /\ head = IF Len(Listed) = 0 THEN Null ELSE Listed[1]
        /\ \A m \in 1..Len(Listed) : item[Listed[m]].next = IF m = Len(Listed) THEN Null ELSE Listed[m + 1]
    BY <1>7, ListFacts
  <2>2. n \in 1..Len(Listed) /\ 1 \in 1..Len(Listed) /\ head = Listed[1]
    <3>1. n \in 1..Len(Listed) /\ Len(Listed) \in Nat
      BY <2>1, Zenon
    <3>2. 1 \in 1..Len(Listed) /\ Len(Listed) # 0
      BY <3>1
    <3> QED
      BY <2>1, <3>1, <3>2, Zenon
  <2>3. CASE n = 1
    BY <1>1, <1>7, <1>8, <2>2, <2>3
  <2>4. CASE n # 1
    <3>1. p = FirstAt(before)
      <4>1. Listed[1] # Listed[n]
        BY <2>1, <2>2, <2>4, Zenon
      <4> QED
        BY <1>1, <1>7, <1>8, <2>2, <4>1, Zenon
    <3>2. n - 1 \in 1..Len(Listed) /\ n - 1 # Len(Listed) /\ (n - 1) + 1 = n
      <4>1. Len(Listed) \in Nat
        BY <2>1, Zenon
      <4> QED
        BY <2>2, <2>4, <4>1
    <3>3. item[Listed[n - 1]].next = handle[k]
      BY <1>8, <2>1, <3>2
    <3>4. ASSUME NEW m \in 1..Len(Listed), item[Listed[m]].next = handle[k]
          PROVE  m = n - 1
      <4>1. m # Len(Listed) /\ Listed[m + 1] = Listed[n]
        <5>1. item[Listed[m]].next = IF m = Len(Listed) THEN Null ELSE Listed[m + 1]
          BY <2>1, Zenon
        <5> QED
          BY <1>7, <1>8, <3>4, <5>1
      <4>2. m + 1 \in 1..Len(Listed)
        <5>1. Len(Listed) \in Nat
          BY <2>1, Zenon
        <5> QED
          BY <4>1, <5>1
      <4>3. m + 1 = n
        BY <2>1, <2>2, <4>1, <4>2
      <4> QED
        BY <2>2, <4>3
    <3>5. before = {n - 1}
      BY <1>7, <2>1, <3>2, <3>3, <3>4
    <3>6. before \subseteq DOMAIN Listed /\ before # {}
      BY <3>5
    <3> HIDE DEF before
    <3>7. \E m \in before : FirstAt(before) = Listed[m]
      BY <1>7, <3>6, FirstAtIs
    <3> QED
      BY <2>4, <3>1, <3>5, <3>7
  <2> QED
    BY <2>3, <2>4
<1>9. PlaceOK(k)'
  <2>1. ~Adding(k)' /\ task'[k].at = "unlink"
    BY <1>4 DEF Adding
  <2>2. (\A n \in DOMAIN Listed : Listed[n] = handle[k] =>
           task[k].item = IF n = 1 THEN Null ELSE Listed[n - 1])'
    BY <1>2, <1>3, <1>4, <1>8
  <2> HIDE DEF before
  <2> QED
    BY <1>2, <1>3, <1>4, <1>7, <2>1, <2>2 DEF PlaceOK
<1>10. \A j \in Apps : Adding(j) => Adding(j)' /\ task'[j].item = task[j].item
  BY <1>2, <1>4 DEF Adding
<1> HIDE DEF before
<1> QED
  BY <1>2, <1>4, <1>6, <1>9, <1>10, ListSame

LEMMA AcceptList ==
  ASSUME Inv, NEW k \in Apps, Accept(k)
  PROVE  ListInv'
<1> USE DEF Inv
<1>1. PICK i \in Items \ live :
        /\ live' = live \union {i}
        /\ item' = [item EXCEPT ![i] = [NoItem EXCEPT !.client = task[k].client, !.server = Head(accepts)]]
        /\ task' = [task EXCEPT ![k].at = "find", ![k].item = i]
  BY DEF Accept
<1>2. UNCHANGED <<head, handle, rx>> /\ task[k].at = "accept"
  BY DEF Accept, rxVars
<1>3. /\ task'[k].at = "find" /\ task'[k].item = i /\ \A j \in Apps : j # k => task'[j] = task[j]
  <2>1. PICK t : t = [task[k] EXCEPT !.at = "find", !.item = i]
    OBVIOUS
  <2>2. task' = [task EXCEPT ![k] = t] /\ task[k] \in TaskType
    BY <1>1, <2>1 DEF TypeOK
  <2>3. t.at = "find" /\ t.item = i
    BY <2>1, <2>2 DEF TaskType
  <2> QED
    BY <2>2, <2>3, OthersKept
<1>4. item'[i].next = Null /\ \A j \in live : item'[j] = item[j]
  <2>1. PICK e : e = [NoItem EXCEPT !.client = task[k].client, !.server = Head(accepts)]
    OBVIOUS
  <2>2. e.next = Null
    BY <2>1 DEF NoItem
  <2>3. item' = [item EXCEPT ![i] = e] /\ item \in [Items -> ItemType] /\ live \subseteq Items
    BY <1>1, <2>1 DEF TypeOK
  <2> QED
    BY <2>2, <2>3
<1>5. Listed' = Listed /\ ToSet(Listed)' = ToSet(Listed) /\ IsChain(Listed)'
  <2>1. IsChain(Listed) /\ ToSet(Listed) \subseteq live
    BY DEF ListInv
  <2>2. Listed' = Listed /\ IsChain(Listed)'
    BY <1>2, <1>4, <2>1, ListKept
  <2> QED
    BY <2>2 DEF ToSet
<1>6. ~Disconnecting /\ (Disconnecting => ~Connecting)'
  BY <1>2, <1>3 DEF ListInv, Disconnecting, Connecting
<1>7. ToSet(Listed)' \subseteq live' /\ i \notin ToSet(Listed)
  BY <1>1, <1>5 DEF ListInv
<1>8. (\A j \in live \ ToSet(Listed) : \E l \in Apps : Adding(l) /\ task[l].item = j)'
  <2>1. Adding(k)' /\ ~Adding(k)
    BY <1>2, <1>3 DEF Adding
  <2>2. \A l \in Apps : Adding(l) => Adding(l)' /\ task'[l].item = task[l].item
    BY <1>3, <2>1 DEF Adding
  <2>3. \A j \in live \ ToSet(Listed) : \E l \in Apps : Adding(l) /\ task[l].item = j
    BY DEF ListInv
  <2>4. ASSUME NEW j \in live' \ ToSet(Listed) PROVE \E l \in Apps : Adding(l)' /\ task'[l].item = j
    BY <1>1, <1>3, <2>1, <2>2, <2>3
  <2> QED
    BY <1>5, <2>4
<1>9. ASSUME NEW j \in Apps PROVE PlaceOK(j)'
  <2>1. PlaceOK(j)
    BY DEF ListInv
  <2>2. CASE j = k
    <3>1. handle[k] = Null /\ handle'[k] = Null
      BY <1>2, <2>1, <2>2 DEF PlaceOK
    <3>2. ~Removing(k)'
      BY <1>3 DEF Removing
    <3> QED
      BY <1>1, <1>3, <1>4, <1>5, <1>7, <2>2, <3>1, <3>2 DEF PlaceOK
  <2>3. CASE j # k
    <3>1. Adding(j) => task[j].item \in live
      BY <2>1 DEF PlaceOK
    <3> QED
      BY <1>1, <1>2, <1>3, <1>4, <1>5, <2>1, <2>3, <3>1, PlaceKept
  <2> QED
    BY <2>2, <2>3
<1>10. (\A j, l \in Apps : handle[j] = handle[l] /\ handle[j] # Null => j = l)'
  BY <1>2 DEF ListInv
<1> QED
  BY <1>5, <1>6, <1>7, <1>8, <1>9, <1>10 DEF ListInv

\* What AppendLink does to the list.
LEMMA AppendLinkAppends ==
  ASSUME Inv, NEW k \in Apps, AppendLink(k)
  PROVE  /\ task[k].item \in live \ ToSet(Listed) /\ handle[k] = Null
         /\ Listed' = Append(Listed, task[k].item) /\ IsChain(Listed)'
         /\ ToSet(Listed)' = ToSet(Listed) \union {task[k].item}
<1> USE DEF Inv
<1>1. PICK i : i = task[k].item
  OBVIOUS
<1>2. PICK c : c = task[k].cur
  OBVIOUS
<1>3. task[k].at = "link" /\ IF c = Null THEN head' = i /\ item' = item
                              ELSE item' = [item EXCEPT ![c].next = i] /\ head' = head
  BY <1>1, <1>2 DEF AppendLink
<1>4. /\ IsChain(Listed) /\ i \in live \ ToSet(Listed) /\ item[i].next = Null /\ handle[k] = Null
      /\ c = IF Listed = <<>> THEN Null ELSE Last(Listed)
  BY <1>1, <1>2, <1>3 DEF ListInv, PlaceOK, Adding
<1>5. item \in [Items -> ItemType] /\ i \in Items
  BY <1>4 DEF TypeOK
<1>6. Listed' = Append(Listed, i) /\ IsChain(Listed)' /\ ToSet(Listed)' = ToSet(Listed) \union {i}
  BY <1>3, <1>4, <1>5, ListAppended
<1> QED
  BY <1>1, <1>4, <1>6

LEMMA AppendLinkList ==
  ASSUME Inv, NEW k \in Apps, AppendLink(k)
  PROVE  ListInv'
<1> USE DEF Inv
<1>1. PICK i : i = task[k].item
  OBVIOUS
<1>2. /\ task[k].at = "link" /\ handle' = [handle EXCEPT ![k] = i] /\ task' = [task EXCEPT ![k] = IdleTask]
      /\ UNCHANGED <<live, rx>>
  BY <1>1 DEF AppendLink, rxVars
<1>3. /\ i \in live \ ToSet(Listed) /\ handle[k] = Null /\ IsChain(Listed)'
      /\ ToSet(Listed)' = ToSet(Listed) \union {i}
  BY <1>1, AppendLinkAppends
<1>4. task'[k].at = "idle" /\ \A j \in Apps : j # k => task'[j] = task[j]
  <2>1. IdleTask.at = "idle"
    BY DEF IdleTask
  <2> QED
    BY <1>2, <2>1, OthersKept
<1>5. handle'[k] = i /\ \A j \in Apps : j # k => handle'[j] = handle[j]
  BY <1>2 DEF TypeOK
<1>6. \A j \in Apps : j # k => task[j].at \in {"idle", "lost"}
  <2>1. ~Disconnecting
    BY <1>2 DEF ListInv, Connecting
  <2>2. \A j \in Apps : j # k => task[j].at \notin {"accept", "find", "link"}
    BY <1>2, OneTask
  <2>3. \A j \in Apps : task[j].at \in TaskPc
    BY DEF TypeOK, TaskType
  <2> QED
    BY <2>1, <2>2, <2>3 DEF Disconnecting, TaskPc
<1>7. \A j \in Apps : task'[j].at \in {"idle", "lost"}
  BY <1>4, <1>6
<1>8. (Disconnecting => ~Connecting)'
  BY <1>7 DEF Disconnecting
<1>9. ToSet(Listed)' \subseteq live'
  BY <1>2, <1>3 DEF ListInv
<1>10. (\A j \in live \ ToSet(Listed) : \E l \in Apps : Adding(l) /\ task[l].item = j)'
  <2>1. ASSUME NEW j \in live, j \notin ToSet(Listed) PROVE j = i
    <3>1. PICK l \in Apps : Adding(l) /\ task[l].item = j
      BY <2>1 DEF ListInv
    <3>2. l = k
      BY <1>6, <3>1 DEF Adding
    <3> QED
      BY <1>1, <3>1, <3>2
  <2> QED
    BY <1>2, <1>3, <2>1
<1>11. ASSUME NEW j \in Apps PROVE PlaceOK(j)'
  <2>1. handle[j] # Null => handle[j] \in ToSet(Listed)
    BY DEF ListInv, PlaceOK
  <2>2. handle'[j] # Null => handle'[j] \in ToSet(Listed)'
    BY <1>3, <1>5, <2>1
  <2>3. ~Adding(j)' /\ ~Removing(j)' /\ task'[j].at \in {"idle", "lost"}
    BY <1>7 DEF Adding, Removing
  <2> QED
    BY <2>2, <2>3 DEF PlaceOK
<1>12. (\A j, l \in Apps : handle[j] = handle[l] /\ handle[j] # Null => j = l)'
  <2>1. \A j \in Apps : handle[j] # i
    <3>1. \A j \in Apps : handle[j] # Null => handle[j] \in ToSet(Listed)
      BY DEF ListInv, PlaceOK
    <3>2. i # Null
      BY <1>3, RTAssumption DEF TypeOK, RTAssumption
    <3> QED
      BY <1>3, <3>1, <3>2
  <2>2. \A j, l \in Apps : handle[j] = handle[l] /\ handle[j] # Null => j = l
    BY DEF ListInv
  <2> QED
    BY <1>5, <2>1, <2>2
<1> QED
  BY <1>3, <1>8, <1>9, <1>10, <1>11, <1>12 DEF ListInv

LEMMA DeleteUnlinkList ==
  ASSUME Inv, NEW k \in Apps, DeleteUnlink(k)
  PROVE  ListInv'
<1> USE DEF Inv
<1>1. PICK i : i = task[k].cur
  OBVIOUS
<1>2. PICK p : p = task[k].item
  OBVIOUS
<1>3. /\ task[k].at = "unlink" /\ task' = [task EXCEPT ![k] = IdleTask] /\ handle' = [handle EXCEPT ![k] = Null]
      /\ head' = IF head = i THEN item[i].next ELSE head
      /\ live' = live \ {i}
      /\ item' = Unlinked(i, p)
      /\ rx' = rx
  BY <1>1, <1>2 DEF DeleteUnlink, Disconnected, rxVars
<1>4. Removing(k) /\ Disconnecting /\ ~Connecting
  BY <1>3 DEF Removing, ListInv, Disconnecting
<1>5. IsChain(Listed) /\ PlaceOK(k) /\ item \in [Items -> ItemType] /\ i = handle[k] /\ i # Null
  BY <1>1, <1>3, <1>4, ScanAt DEF ListInv, TypeOK
<1>6. PICK d \in 1..Len(Listed) : Listed[d] = i
  BY <1>4, <1>5, ScanAt
<1>7. p = IF d = 1 THEN Null ELSE Listed[d - 1]
  <2>1. d \in DOMAIN Listed
    BY <1>5, ListFacts
  <2>2. \A n \in DOMAIN Listed : Listed[n] = handle[k] =>
          task[k].item = IF n = 1 THEN Null ELSE Listed[n - 1]
    BY <1>3, <1>5, Zenon DEF PlaceOK
  <2> QED
    BY <1>2, <1>5, <1>6, <2>1, <2>2, Zenon
<1>8. IsChain(Listed)' /\ ToSet(Listed)' = ToSet(Listed) \ {i}
  <2>1. /\ head' = IF head = i THEN item[i].next ELSE head
        /\ item' = Unlinked(i, p)
    BY <1>3, Zenon
  <2>2. IsChain(Listed) /\ item \in [Items -> ItemType] /\ i = Listed[d]
    BY <1>5, <1>6, Zenon
  <2> QED
    BY <1>7, <2>1, <2>2, ListDeleted
<1>9. /\ task'[k].at = "idle" /\ \A j \in Apps : j # k => task'[j] = task[j]
      /\ handle'[k] = Null /\ \A j \in Apps : j # k => handle'[j] = handle[j]
  <2>1. IdleTask.at = "idle"
    BY DEF IdleTask
  <2>2. handle \in [Apps -> Items \union {Null}]
    BY DEF TypeOK
  <2> QED
    BY <1>3, <2>1, <2>2, OthersKept
<1>10. \A j \in Apps : task'[j].at \in {"idle", "lost"}
  <2>1. \A j \in Apps : j # k => ~Removing(j)
    BY <1>4, OneTask
  <2>2. \A j \in Apps : task[j].at \in TaskPc
    BY DEF TypeOK, TaskType
  <2>3. \A j \in Apps : j # k => task[j].at \in {"idle", "lost"}
    BY <1>4, <2>1, <2>2 DEF Connecting, Removing, TaskPc
  <2> QED
    BY <1>9, <2>3
<1>11. (Disconnecting => ~Connecting)'
  BY <1>10 DEF Disconnecting
<1>12. ToSet(Listed)' \subseteq live' /\ live' = ToSet(Listed)'
  <2>1. ~\E j \in Apps : Adding(j)
    BY <1>4 DEF Connecting, Adding
  <2>2. live = ToSet(Listed)
    BY <2>1 DEF ListInv
  <2> QED
    BY <1>3, <1>8, <2>2
<1>13. (\A j, l \in Apps : handle[j] = handle[l] /\ handle[j] # Null => j = l)'
  BY <1>9 DEF ListInv
<1>14. ASSUME NEW j \in Apps PROVE PlaceOK(j)'
  <2>1. handle'[j] # Null => handle'[j] \in ToSet(Listed)'
    <3>1. handle[j] # Null => handle[j] \in ToSet(Listed)
      BY DEF ListInv, PlaceOK
    <3>2. handle[j] = handle[k] => j = k
      BY <1>5 DEF ListInv
    <3> QED
      BY <1>5, <1>8, <1>9, <3>1, <3>2
  <2>2. ~Adding(j)' /\ ~Removing(j)' /\ task'[j].at \in {"idle", "lost"}
    BY <1>10 DEF Adding, Removing
  <2> QED
    BY <2>1, <2>2 DEF PlaceOK
<1> QED
  BY <1>8, <1>11, <1>12, <1>13, <1>14 DEF ListInv

LEMMA CleanupList ==
  ASSUME Inv, telemetry_cleanup
  PROVE  ListInv'
<1> USE DEF Inv
<1>1. /\ \A k \in Apps : task[k].at \in {"idle", "lost"}
      /\ head' = Null /\ live' = live \ ToSet(Listed) /\ task' = task
      /\ handle' = [k \in Apps |-> Null]
  BY DEF telemetry_cleanup
<1>2. Listed' = <<>> /\ IsChain(Listed)'
  <2>1. IsInjective(<<>>) /\ <<>> \in Seq(Items) /\ DOMAIN <<>> = {}
    BY DEF IsInjective
  <2>2. head' = IF <<>> = <<>> THEN Null ELSE <<>>[1]
    BY <1>1
  <2>3. PICK q : q = <<>>
    OBVIOUS
  <2>4. q \in Seq(Items) /\ IsInjective(q) /\ head' = IF q = <<>> THEN Null ELSE q[1]
    BY <1>1, <2>1, <2>3
  <2>5. \A n \in DOMAIN q : item'[q[n]].next = IF n = Len(q) THEN Null ELSE q[n + 1]
    BY <2>1, <2>3
  <2>6. Listed' = q /\ IsChain(Listed)'
    BY <2>4, <2>5, ChainNext
  <2> QED
    BY <2>3, <2>6
<1>3. ToSet(Listed)' = {}
  BY <1>2 DEF ToSet
<1>4. live' = {}
  <2>1. ~\E j \in Apps : Adding(j)
    BY <1>1 DEF Adding
  <2> QED
    BY <1>1, <2>1 DEF ListInv
<1>5. \A k \in Apps : PlaceOK(k)'
  BY <1>1 DEF PlaceOK, Adding, Removing
<1>6. (Disconnecting => ~Connecting)'
  BY <1>1 DEF Disconnecting
<1>7. (\A j, k \in Apps : handle[j] = handle[k] /\ handle[j] # Null => j = k)'
  BY <1>1
<1> QED
  BY <1>2, <1>3, <1>4, <1>5, <1>6, <1>7 DEF ListInv

(***************************************************************************)
(* telemetry_send is in the list.                                          *)
(***************************************************************************)

\* The list may grow under it, and shrinks only where it is idle.
LEMMA SendKept ==
  ASSUME SendInv, rx' = rx, (Disconnecting => ~Sending)',
         Sending => ToSet(Listed) \subseteq ToSet(Listed)'
  PROVE  SendInv'
BY DEF SendInv, Sending

\* The item after one of the list.
LEMMA NextOf ==
  ASSUME IsChain(Listed), NEW i \in ToSet(Listed)
  PROVE  item[i].next \in ToSet(Listed) \union {Null}
<1>1. PICK N \in Nat : N = Len(Listed)
  BY ListFacts
<1>2. /\ \A j : j \in ToSet(Listed) <=> \E n \in 1..N : Listed[n] = j
      /\ \A n \in 1..N : item[Listed[n]].next = IF n = N THEN Null ELSE Listed[n + 1]
  BY <1>1, ListFacts
<1>3. PICK n \in 1..N : Listed[n] = i
  BY <1>2
<1>4. n # N => n + 1 \in 1..N
  BY <1>3
<1> QED
  BY <1>2, <1>3, <1>4

LEMMA FirstOf ==
  ASSUME IsChain(Listed)
  PROVE  head \in ToSet(Listed) \union {Null}
<1>1. PICK N \in Nat : N = Len(Listed)
  BY ListFacts
<1>2. /\ head = IF N = 0 THEN Null ELSE Listed[1]
      /\ \A i : i \in ToSet(Listed) <=> \E n \in 1..N : Listed[n] = i
  BY <1>1, ListFacts
<1>3. N # 0 => 1 \in 1..N
  OBVIOUS
<1> QED
  BY <1>2, <1>3

LEMMA QuietSend ==
  ASSUME Inv, SendInv, strayed' = {},
         \/ Route \/ Publish \/ RxDequeue \/ RxSend
         \/ \E k \in Apps : Read(k) \/ \E i \in Items : \E q : SetTopics(k, i, q)
  PROVE  SendInv'
<1>1. IsChain(Listed) /\ ListInv
  BY DEF Inv, ListInv
<1>2. /\ UNCHANGED task /\ head' = head
      /\ \A i \in live : item'[i].next = item[i].next
  BY QuietKeeps
<1>3. ToSet(Listed)' = ToSet(Listed)
  BY <1>1, <1>2, ListUnchanged
<1>4. Disconnecting' <=> Disconnecting
  BY <1>2 DEF Disconnecting
<1>5. CASE rx' = rx
  BY <1>3, <1>4, <1>5, SendKept DEF SendInv, Sending
<1>6. CASE RxDequeue
  <2>1. rx' = [at |-> "send", pkt |-> Head(queue), cur |-> head] /\ ~Disconnecting
    BY <1>6 DEF RxDequeue, Dequeues, If
  <2>2. rx'.cur = head
    BY <2>1
  <2>3. head \in ToSet(Listed) \union {Null}
    BY <1>1, FirstOf
  <2>4. rx'.cur \in ToSet(Listed)' \union {Null} /\ ~Disconnecting'
    BY <1>3, <1>4, <2>1, <2>2, <2>3
  <2>5. Sending'
    BY <2>1 DEF Sending
  <2> QED
    BY <2>4, <2>5 DEF SendInv
<1>7. CASE RxSend
  <2>1. rx.at = "send" /\ ~Disconnecting /\ rx.cur \in ToSet(Listed) \union {Null}
    BY <1>7 DEF RxSend, SendInv, Sending
  <2>2. CASE rx.cur = Null
    BY <1>4, <1>7, <2>1, <2>2 DEF RxSend, RxIdle, SendInv, Sending
  <2>3. CASE rx.cur # Null
    <3>1. PICK c : c = item[rx.cur].next
      OBVIOUS
    <3>2. c \in ToSet(Listed) \union {Null}
      BY <1>1, <2>1, <2>3, <3>1, NextOf
    <3>3. rx' = [rx EXCEPT !.cur = c]
      BY <1>7, <2>3, <3>1 DEF RxSend
    <3>4. rx \in RxType
      BY DEF Inv, TypeOK
    <3>5. rx'.at = "send" /\ rx'.cur = c
      BY <2>1, <3>3, <3>4 DEF RxType
    <3> QED
      BY <1>3, <1>4, <2>1, <3>2, <3>5 DEF SendInv, Sending
  <2> QED
    BY <2>2, <2>3
<1>8. Route \/ Publish \/ (\E k \in Apps : Read(k) \/ \E i \in Items : \E q : SetTopics(k, i, q)) => rx' = rx
  BY DEF Route, Publish, Read, SetTopics, rxVars
<1> QED
  BY <1>5, <1>6, <1>7, <1>8

\* A step that leaves the list as it is, and begins no disconnect.
LEMMA CallSend ==
  ASSUME Inv, SendInv, rx' = rx, head' = head, \A i \in live : item'[i].next = item[i].next,
         NEW k \in Apps, NEW t, task' = [task EXCEPT ![k] = t], t.at \notin {"scan", "pred", "unlink"}
  PROVE  SendInv'
<1>1. ToSet(Listed)' = ToSet(Listed)
  BY ListUnchanged DEF Inv
<1>2. task'[k] = t /\ \A j \in Apps : j # k => task'[j] = task[j]
  BY OthersKept DEF Inv
<1>3. Disconnecting' => Disconnecting
  BY <1>2 DEF Disconnecting
<1> QED
  BY <1>1, <1>3, SendKept DEF SendInv, Sending

LEMMA AppSend ==
  ASSUME Inv, SendInv, strayed' = {}, NEW k \in Apps, AppStep(k)
  PROVE  SendInv'
<1>1. CASE ConnectOpen(k)
  <2>1. /\ rx' = rx /\ head' = head /\ item' = item
        /\ task' = task \/ \E s : task' = [task EXCEPT ![k] = [IdleTask EXCEPT !.at = "accept", !.client = s]]
    BY <1>1 DEF ConnectOpen, listVars, rxVars
  <2>2. \A s : [IdleTask EXCEPT !.at = "accept", !.client = s].at = "accept"
    BY DEF IdleTask
  <2>3. CASE task' = task
    <3>1. ToSet(Listed)' = ToSet(Listed)
      BY <2>1, ListUnchanged DEF Inv
    <3> QED
      BY <2>1, <2>3, <3>1, SendKept DEF SendInv, Sending, Disconnecting
  <2> QED
    BY <2>1, <2>2, <2>3, CallSend
<1>2. CASE Accept(k)
  <2>1. PICK i \in Items \ live : /\ \E x : item' = [item EXCEPT ![i] = x]
                                 /\ task' = [task EXCEPT ![k].at = "find", ![k].item = i]
    BY <1>2 DEF Accept
  <2>2. rx' = rx /\ head' = head
    BY <1>2 DEF Accept, rxVars
  <2>3. PICK t : t = [task[k] EXCEPT !.at = "find", !.item = i]
    OBVIOUS
  <2>4. task[k] \in TaskType
    BY DEF Inv, TypeOK
  <2>5. task' = [task EXCEPT ![k] = t] /\ t.at = "find"
    BY <2>1, <2>3, <2>4 DEF TaskType
  <2>6. item \in [Items -> ItemType] /\ live \subseteq Items
    BY DEF Inv, TypeOK
  <2>7. \A j \in live : item'[j] = item[j]
    BY <2>1, <2>6
  <2> QED
    BY <2>2, <2>5, <2>7, CallSend
<1>3. CASE AcceptFails(k) \/ AcceptTimeout(k)
  <2>1. rx' = rx /\ head' = head /\ item' = item
    BY <1>3 DEF AcceptFails, AcceptTimeout, GivesUp, listVars, rxVars
  <2>2. \E t : task' = [task EXCEPT ![k] = t] /\ t.at \in {"idle", "lost"}
    <3>1. CASE AcceptTimeout(k)
      <4>1. IdleTask.at = "idle"
        BY DEF IdleTask
      <4> QED
        BY <3>1, <4>1 DEF AcceptTimeout, GivesUp
    <3>2. CASE AcceptFails(k)
      <4>1. PICK x \in {"idle", "lost"} : task' = [task EXCEPT ![k] = [IdleTask EXCEPT !.at = x]]
        BY <3>2 DEF AcceptFails
      <4>2. [IdleTask EXCEPT !.at = x].at = x
        BY DEF IdleTask
      <4> QED
        BY <4>1, <4>2
    <3> QED
      BY <1>3, <3>1, <3>2
  <2> QED
    BY <2>1, <2>2, CallSend
<1>4. CASE AppendFind(k)
  <2>1. PICK i : task' = [task EXCEPT ![k].at = "link", ![k].cur = i]
    BY <1>4 DEF AppendFind
  <2>2. rx' = rx /\ head' = head /\ item' = item
    BY <1>4 DEF AppendFind, listVars, rxVars
  <2>3. PICK t : t = [task[k] EXCEPT !.at = "link", !.cur = i]
    OBVIOUS
  <2>4. task[k] \in TaskType
    BY DEF Inv, TypeOK
  <2>5. task' = [task EXCEPT ![k] = t] /\ t.at = "link"
    BY <2>1, <2>3, <2>4 DEF TaskType
  <2> QED
    BY <2>2, <2>5, CallSend
<1>5. CASE AppendLink(k)
  <2>1. ToSet(Listed) \subseteq ToSet(Listed)'
    BY <1>5, AppendLinkAppends
  <2>2. rx' = rx /\ task' = [task EXCEPT ![k] = IdleTask]
    BY <1>5 DEF AppendLink, rxVars
  <2>3. IdleTask.at = "idle"
    BY DEF IdleTask
  <2>4. Disconnecting' => Disconnecting
    BY <2>2, <2>3, OthersKept DEF Inv, Disconnecting
  <2> QED
    BY <2>1, <2>2, <2>4, SendKept DEF SendInv, Sending
<1>6. CASE DisconnectClose(k)
  <2>1. rx' = rx /\ ~Sending
    BY <1>6 DEF DisconnectClose, If, rxVars
  <2> QED
    BY <2>1 DEF SendInv, Sending
<1>7. CASE DisconnectScan(k) \/ DeleteFind(k) \/ DeleteUnlink(k)
  <2>1. rx' = rx /\ Disconnecting
    BY <1>7 DEF DisconnectScan, DeleteFind, DeleteUnlink, rxVars, Disconnecting
  <2> QED
    BY <2>1 DEF SendInv, Sending
<1>8. CASE Subscribe(k) \/ Unsubscribe(k)
  <2>1. \E i \in Items : \E q : SetTopics(k, i, q)
    BY <1>8, TopicsSet DEF Inv
  <2> QED
    BY <2>1, QuietSend
<1>9. CASE Read(k)
  BY <1>9, QuietSend
<1> QED
  BY <1>1, <1>2, <1>3, <1>4, <1>5, <1>6, <1>7, <1>8, <1>9 DEF AppStep

LEMMA CleanupSend ==
  ASSUME telemetry_cleanup
  PROVE  SendInv'
BY DEF telemetry_cleanup, RxIdle, SendInv, Sending

(***************************************************************************)
(* Each item has its own two connections.                                  *)
(***************************************************************************)

\* A removal is of an item in use.
LEMMA RemovesLive ==
  ASSUME Inv, NEW k \in Apps, handle[k] # Null
  PROVE  handle[k] \in live /\ handle[k] \in ToSet(Listed)
BY DEF Inv, ListInv, PlaceOK

\* A step that opens and closes nothing, and leaves the items and those who
\* wait and remove.
EndsKept ==
  /\ \A s \in Slots : /\ conn'[s].open = conn[s].open /\ conn'[s].end = conn[s].end
                      /\ conn'[s].port = conn[s].port
  /\ UNCHANGED <<live, leaked, accepts>>
  /\ \A i \in live : item'[i].client = item[i].client /\ item'[i].server = item[i].server
  /\ \A k \in Apps :
       /\ Removing(k)' <=> Removing(k)
       /\ Removing(k) => handle'[k] = handle[k] /\ (task'[k].at = "scan" <=> task[k].at = "scan")
       /\ task'[k].at = "accept" <=> task[k].at = "accept"
       /\ task[k].at = "accept" => task'[k].client = task[k].client

LEMMA EndsKeptPairs ==
  ASSUME Inv, EndsKept
  PROVE  PairsInv'
<1>1. \A s, e : IsEnd(s, e)' <=> IsEnd(s, e)
  BY DEF EndsKept, IsEnd
<1>2. \A p : EndsAt("client", p)' = EndsAt("client", p)
  BY DEF EndsKept, EndsAt
<1>3. \A i \in live : \A s : EndOf(s, i)' <=> EndOf(s, i)
  BY DEF EndsKept, EndOf
<1>4. \A i \in live : Leaving(i)' <=> Leaving(i)
  BY DEF EndsKept, Leaving
<1>5. \A i \in live : item[i].client \in Slots /\ item[i].server \in Slots /\ item[i].client # item[i].server
  BY DEF Inv, PairsInv
<1>6. \A i \in live : Paired(i)' <=> Paired(i)
  BY <1>1, <1>5 DEF EndsKept, Paired
<1>7. (\A i \in live : /\ item[i].client \in Slots /\ item[i].server \in Slots
                       /\ item[i].client # item[i].server
                       /\ ~Leaving(i) => Paired(i))'
  BY <1>4, <1>5, <1>6 DEF EndsKept, Inv, PairsInv
<1>8. (\A i, j \in live, s \in Slots : EndOf(s, i) /\ EndOf(s, j) => i = j)'
  BY <1>3 DEF EndsKept, Inv, PairsInv
<1>9. ASSUME NEW k \in Apps, Removing(k)' PROVE Parted(k)'
  <2>1. Removing(k) /\ handle'[k] = handle[k] /\ (task'[k].at = "scan" <=> task[k].at = "scan")
    BY <1>9 DEF EndsKept
  <2>2. Parted(k) /\ handle[k] \in live
    BY <2>1, RemovesLive DEF Inv, PairsInv, ListInv, PlaceOK
  <2>3. PICK i \in live : i = handle[k]
    BY <2>2
  <2>4. /\ item'[i].client = item[i].client /\ item'[i].server = item[i].server
        /\ item[i].client \in Slots /\ item[i].server \in Slots
    BY <1>5 DEF EndsKept
  <2>5. /\ conn'[item[i].client].open = conn[item[i].client].open
        /\ conn'[item[i].server].open = conn[item[i].server].open
        /\ conn'[item[i].server].port = conn[item[i].server].port
    BY <2>4 DEF EndsKept
  <2> QED
    BY <1>1, <1>2, <2>1, <2>2, <2>3, <2>4, <2>5 DEF Parted
<1> QED
  BY <1>7, <1>8, <1>9 DEF PairsInv

LEMMA EndsKeptClients ==
  ASSUME Inv, EndsKept
  PROVE  ClientsInv'
<1>1. \A s, e : IsEnd(s, e)' <=> IsEnd(s, e)
  BY DEF EndsKept, IsEnd
<1>2. \A i \in live : \A s : EndOf(s, i)' <=> EndOf(s, i)
  BY DEF EndsKept, EndOf
<1>3. \A s : Loose(s)' <=> Loose(s)
  BY <1>1, <1>2 DEF EndsKept, Loose, OfNoItem
<1>4. (\A s, t \in Slots : IsEnd(s, "client") /\ IsEnd(t, "client") /\ conn[s].port = conn[t].port => s = t)'
  BY <1>1 DEF EndsKept, Inv, ClientsInv
<1>5. (\A k \in Apps : task[k].at = "accept" => Loose(task[k].client) /\ task[k].client \notin leaked)'
  BY <1>3 DEF EndsKept, Inv, ClientsInv
<1>6. (\A s \in leaked : conn[s].open /\ OfNoItem(s))'
  <2>1. leaked \subseteq Slots
    BY DEF Inv, TypeOK
  <2> QED
    BY <1>2, <2>1 DEF EndsKept, Inv, ClientsInv, OfNoItem
<1>7. (\A s \in Slots : IsEnd(s, "client") =>
         \/ s \in leaked
         \/ \E i \in live : s = item[i].client
         \/ \E k \in Apps : task[k].at = "accept" /\ task[k].client = s)'
  <2> SUFFICES ASSUME NEW s \in Slots, IsEnd(s, "client")
               PROVE  \/ s \in leaked'
                      \/ \E i \in live' : s = item'[i].client
                      \/ \E k \in Apps : task'[k].at = "accept" /\ task'[k].client = s
    BY <1>1
  <2>1. \/ s \in leaked
        \/ \E i \in live : s = item[i].client
        \/ \E k \in Apps : task[k].at = "accept" /\ task[k].client = s
    BY DEF Inv, ClientsInv
  <2> QED
    BY <2>1 DEF EndsKept
<1> QED
  BY <1>4, <1>5, <1>6, <1>7 DEF ClientsInv

LEMMA AwaitedKept ==
  ASSUME Inv, EndsKept, NEW p
  PROVE  Awaited(p)' <=> Awaited(p)
<1>1. \A k \in Apps : task[k].at = "accept" => task[k].client \in Slots
  BY DEF Inv, ClientsInv, Loose, IsEnd
<1>2. \A k \in Apps : task[k].at = "accept" => conn'[task'[k].client].port = conn[task[k].client].port
  BY <1>1 DEF EndsKept
<1> QED
  BY <1>2 DEF EndsKept, Awaited

LEMMA EndsKeptServers ==
  ASSUME Inv, EndsKept, \A s \in ToSet(accepts) : conn'[s].rx # <<>>
  PROVE  ServersInv'
<1>1. \A s, e : IsEnd(s, e)' <=> IsEnd(s, e)
  BY DEF EndsKept, IsEnd
<1>2. \A i \in live : \A s : EndOf(s, i)' <=> EndOf(s, i)
  BY DEF EndsKept, EndOf
<1>3. ToSet(accepts)' = ToSet(accepts) /\ Len(accepts') <= 1
  BY DEF EndsKept, ToSet, Inv, ServersInv
<1>4. (\A s \in Slots : conn[s].open => conn[s].end \in {"client", "server"} /\ conn[s].port \in Ports)'
  BY DEF EndsKept, Inv, ServersInv
<1>5. (\A s \in Slots : IsEnd(s, "server") =>
         s \in leaked \/ s \in ToSet(accepts) \/ \E i \in live : s = item[i].server)'
  <2> SUFFICES ASSUME NEW s \in Slots, IsEnd(s, "server"), s \notin ToSet(accepts), s \notin leaked
               PROVE  \E i \in live' : s = item'[i].server
    BY <1>1, <1>3 DEF EndsKept
  <2>1. \E i \in live : s = item[i].server
    BY DEF Inv, ServersInv
  <2> QED
    BY <2>1 DEF EndsKept
<1>6. ASSUME NEW s \in ToSet(accepts)'
      PROVE  /\ IsEnd(s, "server")' /\ conn'[s].rx # <<>> /\ OfNoItem(s)' /\ s \notin leaked'
             /\ Awaited(conn[s].port)'
  <2>1. /\ s \in ToSet(accepts) /\ IsEnd(s, "server") /\ OfNoItem(s) /\ s \notin leaked
        /\ Awaited(conn[s].port)
    BY <1>3 DEF Inv, ServersInv
  <2>2. conn'[s].port = conn[s].port
    BY <2>1 DEF EndsKept, IsEnd
  <2>3. PICK p : p = conn[s].port
    OBVIOUS
  <2>4. Awaited(p)'
    BY <2>1, <2>3, AwaitedKept
  <2>5. Awaited(conn[s].port)' <=> Awaited(p)'
    BY <2>2, <2>3 DEF Awaited
  <2> QED
    BY <1>1, <1>2, <2>1, <2>4, <2>5 DEF EndsKept, OfNoItem
<1> QED
  BY <1>3, <1>4, <1>5, <1>6 DEF ServersInv

\* No hello is sent.
LEMMA HelloKept ==
  ASSUME Inv, EndsKept,
         \/ net' = net
         \/ net # <<>> /\ net' = Tail(net)
         \/ \E m : m \in PacketType /\ m.to = "client" /\ net' = Append(net, m)
  PROVE  HelloInv'
<1> DEFINE HelloAt(N, n) ==
      /\ accepts = <<>>
      /\ Awaited(N[n].port)
      /\ \A m \in DOMAIN N : N[m].to = "server" => m = n
<1>1. net \in Seq(PacketType) /\ \A n \in DOMAIN net : net[n].to = "server" => HelloAt(net, n)
  BY DEF Inv, TypeOK, HelloInv
<1>2. PICK N : N = net'
  OBVIOUS
<1>3. ASSUME NEW n \in DOMAIN N, N[n].to = "server"
      PROVE  HelloAt(N, n)
  <2>1. CASE net' = net
    BY <1>1, <1>2, <1>3, <2>1
  <2>2. CASE net # <<>> /\ net' = Tail(net)
    <3>1. /\ Len(net) \in Nat /\ DOMAIN net = 1..Len(net) /\ DOMAIN N = 1..Len(net) - 1
          /\ \A m \in 1..Len(net) - 1 : N[m] = net[m + 1]
      BY <1>1, <1>2, <2>2, TailFacts, Zenon
    <3>2. n + 1 \in DOMAIN net /\ N[n] = net[n + 1]
      BY <3>1
    <3>3. HelloAt(net, n + 1)
      BY <1>1, <1>3, <3>2
    <3>4. ASSUME NEW m \in DOMAIN N, N[m].to = "server" PROVE m = n
      <4>1. m + 1 \in DOMAIN net /\ N[m] = net[m + 1]
        BY <3>1
      <4>2. m + 1 = n + 1
        BY <3>3, <3>4, <4>1
      <4> QED
        BY <3>1, <4>2
    <3> QED
      BY <3>2, <3>3, <3>4
  <2>3. ASSUME NEW x, x \in PacketType, x.to = "client", net' = Append(net, x)
        PROVE  HelloAt(N, n)
    <3>1. PICK P : P = PacketType
      OBVIOUS
    <3>2. net \in Seq(P) /\ x \in P /\ N = Append(net, x)
      BY <1>1, <1>2, <2>3, <3>1
    <3>3. /\ Len(net) \in Nat /\ DOMAIN net = 1..Len(net) /\ DOMAIN N = 1..Len(net) + 1 /\ N[Len(net) + 1] = x
          /\ \A m \in 1..Len(net) : N[m] = net[m]
      BY <3>2
    <3>4. ASSUME NEW m \in DOMAIN N, N[m].to = "server"
          PROVE  m \in DOMAIN net /\ N[m] = net[m]
      <4>1. m # Len(net) + 1
        BY <2>3, <3>3, <3>4
      <4>2. PICK L \in Nat : L = Len(net)
        BY <3>3
      <4>3. m \in 1..L + 1 /\ m # L + 1
        BY <3>3, <4>1, <4>2
      <4>4. m \in 1..L
        BY <4>3
      <4> QED
        BY <3>3, <4>2, <4>4
    <3>5. HelloAt(net, n) /\ N[n] = net[n]
      BY <1>1, <1>3, <3>4
    <3> QED
      BY <3>4, <3>5
  <2> QED
    BY <2>1, <2>2, <2>3
<1>4. ASSUME NEW n \in DOMAIN N, N[n].to = "server"
      PROVE  /\ accepts' = <<>> /\ Awaited(net[n].port)'
             /\ \A m \in DOMAIN N : N[m].to = "server" => m = n
  <2>1. PICK p : p = N[n].port
    OBVIOUS
  <2>2. HelloAt(N, n)
    BY <1>3, <1>4
  <2>3. Awaited(p)'
    BY <2>1, <2>2, AwaitedKept
  <2>4. Awaited(net[n].port)' <=> Awaited(p)'
    BY <1>2, <2>1 DEF Awaited
  <2> QED
    BY <2>2, <2>3, <2>4 DEF EndsKept
<1> QED
  BY <1>2, <1>4 DEF HelloInv

EndsInv == PairsInv /\ ClientsInv /\ ServersInv /\ HelloInv

LEMMA EndsHold ==
  ASSUME Inv, EndsKept, \A s \in ToSet(accepts) : conn'[s].rx # <<>>,
         \/ net' = net
         \/ net # <<>> /\ net' = Tail(net)
         \/ \E m : m \in PacketType /\ m.to = "client" /\ net' = Append(net, m)
  PROVE  EndsInv'
<1>1. PairsInv' /\ ClientsInv'
  BY EndsKeptPairs, EndsKeptClients
<1>2. ServersInv'
  BY EndsKeptServers
<1>3. HelloInv'
  BY HelloKept
<1> QED
  BY <1>1, <1>2, <1>3 DEF EndsInv

\* A step of a call that opens and closes nothing.
LEMMA TaskStep ==
  ASSUME Inv, NEW k \in Apps, NEW t, task' = [task EXCEPT ![k] = t],
         UNCHANGED <<conn, net, accepts, live, leaked>>,
         \A i \in live : item'[i].client = item[i].client /\ item'[i].server = item[i].server,
         \A j \in Apps : Removing(j) => handle'[j] = handle[j],
         task[k].at # "accept", t.at # "accept", t.at = "scan" <=> task[k].at = "scan",
         t.at \in {"pred", "unlink"} <=> task[k].at \in {"pred", "unlink"}
  PROVE  EndsInv'
<1>1. TypeOK /\ \A s \in ToSet(accepts) : conn[s].rx # <<>>
  BY DEF Inv, ServersInv
<1>2. task'[k] = t /\ \A j \in Apps : j # k => task'[j] = task[j]
  BY <1>1, OthersKept
<1>3. \A j \in Apps : Removing(j)' <=> Removing(j)
  BY <1>2 DEF Removing
<1>4. EndsKept
  BY <1>2, <1>3 DEF EndsKept
<1> QED
  BY <1>1, <1>4, EndsHold

\* A step that puts into the queue of a connection, or takes from it.
LEMMA QueueStep ==
  ASSUME Inv, UNCHANGED <<accepts, live, leaked, item, task, handle>>,
         \/ conn' = conn
         \/ \E s \in Slots : \E q : /\ conn' = [conn EXCEPT ![s].rx = q]
                                    /\ s \in ToSet(accepts) => q # <<>>,
         \/ net' = net
         \/ net # <<>> /\ net' = Tail(net)
         \/ \E m : m \in PacketType /\ m.to = "client" /\ net' = Append(net, m)
  PROVE  EndsInv'
<1>1. \A s \in ToSet(accepts) : s \in Slots /\ conn[s].rx # <<>>
  BY DEF Inv, ServersInv, IsEnd
<1>2. /\ \A s \in Slots : /\ conn'[s].open = conn[s].open /\ conn'[s].end = conn[s].end
                          /\ conn'[s].port = conn[s].port
      /\ \A s \in ToSet(accepts) : conn'[s].rx # <<>>
  <2>1. CASE conn' = conn
    BY <1>1, <2>1
  <2>2. ASSUME NEW s \in Slots, NEW q, conn' = [conn EXCEPT ![s].rx = q], s \in ToSet(accepts) => q # <<>>
        PROVE  /\ \A r \in Slots : /\ conn'[r].open = conn[r].open /\ conn'[r].end = conn[r].end
                                   /\ conn'[r].port = conn[r].port
               /\ \A r \in ToSet(accepts) : conn'[r].rx # <<>>
    <3>1. PICK c : c = [conn[s] EXCEPT !.rx = q]
      OBVIOUS
    <3>2. conn \in [Slots -> ConnType] /\ conn[s] \in ConnType
      BY DEF Inv, TypeOK
    <3>3. c.open = conn[s].open /\ c.end = conn[s].end /\ c.port = conn[s].port /\ c.rx = q
      BY <3>1, <3>2 DEF ConnType
    <3>4. conn' = [conn EXCEPT ![s] = c]
      BY <2>2, <3>1
    <3>5. conn'[s] = c /\ \A r \in Slots : r # s => conn'[r] = conn[r]
      BY <3>2, <3>4
    <3> QED
      BY <1>1, <2>2, <3>3, <3>5
  <2> QED
    BY <2>1, <2>2
<1>3. EndsKept
  BY <1>2 DEF EndsKept, Removing
<1> QED
  BY <1>2, <1>3, EndsHold

LEMMA AppendFindEnds ==
  ASSUME Inv, NEW k \in Apps, AppendFind(k)
  PROVE  EndsInv'
<1>1. PICK c : task' = [task EXCEPT ![k].at = "link", ![k].cur = c]
  BY DEF AppendFind
<1>2. /\ UNCHANGED <<conn, net, accepts, live, item, handle, leaked>> /\ task[k].at = "find"
      /\ task' = [task EXCEPT ![k].at = "link", ![k].cur = c]
  BY <1>1 DEF AppendFind, listVars, cspVars
<1>3. PICK t : t = [task[k] EXCEPT !.at = "link", !.cur = c]
  OBVIOUS
<1>4. task' = [task EXCEPT ![k] = t] /\ task[k] \in TaskType
  BY <1>2, <1>3 DEF Inv, TypeOK
<1>5. t.at = "link"
  BY <1>3, <1>4 DEF TaskType
<1> QED
  BY <1>2, <1>4, <1>5, TaskStep

LEMMA AppendLinkEnds ==
  ASSUME Inv, NEW k \in Apps, AppendLink(k)
  PROVE  EndsInv'
<1>1. PICK i : i = task[k].item
  OBVIOUS
<1>2. PICK c : c = task[k].cur
  OBVIOUS
<1>3. /\ UNCHANGED <<conn, net, accepts, live, leaked>> /\ task[k].at = "link"
      /\ handle' = [handle EXCEPT ![k] = i] /\ task' = [task EXCEPT ![k] = IdleTask]
      /\ item' = item \/ item' = [item EXCEPT ![c].next = i]
  BY <1>1, <1>2 DEF AppendLink, cspVars
<1>4. item \in [Items -> ItemType] /\ live \subseteq Items
  BY DEF Inv, TypeOK
<1>5. \A j \in live : item'[j].client = item[j].client /\ item'[j].server = item[j].server
  BY <1>3, <1>4 DEF ItemType
<1>6. \A j \in Apps : Removing(j) => handle'[j] = handle[j]
  BY <1>3 DEF Removing, Inv, TypeOK
<1>7. IdleTask.at = "idle"
  BY DEF IdleTask
<1> QED
  BY <1>3, <1>5, <1>6, <1>7, TaskStep

LEMMA DeleteFindEnds ==
  ASSUME Inv, NEW k \in Apps, DeleteFind(k)
  PROVE  EndsInv'
<1>1. PICK p : task' = [task EXCEPT ![k].at = "unlink", ![k].item = p]
  BY DEF DeleteFind
<1>2. /\ UNCHANGED <<conn, net, accepts, live, item, handle, leaked>> /\ task[k].at = "pred"
      /\ task' = [task EXCEPT ![k].at = "unlink", ![k].item = p]
  BY <1>1 DEF DeleteFind, cspVars, listVars
<1>3. PICK t : t = [task[k] EXCEPT !.at = "unlink", !.item = p]
  OBVIOUS
<1>4. task' = [task EXCEPT ![k] = t] /\ task[k] \in TaskType
  BY <1>2, <1>3 DEF Inv, TypeOK
<1>5. t.at = "unlink"
  BY <1>3, <1>4 DEF TaskType
<1> QED
  BY <1>2, <1>4, <1>5, TaskStep

LEMMA SetTopicsEnds ==
  ASSUME Inv, NEW k \in Apps, NEW c \in Items, NEW q, SetTopics(k, c, q)
  PROVE  EndsInv'
<1>1. PICK e : e = [item[c] EXCEPT !.topics = q]
  OBVIOUS
<1>2. /\ item' = [item EXCEPT ![c] = e]
      /\ UNCHANGED <<conn, net, accepts, live, leaked, task, handle>>
  BY <1>1 DEF SetTopics, cspVars
<1>3. /\ live \subseteq Items /\ item \in [Items -> ItemType]
      /\ e.client = item[c].client /\ e.server = item[c].server
  BY <1>1 DEF Inv, TypeOK, ItemType
<1>4. \A i \in live : item'[i].client = item[i].client /\ item'[i].server = item[i].server
  BY <1>2, <1>3
<1>5. \A s \in ToSet(accepts) : conn[s].rx # <<>>
  BY DEF Inv, ServersInv
<1>6. EndsKept
  BY <1>2, <1>4 DEF EndsKept, Removing
<1> QED
  BY <1>2, <1>5, <1>6, EndsHold

LEMMA ReadEnds ==
  ASSUME Inv, NEW k \in Apps, Read(k)
  PROVE  EndsInv'
<1>1. PICK s : s = item[handle[k]].client
  OBVIOUS
<1>2. PICK q : q = Tail(conn[s].rx)
  OBVIOUS
<1>3. /\ handle[k] # Null /\ s # NoSlot /\ conn' = [conn EXCEPT ![s].rx = q]
      /\ UNCHANGED <<net, accepts, live, leaked, item, task, handle>>
  BY <1>1, <1>2 DEF Read, MayCall, listVars
<1>4. handle[k] \in live
  BY <1>3, RemovesLive
<1>5. s \in Slots /\ EndOf(s, handle[k])
  BY <1>1, <1>4 DEF Inv, PairsInv, EndOf
<1>6. s \notin ToSet(accepts)
  BY <1>4, <1>5 DEF Inv, ServersInv, OfNoItem
<1> QED
  BY <1>3, <1>5, <1>6, QueueStep

LEMMA TelemetryEnds ==
  ASSUME Inv, Publish \/ RxDequeue \/ RxSend
  PROVE  EndsInv'
<1>1. UNCHANGED <<conn, accepts, live, leaked, item, task, handle>>
  BY DEF Publish, RxDequeue, Dequeues, RxSend, cspVars, listVars, appVars
<1>2. \/ net' = net
      \/ \E m : m \in PacketType /\ m.to = "client" /\ net' = Append(net, m)
  <2>1. CASE Publish \/ RxDequeue
    BY <2>1 DEF Publish, RxDequeue, Dequeues, cspVars
  <2>2. CASE RxSend
    <3>1. CASE rx.cur = Null
      BY <2>2, <3>1 DEF RxSend
    <3>2. CASE rx.cur # Null
      <4>1. PICK s : s = item[rx.cur].server
        OBVIOUS
      <4>2. PICK m : m = [to |-> "client", port |-> conn[s].port, pkt |-> rx.pkt]
        OBVIOUS
      <4>3. \/ net' = net
            \/ s \in Slots /\ conn[s].open /\ net' = Append(net, m)
        BY <2>2, <3>2, <4>1, <4>2 DEF RxSend, Sent
      <4>4. rx.pkt \in 0..MaxPackets
        BY DEF Inv, TypeOK, RxType
      <4>5. ASSUME s \in Slots, conn[s].open
            PROVE  m \in PacketType /\ m.to = "client"
        BY <4>2, <4>4, <4>5 DEF PacketType, Inv, ServersInv
      <4> QED
        BY <4>3, <4>5
    <3> QED
      BY <3>1, <3>2
  <2> QED
    BY <2>1, <2>2
<1> QED
  BY <1>1, <1>2, QueueStep

\* With no connect under way nothing waits to be accepted or for the router.
LEMMA NobodyAwaited ==
  ASSUME Inv, \A k \in Apps : task[k].at # "accept"
  PROVE  accepts = <<>> /\ ToSet(accepts) = {} /\ \A n \in DOMAIN net : net[n].to # "server"
<1>1. \A p : ~Awaited(p)
  BY DEF Awaited
<1>2. accepts \in Seq(Slots) /\ ToSet(accepts) = {}
  BY <1>1 DEF Inv, TypeOK, ServersInv
<1>3. accepts = <<>>
  BY <1>2 DEF ToSet
<1> QED
  BY <1>1, <1>2, <1>3 DEF Inv, HelloInv

\* With nobody removing, the items' connections are open.
LEMMA AllPaired ==
  ASSUME Inv, ~Disconnecting
  PROVE  \A i \in live : Paired(i)
<1>1. \A i \in live : ~Leaving(i)
  BY DEF Disconnecting, Leaving, Removing
<1> QED
  BY <1>1 DEF Inv, PairsInv

\* A closed connection is nobody's then.
LEMMA FreeIsNobodys ==
  ASSUME Inv, ~Disconnecting, NEW s \in Free
  PROVE  /\ s \in Slots /\ ~conn[s].open /\ s \notin leaked /\ s \notin ToSet(accepts)
         /\ \A i \in live : ~EndOf(s, i)
         /\ \A k \in Apps : task[k].at = "accept" => task[k].client # s
<1>1. s \in Slots /\ ~conn[s].open
  BY DEF Free
<1>2. \A i \in live : ~EndOf(s, i)
  BY <1>1, AllPaired DEF Paired, IsEnd, EndOf
<1> QED
  BY <1>1, <1>2 DEF Inv, ClientsInv, ServersInv, Loose, IsEnd

\* A connection is made, for a connect or to be forgotten.
LEMMA OpenedEnds ==
  ASSUME Inv, NEW k \in Apps, ~Disconnecting, \A j \in Apps : task[j].at # "accept",
         NEW s \in Free, NEW p \in Ports, Unused(p), task[k].at = "idle", handle[k] = Null,
         conn' = [conn EXCEPT ![s] = Opened("client", p, <<>>)],
         UNCHANGED <<accepts, live, item, handle>>,
         \/ leaked' = leaked \union {s} /\ UNCHANGED <<net, task>>
         \/ /\ leaked' = leaked
            /\ task' = [task EXCEPT ![k] = [IdleTask EXCEPT !.at = "accept", !.client = s]]
            /\ net' = Sent([to |-> "server", port |-> p, pkt |-> Hello])
  PROVE  EndsInv'
<1> USE DEF Inv
<1>1. /\ s \in Slots /\ ~conn[s].open /\ s \notin leaked /\ \A i \in live : ~EndOf(s, i)
      /\ accepts = <<>> /\ ToSet(accepts) = {} /\ \A n \in DOMAIN net : net[n].to # "server"
  BY FreeIsNobodys, NobodyAwaited
<1>2. /\ conn'[s].open /\ conn'[s].end = "client" /\ conn'[s].port = p
      /\ \A r \in Slots : r # s => conn'[r] = conn[r]
  <2>1. PICK c : c = Opened("client", p, <<>>)
    OBVIOUS
  <2>2. c.open /\ c.end = "client" /\ c.port = p
    BY <2>1 DEF Opened
  <2>3. conn' = [conn EXCEPT ![s] = c] /\ conn \in [Slots -> ConnType]
    BY <2>1 DEF TypeOK
  <2> QED
    BY <1>1, <2>2, <2>3
<1>3. \A j \in Apps : ~Removing(j) /\ ~Removing(j)'
  <2>1. \A j \in Apps : ~Removing(j)
    BY DEF Removing, Disconnecting
  <2>2. [IdleTask EXCEPT !.at = "accept", !.client = s].at = "accept"
    BY DEF IdleTask
  <2>3. \A j \in Apps : task'[j] = task[j] \/ task'[j].at = "accept"
    BY <2>2, OthersKept
  <2> QED
    BY <2>1, <2>3 DEF Removing
<1>4. \A i \in live : Paired(i) /\ item[i].client \in Slots /\ item[i].server \in Slots
  BY AllPaired DEF PairsInv
<1>5. \A i \in live : Paired(i)'
  <2>1. \A i \in live : item[i].client # s /\ item[i].server # s
    BY <1>1 DEF EndOf
  <2> QED
    BY <1>2, <1>4, <2>1 DEF Paired, IsEnd
<1>6. PairsInv'
  <2>1. \A i \in live : \A r : EndOf(r, i)' <=> EndOf(r, i)
    BY DEF EndOf
  <2> QED
    BY <1>3, <1>5, <2>1 DEF PairsInv
<1>7. \A r \in Slots : \A e : r # s => (IsEnd(r, e)' <=> IsEnd(r, e))
  BY <1>2 DEF IsEnd
<1>8. IsEnd(s, "client")' /\ ~IsEnd(s, "server")'
  BY <1>1, <1>2 DEF IsEnd
<1>9. (\A r, t \in Slots : IsEnd(r, "client") /\ IsEnd(t, "client") /\ conn[r].port = conn[t].port => r = t)'
  <2>1. \A r \in Slots : IsEnd(r, "client") => conn[r].port # p
    BY DEF Unused, EndsAt, IsEnd
  <2> QED
    BY <1>1, <1>2, <1>7, <2>1 DEF ClientsInv
<1>10. \A r : OfNoItem(r)' <=> OfNoItem(r)
  BY DEF OfNoItem, EndOf
<1>11. Loose(s)' /\ OfNoItem(s)'
  BY <1>1, <1>8, <1>10 DEF Loose, OfNoItem
<1>12. \A r \in leaked \union {s} : conn'[r].open /\ OfNoItem(r)'
  <2>1. \A r \in leaked : r \in Slots /\ conn[r].open /\ OfNoItem(r)
    BY DEF ClientsInv, TypeOK
  <2> QED
    BY <1>1, <1>2, <1>10, <1>11, <2>1
<1>13. ASSUME leaked' = leaked \union {s}, UNCHANGED <<net, task>>
       PROVE  ClientsInv' /\ HelloInv'
  <2>1. (\A r \in Slots : IsEnd(r, "client") =>
           \/ r \in leaked
           \/ \E i \in live : r = item[i].client
           \/ \E j \in Apps : task[j].at = "accept" /\ task[j].client = r)'
    BY <1>7, <1>13 DEF ClientsInv
  <2>2. HelloInv'
    BY <1>1, <1>13 DEF HelloInv
  <2> QED
    BY <1>9, <1>12, <1>13, <2>1, <2>2 DEF ClientsInv
<1>14. ASSUME leaked' = leaked, NEW m, m = [to |-> "server", port |-> p, pkt |-> Hello], net' = Sent(m),
              task' = [task EXCEPT ![k] = [IdleTask EXCEPT !.at = "accept", !.client = s]]
       PROVE  ClientsInv' /\ HelloInv'
  <2>1. /\ task'[k].at = "accept" /\ task'[k].client = s
        /\ \A j \in Apps : j # k => task'[j] = task[j]
    <3>1. PICK t : t = [IdleTask EXCEPT !.at = "accept", !.client = s]
      OBVIOUS
    <3>2. t.at = "accept" /\ t.client = s
      BY <3>1 DEF IdleTask
    <3>3. task' = [task EXCEPT ![k] = t]
      BY <1>14, <3>1
    <3> QED
      BY <3>2, <3>3, OthersKept
  <2>2. (\A j \in Apps : task[j].at = "accept" => Loose(task[j].client) /\ task[j].client \notin leaked)'
    BY <1>1, <1>11, <1>14, <2>1
  <2>3. (\A r \in Slots : IsEnd(r, "client") =>
           \/ r \in leaked
           \/ \E i \in live : r = item[i].client
           \/ \E j \in Apps : task[j].at = "accept" /\ task[j].client = r)'
    <3>1. \A r \in Slots : IsEnd(r, "client") => r \in leaked \/ \E i \in live : r = item[i].client
      BY DEF ClientsInv
    <3> QED
      BY <1>7, <1>14, <2>1, <3>1
  <2>4. ClientsInv'
    BY <1>9, <1>12, <1>14, <2>2, <2>3 DEF ClientsInv
  <2>5. Awaited(p)'
    BY <1>2, <2>1 DEF Awaited
  <2>6. m.to = "server" /\ m.port = p
    BY <1>14
  <2>7. HelloInv'
    <3>1. CASE net' = net
      BY <1>1, <3>1 DEF HelloInv
    <3>2. CASE net' = Append(net, m)
      <4>1. PICK P : P = PacketType
        OBVIOUS
      <4>2. net \in Seq(P)
        BY <4>1 DEF TypeOK
      <4>3. PICK L \in Nat : L = Len(net)
        BY <4>2
      <4>4. DOMAIN net = 1..L /\ DOMAIN net' = 1..L + 1 /\ net'[L + 1] = m /\ \A n \in 1..L : net'[n] = net[n]
        BY <3>2, <4>2, <4>3
      <4>5. ASSUME NEW n \in DOMAIN net', net'[n].to = "server" PROVE n = L + 1
        <5>1. n \notin 1..L
          BY <1>1, <4>4, <4>5
        <5> QED
          BY <4>3, <4>4, <5>1
      <4> QED
        BY <1>1, <2>5, <2>6, <4>4, <4>5 DEF HelloInv, Awaited
    <3> QED
      BY <1>14, <3>1, <3>2 DEF Sent
  <2> QED
    BY <2>4, <2>7
<1>15. ServersInv'
  <2>1. (\A r \in Slots : conn[r].open => conn[r].end \in {"client", "server"} /\ conn[r].port \in Ports)'
    BY <1>2 DEF ServersInv
  <2>2. leaked \subseteq leaked'
    OBVIOUS
  <2>3. (\A r \in Slots : IsEnd(r, "server") =>
           r \in leaked \/ r \in ToSet(accepts) \/ \E i \in live : r = item[i].server)'
    BY <1>7, <1>8, <2>2 DEF ServersInv
  <2> QED
    BY <1>1, <2>1, <2>3 DEF ServersInv
<1> QED
  BY <1>6, <1>13, <1>14, <1>15 DEF EndsInv

LEMMA ConnectOpenEnds ==
  ASSUME Inv, Apart', NEW k \in Apps, ConnectOpen(k)
  PROVE  EndsInv'
<1> USE DEF Inv
<1>1. /\ task[k].at = "idle" /\ handle[k] = Null /\ lock.sub = Nobody /\ ~Disconnecting /\ FreePorts # {}
      /\ UNCHANGED <<accepts, live, item, handle>>
  BY DEF ConnectOpen, Apart, If, listVars
<1>2. \A j \in Apps : task[j].at # "accept"
  <2>1. Nobody \notin Apps
    BY RTAssumption DEF RTAssumption, Nobody
  <2> QED
    BY <1>1, <2>1 DEF TypeOK
<1>3. NextPort \in Ports /\ Unused(NextPort)
  BY <1>1, NextPortFree
<1>4. CASE UNCHANGED <<conn, net, task, leaked>>
  BY <1>1, <1>4, QueueStep
<1>5. ASSUME NEW s \in Free, conn' = [conn EXCEPT ![s] = Opened("client", NextPort, <<>>)],
             \/ leaked' = leaked \union {s} /\ UNCHANGED <<net, task>>
             \/ /\ leaked' = leaked
                /\ task' = [task EXCEPT ![k] = [IdleTask EXCEPT !.at = "accept", !.client = s]]
                /\ net' = Sent([to |-> "server", port |-> NextPort, pkt |-> Hello])
      PROVE  EndsInv'
  <2>1. PICK p : p = NextPort
    OBVIOUS
  <2> QED
    BY <1>1, <1>2, <1>3, <1>5, <2>1, OpenedEnds
<1>6. \/ UNCHANGED <<conn, net, task, leaked>>
      \/ \E s \in Free :
           /\ conn' = [conn EXCEPT ![s] = Opened("client", NextPort, <<>>)]
           /\ \/ leaked' = leaked \union {s} /\ UNCHANGED <<net, task>>
              \/ /\ leaked' = leaked
                 /\ task' = [task EXCEPT ![k] = [IdleTask EXCEPT !.at = "accept", !.client = s]]
                 /\ net' = Sent([to |-> "server", port |-> NextPort, pkt |-> Hello])
  BY DEF ConnectOpen
<1> QED
  BY <1>4, <1>5, <1>6

\* What is put into a connection's queue or taken from it is all that changes.
LEMMA RxOnly ==
  ASSUME TypeOK, NEW s \in Slots, NEW q, conn' = [conn EXCEPT ![s].rx = q]
  PROVE  \A r \in Slots : /\ conn'[r].open = conn[r].open /\ conn'[r].end = conn[r].end
                          /\ conn'[r].port = conn[r].port
<1>1. PICK c : c = [conn[s] EXCEPT !.rx = q]
  OBVIOUS
<1>2. conn \in [Slots -> ConnType] /\ conn[s] \in ConnType
  BY DEF TypeOK
<1>3. c.open = conn[s].open /\ c.end = conn[s].end /\ c.port = conn[s].port
  BY <1>1, <1>2 DEF ConnType
<1>4. conn' = [conn EXCEPT ![s] = c]
  BY <1>1
<1>5. conn'[s] = c /\ \A r \in Slots : r # s => conn'[r] = conn[r]
  BY <1>2, <1>4
<1> QED
  BY <1>3, <1>5

\* The connection accept gives is the other end of the connect that accepts.
LEMMA AcceptsOwn ==
  ASSUME Inv, NEW k \in Apps, task[k].at = "accept", accepts # <<>>, NEW s, s = Head(accepts)
  PROVE  /\ s \in ToSet(accepts) /\ IsEnd(s, "server") /\ \A i \in live : ~EndOf(s, i)
         /\ s \notin leaked /\ \A r \in ToSet(accepts) : r = s
         /\ IsEnd(task[k].client, "client") /\ \A i \in live : ~EndOf(task[k].client, i)
         /\ task[k].client \notin leaked /\ conn[task[k].client].port = conn[s].port
         /\ ~Disconnecting /\ \A j \in Apps : task[j].at \in {"accept", "find", "link"} => j = k
         /\ \A n \in DOMAIN net : net[n].to # "server"
<1>1. s \in ToSet(accepts)
  BY HeadAccept DEF Inv
<1>2. /\ IsEnd(s, "server") /\ Awaited(conn[s].port) /\ \A i \in live : ~EndOf(s, i)
      /\ s \notin leaked
  BY <1>1 DEF Inv, ServersInv, OfNoItem
<1>3. \A j \in Apps : task[j].at \in {"accept", "find", "link"} => j = k
  BY OneTask DEF Inv
<1>4. conn[task[k].client].port = conn[s].port
  BY <1>2, <1>3 DEF Awaited
<1>5. /\ IsEnd(task[k].client, "client") /\ \A i \in live : ~EndOf(task[k].client, i)
      /\ task[k].client \notin leaked
  BY DEF Inv, ClientsInv, Loose, OfNoItem
<1>6. ~Disconnecting
  BY DEF Inv, ListInv, Connecting
<1>7. \A n \in DOMAIN net : net[n].to # "server"
  BY DEF Inv, HelloInv
<1>8. \A r \in ToSet(accepts) : r = s
  <2>1. accepts \in Seq(Slots) /\ Len(accepts) <= 1
    BY DEF Inv, TypeOK, ServersInv
  <2>2. PICK L \in Nat : L = Len(accepts)
    BY <2>1
  <2>3. DOMAIN accepts = 1..L /\ L <= 1
    BY <2>1, <2>2
  <2>4. \A n \in DOMAIN accepts : n = 1
    BY <2>3
  <2>5. s = accepts[1]
    BY <2>1, TailFacts, Zenon
  <2> QED
    BY <2>4, <2>5 DEF ToSet
<1> QED
  BY <1>1, <1>2, <1>3, <1>4, <1>5, <1>6, <1>7, <1>8

LEMMA AcceptEnds ==
  ASSUME Inv, NEW k \in Apps, Accept(k)
  PROVE  EndsInv'
<1> USE DEF Inv
<1>1. PICK s : s = Head(accepts)
  OBVIOUS
<1>2. PICK c : c = task[k].client
  OBVIOUS
<1>3. PICK i \in Items \ live :
        /\ live' = live \union {i}
        /\ item' = [item EXCEPT ![i] = [NoItem EXCEPT !.client = c, !.server = s]]
        /\ task' = [task EXCEPT ![k].at = "find", ![k].item = i]
  BY <1>1, <1>2 DEF Accept
<1>4. /\ task[k].at = "accept" /\ accepts # <<>> /\ accepts' = Tail(accepts)
      /\ conn' = [conn EXCEPT ![s].rx = Tail(@)] /\ UNCHANGED <<net, handle, leaked>>
  BY <1>1 DEF Accept
<1>5. /\ s \in ToSet(accepts) /\ IsEnd(s, "server") /\ \A j \in live : ~EndOf(s, j)
      /\ s \notin leaked /\ \A r \in ToSet(accepts) : r = s
      /\ IsEnd(c, "client") /\ \A j \in live : ~EndOf(c, j)
      /\ c \notin leaked /\ conn[c].port = conn[s].port
      /\ ~Disconnecting /\ \A j \in Apps : task[j].at \in {"accept", "find", "link"} => j = k
      /\ \A n \in DOMAIN net : net[n].to # "server"
  BY <1>1, <1>2, <1>4, AcceptsOwn
<1>6. ToSet(accepts') = {} /\ Len(accepts') <= 1
  <2>1. ToSet(Tail(accepts)) = {} /\ Len(Tail(accepts)) = 0
    BY <1>4, HeadAccept
  <2>2. PICK q : q = Tail(accepts)
    OBVIOUS
  <2>3. ToSet(q) = {} /\ Len(q) = 0 /\ accepts' = q
    BY <1>4, <2>1, <2>2
  <2> QED
    BY <2>3
<1>7. c \in Slots /\ s \in Slots /\ c # s /\ conn[c].open /\ conn[s].open
  BY <1>5 DEF IsEnd
<1>8. \A r \in Slots : /\ conn'[r].open = conn[r].open /\ conn'[r].end = conn[r].end
                       /\ conn'[r].port = conn[r].port
  <2>1. PICK q : q = Tail(conn[s].rx)
    OBVIOUS
  <2>2. conn' = [conn EXCEPT ![s].rx = q]
    BY <1>4, <2>1
  <2> QED
    BY <1>7, <2>2, RxOnly
<1>9. \A r, e : IsEnd(r, e)' <=> IsEnd(r, e)
  BY <1>8 DEF IsEnd
<1>10. item'[i].client = c /\ item'[i].server = s /\ \A j \in live : item'[j] = item[j]
  <2>1. PICK e : e = [NoItem EXCEPT !.client = c, !.server = s]
    OBVIOUS
  <2>2. e.client = c /\ e.server = s
    BY <2>1 DEF NoItem
  <2>3. item' = [item EXCEPT ![i] = e] /\ item \in [Items -> ItemType] /\ live \subseteq Items
    BY <1>3, <2>1 DEF TypeOK
  <2> QED
    BY <1>3, <2>2, <2>3
<1>11. task'[k].at = "find" /\ \A j \in Apps : j # k => task'[j] = task[j]
  <2>1. PICK t : t = [task[k] EXCEPT !.at = "find", !.item = i]
    OBVIOUS
  <2>2. task' = [task EXCEPT ![k] = t] /\ task[k] \in TaskType
    BY <1>3, <2>1 DEF TypeOK
  <2>3. t.at = "find"
    BY <2>1, <2>2 DEF TaskType
  <2> QED
    BY <2>2, <2>3, OthersKept
<1>12. \A j \in Apps : ~Removing(j)' /\ task'[j].at # "accept"
  BY <1>5, <1>11 DEF Removing, Disconnecting
<1>13. \A r : /\ EndOf(r, i)' <=> r = c \/ r = s
              /\ \A j \in live : EndOf(r, j)' <=> EndOf(r, j)
  BY <1>10 DEF EndOf
<1>14. PairsInv'
  <2>1. \A j \in live' : j = i \/ j \in live
    BY <1>3
  <2>2. Paired(i)'
    BY <1>5, <1>8, <1>9, <1>10, <1>7 DEF Paired
  <2>3. ASSUME NEW j \in live PROVE Paired(j)' /\ item'[j].client \in Slots /\ item'[j].server \in Slots
                                    /\ item'[j].client # item'[j].server
    <3>1. Paired(j) /\ item[j].client \in Slots /\ item[j].server \in Slots /\ item[j].client # item[j].server
      BY <1>5, AllPaired DEF PairsInv
    <3> QED
      BY <1>8, <1>9, <1>10, <3>1 DEF Paired
  <2>4. ASSUME NEW j \in live', NEW l \in live', NEW r \in Slots, EndOf(r, j)', EndOf(r, l)'
        PROVE  j = l
    <3>1. CASE j \in live /\ l \in live
      BY <1>13, <2>4, <3>1 DEF PairsInv
    <3>2. CASE j = i \/ l = i
      <4>1. j \in live => ~(r = c \/ r = s)
        BY <1>5, <1>13, <2>4
      <4>2. l \in live => ~(r = c \/ r = s)
        BY <1>5, <1>13, <2>4
      <4> QED
        BY <1>13, <2>1, <2>4, <3>2, <4>1, <4>2
    <3> QED
      BY <2>1, <3>1, <3>2
  <2>5. (\A j \in live : /\ item[j].client \in Slots /\ item[j].server \in Slots
                         /\ item[j].client # item[j].server
                         /\ ~Leaving(j) => Paired(j))'
    BY <1>7, <1>10, <2>1, <2>2, <2>3
  <2> QED
    BY <1>12, <2>4, <2>5 DEF PairsInv
<1>15. ClientsInv'
  <2>1. (\A r, t \in Slots : IsEnd(r, "client") /\ IsEnd(t, "client") /\ conn[r].port = conn[t].port => r = t)'
    BY <1>8, <1>9 DEF ClientsInv
  <2>2. ASSUME NEW r \in leaked' PROVE conn'[r].open /\ OfNoItem(r)'
    <3>1. r \in leaked /\ r \in Slots /\ conn[r].open /\ OfNoItem(r)
      BY <1>4 DEF ClientsInv, TypeOK
    <3>2. r # c /\ r # s
      BY <1>5, <3>1
    <3> QED
      BY <1>3, <1>8, <1>13, <3>1, <3>2 DEF OfNoItem
  <2>3. ASSUME NEW r \in Slots, IsEnd(r, "client")'
        PROVE  r \in leaked' \/ \E j \in live' : r = item'[j].client
    <3>1. \/ r \in leaked
          \/ \E j \in live : r = item[j].client
          \/ \E j \in Apps : task[j].at = "accept" /\ task[j].client = r
      BY <1>9, <2>3 DEF ClientsInv
    <3>2. (\E j \in Apps : task[j].at = "accept" /\ task[j].client = r) => r = item'[i].client
      BY <1>2, <1>5, <1>10
    <3> QED
      BY <1>3, <1>4, <1>10, <3>1, <3>2
  <2> QED
    BY <1>12, <2>1, <2>2, <2>3 DEF ClientsInv
<1>16. ServersInv'
  <2>1. (\A r \in Slots : conn[r].open => conn[r].end \in {"client", "server"} /\ conn[r].port \in Ports)'
    BY <1>8 DEF ServersInv
  <2>2. ASSUME NEW r \in Slots, IsEnd(r, "server")'
        PROVE  r \in leaked' \/ \E j \in live' : r = item'[j].server
    <3>1. r \in leaked \/ r \in ToSet(accepts) \/ \E j \in live : r = item[j].server
      BY <1>9, <2>2 DEF ServersInv
    <3> QED
      BY <1>3, <1>4, <1>5, <1>10, <3>1
  <2> QED
    BY <1>6, <2>1, <2>2 DEF ServersInv
<1>17. HelloInv'
  BY <1>4, <1>5 DEF HelloInv
<1> QED
  BY <1>14, <1>15, <1>16, <1>17 DEF EndsInv

\* Both ends of a connect that fails there are forgotten.
LEMMA AcceptFailsEnds ==
  ASSUME Inv, NEW k \in Apps, AcceptFails(k)
  PROVE  EndsInv'
<1> USE DEF Inv
<1>1. PICK s : s = Head(accepts)
  OBVIOUS
<1>2. PICK c : c = task[k].client
  OBVIOUS
<1>3. /\ task[k].at = "accept" /\ accepts # <<>> /\ accepts' = Tail(accepts)
      /\ conn' = conn \/ conn' = [conn EXCEPT ![s].rx = Tail(@)]
      /\ leaked' = leaked \union {c, s} /\ UNCHANGED <<net, live, item, handle>>
      /\ \E x \in {"idle", "lost"} : task' = [task EXCEPT ![k] = [IdleTask EXCEPT !.at = x]]
  BY <1>1, <1>2 DEF AcceptFails, listVars
<1>4. /\ s \in ToSet(accepts) /\ IsEnd(s, "server") /\ OfNoItem(s) /\ \A r \in ToSet(accepts) : r = s
      /\ IsEnd(c, "client") /\ OfNoItem(c)
      /\ ~Disconnecting /\ \A j \in Apps : task[j].at \in {"accept", "find", "link"} => j = k
      /\ \A n \in DOMAIN net : net[n].to # "server"
  BY <1>1, <1>2, <1>3, AcceptsOwn DEF OfNoItem
<1>5. ToSet(accepts') = {} /\ Len(accepts') <= 1
  <2>1. ToSet(Tail(accepts)) = {} /\ Len(Tail(accepts)) = 0
    BY <1>3, HeadAccept
  <2>2. PICK q : q = Tail(accepts)
    OBVIOUS
  <2>3. ToSet(q) = {} /\ Len(q) = 0 /\ accepts' = q
    BY <1>3, <2>1, <2>2
  <2> QED
    BY <2>3
<1>6. c \in Slots /\ s \in Slots /\ conn[c].open /\ conn[s].open
  BY <1>4 DEF IsEnd
<1>7. \A r \in Slots : /\ conn'[r].open = conn[r].open /\ conn'[r].end = conn[r].end
                       /\ conn'[r].port = conn[r].port
  <2>1. PICK q : q = Tail(conn[s].rx)
    OBVIOUS
  <2>2. conn' = conn \/ conn' = [conn EXCEPT ![s].rx = q]
    BY <1>3, <2>1
  <2> QED
    BY <1>6, <2>2, RxOnly
<1>8. \A r, e : IsEnd(r, e)' <=> IsEnd(r, e)
  BY <1>7 DEF IsEnd
<1>9. /\ \A r, j : EndOf(r, j)' <=> EndOf(r, j)
      /\ \A r : OfNoItem(r)' <=> OfNoItem(r)
  BY <1>3 DEF EndOf, OfNoItem
<1>10. \A j \in Apps : ~Removing(j)' /\ task'[j].at # "accept"
  <2>1. \A x : [IdleTask EXCEPT !.at = x].at = x
    BY DEF IdleTask
  <2>2. task'[k].at \in {"idle", "lost"} /\ \A j \in Apps : j # k => task'[j] = task[j]
    BY <1>3, <2>1, OthersKept
  <2> QED
    BY <1>4, <2>2 DEF Removing, Disconnecting
<1>11. PairsInv'
  <2>1. ASSUME NEW j \in live
        PROVE  Paired(j)' /\ item[j].client \in Slots /\ item[j].server \in Slots /\ item[j].client # item[j].server
    <3>1. Paired(j) /\ item[j].client \in Slots /\ item[j].server \in Slots /\ item[j].client # item[j].server
      BY <1>4, AllPaired DEF PairsInv
    <3> QED
      BY <1>3, <1>7, <1>8, <3>1 DEF Paired
  <2>2. (\A i, j \in live, r \in Slots : EndOf(r, i) /\ EndOf(r, j) => i = j)'
    BY <1>3, <1>9 DEF PairsInv
  <2> QED
    BY <1>3, <1>10, <2>1, <2>2 DEF PairsInv
<1>12. ClientsInv'
  <2>1. (\A r, t \in Slots : IsEnd(r, "client") /\ IsEnd(t, "client") /\ conn[r].port = conn[t].port => r = t)'
    BY <1>7, <1>8 DEF ClientsInv
  <2>2. \A r \in leaked' : conn'[r].open /\ OfNoItem(r)'
    <3>1. \A r \in leaked : r \in Slots /\ conn[r].open /\ OfNoItem(r)
      BY DEF ClientsInv, TypeOK
    <3> QED
      BY <1>3, <1>4, <1>6, <1>7, <1>9, <3>1
  <2>3. ASSUME NEW r \in Slots, IsEnd(r, "client")'
        PROVE  r \in leaked' \/ \E j \in live' : r = item'[j].client
    <3>1. \/ r \in leaked
          \/ \E j \in live : r = item[j].client
          \/ \E j \in Apps : task[j].at = "accept" /\ task[j].client = r
      BY <1>8, <2>3 DEF ClientsInv
    <3>2. (\E j \in Apps : task[j].at = "accept" /\ task[j].client = r) => r = c
      BY <1>2, <1>4
    <3> QED
      BY <1>3, <3>1, <3>2
  <2> QED
    BY <1>10, <2>1, <2>2, <2>3 DEF ClientsInv
<1>13. ServersInv'
  <2>1. (\A r \in Slots : conn[r].open => conn[r].end \in {"client", "server"} /\ conn[r].port \in Ports)'
    BY <1>7 DEF ServersInv
  <2>2. ASSUME NEW r \in Slots, IsEnd(r, "server")'
        PROVE  r \in leaked' \/ \E j \in live' : r = item'[j].server
    <3>1. r \in leaked \/ r \in ToSet(accepts) \/ \E j \in live : r = item[j].server
      BY <1>8, <2>2 DEF ServersInv
    <3> QED
      BY <1>3, <1>4, <3>1
  <2> QED
    BY <1>5, <2>1, <2>2 DEF ServersInv
<1>14. HelloInv'
  BY <1>3, <1>4 DEF HelloInv
<1> QED
  BY <1>11, <1>12, <1>13, <1>14 DEF EndsInv

\* What csp_close does to the ends.
LEMMA ShutIs ==
  ASSUME NEW s \in Slots, conn' = Shut({s})
  PROVE  /\ ~conn'[s].open /\ \A r \in Slots : r # s => conn'[r] = conn[r]
         /\ \A r, e : IsEnd(r, e)' <=> (r # s /\ IsEnd(r, e))
<1>1. ~conn'[s].open /\ \A r \in Slots : r # s => conn'[r] = conn[r]
  BY DEF Shut, Closed
<1>2. \A r \in Slots : \A e : IsEnd(r, e)' <=> (r # s /\ IsEnd(r, e))
  BY <1>1 DEF IsEnd
<1> QED
  BY <1>1, <1>2 DEF IsEnd

LEMMA ShutKeepsPair ==
  ASSUME Inv, NEW s \in Slots, conn' = Shut({s}), UNCHANGED item, NEW i \in live, ~EndOf(s, i), Paired(i)
  PROVE  Paired(i)'
<1>1. item[i].client \in Slots /\ item[i].server \in Slots
  BY DEF Inv, PairsInv
<1>2. conn'[item[i].client] = conn[item[i].client] /\ conn'[item[i].server] = conn[item[i].server]
  BY <1>1, ShutIs DEF EndOf
<1> QED
  BY <1>1, <1>2 DEF Paired, IsEnd

\* The ends that are left, and the servers' among them.
LEMMA ShutServers ==
  ASSUME Inv, NEW s \in Slots, conn' = Shut({s}), UNCHANGED <<live, item, accepts, leaked>>, accepts = <<>>
  PROVE  ServersInv'
<1>1. ToSet(accepts) = {} /\ ToSet(accepts)' = {} /\ Len(accepts') <= 1
  BY DEF ToSet
<1>2. (\A r \in Slots : conn[r].open => conn[r].end \in {"client", "server"} /\ conn[r].port \in Ports)'
  <2>1. \A r \in Slots : conn[r].open => conn[r].end \in {"client", "server"} /\ conn[r].port \in Ports
    BY DEF Inv, ServersInv
  <2>2. ASSUME NEW r \in Slots, conn'[r].open
        PROVE  conn'[r].end \in {"client", "server"} /\ conn'[r].port \in Ports
    BY <2>1, <2>2, ShutIs
  <2> QED
    BY <2>2
<1>3. (\A r \in Slots : IsEnd(r, "server") =>
         r \in leaked \/ r \in ToSet(accepts) \/ \E i \in live : r = item[i].server)'
  <2>1. \A r \in Slots : IsEnd(r, "server") =>
          r \in leaked \/ r \in ToSet(accepts) \/ \E i \in live : r = item[i].server
    BY DEF Inv, ServersInv
  <2>2. \A r \in Slots : IsEnd(r, "server")' => IsEnd(r, "server")
    BY ShutIs
  <2> QED
    BY <1>1, <2>1, <2>2
<1> QED
  BY <1>1, <1>2, <1>3 DEF ServersInv

\* With no connect under way after it.
LEMMA ShutClients ==
  ASSUME Inv, NEW s \in Slots, conn' = Shut({s}), UNCHANGED <<live, item, leaked>>, s \notin leaked,
         \A j \in Apps : task'[j].at # "accept",
         \A j \in Apps : task[j].at = "accept" => task[j].client = s
  PROVE  ClientsInv'
<1>1. \A r, e : IsEnd(r, e)' <=> (r # s /\ IsEnd(r, e))
  BY ShutIs
<1>2. (\A r, t \in Slots : IsEnd(r, "client") /\ IsEnd(t, "client") /\ conn[r].port = conn[t].port => r = t)'
  <2>1. \A r \in Slots : r # s => conn'[r] = conn[r]
    BY ShutIs
  <2> QED
    BY <1>1, <2>1 DEF Inv, ClientsInv
<1>3. \A r \in leaked : conn'[r].open /\ OfNoItem(r)'
  <2>1. \A r \in leaked : r \in Slots /\ conn[r].open /\ OfNoItem(r) /\ r # s
    BY DEF Inv, TypeOK, ClientsInv
  <2>2. \A r \in Slots : r # s => conn'[r] = conn[r]
    BY ShutIs
  <2> QED
    BY <2>1, <2>2 DEF OfNoItem, EndOf
<1>4. ASSUME NEW r \in Slots, IsEnd(r, "client")'
      PROVE  r \in leaked' \/ \E i \in live' : r = item'[i].client
  <2>1. IsEnd(r, "client") /\ r # s
    BY <1>1, <1>4
  <2>2. \/ r \in leaked
        \/ \E i \in live : r = item[i].client
        \/ \E j \in Apps : task[j].at = "accept" /\ task[j].client = r
    BY <2>1 DEF Inv, ClientsInv
  <2> QED
    BY <2>1, <2>2
<1> QED
  BY <1>2, <1>3, <1>4 DEF ClientsInv

LEMMA AcceptTimeoutEnds ==
  ASSUME Inv, Apart', NEW k \in Apps, AcceptTimeout(k)
  PROVE  EndsInv'
<1> USE DEF Inv
<1>1. PICK c : c = task[k].client
  OBVIOUS
<1>2. /\ task[k].at = "accept" /\ accepts = <<>> /\ \A n \in DOMAIN net : net[n].to # "server"
      /\ conn' = Shut({c}) /\ task' = [task EXCEPT ![k] = IdleTask]
      /\ UNCHANGED <<net, accepts, live, item, handle, leaked>>
  BY <1>1 DEF AcceptTimeout, GivesUp, HelloComing, Apart, If, listVars
<1>3. c \in Slots /\ c \notin leaked /\ \A i \in live : ~EndOf(c, i)
  BY <1>1, <1>2 DEF ClientsInv, Loose, OfNoItem, IsEnd
<1>4. ~Disconnecting /\ \A j \in Apps : task[j].at = "accept" => j = k
  BY <1>2, OneTask DEF ListInv, Connecting
<1>5. task'[k].at = "idle" /\ \A j \in Apps : j # k => task'[j] = task[j]
  <2>1. IdleTask.at = "idle"
    BY DEF IdleTask
  <2> QED
    BY <1>2, <2>1, OthersKept
<1>6. \A j \in Apps : ~Removing(j)' /\ task'[j].at # "accept"
  BY <1>4, <1>5 DEF Removing, Disconnecting
<1>7. \A i \in live : Paired(i)'
  BY <1>2, <1>3, <1>4, AllPaired, ShutKeepsPair
<1>8. PairsInv'
  <2>1. \A i, r : EndOf(r, i)' <=> EndOf(r, i)
    BY <1>2 DEF EndOf
  <2> QED
    BY <1>2, <1>6, <1>7, <2>1 DEF PairsInv
<1>9. ClientsInv'
  BY <1>1, <1>2, <1>3, <1>4, <1>6, ShutClients
<1>10. ServersInv'
  BY <1>2, <1>3, ShutServers
<1>11. HelloInv'
  BY <1>2 DEF HelloInv
<1> QED
  BY <1>8, <1>9, <1>10, <1>11 DEF EndsInv

LEMMA DisconnectCloseEnds ==
  ASSUME Inv, Apart', NEW k \in Apps, DisconnectClose(k)
  PROVE  EndsInv'
<1> USE DEF Inv
<1>1. PICK i : i = handle[k]
  OBVIOUS
<1>2. PICK c : c = item[i].client
  OBVIOUS
<1>3. /\ task[k].at = "idle" /\ i # Null /\ lock.unsub = Nobody /\ ~Connecting
      /\ conn' = Shut({c}) /\ task' = [task EXCEPT ![k].at = "scan", ![k].cur = head]
      /\ UNCHANGED <<net, accepts, live, item, handle, leaked>>
  BY <1>1, <1>2 DEF DisconnectClose, Apart, If, listVars
<1>4. \A j \in Apps : ~Removing(j) /\ task[j].at # "accept"
  <2>1. Nobody \notin Apps
    BY RTAssumption DEF RTAssumption, Nobody
  <2> QED
    BY <1>3, <2>1 DEF TypeOK, Removing, Connecting
<1>5. ~Disconnecting
  BY <1>4 DEF Disconnecting, Removing
<1>6. accepts = <<>> /\ \A n \in DOMAIN net : net[n].to # "server"
  BY <1>4, NobodyAwaited
<1>7. i \in live
  BY <1>1, <1>3, RemovesLive
<1>8. PICK d : d = item[i].server
  OBVIOUS
<1>9. /\ IsEnd(c, "client") /\ IsEnd(d, "server") /\ c \in Slots /\ d \in Slots /\ c # d
      /\ conn[c].port = conn[d].port
  BY <1>2, <1>5, <1>7, <1>8, AllPaired DEF Paired, PairsInv
<1>10. \A j \in live : j # i => ~EndOf(c, j)
  BY <1>2, <1>7, <1>9 DEF PairsInv, EndOf
<1>11. c \notin leaked
  BY <1>2, <1>7 DEF ClientsInv, OfNoItem, EndOf
<1>12. task'[k].at = "scan" /\ \A j \in Apps : j # k => task'[j] = task[j]
  <2>1. PICK t : t = [task[k] EXCEPT !.at = "scan", !.cur = head]
    OBVIOUS
  <2>2. task' = [task EXCEPT ![k] = t] /\ task[k] \in TaskType
    BY <1>3, <2>1 DEF TypeOK
  <2>3. t.at = "scan"
    BY <2>1, <2>2 DEF TaskType
  <2> QED
    BY <2>2, <2>3, OthersKept
<1>13. \A j \in Apps : (Removing(j)' <=> j = k) /\ task'[j].at # "accept"
  BY <1>4, <1>12 DEF Removing
<1>14. Parted(k)'
  <2>1. ~conn'[c].open /\ IsEnd(d, "server")' /\ conn'[d] = conn[d]
    BY <1>3, <1>9, ShutIs
  <2>2. (EndsAt("client", conn[d].port) = {})'
    <3>1. ASSUME NEW r \in Slots, IsEnd(r, "client")', conn'[r].port = conn'[d].port PROVE FALSE
      <4>1. r # c /\ IsEnd(r, "client") /\ conn'[r] = conn[r]
        BY <1>3, <1>9, <3>1, ShutIs
      <4>2. conn[r].port = conn[c].port
        BY <1>9, <2>1, <3>1, <4>1
      <4> QED
        BY <1>9, <4>1, <4>2 DEF ClientsInv
    <3> QED
      BY <3>1 DEF EndsAt, IsEnd
  <2> QED
    BY <1>1, <1>2, <1>3, <1>8, <1>12, <2>1, <2>2 DEF Parted
<1>15. PairsInv'
  <2>1. \A j, r : EndOf(r, j)' <=> EndOf(r, j)
    BY <1>3 DEF EndOf
  <2>2. Leaving(i)'
    BY <1>1, <1>3, <1>13 DEF Leaving
  <2>3. \A j \in live : j # i => Paired(j)'
    BY <1>3, <1>5, <1>9, <1>10, AllPaired, ShutKeepsPair
  <2>4. (\A j \in live : /\ item[j].client \in Slots /\ item[j].server \in Slots
                         /\ item[j].client # item[j].server
                         /\ ~Leaving(j) => Paired(j))'
    BY <1>3, <2>2, <2>3 DEF PairsInv
  <2>5. (\A j, l \in live, r \in Slots : EndOf(r, j) /\ EndOf(r, l) => j = l)'
    BY <1>3, <2>1 DEF PairsInv
  <2> QED
    BY <1>13, <1>14, <2>4, <2>5 DEF PairsInv
<1>16. ClientsInv'
  BY <1>3, <1>4, <1>9, <1>11, <1>13, ShutClients
<1>17. ServersInv'
  BY <1>3, <1>6, <1>9, ShutServers
<1>18. HelloInv'
  BY <1>3, <1>6 DEF HelloInv
<1> QED
  BY <1>15, <1>16, <1>17, <1>18 DEF EndsInv

LEMMA DisconnectScanEnds ==
  ASSUME Inv, NEW k \in Apps, DisconnectScan(k)
  PROVE  EndsInv'
<1> USE DEF Inv
<1>1. PICK i : i = task[k].cur
  OBVIOUS
<1>2. task[k].at = "scan" /\ Removing(k) /\ UNCHANGED <<net, accepts, item, live, leaked>>
  BY DEF DisconnectScan, listVars, Removing
<1>3. i # Null
  BY <1>1, <1>2, ScanAt
<1>4. /\ handle' = handle
      /\ IF Alive(item[i].server)
           THEN task' = [task EXCEPT ![k].cur = item[i].next] /\ conn' = conn
           ELSE task' = [task EXCEPT ![k].at = "pred"] /\ conn' = Shut({item[i].server})
  BY <1>1, <1>3 DEF DisconnectScan
<1>5. CASE Alive(item[i].server)
  <2>1. PICK t : t = [task[k] EXCEPT !.cur = item[i].next]
    OBVIOUS
  <2>2. task' = [task EXCEPT ![k] = t] /\ task[k] \in TaskType
    BY <1>4, <1>5, <2>1 DEF TypeOK
  <2>3. t.at = "scan"
    BY <1>2, <2>1, <2>2 DEF TaskType
  <2> QED
    BY <1>2, <1>4, <1>5, <2>2, <2>3, TaskStep
<1>6. CASE ~Alive(item[i].server)
  <2>1. i = handle[k]
    BY <1>1, <1>2, <1>6, ScanFinds
  <2>2. PICK d : d = item[i].server
    OBVIOUS
  <2>3. /\ conn' = Shut({d}) /\ task' = [task EXCEPT ![k].at = "pred"]
    BY <1>4, <1>6, <2>2
  <2>4. i \in live
    BY <1>3, <2>1, RemovesLive
  <2>5. Parted(k)
    BY <1>2 DEF PairsInv
  <2>6. ~conn[item[i].client].open /\ d \in Slots /\ IsEnd(d, "server") /\ item[i].client \in Slots /\ item[i].client # d
    BY <1>2, <2>1, <2>2, <2>4, <2>5 DEF Parted, PairsInv
  <2>7. \A j \in live : j # i => ~EndOf(d, j)
    BY <2>2, <2>4, <2>6 DEF PairsInv, EndOf
  <2>8. d \notin leaked
    BY <2>2, <2>4 DEF ClientsInv, OfNoItem, EndOf
  <2>9. \A j \in Apps : (Removing(j) <=> j = k) /\ task[j].at # "accept"
    <3>1. ~Connecting
      BY <1>2 DEF ListInv, Disconnecting
    <3> QED
      BY <1>2, <3>1, OneTask DEF Connecting
  <2>10. accepts = <<>> /\ \A n \in DOMAIN net : net[n].to # "server"
    BY <2>9, NobodyAwaited
  <2>11. task'[k].at = "pred" /\ \A j \in Apps : j # k => task'[j] = task[j]
    <3>1. PICK t : t = [task[k] EXCEPT !.at = "pred"]
      OBVIOUS
    <3>2. task' = [task EXCEPT ![k] = t] /\ task[k] \in TaskType
      BY <2>3, <3>1 DEF TypeOK
    <3>3. t.at = "pred"
      BY <3>1, <3>2 DEF TaskType
    <3> QED
      BY <3>2, <3>3, OthersKept
  <2>12. \A j \in Apps : (Removing(j)' <=> j = k) /\ task'[j].at # "accept"
    BY <2>9, <2>11 DEF Removing
  <2>13. Parted(k)'
    <3>1. ~conn'[d].open /\ ~conn'[item[i].client].open
      BY <2>3, <2>6, ShutIs
    <3> QED
      BY <1>2, <1>4, <2>1, <2>2, <2>11, <3>1 DEF Parted
  <2>14. PairsInv'
    <3>1. \A j, r : EndOf(r, j)' <=> EndOf(r, j)
      BY <1>2 DEF EndOf
    <3>2. \A j \in live : (Leaving(j)' <=> j = i) /\ (Leaving(j) <=> j = i)
      BY <1>4, <2>1, <2>9, <2>12 DEF Leaving
    <3>3. \A j \in live : j # i => Paired(j)
      BY <3>2 DEF PairsInv
    <3>4. \A j \in live : j # i => Paired(j)'
      BY <1>2, <2>3, <2>6, <2>7, <3>3, ShutKeepsPair
    <3>5. (\A j \in live : /\ item[j].client \in Slots /\ item[j].server \in Slots
                           /\ item[j].client # item[j].server
                           /\ ~Leaving(j) => Paired(j))'
      BY <1>2, <3>2, <3>4 DEF PairsInv
    <3>6. (\A j, l \in live, r \in Slots : EndOf(r, j) /\ EndOf(r, l) => j = l)'
      BY <1>2, <3>1 DEF PairsInv
    <3> QED
      BY <2>12, <2>13, <3>5, <3>6 DEF PairsInv
  <2>15. ClientsInv'
    BY <1>2, <2>3, <2>6, <2>8, <2>9, <2>12, ShutClients
  <2>16. ServersInv'
    BY <1>2, <2>3, <2>6, <2>10, ShutServers
  <2>17. HelloInv'
    BY <1>2, <2>10 DEF HelloInv
  <2> QED
    BY <2>14, <2>15, <2>16, <2>17 DEF EndsInv
<1> QED
  BY <1>5, <1>6

LEMMA DeleteUnlinkEnds ==
  ASSUME Inv, NEW k \in Apps, DeleteUnlink(k)
  PROVE  EndsInv'
<1> USE DEF Inv
<1>1. PICK i : i = task[k].cur
  OBVIOUS
<1>2. PICK p : p = task[k].item
  OBVIOUS
<1>3. /\ task[k].at = "unlink" /\ task' = [task EXCEPT ![k] = IdleTask] /\ item' = Unlinked(i, p)
      /\ live' = live \ {i} /\ UNCHANGED <<conn, net, accepts, leaked>>
  BY <1>1, <1>2 DEF DeleteUnlink, Disconnected, cspVars
<1>4. Removing(k) /\ ~Connecting
  BY <1>3 DEF Removing, Disconnecting, ListInv
<1>5. i = handle[k] /\ i # Null
  BY <1>1, <1>3, <1>4, ScanAt
<1>6. i \in live
  BY <1>5, RemovesLive
<1>7. \A j \in Apps : (Removing(j) <=> j = k) /\ task[j].at # "accept"
  BY <1>4, OneTask DEF Connecting
<1>8. accepts = <<>> /\ ToSet(accepts) = {} /\ \A n \in DOMAIN net : net[n].to # "server"
  BY <1>7, NobodyAwaited
<1>9. ~conn[item[i].client].open /\ ~conn[item[i].server].open
  BY <1>3, <1>4, <1>5 DEF Parted, PairsInv
<1>10. \A j \in live' : j \in live /\ j # i /\ item'[j].client = item[j].client /\ item'[j].server = item[j].server
  <2>1. \A j \in Items : item[j] \in ItemType
    BY DEF TypeOK
  <2>2. live \subseteq Items
    BY DEF TypeOK
  <2>3. \A j \in Items : j # i => item'[j].client = item[j].client /\ item'[j].server = item[j].server
    BY <1>3, <2>1 DEF Unlinked, ItemType
  <2> QED
    BY <1>3, <2>2, <2>3
<1>11. \A j \in Apps : ~Removing(j)' /\ task'[j].at # "accept"
  <2>1. IdleTask.at = "idle"
    BY DEF IdleTask
  <2>2. task'[k].at = "idle" /\ \A j \in Apps : j # k => task'[j] = task[j]
    BY <1>3, <2>1, OthersKept
  <2> QED
    BY <1>7, <2>2 DEF Removing
<1>12. \A j \in live' : \A r : EndOf(r, j)' <=> EndOf(r, j)
  BY <1>10 DEF EndOf
<1>13. \A r, e : IsEnd(r, e)' <=> IsEnd(r, e)
  BY <1>3 DEF IsEnd
<1>14. PairsInv'
  <2>1. \A j \in live' : Paired(j)
    BY <1>5, <1>7, <1>10 DEF PairsInv, Leaving
  <2>2. \A j \in live' : Paired(j)'
    BY <1>3, <1>10, <1>13, <2>1 DEF Paired
  <2>3. (\A j \in live : /\ item[j].client \in Slots /\ item[j].server \in Slots
                         /\ item[j].client # item[j].server
                         /\ ~Leaving(j) => Paired(j))'
    BY <1>10, <2>2 DEF PairsInv
  <2>4. (\A j, l \in live, r \in Slots : EndOf(r, j) /\ EndOf(r, l) => j = l)'
    BY <1>10, <1>12 DEF PairsInv
  <2> QED
    BY <1>11, <2>3, <2>4 DEF PairsInv
<1>15. ClientsInv'
  <2>1. (\A r, t \in Slots : IsEnd(r, "client") /\ IsEnd(t, "client") /\ conn[r].port = conn[t].port => r = t)'
    BY <1>3, <1>13 DEF ClientsInv
  <2>2. \A r \in leaked : conn'[r].open /\ OfNoItem(r)'
    BY <1>3, <1>10, <1>12 DEF ClientsInv, OfNoItem
  <2>3. ASSUME NEW r \in Slots, IsEnd(r, "client")'
        PROVE  r \in leaked' \/ \E j \in live' : r = item'[j].client
    <3>1. r \in leaked \/ \E j \in live : r = item[j].client
      BY <1>7, <1>13, <2>3 DEF ClientsInv
    <3>2. r # item[i].client
      BY <1>9, <1>13, <2>3 DEF IsEnd
    <3> QED
      BY <1>3, <1>10, <3>1, <3>2
  <2> QED
    BY <1>3, <1>11, <2>1, <2>2, <2>3 DEF ClientsInv
<1>16. ServersInv'
  <2>1. (\A r \in Slots : conn[r].open => conn[r].end \in {"client", "server"} /\ conn[r].port \in Ports)'
    BY <1>3 DEF ServersInv
  <2>2. ASSUME NEW r \in Slots, IsEnd(r, "server")'
        PROVE  r \in leaked' \/ \E j \in live' : r = item'[j].server
    <3>1. r \in leaked \/ \E j \in live : r = item[j].server
      BY <1>8, <1>13, <2>2 DEF ServersInv
    <3>2. r # item[i].server
      BY <1>9, <1>13, <2>2 DEF IsEnd
    <3> QED
      BY <1>3, <1>10, <3>1, <3>2
  <2> QED
    BY <1>3, <1>8, <2>1, <2>2 DEF ServersInv
<1>17. HelloInv'
  BY <1>3, <1>8 DEF HelloInv
<1> QED
  BY <1>14, <1>15, <1>16, <1>17 DEF EndsInv

\* The router makes the other end of the connect under way.
LEMMA RouteNewEnds ==
  ASSUME Inv, net # <<>>, net' = Tail(net), UNCHANGED <<live, leaked, item, task, handle>>,
         NEW m, m = Head(net), m.to = "server", NEW s \in Free,
         conn' = [conn EXCEPT ![s] = Opened("server", m.port, <<m.pkt>>)],
         accepts' = Append(accepts, s)
  PROVE  EndsInv'
<1> USE DEF Inv
<1>1. /\ m \in PacketType /\ Len(net) \in Nat /\ DOMAIN net = 1..Len(net)
      /\ DOMAIN net' = 1..Len(net) - 1 /\ net[1] = m /\ Len(net) # 0
      /\ \A n \in 1..Len(net) - 1 : net'[n] = net[n + 1]
  BY TailFacts, Zenon DEF TypeOK
<1>2. 1 \in DOMAIN net /\ \A n \in DOMAIN net' : n + 1 \in DOMAIN net /\ n + 1 # 1 /\ net'[n] = net[n + 1]
  BY <1>1
<1>3. accepts = <<>> /\ Awaited(m.port) /\ \A n \in DOMAIN net' : net'[n].to # "server"
  BY <1>1, <1>2 DEF HelloInv
<1>4. ~Disconnecting
  BY <1>3 DEF Awaited, ListInv, Connecting
<1>5. /\ s \in Slots /\ ~conn[s].open /\ s \notin leaked /\ \A i \in live : ~EndOf(s, i)
      /\ \A k \in Apps : task[k].at = "accept" => task[k].client # s
  BY <1>4, FreeIsNobodys
<1>6. /\ conn'[s].open /\ conn'[s].end = "server" /\ conn'[s].port = m.port /\ conn'[s].rx # <<>>
      /\ \A r \in Slots : r # s => conn'[r] = conn[r]
  <2>1. PICK c : c = Opened("server", m.port, <<m.pkt>>)
    OBVIOUS
  <2>2. c.open /\ c.end = "server" /\ c.port = m.port /\ c.rx # <<>>
    BY <2>1 DEF Opened
  <2>3. conn' = [conn EXCEPT ![s] = c] /\ conn \in [Slots -> ConnType]
    BY <2>1 DEF TypeOK
  <2> QED
    BY <1>5, <2>2, <2>3
<1>7. \A r \in Slots : \A e : r # s => (IsEnd(r, e)' <=> IsEnd(r, e))
  BY <1>6 DEF IsEnd
<1>8. IsEnd(s, "server")' /\ ~IsEnd(s, "client")' /\ \A e : ~IsEnd(s, e)
  BY <1>5, <1>6 DEF IsEnd
<1>9. \A i, r : EndOf(r, i)' <=> EndOf(r, i)
  BY DEF EndOf
<1>10. ToSet(accepts)' = {s} /\ Len(accepts') <= 1
  <2>1. accepts' = <<s>>
    BY <1>3
  <2> QED
    BY <2>1 DEF ToSet
<1>11. PairsInv'
  <2>1. ASSUME NEW i \in live PROVE Paired(i)'
    <3>1. Paired(i) /\ item[i].client \in Slots /\ item[i].server \in Slots
      BY <1>4, AllPaired DEF PairsInv
    <3>2. item[i].client # s /\ item[i].server # s
      BY <1>5 DEF EndOf
    <3> QED
      BY <1>6, <3>1, <3>2 DEF Paired, IsEnd
  <2>2. \A k \in Apps : ~Removing(k)'
    BY <1>4 DEF Removing, Disconnecting
  <2> QED
    BY <1>9, <2>1, <2>2 DEF PairsInv
<1>12. ClientsInv'
  <2>1. \A r : IsEnd(r, "client")' <=> IsEnd(r, "client")
    BY <1>7, <1>8 DEF IsEnd
  <2>2. \A r : IsEnd(r, "client") => r # s /\ conn'[r] = conn[r]
    BY <1>6, <1>8 DEF IsEnd
  <2>3. (\A r, t \in Slots : IsEnd(r, "client") /\ IsEnd(t, "client") /\ conn[r].port = conn[t].port => r = t)'
    BY <2>1, <2>2 DEF ClientsInv
  <2>4. \A r : /\ Loose(r) => Loose(r)'
               /\ OfNoItem(r) => OfNoItem(r)'
    BY <1>9, <2>1 DEF Loose, OfNoItem
  <2>5. (\A r \in Slots : IsEnd(r, "client") =>
           \/ r \in leaked
           \/ \E i \in live : r = item[i].client
           \/ \E k \in Apps : task[k].at = "accept" /\ task[k].client = r)'
    BY <2>1 DEF ClientsInv
  <2>6. \A r \in leaked : conn'[r].open
    BY <1>5, <1>6 DEF ClientsInv, TypeOK
  <2>7. \A k \in Apps : task[k].at = "accept" => Loose(task[k].client)' /\ task[k].client \notin leaked
    BY <2>4 DEF ClientsInv
  <2> QED
    BY <2>3, <2>4, <2>5, <2>6, <2>7 DEF ClientsInv
<1>13. ServersInv'
  <2>1. m.port \in Ports
    BY <1>1 DEF PacketType
  <2>2. (\A r \in Slots : conn[r].open => conn[r].end \in {"client", "server"} /\ conn[r].port \in Ports)'
    BY <1>6, <2>1 DEF ServersInv
  <2>3. (\A r \in Slots : IsEnd(r, "server") =>
           r \in leaked \/ r \in ToSet(accepts) \/ \E i \in live : r = item[i].server)'
    <3>1. ToSet(accepts) = {}
      BY <1>3 DEF ToSet
    <3> QED
      BY <1>7, <1>10, <3>1 DEF ServersInv
  <2>4. Awaited(conn[s].port)'
    <3>1. PICK k \in Apps : task[k].at = "accept" /\ conn[task[k].client].port = m.port
      BY <1>3 DEF Awaited
    <3>2. task[k].client \in Slots /\ task[k].client # s
      BY <1>5, <3>1 DEF ClientsInv, Loose, IsEnd
    <3> QED
      BY <1>6, <3>1, <3>2 DEF Awaited
  <2>5. (\A r \in ToSet(accepts) :
           /\ IsEnd(r, "server") /\ conn[r].rx # <<>> /\ OfNoItem(r) /\ r \notin leaked
           /\ Awaited(conn[r].port))'
    BY <1>5, <1>6, <1>8, <1>9, <1>10, <2>4 DEF OfNoItem
  <2> QED
    BY <1>10, <2>2, <2>3, <2>5 DEF ServersInv
<1>14. HelloInv'
  BY <1>3 DEF HelloInv
<1> QED
  BY <1>11, <1>12, <1>13, <1>14 DEF EndsInv

LEMMA RouteEnds ==
  ASSUME Inv, Route
  PROVE  EndsInv'
<1>1. PICK m : m = Head(net)
  OBVIOUS
<1>2. net # <<>> /\ net' = Tail(net) /\ UNCHANGED <<live, leaked, item, task, handle>>
  BY DEF Route, listVars, appVars
<1>3. ASSUME RouteToEnd(m)
      PROVE  EndsInv'
  <2>1. PICK s \in Slots : conn' = IF Len(conn[s].rx) < RxLength
                                     THEN [conn EXCEPT ![s].rx = Append(@, m.pkt)] ELSE conn
    BY <1>3 DEF RouteToEnd, EndsAt
  <2>2. PICK q : q = Append(conn[s].rx, m.pkt)
    OBVIOUS
  <2>3. conn[s].rx \in Seq(0..MaxPackets)
    BY DEF Inv, TypeOK, ConnType
  <2>4. q # <<>>
    <3>1. PICK r : r = conn[s].rx
      OBVIOUS
    <3>2. r \in Seq(0..MaxPackets) /\ q = Append(r, m.pkt)
      BY <2>2, <2>3, <3>1
    <3>3. DOMAIN q = 1..Len(r) + 1 /\ Len(r) \in Nat
      BY <3>2
    <3>4. 1 \in DOMAIN q
      BY <3>3
    <3> QED
      BY <3>4
  <2>5. conn' = conn \/ conn' = [conn EXCEPT ![s].rx = q]
    BY <2>1, <2>2
  <2>6. accepts' = accepts
    BY <1>3 DEF RouteToEnd
  <2> QED
    BY <1>2, <2>4, <2>5, <2>6, QueueStep
<1>4. ASSUME RouteNew(m)
      PROVE  EndsInv'
  <2>1. m.to = "server"
    BY <1>4 DEF RouteNew
  <2>2. CASE UNCHANGED <<conn, accepts>>
    BY <1>2, <2>2, QueueStep
  <2>3. ASSUME NEW s \in Free, conn' = [conn EXCEPT ![s] = Opened("server", m.port, <<m.pkt>>)],
               accepts' = Append(accepts, s)
        PROVE  EndsInv'
    BY <1>1, <1>2, <2>1, <2>3, RouteNewEnds
  <2> QED
    BY <1>4, <2>2, <2>3 DEF RouteNew
<1>5. ASSUME RouteLost(m)
      PROVE  EndsInv'
  <2>1. UNCHANGED <<conn, accepts>>
    BY <1>5 DEF RouteLost
  <2> QED
    BY <1>2, <2>1, QueueStep
<1> QED
  BY <1>1, <1>3, <1>4, <1>5 DEF Route

LEMMA CleanupEnds ==
  ASSUME Inv, telemetry_cleanup
  PROVE  EndsInv'
<1> USE DEF Inv
<1>1. PICK S : S = UNION {{item[i].client, item[i].server} : i \in ToSet(Listed)}
  OBVIOUS
<1>2. /\ \A k \in Apps : task[k].at \in {"idle", "lost"}
      /\ conn' = Shut(S) /\ live' = live \ ToSet(Listed) /\ UNCHANGED <<net, accepts, task, leaked>>
  BY <1>1 DEF telemetry_cleanup
<1>3. live = ToSet(Listed) /\ live' = {}
  <2>1. ~\E k \in Apps : Adding(k)
    BY <1>2 DEF Adding
  <2> QED
    BY <1>2, <2>1 DEF ListInv
<1>4. accepts = <<>> /\ ToSet(accepts) = {} /\ \A n \in DOMAIN net : net[n].to # "server"
  BY <1>2, NobodyAwaited
<1>5. \A r \in Slots : IF r \in S THEN ~conn'[r].open ELSE conn'[r] = conn[r]
  BY <1>2 DEF Shut, Closed
<1>6. \A r, e : IsEnd(r, e)' <=> (r \notin S /\ IsEnd(r, e))
  BY <1>5 DEF IsEnd
<1>7. \A r : r \in S <=> \E i \in live : EndOf(r, i)
  BY <1>1, <1>3 DEF EndOf
<1>8. \A k \in Apps : ~Removing(k)' /\ task'[k].at # "accept" /\ task[k].at # "accept"
  BY <1>2 DEF Removing
<1>9. PairsInv'
  BY <1>3, <1>8 DEF PairsInv
<1>10. ClientsInv'
  <2>1. (\A r, t \in Slots : IsEnd(r, "client") /\ IsEnd(t, "client") /\ conn[r].port = conn[t].port => r = t)'
    BY <1>5, <1>6 DEF ClientsInv
  <2>2. \A r \in leaked : conn'[r].open /\ OfNoItem(r)'
    BY <1>3, <1>5, <1>7 DEF ClientsInv, OfNoItem, TypeOK
  <2>3. \A r \in Slots : IsEnd(r, "client")' => r \in leaked
    BY <1>6, <1>7, <1>8 DEF ClientsInv, EndOf
  <2> QED
    BY <1>2, <1>8, <2>1, <2>2, <2>3 DEF ClientsInv
<1>11. ServersInv'
  <2>1. (\A r \in Slots : conn[r].open => conn[r].end \in {"client", "server"} /\ conn[r].port \in Ports)'
    BY <1>5 DEF ServersInv
  <2>2. \A r \in Slots : IsEnd(r, "server")' => r \in leaked
    BY <1>4, <1>6, <1>7 DEF ServersInv, EndOf
  <2>3. ToSet(accepts)' = {} /\ Len(accepts') <= 1 /\ leaked' = leaked
    BY <1>2, <1>4 DEF ToSet
  <2> QED
    BY <2>1, <2>2, <2>3 DEF ServersInv
<1>12. HelloInv'
  BY <1>2, <1>4 DEF HelloInv
<1> QED
  BY <1>9, <1>10, <1>11, <1>12 DEF EndsInv

(***************************************************************************)
(* The invariant.                                                          *)
(***************************************************************************)

LEMMA InitInv == Init => Inv /\ CallInv
<1> SUFFICES ASSUME Init PROVE Inv /\ CallInv
  OBVIOUS
<1>1. /\ \A k \in Apps : task[k].at = "idle" /\ handle[k] = Null
      /\ \A s \in Slots : ~conn[s].open
      /\ net = <<>> /\ accepts = <<>> /\ live = {} /\ leaked = {} /\ head = Null
  BY DEF Init, IdleTask, Closed
<1>2. TypeOK
  <2>1. /\ LastPort \in Nat /\ LastPort # 0 /\ Published \in Seq(Nat) /\ MaxPackets \in Nat
        /\ Nobody \notin Apps
    BY RTAssumption DEF RTAssumption, MaxPackets, Nobody
  <2>2. sport \in Ports /\ 0 \in 0..MaxPackets /\ 0 \in 0..LastPort /\ MaxPackets \in 0..MaxPackets
    BY <2>1 DEF Init, Ports
  <2>3. conn \in [Slots -> ConnType]
    <3>1. Closed \in ConnType
      BY <2>2 DEF Closed, ConnType
    <3> QED
      BY <3>1 DEF Init
  <2>4. item \in [Items -> ItemType]
    <3>1. NoItem \in ItemType
      BY EmptyTopics DEF NoItem, ItemType
    <3> QED
      BY <3>1 DEF Init
  <2>5. task \in [Apps -> TaskType]
    <3>1. IdleTask \in TaskType
      BY DEF IdleTask, TaskType, TaskPc
    <3> QED
      BY <3>1 DEF Init
  <2>6. /\ quit \in [Apps -> 0..MaxPackets] /\ seen \in [Apps -> 0..MaxPackets]
        /\ handle \in [Apps -> Items \union {Null}]
    BY <2>2 DEF Init, NotQuit
  <2>7. rx \in RxType /\ sent \in 0..MaxPackets
    BY <2>2 DEF Init, RxIdle, RxType
  <2>8. lock \in [sub : Apps \union {Nobody}, unsub : Apps \union {Nobody}]
        /\ lock.sub = Nobody /\ lock.unsub = Nobody
    BY DEF Init
  <2>9. net \in Seq(PacketType) /\ accepts \in Seq(Slots) /\ queue \in Seq(1..MaxPackets)
    BY DEF Init
  <2>10. \A k \in Apps : /\ (lock.sub = k) <=> (task[k].at \in {"accept", "find", "link"})
                         /\ (lock.unsub = k) <=> (task[k].at \in {"scan", "pred", "unlink"})
    BY <1>1, <2>1, <2>8
  <2> QED
    BY <2>2, <2>3, <2>4, <2>5, <2>6, <2>7, <2>8, <2>9, <2>10 DEF Init, TypeOK
<1>3. ListInv
  <2>1. Listed = <<>> /\ IsChain(Listed)
    <3>1. PICK q : q = <<>>
      OBVIOUS
    <3>2. q \in Seq(Items) /\ IsInjective(q) /\ DOMAIN q = {}
      BY <3>1 DEF IsInjective
    <3>3. IsChain(q)
      BY <1>1, <3>1, <3>2 DEF IsChain
    <3> QED
      BY <3>1, <3>3, ChainListed, Zenon
  <2>2. ToSet(Listed) = {}
    BY <2>1 DEF ToSet
  <2>3. ~Disconnecting
    BY <1>1 DEF Disconnecting
  <2>4. \A k \in Apps : PlaceOK(k)
    BY <1>1 DEF PlaceOK, Adding, Removing
  <2> QED
    BY <1>1, <2>1, <2>2, <2>3, <2>4 DEF ListInv
<1>4. PairsInv /\ ClientsInv
  BY <1>1 DEF PairsInv, ClientsInv, Removing, IsEnd
<1>5. ServersInv /\ HelloInv
  <2>1. ToSet(accepts) = {} /\ Len(accepts) = 0 /\ DOMAIN net = {}
    BY <1>1 DEF ToSet
  <2> QED
    BY <1>1, <2>1 DEF ServersInv, HelloInv, IsEnd
<1>6. CallInv
  BY <1>1 DEF CallInv
<1> QED
  BY <1>2, <1>3, <1>4, <1>5, <1>6 DEF Inv

LEMMA Unmoved ==
  ASSUME Inv, UNCHANGED vars
  PROVE  Inv'
<1> USE DEF Inv
<1>1. UNCHANGED <<conn, sport, net, accepts, head, item, live, lock, task, handle, seen, quit, queue, rx,
                  sent, leaked, strayed, up>>
  BY DEF vars, cspVars, listVars, appVars, rxVars
<1>2. TypeOK'
  BY <1>1 DEF TypeOK
<1>3. ListInv'
  BY <1>1, ListIdle
<1>4. EndsInv'
  BY <1>1, QueueStep
<1> QED
  BY <1>2, <1>3, <1>4 DEF EndsInv

\* A step of app k.
LEMMA AppStepInv ==
  ASSUME Inv, CallInv, Apart', NEW k \in Apps, AppStep(k)
  PROVE  Inv'
<1>1. TypeOK'
  BY TypesNext DEF Inv, Next
<1>2. CASE ConnectOpen(k)
  BY <1>1, <1>2, ConnectOpenList, ConnectOpenEnds DEF Inv, EndsInv
<1>3. CASE Accept(k)
  BY <1>1, <1>3, AcceptList, AcceptEnds DEF Inv, EndsInv
<1>4. CASE AcceptFails(k)
  BY <1>1, <1>4, AcceptEndsList, AcceptFailsEnds DEF Inv, EndsInv
<1>5. CASE AcceptTimeout(k)
  BY <1>1, <1>5, AcceptEndsList, AcceptTimeoutEnds DEF Inv, EndsInv
<1>6. CASE AppendFind(k)
  BY <1>1, <1>6, AppendFindList, AppendFindEnds DEF Inv, EndsInv
<1>7. CASE AppendLink(k)
  BY <1>1, <1>7, AppendLinkList, AppendLinkEnds DEF Inv, EndsInv
<1>8. CASE DisconnectClose(k)
  BY <1>1, <1>8, DisconnectCloseList, DisconnectCloseEnds DEF Inv, EndsInv
<1>9. CASE DisconnectScan(k)
  BY <1>1, <1>9, DisconnectScanList, DisconnectScanEnds DEF Inv, EndsInv
<1>10. CASE DeleteFind(k)
  BY <1>1, <1>10, DeleteFindList, DeleteFindEnds DEF Inv, EndsInv
<1>11. CASE DeleteUnlink(k)
  BY <1>1, <1>11, DeleteUnlinkList, DeleteUnlinkEnds DEF Inv, EndsInv
<1>12. CASE Subscribe(k) \/ Unsubscribe(k)
  <2>1. \E i \in Items : \E q : SetTopics(k, i, q)
    BY <1>12, TopicsSet DEF Inv
  <2>2. ListInv'
    BY <2>1, QuietList
  <2>3. EndsInv'
    BY <2>1, SetTopicsEnds
  <2> QED
    BY <1>1, <2>2, <2>3 DEF Inv, EndsInv
<1>13. CASE Read(k)
  BY <1>1, <1>13, QuietList, ReadEnds DEF Inv, EndsInv
<1> QED
  BY <1>2, <1>3, <1>4, <1>5, <1>6, <1>7, <1>8, <1>9, <1>10, <1>11, <1>12, <1>13 DEF AppStep

LEMMA StepInv ==
  ASSUME Inv, CallInv, Apart', [Next]_vars
  PROVE  Inv'
<1>1. ASSUME NEW k \in Apps, AppStep(k) PROVE Inv'
  BY <1>1, AppStepInv
<1>2. TypeOK'
  BY TypesNext DEF Inv
<1>3. CASE Route
  BY <1>2, <1>3, QuietList, RouteEnds DEF Inv, EndsInv
<1>4. CASE Publish \/ RxDequeue \/ RxSend
  BY <1>2, <1>4, QuietList, TelemetryEnds DEF Inv, EndsInv
<1>5. CASE telemetry_cleanup
  BY <1>2, <1>5, CleanupList, CleanupEnds DEF Inv, EndsInv
<1>6. CASE UNCHANGED vars
  BY <1>6, Unmoved
<1> QED
  BY <1>1, <1>3, <1>4, <1>5, <1>6 DEF Next, Finished

\* What has happened stays noted.
LEMMA StrayedStays ==
  [Next]_vars => strayed \subseteq strayed'
<1> SUFFICES ASSUME [Next]_vars PROVE strayed \subseteq strayed'
  OBVIOUS
<1>1. ASSUME NEW k \in Apps, AppStep(k) PROVE strayed \subseteq strayed'
  <2>1. ConnectOpen(k) \/ AcceptTimeout(k) \/ DisconnectClose(k) => strayed \subseteq strayed'
    BY DEF ConnectOpen, AcceptTimeout, GivesUp, DisconnectClose
  <2>2. Accept(k) \/ AcceptFails(k) \/ AppendFind(k) \/ AppendLink(k) => strayed' = strayed
    BY DEF Accept, AcceptFails, AppendFind, AppendLink
  <2>3. DisconnectScan(k) \/ DeleteFind(k) \/ DeleteUnlink(k) \/ Read(k) => strayed' = strayed
    BY DEF DisconnectScan, DeleteFind, DeleteUnlink, Read
  <2>4. Subscribe(k) \/ Unsubscribe(k) => strayed' = strayed
    BY DEF Subscribe, Unsubscribe, SetTopics
  <2> QED
    BY <1>1, <2>1, <2>2, <2>3, <2>4 DEF AppStep
<1>2. CASE Route \/ Publish \/ RxSend \/ telemetry_cleanup \/ UNCHANGED vars
  BY <1>2 DEF Route, Publish, RxSend, telemetry_cleanup, vars
<1>3. CASE RxDequeue
  BY <1>3 DEF RxDequeue, Dequeues
<1> QED
  BY <1>1, <1>2, <1>3 DEF Next, Finished

LEMMA Invariant ==
  Spec => [](TypeOK /\ CallInv /\ (Apart => Inv))
<1> DEFINE Whole == TypeOK /\ CallInv /\ (Apart => Inv)
<1>1. Init => Whole
  BY InitInv DEF Inv
<1>2. Whole /\ [Next]_vars => Whole'
  <2> SUFFICES ASSUME Whole, [Next]_vars PROVE Whole'
    OBVIOUS
  <2>1. TypeOK' /\ CallInv'
    BY TypesNext, CallsNext
  <2>2. Apart' => Apart
    BY StrayedStays DEF Apart
  <2>3. Apart' => Inv'
    BY <2>2, StepInv
  <2> QED
    BY <2>1, <2>3
<1> QED
  BY <1>1, <1>2, PTL DEF Spec

(* Every variable has its type, and the two locks are held by the calls    *)
(* that take them, whatever runs beside what and whatever fails.           *)
THEOREM RTTypeCorrect == Spec => []TypeOK
BY Invariant, PTL

(* A connected app is in the subscriber list, once, and its item holds the *)
(* two ends of its own connection: the connection kprv_server_accept gives *)
(* is the one telemetry_connect has just asked for, and what a disconnect  *)
(* closes and frees is nobody else's.  That is as long as no connect has   *)
(* run beside a disconnect, and none has given up before its hello came:   *)
(* a telemetry_send may be wherever it is.                                 *)
THEOREM ConnectedOwnsPair == Spec => []SubscriberOwnsPair
<1>1. (Apart => Inv) => SubscriberOwnsPair
  <2> SUFFICES ASSUME Inv
               PROVE  /\ IsInjective(Listed)
                      /\ {handle[k] : k \in Connected} \subseteq ToSet(Listed)
                      /\ \A k \in Connected :
                           LET i == handle[k] IN
                             /\ i \in live
                             /\ conn[item[i].client].open /\ conn[item[i].client].end = "client"
                             /\ conn[item[i].server].open /\ conn[item[i].server].end = "server"
                             /\ conn[item[i].client].port = conn[item[i].server].port
                             /\ \A j \in live \ {i} : {item[j].client, item[j].server}
                                                        \intersect {item[i].client, item[i].server} = {}
    BY DEF SubscriberOwnsPair
  <2>1. IsInjective(Listed)
    BY DEF Inv, ListInv, IsChain
  <2>2. {handle[k] : k \in Connected} \subseteq ToSet(Listed)
    BY DEF Connected, Inv, ListInv, PlaceOK
  <2>3. ASSUME NEW k \in Connected, NEW i, i = handle[k]
        PROVE  /\ i \in live
               /\ conn[item[i].client].open /\ conn[item[i].client].end = "client"
               /\ conn[item[i].server].open /\ conn[item[i].server].end = "server"
               /\ conn[item[i].client].port = conn[item[i].server].port
               /\ \A j \in live \ {i} : {item[j].client, item[j].server}
                                          \intersect {item[i].client, item[i].server} = {}
    <3>1. k \in Apps /\ i # Null /\ ~Removing(k)
      BY <2>3 DEF Connected, Removing
    <3>2. i \in live
      BY <2>3, <3>1, RemovesLive
    <3>3. ~Leaving(i)
      BY <2>3, <3>1 DEF Leaving, Inv, ListInv
    <3>4. Paired(i) /\ item[i].client \in Slots /\ item[i].server \in Slots
      BY <3>2, <3>3 DEF Inv, PairsInv
    <3>5. \A j \in live \ {i} : ~EndOf(item[i].client, j) /\ ~EndOf(item[i].server, j)
      BY <3>2, <3>4 DEF Inv, PairsInv, EndOf
    <3> QED
      BY <3>2, <3>4, <3>5 DEF Paired, IsEnd, EndOf
  <2> QED
    BY <2>1, <2>2, <2>3
<1> QED
  BY <1>1, Invariant, PTL

(* While Apart, no connect that times out, no disconnect and no cleanup    *)
(* leaves a connection open: what no item and no call has is what a        *)
(* connect forgot, for want of a buffer for its hello, of a hello to read  *)
(* or of memory for the item.                                              *)
THEOREM NoConnectionLeftOpen == Spec => []ConnectionsAccounted
<1>1. (Apart => Inv) => ConnectionsAccounted
  <2> SUFFICES ASSUME Inv, NEW s \in Slots, conn[s].open
               PROVE  \/ s \in leaked
                      \/ \E i \in live : s \in {item[i].client, item[i].server}
                      \/ \E k \in Apps : task[k].client = s
                      \/ s \in ToSet(accepts)
    BY DEF ConnectionsAccounted
  <2>1. IsEnd(s, "client") \/ IsEnd(s, "server")
    BY DEF Inv, ServersInv, IsEnd
  <2> QED
    BY <2>1 DEF Inv, ClientsInv, ServersInv
<1> QED
  BY <1>1, Invariant, PTL

(* What telemetry_disconnect takes out of the list and frees is the item   *)
(* of the app that called it, while Apart: the first item whose connection *)
(* is no longer alive is the one whose client's end it has just closed,    *)
(* for every other item has the two ends of one connection.                *)
THEOREM DisconnectTakesOwn == Spec => DisconnectRemovesOwn
<1>1. (Apart => Inv) => (Apart => \A k \in Apps : task[k].at = "unlink" => task[k].cur = handle[k])
  BY DEF Inv, ListInv, PlaceOK
<1>2. Spec => [][Apart => Inv]_vars
  BY Invariant, PTL
<1> QED
  BY <1>1, <1>2, PTL DEF DisconnectRemovesOwn

(***************************************************************************)
(* What an app reads.                                                      *)
(***************************************************************************)

LEMMA FreshNext ==
  ASSUME Inv, FreshInv, [Next]_vars
  PROVE  FreshInv'
<1> USE DEF Inv
<1>1. CASE UNCHANGED <<handle, seen>>
  BY <1>1 DEF FreshInv
<1>2. ASSUME NEW k \in Apps, Disconnected(k)
      PROVE  FreshInv'
  <2>1. /\ handle' = [handle EXCEPT ![k] = Null] /\ seen' = [seen EXCEPT ![k] = 0]
    BY <1>2 DEF Disconnected
  <2> QED
    BY <2>1 DEF FreshInv, TypeOK
<1>3. ASSUME NEW k \in Apps, AppendLink(k)
      PROVE  FreshInv'
  <2>1. PICK i : i = task[k].item
    OBVIOUS
  <2>2. task[k].at = "link" /\ handle' = [handle EXCEPT ![k] = i] /\ UNCHANGED seen
    BY <1>3, <2>1 DEF AppendLink
  <2>3. handle[k] = Null
    BY <2>2 DEF ListInv, PlaceOK
  <2> QED
    BY <2>2, <2>3 DEF FreshInv, TypeOK
<1>4. ASSUME NEW k \in Apps, Subscribe(k) \/ Unsubscribe(k)
      PROVE  FreshInv'
  <2>1. UNCHANGED <<handle, seen>>
    BY <1>4 DEF Subscribe, Unsubscribe, SetTopics
  <2> QED
    BY <1>1, <2>1
<1>5. ASSUME NEW k \in Apps, Read(k)
      PROVE  FreshInv'
  <2>1. PICK x : seen' = [seen EXCEPT ![k] = x]
    BY <1>5 DEF Read
  <2>2. UNCHANGED handle /\ handle[k] # Null
    BY <1>5 DEF Read, MayCall
  <2> QED
    BY <2>1, <2>2 DEF FreshInv, TypeOK
<1>6. CASE telemetry_cleanup
  BY <1>6 DEF telemetry_cleanup, FreshInv
<1>7. ASSUME NEW k \in Apps, AppStep(k)
      PROVE  FreshInv'
  <2>1. CASE ConnectOpen(k) \/ Accept(k) \/ AcceptFails(k) \/ AcceptTimeout(k) \/ AppendFind(k)
            \/ DisconnectClose(k) \/ DeleteFind(k)
    <3>1. UNCHANGED <<handle, seen>>
      BY <2>1 DEF ConnectOpen, Accept, AcceptFails, AcceptTimeout, GivesUp, AppendFind, DisconnectClose, DeleteFind
    <3> QED
      BY <1>1, <3>1
  <2>2. CASE DisconnectScan(k)
    <3>1. Disconnected(k) \/ UNCHANGED <<handle, seen>>
      BY <2>2 DEF DisconnectScan
    <3> QED
      BY <1>1, <1>2, <3>1
  <2>3. CASE DeleteUnlink(k)
    BY <1>2, <2>3 DEF DeleteUnlink
  <2> QED
    BY <1>3, <1>4, <1>5, <1>7, <2>1, <2>2, <2>3 DEF AppStep
<1>8. CASE Route \/ Publish \/ RxDequeue \/ RxSend \/ UNCHANGED vars
  <2>1. UNCHANGED <<handle, seen>>
    BY <1>8 DEF Route, Publish, RxDequeue, Dequeues, RxSend, vars, appVars
  <2> QED
    BY <1>1, <2>1
<1> QED
  BY <1>6, <1>7, <1>8 DEF Next, Finished

\* A connected app has its pair.
LEMMA ConnectedIs ==
  Inv => \A k \in Connected :
           /\ k \in Apps /\ handle[k] \in live /\ handle[k] # Null /\ task[k].at = "idle"
           /\ Paired(handle[k]) /\ item[handle[k]].client \in Slots /\ item[handle[k]].server \in Slots
           /\ IsEnd(item[handle[k]].client, "client") /\ conn[item[handle[k]].client].port \in Ports
<1> SUFFICES ASSUME Inv, NEW k \in Connected
             PROVE  /\ k \in Apps /\ handle[k] \in live /\ handle[k] # Null /\ task[k].at = "idle"
                    /\ Paired(handle[k]) /\ item[handle[k]].client \in Slots /\ item[handle[k]].server \in Slots
                    /\ IsEnd(item[handle[k]].client, "client") /\ conn[item[handle[k]].client].port \in Ports
  OBVIOUS
<1>1. k \in Apps /\ handle[k] # Null /\ ~Removing(k) /\ task[k].at = "idle"
  BY DEF Connected, Removing
<1>2. handle[k] \in live
  BY <1>1, RemovesLive
<1>3. ~Leaving(handle[k])
  BY <1>1 DEF Leaving, Inv, ListInv
<1>4. Paired(handle[k]) /\ item[handle[k]].client \in Slots /\ item[handle[k]].server \in Slots
  BY <1>2, <1>3 DEF Inv, PairsInv
<1>5. IsEnd(item[handle[k]].client, "client") /\ conn[item[handle[k]].client].port \in Ports
  BY <1>4 DEF Paired, IsEnd, Inv, ServersInv
<1> QED
  BY <1>1, <1>2, <1>4, <1>5

LEMMA ConnectedIsNext ==
  (Inv => \A k \in Connected :
            /\ k \in Apps /\ handle[k] \in live /\ handle[k] # Null /\ task[k].at = "idle"
            /\ Paired(handle[k]) /\ item[handle[k]].client \in Slots /\ item[handle[k]].server \in Slots
            /\ IsEnd(item[handle[k]].client, "client") /\ conn[item[handle[k]].client].port \in Ports)'
BY ConnectedIs, PTL

\* A step that sends no packet to a client, and moves none into its queue or out.
FlowKept ==
  /\ QueueInv'
  /\ \A x, p : Done(x, p) => Done(x, p)'
  /\ \E d \in 0..1 : \A p \in Ports : \A n \in To(p)' : n + d \in To(p) /\ net'[n] = net[n + d]
  /\ \A s \in Slots : IsEnd(s, "client")' =>
       IF IsEnd(s, "client") THEN conn'[s].rx = conn[s].rx /\ conn'[s].port = conn[s].port
                             ELSE conn'[s].rx = <<>>
  /\ \A k \in Connected' :
       \/ k \in Connected /\ item'[handle'[k]].client = item[handle[k]].client /\ seen'[k] = seen[k]
       \/ seen'[k] = 0

LEMMA FlowHolds ==
  ASSUME Inv, Inv', FlowInv, FlowKept
  PROVE  FlowInv'
<1>1. PICK d \in 0..1 : \A p \in Ports : \A n \in To(p)' : n + d \in To(p) /\ net'[n] = net[n + d]
  BY DEF FlowKept
<1>2. \A p : \A n \in To(p)' : n \in Nat
  <2>1. net' \in Seq(PacketType)
    BY DEF Inv, TypeOK
  <2>2. DOMAIN net' = 1..Len(net') /\ Len(net') \in Nat
    BY <2>1
  <2> QED
    BY <2>2 DEF To
<1>3. ASSUME NEW p \in Ports PROVE FlowTo(p)'
  <2>1. FlowTo(p)
    BY DEF FlowInv
  <2>2. \A n \in To(p)' : Done(net[n].pkt, p)'
    <3>1. \A n \in To(p)' : Done(net[n + d].pkt, p)
      BY <1>1, <2>1 DEF FlowTo
    <3>2. \A n \in To(p)' : net'[n].pkt = net[n + d].pkt
      BY <1>1
    <3>3. ASSUME NEW n \in To(p)' PROVE Done(net[n].pkt, p)'
      <4>1. PICK x : x = net[n + d].pkt
        OBVIOUS
      <4>2. Done(x, p)
        BY <3>1, <4>1
      <4>3. Done(x, p)'
        BY <4>2 DEF FlowKept
      <4>4. net'[n].pkt = x
        BY <3>2, <4>1
      <4> QED
        BY <4>3, <4>4 DEF Done
    <3> QED
      BY <3>3
  <2>3. ASSUME NEW m \in To(p)', NEW n \in To(p)', m < n
        PROVE  net'[m].pkt < net'[n].pkt
    <3>1. m + d \in To(p) /\ n + d \in To(p) /\ net'[m] = net[m + d] /\ net'[n] = net[n + d]
      BY <1>1
    <3>2. m + d < n + d
      BY <1>2, <2>3
    <3> QED
      BY <2>1, <3>1, <3>2 DEF FlowTo
  <2> QED
    BY <2>2, <2>3 DEF FlowTo
<1>4. ASSUME NEW s \in Slots, IsEnd(s, "client")' PROVE FlowIn(s)'
  <2>1. CASE ~IsEnd(s, "client")
    <3>1. conn'[s].rx = <<>>
      BY <1>4, <2>1 DEF FlowKept
    <3>2. DOMAIN conn'[s].rx = {}
      BY <3>1
    <3> QED
      BY <3>2 DEF FlowIn, Rises
  <2>2. CASE IsEnd(s, "client")
    <3>1. PICK q : q = conn[s].rx
      OBVIOUS
    <3>2. PICK p : p = conn[s].port
      OBVIOUS
    <3>3. conn'[s].rx = q /\ conn'[s].port = p
      BY <1>4, <2>2, <3>1, <3>2 DEF FlowKept
    <3>4. p \in Ports
      BY <2>2, <3>2 DEF Inv, ServersInv, IsEnd
    <3>5. /\ Rises(q)
          /\ \A m \in DOMAIN q : Done(q[m], p) /\ \A n \in To(p) : q[m] < net[n].pkt
      BY <2>2, <3>1, <3>2 DEF FlowInv, FlowIn
    <3>6. \A m \in DOMAIN q : Done(q[m], p)'
      BY <3>5 DEF FlowKept
    <3>7. \A m \in DOMAIN q : \A n \in To(p)' : q[m] < net'[n].pkt
      BY <1>1, <3>4, <3>5
    <3>8. To(conn[s].port)' = To(p)'
      BY <3>3 DEF To
    <3>9. \A m \in DOMAIN q : Done(conn[s].rx[m], conn[s].port)' <=> Done(q[m], p)'
      BY <3>3 DEF Done
    <3> QED
      BY <3>3, <3>5, <3>6, <3>7, <3>8, <3>9 DEF FlowIn, Rises
  <2> QED
    BY <2>1, <2>2
<1>5. ASSUME NEW k \in Connected' PROVE FlowSeen(k, item[handle[k]].client)'
  <2>1. PICK s : s = item'[handle'[k]].client
    OBVIOUS
  <2>2. s \in Slots /\ IsEnd(s, "client")' /\ conn'[s].port \in Ports
    BY <2>1, ConnectedIsNext
  <2>3. PICK p : p = conn'[s].port
    OBVIOUS
  <2>4. PICK q : q = conn'[s].rx
    OBVIOUS
  <2>5. To(conn[s].port)' = To(p)'
    BY <2>3 DEF To
  <2>6. CASE seen'[k] = 0
    <3>1. \A m \in DOMAIN q : q[m] \in 1..sent'
      BY <1>4, <2>2, <2>4 DEF FlowIn, Done
    <3>2. \A n \in To(p)' : net'[n].pkt \in 1..sent'
      BY <1>3, <2>2, <2>3 DEF FlowTo, Done
    <3>3. sent' \in Nat
      BY RTAssumption DEF Inv, TypeOK, MaxPackets, RTAssumption
    <3>4. \A m \in DOMAIN q : 0 < q[m]
      BY <3>1, <3>3
    <3>5. \A n \in To(p)' : 0 < net'[n].pkt
      BY <3>2, <3>3
    <3> QED
      BY <2>1, <2>3, <2>4, <2>5, <2>6, <3>4, <3>5 DEF FlowSeen
  <2>7. CASE seen'[k] # 0
    <3>1. PICK x : x = seen[k]
      OBVIOUS
    <3>2. k \in Connected /\ s = item[handle[k]].client /\ seen'[k] = x
      BY <2>1, <2>7, <3>1 DEF FlowKept
    <3>3. IsEnd(s, "client")
      BY <3>2, ConnectedIs
    <3>4. q = conn[s].rx /\ p = conn[s].port
      BY <2>2, <2>3, <2>4, <3>3 DEF FlowKept
    <3>5. Done(x, p) /\ (\A m \in DOMAIN q : x < q[m]) /\ \A n \in To(p) : x < net[n].pkt
      BY <2>7, <3>1, <3>2, <3>4 DEF FlowInv, FlowSeen
    <3>6. Done(x, p)'
      BY <3>5 DEF FlowKept
    <3>7. \A n \in To(p)' : x < net'[n].pkt
      BY <1>1, <2>2, <2>3, <3>5
    <3>8. Done(seen[k], conn[s].port)' <=> Done(x, p)'
      BY <2>3, <3>2 DEF Done
    <3>9. (s = item[handle[k]].client)'
      BY <2>1
    <3>10. FlowSeen(k, s)'
      BY <2>3, <2>4, <2>5, <3>2, <3>5, <3>6, <3>7, <3>8 DEF FlowSeen
    <3> QED
      BY <3>9, <3>10 DEF FlowSeen
  <2> QED
    BY <2>6, <2>7
<1> QED
  BY <1>3, <1>4, <1>5 DEF FlowKept, FlowInv

LEMMA DoneStays ==
  ASSUME QueueInv, UNCHANGED <<queue, sent>>,
         Sending' => Sending /\ rx'.pkt = rx.pkt /\ Visited \subseteq Visited'
  PROVE  QueueInv' /\ \A x, p : Done(x, p) => Done(x, p)'
<1>1. QueueInv'
  BY DEF QueueInv
<1>2. ASSUME NEW x, NEW p, Done(x, p) PROVE Done(x, p)'
  <2>1. x \in 1..sent /\ \A n \in DOMAIN queue : x < queue[n]
    BY <1>2 DEF Done
  <2>2. Sending' => x < rx'.pkt \/ (x = rx'.pkt /\ p \in Visited')
    BY <1>2 DEF Done
  <2> QED
    BY <2>1, <2>2 DEF Done
<1> QED
  BY <1>1, <1>2

LEMMA VisitedSame ==
  ASSUME Inv, head' = head, rx' = rx, \A i \in live : item'[i].next = item[i].next,
         \A i \in live : /\ item'[i].server = item[i].server
                         /\ conn'[item[i].server].port = conn[item[i].server].port
  PROVE  Visited' = Visited
<1>1. Listed' = Listed
  BY ListUnchanged DEF Inv
<1>2. \A n \in DOMAIN Listed : Listed[n] \in live
  BY DEF Inv, ListInv, ToSet
<1>3. PICK q : q = Listed
  OBVIOUS
<1>4. Visited = {conn[item[q[n]].server].port :
                   n \in {n \in DOMAIN q : rx.cur = Null \/ \E m \in DOMAIN q : n < m /\ q[m] = rx.cur}}
  BY <1>3 DEF Visited
<1>5. Visited' = {conn'[item'[q[n]].server].port :
                   n \in {n \in DOMAIN q : rx.cur = Null \/ \E m \in DOMAIN q : n < m /\ q[m] = rx.cur}}
  BY <1>1, <1>3 DEF Visited
<1>6. \A n \in DOMAIN q : conn'[item'[q[n]].server].port = conn[item[q[n]].server].port
  BY <1>2, <1>3
<1> QED
  BY <1>4, <1>5, <1>6

\* A step of the router, or of an app that calls but for telemetry_read.
LEMMA QuietFlow ==
  ASSUME Inv, FlowInv, UNCHANGED <<queue, sent, rx>>, Sending => Visited \subseteq Visited',
         \/ net' = net
         \/ net # <<>> /\ net' = Tail(net)
         \/ \E m : m \in PacketType /\ m.to = "server" /\ net' = Append(net, m),
         \A s \in Slots : IsEnd(s, "client")' =>
           IF IsEnd(s, "client") THEN conn'[s].rx = conn[s].rx /\ conn'[s].port = conn[s].port
                                 ELSE conn'[s].rx = <<>>,
         \A k \in Connected' : \/ /\ k \in Connected /\ handle'[k] = handle[k]
                                  /\ item'[handle[k]].client = item[handle[k]].client /\ seen'[k] = seen[k]
                               \/ seen'[k] = 0
  PROVE  FlowKept
<1>1. QueueInv' /\ \A x, p : Done(x, p) => Done(x, p)'
  <2>1. Sending' <=> Sending
    BY DEF Sending
  <2> QED
    BY <2>1, DoneStays DEF FlowInv
<1>2. net \in Seq(PacketType)
  BY DEF Inv, TypeOK
<1>3. \E d \in 0..1 : \A p \in Ports : \A n \in To(p)' : n + d \in To(p) /\ net'[n] = net[n + d]
  <2>1. CASE net' = net
    <3>1. \A p : \A n \in To(p)' : n \in To(p) /\ n \in Nat
      BY <1>2, <2>1 DEF To
    <3>2. \A p \in Ports : \A n \in To(p)' : n + 0 \in To(p) /\ net'[n] = net[n + 0]
      BY <2>1, <3>1
    <3> QED
      BY <3>2
  <2>2. CASE net # <<>> /\ net' = Tail(net)
    <3>1. PICK L \in Nat : L = Len(net)
      BY <1>2
    <3>2. /\ DOMAIN net = 1..L /\ DOMAIN net' = 1..L - 1
          /\ \A n \in 1..L - 1 : net'[n] = net[n + 1]
      BY <1>2, <2>2, <3>1, TailFacts, Zenon
    <3>3. \A p \in Ports : \A n \in To(p)' : n + 1 \in To(p) /\ net'[n] = net[n + 1]
      BY <3>1, <3>2 DEF To
    <3> QED
      BY <3>3
  <2>3. ASSUME NEW m, m \in PacketType, m.to = "server", net' = Append(net, m)
        PROVE  \E d \in 0..1 : \A p \in Ports : \A n \in To(p)' : n + d \in To(p) /\ net'[n] = net[n + d]
    <3>1. PICK P : P = PacketType
      OBVIOUS
    <3>2. net \in Seq(P)
      BY <1>2, <3>1
    <3>3. PICK L \in Nat : L = Len(net)
      BY <3>2
    <3>4. DOMAIN net = 1..L /\ DOMAIN net' = 1..L + 1 /\ net'[L + 1] = m /\ \A n \in 1..L : net'[n] = net[n]
      BY <2>3, <3>2, <3>3
    <3>5. ASSUME NEW p \in Ports, NEW n \in To(p)' PROVE n + 0 \in To(p) /\ net'[n] = net[n + 0]
      <4>1. n \in 1..L + 1 /\ net'[n].to = "client" /\ net'[n].port = p
        BY <3>4 DEF To
      <4>2. n # L + 1
        BY <2>3, <3>4, <4>1
      <4>3. n \in 1..L
        BY <3>3, <4>1, <4>2
      <4>4. n + 0 = n
        BY <4>3
      <4>5. net'[n] = net[n]
        BY <3>4, <4>3
      <4> QED
        BY <3>4, <4>1, <4>3, <4>4, <4>5 DEF To
    <3> QED
      BY <3>5
  <2> QED
    BY <2>1, <2>2, <2>3
<1> QED
  BY <1>1, <1>3 DEF FlowKept

\* An item's server's end is as it was when a slot that is no item's changes.
LEMMA OthersVisited ==
  ASSUME Inv, NEW s \in Slots, \A r \in Slots : r # s => conn'[r].port = conn[r].port,
         \A i \in live : ~EndOf(s, i) /\ item'[i].server = item[i].server /\ item'[i].next = item[i].next,
         head' = head, rx' = rx
  PROVE  Visited \subseteq Visited'
<1>1. \A i \in live : item[i].server \in Slots /\ item[i].server # s
  BY DEF EndOf, Inv, PairsInv
<1>2. Visited' = Visited
  BY <1>1, VisitedSame
<1> QED
  BY <1>2

LEMMA ConnectOpenFlow ==
  ASSUME Inv, FlowInv, Apart', NEW k \in Apps, ConnectOpen(k)
  PROVE  FlowKept
<1> USE DEF Inv
<1>1. /\ task[k].at = "idle" /\ handle[k] = Null /\ ~Disconnecting /\ FreePorts # {}
      /\ UNCHANGED <<accepts, head, live, item, handle, rx, queue, sent, seen>>
  BY DEF ConnectOpen, Apart, If, listVars, rxVars
<1>2. \A j \in Connected' : /\ j \in Connected /\ handle'[j] = handle[j]
                            /\ item'[handle[j]].client = item[handle[j]].client
  <2>1. task' = task \/ \E t : task' = [task EXCEPT ![k] = t]
    BY DEF ConnectOpen
  <2>2. \A j \in Apps : j # k => task'[j] = task[j]
    BY <2>1 DEF TypeOK
  <2> QED
    BY <1>1, <2>2 DEF Connected
<1>3. CASE UNCHANGED <<conn, net>>
  <2>1. Visited' = Visited
    BY <1>1, <1>3, VisitedSame
  <2>2. \A r \in Slots : IsEnd(r, "client")' => IsEnd(r, "client") /\ conn'[r].rx = conn[r].rx /\ conn'[r].port = conn[r].port
    BY <1>3 DEF IsEnd
  <2> QED
    BY <1>1, <1>2, <1>3, <2>1, <2>2, QuietFlow
<1>4. ASSUME NEW s \in Free, NEW p, p = NextPort, conn' = [conn EXCEPT ![s] = Opened("client", p, <<>>)],
             \/ net' = net
             \/ net' = Sent([to |-> "server", port |-> p, pkt |-> Hello])
      PROVE  FlowKept
  <2>1. s \in Slots /\ ~conn[s].open /\ \A i \in live : ~EndOf(s, i)
    BY <1>1, FreeIsNobodys
  <2>2. conn'[s].rx = <<>> /\ \A r \in Slots : r # s => conn'[r] = conn[r]
    <3>1. PICK c : c = Opened("client", p, <<>>)
      OBVIOUS
    <3>2. c.rx = <<>> /\ conn' = [conn EXCEPT ![s] = c]
      BY <1>4, <3>1 DEF Opened
    <3> QED
      BY <2>1, <3>2 DEF TypeOK
  <2>3. Visited \subseteq Visited'
    BY <1>1, <2>1, <2>2, OthersVisited
  <2>4. \A r \in Slots : IsEnd(r, "client")' =>
           IF IsEnd(r, "client") THEN conn'[r].rx = conn[r].rx /\ conn'[r].port = conn[r].port
                                 ELSE conn'[r].rx = <<>>
    BY <2>1, <2>2 DEF IsEnd
  <2>5. net' = net \/ \E m : m \in PacketType /\ m.to = "server" /\ net' = Append(net, m)
    <3>1. PICK m : m = [to |-> "server", port |-> p, pkt |-> Hello]
      OBVIOUS
    <3>2. p \in Ports /\ MaxPackets \in Nat
      BY <1>1, <1>4, NextPortFree, RTAssumption DEF MaxPackets, RTAssumption
    <3>3. m \in PacketType /\ m.to = "server"
      BY <3>1, <3>2 DEF PacketType, Hello
    <3>4. net' = net \/ net' = Append(net, m)
      BY <1>4, <3>1 DEF Sent
    <3> QED
      BY <3>3, <3>4
  <2> QED
    BY <1>1, <1>2, <2>3, <2>4, <2>5, QuietFlow
<1>5. \/ UNCHANGED <<conn, net>>
      \/ \E s \in Free :
           /\ conn' = [conn EXCEPT ![s] = Opened("client", NextPort, <<>>)]
           /\ net' = net \/ net' = Sent([to |-> "server", port |-> NextPort, pkt |-> Hello])
  BY DEF ConnectOpen
<1> QED
  BY <1>3, <1>4, <1>5

LEMMA AcceptFlow ==
  ASSUME Inv, FlowInv, NEW k \in Apps, Accept(k)
  PROVE  FlowKept
<1> USE DEF Inv
<1>1. PICK s : s = Head(accepts)
  OBVIOUS
<1>2. PICK i \in Items \ live :
        /\ live' = live \union {i}
        /\ item' = [item EXCEPT ![i] = [NoItem EXCEPT !.client = task[k].client, !.server = s]]
        /\ task' = [task EXCEPT ![k].at = "find", ![k].item = i]
  BY <1>1 DEF Accept
<1>3. /\ task[k].at = "accept" /\ accepts # <<>>
      /\ conn' = [conn EXCEPT ![s].rx = Tail(@)] /\ UNCHANGED <<net, head, handle, rx, queue, sent, seen>>
  BY <1>1 DEF Accept, rxVars
<1>4. IsEnd(s, "server") /\ s \in Slots
  BY <1>1, <1>3, AcceptsOwn DEF IsEnd
<1>5. \A r \in Slots : conn'[r].open = conn[r].open /\ conn'[r].end = conn[r].end /\ conn'[r].port = conn[r].port
  <2>1. PICK q : q = Tail(conn[s].rx)
    OBVIOUS
  <2>2. conn' = [conn EXCEPT ![s].rx = q]
    BY <1>3, <2>1
  <2> QED
    BY <1>4, <2>2, RxOnly
<1>6. \A r \in Slots : r # s => conn'[r] = conn[r]
  BY <1>3 DEF TypeOK
<1>7. \A j \in live : item'[j] = item[j]
  BY <1>2 DEF TypeOK
<1>8. Visited \subseteq Visited'
  <2>1. \A j \in live : item[j].server \in Slots
    BY DEF PairsInv
  <2>2. \A j \in live : /\ item'[j].server = item[j].server /\ item'[j].next = item[j].next
                        /\ conn'[item[j].server].port = conn[item[j].server].port
    BY <1>5, <1>7, <2>1
  <2>3. Visited' = Visited
    BY <1>3, <2>2, VisitedSame
  <2> QED
    BY <2>3
<1>9. \A r \in Slots : IsEnd(r, "client")' => IsEnd(r, "client") /\ conn'[r].rx = conn[r].rx /\ conn'[r].port = conn[r].port
  BY <1>4, <1>5, <1>6 DEF IsEnd
<1>10. \A j \in Connected' : /\ j \in Connected /\ handle'[j] = handle[j]
                             /\ item'[handle[j]].client = item[handle[j]].client
  <2>1. task'[k].at = "find" /\ \A j \in Apps : j # k => task'[j] = task[j]
    <3>1. PICK t : t = [task[k] EXCEPT !.at = "find", !.item = i]
      OBVIOUS
    <3>2. task' = [task EXCEPT ![k] = t] /\ task[k] \in TaskType
      BY <1>2, <3>1 DEF TypeOK
    <3>3. t.at = "find"
      BY <3>1, <3>2 DEF TaskType
    <3> QED
      BY <3>2, <3>3, OthersKept
  <2>2. \A j \in Connected' : j \in Connected /\ handle'[j] = handle[j]
    BY <1>3, <2>1 DEF Connected
  <2>3. \A j \in Connected : handle[j] \in live
    BY ConnectedIs
  <2> QED
    BY <1>7, <2>2, <2>3
<1> QED
  BY <1>3, <1>8, <1>9, <1>10, QuietFlow

LEMMA AcceptFailsFlow ==
  ASSUME Inv, FlowInv, NEW k \in Apps, AcceptFails(k)
  PROVE  FlowKept
<1> USE DEF Inv
<1>1. PICK s : s = Head(accepts)
  OBVIOUS
<1>2. PICK q : q = Tail(conn[s].rx)
  OBVIOUS
<1>3. /\ task[k].at = "accept" /\ accepts # <<>>
      /\ conn' = conn \/ conn' = [conn EXCEPT ![s].rx = q]
      /\ UNCHANGED <<net, live, item, head, handle, rx, queue, sent, seen>>
      /\ \E t : task' = [task EXCEPT ![k] = t]
  BY <1>1, <1>2 DEF AcceptFails, listVars, rxVars
<1>4. IsEnd(s, "server") /\ s \in Slots
  BY <1>1, <1>3, AcceptsOwn DEF IsEnd
<1>5. \A r \in Slots : conn'[r].open = conn[r].open /\ conn'[r].end = conn[r].end /\ conn'[r].port = conn[r].port
  BY <1>3, <1>4, RxOnly
<1>6. \A r \in Slots : r # s => conn'[r] = conn[r]
  BY <1>3 DEF TypeOK
<1>7. Visited' = Visited
  <2>1. \A j \in live : item[j].server \in Slots
    BY DEF PairsInv
  <2> QED
    BY <1>3, <1>5, <2>1, VisitedSame
<1>8. \A r \in Slots : IsEnd(r, "client")' => IsEnd(r, "client") /\ conn'[r].rx = conn[r].rx /\ conn'[r].port = conn[r].port
  BY <1>4, <1>5, <1>6 DEF IsEnd
<1>9. handle[k] = Null
  BY <1>3 DEF ListInv, PlaceOK
<1>10. \A j \in Connected' : j \in Connected /\ handle'[j] = handle[j]
  BY <1>3, <1>9, OthersKept DEF Connected
<1> QED
  BY <1>3, <1>7, <1>8, <1>10, QuietFlow

LEMMA AcceptTimeoutFlow ==
  ASSUME Inv, FlowInv, NEW k \in Apps, AcceptTimeout(k)
  PROVE  FlowKept
<1> USE DEF Inv
<1>1. PICK c : c = task[k].client
  OBVIOUS
<1>2. /\ task[k].at = "accept" /\ conn' = Shut({c}) /\ task' = [task EXCEPT ![k] = IdleTask]
      /\ UNCHANGED <<net, head, live, item, handle, rx, queue, sent, seen>>
  BY <1>1 DEF AcceptTimeout, GivesUp, listVars, rxVars
<1>3. c \in Slots /\ \A i \in live : ~EndOf(c, i)
  BY <1>1, <1>2 DEF ClientsInv, Loose, OfNoItem, IsEnd
<1>4. (\A r \in Slots : r # c => conn'[r] = conn[r]) /\ \A r, e : IsEnd(r, e)' <=> (r # c /\ IsEnd(r, e))
  BY <1>2, <1>3, ShutIs
<1>5. Visited \subseteq Visited'
  BY <1>2, <1>3, <1>4, OthersVisited
<1>6. \A r \in Slots : IsEnd(r, "client")' => IsEnd(r, "client") /\ conn'[r].rx = conn[r].rx /\ conn'[r].port = conn[r].port
  BY <1>4
<1>7. handle[k] = Null
  BY <1>2 DEF ListInv, PlaceOK
<1>8. \A j \in Connected' : j \in Connected /\ handle'[j] = handle[j]
  BY <1>2, <1>7, OthersKept DEF Connected
<1> QED
  BY <1>2, <1>5, <1>6, <1>8, QuietFlow

\* A step of a call in which no connection changes.
LEMMA TaskFlow ==
  ASSUME Inv, FlowInv, NEW k \in Apps, NEW t, task' = [task EXCEPT ![k] = t], t.at # "idle",
         UNCHANGED <<conn, net, head, item, live, handle, queue, sent, rx, seen>>
  PROVE  FlowKept
<1>1. Visited' = Visited
  BY VisitedSame
<1>2. \A r \in Slots : IsEnd(r, "client")' => IsEnd(r, "client") /\ conn'[r].rx = conn[r].rx /\ conn'[r].port = conn[r].port
  BY DEF IsEnd
<1>3. \A j \in Connected' : j \in Connected /\ handle'[j] = handle[j]
  BY OthersKept DEF Connected, Inv
<1> QED
  BY <1>1, <1>2, <1>3, QuietFlow

LEMMA AppendFindFlow ==
  ASSUME Inv, FlowInv, NEW k \in Apps, AppendFind(k)
  PROVE  FlowKept
<1>1. PICK c : task' = [task EXCEPT ![k].at = "link", ![k].cur = c]
  BY DEF AppendFind
<1>2. UNCHANGED <<conn, net, head, item, live, handle, queue, sent, rx, seen>>
  BY DEF AppendFind, listVars, cspVars, rxVars
<1>3. PICK t : t = [task[k] EXCEPT !.at = "link", !.cur = c]
  OBVIOUS
<1>4. task' = [task EXCEPT ![k] = t] /\ task[k] \in TaskType
  BY <1>1, <1>3 DEF Inv, TypeOK
<1>5. t.at = "link"
  BY <1>3, <1>4 DEF TaskType
<1> QED
  BY <1>2, <1>4, <1>5, TaskFlow

LEMMA DeleteFindFlow ==
  ASSUME Inv, FlowInv, NEW k \in Apps, DeleteFind(k)
  PROVE  FlowKept
<1>1. PICK p : task' = [task EXCEPT ![k].at = "unlink", ![k].item = p]
  BY DEF DeleteFind
<1>2. UNCHANGED <<conn, net, head, item, live, handle, queue, sent, rx, seen>>
  BY DEF DeleteFind, listVars, cspVars, rxVars
<1>3. PICK t : t = [task[k] EXCEPT !.at = "unlink", !.item = p]
  OBVIOUS
<1>4. task' = [task EXCEPT ![k] = t] /\ task[k] \in TaskType
  BY <1>1, <1>3 DEF Inv, TypeOK
<1>5. t.at = "unlink"
  BY <1>3, <1>4 DEF TaskType
<1> QED
  BY <1>2, <1>4, <1>5, TaskFlow

LEMMA AppendLinkFlow ==
  ASSUME Inv, FlowInv, FreshInv, NEW k \in Apps, AppendLink(k)
  PROVE  FlowKept
<1> USE DEF Inv
<1>1. PICK i : i = task[k].item
  OBVIOUS
<1>2. PICK c : c = task[k].cur
  OBVIOUS
<1>3. /\ UNCHANGED <<conn, net, live, queue, sent, rx, seen>> /\ task[k].at = "link"
      /\ handle' = [handle EXCEPT ![k] = i] /\ task' = [task EXCEPT ![k] = IdleTask]
      /\ item' = item \/ item' = [item EXCEPT ![c].next = i]
  BY <1>1, <1>2 DEF AppendLink, cspVars, rxVars
<1>4. handle[k] = Null /\ Listed' = Append(Listed, i) /\ i \in live
  BY <1>1, AppendLinkAppends
<1>5. \A j \in Items : item'[j].client = item[j].client /\ item'[j].server = item[j].server
  <2>1. item \in [Items -> ItemType]
    BY DEF TypeOK
  <2> QED
    BY <1>3, <2>1 DEF ItemType
<1>6. Visited \subseteq Visited'
  <2>1. IsChain(Listed) /\ i \in Items
    BY <1>4 DEF ListInv, TypeOK
  <2>2. Listed \in Seq(Items) /\ \A n \in DOMAIN Listed : Listed[n] \in Items
    BY <2>1, ListFacts
  <2>3. PICK q : q = Listed
    OBVIOUS
  <2>4. PICK r : r = Append(q, i)
    OBVIOUS
  <2>5. DOMAIN q \subseteq DOMAIN r /\ \A n \in DOMAIN q : r[n] = q[n]
    BY <2>1, <2>2, <2>3, <2>4
  <2>6. Listed' = r
    BY <1>4, <2>3, <2>4
  <2>7. Visited = {conn[item[q[n]].server].port :
                     n \in {n \in DOMAIN q : rx.cur = Null \/ \E m \in DOMAIN q : n < m /\ q[m] = rx.cur}}
    BY <2>3 DEF Visited
  <2>8. Visited' = {conn[item'[r[n]].server].port :
                     n \in {n \in DOMAIN r : rx.cur = Null \/ \E m \in DOMAIN r : n < m /\ r[m] = rx.cur}}
    BY <1>3, <2>6 DEF Visited
  <2>9. ASSUME NEW n \in DOMAIN q, rx.cur = Null \/ \E m \in DOMAIN q : n < m /\ q[m] = rx.cur
        PROVE  /\ n \in DOMAIN r /\ (rx.cur = Null \/ \E m \in DOMAIN r : n < m /\ r[m] = rx.cur)
               /\ conn[item'[r[n]].server].port = conn[item[q[n]].server].port
    BY <1>5, <2>2, <2>3, <2>5, <2>9
  <2> QED
    BY <2>7, <2>8, <2>9
<1>7. \A r \in Slots : IsEnd(r, "client")' => IsEnd(r, "client") /\ conn'[r].rx = conn[r].rx /\ conn'[r].port = conn[r].port
  BY <1>3 DEF IsEnd
<1>8. \A j \in Connected' : \/ /\ j \in Connected /\ handle'[j] = handle[j]
                               /\ item'[handle[j]].client = item[handle[j]].client
                            \/ seen[j] = 0
  <2>1. seen[k] = 0
    BY <1>4 DEF FreshInv
  <2>2. \A j \in Connected' : j # k => j \in Connected /\ handle'[j] = handle[j]
    BY <1>3, OthersKept DEF Connected, TypeOK
  <2>3. \A j \in Connected : handle[j] \in Items
    BY ConnectedIs DEF TypeOK
  <2> QED
    BY <1>5, <2>1, <2>2, <2>3
<1> QED
  BY <1>3, <1>6, <1>7, <1>8, QuietFlow

\* A step of a disconnect: nothing is being sent.
LEMMA RemovalFlow ==
  ASSUME Inv, FlowInv, ~Sending, NEW k \in Apps, NEW t, task' = [task EXCEPT ![k] = t],
         t.at # "idle" \/ handle'[k] = Null,
         \A j \in Apps : j # k => handle'[j] = handle[j] /\ seen'[j] = seen[j],
         \A i \in live : i # handle[k] => item'[i].client = item[i].client,
         UNCHANGED <<net, queue, sent, rx>>,
         \/ conn' = conn
         \/ \E s \in Slots : conn' = Shut({s})
  PROVE  FlowKept
<1>1. \A r \in Slots : IsEnd(r, "client")' => IsEnd(r, "client") /\ conn'[r].rx = conn[r].rx /\ conn'[r].port = conn[r].port
  <2>1. CASE conn' = conn
    BY <2>1 DEF IsEnd
  <2>2. ASSUME NEW s \in Slots, conn' = Shut({s})
        PROVE  \A r \in Slots : IsEnd(r, "client")' => IsEnd(r, "client") /\ conn'[r].rx = conn[r].rx /\ conn'[r].port = conn[r].port
    BY <2>2, ShutIs
  <2> QED
    BY <2>1, <2>2
<1>2. \A j \in Connected' : /\ j \in Connected /\ handle'[j] = handle[j]
                            /\ item'[handle[j]].client = item[handle[j]].client /\ seen'[j] = seen[j]
  <2>1. task'[k] = t /\ \A j \in Apps : j # k => task'[j] = task[j]
    BY OthersKept DEF Inv
  <2>2. \A j \in Connected' : j # k /\ j \in Connected /\ handle'[j] = handle[j] /\ seen'[j] = seen[j]
    BY <2>1 DEF Connected
  <2>3. \A j \in Connected : handle[j] \in live /\ handle[j] # Null
    BY ConnectedIs
  <2>4. \A j \in Connected : j # k => handle[j] # handle[k]
    BY <2>3 DEF Inv, ListInv, Connected
  <2> QED
    BY <2>2, <2>3, <2>4
<1> QED
  BY <1>1, <1>2, QuietFlow

LEMMA DisconnectCloseFlow ==
  ASSUME Inv, FlowInv, strayed' = {}, NEW k \in Apps, DisconnectClose(k)
  PROVE  FlowKept
<1> USE DEF Inv
<1>1. /\ handle[k] # Null /\ ~Sending /\ conn' = Shut({item[handle[k]].client})
      /\ task' = [task EXCEPT ![k].at = "scan", ![k].cur = head]
      /\ UNCHANGED <<net, item, handle, queue, sent, rx, seen>>
  BY DEF DisconnectClose, If, listVars, rxVars
<1>2. item[handle[k]].client \in Slots
  BY <1>1, RemovesLive DEF PairsInv
<1>3. PICK s \in Slots : s = item[handle[k]].client
  BY <1>2
<1>4. PICK t : t = [task[k] EXCEPT !.at = "scan", !.cur = head]
  OBVIOUS
<1>5. task' = [task EXCEPT ![k] = t] /\ task[k] \in TaskType
  BY <1>1, <1>4 DEF TypeOK
<1>6. t.at = "scan"
  BY <1>4, <1>5 DEF TaskType
<1>7. conn' = Shut({s})
  BY <1>1, <1>3
<1> QED
  BY <1>1, <1>5, <1>6, <1>7, RemovalFlow

LEMMA DisconnectScanFlow ==
  ASSUME Inv, SendInv, FlowInv, NEW k \in Apps, DisconnectScan(k)
  PROVE  FlowKept
<1> USE DEF Inv
<1>1. PICK i : i = task[k].cur
  OBVIOUS
<1>2. task[k].at = "scan" /\ Removing(k) /\ UNCHANGED <<net, item, queue, sent, rx>>
  BY DEF DisconnectScan, listVars, rxVars, Removing
<1>3. i # Null /\ i \in Items /\ ~Sending
  BY <1>1, <1>2, ScanAt DEF SendInv, Disconnecting
<1>4. /\ UNCHANGED <<handle, seen>>
      /\ \/ task' = [task EXCEPT ![k].cur = item[i].next] /\ conn' = conn
         \/ task' = [task EXCEPT ![k].at = "pred"] /\ conn' = Shut({item[i].server}) /\ ~Alive(item[i].server)
  BY <1>1, <1>3 DEF DisconnectScan
<1>5. conn' = conn \/ \E s \in Slots : conn' = Shut({s})
  <2>1. CASE ~Alive(item[i].server)
    <3>1. i = handle[k] /\ handle[k] # Null
      BY <1>1, <1>2, <1>3, <2>1, ScanFinds
    <3>2. item[i].server \in Slots
      BY <3>1, RemovesLive DEF PairsInv
    <3> QED
      BY <1>4, <3>2
  <2> QED
    BY <1>4, <2>1
<1>6. PICK t : t.at # "idle" /\ task' = [task EXCEPT ![k] = t]
  <2>1. CASE task' = [task EXCEPT ![k].cur = item[i].next]
    <3>1. PICK t : t = [task[k] EXCEPT !.cur = item[i].next]
      OBVIOUS
    <3>2. task' = [task EXCEPT ![k] = t] /\ task[k] \in TaskType
      BY <2>1, <3>1 DEF TypeOK
    <3>3. t.at = "scan"
      BY <1>2, <3>1, <3>2 DEF TaskType
    <3> QED
      BY <3>2, <3>3
  <2>2. CASE task' = [task EXCEPT ![k].at = "pred"]
    <3>1. PICK t : t = [task[k] EXCEPT !.at = "pred"]
      OBVIOUS
    <3>2. task' = [task EXCEPT ![k] = t] /\ task[k] \in TaskType
      BY <2>2, <3>1 DEF TypeOK
    <3>3. t.at = "pred"
      BY <3>1, <3>2 DEF TaskType
    <3> QED
      BY <3>2, <3>3
  <2> QED
    BY <1>4, <2>1, <2>2
<1> QED
  BY <1>2, <1>3, <1>4, <1>5, <1>6, RemovalFlow

LEMMA DeleteUnlinkFlow ==
  ASSUME Inv, SendInv, FlowInv, NEW k \in Apps, DeleteUnlink(k)
  PROVE  FlowKept
<1> USE DEF Inv
<1>1. PICK i : i = task[k].cur
  OBVIOUS
<1>2. PICK p : p = task[k].item
  OBVIOUS
<1>3. /\ task[k].at = "unlink" /\ task' = [task EXCEPT ![k] = IdleTask] /\ item' = Unlinked(i, p)
      /\ handle' = [handle EXCEPT ![k] = Null] /\ seen' = [seen EXCEPT ![k] = 0]
      /\ UNCHANGED <<conn, net, queue, sent, rx>>
  BY <1>1, <1>2 DEF DeleteUnlink, Disconnected, cspVars, rxVars
<1>4. Removing(k) /\ ~Sending
  BY <1>3 DEF Removing, Disconnecting, SendInv
<1>5. i = handle[k]
  BY <1>1, <1>3, <1>4, ScanAt
<1>6. \A j \in live : j # handle[k] => item'[j].client = item[j].client
  <2>1. live \subseteq Items /\ \A j \in Items : item[j] \in ItemType
    BY DEF TypeOK
  <2> QED
    BY <1>3, <1>5, <2>1 DEF Unlinked, ItemType
<1>7. handle'[k] = Null /\ \A j \in Apps : j # k => handle'[j] = handle[j] /\ seen'[j] = seen[j]
  BY <1>3 DEF TypeOK
<1> QED
  BY <1>3, <1>4, <1>6, <1>7, RemovalFlow

LEMMA SetTopicsFlow ==
  ASSUME Inv, FlowInv, NEW k \in Apps, NEW c \in Items, NEW q, SetTopics(k, c, q)
  PROVE  FlowKept
<1>1. PICK e : e = [item[c] EXCEPT !.topics = q]
  OBVIOUS
<1>2. /\ item' = [item EXCEPT ![c] = e]
      /\ UNCHANGED <<conn, net, head, task, handle, seen, queue, sent, rx>>
  BY <1>1 DEF SetTopics, cspVars, rxVars
<1>3. /\ live \subseteq Items /\ item \in [Items -> ItemType]
      /\ e.client = item[c].client /\ e.server = item[c].server /\ e.next = item[c].next
  BY <1>1 DEF Inv, TypeOK, ItemType
<1>4. \A i \in live : /\ item'[i].client = item[i].client /\ item'[i].server = item[i].server
                      /\ item'[i].next = item[i].next
  BY <1>2, <1>3
<1>5. Visited' = Visited
  BY <1>2, <1>4, VisitedSame
<1>6. \A s \in Slots : IsEnd(s, "client")' => IsEnd(s, "client") /\ conn'[s].rx = conn[s].rx /\ conn'[s].port = conn[s].port
  BY <1>2 DEF IsEnd
<1>7. \A j \in Connected' : /\ j \in Connected /\ handle'[j] = handle[j]
                            /\ item'[handle[j]].client = item[handle[j]].client /\ seen'[j] = seen[j]
  BY <1>2, <1>4, ConnectedIs DEF Connected
<1> QED
  BY <1>2, <1>5, <1>6, <1>7, QuietFlow

\* Nothing is sent any more, and nobody is connected.
LEMMA CleanupFlow ==
  ASSUME Inv, FlowInv, telemetry_cleanup
  PROVE  FlowKept
<1>1. PICK S : S = UNION {{item[i].client, item[i].server} : i \in ToSet(Listed)}
  OBVIOUS
<1>2. /\ conn' = Shut(S) /\ rx' = RxIdle /\ handle' = [k \in Apps |-> Null]
      /\ UNCHANGED <<net, queue, sent>>
  BY <1>1 DEF telemetry_cleanup
<1>3. ~Sending'
  BY <1>2 DEF Sending, RxIdle
<1>4. QueueInv' /\ \A x, p : Done(x, p) => Done(x, p)'
  BY <1>2, <1>3, DoneStays DEF FlowInv
<1>5. \A r \in Slots : IF r \in S THEN ~conn'[r].open ELSE conn'[r] = conn[r]
  BY <1>2 DEF Shut, Closed
<1>6. \A r \in Slots : IsEnd(r, "client")' => IsEnd(r, "client") /\ conn'[r].rx = conn[r].rx /\ conn'[r].port = conn[r].port
  BY <1>5 DEF IsEnd
<1>7. Connected' = {}
  BY <1>2 DEF Connected
<1>8. \A p \in Ports : \A n \in To(p)' : n + 0 \in To(p) /\ net'[n] = net[n + 0]
  <2>1. net \in Seq(PacketType)
    BY DEF Inv, TypeOK
  <2>2. DOMAIN net = 1..Len(net) /\ Len(net) \in Nat
    BY <2>1
  <2>3. \A p : \A n \in To(p)' : n \in To(p) /\ n \in Nat
    BY <1>2, <2>2 DEF To
  <2> QED
    BY <1>2, <2>3
<1> QED
  BY <1>4, <1>6, <1>7, <1>8 DEF FlowKept

\* The router moves no packet into a client's queue.
LEMMA RouteQuiet ==
  ASSUME Inv, FlowInv, net # <<>>, net' = Tail(net),
         UNCHANGED <<head, item, live, task, handle, seen, queue, sent, rx>>,
         Sending => Visited \subseteq Visited',
         \A s \in Slots : IsEnd(s, "client")' =>
           IsEnd(s, "client") /\ conn'[s].rx = conn[s].rx /\ conn'[s].port = conn[s].port
  PROVE  FlowKept
<1>1. \A j \in Connected' : /\ j \in Connected /\ handle'[j] = handle[j]
                            /\ item'[handle[j]].client = item[handle[j]].client /\ seen'[j] = seen[j]
  BY DEF Connected
<1> QED
  BY <1>1, QuietFlow

LEMMA RouteNewFlow ==
  ASSUME Inv, FlowInv, Route, RouteNew(Head(net)) \/ RouteLost(Head(net))
  PROVE  FlowKept
<1> USE DEF Inv
<1>1. PICK m : m = Head(net)
  OBVIOUS
<1>2. /\ net # <<>> /\ net' = Tail(net)
      /\ UNCHANGED <<head, item, live, task, handle, seen, queue, sent, rx>>
  BY DEF Route, listVars, appVars, rxVars
<1>3. CASE conn' = conn
  <2>1. Visited' = Visited
    BY <1>2, <1>3, VisitedSame
  <2>2. \A s \in Slots : IsEnd(s, "client")' => IsEnd(s, "client") /\ conn'[s].rx = conn[s].rx /\ conn'[s].port = conn[s].port
    BY <1>3 DEF IsEnd
  <2> QED
    BY <1>2, <2>1, <2>2, RouteQuiet
<1>4. ASSUME m.to = "server", NEW s \in Free, conn' = [conn EXCEPT ![s] = Opened("server", m.port, <<m.pkt>>)]
      PROVE  FlowKept
  <2>1. net[1] = m /\ 1 \in DOMAIN net
    <3>1. net \in Seq(PacketType)
      BY DEF TypeOK
    <3>2. Head(net) = net[1] /\ DOMAIN net = 1..Len(net) /\ Len(net) \in Nat /\ Len(net) # 0
      BY <1>2, <3>1, TailFacts
    <3> QED
      BY <1>1, <3>2
  <2>2. Awaited(m.port)
    BY <1>4, <2>1 DEF HelloInv
  <2>3. ~Disconnecting
    BY <2>2 DEF Awaited, ListInv, Connecting
  <2>4. s \in Slots /\ \A i \in live : ~EndOf(s, i)
    BY <2>3, FreeIsNobodys
  <2>5. conn'[s].end = "server" /\ \A r \in Slots : r # s => conn'[r] = conn[r]
    <3>1. PICK c : c = Opened("server", m.port, <<m.pkt>>)
      OBVIOUS
    <3>2. c.end = "server" /\ conn' = [conn EXCEPT ![s] = c]
      BY <1>4, <3>1 DEF Opened
    <3> QED
      BY <2>4, <3>2 DEF TypeOK
  <2>6. Visited \subseteq Visited'
    BY <1>2, <2>4, <2>5, OthersVisited
  <2>7. \A r \in Slots : IsEnd(r, "client")' => IsEnd(r, "client") /\ conn'[r].rx = conn[r].rx /\ conn'[r].port = conn[r].port
    BY <2>5 DEF IsEnd
  <2> QED
    BY <1>2, <2>6, <2>7, RouteQuiet
<1> QED
  BY <1>1, <1>3, <1>4 DEF RouteNew, RouteLost

LEMMA PublishFlow ==
  ASSUME Inv, FlowInv, Publish \/ RxDequeue
  PROVE  FlowKept
<1> USE DEF Inv
<1>1. UNCHANGED <<conn, net, head, item, live, task, handle, seen>>
  BY DEF Publish, RxDequeue, Dequeues, cspVars, listVars, appVars
<1>2. queue \in Seq(1..MaxPackets) /\ sent \in Nat /\ rx \in RxType
  BY RTAssumption DEF TypeOK, MaxPackets, RTAssumption
<1>3. QueueInv
  BY DEF FlowInv
<1>4. PICK L \in Nat : L = Len(queue) /\ DOMAIN queue = 1..L
  BY <1>2
<1>5. QueueInv' /\ \A x, p : Done(x, p) => Done(x, p)'
  <2>1. CASE Publish
    <3>1. sent' = sent + 1 /\ queue' = Append(queue, sent + 1) /\ rx' = rx
      BY <2>1 DEF Publish
    <3>2. PICK q : q = Append(queue, sent + 1)
      OBVIOUS
    <3>3. DOMAIN q = 1..L + 1 /\ q[L + 1] = sent + 1 /\ \A n \in 1..L : q[n] = queue[n]
      BY <1>2, <1>4, <3>2
    <3>4. \A n \in 1..L + 1 : n = L + 1 \/ n \in 1..L
      BY <1>4
    <3>5. \A n \in 1..L : queue[n] \in 1..sent /\ queue[n] < sent + 1
      BY <1>2, <1>3, <1>4 DEF QueueInv
    <3>6. \A n \in DOMAIN q : q[n] \in 1..sent + 1
      BY <1>2, <3>3, <3>4, <3>5
    <3>7. ASSUME NEW m \in DOMAIN q, NEW n \in DOMAIN q, m < n PROVE q[m] < q[n]
      <4>1. m \in 1..L
        BY <1>4, <3>3, <3>7
      <4>2. CASE n = L + 1
        BY <3>3, <3>5, <4>1, <4>2
      <4>3. CASE n \in 1..L
        BY <1>3, <1>4, <3>3, <3>7, <4>1, <4>3 DEF QueueInv, Rises
      <4> QED
        BY <3>3, <3>4, <4>2, <4>3
    <3>8. Sending => rx.pkt \in 1..sent + 1 /\ \A n \in DOMAIN q : rx.pkt < q[n]
      <4>1. Sending => rx.pkt \in 1..sent /\ \A n \in 1..L : rx.pkt < queue[n]
        BY <1>3, <1>4 DEF QueueInv
      <4>2. Sending => rx.pkt \in 1..sent + 1 /\ rx.pkt < sent + 1
        BY <1>2, <4>1
      <4> QED
        BY <3>3, <3>4, <4>1, <4>2
    <3>9. QueueInv'
      BY <3>1, <3>2, <3>6, <3>7, <3>8 DEF QueueInv, Rises, Sending
    <3>10. ASSUME NEW x, NEW p, Done(x, p) PROVE Done(x, p)'
      <4>1. x \in 1..sent /\ \A n \in 1..L : x < queue[n]
        BY <1>4, <3>10 DEF Done
      <4>2. x \in 1..sent + 1 /\ x < sent + 1
        BY <1>2, <4>1
      <4>3. \A n \in DOMAIN q : x < q[n]
        BY <3>3, <3>4, <4>1, <4>2
      <4>4. Visited' = Visited
        BY <1>1, <3>1, VisitedSame
      <4>5. Sending' => x < rx'.pkt \/ (x = rx'.pkt /\ p \in Visited')
        BY <3>1, <3>10, <4>4 DEF Done, Sending
      <4> QED
        BY <3>1, <3>2, <4>2, <4>3, <4>5 DEF Done
    <3> QED
      BY <3>9, <3>10
  <2>2. CASE RxDequeue
    <3>1. queue # <<>> /\ queue' = Tail(queue) /\ rx' = [at |-> "send", pkt |-> Head(queue), cur |-> head] /\ sent' = sent
      BY <2>2 DEF RxDequeue, Dequeues
    <3>2. /\ DOMAIN queue' = 1..L - 1 /\ Head(queue) = queue[1] /\ L # 0
          /\ \A n \in 1..L - 1 : queue'[n] = queue[n + 1]
      BY <1>2, <1>4, <3>1, TailFacts, Zenon
    <3>3. 1 \in 1..L /\ \A n \in 1..L - 1 : n + 1 \in 1..L /\ 1 < n + 1
      BY <1>4, <3>2
    <3>4. rx'.pkt = queue[1] /\ rx'.at = "send"
      BY <3>1, <3>2
    <3>5. rx'.pkt \in 1..sent /\ \A n \in DOMAIN queue' : rx'.pkt < queue'[n]
      BY <1>3, <1>4, <3>2, <3>3, <3>4 DEF QueueInv, Rises
    <3>6. \A n \in DOMAIN queue' : queue'[n] \in 1..sent
      BY <1>3, <1>4, <3>2, <3>3 DEF QueueInv
    <3>7. ASSUME NEW m \in DOMAIN queue', NEW n \in DOMAIN queue', m < n PROVE queue'[m] < queue'[n]
      <4>1. m + 1 < n + 1
        BY <3>2, <3>7
      <4> QED
        BY <1>3, <1>4, <3>2, <3>3, <4>1 DEF QueueInv, Rises
    <3>8. QueueInv'
      BY <3>1, <3>5, <3>6, <3>7 DEF QueueInv, Rises
    <3>9. ASSUME NEW x, NEW p, Done(x, p) PROVE Done(x, p)'
      <4>1. x \in 1..sent /\ \A n \in 1..L : x < queue[n]
        BY <1>4, <3>9 DEF Done
      <4>2. x < rx'.pkt /\ \A n \in DOMAIN queue' : x < queue'[n]
        BY <3>2, <3>3, <3>4, <4>1
      <4> QED
        BY <3>1, <4>1, <4>2 DEF Done
    <3> QED
      BY <3>8, <3>9
  <2> QED
    BY <2>1, <2>2
<1>6. \A r \in Slots : IsEnd(r, "client")' => IsEnd(r, "client") /\ conn'[r].rx = conn[r].rx /\ conn'[r].port = conn[r].port
  BY <1>1 DEF IsEnd
<1>7. \A j \in Connected' : j \in Connected /\ item'[handle'[j]].client = item[handle[j]].client /\ seen'[j] = seen[j]
  BY <1>1 DEF Connected
<1>8. \A p \in Ports : \A n \in To(p)' : n + 0 \in To(p) /\ net'[n] = net[n + 0]
  <2>1. net \in Seq(PacketType)
    BY DEF TypeOK
  <2>2. DOMAIN net = 1..Len(net) /\ Len(net) \in Nat
    BY <2>1
  <2>3. \A p : \A n \in To(p)' : n \in To(p) /\ n \in Nat
    BY <1>1, <2>2 DEF To
  <2> QED
    BY <1>1, <2>3
<1> QED
  BY <1>5, <1>6, <1>7, <1>8 DEF FlowKept

\* What is on its way, with d packets gone from the head of the router's queue.
LEMMA FlowToNext ==
  ASSUME net' \in Seq(PacketType), FlowInv, \A x, p : Done(x, p) => Done(x, p)', NEW d \in 0..1,
         NEW p \in Ports, \A n \in To(p)' : n + d \in To(p) /\ net'[n] = net[n + d]
  PROVE  FlowTo(p)'
<1>1. \A n \in To(p)' : n \in Nat
  <2>1. DOMAIN net' = 1..Len(net') /\ Len(net') \in Nat
    OBVIOUS
  <2> QED
    BY <2>1 DEF To
<1>2. FlowTo(p)
  BY DEF FlowInv
<1>3. ASSUME NEW n \in To(p)' PROVE Done(net[n].pkt, p)'
  <2>1. PICK x : x = net[n + d].pkt
    OBVIOUS
  <2>2. Done(x, p)' /\ net'[n].pkt = x
    BY <1>2, <2>1 DEF FlowTo
  <2> QED
    BY <2>2 DEF Done
<1>4. ASSUME NEW m \in To(p)', NEW n \in To(p)', m < n
      PROVE  net'[m].pkt < net'[n].pkt
  <2>1. m + d < n + d
    BY <1>1, <1>4
  <2> QED
    BY <1>2, <2>1 DEF FlowTo
<1> QED
  BY <1>3, <1>4 DEF FlowTo

LEMMA FlowInNext ==
  ASSUME Inv, FlowInv, \A x, p : Done(x, p) => Done(x, p)', NEW d \in 0..1, NEW s \in Slots,
         \A p \in Ports : \A n \in To(p)' : n + d \in To(p) /\ net'[n] = net[n + d],
         IsEnd(s, "client"), conn'[s].rx = conn[s].rx, conn'[s].port = conn[s].port
  PROVE  FlowIn(s)'
<1>1. PICK q : q = conn[s].rx
  OBVIOUS
<1>2. PICK p : p = conn[s].port
  OBVIOUS
<1>3. p \in Ports /\ conn'[s].rx = q /\ conn'[s].port = p
  BY <1>1, <1>2 DEF Inv, ServersInv, IsEnd
<1>4. /\ Rises(q)
      /\ \A m \in DOMAIN q : Done(q[m], p) /\ \A n \in To(p) : q[m] < net[n].pkt
  BY <1>1, <1>2 DEF FlowInv, FlowIn
<1>5. \A m \in DOMAIN q : Done(q[m], p)'
  BY <1>4
<1>6. \A m \in DOMAIN q : \A n \in To(p)' : q[m] < net'[n].pkt
  BY <1>3, <1>4
<1>7. To(conn[s].port)' = To(p)'
  BY <1>3 DEF To
<1>8. \A m \in DOMAIN q : Done(conn[s].rx[m], conn[s].port)' <=> Done(q[m], p)'
  BY <1>3 DEF Done
<1> QED
  BY <1>3, <1>4, <1>5, <1>6, <1>7, <1>8 DEF FlowIn, Rises

LEMMA FlowSeenNext ==
  ASSUME Inv, FlowInv, \A x, p : Done(x, p) => Done(x, p)', NEW d \in 0..1, NEW s \in Slots,
         \A p \in Ports : \A n \in To(p)' : n + d \in To(p) /\ net'[n] = net[n + d],
         IsEnd(s, "client"), conn'[s].rx = conn[s].rx, conn'[s].port = conn[s].port,
         NEW k \in Connected, s = item[handle[k]].client, seen'[k] = seen[k]
  PROVE  FlowSeen(k, s)'
<1>1. PICK q : q = conn[s].rx
  OBVIOUS
<1>2. PICK p : p = conn[s].port
  OBVIOUS
<1>3. PICK x : x = seen[k]
  OBVIOUS
<1>4. p \in Ports /\ conn'[s].rx = q /\ conn'[s].port = p /\ seen'[k] = x
  BY <1>1, <1>2, <1>3 DEF Inv, ServersInv, IsEnd
<1>5. (x # 0 => Done(x, p)) /\ (\A m \in DOMAIN q : x < q[m]) /\ \A n \in To(p) : x < net[n].pkt
  BY <1>1, <1>2, <1>3 DEF FlowInv, FlowSeen
<1>6. x # 0 => Done(x, p)'
  BY <1>5
<1>7. \A n \in To(p)' : x < net'[n].pkt
  BY <1>4, <1>5
<1>8. To(conn[s].port)' = To(p)' /\ (Done(seen[k], conn[s].port)' <=> Done(x, p)')
  BY <1>4 DEF To, Done
<1> QED
  BY <1>4, <1>5, <1>6, <1>7, <1>8 DEF FlowSeen

LEMMA AppendFacts ==
  ASSUME NEW S, NEW q \in Seq(S), NEW x \in S
  PROVE  /\ Append(q, x) \in Seq(S) /\ Len(q) \in Nat /\ DOMAIN q = 1..Len(q)
         /\ DOMAIN Append(q, x) = 1..Len(q) + 1 /\ Append(q, x)[Len(q) + 1] = x
         /\ \A n \in 1..Len(q) : Append(q, x)[n] = q[n]
OBVIOUS

\* A client's packet comes to its queue.
LEMMA RouteToClientFlow ==
  ASSUME Inv, Inv', FlowInv, net # <<>>, net' = Tail(net), NEW m, m = Head(net), m.to = "client",
         UNCHANGED <<head, item, live, task, handle, seen, queue, sent, rx>>,
         NEW s \in Slots, IsEnd(s, "client"), conn[s].port = m.port,
         conn' = [conn EXCEPT ![s].rx = Append(@, m.pkt)]
  PROVE  FlowInv'
<1> USE DEF Inv
<1>1. net \in Seq(PacketType) /\ net' \in Seq(PacketType)
  BY DEF TypeOK
<1>2. PICK L \in Nat : L = Len(net) /\ DOMAIN net = 1..L /\ L # 0 /\ DOMAIN net' = 1..L - 1 /\ net[1] = m
                       /\ \A n \in 1..L - 1 : net'[n] = net[n + 1]
  BY <1>1, TailFacts, Zenon
<1>3. \A p \in Ports : \A n \in To(p)' : n + 1 \in To(p) /\ net'[n] = net[n + 1] /\ 1 < n + 1
  BY <1>2 DEF To
<1>20. 1 \in 0..1
  OBVIOUS
<1>21. \A p \in Ports : \A n \in To(p)' : n + 1 \in To(p) /\ net'[n] = net[n + 1]
  BY <1>2 DEF To
<1>4. PICK p0 \in Ports : p0 = m.port
  BY DEF ServersInv, IsEnd
<1>5. 1 \in To(p0) /\ net[1].pkt = m.pkt
  BY <1>2, <1>4 DEF To
<1>6. PICK q : q = conn[s].rx
  OBVIOUS
<1>7. PICK x : x = m.pkt
  OBVIOUS
<1>8. PICK r : r = Append(q, x)
  OBVIOUS
<1>9. conn' = [conn EXCEPT ![s].rx = r] /\ conn'[s].rx = r /\ \A t \in Slots : t # s => conn'[t] = conn[t]
  <2>1. conn' = [conn EXCEPT ![s].rx = r]
    BY <1>6, <1>7, <1>8
  <2>2. conn \in [Slots -> ConnType]
    BY DEF TypeOK
  <2>3. conn'[s].rx = r
    BY <2>1, <2>2 DEF ConnType
  <2> QED
    BY <2>1, <2>2, <2>3
<1>10. \A t \in Slots : conn'[t].open = conn[t].open /\ conn'[t].end = conn[t].end /\ conn'[t].port = conn[t].port
  BY <1>9, RxOnly
<1>11. QueueInv' /\ \A y, p : Done(y, p) => Done(y, p)'
  <2>1. \A i \in live : item[i].server \in Slots
    BY DEF PairsInv
  <2>2. Visited' = Visited
    BY <1>10, <2>1, VisitedSame
  <2>3. Sending' <=> Sending
    BY DEF Sending
  <2> QED
    BY <2>2, <2>3, DoneStays DEF FlowInv
<1>12. \A p \in Ports : FlowTo(p)'
  <2> TAKE p \in Ports
  <2>1. \A n \in To(p)' : n + 1 \in To(p) /\ net'[n] = net[n + 1]
    BY <1>21
  <2> QED
    BY <1>1, <1>11, <1>20, <2>1, FlowToNext
<1>13. q \in Seq(0..MaxPackets) /\ x \in 0..MaxPackets /\ m \in PacketType
  <2>1. m \in PacketType
    BY <1>1, <1>2
  <2>2. conn[s] \in ConnType
    BY DEF TypeOK
  <2>3. conn[s].rx \in Seq(0..MaxPackets)
    BY <2>2 DEF ConnType
  <2>4. m.pkt \in 0..MaxPackets
    BY <2>1 DEF PacketType
  <2> QED
    BY <1>6, <1>7, <2>1, <2>3, <2>4
<1>14. PICK M \in Nat : M = Len(q) /\ DOMAIN q = 1..M /\ DOMAIN r = 1..M + 1 /\ r[M + 1] = x
                        /\ \A n \in 1..M : r[n] = q[n]
  <2>1. q \in Seq(0..MaxPackets) /\ x \in 0..MaxPackets
    BY <1>13
  <2>2. /\ Len(q) \in Nat /\ DOMAIN q = 1..Len(q)
        /\ DOMAIN Append(q, x) = 1..Len(q) + 1 /\ Append(q, x)[Len(q) + 1] = x
        /\ \A n \in 1..Len(q) : Append(q, x)[n] = q[n]
    BY <2>1, AppendFacts
  <2> QED
    BY <1>8, <2>2, Zenon
<1>15. \A n \in 1..M + 1 : n = M + 1 \/ n \in 1..M
  BY <1>14
<1>16. /\ Done(x, p0)
       /\ \A n \in To(p0)' : x < net'[n].pkt
       /\ \A n \in 1..M : q[n] < x
  <2>1. FlowTo(p0) /\ FlowIn(s)
    BY DEF FlowInv
  <2>2. \A n \in To(p0)' : x < net'[n].pkt
    BY <1>3, <1>5, <1>7, <2>1 DEF FlowTo
  <2>3. Done(x, p0)
    <3>1. Done(net[1].pkt, p0)
      BY <1>5, <2>1 DEF FlowTo
    <3>2. net[1].pkt = x
      BY <1>5, <1>7
    <3> QED
      BY <3>1, <3>2
  <2>4. \A n \in 1..M : q[n] < net[1].pkt
    <3>1. conn[s].port = p0
      BY <1>4
    <3> QED
      BY <1>5, <1>6, <1>14, <2>1, <3>1 DEF FlowIn
  <2> QED
    BY <1>5, <1>7, <2>2, <2>3, <2>4
<1>17. FlowIn(s)'
  <2>1. FlowIn(s) /\ conn'[s].port = p0 /\ conn[s].port = p0
    BY <1>4, <1>10 DEF FlowInv
  <2>2. \A n \in 1..M : Done(q[n], p0) /\ \A o \in To(p0) : q[n] < net[o].pkt
    BY <1>6, <1>14, <2>1 DEF FlowIn
  <2>3. \A n \in 1..M + 1 : Done(r[n], p0)'
    BY <1>11, <1>14, <1>15, <1>16, <2>2
  <2>4. \A n \in 1..M + 1 : \A o \in To(p0)' : r[n] < net'[o].pkt
    BY <1>3, <1>14, <1>15, <1>16, <2>2
  <2>5. ASSUME NEW n \in 1..M + 1, NEW o \in 1..M + 1, n < o PROVE r[n] < r[o]
    <3>1. n \in 1..M
      BY <1>14, <2>5
    <3>2. CASE o = M + 1
      BY <1>14, <1>16, <3>1, <3>2
    <3>3. CASE o \in 1..M
      BY <1>6, <1>14, <2>1, <2>5, <3>1, <3>3 DEF FlowIn, Rises
    <3> QED
      BY <1>15, <3>2, <3>3
  <2>6. To(conn[s].port)' = To(p0)'
    BY <2>1 DEF To
  <2>7. \A n \in 1..M + 1 : Done(conn[s].rx[n], conn[s].port)' <=> Done(r[n], p0)'
    BY <1>9, <2>1 DEF Done
  <2> QED
    BY <1>9, <1>14, <2>1, <2>3, <2>4, <2>5, <2>6, <2>7 DEF FlowIn, Rises
<1>18. ASSUME NEW t \in Slots, IsEnd(t, "client")', t # s PROVE FlowIn(t)'
  <2>1. IsEnd(t, "client") /\ conn'[t].rx = conn[t].rx /\ conn'[t].port = conn[t].port
    BY <1>9, <1>10, <1>18 DEF IsEnd
  <2> QED
    BY <1>11, <1>20, <1>21, <2>1, FlowInNext
<1>19. ASSUME NEW k \in Connected' PROVE FlowSeen(k, item[handle[k]].client)'
  <2>1. k \in Connected
    BY DEF Connected
  <2>2. PICK t \in Slots : t = item[handle[k]].client /\ IsEnd(t, "client")
    BY <2>1, ConnectedIs
  <2>3. t = item'[handle'[k]].client
    BY <2>2
  <2>4. FlowSeen(k, t)'
    <3>1. CASE t # s
      <4>1. conn'[t].rx = conn[t].rx /\ conn'[t].port = conn[t].port
        BY <1>9, <3>1
      <4>2. seen'[k] = seen[k]
        OBVIOUS
      <4> QED
        BY <1>11, <1>20, <1>21, <2>1, <2>2, <4>1, <4>2, FlowSeenNext
    <3>2. CASE t = s
      <4>1. PICK y : y = seen[k]
        OBVIOUS
      <4>2. FlowSeen(k, t) /\ conn'[t].port = p0 /\ conn[t].port = p0 /\ seen'[k] = y
        BY <1>4, <1>10, <2>1, <2>2, <3>2, <4>1 DEF FlowInv
      <4>3. (y # 0 => Done(y, p0)) /\ (\A n \in 1..M : y < q[n]) /\ \A n \in To(p0) : y < net[n].pkt
        BY <1>6, <1>14, <3>2, <4>1, <4>2 DEF FlowSeen
      <4>4. y < x
        BY <1>5, <1>7, <4>3
      <4>5. \A n \in 1..M + 1 : y < r[n]
        BY <1>14, <1>15, <4>3, <4>4
      <4>6. \A n \in To(p0)' : y < net'[n].pkt
        BY <1>3, <4>3
      <4>7. y # 0 => Done(y, p0)'
        BY <1>11, <4>3
      <4>8. To(conn[t].port)' = To(p0)' /\ (Done(seen[k], conn[t].port)' <=> Done(y, p0)')
        BY <4>2 DEF To, Done
      <4> QED
        BY <1>9, <1>14, <3>2, <4>2, <4>5, <4>6, <4>7, <4>8 DEF FlowSeen
    <3> QED
      BY <3>1, <3>2
  <2> QED
    BY <2>3, <2>4 DEF FlowSeen
<1> QED
  BY <1>11, <1>12, <1>17, <1>18, <1>19 DEF FlowInv

LEMMA RouteFlow ==
  ASSUME Inv, Inv', FlowInv, Route
  PROVE  FlowInv'
<1> USE DEF Inv
<1>1. PICK m : m = Head(net)
  OBVIOUS
<1>2. /\ net # <<>> /\ net' = Tail(net)
      /\ UNCHANGED <<head, item, live, task, handle, seen, queue, sent, rx>>
  BY DEF Route, listVars, appVars, rxVars
<1>3. CASE RouteNew(m) \/ RouteLost(m)
  BY <1>1, <1>3, RouteNewFlow, FlowHolds
<1>4. CASE RouteToEnd(m)
  <2>1. PICK s \in Slots :
          /\ IsEnd(s, m.to) /\ conn[s].port = m.port
          /\ \/ conn' = conn
             \/ conn' = [conn EXCEPT ![s].rx = Append(@, m.pkt)]
    BY <1>4 DEF RouteToEnd, EndsAt, IsEnd
  <2>2. CASE m.to = "client" /\ conn' # conn
    BY <1>1, <1>2, <2>1, <2>2, RouteToClientFlow
  <2>3. CASE m.to # "client" \/ conn' = conn
    <3>1. /\ \A t \in Slots : /\ conn'[t].open = conn[t].open /\ conn'[t].end = conn[t].end
                              /\ conn'[t].port = conn[t].port
          /\ \A t \in Slots : IsEnd(t, "client") => conn'[t].rx = conn[t].rx
      <4>1. CASE conn' = conn
        BY <4>1
      <4>2. CASE m.to # "client" /\ conn' = [conn EXCEPT ![s].rx = Append(@, m.pkt)]
        <5>1. PICK r : r = Append(conn[s].rx, m.pkt)
          OBVIOUS
        <5>2. conn' = [conn EXCEPT ![s].rx = r]
          BY <4>2, <5>1
        <5>3. \A t \in Slots : t # s => conn'[t] = conn[t]
          BY <5>2 DEF TypeOK
        <5>4. ~IsEnd(s, "client")
          BY <2>1, <4>2 DEF IsEnd
        <5> QED
          BY <5>2, <5>3, <5>4, RxOnly
      <4> QED
        BY <2>1, <2>3, <4>1, <4>2
    <3>2. \A t \in Slots : IsEnd(t, "client")' => IsEnd(t, "client") /\ conn'[t].rx = conn[t].rx /\ conn'[t].port = conn[t].port
      BY <3>1 DEF IsEnd
    <3>3. \A i \in live : item[i].server \in Slots
      BY DEF PairsInv
    <3>4. Visited' = Visited
      BY <1>2, <3>1, <3>3, VisitedSame
    <3>5. FlowKept
      BY <1>2, <3>2, <3>4, RouteQuiet
    <3> QED
      BY <3>5, FlowHolds
  <2> QED
    BY <2>1, <2>2, <2>3
<1> QED
  BY <1>1, <1>3, <1>4 DEF Route

\* An app reads the first packet of its queue.
LEMMA ReadFlow ==
  ASSUME Inv, Inv', FlowInv, NEW k \in Apps, Read(k)
  PROVE  FlowInv'
<1> USE DEF Inv
<1>1. PICK s : s = item[handle[k]].client
  OBVIOUS
<1>2. PICK q : q = conn[s].rx
  OBVIOUS
<1>3. PICK r : r = Tail(q)
  OBVIOUS
<1>4. /\ task[k].at = "idle" /\ handle[k] # Null /\ q # <<>>
      /\ seen' = [seen EXCEPT ![k] = Head(q)] /\ conn' = [conn EXCEPT ![s].rx = r]
      /\ UNCHANGED <<net, head, item, live, task, handle, queue, sent, rx>>
  BY <1>1, <1>2, <1>3 DEF Read, MayCall, listVars, rxVars
<1>5. k \in Connected
  BY <1>4 DEF Connected
<1>6. s \in Slots /\ IsEnd(s, "client") /\ handle[k] \in live
  BY <1>1, <1>5, ConnectedIs
<1>7. PICK p0 \in Ports : p0 = conn[s].port
  BY <1>6 DEF ServersInv, IsEnd
<1>8. conn'[s].rx = r /\ \A t \in Slots : t # s => conn'[t] = conn[t]
  <2>1. conn \in [Slots -> ConnType]
    BY DEF TypeOK
  <2>2. conn'[s].rx = r
    BY <1>4, <1>6, <2>1 DEF ConnType
  <2> QED
    BY <1>4, <1>6, <2>1, <2>2
<1>9. \A t \in Slots : conn'[t].open = conn[t].open /\ conn'[t].end = conn[t].end /\ conn'[t].port = conn[t].port
  BY <1>4, <1>6, RxOnly
<1>10. QueueInv' /\ \A y, p : Done(y, p) => Done(y, p)'
  <2>1. \A i \in live : item[i].server \in Slots
    BY DEF PairsInv
  <2>2. Visited' = Visited
    BY <1>4, <1>9, <2>1, VisitedSame
  <2>3. Sending' <=> Sending
    BY <1>4 DEF Sending
  <2> QED
    BY <1>4, <2>2, <2>3, DoneStays DEF FlowInv
<1>11. net' \in Seq(PacketType) /\ 0 \in 0..1
  BY DEF TypeOK
<1>12. \A p \in Ports : \A n \in To(p)' : n + 0 \in To(p) /\ net'[n] = net[n + 0]
  <2>1. DOMAIN net = 1..Len(net) /\ Len(net) \in Nat
    BY <1>4, <1>11
  <2>2. \A p : \A n \in To(p)' : n \in To(p) /\ n \in Nat
    BY <1>4, <2>1 DEF To
  <2> QED
    BY <1>4, <2>2
<1>13. \A p \in Ports : FlowTo(p)'
  <2> TAKE p \in Ports
  <2>1. \A n \in To(p)' : n + 0 \in To(p) /\ net'[n] = net[n + 0]
    BY <1>12
  <2> QED
    BY <1>10, <1>11, <2>1, FlowToNext
<1>14. q \in Seq(0..MaxPackets)
  <2>1. conn[s] \in ConnType
    BY <1>6 DEF TypeOK
  <2> QED
    BY <1>2, <2>1 DEF ConnType
<1>15. PICK L \in Nat : L = Len(q) /\ L # 0 /\ DOMAIN q = 1..L /\ DOMAIN r = 1..L - 1 /\ Head(q) = q[1]
                        /\ \A n \in 1..L - 1 : r[n] = q[n + 1]
  BY <1>3, <1>4, <1>14, TailFacts, Zenon
<1>16. 1 \in 1..L /\ \A n \in 1..L - 1 : n + 1 \in 1..L /\ 1 < n + 1
  BY <1>15
<1>17. /\ Rises(q)
       /\ \A n \in 1..L : Done(q[n], p0)
       /\ \A n \in 1..L : \A o \in To(p0)' : q[n] < net'[o].pkt
  <2>1. FlowIn(s)
    BY <1>6 DEF FlowInv
  <2>2. To(p0)' = To(p0)
    BY <1>4 DEF To
  <2> QED
    BY <1>2, <1>4, <1>7, <1>15, <2>1, <2>2 DEF FlowIn
<1>18. To(conn[s].port)' = To(p0)' /\ conn'[s].port = p0
  BY <1>6, <1>7, <1>9 DEF To
<1>19. FlowIn(s)'
  <2>1. ASSUME NEW m \in 1..L - 1, NEW n \in 1..L - 1, m < n PROVE r[m] < r[n]
    <3>1. m + 1 < n + 1
      BY <2>1
    <3> QED
      BY <1>15, <1>16, <1>17, <3>1 DEF Rises
  <2>2. \A n \in 1..L - 1 : Done(r[n], p0)'
    BY <1>10, <1>15, <1>16, <1>17
  <2>3. \A n \in 1..L - 1 : \A o \in To(p0)' : r[n] < net'[o].pkt
    BY <1>15, <1>16, <1>17
  <2>4. \A n \in 1..L - 1 : Done(conn[s].rx[n], conn[s].port)' <=> Done(r[n], p0)'
    BY <1>8, <1>18 DEF Done
  <2> QED
    BY <1>8, <1>15, <1>18, <2>1, <2>2, <2>3, <2>4 DEF FlowIn, Rises
<1>20. ASSUME NEW t \in Slots, IsEnd(t, "client")', t # s PROVE FlowIn(t)'
  <2>1. IsEnd(t, "client") /\ conn'[t].rx = conn[t].rx /\ conn'[t].port = conn[t].port
    BY <1>8, <1>9, <1>20 DEF IsEnd
  <2> QED
    BY <1>10, <1>11, <1>12, <2>1, FlowInNext
<1>21. ASSUME NEW j \in Connected' PROVE FlowSeen(j, item[handle[j]].client)'
  <2>1. j \in Connected
    BY <1>4 DEF Connected
  <2>2. PICK t \in Slots : t = item[handle[j]].client /\ IsEnd(t, "client")
    BY <2>1, ConnectedIs
  <2>3. (t = item[handle[j]].client)'
    BY <1>4, <2>2
  <2>4. CASE j = k
    <3>1. t = s /\ seen'[k] = q[1]
      BY <1>1, <1>4, <1>15, <2>2, <2>4 DEF TypeOK
    <3>2. \A n \in 1..L - 1 : q[1] < r[n]
      BY <1>15, <1>16, <1>17 DEF Rises
    <3>3. Done(q[1], p0)' /\ \A n \in To(p0)' : q[1] < net'[n].pkt
      BY <1>10, <1>16, <1>17
    <3>4. Done(seen[k], conn[s].port)' <=> Done(q[1], p0)'
      BY <1>18, <3>1 DEF Done
    <3>5. FlowSeen(k, s)'
      BY <1>8, <1>15, <1>18, <3>1, <3>2, <3>3, <3>4 DEF FlowSeen
    <3> QED
      BY <2>3, <2>4, <3>1, <3>5 DEF FlowSeen
  <2>5. CASE j # k
    <3>1. handle[j] # handle[k] /\ handle[j] \in live /\ j \in Apps
      <4>1. j \in Apps /\ handle[j] \in live /\ handle[j] # Null
        BY <2>1, ConnectedIs
      <4> QED
        BY <2>5, <4>1 DEF ListInv
    <3>2. t # s
      BY <1>1, <1>6, <2>2, <3>1 DEF PairsInv, EndOf
    <3>3. conn'[t].rx = conn[t].rx /\ conn'[t].port = conn[t].port /\ seen'[j] = seen[j]
      BY <1>4, <1>8, <2>5, <3>1, <3>2 DEF TypeOK
    <3>4. FlowSeen(j, t)'
      BY <1>10, <1>11, <1>12, <2>1, <2>2, <3>3, FlowSeenNext
    <3> QED
      BY <2>3, <3>4 DEF FlowSeen
  <2> QED
    BY <2>4, <2>5
<1> QED
  BY <1>10, <1>13, <1>19, <1>20, <1>21 DEF FlowInv

\* telemetry_send goes on from the item at hand, whose port it has not been at.
LEMMA VisitedStep ==
  ASSUME Inv, SendInv, Sending, rx.cur # Null, UNCHANGED <<conn, head, item, live>>,
         rx' = [rx EXCEPT !.cur = item[rx.cur].next]
  PROVE  /\ item[rx.cur].server \in Slots /\ conn[item[rx.cur].server].port \in Ports
         /\ conn[item[rx.cur].server].port \notin Visited
         /\ conn[item[rx.cur].server].port \in Visited'
         /\ Visited \subseteq Visited'
<1> USE DEF Inv
<1>1. PICK q : q = Listed
  OBVIOUS
<1>2. Listed' = q
  BY <1>1, ListUnchanged
<1>3. PICK L \in Nat : L = Len(q) /\ DOMAIN q = 1..L
  BY <1>1, ListFacts DEF ListInv
<1>4. /\ \A m, n \in 1..L : q[m] = q[n] => m = n
      /\ \A n \in 1..L : item[q[n]].next = (IF n = L THEN Null ELSE q[n + 1]) /\ q[n] \in live
      /\ \A n \in 1..L : q[n] # Null
  <2>1. IsChain(q) /\ ToSet(q) \subseteq live
    BY <1>1 DEF ListInv
  <2>2. \A n \in 1..L : q[n] \in live
    BY <1>3, <2>1 DEF ToSet
  <2> QED
    BY <1>3, <2>1, <2>2, RTAssumption DEF IsChain, IsInjective, TypeOK, RTAssumption
<1>5. PICK c \in 1..L : q[c] = rx.cur
  BY <1>1, <1>3 DEF SendInv, ToSet
<1>6. \A n \in 1..L : Paired(q[n])
  <2>1. ~Disconnecting
    BY DEF SendInv
  <2> QED
    BY <1>4, <2>1, AllPaired
<1>7. PICK P : P = [n \in 1..L |-> conn[item[q[n]].server].port]
  OBVIOUS
<1>8. Visited = {P[n] : n \in {n \in 1..L : \E m \in 1..L : n < m /\ q[m] = rx.cur}}
  BY <1>1, <1>3, <1>7 DEF Visited
<1>9. Visited' = {P[n] : n \in {n \in 1..L : rx'.cur = Null \/ \E m \in 1..L : n < m /\ q[m] = rx'.cur}}
  BY <1>2, <1>3, <1>7 DEF Visited
<1>10. rx'.cur = IF c = L THEN Null ELSE q[c + 1]
  <2>1. rx \in RxType
    BY DEF TypeOK
  <2>2. rx'.cur = item[q[c]].next
    BY <1>5, <2>1 DEF RxType
  <2> QED
    BY <1>4, <2>2
<1>11. \A n \in 1..L : n <= c => P[n] \in Visited'
  <2>1. CASE c = L
    BY <1>9, <1>10, <2>1
  <2>2. CASE c # L
    <3>1. c + 1 \in 1..L /\ rx'.cur = q[c + 1]
      BY <1>3, <1>10, <2>2
    <3>2. \A n \in 1..L : n <= c => n < c + 1
      OBVIOUS
    <3> QED
      BY <1>9, <3>1, <3>2
  <2> QED
    BY <2>1, <2>2
<1>12. \A x \in Visited : \E n \in 1..L : n < c /\ x = P[n]
  <2>1. ASSUME NEW n \in 1..L, NEW m \in 1..L, n < m, q[m] = rx.cur PROVE n < c
    BY <1>4, <1>5, <2>1
  <2> QED
    BY <1>8, <2>1
<1>13. P[c] \notin Visited
  <2>1. SUFFICES ASSUME NEW n \in 1..L, n < c, P[n] = P[c] PROVE FALSE
    BY <1>12
  <2>2. conn[item[q[n]].client].port = conn[item[q[c]].client].port
    BY <1>6, <1>7, <2>1 DEF Paired
  <2>3. item[q[n]].client = item[q[c]].client
    BY <1>6, <2>2 DEF Paired, ClientsInv, IsEnd
  <2>4. item[q[n]].client \in Slots
    BY <1>6 DEF Paired, IsEnd
  <2>5. q[n] = q[c]
    BY <1>4, <2>3, <2>4 DEF PairsInv, EndOf
  <2> QED
    BY <1>4, <2>1, <2>5
<1>14. item[q[c]].server \in Slots /\ P[c] \in Ports
  BY <1>6, <1>7 DEF Paired, IsEnd, ServersInv
<1>15. \A x \in Visited : x \in Visited'
  <2>1. \A n \in 1..L : n < c => n <= c
    OBVIOUS
  <2> QED
    BY <1>11, <1>12, <2>1
<1>16. P[c] \in Visited'
  BY <1>11
<1> QED
  BY <1>5, <1>7, <1>13, <1>14, <1>15, <1>16

LEMMA RxSendFlow ==
  ASSUME Inv, Inv', SendInv, FlowInv, RxSend
  PROVE  FlowInv'
<1> USE DEF Inv
<1>1. Sending /\ UNCHANGED <<conn, head, item, live, task, handle, seen, queue, sent>>
  BY DEF RxSend, Sending, listVars, appVars
<1>2. net \in Seq(PacketType) /\ net' \in Seq(PacketType) /\ rx \in RxType
  BY DEF TypeOK
<1>3. PICK L \in Nat : L = Len(net) /\ DOMAIN net = 1..L
  BY <1>2
<1>4. \A r \in Slots : IsEnd(r, "client")' => IsEnd(r, "client") /\ conn'[r].rx = conn[r].rx /\ conn'[r].port = conn[r].port
  BY <1>1 DEF IsEnd
<1>5. \A j \in Connected' : j \in Connected /\ item'[handle'[j]].client = item[handle[j]].client /\ seen'[j] = seen[j]
  BY <1>1 DEF Connected
<1>6. ASSUME net' = net, QueueInv' /\ \A y, p : Done(y, p) => Done(y, p)'
      PROVE  FlowInv'
  <2>1. \A p : \A n \in To(p)' : n \in To(p) /\ n \in Nat
    BY <1>3, <1>6 DEF To
  <2>2. \A p \in Ports : \A n \in To(p)' : n + 0 \in To(p) /\ net'[n] = net[n + 0]
    BY <1>6, <2>1
  <2>3. FlowKept
    BY <1>4, <1>5, <1>6, <2>2 DEF FlowKept
  <2> QED
    BY <2>3, FlowHolds
<1>7. CASE rx.cur = Null
  <2>1. net' = net /\ rx' = RxIdle
    BY <1>7 DEF RxSend
  <2>2. ~Sending'
    BY <2>1 DEF Sending, RxIdle
  <2>3. QueueInv' /\ \A y, p : Done(y, p) => Done(y, p)'
    BY <1>1, <2>2, DoneStays DEF FlowInv
  <2> QED
    BY <1>6, <2>1, <2>3
<1>8. CASE rx.cur # Null
  <2>1. PICK p0 : p0 = conn[item[rx.cur].server].port
    OBVIOUS
  <2>2. PICK x : x = rx.pkt
    OBVIOUS
  <2>3. PICK m : m = [to |-> "client", port |-> p0, pkt |-> x]
    OBVIOUS
  <2>4. /\ rx' = [rx EXCEPT !.cur = item[rx.cur].next]
        /\ net' = net \/ net' = Append(net, m)
    BY <1>8, <2>1, <2>2, <2>3 DEF RxSend, Sent
  <2>5. p0 \in Ports /\ p0 \notin Visited /\ p0 \in Visited' /\ Visited \subseteq Visited'
    BY <1>1, <1>8, <2>1, <2>4, VisitedStep
  <2>6. Sending' /\ rx'.pkt = x
    BY <1>1, <1>2, <2>2, <2>4 DEF Sending, RxType
  <2>7. QueueInv' /\ \A y, p : Done(y, p) => Done(y, p)'
    BY <1>1, <2>2, <2>5, <2>6, DoneStays DEF FlowInv
  <2>8. CASE net' = net
    BY <1>6, <2>7, <2>8
  <2>9. CASE net' = Append(net, m)
    <3>1. x \in 1..sent /\ \A n \in DOMAIN queue : x < queue[n]
      BY <1>1, <2>2 DEF FlowInv, QueueInv
    <3>2. Done(x, p0)'
      BY <1>1, <2>5, <2>6, <3>1 DEF Done
    <3>3. \A y : Done(y, p0) => y < x
      BY <1>1, <2>2, <2>5 DEF Done
    <3>4. m \in PacketType
      <4>1. x \in 0..MaxPackets
        BY <1>2, <2>2 DEF RxType
      <4> QED
        BY <2>3, <2>5, <4>1 DEF PacketType
    <3>5. DOMAIN net' = 1..L + 1 /\ net'[L + 1] = m /\ \A n \in 1..L : net'[n] = net[n]
      <4>1. /\ Len(net) \in Nat /\ DOMAIN Append(net, m) = 1..Len(net) + 1 /\ Append(net, m)[Len(net) + 1] = m
            /\ \A n \in 1..Len(net) : Append(net, m)[n] = net[n]
        BY <1>2, <3>4, AppendFacts
      <4> QED
        BY <1>3, <2>9, <4>1, Zenon
    <3>6. \A n \in 1..L + 1 : n = L + 1 \/ n \in 1..L
      BY <1>3
    <3>7. \A p : \A n \in To(p)' : \/ n \in To(p) /\ n \in 1..L /\ net'[n] = net[n]
                                   \/ n = L + 1 /\ p = p0 /\ net'[n].pkt = x
      <4> SUFFICES ASSUME NEW p, NEW n \in To(p)'
                   PROVE  \/ n \in To(p) /\ n \in 1..L /\ net'[n] = net[n]
                          \/ n = L + 1 /\ p = p0 /\ net'[n].pkt = x
        OBVIOUS
      <4>1. n \in 1..L + 1 /\ net'[n].to = "client" /\ net'[n].port = p
        BY <3>5 DEF To
      <4>2. CASE n = L + 1
        BY <2>3, <3>5, <4>1, <4>2
      <4>3. CASE n \in 1..L
        BY <1>3, <3>5, <4>1, <4>3 DEF To
      <4> QED
        BY <3>6, <4>1, <4>2, <4>3
    <3>8. ASSUME NEW p \in Ports PROVE FlowTo(p)'
      <4>1. FlowTo(p)
        BY DEF FlowInv
      <4>2. ASSUME NEW n \in To(p)' PROVE Done(net[n].pkt, p)'
        <5>1. PICK y : y = net'[n].pkt
          OBVIOUS
        <5>2. Done(y, p)'
          <6>1. CASE n \in To(p) /\ net'[n] = net[n]
            <7>1. Done(net[n].pkt, p) /\ net[n].pkt = y
              BY <4>1, <5>1, <6>1 DEF FlowTo
            <7>2. Done(y, p)
              BY <7>1
            <7> QED
              BY <2>7, <7>2
          <6>2. CASE p = p0 /\ y = x
            BY <3>2, <6>2
          <6> QED
            BY <3>7, <5>1, <6>1, <6>2
        <5> QED
          BY <5>1, <5>2 DEF Done
      <4>3. ASSUME NEW n \in To(p)', NEW o \in To(p)', n < o PROVE net'[n].pkt < net'[o].pkt
        <5>1. n # L + 1
          BY <1>3, <3>7, <4>3
        <5>2. n \in To(p) /\ net'[n] = net[n]
          BY <3>7, <5>1
        <5>3. CASE o \in To(p) /\ net'[o] = net[o]
          BY <4>1, <4>3, <5>2, <5>3 DEF FlowTo
        <5>4. CASE p = p0 /\ net'[o].pkt = x
          <6>1. Done(net[n].pkt, p0)
            BY <4>1, <5>2, <5>4 DEF FlowTo
          <6> QED
            BY <3>3, <5>2, <5>4, <6>1
        <5> QED
          BY <3>7, <5>3, <5>4
      <4> QED
        BY <4>2, <4>3 DEF FlowTo
    <3>9. ASSUME NEW y, NEW p \in Ports, Done(y, p), \A n \in To(p) : y < net[n].pkt
          PROVE  \A n \in To(p)' : y < net'[n].pkt
      BY <3>3, <3>7, <3>9
    <3>10. ASSUME NEW t \in Slots, IsEnd(t, "client")' PROVE FlowIn(t)'
      <4>1. PICK q : q = conn[t].rx
        OBVIOUS
      <4>2. PICK p : p = conn[t].port
        OBVIOUS
      <4>3. IsEnd(t, "client") /\ conn'[t].rx = q /\ conn'[t].port = p /\ p \in Ports
        <5>1. IsEnd(t, "client")
          BY <1>1, <3>10 DEF IsEnd
        <5> QED
          BY <1>1, <4>1, <4>2, <5>1 DEF ServersInv, IsEnd
      <4>4. /\ Rises(q)
            /\ \A n \in DOMAIN q : Done(q[n], p) /\ \A o \in To(p) : q[n] < net[o].pkt
        BY <4>1, <4>2, <4>3 DEF FlowInv, FlowIn
      <4>5. \A n \in DOMAIN q : Done(q[n], p)'
        BY <2>7, <4>4
      <4>6. \A n \in DOMAIN q : \A o \in To(p)' : q[n] < net'[o].pkt
        BY <3>9, <4>3, <4>4
      <4>7. To(conn[t].port)' = To(p)'
        BY <4>3 DEF To
      <4>8. \A n \in DOMAIN q : Done(conn[t].rx[n], conn[t].port)' <=> Done(q[n], p)'
        BY <4>3 DEF Done
      <4> QED
        BY <4>3, <4>4, <4>5, <4>6, <4>7, <4>8 DEF FlowIn, Rises
    <3>11. ASSUME NEW k \in Connected' PROVE FlowSeen(k, item[handle[k]].client)'
      <4>1. k \in Connected
        BY <1>5
      <4>2. PICK t \in Slots : t = item[handle[k]].client /\ IsEnd(t, "client")
        BY <4>1, ConnectedIs
      <4>3. (t = item[handle[k]].client)'
        BY <1>1, <4>2
      <4>4. PICK p \in Ports : p = conn[t].port /\ conn'[t].port = p
        BY <1>1, <4>2 DEF ServersInv, IsEnd
      <4>5. PICK q : q = conn[t].rx /\ conn'[t].rx = q
        BY <1>1
      <4>6. PICK y : y = seen[k] /\ seen'[k] = y
        BY <1>1
      <4>7. (y # 0 => Done(y, p)) /\ (\A n \in DOMAIN q : y < q[n]) /\ \A n \in To(p) : y < net[n].pkt
        BY <4>1, <4>2, <4>4, <4>5, <4>6 DEF FlowInv, FlowSeen
      <4>8. \A n \in To(p)' : y < net'[n].pkt
        <5>1. CASE y = 0
          <6>1. y < x
            BY <3>1, <5>1
          <6> QED
            BY <3>7, <4>7, <6>1
        <5>2. CASE y # 0
          BY <3>9, <4>7, <5>2
        <5> QED
          BY <5>1, <5>2
      <4>9. y # 0 => Done(y, p)'
        BY <2>7, <4>7
      <4>10. To(conn[t].port)' = To(p)' /\ (Done(seen[k], conn[t].port)' <=> Done(y, p)')
        BY <4>4, <4>6 DEF To, Done
      <4>11. FlowSeen(k, t)'
        BY <4>5, <4>6, <4>7, <4>8, <4>9, <4>10 DEF FlowSeen
      <4> QED
        BY <4>3, <4>11 DEF FlowSeen
    <3> QED
      BY <2>7, <3>8, <3>10, <3>11 DEF FlowInv
  <2> QED
    BY <2>4, <2>8, <2>9
<1> QED
  BY <1>7, <1>8

LEMMA InitFlow == Init => SendInv /\ FlowInv /\ FreshInv
<1> SUFFICES ASSUME Init PROVE SendInv /\ FlowInv /\ FreshInv
  OBVIOUS
<1>1. QueueInv
  BY DEF Init, QueueInv, Rises, Sending, RxIdle
<1>2. \A p : To(p) = {}
  BY DEF Init, To
<1>3. \A p \in Ports : FlowTo(p)
  BY <1>2 DEF FlowTo
<1>4. \A s \in Slots : ~IsEnd(s, "client")
  BY DEF Init, IsEnd, Closed
<1>5. Connected = {}
  BY DEF Init, Connected
<1>6. FreshInv
  BY DEF Init, FreshInv
<1>7. SendInv
  <2>1. rx.at = "wait" /\ rx.cur = Null
    BY DEF Init, RxIdle
  <2> QED
    BY <2>1 DEF SendInv, Sending
<1> QED
  BY <1>1, <1>3, <1>4, <1>5, <1>6, <1>7 DEF FlowInv

LEMMA AppStepFlow ==
  ASSUME Inv, Inv', SendInv, FlowInv, FreshInv, strayed' = {}, NEW k \in Apps, AppStep(k)
  PROVE  FlowInv'
<1>1. CASE Read(k)
  BY <1>1, ReadFlow
<1>2. CASE Subscribe(k) \/ Unsubscribe(k)
  <2>1. \E i \in Items : \E q : SetTopics(k, i, q)
    BY <1>2, TopicsSet DEF Inv
  <2>2. FlowKept
    BY <2>1, SetTopicsFlow
  <2> QED
    BY <2>2, FlowHolds
<1>3. CASE ConnectOpen(k)
  BY <1>3, ConnectOpenFlow, FlowHolds DEF Apart
<1>4. CASE Accept(k)
  BY <1>4, AcceptFlow, FlowHolds
<1>5. CASE AcceptTimeout(k)
  BY <1>5, AcceptTimeoutFlow, FlowHolds
<1>6. CASE AppendFind(k)
  BY <1>6, AppendFindFlow, FlowHolds
<1>7. CASE AppendLink(k)
  BY <1>7, AppendLinkFlow, FlowHolds
<1>8. CASE DisconnectClose(k)
  BY <1>8, DisconnectCloseFlow, FlowHolds
<1>9. CASE DisconnectScan(k)
  BY <1>9, DisconnectScanFlow, FlowHolds
<1>10. CASE DeleteFind(k)
  BY <1>10, DeleteFindFlow, FlowHolds
<1>11. CASE DeleteUnlink(k)
  BY <1>11, DeleteUnlinkFlow, FlowHolds
<1>12. CASE AcceptFails(k)
  BY <1>12, AcceptFailsFlow, FlowHolds
<1> QED
  BY <1>1, <1>2, <1>3, <1>4, <1>5, <1>6, <1>7, <1>8, <1>9, <1>10, <1>11, <1>12 DEF AppStep

LEMMA StutterFlow ==
  ASSUME Inv, FlowInv, UNCHANGED vars
  PROVE  FlowKept
<1>1. UNCHANGED <<conn, net, head, item, live, task, handle, seen, queue, sent, rx>>
  BY DEF vars, cspVars, listVars, appVars, rxVars
<1>2. Visited' = Visited
  BY <1>1, VisitedSame
<1>3. \A r \in Slots : IsEnd(r, "client")' => IsEnd(r, "client") /\ conn'[r].rx = conn[r].rx /\ conn'[r].port = conn[r].port
  BY <1>1 DEF IsEnd
<1>4. \A j \in Connected' : /\ j \in Connected /\ handle'[j] = handle[j]
                            /\ item'[handle[j]].client = item[handle[j]].client /\ seen'[j] = seen[j]
  BY <1>1 DEF Connected
<1> QED
  BY <1>1, <1>2, <1>3, <1>4, QuietFlow

LEMMA StepFlow ==
  ASSUME Inv, Inv', SendInv, FlowInv, FreshInv, strayed' = {}, [Next]_vars
  PROVE  SendInv' /\ FlowInv' /\ FreshInv'
<1>1. ASSUME NEW k \in Apps, AppStep(k) PROVE SendInv' /\ FlowInv'
  BY <1>1, AppSend, AppStepFlow
<1>2. ASSUME Route PROVE SendInv' /\ FlowInv'
  BY <1>2, QuietSend, RouteFlow
<1>3. ASSUME Publish \/ RxDequeue PROVE SendInv' /\ FlowInv'
  BY <1>3, QuietSend, PublishFlow, FlowHolds
<1>4. ASSUME RxSend PROVE SendInv' /\ FlowInv'
  BY <1>4, QuietSend, RxSendFlow
<1>5. ASSUME telemetry_cleanup PROVE SendInv' /\ FlowInv'
  BY <1>5, CleanupSend, CleanupFlow, FlowHolds
<1>6. ASSUME UNCHANGED vars PROVE SendInv' /\ FlowInv'
  <2>1. UNCHANGED <<task, head, item, rx>>
    BY <1>6 DEF vars, appVars, listVars, rxVars
  <2>2. ToSet(Listed)' = ToSet(Listed)
    BY <2>1, ListUnchanged DEF Inv
  <2>3. SendInv'
    BY <2>1, <2>2 DEF SendInv, Sending, Disconnecting
  <2> QED
    BY <1>6, <2>3, StutterFlow, FlowHolds
<1>7. SendInv' /\ FlowInv'
  BY <1>1, <1>2, <1>3, <1>4, <1>5, <1>6 DEF Next, Finished
<1> QED
  BY <1>7, FreshNext

LEMMA FlowInvariant ==
  Spec => [](strayed = {} => Inv /\ SendInv /\ FlowInv /\ FreshInv)
<1> DEFINE Whole == /\ TypeOK /\ CallInv /\ (Apart => Inv)
                    /\ strayed = {} => SendInv /\ FlowInv /\ FreshInv
<1>1. Init => Whole
  BY InitInv, InitFlow DEF Inv
<1>2. Whole /\ [Next]_vars => Whole'
  <2> SUFFICES ASSUME Whole, [Next]_vars PROVE Whole'
    OBVIOUS
  <2>1. TypeOK' /\ CallInv'
    BY TypesNext, CallsNext
  <2>2. (Apart' => Apart) /\ (strayed' = {} => strayed = {} /\ Apart /\ Apart')
    BY StrayedStays DEF Apart
  <2>3. Apart' => Inv'
    BY <2>2, StepInv
  <2>4. strayed' = {} => SendInv' /\ FlowInv' /\ FreshInv'
    BY <2>2, <2>3, StepFlow
  <2> QED
    BY <2>1, <2>3, <2>4
<1>3. Whole => (strayed = {} => Inv /\ SendInv /\ FlowInv /\ FreshInv)
  BY DEF Apart
<1> QED
  BY <1>1, <1>2, <1>3, PTL DEF Spec

(* What an app will read comes in the order it was published, each packet  *)
(* once and after those it has read, though its end of the connection and  *)
(* the port may have been another's: telemetry_rx_task takes each packet   *)
(* round the list once, and visits a port at most once with it.  That is   *)
(* as long as no disconnect has run beside a telemetry_send, no connect    *)
(* beside a disconnect, and no connect has given up before its hello came. *)
THEOREM PacketsComeInOrder == Spec => []ReadsInOrder
<1>1. ASSUME Inv, FlowInv PROVE ReadsInOrder
  <2> SUFFICES ASSUME NEW k \in Connected
               PROVE  LET s == item[handle[k]].client
                          q == conn[s].rx
                          coming == To(conn[s].port)
                      IN /\ \A n \in DOMAIN q : seen[k] < q[n] /\ \A m \in DOMAIN q : m < n => q[m] < q[n]
                         /\ \A n \in coming :
                              /\ seen[k] < net[n].pkt /\ \A m \in DOMAIN q : q[m] < net[n].pkt
                              /\ \A m \in coming : m < n => net[m].pkt < net[n].pkt
    BY DEF ReadsInOrder
  <2>1. PICK s \in Slots : s = item[handle[k]].client /\ IsEnd(s, "client") /\ conn[s].port \in Ports
    BY <1>1, ConnectedIs
  <2>2. FlowTo(conn[s].port) /\ FlowIn(s) /\ FlowSeen(k, s)
    BY <1>1, <2>1 DEF FlowInv
  <2> QED
    BY <2>1, <2>2 DEF FlowTo, FlowIn, FlowSeen, Rises
<1>2. (strayed = {} => Inv /\ SendInv /\ FlowInv /\ FreshInv) => ReadsInOrder
  <2>1. strayed # {} => ReadsInOrder
    BY DEF ReadsInOrder
  <2> QED
    BY <1>1, <2>1
<1> QED
  BY <1>2, FlowInvariant, PTL
=============================================================================
