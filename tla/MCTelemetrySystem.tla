-------------------------- MODULE MCTelemetrySystem --------------------------
(* Instances of TelemetrySystem for TLC.                                   *)
EXTENDS TelemetrySystem

CONSTANTS s1, s2, p1, p2, t1, t2

\* Connections of one kind are interchangeable.
Symmetry == Permutations(Publishers) \union Permutations(Subscribers)

\* Bound: subscribe and unsubscribe calls of all subscribers together, three
\* of one or two of one and one of the other.
FewRequests == requests[s1] + requests[s2] <= 3

\* The service some time after its start: s1 has asked for t1, and p2 has come,
\* published t1 and gone, and is about to be linked.  s1 has not read the
\* packet, so its channel is full, and p1 is to come.
Warm ==
  /\ cl = [c \in Conns |-> CASE c = s1 -> "open" [] c = p2 -> "closed" [] OTHER -> "idle"]
  /\ srv = [c \in Conns |-> IF c = p1 THEN "none" ELSE "fd"]
  /\ backlog = <<>>
  /\ toSrv = [c \in Conns |-> <<>>]
  /\ toCl = [c \in Conns |-> IF c = s1 THEN <<[src |-> p2, topic |-> t1]>> ELSE <<>>]
  /\ rd = [c \in Conns |-> 0]
  /\ running = TRUE
  /\ mpc = "wait"
  /\ mnxt = 0
  /\ apc = "find"
  /\ asub = {p2}
  /\ tail = 0
  /\ subs = <<s1>>
  /\ gone = 0
  /\ topics = [c \in Conns |-> [t \in Topics |-> IF c = s1 /\ t = t1 THEN 1 ELSE 0]]
  /\ active = [c \in Conns |-> c = s1]
  /\ hpc = [c \in Conns |-> CASE c = s1 -> "recv" [] c = p2 -> "dead" [] OTHER -> "none"]
  /\ topic = [c \in Conns |-> IF c = p2 THEN t1 ELSE NoTopic]
  /\ cur = [c \in Conns |-> 0]
  /\ nxt = [c \in Conns |-> 0]
  /\ torn = [c \in Conns |-> {}]
  /\ owed = [c \in Conns |-> IF c = p2 THEN {s1} ELSE {}]
  /\ app = [c \in Conns |-> CASE c = s1 -> "ready" [] c = p2 -> "over" [] OTHER -> "start"]
  /\ requests = [c \in Conns |-> IF c = p1 THEN 0 ELSE 1]

WarmSpec == Warm /\ [][Next]_vars /\ Fairness
=============================================================================
