---------------------------- MODULE ClusterProofs ---------------------------
(***************************************************************************)
(* Cluster for any number of replicas and keys, any latencies, and any     *)
(* bounds: the counters, the nodes' own counts and the replication log     *)
(* agree, a failed node is left out of every command, and a node shown     *)
(* Offline is not shown Healthy.                                           *)
(*                                                                         *)
(* The inductive invariant ClusterInv has what the nodes are shown as      *)
(* (NodesSafe: the score is that of the status), the totals (Tally: the    *)
(* rows of the log are counted where they are appended, and a client's     *)
(* reversed rows are as many), the number of keys that is shown while no   *)
(* command is under way (KeysShown), and how often a node can have failed  *)
(* (FailureBound).                                                         *)
(***************************************************************************)
EXTENDS Cluster, FiniteSetTheorems, SequenceTheorems, Induction, TLAPS

-----------------------------------------------------------------------------
(* Health *)

LEMMA NodeType == Node = 0..Replicas /\ Replicas \in Nat /\ Replica \subseteq Node /\ Replica \subseteq Nat
BY ClusterAssumption DEF Node, Replica

LEMMA DivType ==
  ASSUME NEW a \in Int, NEW b \in {5, 10}
  PROVE  Div(a, b) \in Int /\ (a >= 0 => Div(a, b) >= 0)
<1>1. CASE b = 5
  BY <1>1 DEF Div
<1>2. CASE b = 10
  BY <1>2 DEF Div
<1> QED BY <1>1, <1>2

\* Being Offline costs so much that only a negative latency makes up for it.
LEMMA HealthLaw ==
  ASSUME NEW status, NEW latency \in Int, NEW failures \in Nat, NEW delay \in Nat
  PROVE  /\ calculateHealth(status, latency, failures, delay) \in Nat
         /\ status = "Offline" /\ latency >= 0 => calculateHealth(status, latency, failures, delay) < 80
<1> DEFINE cost == IF status = "Online" THEN 0 ELSE 55
           a == Div(latency, 5)
           d == Div(delay, 10)
           score == 100 - cost - a - failures * 10 - d
<1>1. a \in Int /\ (latency >= 0 => a >= 0) /\ d \in Int /\ d >= 0
  BY DivType
<1>2. cost \in {0, 55} /\ (status = "Offline" => cost = 55)
  OBVIOUS
<1>3. calculateHealth(status, latency, failures, delay) = IF score < 0 THEN 0 ELSE score
  BY DEF calculateHealth
<1> HIDE DEF cost, a, d
<1>4. score \in Int
  BY <1>1, <1>2
<1>5. status = "Offline" /\ latency >= 0 => score < 80
  BY <1>1, <1>2
<1> HIDE DEF score
<1> QED BY <1>3, <1>4, <1>5

\* What OfflineNotHealthy says of a node, and that a failed node is Offline.
Safe(n) == n.status = "Offline" /\ HealthStatus(n.score) = "Healthy" => n.latency < 0
Down(n) == n.failed => n.status = "Offline"

LEMMA HealthyScore ==
  ASSUME NEW score \in Nat, HealthStatus(score) = "Healthy"
  PROVE  score >= 80
<1> SUFFICES ASSUME ~(score >= 80) PROVE FALSE
  OBVIOUS
<1>1. CASE score \in 55..79
  BY <1>1 DEF HealthStatus
<1>2. CASE score \notin 55..79
  BY <1>2 DEF HealthStatus
<1> QED BY <1>1, <1>2

\* n with another status, latency, failures, delay and score.
LEMMA ScoredLaw ==
  ASSUME NEW n \in NodeState
  PROVE  LET s == Scored(n)
         IN  /\ s \in NodeState /\ Safe(s)
             /\ s.failed = n.failed /\ s.status = n.status /\ s.failures = n.failures
             /\ s.latency = n.latency /\ s.injected = n.injected /\ s.delay = n.delay
             /\ s.replicated = n.replicated /\ s.keyCount = n.keyCount
<1> DEFINE v == calculateHealth(n.status, n.latency, n.failures, n.delay)
           s == Scored(n)
<1>1. n.latency \in Int /\ n.failures \in Nat /\ n.delay \in Nat /\ n.status \in {"Online", "Offline"}
  BY ClusterAssumption DEF NodeState
<1>2. v \in Nat /\ (n.status = "Offline" /\ n.latency >= 0 => v < 80)
  BY <1>1, HealthLaw
<1>3. s = [n EXCEPT !.score = v]
  BY DEF Scored
<1> HIDE DEF v, s
<1>4. s \in NodeState
  BY <1>2, <1>3 DEF NodeState
<1>5. /\ s.failed = n.failed /\ s.status = n.status /\ s.failures = n.failures
      /\ s.latency = n.latency /\ s.injected = n.injected /\ s.delay = n.delay
      /\ s.replicated = n.replicated /\ s.keyCount = n.keyCount /\ s.score = v
  BY <1>3 DEF NodeState
<1>6. Safe(s)
  <2> SUFFICES ASSUME s.status = "Offline", HealthStatus(v) = "Healthy", ~(n.latency < 0)
               PROVE  FALSE
    BY <1>5 DEF Safe
  <2>1. v >= 80
    BY <1>2, HealthyScore
  <2> QED BY <1>1, <1>2, <1>5, <2>1
<1> QED BY <1>4, <1>5, <1>6 DEF s

-----------------------------------------------------------------------------
(* The logs and the trends *)

LEMMA MaxOfTwo ==
  ASSUME NEW a \in Int, NEW b \in Int
  PROVE  Max({a, b}) \in {a, b} /\ Max({a, b}) >= a /\ Max({a, b}) >= b
<1>1. \E m \in {a, b} : \A x \in {a, b} : m >= x
  OBVIOUS
<1> QED BY <1>1 DEF Max

LEMMA MinOfTwo ==
  ASSUME NEW a \in Int, NEW b \in Int
  PROVE  Min({a, b}) \in {a, b} /\ Min({a, b}) <= a /\ Min({a, b}) <= b
<1>1. \E m \in {a, b} : \A x \in {a, b} : m <= x
  OBVIOUS
<1> QED BY <1>1 DEF Min

LEMMA LoggedLaw ==
  ASSUME activity \in 1..MaxActivity, NEW n \in Nat, Logged(n)
  PROVE  activity' \in 1..MaxActivity
<1>1. MaxActivity \in Nat \ {0} /\ activity + n \in Int /\ activity + n >= 1
  BY ClusterAssumption
<1>2. activity' \in {activity + n, MaxActivity} /\ activity' <= MaxActivity /\ activity' <= activity + n
  BY <1>1, MinOfTwo DEF Logged
<1> QED BY <1>1, <1>2

\* The trend is a sequence, of whatever points.
TrendInv == \E P : trend \in Seq(P)

LEMMA HistoryLaw ==
  ASSUME TrendInv, Len(trend) \in 1..MaxTrend, NEW latency, NEW delay, recordHistory(latency, delay)
  PROVE  TrendInv' /\ Len(trend') \in 1..MaxTrend
<1> DEFINE e == [latency |-> latency, delay |-> delay]
           points == Append(trend, e)
           n == Len(points)
           m == Max({1, n - MaxTrend + 1})
<1>1. PICK P : trend \in Seq(P)
  BY DEF TrendInv
<1> DEFINE Q == P \cup {e}
<1>2. points \in Seq(Q) /\ n = Len(trend) + 1
  <2>1. trend \in Seq(Q) /\ e \in Q
    <3>1. P \subseteq Q /\ e \in Q
      OBVIOUS
    <3> HIDE DEF Q, e
    <3> QED BY <3>1, <1>1, SeqMonotonic
  <2> HIDE DEF Q, e
  <2> QED BY <2>1, AppendProperties
<1>3. MaxTrend \in Nat \ {0} /\ n \in Nat /\ n >= 1 /\ n <= MaxTrend + 1
  BY <1>2, ClusterAssumption
<1>4. trend' = SubSeq(points, m, n)
  BY DEF recordHistory
<1> HIDE DEF points, n, Q, e
<1>5. m \in {1, n - MaxTrend + 1} /\ m >= 1 /\ m >= n - MaxTrend + 1
  BY <1>3, MaxOfTwo
<1>6. m \in Int /\ m <= n
  BY <1>3, <1>5
<1> HIDE DEF m
<1>7. \A i \in m..n : points[i] \in Q
  <2>1. \A i \in 1..n : points[i] \in Q
    BY <1>2 DEF n
  <2>2. \A i \in m..n : i \in 1..n
    BY <1>3, <1>5, <1>6
  <2> QED BY <2>1, <2>2
<1>8. trend' \in Seq(Q) /\ Len(trend') = n - m + 1
  <2>1. SubSeq(points, m, n) \in Seq(Q) /\ Len(SubSeq(points, m, n)) = IF m <= n THEN n - m + 1 ELSE 0
    BY <1>3, <1>6, <1>7, SubSeqProperties
  <2> QED BY <2>1, <1>4, <1>6
<1> QED BY <1>3, <1>5, <1>6, <1>8 DEF TrendInv

-----------------------------------------------------------------------------
(* The total of the replicas *)

\* f has the totals of the first replicas.
Totals(f) == f[0] = 0 /\ \A i \in Replica : f[i] = f[i - 1] + nodes[i].replicated

LEMMA TotalLaw ==
  ASSUME nodes \in [Node -> NodeState]
  PROVE  \E w \in [Node -> Nat] : Totals(w) /\ ReplicatedByAll = w[Replicas]
<1> DEFINE n == Replicas
           Body(f) == [i \in Node |-> IF i = 0 THEN 0 ELSE f[i - 1] + nodes[i].replicated]
           step == [p \in (1..n) \X Nat |-> p[2] + nodes[p[1]].replicated]
<1>1. n \in Nat /\ Node = 0..n /\ Replica = 1..n
  BY NodeType DEF Replica
<1>2. \A i \in 1..n : nodes[i].replicated \in Nat
  BY <1>1 DEF NodeState
<1>3. step \in [(1..n) \X Nat -> Nat] /\ \A i \in 1..n, v \in Nat : step[<<i, v>>] = v + nodes[i].replicated
  BY <1>2
<1> HIDE DEF step
<1>4. PICK g \in [0..n -> Nat] : g[0] = 0 /\ \A i \in 1..n : g[i] = step[<<i, g[i - 1]>>]
  <2> HIDE DEF n
  <2>1. \E f \in [0..n -> Nat] : Follows(f, n, 0, step)
    BY <1>1, <1>3, RecursionExists
  <2> QED BY <2>1 DEF Follows
<1>5. ASSUME NEW i \in 1..n PROVE g[i] = g[i - 1] + nodes[i].replicated
  <2>1. i - 1 \in 0..n
    BY <1>1
  <2>2. g[i - 1] \in Nat
    BY <2>1
  <2> QED BY <2>2, <1>3, <1>4
<1>6. g = Body(g)
  <2>1. \A i \in 0..n : g[i] = Body(g)[i]
    BY <1>1, <1>4, <1>5
  <2>2. DOMAIN Body(g) = 0..n /\ DOMAIN g = 0..n /\ Body(g) = [i \in 0..n |-> Body(g)[i]]
    BY <1>1
  <2> HIDE DEF Body
  <2> QED BY <2>1, <2>2
<1> DEFINE f == CHOOSE h : h = Body(h)
<1>7. ReplicatedByAll = f[n]
  BY DEF ReplicatedByAll
<1>8. f = Body(f)
  <2> HIDE DEF Body
  <2>1. \E h : h = Body(h)
    BY <1>6
  <2> QED BY <2>1
<1> HIDE DEF f
<1>9. Alike(f, g, n)
  BY <1>8, <1>1, <1>4, <1>5 DEF Alike
<1>10. \A i \in 0..n : f[i] = g[i]
  BY <1>1, <1>9, RecursionUnique
<1>11. Totals(g)
  BY <1>1, <1>4, <1>5 DEF Totals
<1> QED
  BY <1>1, <1>7, <1>10, <1>11

\* Every replica of ok has one command more: so has the total for each.
LEMMA TotalGrows ==
  ASSUME nodes \in [Node -> NodeState], nodes' \in [Node -> NodeState],
         NEW ok \in SUBSET Replica,
         \A i \in Replica :
           nodes'[i].replicated = nodes[i].replicated + (IF i \in ok THEN 1 ELSE 0)
  PROVE  ReplicatedByAll' = ReplicatedByAll + Cardinality(ok)
<1> DEFINE n == Replicas
           upTo(i) == ok \cap (1..i)
           S == {i \in Nat : i <= n => IsFiniteSet(upTo(i))}
<1>1. n \in Nat /\ Node = 0..n /\ Replica = 1..n
  BY NodeType DEF Replica
<1>2. PICK f \in [Node -> Nat] : Totals(f) /\ ReplicatedByAll = f[n]
  BY TotalLaw
<1>3. PICK g \in [Node -> Nat] : Totals(g)' /\ ReplicatedByAll' = g[n]
  <2>1. (nodes \in [Node -> NodeState] => \E w \in [Node -> Nat] : Totals(w) /\ ReplicatedByAll = w[Replicas])'
    BY TotalLaw, PTL
  <2> QED BY <2>1
<1>4. \A i \in Nat : IsFiniteSet(upTo(i))
  <2> SUFFICES ASSUME NEW i \in Nat PROVE IsFiniteSet(upTo(i))
    OBVIOUS
  <2>1. IsFiniteSet(1..i)
    BY FS_Interval
  <2> QED BY <2>1, FS_Intersection
<1>5. ASSUME NEW i \in 1..n
      PROVE  /\ Cardinality(upTo(i - 1)) \in Nat
             /\ Cardinality(upTo(i)) = Cardinality(upTo(i - 1)) + (IF i \in ok THEN 1 ELSE 0)
  <2> DEFINE A == upTo(i - 1)
  <2>1. IsFiniteSet(A)
    BY <1>1, <1>4
  <2>2. upTo(i) = IF i \in ok THEN A \cup {i} ELSE A
    BY <1>1
  <2>3. i \notin A
    BY <1>1
  <2>4. Cardinality(A) \in Nat /\ Cardinality(A \cup {i}) = Cardinality(A) + 1
    <3> HIDE DEF A
    <3> QED BY <2>1, <2>3, FS_AddElement, FS_CardinalityType
  <2> HIDE DEF A, upTo
  <2>5. Cardinality(upTo(i)) = Cardinality(A) + (IF i \in ok THEN 1 ELSE 0)
    BY <2>2, <2>4
  <2> QED BY <2>4, <2>5 DEF A
<1> DEFINE h == [i \in 0..n |-> f[i] + Cardinality(upTo(i))]
<1>6. Cardinality(upTo(0)) = 0
  <2>1. upTo(0) = {}
    OBVIOUS
  <2> QED BY <2>1, FS_EmptySet
<1> HIDE DEF upTo
<1>7. \A i \in 1..n : h[i] = h[i - 1] + nodes[i].replicated + (IF i \in ok THEN 1 ELSE 0)
  <2> SUFFICES ASSUME NEW i \in 1..n
               PROVE  h[i] = h[i - 1] + nodes[i].replicated + (IF i \in ok THEN 1 ELSE 0)
    OBVIOUS
  <2>1. i - 1 \in 0..n /\ f[i - 1] \in Nat /\ f[i] = f[i - 1] + nodes[i].replicated
    BY <1>1, <1>2 DEF Totals
  <2>2. nodes[i].replicated \in Nat
    BY <1>1 DEF NodeState
  <2>3. h[i] = f[i] + Cardinality(upTo(i)) /\ h[i - 1] = f[i - 1] + Cardinality(upTo(i - 1))
    BY <2>1
  <2>4. /\ Cardinality(upTo(i - 1)) \in Nat
        /\ Cardinality(upTo(i)) = Cardinality(upTo(i - 1)) + (IF i \in ok THEN 1 ELSE 0)
    BY <1>5
  <2> HIDE DEF h
  <2> QED BY <2>1, <2>2, <2>3, <2>4
<1>8. \A i \in 1..n : g[i] = g[i - 1] + nodes[i].replicated + (IF i \in ok THEN 1 ELSE 0)
  <2> SUFFICES ASSUME NEW i \in 1..n
               PROVE  g[i] = g[i - 1] + nodes[i].replicated + (IF i \in ok THEN 1 ELSE 0)
    OBVIOUS
  <2>1. i - 1 \in Node /\ i \in Node /\ g[i - 1] \in Nat
    BY <1>1
  <2>3. nodes[i].replicated \in Nat
    BY <2>1 DEF NodeState
  <2>2. g[i] = g[i - 1] + nodes'[i].replicated
    BY <1>1, <1>3 DEF Totals
  <2> QED BY <1>1, <2>1, <2>2, <2>3
<1>9. g[0] = h[0]
  BY <1>1, <1>2, <1>3, <1>6 DEF Totals
<1>10. Alike(g, h, n)
  BY <1>7, <1>8, <1>9 DEF Alike
<1>11. g[n] = h[n]
  <2>1. \A i \in 0..n : g[i] = h[i]
    BY <1>1, <1>10, RecursionUnique
  <2> QED BY <1>1, <2>1
<1>12. upTo(n) = ok
  BY <1>1 DEF upTo
<1> QED BY <1>1, <1>2, <1>3, <1>11, <1>12

LEMMA TotalKept ==
  ASSUME nodes \in [Node -> NodeState], nodes' \in [Node -> NodeState],
         \A i \in Node : nodes'[i].replicated = nodes[i].replicated
  PROVE  ReplicatedByAll' = ReplicatedByAll
<1>1. \A i \in Replica : nodes'[i].replicated = nodes[i].replicated + (IF i \in {} THEN 1 ELSE 0)
  <2> SUFFICES ASSUME NEW i \in Replica PROVE nodes'[i].replicated = nodes[i].replicated + 0
    OBVIOUS
  <2>1. i \in Node /\ nodes[i] \in NodeState
    BY NodeType
  <2> QED BY <2>1 DEF NodeState
<1>2. {} \in SUBSET Replica /\ Cardinality({}) = 0
  BY FS_EmptySet
<1>3. ReplicatedByAll' = ReplicatedByAll + Cardinality({})
  BY <1>1, <1>2, TotalGrows
<1>4. ReplicatedByAll \in Nat
  BY TotalLaw, NodeType
<1> QED BY <1>2, <1>3, <1>4

-----------------------------------------------------------------------------
(* The rows of the replication log *)

LogRow == [target : Replica, success : BOOLEAN]

\* The rows of l that tell of a success, or of a failure.
RowsOf(l, success) == {n \in 1..Len(l) : l[n].success = success}

LEMMA SameSize ==
  ASSUME NEW S, IsFiniteSet(S), NEW T, NEW f \in [S -> T],
         \A x, y \in S : f[x] = f[y] => x = y,
         \A z \in T : \E x \in S : f[x] = z
  PROVE  IsFiniteSet(T) /\ Cardinality(T) = Cardinality(S)
<1>1. f \in Bijection(S, T)
  BY DEF Bijection, Injection, Surjection, IsInjective
<1>2. ExistsBijection(S, T)
  BY <1>1 DEF ExistsBijection
<1> QED BY <1>2, FS_Bijection

LEMMA RowsFinite ==
  ASSUME NEW l \in Seq(LogRow), NEW b
  PROVE  IsFiniteSet(RowsOf(l, b)) /\ Cardinality(RowsOf(l, b)) \in Nat
<1>1. IsFiniteSet(1..Len(l))
  <2>1. Len(l) \in Int
    OBVIOUS
  <2> QED BY <2>1, FS_Interval
<1>2. RowsOf(l, b) \in SUBSET (1..Len(l))
  BY DEF RowsOf
<1>3. IsFiniteSet(RowsOf(l, b))
  BY <1>1, <1>2, FS_Subset
<1> QED BY <1>3, FS_CardinalityType

\* What a client sees, newest first, has as many rows of each kind.
LEMMA RowsLaw ==
  ASSUME replLogs \in Seq(LogRow), NEW b
  PROVE  Cardinality(Rows(b)) = Cardinality(RowsOf(replLogs, b))
<1> DEFINE n == Len(replLogs)
           rows == reverseLimit(replLogs, 0)
           rev == Reverse(replLogs)
           f == [i \in RowsOf(replLogs, b) |-> n - i + 1]
<1>1. n \in Nat
  OBVIOUS
<1>2. rev \in Seq(LogRow) /\ Len(rev) = n /\ \A i \in 1..n : rev[i] = replLogs[n - i + 1]
  <2>1. rev = [i \in 1..n |-> replLogs[(n - i) + 1]]
    BY DEF Reverse
  <2>2. \A i \in 1..n : replLogs[(n - i) + 1] \in LogRow
    BY <1>1
  <2>3. rev \in [1..n -> LogRow]
    BY <2>1, <2>2
  <2> HIDE DEF rev
  <2> QED BY <1>1, <2>1, <2>3
<1>3. rows = SubSeq(rev, 1, n)
  BY DEF reverseLimit
<1> HIDE DEF rev, n, rows
<1>4. DOMAIN rows = 1..n /\ \A i \in 1..n : rows[i] = replLogs[n - i + 1]
  BY <1>1, <1>2, <1>3
<1>5. Rows(b) = {i \in 1..n : replLogs[n - i + 1].success = b}
  <2>1. Rows(b) = {i \in DOMAIN rows : rows[i].success = b}
    BY DEF Rows, rows
  <2> QED BY <2>1, <1>4
<1>6. f \in [RowsOf(replLogs, b) -> Rows(b)]
  <2> SUFFICES ASSUME NEW i \in RowsOf(replLogs, b) PROVE n - i + 1 \in Rows(b)
    OBVIOUS
  <2>1. i \in 1..n /\ replLogs[i].success = b
    BY DEF RowsOf, n
  <2>2. n - i + 1 \in 1..n /\ n - (n - i + 1) + 1 = i
    BY <1>1, <2>1
  <2> QED BY <2>1, <2>2, <1>5
<1>7. RowsOf(replLogs, b) \subseteq Nat
  BY DEF RowsOf
<1>8. \A x, y \in RowsOf(replLogs, b) : f[x] = f[y] => x = y
  BY <1>1, <1>7
<1>9. \A z \in Rows(b) : \E x \in RowsOf(replLogs, b) : f[x] = z
  <2> SUFFICES ASSUME NEW z \in Rows(b) PROVE \E x \in RowsOf(replLogs, b) : f[x] = z
    OBVIOUS
  <2>1. z \in 1..n /\ replLogs[n - z + 1].success = b
    BY <1>5
  <2>2. n - z + 1 \in 1..n /\ n - (n - z + 1) + 1 = z
    BY <1>1, <2>1
  <2>3. n - z + 1 \in RowsOf(replLogs, b)
    BY <2>1, <2>2 DEF RowsOf, n
  <2> QED BY <2>2, <2>3
<1> HIDE DEF f
<1> QED BY <1>6, <1>8, <1>9, RowsFinite, SameSize

\* The rows of a command are one for each replica.
LEMMA RowsAppend ==
  ASSUME NEW l \in Seq(LogRow), NEW ok \in SUBSET Replica, NEW b \in BOOLEAN
  PROVE  LET m == l \o [i \in Replica |-> [target |-> i, success |-> i \in ok]]
             new == IF b THEN ok ELSE Replica \ ok
         IN  /\ m \in Seq(LogRow)
             /\ Cardinality(RowsOf(m, b)) = Cardinality(RowsOf(l, b)) + Cardinality(new)
<1> DEFINE n == Len(l)
           c == [i \in Replica |-> [target |-> i, success |-> i \in ok]]
           m == l \o c
           new == IF b THEN ok ELSE Replica \ ok
           T == {k \in n + 1..n + Replicas : m[k].success = b}
           f == [i \in new |-> n + i]
<1>1. n \in Nat /\ Replicas \in Nat /\ Replica = 1..Replicas
  BY NodeType DEF Replica
<1>2. c \in Seq(LogRow) /\ Len(c) = Replicas /\ \A i \in 1..Replicas : c[i].success = (i \in ok)
  <2>1. c \in [1..Replicas -> LogRow]
    BY <1>1 DEF LogRow
  <2>2. \A i \in 1..Replicas : c[i].success = (i \in ok)
    BY <1>1
  <2> HIDE DEF c
  <2> QED BY <1>1, <2>1, <2>2
<1> HIDE DEF c
<1>3. /\ m \in Seq(LogRow) /\ Len(m) = n + Replicas
      /\ \A i \in 1..n + Replicas : m[i] = IF i <= n THEN l[i] ELSE c[i - n]
  <2> DEFINE U == LogRow
  <2>1. l \in Seq(U) /\ c \in Seq(U)
    BY <1>2
  <2> HIDE DEF U
  <2>2. /\ l \o c \in Seq(U) /\ Len(l \o c) = Len(l) + Len(c)
        /\ \A i \in 1..Len(l) + Len(c) : (l \o c)[i] = IF i <= Len(l) THEN l[i] ELSE c[i - Len(l)]
    BY <2>1, ConcatProperties
  <2> QED BY <2>2, <1>2 DEF U
<1> HIDE DEF m, n
<1>4. RowsOf(m, b) = RowsOf(l, b) \cup T /\ RowsOf(l, b) \cap T = {}
  <2>1. \A k \in 1..n : m[k] = l[k]
    BY <1>1, <1>3
  <2>2. 1..n + Replicas = (1..n) \cup (n + 1..n + Replicas)
    BY <1>1
  <2>3. RowsOf(m, b) = {k \in 1..n + Replicas : m[k].success = b}
    BY <1>3 DEF RowsOf
  <2>4. RowsOf(l, b) = {k \in 1..n : m[k].success = b}
    BY <2>1 DEF RowsOf, n
  <2>5. \A k \in 1..n : k \notin n + 1..n + Replicas
    BY <1>1
  <2> QED BY <2>2, <2>3, <2>4, <2>5
<1>5. \A i \in 1..Replicas : m[n + i].success = (i \in ok)
  <2> SUFFICES ASSUME NEW i \in 1..Replicas PROVE m[n + i].success = (i \in ok)
    OBVIOUS
  <2>1. PICK k \in Nat : k = n + i
    BY <1>1
  <2>2. k \in 1..n + Replicas /\ ~(k <= n) /\ k - n = i
    BY <1>1, <2>1
  <2>3. m[k] = c[i]
    BY <2>2, <1>3
  <2> QED BY <2>1, <2>3, <1>2
<1>6. new \subseteq 1..Replicas /\ \A i \in 1..Replicas : i \in new <=> m[n + i].success = b
  <2>1. new \subseteq 1..Replicas
    BY <1>1
  <2>2. \A i \in 1..Replicas : i \in new <=> (i \in ok) = b
    BY <1>1
  <2> HIDE DEF new
  <2> QED BY <2>1, <2>2, <1>5
<1> HIDE DEF new
<1>7. f \in [new -> T]
  <2> SUFFICES ASSUME NEW i \in new PROVE n + i \in T
    OBVIOUS
  <2>1. i \in 1..Replicas /\ m[n + i].success = b
    BY <1>6
  <2>2. n + i \in n + 1..n + Replicas
    BY <1>1, <2>1
  <2> QED BY <2>1, <2>2
<1>8. \A x, y \in new : f[x] = f[y] => x = y
  BY <1>1, <1>6
<1>9. \A z \in T : \E x \in new : f[x] = z
  <2> SUFFICES ASSUME NEW z \in T PROVE \E x \in new : f[x] = z
    OBVIOUS
  <2>1. z \in n + 1..n + Replicas /\ m[z].success = b
    OBVIOUS
  <2>2. z - n \in 1..Replicas /\ n + (z - n) = z
    BY <1>1, <2>1
  <2>3. z - n \in new
    BY <1>6, <2>1, <2>2
  <2> QED BY <2>2, <2>3
<1>10. IsFiniteSet(new)
  <2>1. IsFiniteSet(1..Replicas)
    BY <1>1, FS_Interval
  <2> QED BY <2>1, <1>6, FS_Subset
<1> HIDE DEF f, T
<1>11. IsFiniteSet(T) /\ Cardinality(T) = Cardinality(new)
  BY <1>7, <1>8, <1>9, <1>10, SameSize
<1>12. IsFiniteSet(RowsOf(l, b)) /\ Cardinality(RowsOf(l, b)) \in Nat /\ Cardinality(new) \in Nat
  BY <1>10, RowsFinite, FS_CardinalityType
<1>13. Cardinality(RowsOf(l, b) \cup T)
         = Cardinality(RowsOf(l, b)) + Cardinality(T) - Cardinality(RowsOf(l, b) \cap T)
  BY <1>11, <1>12, FS_Union
<1>14. Cardinality(RowsOf(l, b) \cap T) = 0
  BY <1>4, FS_EmptySet
<1>15. Cardinality(RowsOf(m, b)) = Cardinality(RowsOf(l, b)) + Cardinality(new)
  BY <1>4, <1>11, <1>12, <1>13, <1>14
<1> QED BY <1>3, <1>15 DEF m, c, new

-----------------------------------------------------------------------------
(* The inductive invariant *)

StatsType ==
  /\ DOMAIN stats = {"replicated", "failed", "attempts", "checks", "samples", "latencySum"}
  /\ stats.replicated \in Nat /\ stats.failed \in Nat /\ stats.attempts \in Nat
  /\ stats.checks \in Nat /\ issued \in Nat /\ faults \in 0..MaxFaults

\* A node fails at most once for every heartbeat and every handler.
FailureBound ==
  \E t \in 0..MaxTicks :
    /\ stats.checks = t * (Replicas + 1)
    /\ \A i \in Node : nodes[i].failures <= faults + t

\* The counters, and the rows as they are in the log.
Tally ==
  /\ stats.attempts = issued * Replicas
  /\ stats.attempts = stats.replicated + stats.failed
  /\ stats.replicated = ReplicatedByAll
  /\ replLogs \in Seq(LogRow)
  /\ cleared.replicated \in Nat /\ cleared.failed \in Nat
  /\ Cardinality(RowsOf(replLogs, TRUE)) = stats.replicated - cleared.replicated
  /\ Cardinality(RowsOf(replLogs, FALSE)) = stats.failed - cleared.failed

KeysShown == mu = None => \A i \in Node : nodes[i].keyCount = Cardinality(data)

NodesSafe == \A i \in Node : Safe(nodes[i]) /\ Down(nodes[i])

ClusterInv ==
  TypeOK /\ StatsType /\ TrendInv /\ FailureBound /\ Tally /\ KeysShown /\ NodesSafe

LEMMA DataFinite ==
  ASSUME TypeOK
  PROVE  IsFiniteSet(data) /\ Cardinality(data) \in Nat /\ {k \in Key : Get(k)} = data
<1>1. data \in SUBSET Key
  BY DEF TypeOK
<1>2. IsFiniteSet(data)
  BY <1>1, ClusterAssumption, FS_Subset
<1>3. {k \in Key : Get(k)} = data
  BY <1>1 DEF Get
<1> QED BY <1>2, <1>3, FS_CardinalityType

LEMMA InitInv == Init => ClusterInv
<1> SUFFICES ASSUME Init PROVE ClusterInv
  OBVIOUS
<1> USE DEF Init
<1>1. data \subseteq Key /\ IsFiniteSet(data) /\ Cardinality(data) \in Nat
  <2>1. data \in SUBSET Key
    OBVIOUS
  <2> QED BY <2>1, ClusterAssumption, FS_Subset, FS_CardinalityType
<1> DEFINE node == [failed |-> FALSE, status |-> "Online", failures |-> 0, latency |-> 0, injected |-> 0,
                    delay |-> 0, replicated |-> 0, keyCount |-> Cardinality(data), score |-> 100]
<1>2. node \in NodeState
  <2>1. 0 \in 0..MaxFaults + MaxTicks
    BY ClusterAssumption
  <2> QED BY <1>1, <2>1 DEF NodeState
<1>3. nodes = [i \in Node |-> node] /\ nodes \in [Node -> NodeState]
  BY <1>2
<1>4. Len(trend) = 1 /\ TrendInv
  <2> DEFINE e == [latency |-> 0, delay |-> 0]
  <2>1. trend = <<e>>
    OBVIOUS
  <2> HIDE DEF e, Init
  <2>2. <<e>> \in Seq({e}) /\ Len(<<e>>) = 1
    OBVIOUS
  <2>3. Len(trend) = 1 /\ trend \in Seq({e})
    BY <2>1, <2>2
  <2> QED BY <2>3 DEF TrendInv
<1>5. TypeOK
  <2>1. mu \in {None, "SET", "DELETE"} /\ activity = 1
    OBVIOUS
  <2>2. 1 \in 1..MaxActivity /\ 1 \in 1..MaxTrend
    BY ClusterAssumption
  <2> QED BY <1>1, <1>3, <1>4, <2>1, <2>2 DEF TypeOK
<1>6. StatsType
  <2>1. 0 \in 0..MaxFaults
    BY ClusterAssumption
  <2> QED BY <2>1 DEF StatsType
<1>7. FailureBound
  <2>1. 0 \in 0..MaxTicks /\ 0 * (Replicas + 1) = 0
    BY ClusterAssumption
  <2>2. stats.checks = 0 /\ faults = 0
    OBVIOUS
  <2>3. \A i \in Node : nodes[i].failures = 0
    OBVIOUS
  <2> QED BY <2>1, <2>2, <2>3 DEF FailureBound
<1>8. ReplicatedByAll = 0
  <2>1. PICK f \in [Node -> Nat] : Totals(f) /\ ReplicatedByAll = f[Replicas]
    BY <1>3, TotalLaw
  <2>2. \A i \in Replica : f[i - 1] \in Nat /\ f[i] = f[i - 1]
    <3> SUFFICES ASSUME NEW i \in Replica PROVE f[i - 1] \in Nat /\ f[i] = f[i - 1]
      OBVIOUS
    <3>1. i \in Node /\ i - 1 \in Node
      BY NodeType DEF Replica
    <3>2. nodes[i].replicated = 0
      BY <1>3, <3>1
    <3>3. f[i] = f[i - 1] + nodes[i].replicated
      BY <2>1 DEF Totals
    <3> QED BY <3>1, <3>2, <3>3
  <2> DEFINE z == [i \in 0..Replicas |-> 0]
  <2>3. Alike(f, z, Replicas)
    BY <2>1, <2>2, NodeType DEF Totals, Alike, Replica
  <2>4. \A i \in 0..Replicas : f[i] = z[i]
    BY <2>3, NodeType, RecursionUnique
  <2> QED BY <2>1, <2>4, NodeType
<1>9. Tally
  <2>1. RowsOf(replLogs, TRUE) = {} /\ RowsOf(replLogs, FALSE) = {} /\ replLogs \in Seq(LogRow)
    BY DEF RowsOf
  <2>2. Cardinality({}) = 0
    BY FS_EmptySet
  <2>3. stats.attempts = 0 /\ stats.replicated = 0 /\ stats.failed = 0 /\ issued = 0 /\ 0 * Replicas = 0
    BY ClusterAssumption
  <2>4. cleared.replicated = 0 /\ cleared.failed = 0
    OBVIOUS
  <2>5. Cardinality(RowsOf(replLogs, TRUE)) = 0 /\ Cardinality(RowsOf(replLogs, FALSE)) = 0
    BY <2>1, <2>2
  <2> HIDE DEF Init
  <2>6. stats.attempts = issued * Replicas
    BY <2>3
  <2>7. stats.attempts = stats.replicated + stats.failed /\ stats.replicated = ReplicatedByAll
    BY <1>8, <2>3
  <2>8. /\ Cardinality(RowsOf(replLogs, TRUE)) = stats.replicated - cleared.replicated
        /\ Cardinality(RowsOf(replLogs, FALSE)) = stats.failed - cleared.failed
    <3>1. 0 = 0 - 0
      OBVIOUS
    <3> QED BY <3>1, <2>3, <2>4, <2>5, Zenon
  <2>9. cleared.replicated \in Nat /\ cleared.failed \in Nat
    BY <2>4
  <2> QED BY <2>1, <2>6, <2>7, <2>8, <2>9, Zenon DEF Tally
<1>10. KeysShown
  BY <1>3 DEF KeysShown
<1>11. NodesSafe
  <2>1. node.status = "Online" /\ ~node.failed
    OBVIOUS
  <2> HIDE DEF node
  <2> QED BY <1>3, <2>1 DEF NodesSafe, Safe, Down
<1> QED BY <1>4, <1>5, <1>6, <1>7, <1>9, <1>10, <1>11 DEF ClusterInv

\* A heartbeat is counted, and no more than MaxTicks of them come.
LEMMA CountedBeat ==
  ASSUME NEW t \in 0..MaxTicks, t * (Replicas + 1) < MaxTicks * (Replicas + 1)
  PROVE  t + 1 \in 0..MaxTicks /\ t * (Replicas + 1) + Replicas + 1 = (t + 1) * (Replicas + 1)
<1>1. MaxTicks \in Nat /\ Replicas \in Nat
  BY ClusterAssumption
<1>2. t # MaxTicks
  BY <1>1
<1> QED BY <1>1, <1>2

-----------------------------------------------------------------------------
(* Steps *)

LEMMA TallyKept ==
  ASSUME Tally, nodes \in [Node -> NodeState], nodes' \in [Node -> NodeState],
         \A i \in Node : nodes'[i].replicated = nodes[i].replicated,
         stats'.attempts = stats.attempts, stats'.replicated = stats.replicated,
         stats'.failed = stats.failed, issued' = issued, replLogs' = replLogs, cleared' = cleared
  PROVE  Tally'
<1>1. ReplicatedByAll' = ReplicatedByAll
  BY TotalKept
<1> QED BY <1>1 DEF Tally

\* m is n as a handler or the ticker leaves it, before it is scored.
Touched(m, n) ==
  /\ m \in NodeState /\ Down(m)
  /\ m.replicated = n.replicated /\ m.keyCount = n.keyCount
  /\ m.failures <= n.failures + 1

\* m is n as it is found afterwards.
After(m, n) == Touched(m, n) /\ Safe(m)

LEMMA ScoredAfter ==
  ASSUME NEW m, NEW n, Touched(m, n)
  PROVE  After(Scored(m), n) /\ Scored(m).failed = m.failed /\ Scored(m).status = m.status
<1>1. m \in NodeState
  BY DEF Touched
<1>2. /\ Scored(m) \in NodeState /\ Safe(Scored(m))
      /\ Scored(m).failed = m.failed /\ Scored(m).status = m.status /\ Scored(m).failures = m.failures
      /\ Scored(m).replicated = m.replicated /\ Scored(m).keyCount = m.keyCount
  BY <1>1, ScoredLaw
<1>3. Down(Scored(m))
  BY <1>2 DEF Touched, Down
<1> QED BY <1>2, <1>3 DEF Touched, After

\* What holds of the nodes when each is left so.
LEMMA NodesAfter ==
  ASSUME ClusterInv, nodes' = [i \in Node |-> nodes'[i]], DOMAIN nodes' = Node,
         \A i \in Node : After(nodes'[i], nodes[i]) \/ nodes'[i] = nodes[i]
  PROVE  /\ nodes' \in [Node -> NodeState] /\ NodesSafe'
         /\ \A i \in Node : nodes'[i].replicated = nodes[i].replicated
                            /\ nodes'[i].keyCount = nodes[i].keyCount
         /\ \A i \in Node : nodes[i].failures \in Nat /\ nodes'[i].failures \in Nat
                            /\ nodes'[i].failures <= nodes[i].failures + 1
<1>1. nodes \in [Node -> NodeState] /\ NodesSafe
  BY DEF ClusterInv, TypeOK
<1>2. \A i \in Node : nodes'[i] \in NodeState
  BY <1>1 DEF After, Touched
<1>3. nodes' \in [Node -> NodeState]
  BY <1>2
<1>4. \A n \in NodeState : n.failures \in Nat
  BY ClusterAssumption DEF NodeState
<1>5. \A i \in Node : nodes[i].failures \in Nat /\ nodes'[i].failures \in Nat
  BY <1>1, <1>2, <1>4
<1>6. NodesSafe'
  BY <1>1 DEF NodesSafe, After, Touched
<1>7. \A i \in Node : nodes'[i].replicated = nodes[i].replicated /\ nodes'[i].keyCount = nodes[i].keyCount
  BY DEF After, Touched
<1>8. \A i \in Node : nodes'[i].failures <= nodes[i].failures + 1
  BY <1>5 DEF After, Touched
<1> QED BY <1>3, <1>5, <1>6, <1>7, <1>8

LEMMA StatsStep ==
  ASSUME StatsType, stats' = stats, issued' = issued, faults' \in 0..MaxFaults
  PROVE  StatsType'
BY DEF StatsType

\* The state that a heartbeat gives a node.
LEMMA BeatLaw ==
  ASSUME NEW n \in NodeState, Down(n), NEW l \in Int, n.failures + 1 <= MaxFaults + MaxTicks
  PROVE  LET m == IF ~n.failed
                    THEN [n EXCEPT !.status = "Online", !.latency = l, !.failures = 0]
                    ELSE [n EXCEPT !.status = "Offline", !.failures = @ + 1]
         IN  Touched(m, n) /\ m.failed = n.failed
<1>1. n.failures \in Nat /\ 0 \in 0..MaxFaults + MaxTicks /\ n.failures + 1 \in 0..MaxFaults + MaxTicks
  BY ClusterAssumption DEF NodeState
<1>2. CASE ~n.failed
  <2> DEFINE m == [n EXCEPT !.status = "Online", !.latency = l, !.failures = 0]
  <2>1. m \in NodeState
    BY <1>1 DEF NodeState
  <2>2. /\ m.failed = n.failed /\ m.replicated = n.replicated /\ m.keyCount = n.keyCount /\ m.failures = 0
    BY DEF NodeState
  <2>3. Touched(m, n)
    <3> HIDE DEF m
    <3> QED BY <1>1, <1>2, <2>1, <2>2 DEF Touched, Down
  <2> QED BY <1>2, <2>2, <2>3
<1>3. CASE n.failed
  <2> DEFINE m == [n EXCEPT !.status = "Offline", !.failures = @ + 1]
  <2>1. m \in NodeState
    BY <1>1 DEF NodeState
  <2>2. /\ m.failed = n.failed /\ m.replicated = n.replicated /\ m.keyCount = n.keyCount
        /\ m.failures = n.failures + 1 /\ m.status = "Offline"
    BY DEF NodeState
  <2>3. Touched(m, n)
    <3> HIDE DEF m
    <3> QED BY <1>1, <1>3, <2>1, <2>2 DEF Touched, Down
  <2> QED BY <1>3, <2>2, <2>3
<1>4. n.failed \in BOOLEAN
  BY DEF NodeState
<1> QED BY <1>2, <1>3, <1>4

LEMMA TickInv == ClusterInv /\ tickHeartbeat => ClusterInv'
<1> SUFFICES ASSUME ClusterInv, tickHeartbeat PROVE ClusterInv'
  OBVIOUS
<1> DEFINE latency(i) == 2 + i * 3 + Injected(nodes[i])
           up == {i \in Node : ~nodes[i].failed}
           m(i) == IF i \in up
                     THEN [nodes[i] EXCEPT !.status = "Online", !.latency = latency(i), !.failures = 0]
                     ELSE [nodes[i] EXCEPT !.status = "Offline", !.failures = @ + 1]
<1>1. TypeOK /\ StatsType /\ TrendInv /\ FailureBound /\ Tally /\ KeysShown /\ NodesSafe
  BY DEF ClusterInv
<1>2. /\ mu = None /\ stats.checks < MaxTicks * (Replicas + 1)
      /\ nodes' = [i \in Node |-> Scored(m(i))]
      /\ UNCHANGED <<mu, data, replLogs, issued, cleared, faults>>
  BY DEF tickHeartbeat
<1>3. /\ DOMAIN stats' = DOMAIN stats
      /\ stats'.attempts = stats.attempts /\ stats'.replicated = stats.replicated
      /\ stats'.failed = stats.failed /\ stats'.checks = stats.checks + Replicas + 1
  <2>1. \E s, l : stats' = [stats EXCEPT !.checks = @ + Replicas + 1, !.samples = s, !.latencySum = l]
    BY DEF tickHeartbeat
  <2> QED BY <1>1, <2>1 DEF StatsType
<1>4. PICK t \in 0..MaxTicks : /\ stats.checks = t * (Replicas + 1)
                               /\ \A i \in Node : nodes[i].failures <= faults + t
  BY <1>1 DEF FailureBound
<1>5. t + 1 \in 0..MaxTicks /\ stats'.checks = (t + 1) * (Replicas + 1)
  BY <1>2, <1>3, <1>4, CountedBeat
<1>6. ASSUME NEW i \in Node PROVE After(Scored(m(i)), nodes[i])
  <2> DEFINE n == nodes[i]
  <2>1. n \in NodeState /\ Down(n)
    BY <1>1 DEF TypeOK, NodesSafe
  <2>2. latency(i) \in Int
    <3>1. n.injected \in Int
      BY <2>1 DEF NodeState
    <3>2. Injected(n) \in Int /\ i \in Int
      BY <3>1, NodeType DEF Injected
    <3> QED BY <3>2
  <2>3. n.failures + 1 <= MaxFaults + MaxTicks
    <3>1. n.failures \in Nat /\ n.failures <= faults + t
      BY <1>4, <2>1, ClusterAssumption DEF NodeState
    <3>2. faults \in 0..MaxFaults
      BY <1>1 DEF StatsType
    <3> QED BY <3>1, <3>2, <1>5, ClusterAssumption
  <2>4. i \in up <=> ~n.failed
    OBVIOUS
  <2> HIDE DEF latency, up
  <2>5. m(i) = IF ~n.failed
                 THEN [n EXCEPT !.status = "Online", !.latency = latency(i), !.failures = 0]
                 ELSE [n EXCEPT !.status = "Offline", !.failures = @ + 1]
    BY <2>4
  <2> HIDE DEF m, n
  <2>6. Touched(m(i), n)
    BY <2>1, <2>2, <2>3, <2>5, BeatLaw
  <2>7. After(Scored(m(i)), n)
    BY <2>6, ScoredAfter
  <2> QED BY <2>7 DEF n
<1> HIDE DEF m
<1>7. /\ nodes' = [i \in Node |-> nodes'[i]] /\ DOMAIN nodes' = Node
      /\ \A i \in Node : After(nodes'[i], nodes[i])
  BY <1>2, <1>6
<1>8. /\ nodes' \in [Node -> NodeState] /\ NodesSafe'
      /\ \A i \in Node : nodes'[i].replicated = nodes[i].replicated
                         /\ nodes'[i].keyCount = nodes[i].keyCount
      /\ \A i \in Node : nodes[i].failures \in Nat /\ nodes'[i].failures \in Nat
                         /\ nodes'[i].failures <= nodes[i].failures + 1
  BY <1>7, NodesAfter
<1>9. Tally'
  BY <1>1, <1>2, <1>3, <1>8, TallyKept DEF TypeOK
<1>10. FailureBound'
  <2>1. \A i \in Node : nodes'[i].failures <= faults' + (t + 1)
    <3> SUFFICES ASSUME NEW i \in Node PROVE nodes'[i].failures <= faults' + (t + 1)
      OBVIOUS
    <3>1. faults' = faults /\ faults \in Nat
      BY <1>1, <1>2, ClusterAssumption DEF StatsType
    <3>2. nodes[i].failures \in Nat /\ nodes'[i].failures \in Nat
          /\ nodes'[i].failures <= nodes[i].failures + 1 /\ nodes[i].failures <= faults + t
      BY <1>4, <1>8
    <3> QED BY <3>1, <3>2
  <2> QED BY <1>5, <2>1 DEF FailureBound
<1>11. StatsType'
  BY <1>1, <1>2, <1>3, ClusterAssumption DEF StatsType
<1>12. KeysShown'
  BY <1>1, <1>2, <1>8 DEF KeysShown
<1>13. TrendInv' /\ Len(trend') \in 1..MaxTrend
  <2>1. \E a, b : recordHistory(a, b)
    BY DEF tickHeartbeat
  <2> QED BY <1>1, <2>1, HistoryLaw DEF TypeOK
<1>14. activity' \in 1..MaxActivity
  <2>1. Logged(Cardinality(Node \ up))
    BY DEF tickHeartbeat
  <2>2. Cardinality(Node \ up) \in Nat
    <3>1. IsFiniteSet(Node)
      BY NodeType, FS_Interval
    <3>2. IsFiniteSet(Node \ up)
      BY <3>1, FS_Difference
    <3> QED BY <3>2, FS_CardinalityType
  <2> QED BY <1>1, <2>1, <2>2, LoggedLaw DEF TypeOK
<1>15. TypeOK'
  BY <1>1, <1>2, <1>8, <1>13, <1>14 DEF TypeOK
<1> QED BY <1>8, <1>9, <1>10, <1>11, <1>12, <1>13, <1>15 DEF ClusterInv

\* A handler on a node that keeps its counts and fails it at most once.
LEMMA OnNodeInv ==
  ASSUME ClusterInv, NEW i \in Node, NEW n, OnNode(i, n), Touched(n, nodes[i])
  PROVE  ClusterInv'
<1>1. TypeOK /\ StatsType /\ TrendInv /\ FailureBound /\ Tally /\ KeysShown /\ NodesSafe
  BY DEF ClusterInv
<1>2. /\ mu = None /\ faults < MaxFaults /\ faults' = faults + 1
      /\ nodes' = [nodes EXCEPT ![i] = Scored(n)] /\ Logged(1)
      /\ UNCHANGED <<mu, data, stats, replLogs, trend, issued, cleared>>
  BY DEF OnNode
<1>3. nodes \in [Node -> NodeState]
  BY <1>1 DEF TypeOK
<1>4. /\ nodes' = [j \in Node |-> nodes'[j]] /\ DOMAIN nodes' = Node
      /\ \A j \in Node : After(nodes'[j], nodes[j]) \/ nodes'[j] = nodes[j]
  <2>1. After(Scored(n), nodes[i])
    BY ScoredAfter
  <2> QED BY <1>2, <1>3, <2>1
<1>5. /\ nodes' \in [Node -> NodeState] /\ NodesSafe'
      /\ \A j \in Node : nodes'[j].replicated = nodes[j].replicated
                         /\ nodes'[j].keyCount = nodes[j].keyCount
      /\ \A j \in Node : nodes[j].failures \in Nat /\ nodes'[j].failures \in Nat
                         /\ nodes'[j].failures <= nodes[j].failures + 1
  BY <1>4, NodesAfter
<1>6. Tally'
  BY <1>1, <1>2, <1>3, <1>5, TallyKept
<1>7. faults \in Nat /\ faults' \in 0..MaxFaults
  BY <1>1, <1>2, ClusterAssumption DEF StatsType
<1>8. FailureBound'
  <2>1. PICK t \in 0..MaxTicks : /\ stats.checks = t * (Replicas + 1)
                                 /\ \A j \in Node : nodes[j].failures <= faults + t
    BY <1>1 DEF FailureBound
  <2>2. \A j \in Node : nodes'[j].failures <= faults' + t
    <3> SUFFICES ASSUME NEW j \in Node PROVE nodes'[j].failures <= faults' + t
      OBVIOUS
    <3>1. nodes[j].failures \in Nat /\ nodes'[j].failures \in Nat
          /\ nodes'[j].failures <= nodes[j].failures + 1 /\ nodes[j].failures <= faults + t
      BY <1>5, <2>1
    <3> QED BY <3>1, <1>2, <1>7
  <2> QED BY <1>2, <2>1, <2>2 DEF FailureBound
<1>9. StatsType'
  BY <1>1, <1>2, <1>7, StatsStep
<1>10. KeysShown'
  BY <1>1, <1>2, <1>5 DEF KeysShown
<1>11. TrendInv'
  BY <1>1, <1>2 DEF TrendInv
<1>12. activity' \in 1..MaxActivity
  BY <1>1, <1>2, LoggedLaw DEF TypeOK
<1>13. TypeOK'
  BY <1>1, <1>2, <1>5, <1>12 DEF TypeOK
<1> QED BY <1>5, <1>6, <1>8, <1>9, <1>10, <1>11, <1>13 DEF ClusterInv

LEMMA NodeInv ==
  ASSUME ClusterInv, NEW i \in Node
  PROVE  nodes[i] \in NodeState /\ Down(nodes[i])
BY DEF ClusterInv, TypeOK, NodesSafe

\* A handler on node i does no more than OnNodeInv allows.
Handled(i) == \E n : OnNode(i, n) /\ Touched(n, nodes[i])

LEMMA FailureHandled ==
  ASSUME ClusterInv, NEW i \in Node, SimulateNodeFailure(i)
  PROVE  Handled(i)
<1> DEFINE n == nodes[i]
           m == [n EXCEPT !.failed = TRUE, !.status = "Offline", !.failures = @ + 1]
<1>1. n \in NodeState /\ Down(n)
  BY NodeInv
<1>2. OnNode(i, m)
  BY DEF SimulateNodeFailure
<1>3. n.failures \in Nat /\ n.failures + 1 \in 0..MaxFaults + MaxTicks
  <2>1. PICK t \in 0..MaxTicks : n.failures <= faults + t
    BY DEF ClusterInv, FailureBound
  <2>2. faults \in 0..MaxFaults /\ faults < MaxFaults
    BY <1>2 DEF ClusterInv, StatsType, OnNode
  <2>3. n.failures \in Nat
    BY <1>1, ClusterAssumption DEF NodeState
  <2> QED BY <2>1, <2>2, <2>3, ClusterAssumption
<1>4. m \in NodeState
  BY <1>1, <1>3 DEF NodeState
<1>5. /\ m.replicated = n.replicated /\ m.keyCount = n.keyCount
      /\ m.failures = n.failures + 1 /\ m.status = "Offline"
  BY <1>1 DEF NodeState
<1> HIDE DEF m
<1>6. Touched(m, n)
  BY <1>3, <1>4, <1>5 DEF Touched, Down
<1> QED BY <1>2, <1>6 DEF Handled

LEMMA RecoverHandled ==
  ASSUME ClusterInv, NEW i \in Node, RecoverNode(i)
  PROVE  Handled(i)
<1> DEFINE n == nodes[i]
           m == [n EXCEPT !.failed = FALSE, !.status = "Online", !.failures = 0]
<1>1. n \in NodeState
  BY NodeInv
<1>2. OnNode(i, m)
  BY DEF RecoverNode
<1>3. n.failures \in Nat /\ 0 \in 0..MaxFaults + MaxTicks
  BY <1>1, ClusterAssumption DEF NodeState
<1>4. m \in NodeState
  BY <1>1, <1>3 DEF NodeState
<1>5. m.replicated = n.replicated /\ m.keyCount = n.keyCount /\ m.failures = 0 /\ ~m.failed
  BY <1>1 DEF NodeState
<1> HIDE DEF m
<1>6. Touched(m, n)
  BY <1>3, <1>4, <1>5 DEF Touched, Down
<1> QED BY <1>2, <1>6 DEF Handled

\* n with another latency, injected or not.
LEMMA LatencyLaw ==
  ASSUME NEW n \in NodeState, Down(n), NEW a \in Int, NEW b \in Int
  PROVE  Touched([n EXCEPT !.injected = a, !.latency = b], n)
<1> DEFINE m == [n EXCEPT !.injected = a, !.latency = b]
<1>1. m \in NodeState
  BY DEF NodeState
<1>2. /\ m.replicated = n.replicated /\ m.keyCount = n.keyCount /\ m.failures = n.failures
      /\ m.failed = n.failed /\ m.status = n.status
  BY DEF NodeState
<1>3. n.failures \in Nat
  BY ClusterAssumption DEF NodeState
<1> HIDE DEF m
<1>4. Touched(m, n)
  BY <1>1, <1>2, <1>3 DEF Touched, Down
<1> QED BY <1>4 DEF m

LEMMA LatencyHandled ==
  ASSUME ClusterInv, NEW i \in Node,
         ClearLatency(i) \/ \E ms \in Milliseconds : InjectLatency(i, ms)
  PROVE  Handled(i)
<1>1. nodes[i] \in NodeState /\ Down(nodes[i])
  BY NodeInv
<1>2. PICK a \in Int, b \in Int : OnNode(i, [nodes[i] EXCEPT !.injected = a, !.latency = b])
  <2>1. CASE ClearLatency(i)
    <3>1. OnNode(i, [nodes[i] EXCEPT !.injected = 0, !.latency = 0])
      BY <2>1 DEF ClearLatency
    <3>2. 0 \in Int
      OBVIOUS
    <3> QED BY <3>1, <3>2, Zenon
  <2>2. ASSUME NEW ms \in Milliseconds, InjectLatency(i, ms)
        PROVE  \E a \in Int, b \in Int : OnNode(i, [nodes[i] EXCEPT !.injected = a, !.latency = b])
    <3>1. OnNode(i, [nodes[i] EXCEPT !.injected = ms, !.latency = ms + 5])
      BY <2>2 DEF InjectLatency
    <3>2. ms \in Int /\ ms + 5 \in Int
      BY ClusterAssumption
    <3> QED BY <3>1, <3>2
  <2> QED BY <2>1, <2>2
<1>3. Touched([nodes[i] EXCEPT !.injected = a, !.latency = b], nodes[i])
  BY <1>1, LatencyLaw
<1> QED BY <1>2, <1>3 DEF Handled

\* The disjuncts of Next that are handlers on a node.
OnSomeNode ==
  \E i \in Node :
    \/ SimulateNodeFailure(i)
    \/ RecoverNode(i)
    \/ \E ms \in Milliseconds : InjectLatency(i, ms)
    \/ ClearLatency(i)

LEMMA NodeHandled == ClusterInv /\ OnSomeNode => \E i \in Node : Handled(i)
BY FailureHandled, RecoverHandled, LatencyHandled DEF OnSomeNode

LEMMA HandledInv == ClusterInv /\ OnSomeNode => ClusterInv'
BY NodeHandled, OnNodeInv DEF Handled

\* The first step of a SET or a DELETE: the nodes show the old number of keys.
LEMMA StoreInv == ClusterInv /\ (\E k \in Key : SetKey(k) \/ DeleteKey(k)) => ClusterInv'
<1> SUFFICES ASSUME ClusterInv, NEW k \in Key, SetKey(k) \/ DeleteKey(k) PROVE ClusterInv'
  OBVIOUS
<1>1. TypeOK /\ StatsType /\ TrendInv /\ FailureBound /\ Tally /\ KeysShown /\ NodesSafe
  BY DEF ClusterInv
<1>2. /\ mu' \in {"SET", "DELETE"} /\ data' \subseteq Key
      /\ UNCHANGED <<nodes, stats, activity, replLogs, trend, issued, cleared, faults>>
  BY <1>1 DEF SetKey, DeleteKey, TypeOK
<1>3. TypeOK'
  BY <1>1, <1>2 DEF TypeOK
<1>4. Tally'
  <2>1. ReplicatedByAll' = ReplicatedByAll
    BY <1>2 DEF ReplicatedByAll
  <2> QED BY <1>1, <1>2, <2>1 DEF Tally
<1>5. StatsType' /\ FailureBound' /\ TrendInv' /\ NodesSafe'
  BY <1>1, <1>2 DEF StatsType, FailureBound, TrendInv, NodesSafe
<1>6. KeysShown'
  BY <1>2 DEF KeysShown, None
<1> QED BY <1>3, <1>4, <1>5, <1>6 DEF ClusterInv

LEMMA ClearLogsInv == ClusterInv /\ ClearLogs => ClusterInv'
<1> SUFFICES ASSUME ClusterInv, ClearLogs PROVE ClusterInv'
  OBVIOUS
<1>1. TypeOK /\ StatsType /\ TrendInv /\ FailureBound /\ Tally /\ KeysShown /\ NodesSafe
  BY DEF ClusterInv
<1>2. /\ activity' = 1 /\ replLogs' = <<>>
      /\ cleared' = [replicated |-> stats.replicated, failed |-> stats.failed]
      /\ UNCHANGED <<mu, data, nodes, stats, trend, issued, faults>>
  BY DEF ClearLogs
<1>3. TypeOK'
  BY <1>1, <1>2, ClusterAssumption DEF TypeOK
<1>4. /\ replLogs' \in Seq(LogRow)
      /\ Cardinality(RowsOf(replLogs', TRUE)) = 0 /\ Cardinality(RowsOf(replLogs', FALSE)) = 0
  <2>1. <<>> \in Seq(LogRow) /\ RowsOf(<<>>, TRUE) = {} /\ RowsOf(<<>>, FALSE) = {}
    BY DEF RowsOf
  <2>2. replLogs' = <<>>
    BY <1>2
  <2> QED BY <2>1, <2>2, FS_EmptySet, Zenon
<1>5. /\ stats.replicated \in Nat /\ stats.failed \in Nat
      /\ stats.replicated - stats.replicated = 0 /\ stats.failed - stats.failed = 0
  BY <1>1 DEF StatsType
<1>6. cleared'.replicated = stats.replicated /\ cleared'.failed = stats.failed
  BY <1>2
<1>7. Tally'
  <2>1. ReplicatedByAll' = ReplicatedByAll
    BY <1>2 DEF ReplicatedByAll
  <2>2. stats' = stats /\ issued' = issued
    BY <1>2
  <2>3. /\ stats.attempts = issued * Replicas /\ stats.attempts = stats.replicated + stats.failed
        /\ stats.replicated = ReplicatedByAll
    BY <1>1 DEF Tally
  <2>4. /\ Cardinality(RowsOf(replLogs', TRUE)) = stats.replicated - cleared'.replicated
        /\ Cardinality(RowsOf(replLogs', FALSE)) = stats.failed - cleared'.failed
    BY <1>4, <1>5, <1>6, Zenon
  <2> QED BY <2>1, <2>2, <2>3, <2>4, <1>4, <1>5, <1>6, Zenon DEF Tally
<1>8. StatsType' /\ FailureBound' /\ TrendInv' /\ NodesSafe' /\ KeysShown'
  BY <1>1, <1>2 DEF StatsType, FailureBound, TrendInv, NodesSafe, KeysShown
<1> QED BY <1>3, <1>7, <1>8 DEF ClusterInv

\* What the second step makes of node i.
LEMMA ReplicatedLaw ==
  ASSUME ClusterInv, NEW i \in Node
  PROVE  /\ Replicated(i) \in NodeState /\ Safe(Replicated(i)) /\ Down(Replicated(i))
         /\ Replicated(i).keyCount = Cardinality(data)
         /\ Replicated(i).failures = nodes[i].failures /\ Replicated(i).failed = nodes[i].failed
         /\ Replicated(i).replicated =
              nodes[i].replicated + (IF i \in Replica /\ ~nodes[i].failed THEN 1 ELSE 0)
<1> DEFINE n == nodes[i]
           r == refreshKeyCount(n)
<1>1. n \in NodeState /\ Down(n) /\ Safe(n)
  BY DEF ClusterInv, TypeOK, NodesSafe
<1>2. Cardinality(data) \in Nat
  BY DataFinite DEF ClusterInv
<1>3. r \in NodeState
  BY <1>1, <1>2 DEF refreshKeyCount, NodeState
<1>4. /\ r.keyCount = Cardinality(data) /\ r.failures = n.failures /\ r.failed = n.failed
      /\ r.status = n.status /\ r.latency = n.latency /\ r.score = n.score
      /\ r.replicated = n.replicated /\ r.injected = n.injected
  BY <1>1 DEF refreshKeyCount, NodeState
<1>5. n.replicated \in Nat /\ n.failed \in BOOLEAN
  BY <1>1 DEF NodeState
<1> HIDE DEF r
<1>6. CASE i \notin Replica
  <2>1. Replicated(i) = r
    BY <1>6 DEF Replicated, r
  <2>2. Safe(r) /\ Down(r)
    BY <1>1, <1>4 DEF Safe, Down
  <2> QED BY <1>3, <1>4, <1>5, <1>6, <2>1, <2>2
<1>7. CASE i \in Replica /\ r.failed
  <2> DEFINE v == calculateHealth("Offline", r.latency, r.failures + 1, 0)
             m == [r EXCEPT !.delay = 0, !.score = v]
  <2>1. Replicated(i) = m
    BY <1>7 DEF Replicated, r
  <2>2. v \in Nat /\ (r.latency >= 0 => v < 80)
    <3>1. r.latency \in Int /\ r.failures + 1 \in Nat /\ 0 \in Nat
      BY <1>3, ClusterAssumption DEF NodeState
    <3> QED BY <3>1, HealthLaw
  <2> HIDE DEF v
  <2>3. m \in NodeState
    BY <1>3, <2>2 DEF NodeState
  <2>4. /\ m.keyCount = r.keyCount /\ m.failures = r.failures /\ m.failed = r.failed
        /\ m.status = r.status /\ m.latency = r.latency /\ m.replicated = r.replicated /\ m.score = v
    BY <1>3 DEF NodeState
  <2> HIDE DEF m
  <2>5. Down(m)
    BY <1>1, <1>4, <2>4 DEF Down
  <2>6. Safe(m)
    <3> SUFFICES ASSUME HealthStatus(v) = "Healthy", ~(r.latency < 0) PROVE FALSE
      BY <2>4 DEF Safe
    <3>1. v >= 80
      BY <2>2, HealthyScore
    <3>2. r.latency \in Int
      BY <1>3 DEF NodeState
    <3> QED BY <2>2, <3>1, <3>2
  <2> QED BY <1>4, <1>5, <1>7, <2>1, <2>3, <2>4, <2>5, <2>6
<1>8. CASE i \in Replica /\ ~r.failed
  <2> DEFINE d == 4 + i * 2 + Injected(r)
             m == [r EXCEPT !.replicated = @ + 1, !.delay = d]
  <2>1. Replicated(i) = Scored(m)
    BY <1>8 DEF Replicated, r
  <2>2. d \in Nat
    <3>1. r.injected \in Int /\ i \in Nat
      BY <1>3, NodeType DEF NodeState
    <3>2. Injected(r) \in Nat
      BY <3>1 DEF Injected
    <3> QED BY <3>1, <3>2
  <2> HIDE DEF d
  <2>3. m \in NodeState
    <3>1. r.replicated \in Nat /\ r.replicated + 1 \in Nat
      BY <1>3 DEF NodeState
    <3> QED BY <1>3, <2>2, <3>1 DEF NodeState
  <2>4. /\ m.keyCount = r.keyCount /\ m.failures = r.failures /\ m.failed = r.failed
        /\ m.status = r.status /\ m.replicated = r.replicated + 1
    BY <1>3 DEF NodeState
  <2> HIDE DEF m
  <2>5. /\ Scored(m) \in NodeState /\ Safe(Scored(m))
        /\ Scored(m).failed = m.failed /\ Scored(m).status = m.status /\ Scored(m).failures = m.failures
        /\ Scored(m).replicated = m.replicated /\ Scored(m).keyCount = m.keyCount
    BY <2>3, ScoredLaw
  <2>6. Down(Scored(m))
    BY <1>8, <2>4, <2>5 DEF Down
  <2> QED BY <1>4, <1>5, <1>8, <2>1, <2>4, <2>5, <2>6
<1> QED BY <1>4, <1>5, <1>6, <1>7, <1>8

LEMMA ReplicateInv == ClusterInv /\ replicateCommand => ClusterInv'
<1> SUFFICES ASSUME ClusterInv, replicateCommand PROVE ClusterInv'
  OBVIOUS
<1> DEFINE ok == {i \in Replica : ~nodes[i].failed}
           rows == [i \in Replica |-> [target |-> i, success |-> i \in ok]]
<1>1. TypeOK /\ StatsType /\ TrendInv /\ FailureBound /\ Tally /\ NodesSafe
  BY DEF ClusterInv
<1>2. /\ nodes' = [i \in Node |-> Replicated(i)]
      /\ replLogs' = replLogs \o rows
      /\ issued' = issued + 1 /\ mu' = None
      /\ UNCHANGED <<data, cleared, faults>>
  BY DEF replicateCommand
<1>3. /\ stats' = [stats EXCEPT !.attempts = @ + Cardinality(Replica),
                                !.replicated = @ + Cardinality(ok),
                                !.failed = @ + Cardinality(Replica \ ok)]
  BY DEF replicateCommand
<1>4. ok \in SUBSET Replica
  OBVIOUS
<1>5. /\ IsFiniteSet(Replica) /\ Cardinality(Replica) = Replicas /\ Replicas \in Nat
  <2>1. Replicas \in Nat
    BY NodeType
  <2>2. IsFiniteSet(1..Replicas) /\ Cardinality(1..Replicas) = IF 1 > Replicas THEN 0 ELSE Replicas - 1 + 1
    BY <2>1, FS_Interval
  <2> QED BY <2>1, <2>2 DEF Replica
<1>6. \A i \in Node :
        /\ nodes'[i] \in NodeState /\ Safe(nodes'[i]) /\ Down(nodes'[i])
        /\ nodes'[i].keyCount = Cardinality(data) /\ nodes'[i].failures = nodes[i].failures
        /\ nodes'[i].replicated =
             nodes[i].replicated + (IF i \in Replica /\ ~nodes[i].failed THEN 1 ELSE 0)
  BY <1>2, ReplicatedLaw
<1>7. nodes \in [Node -> NodeState] /\ nodes' \in [Node -> NodeState]
  BY <1>1, <1>2, <1>6 DEF TypeOK
<1>8. \A i \in Replica : nodes'[i].replicated = nodes[i].replicated + (IF i \in ok THEN 1 ELSE 0)
  BY <1>6, NodeType
<1> HIDE DEF ok
<1>9. /\ Cardinality(ok) \in Nat /\ Cardinality(Replica \ ok) \in Nat
      /\ Cardinality(ok) + Cardinality(Replica \ ok) = Replicas
  <2>1. IsFiniteSet(ok)
    BY <1>4, <1>5, FS_Subset
  <2>2. Replica \cap ok = ok
    BY <1>4
  <2>3. /\ IsFiniteSet(Replica \ ok)
        /\ Cardinality(Replica \ ok) = Cardinality(Replica) - Cardinality(Replica \cap ok)
    BY <1>5, FS_Difference
  <2>4. Cardinality(ok) \in Nat /\ Cardinality(Replica \ ok) \in Nat
    BY <2>1, <2>3, FS_CardinalityType
  <2> QED BY <1>5, <2>2, <2>3, <2>4
<1>10. /\ DOMAIN stats' = DOMAIN stats /\ stats'.checks = stats.checks
       /\ stats'.attempts = stats.attempts + Replicas
       /\ stats'.replicated = stats.replicated + Cardinality(ok)
       /\ stats'.failed = stats.failed + Cardinality(Replica \ ok)
  BY <1>1, <1>3, <1>5 DEF StatsType
<1>11. ReplicatedByAll' = ReplicatedByAll + Cardinality(ok)
  BY <1>4, <1>7, <1>8, TotalGrows
<1>12. /\ replLogs \in Seq(LogRow) /\ replLogs' \in Seq(LogRow)
       /\ Cardinality(RowsOf(replLogs', TRUE)) = Cardinality(RowsOf(replLogs, TRUE)) + Cardinality(ok)
       /\ Cardinality(RowsOf(replLogs', FALSE))
            = Cardinality(RowsOf(replLogs, FALSE)) + Cardinality(Replica \ ok)
  <2>1. replLogs \in Seq(LogRow)
    BY <1>1 DEF Tally
  <2> HIDE DEF rows
  <2>2. \A b \in BOOLEAN :
          /\ replLogs \o rows \in Seq(LogRow)
          /\ Cardinality(RowsOf(replLogs \o rows, b))
               = Cardinality(RowsOf(replLogs, b)) + Cardinality(IF b THEN ok ELSE Replica \ ok)
    BY <2>1, <1>4, RowsAppend DEF rows
  <2>3. /\ Cardinality(RowsOf(replLogs \o rows, TRUE)) = Cardinality(RowsOf(replLogs, TRUE)) + Cardinality(ok)
        /\ Cardinality(RowsOf(replLogs \o rows, FALSE))
             = Cardinality(RowsOf(replLogs, FALSE)) + Cardinality(Replica \ ok)
        /\ replLogs \o rows \in Seq(LogRow)
    BY <2>2
  <2> QED BY <2>1, <2>3, <1>2
<1> HIDE DEF rows
<1>13. Tally'
  <2>1. stats.attempts = issued * Replicas /\ issued \in Nat /\ stats.attempts \in Nat
    BY <1>1 DEF Tally, StatsType
  <2>2. stats'.attempts = issued' * Replicas
    BY <2>1, <1>2, <1>5, <1>10
  <2>3. stats'.attempts = stats'.replicated + stats'.failed /\ stats'.replicated = ReplicatedByAll'
    BY <1>1, <1>9, <1>10, <1>11 DEF Tally, StatsType
  <2>4. /\ stats.replicated \in Nat /\ stats.failed \in Nat
        /\ cleared.replicated \in Nat /\ cleared.failed \in Nat /\ cleared' = cleared
        /\ Cardinality(RowsOf(replLogs, TRUE)) = stats.replicated - cleared.replicated
        /\ Cardinality(RowsOf(replLogs, FALSE)) = stats.failed - cleared.failed
    BY <1>1, <1>2 DEF Tally, StatsType
  <2> DEFINE s == Cardinality(RowsOf(replLogs, TRUE))
             s2 == Cardinality(RowsOf(replLogs', TRUE))
             f == Cardinality(RowsOf(replLogs, FALSE))
             f2 == Cardinality(RowsOf(replLogs', FALSE))
  <2>7. /\ s = stats.replicated - cleared.replicated /\ s2 = s + Cardinality(ok)
        /\ f = stats.failed - cleared.failed /\ f2 = f + Cardinality(Replica \ ok)
    BY <2>4, <1>12, Zenon
  <2> HIDE DEF s, s2, f, f2
  <2>8. s2 = stats'.replicated - cleared'.replicated /\ f2 = stats'.failed - cleared'.failed
    BY <2>4, <2>7, <1>9, <1>10
  <2>5. Cardinality(RowsOf(replLogs', TRUE)) = stats'.replicated - cleared'.replicated
    BY <2>8 DEF s2
  <2>6. Cardinality(RowsOf(replLogs', FALSE)) = stats'.failed - cleared'.failed
    BY <2>8 DEF f2
  <2> QED BY <2>2, <2>3, <2>4, <2>5, <2>6, <1>12 DEF Tally
<1>14. StatsType'
  BY <1>1, <1>2, <1>9, <1>10, <1>5 DEF StatsType
<1>15. FailureBound' /\ NodesSafe' /\ KeysShown'
  <2>1. FailureBound'
    BY <1>1, <1>2, <1>6, <1>10 DEF FailureBound
  <2>2. NodesSafe' /\ KeysShown'
    BY <1>2, <1>6 DEF NodesSafe, KeysShown
  <2> QED BY <2>1, <2>2
<1>16. TrendInv' /\ Len(trend') \in 1..MaxTrend
  <2>1. \E a, b : recordHistory(a, b)
    BY DEF replicateCommand
  <2> QED BY <1>1, <2>1, HistoryLaw DEF TypeOK
<1>17. activity' \in 1..MaxActivity
  <2>1. Logged(1 + Cardinality(Replica)) /\ 1 + Cardinality(Replica) \in Nat
    BY <1>5 DEF replicateCommand
  <2> QED BY <1>1, <2>1, LoggedLaw DEF TypeOK
<1>18. TypeOK'
  BY <1>1, <1>2, <1>7, <1>16, <1>17 DEF TypeOK
<1> QED BY <1>13, <1>14, <1>15, <1>16, <1>18 DEF ClusterInv

LEMMA StutterInv == ClusterInv /\ UNCHANGED vars => ClusterInv'
<1> SUFFICES ASSUME ClusterInv, UNCHANGED vars PROVE ClusterInv'
  OBVIOUS
<1>1. ReplicatedByAll' = ReplicatedByAll
  BY DEF ReplicatedByAll, vars
<1>2. Tally'
  BY <1>1 DEF ClusterInv, Tally, vars
<1>3. TypeOK' /\ StatsType' /\ TrendInv' /\ FailureBound' /\ KeysShown' /\ NodesSafe'
  BY DEF ClusterInv, TypeOK, StatsType, TrendInv, FailureBound, KeysShown, NodesSafe, vars
<1> QED BY <1>2, <1>3 DEF ClusterInv

LEMMA NextInv == ClusterInv /\ [Next]_vars => ClusterInv'
BY TickInv, ReplicateInv, ClearLogsInv, StoreInv, HandledInv, StutterInv DEF Next, OnSomeNode

LEMMA Invariant == Spec => []ClusterInv
BY InitInv, NextInv, PTL DEF Spec

-----------------------------------------------------------------------------
(* The results *)

\* Every field keeps its range; the logs and trends stay within their limits
\* and a node's count of failures within the heartbeats and handlers there were.
THEOREM TypeCorrect == Spec => []TypeOK
<1>1. ClusterInv => TypeOK
  BY DEF ClusterInv
<1> QED BY <1>1, Invariant, PTL

LEMMA SuccessRateLaw ==
  ASSUME NEW a \in Nat, NEW f \in 0..a, a # 0
  PROVE  ((a - f) * 100) \div a = 100 <=> f = 0
<1> DEFINE x == (a - f) * 100
           q == x \div a
           r == x % a
<1>1. x \in Nat /\ q \in Int /\ r \in 0..a - 1 /\ x = a * q + r
  OBVIOUS
<1>2. x = a * 100 - f * 100
  OBVIOUS
<1> HIDE DEF x, q, r
<1>3. ASSUME q = 100 PROVE f = 0
  BY <1>1, <1>2, <1>3
<1>4. ASSUME f = 0 PROVE q = 100
  <2>1. a * q + r = a * 100
    BY <1>1, <1>2, <1>4
  <2>2. a * (100 - q) = r
    BY <2>1, <1>1
  <2>3. CASE 100 - q >= 1
    <3>1. a * (100 - q) >= a
      BY <2>3, <1>1
    <3> QED BY <3>1, <2>2, <1>1
  <2>4. CASE 100 - q <= 0 - 1
    <3>1. a * (100 - q) <= 0 - a
      BY <2>4, <1>1
    <3> QED BY <3>1, <2>2, <1>1
  <2> QED BY <2>3, <2>4, <1>1
<1> QED BY <1>3, <1>4 DEF q, x

\* Every command is counted once for every replica, the replicas' own counts
\* and the rows of the replication log agree with the counters, and between
\* commands every node shows the number of keys.
THEOREM CountersExact == Spec => []CountersAddUp
<1>1. ASSUME ClusterInv PROVE CountersAddUp
  <2>1. TypeOK /\ StatsType /\ Tally /\ KeysShown
    BY <1>1 DEF ClusterInv
  <2>2. /\ Cardinality(Rows(TRUE)) = Cardinality(RowsOf(replLogs, TRUE))
        /\ Cardinality(Rows(FALSE)) = Cardinality(RowsOf(replLogs, FALSE))
    BY <2>1, RowsLaw DEF Tally
  <2>3. /\ Cardinality(Rows(TRUE)) = stats.replicated - cleared.replicated
        /\ Cardinality(Rows(FALSE)) = stats.failed - cleared.failed
    BY <2>1, <2>2 DEF Tally
  <2>4. ReplicationSuccessRate = 100 <=> stats.failed = 0
    <3> DEFINE a == stats.attempts
               f == stats.failed
    <3>1. a \in Nat /\ f \in 0..a
      BY <2>1 DEF Tally, StatsType
    <3>2. CASE a = 0
      BY <3>1, <3>2 DEF ReplicationSuccessRate
    <3>3. CASE a # 0
      <4>1. ReplicationSuccessRate = ((a - f) * 100) \div a
        BY <3>3 DEF ReplicationSuccessRate
      <4> HIDE DEF a, f
      <4>2. ((a - f) * 100) \div a = 100 <=> f = 0
        BY <3>1, <3>3, SuccessRateLaw
      <4> QED BY <4>1, <4>2 DEF f
    <3> QED BY <3>2, <3>3
  <2>5. mu = None => \A i \in Node : nodes[i].keyCount = Cardinality({k \in Key : Get(k)})
    BY <2>1, DataFinite DEF KeysShown
  <2> QED BY <2>1, <2>3, <2>4, <2>5 DEF CountersAddUp, Tally
<1>2. ClusterInv => CountersAddUp
  BY <1>1
<1> QED BY <1>2, Invariant, PTL

\* No order of heartbeats, commands, failures and recoveries leaves a node
\* shown both Offline and Healthy, but for a latency injected below zero.
THEOREM OfflineNeverHealthy == Spec => []OfflineNotHealthy
<1>1. ClusterInv => OfflineNotHealthy
  BY DEF ClusterInv, NodesSafe, OfflineNotHealthy, Safe
<1> QED BY <1>1, Invariant, PTL

\* A failed node stays Offline and takes no command until it is recovered, a
\* recovered one gets none of those it missed, and no other step than the
\* second one of a command changes what a node has.
THEOREM FailedNodesStayOut == Spec => FailedStaysOut
<1> DEFINE Action ==
             \A i \in Node :
               /\ nodes[i].failed /\ nodes'[i].failed =>
                    nodes'[i].status = "Offline" /\ nodes'[i].replicated = nodes[i].replicated
               /\ nodes[i].failed /\ ~nodes'[i].failed => nodes'[i].replicated = nodes[i].replicated
               /\ nodes'[i].replicated - nodes[i].replicated \in {0, issued' - issued}
<1>1. ASSUME ClusterInv, ClusterInv',
             \A i \in Node : nodes'[i].replicated = nodes[i].replicated
      PROVE  Action
  <2> SUFFICES ASSUME NEW i \in Node
               PROVE  /\ nodes'[i].failed => nodes'[i].status = "Offline"
                      /\ nodes'[i].replicated - nodes[i].replicated = 0
    BY <1>1
  <2>1. nodes[i].replicated \in Nat
    BY <1>1, NodeInv DEF NodeState
  <2>2. Down(nodes'[i])
    BY <1>1 DEF ClusterInv, NodesSafe
  <2> QED BY <1>1, <2>1, <2>2 DEF Down
<1>2. ASSUME ClusterInv, ClusterInv', replicateCommand PROVE Action
  <2>1. nodes' = [i \in Node |-> Replicated(i)] /\ issued' = issued + 1 /\ issued \in Nat
    BY <1>2 DEF replicateCommand, ClusterInv, StatsType
  <2> SUFFICES ASSUME NEW i \in Node
               PROVE  /\ nodes'[i].failed => nodes'[i].status = "Offline"
                      /\ nodes[i].failed => nodes'[i].replicated = nodes[i].replicated
                      /\ nodes'[i].replicated - nodes[i].replicated \in {0, issued' - issued}
    OBVIOUS
  <2>2. nodes[i].replicated \in Nat
    BY <1>2, NodeInv DEF NodeState
  <2>3. Down(nodes'[i])
    BY <1>2 DEF ClusterInv, NodesSafe
  <2>4. nodes'[i].replicated =
          nodes[i].replicated + (IF i \in Replica /\ ~nodes[i].failed THEN 1 ELSE 0)
    BY <1>2, <2>1, ReplicatedLaw
  <2> QED BY <2>1, <2>2, <2>3, <2>4 DEF Down
<1>3. ASSUME ClusterInv, tickHeartbeat PROVE \A i \in Node : nodes'[i].replicated = nodes[i].replicated
  <2> SUFFICES ASSUME NEW i \in Node PROVE nodes'[i].replicated = nodes[i].replicated
    OBVIOUS
  <2>1. nodes[i] \in NodeState
    BY <1>3, NodeInv
  <2>2. \E l \in {2 + i * 3 + Injected(nodes[i])} : nodes'[i] =
          Scored(IF ~nodes[i].failed
                   THEN [nodes[i] EXCEPT !.status = "Online", !.latency = l, !.failures = 0]
                   ELSE [nodes[i] EXCEPT !.status = "Offline", !.failures = @ + 1])
    BY <1>3 DEF tickHeartbeat
  <2> QED BY <2>1, <2>2 DEF Scored, NodeState
<1>4. ASSUME ClusterInv, OnSomeNode
      PROVE  \A i \in Node : nodes'[i].replicated = nodes[i].replicated
  <2>0. PICK j \in Node : \E n : OnNode(j, n) /\ Touched(n, nodes[j])
    BY <1>4, NodeHandled DEF Handled
  <2>1. PICK n : OnNode(j, n) /\ Touched(n, nodes[j])
    BY <2>0
  <2>2. nodes \in [Node -> NodeState]
    BY <1>4 DEF ClusterInv, TypeOK
  <2>3. nodes' = [nodes EXCEPT ![j] = Scored(n)] /\ Scored(n).replicated = nodes[j].replicated
    BY <2>1, ScoredAfter DEF OnNode, After, Touched
  <2> QED BY <2>2, <2>3
<1>5. ASSUME ClusterInv, UNCHANGED nodes
      PROVE  \A i \in Node : nodes'[i].replicated = nodes[i].replicated
  BY <1>5
<1>6. ClusterInv /\ ClusterInv' /\ [Next]_vars => Action
  <2> HIDE DEF Action
  <2>1. ASSUME ClusterInv, ClusterInv', [Next]_vars, ~replicateCommand PROVE Action
    <3>1. tickHeartbeat \/ UNCHANGED nodes \/ OnSomeNode
      BY <2>1 DEF Next, vars, ClearLogs, SetKey, DeleteKey, OnSomeNode
    <3> QED BY <2>1, <3>1, <1>1, <1>3, <1>4, <1>5
  <2> QED BY <2>1, <1>2
<1>7. ClusterInv /\ ClusterInv' /\ [Next]_vars => [Action]_vars
  BY <1>6
<1> QED BY <1>7, Invariant, PTL DEF Spec, FailedStaysOut

=============================================================================
