------------------------------- MODULE Cluster ------------------------------
(***************************************************************************)
(* The dashboard's cluster service (dice-dashboard/services): one store    *)
(* and a table of nodes whose heartbeats, failures and replication it      *)
(* simulates.  Node 0 is the master, the others are replicas.              *)
(*                                                                         *)
(* The handlers and the ticker hold the service's mutex.  Writing the      *)
(* store comes before the rest of a SET or DELETE, and Get, which takes    *)
(* only the store's own lock, can come between.  Values, timestamps,       *)
(* uptimes and the texts of the logs are left out.                         *)
(***************************************************************************)
EXTENDS Integers, FiniteSetsExt, SequencesExt

CONSTANTS
  Replicas,      \* how many there are: 2 in the code
  Key,
  Milliseconds,  \* the latencies injected
  MaxActivity,   \* 80 in the code
  MaxTrend,      \* 20 in the code
  MaxCommands,   \* bound: the commands replicated
  MaxTicks,      \* bound: the heartbeats
  MaxFaults      \* bound: the handlers called on nodes

ASSUME ClusterAssumption ==
  /\ Replicas \in Nat
  /\ Milliseconds \subseteq Int \ {0}
  /\ IsFiniteSet(Key)
  /\ {MaxActivity, MaxTrend} \subseteq Nat \ {0}
  /\ {MaxCommands, MaxTicks, MaxFaults} \subseteq Nat

VARIABLES
  mu,        \* the command that holds the mutex between its two steps, or None
  data,      \* the keys of the MemoryStore
  nodes,     \* [0..Replicas -> a Node]
  stats,     \* the counters of the service
  activity,  \* the number of rows of the activity log
  replLogs,  \* the replication log: the target and the success of each row
  trend,     \* the points of the two trends: [latency, delay]
  issued,    \* the commands replicated so far
  cleared,   \* what the counters were when the logs were last cleared
  faults     \* the handlers called on nodes so far

vars == <<mu, data, nodes, stats, activity, replLogs, trend, issued, cleared, faults>>

None == "none"
Node == 0..Replicas
Replica == 1..Replicas

-----------------------------------------------------------------------------

\* Division truncates.
Div(a, b) == IF a >= 0 THEN a \div b ELSE -((-a) \div b)

\* Mutant: the status does not count.
calculateHealth_IgnoresStatus(status, latency, failures, delay) ==
  LET score == 100 - Div(latency, 5) - failures * 10 - Div(delay, 10)
  IN IF score < 0 THEN 0 ELSE score

calculateHealth(status, latency, failures, delay) ==
  LET score == 100 - (IF status = "Online" THEN 0 ELSE 55) - Div(latency, 5) - failures * 10 - Div(delay, 10)
  IN IF score < 0 THEN 0 ELSE score

HealthStatus(score) ==
  CASE score >= 80 -> "Healthy"
    [] score \in 55..79 -> "Warning"
    [] OTHER -> "Critical"

\* A node with the health its fields give.
Scored(n) == [n EXCEPT !.score = calculateHealth(n.status, n.latency, n.failures, n.delay)]

\* What an injected latency adds: nothing when it is negative.
Injected(n) == IF n.injected > 0 THEN n.injected ELSE 0

\* Mutant: old rows are never dropped.
Logged_Unbounded(n) == activity' = activity + n

Logged(n) == activity' = Min({activity + n, MaxActivity})

recordHistory(latency, delay) ==
  LET points == Append(trend, [latency |-> latency, delay |-> delay])
  IN trend' = SubSeq(points, Max({1, Len(points) - MaxTrend + 1}), Len(points))

averageHeartbeatLatency == IF stats.samples = 0 THEN 0 ELSE Div(stats.latencySum, stats.samples)

\* The store is seeded, or not.
Init ==
  /\ mu = None
  /\ data \in {{}, Key}
  /\ nodes = [i \in Node |-> [failed |-> FALSE, status |-> "Online", failures |-> 0, latency |-> 0,
                              injected |-> 0, delay |-> 0, replicated |-> 0,
                              keyCount |-> Cardinality(data), score |-> 100]]
  /\ stats = [replicated |-> 0, failed |-> 0, attempts |-> 0, checks |-> 0, samples |-> 0, latencySum |-> 0]
  /\ activity = 1
  /\ replLogs = <<>>
  /\ trend = <<[latency |-> 0, delay |-> 0]>>
  /\ issued = 0
  /\ cleared = [replicated |-> 0, failed |-> 0]
  /\ faults = 0

-----------------------------------------------------------------------------
(* The ticker *)

\* Latencies are averaged over all the nodes, the failed ones included.
tickHeartbeat ==
  LET latency(i) == 2 + i * 3 + Injected(nodes[i])
      up == {i \in Node : ~nodes[i].failed}
      sum == FoldSet(LAMBDA i, s : s + latency(i), 0, up)
  IN /\ mu = None
     /\ stats.checks < MaxTicks * (Replicas + 1)
     /\ nodes' = [i \in Node |->
                    Scored(IF i \in up
                           THEN [nodes[i] EXCEPT !.status = "Online", !.latency = latency(i), !.failures = 0]
                           ELSE [nodes[i] EXCEPT !.status = "Offline", !.failures = @ + 1])]
     /\ stats' = [stats EXCEPT !.checks = @ + Replicas + 1, !.samples = @ + Cardinality(up), !.latencySum = @ + sum]
     /\ recordHistory(Div(sum, Replicas + 1), Max({0} \cup {nodes[i].delay : i \in up}))
     /\ Logged(Cardinality(Node \ up))
     /\ UNCHANGED <<mu, data, replLogs, issued, cleared, faults>>

-----------------------------------------------------------------------------
(* The handlers *)

\* store.Set or store.Delete, with the mutex held from here on.
SetKey(k) ==
  /\ mu = None /\ issued < MaxCommands
  /\ data' = data \cup {k}
  /\ mu' = "SET"
  /\ UNCHANGED <<nodes, stats, activity, replLogs, trend, issued, cleared, faults>>

\* Deleting a missing key is refused before anything is logged.
DeleteKey(k) ==
  /\ mu = None /\ issued < MaxCommands
  /\ k \in data
  /\ data' = data \ {k}
  /\ mu' = "DELETE"
  /\ UNCHANGED <<nodes, stats, activity, replLogs, trend, issued, cleared, faults>>

refreshKeyCount(n) == [n EXCEPT !.keyCount = Cardinality(data)]

\* Mutant: a failed replica counts the command as replicated.
Replicated_CountsMissed(i) ==
  LET n == refreshKeyCount(nodes[i])
  IN IF i \in Replica THEN Scored([n EXCEPT !.replicated = @ + 1]) ELSE n

\* A failed replica misses the command for good, and is scored as if it had
\* failed once more.
Replicated(i) ==
  LET n == refreshKeyCount(nodes[i])
  IN CASE i \notin Replica -> n
       [] i \in Replica /\ n.failed ->
            [n EXCEPT !.delay = 0, !.score = calculateHealth("Offline", n.latency, n.failures + 1, 0)]
       [] OTHER -> Scored([n EXCEPT !.replicated = @ + 1, !.delay = 4 + i * 2 + Injected(n)])

\* refreshKeyCountLocked and replicateCommandLocked, then the mutex is
\* released.
replicateCommand ==
  LET ok == {i \in Replica : ~nodes[i].failed}
  IN /\ mu # None
     /\ nodes' = [i \in Node |-> Replicated(i)]
     /\ stats' = [stats EXCEPT !.attempts = @ + Cardinality(Replica),
                               !.replicated = @ + Cardinality(ok),
                               !.failed = @ + Cardinality(Replica \ ok)]
     /\ replLogs' = replLogs \o [i \in Replica |-> [target |-> i, success |-> i \in ok]]
     /\ recordHistory(averageHeartbeatLatency, Max({0} \cup {Replicated(i).delay : i \in ok}))
     /\ Logged(1 + Cardinality(Replica))
     /\ issued' = issued + 1
     /\ mu' = None
     /\ UNCHANGED <<data, cleared, faults>>

\* A handler that changes one node and logs it.
OnNode(i, n) ==
  /\ mu = None /\ faults < MaxFaults
  /\ nodes' = [nodes EXCEPT ![i] = Scored(n)]
  /\ Logged(1)
  /\ faults' = faults + 1
  /\ UNCHANGED <<mu, data, stats, replLogs, trend, issued, cleared>>

SimulateNodeFailure(i) ==
  OnNode(i, [nodes[i] EXCEPT !.failed = TRUE, !.status = "Offline", !.failures = @ + 1])

RecoverNode(i) == OnNode(i, [nodes[i] EXCEPT !.failed = FALSE, !.status = "Online", !.failures = 0])

InjectLatency(i, ms) == OnNode(i, [nodes[i] EXCEPT !.injected = ms, !.latency = ms + 5])

\* Mutant: clearing the latency brings the node back.
ClearLatency_Revives(i) == OnNode(i, [nodes[i] EXCEPT !.injected = 0, !.latency = 0, !.status = "Online"])

ClearLatency(i) == OnNode(i, [nodes[i] EXCEPT !.injected = 0, !.latency = 0])

ClearLogs ==
  /\ mu = None
  /\ activity' = 1
  /\ replLogs' = <<>>
  /\ cleared' = [replicated |-> stats.replicated, failed |-> stats.failed]
  /\ UNCHANGED <<mu, data, nodes, stats, trend, issued, faults>>

\* What Get finds, at any time.
Get(k) == k \in data

\* The rows of GetReplicationLogs, the newest first.
reverseLimit(rows, limit) ==
  LET n == IF limit <= 0 \/ limit > Len(rows) THEN Len(rows) ELSE limit
  IN SubSeq(Reverse(rows), 1, n)

\* The answers of GetOverview and GetClusterStats that are computed; they
\* read under the mutex.
NodeOnline == Cardinality({i \in Node : nodes[i].status = "Online"})
MaxReplicationDelay == Max({0} \cup {nodes[i].delay : i \in Node})
\* In percent, the fraction dropped.
ReplicationSuccessRate ==
  IF stats.attempts = 0 THEN 100 ELSE ((stats.attempts - stats.failed) * 100) \div stats.attempts

Next ==
  \/ tickHeartbeat
  \/ replicateCommand
  \/ ClearLogs
  \/ \E k \in Key : SetKey(k) \/ DeleteKey(k)
  \/ \E i \in Node :
       \/ SimulateNodeFailure(i)
       \/ RecoverNode(i)
       \/ \E ms \in Milliseconds : InjectLatency(i, ms)
       \/ ClearLatency(i)

Spec == Init /\ [][Next]_vars

-----------------------------------------------------------------------------

NodeState ==
  [failed : BOOLEAN, status : {"Online", "Offline"}, failures : 0..(MaxFaults + MaxTicks),
   latency : Int, injected : Int, delay : Nat, replicated : Nat, keyCount : Nat, score : Nat]

TypeOK ==
  /\ mu \in {None, "SET", "DELETE"}
  /\ data \subseteq Key
  /\ nodes \in [Node -> NodeState]
  /\ activity \in 1..MaxActivity
  /\ Len(trend) \in 1..MaxTrend

\* What the replicas replicated, all together.
ReplicatedByAll ==
  LET upTo[i \in Node] == IF i = 0 THEN 0 ELSE upTo[i - 1] + nodes[i].replicated
  IN  upTo[Replicas]

\* The rows a client sees that tell of a success, or of a failure.
Rows(success) ==
  LET rows == reverseLimit(replLogs, 0)
  IN  {n \in DOMAIN rows : rows[n].success = success}

\* Every command was tried on every replica, once: the attempts are the
\* successes and the failures, the successes are those of the replicas, and
\* the rows of the replication log are those since it was cleared.  While no
\* command is under way every node shows the number of keys of the store, a
\* replica that missed commands too.
CountersAddUp ==
  /\ stats.attempts = issued * Replicas
  /\ stats.attempts = stats.replicated + stats.failed
  /\ stats.replicated = ReplicatedByAll
  /\ Cardinality(Rows(TRUE)) = stats.replicated - cleared.replicated
  /\ Cardinality(Rows(FALSE)) = stats.failed - cleared.failed
  /\ ReplicationSuccessRate = 100 <=> stats.failed = 0
  /\ mu = None => \A i \in Node : nodes[i].keyCount = Cardinality({k \in Key : Get(k)})

\* A node that is shown Offline is shown Healthy only through a latency that
\* was injected below zero, which the API accepts: no number of heartbeats,
\* commands, recoveries and failures in any order leaves the score of an
\* earlier status standing.
OfflineNotHealthy ==
  \A i \in Node :
    nodes[i].status = "Offline" /\ HealthStatus(nodes[i].score) = "Healthy" => nodes[i].latency < 0

\* A failed node stays Offline and takes no command until it is recovered,
\* whatever the ticker and the other handlers do in between; a recovered one
\* never gets the commands it missed.
FailedStaysOut ==
  [][\A i \in Node :
       /\ nodes[i].failed /\ nodes'[i].failed =>
            nodes'[i].status = "Offline" /\ nodes'[i].replicated = nodes[i].replicated
       /\ nodes[i].failed /\ ~nodes'[i].failed => nodes'[i].replicated = nodes[i].replicated
       /\ nodes'[i].replicated - nodes[i].replicated \in {0, issued' - issued}]_vars

=============================================================================
