---------------------------- MODULE ServerProofs ----------------------------
(***************************************************************************)
(* Server for any number of connections, keys, commands and restored keys: *)
(* the log is written before the answer and agrees with the table wherever *)
(* no commands overlapped, and the teardown waits for the IO threads.      *)
(*                                                                         *)
(* The inductive invariant is TypeInv (the types, what an IO thread holds  *)
(* at each of its steps, and the bound of the values), ShutdownInv,        *)
(* ObjectInv (which object a thread works on), AloneInv (what is known     *)
(* while no two commands overlapped on a key) and ReplayInv.               *)
(***************************************************************************)
EXTENDS Server, FiniteSetTheorems, Induction, TLAPS

-----------------------------------------------------------------------------
(* The keys the replay restored, in the order the log has them *)

LEMMA RestoredSeq ==
  LET keys == SetToSeq(Restored)
      n    == Cardinality(Restored)
  IN  /\ n \in Nat /\ keys \in [1..n -> Restored] /\ DOMAIN keys = 1..n
      /\ keys \in Seq(Restored) /\ Len(keys) = n
      /\ \A i, j \in 1..n : keys[i] = keys[j] => i = j
      /\ \A k \in Restored : \E i \in 1..n : keys[i] = k
<1> DEFINE keys == SetToSeq(Restored)
           n == Cardinality(Restored)
<1>1. n \in Nat /\ ExistsBijection(1..n, Restored)
  BY ServerAssumption, FS_CardinalityType
<1>2. \E f \in [1..n -> Restored] : IsInjective(f)
  BY <1>1 DEF ExistsBijection, Bijection, Injection, IsInjective
<1>3. keys \in [1..n -> Restored] /\ IsInjective(keys)
  BY <1>2 DEF SetToSeq
<1> HIDE DEF keys
<1>4. keys \in Injection(1..n, Restored)
  BY <1>3 DEF Injection, IsInjective
<1>5. Cardinality(1..n) = n /\ IsFiniteSet(1..n)
  BY <1>1, FS_Interval
<1>6. keys \in Surjection(1..n, Restored)
  <2> HIDE DEF n
  <2> QED BY <1>4, <1>5, ServerAssumption, FS_Injection DEF n
<1> QED
  BY <1>1, <1>3, <1>6 DEF Surjection, IsInjective, keys

-----------------------------------------------------------------------------
(* Replay of a log *)

LEMMA ReplayLaw ==
  ASSUME NEW l \in Seq(Entry), NEW k \in Key
  PROVE  \E f \in [0..Len(l) -> Nat] :
           /\ f[0] = 0 /\ \A i \in 1..Len(l) : f[i] = Effect(l[i], k, f[i - 1])
           /\ ReplayOf(l, k) = f[Len(l)]
<1> DEFINE n == Len(l)
           Body(f) == [i \in 0..n |-> IF i = 0 THEN 0 ELSE Effect(l[i], k, f[i - 1])]
           step == [p \in (1..n) \X Nat |-> Effect(l[p[1]], k, p[2])]
<1>1. n \in Nat
  OBVIOUS
<1>2. step \in [(1..n) \X Nat -> Nat]
  BY DEF Effect
<1>3. \A i \in 1..n, v \in Nat : step[<<i, v>>] = Effect(l[i], k, v)
  OBVIOUS
<1> HIDE DEF step
<1>4. PICK g \in [0..n -> Nat] : g[0] = 0 /\ \A i \in 1..n : g[i] = step[<<i, g[i - 1]>>]
  <2> HIDE DEF n
  <2>1. \E f \in [0..n -> Nat] : Follows(f, n, 0, step)
    BY <1>1, <1>2, RecursionExists
  <2> QED BY <2>1 DEF Follows
<1>5. ASSUME NEW i \in 1..n PROVE g[i] = Effect(l[i], k, g[i - 1])
  <2>1. i - 1 \in 0..n
    BY <1>1
  <2>2. g[i - 1] \in Nat
    BY <2>1
  <2> QED BY <2>2, <1>3, <1>4
<1>6. g = Body(g)
  <2>1. \A i \in 0..n : g[i] = Body(g)[i]
    BY <1>4, <1>5
  <2>2. DOMAIN Body(g) = 0..n /\ DOMAIN g = 0..n /\ Body(g) = [i \in 0..n |-> Body(g)[i]]
    OBVIOUS
  <2> HIDE DEF Body
  <2> QED BY <2>1, <2>2
<1> DEFINE f == CHOOSE h : h = Body(h)
<1>8. ReplayOf(l, k) = f[n]
  BY DEF ReplayOf
<1>7. f = Body(f)
  <2> HIDE DEF Body
  <2>1. \E h : h = Body(h)
    BY <1>6
  <2> QED BY <2>1
<1> HIDE DEF f
<1>9. Alike(f, g, n)
  BY <1>7, <1>4, <1>5 DEF Alike
<1>10. \A i \in 0..n : f[i] = g[i]
  BY <1>1, <1>9, RecursionUnique
<1> QED
  BY <1>4, <1>5, <1>8, <1>10

LEMMA ReplayType ==
  ASSUME NEW l \in Seq(Entry), NEW k \in Key
  PROVE  ReplayOf(l, k) \in Nat
BY ReplayLaw

LEMMA ReplayAppend ==
  ASSUME NEW l \in Seq(Entry), NEW k \in Key, NEW e \in Entry
  PROVE  ReplayOf(Append(l, e), k) = Effect(e, k, ReplayOf(l, k))
<1> DEFINE n == Len(l)
           m == Append(l, e)
<1>1. m \in Seq(Entry) /\ Len(m) = n + 1 /\ m[n + 1] = e /\ n \in Nat
      /\ \A i \in 1..n : m[i] = l[i]
  OBVIOUS
<1>2. PICK f \in [0..n -> Nat] :
           /\ f[0] = 0 /\ \A i \in 1..n : f[i] = Effect(l[i], k, f[i - 1])
           /\ ReplayOf(l, k) = f[n]
  BY ReplayLaw
<1> HIDE DEF m
<1>3. PICK g \in [0..n + 1 -> Nat] :
           /\ g[0] = 0 /\ \A i \in 1..n + 1 : g[i] = Effect(m[i], k, g[i - 1])
           /\ ReplayOf(m, k) = g[n + 1]
  BY <1>1, ReplayLaw
<1>4. Alike(f, g, n)
  BY <1>1, <1>2, <1>3 DEF Alike
<1>5. f[n] = g[n]
  <2>1. \A i \in 0..n : f[i] = g[i]
    BY <1>1, <1>4, RecursionUnique
  <2> QED BY <2>1, <1>1
<1>6. g[n + 1] = Effect(e, k, g[n])
  BY <1>1, <1>3
<1> QED BY <1>2, <1>3, <1>5, <1>6 DEF m

-----------------------------------------------------------------------------
(* The inductive invariant *)

LogIds == {log[i].id : i \in 1..Len(log)}

\* Who Run waits for is gone when it returns, and nobody is accepted later.
ShutdownInv ==
  /\ accept = "call" => run # "returned"
  /\ run = "returned" => \A c \in Client : ~Live(c)
  /\ main # "range" \/ sigs = "closed" \/ ~wal => run = "returned"

\* The thread uses the object it refers to.
Holds(c) == io[c].pc \in {"read", "write", "count", "store"}

\* A command at work is on a key, has an id of its own and is not logged yet.
WorkInv ==
  /\ \A c \in Client : AtWork(c) => /\ io[c].key \in Key /\ io[c].op \in {"INCR", "DEL"}
                                    /\ io[c].id >= 1 /\ io[c].id \notin LogIds
  /\ \A c \in Client : Holds(c) => io[c].obj >= 1
  /\ \A c, d \in Client : AtWork(c) /\ AtWork(d) /\ io[c].id = io[d].id => c = d
  /\ \A c \in Client : At(c, "answer") => io[c].id >= 1 /\ io[c].id \in unlogged \cup LogIds

\* A value can still grow by one for every command that is yet to write.
Unwritten == {c \in Client : io[c].pc \in {"get", "read", "write"}}
Slack == issued + 1 - Cardinality(Unwritten)
ValueInv ==
  /\ IsFiniteSet(Unwritten) /\ 1 <= Slack
  /\ \A i \in 1..Len(heap) : heap[i] <= Slack
  /\ \A c \in Client : At(c, "write") => io[c].old >= 1 /\ io[c].old <= Slack

TypeInv == TypeOK /\ WorkInv /\ ValueInv

LEMMA StepCases ==
  ASSUME [Next]_vars
  PROVE  \/ UNCHANGED <<io, data, history>>
         \/ \E c \in Client :
              \/ Accept(c) \/ Leave(c) \/ IOStep(c) \/ Receive(c, "BAD", Nil)
              \/ \E op \in {"INCR", "DEL"}, k \in Key : Receive(c, op, k)
BY DEF Next, vars, Signal, CancelOnSignal, Start, ManagerRun, RunSelect, RunReturn,
       AcceptLook, AcceptNobody, AcceptError, ShardThreadStop

LEMMA InitTypeInv == Init => TypeInv
<1> SUFFICES ASSUME Init PROVE TypeInv
  OBVIOUS
<1> DEFINE keys == SetToSeq(Restored)
           n == Cardinality(Restored)
<1>1. /\ n \in Nat /\ keys \in [1..n -> Restored] /\ DOMAIN keys = 1..n
      /\ keys \in Seq(Restored) /\ Len(keys) = n
      /\ \A i, j \in 1..n : keys[i] = keys[j] => i = j
      /\ \A k \in Restored : \E i \in 1..n : keys[i] = k
  BY RestoredSeq
<1>2. /\ log = [i \in DOMAIN keys |-> [id |-> 1 - i, op |-> "INCR", key |-> keys[i]]]
      /\ heap = [i \in DOMAIN keys |-> 1]
      /\ table = [k \in Key |-> IF k \in Restored THEN CHOOSE i \in DOMAIN keys : keys[i] = k ELSE Nil]
      /\ numKeys = Len(keys)
  BY DEF Init
<1> HIDE DEF keys, n
<1>3. log \in Seq(Entry) /\ Len(log) = n /\ \A i \in 1..n : log[i].id <= 0
  BY <1>1, <1>2, ServerAssumption DEF Entry
<1>4. heap \in Seq(1..1) /\ Len(heap) = n /\ \A i \in 1..n : heap[i] = 1
  BY <1>1, <1>2
<1>5. table \in [Key -> {Nil} \cup (1..n)]
  BY <1>1, <1>2
<1>6. TypeOK
  <2>1. issued = 0 /\ Len(heap) = n /\ n \in Nat
    BY <1>1, <1>4 DEF Init
  <2>2. Idle \in IOThread
    BY <2>1 DEF IOThread, Idle, Pc
  <2>3. io \in [Client -> IOThread]
    BY <2>2 DEF Init
  <2>4. heap \in Seq(1..(issued + 1))
    BY <1>4, <2>1
  <2>5. {ctx, sigWait, wal} \subseteq BOOLEAN
    BY DEF Init
  <2>6. numKeys \in Int /\ issued \in 0..MaxCommands /\ signals \in 0..MaxSignals
    BY <1>1, <1>2, ServerAssumption DEF Init
  <2> QED
    BY <2>1, <2>3, <2>4, <2>5, <2>6, <1>3, <1>5 DEF Init, TypeOK
<1>7. WorkInv
  BY DEF Init, WorkInv, AtWork, At, Holds, Idle, Working
<1>8. Unwritten = {}
  BY DEF Init, Unwritten, Idle
<1>9. ValueInv
  BY <1>4, <1>8, FS_EmptySet DEF Init, ValueInv, Slack, At, Idle
<1> QED BY <1>6, <1>7, <1>9 DEF TypeInv

\* The types of what Start, Run, the accept loop and the shards own.
LifecycleType ==
  /\ main \in {"range", "close", "teardown", "cancel", "wait", "exited", "panic"}
  /\ ctx \in BOOLEAN /\ sigWait \in BOOLEAN /\ wal \in BOOLEAN
  /\ signals \in 0..MaxSignals /\ sigs \in {"empty", "full", "closed"}
  /\ accept \in {"look", "call", "failed", "done"}
  /\ run \in {"select", "wait", "returned"} /\ manager \in {"run", "wait", "done"}
  /\ shards \subseteq Shard

\* The types of the IO threads, the store and the histories.
DataType ==
  /\ issued \in 0..MaxCommands
  /\ io \in [Client -> IOThread]
  /\ table \in [Key -> {Nil} \cup (1..Len(heap))]
  /\ heap \in Seq(1..(issued + 1)) /\ numKeys \in Int
  /\ acked \cup unlogged \subseteq 1..issued
  /\ log \in Seq(Entry) /\ \A i \in 1..Len(log) : log[i].id <= issued
  /\ raced \subseteq Key

LEMMA TypeSplit == TypeOK <=> LifecycleType /\ DataType
BY DEF TypeOK, LifecycleType, DataType

LEMMA LifecycleTypeStep ==
  ASSUME LifecycleType, [Next]_vars
  PROVE  LifecycleType'
<1> USE DEF LifecycleType
<1>1. ASSUME UNCHANGED lifecycle PROVE LifecycleType'
  BY <1>1 DEF lifecycle
<1>2. CASE Signal
  BY <1>2, ServerAssumption DEF Signal
<1>3. CASE CancelOnSignal
  BY <1>3 DEF CancelOnSignal
<1>4. CASE Start
  BY <1>4 DEF Start, LeaveRange, CloseSigs, TeardownWAL, Cancel, Exit
<1>5. CASE ManagerRun
  BY <1>5 DEF ManagerRun
<1>6. CASE RunSelect \/ RunReturn
  BY <1>6 DEF RunSelect, RunReturn
<1>7. CASE AcceptLook \/ AcceptNobody \/ AcceptError
  BY <1>7 DEF AcceptLook, AcceptNobody, AcceptError
<1>8. ASSUME NEW s \in Shard, ShardThreadStop(s) PROVE LifecycleType'
  BY <1>8 DEF ShardThreadStop
<1>9. ASSUME NEW c \in Client, Accept(c) PROVE LifecycleType'
  BY <1>9 DEF Accept
<1>10. ASSUME NEW c \in Client, NEW op, NEW k, Receive(c, op, k) PROVE UNCHANGED lifecycle
  BY <1>10 DEF Receive
<1>11. ASSUME NEW c \in Client, Leave(c) \/ IOStep(c) PROVE UNCHANGED lifecycle
  BY <1>11 DEF Leave, IOStep, Get, ReadValue, WriteValue, Put, Count, Store, Delete, Uncount,
               LogCommand, Answer, Refuse
<1>12. CASE UNCHANGED vars
  BY <1>1, <1>12 DEF vars
<1> QED
  BY <1>1, <1>2, <1>3, <1>4, <1>5, <1>6, <1>7, <1>8, <1>9, <1>10, <1>11, <1>12 DEF Next

\* The threads there can be after n commands and with h objects.
ThreadOf(n, h) ==
  [pc : Pc, op : {Nil, "INCR", "DEL", "BAD"}, key : Key \cup {Nil}, id : 0..n, obj : 0..h, old : Int]

LEMMA ThreadMono ==
  ASSUME NEW n \in Nat, NEW h \in Nat, NEW m \in Nat, NEW g \in Nat, n <= m, h <= g
  PROVE  ThreadOf(n, h) \subseteq ThreadOf(m, g)
BY DEF ThreadOf

LEMMA ThreadExcept ==
  ASSUME NEW n \in Nat, NEW h \in Nat, NEW t \in ThreadOf(n, h), NEW pc \in Pc
  PROVE  /\ [t EXCEPT !.pc = pc] \in ThreadOf(n, h)
         /\ \A obj \in 0..h : [t EXCEPT !.pc = pc, !.obj = obj] \in ThreadOf(n, h)
         /\ \A old \in Int : [t EXCEPT !.pc = pc, !.old = old] \in ThreadOf(n, h)
         /\ \A obj \in 0..h, old \in Int :
              [t EXCEPT !.pc = pc, !.obj = obj, !.old = old] \in ThreadOf(n, h)
BY DEF ThreadOf

LEMMA IdleType ==
  ASSUME NEW n \in Nat, NEW h \in Nat, NEW pc \in Pc,
         NEW op \in {"INCR", "DEL", "BAD"}, NEW k \in Key \cup {Nil}
  PROVE  /\ [Idle EXCEPT !.pc = pc] \in ThreadOf(n, h)
         /\ [Idle EXCEPT !.pc = pc, !.op = op, !.key = k, !.id = n] \in ThreadOf(n, h)
<1>1. Idle \in ThreadOf(n, h)
  BY DEF Idle, ThreadOf, Pc
<1>2. op \in {Nil, "INCR", "DEL", "BAD"} /\ n \in 0..n
  OBVIOUS
<1> HIDE DEF Idle
<1> QED
  BY <1>1, <1>2 DEF ThreadOf

LEMMA DataFacts ==
  ASSUME DataType
  PROVE  /\ issued \in Nat /\ Len(heap) \in Nat
         /\ io \in [Client -> ThreadOf(issued, Len(heap))]
         /\ IOThread = ThreadOf(issued, Len(heap)) /\ IOThread' = ThreadOf(issued', Len(heap'))
BY ServerAssumption DEF DataType, IOThread, ThreadOf

\* A thread stays well formed when commands and objects are added.
LEMMA ThreadKept ==
  ASSUME DataType, issued' \in Nat, Len(heap') \in Nat, issued <= issued', Len(heap) <= Len(heap')
  PROVE  io \in [Client -> IOThread'] /\ IOThread' = ThreadOf(issued', Len(heap'))
<1>1. ThreadOf(issued, Len(heap)) \subseteq ThreadOf(issued', Len(heap'))
  BY DataFacts, ThreadMono
<1> QED
  BY <1>1, DataFacts

LEMMA DataTypeStep ==
  ASSUME TypeInv, [Next]_vars
  PROVE  DataType'
<1>0. DataType
  BY TypeSplit DEF TypeInv
<1>a. /\ issued \in Nat /\ Len(heap) \in Nat
      /\ io \in [Client -> ThreadOf(issued, Len(heap))]
  BY <1>0, DataFacts
<1>b. \A c \in Client : AtWork(c) => io[c].key \in Key /\ io[c].op \in {"INCR", "DEL"} /\ io[c].id \in 1..issued
  BY <1>a DEF TypeInv, WorkInv, ThreadOf
<1>c. \A c \in Client : Holds(c) => io[c].obj \in 1..Len(heap)
  BY <1>a DEF TypeInv, WorkInv, ThreadOf
<1>d. \A c \in Client : io[c].old \in Int
  BY <1>a DEF ThreadOf
<1>e. \A pc \in {"absent", "recv", "refuse", "answer", "done"} \cup Working : pc \in Pc
  BY DEF Pc
<1>1. CASE UNCHANGED <<io, data, history>>
  BY <1>0, <1>1 DEF DataType, data, history, IOThread
<1>2. ASSUME NEW c \in Client, NEW pc \in Pc, Goto(c, pc), UNCHANGED <<heap, issued>>
      PROVE  io' \in [Client -> IOThread']
  <2>1. [io[c] EXCEPT !.pc = pc] \in ThreadOf(issued', Len(heap'))
    BY <1>2, <1>a, ThreadExcept
  <2> QED BY <2>1, <1>0, <1>2, <1>a, ThreadKept DEF Goto
<1>3. ASSUME NEW c \in Client, NEW pc \in Pc, Over(c, pc), UNCHANGED <<heap, issued>>
      PROVE  io' \in [Client -> IOThread']
  <2>1. [Idle EXCEPT !.pc = pc] \in ThreadOf(issued', Len(heap'))
    BY <1>3, <1>a, IdleType
  <2> QED BY <2>1, <1>0, <1>3, <1>a, ThreadKept DEF Over
<1>4. ASSUME NEW c \in Client, Accept(c) \/ Leave(c) PROVE DataType'
  <2>1. io' \in [Client -> IOThread']
    BY <1>2, <1>4 DEF Accept, Leave, data, history, Pc
  <2> QED BY <2>1, <1>0, <1>4 DEF Accept, Leave, DataType, data, history
<1>5. ASSUME NEW c \in Client, NEW op \in {"INCR", "DEL", "BAD"}, NEW k \in Key \cup {Nil},
             op # "BAD" => k \in Key, Receive(c, op, k)
      PROVE  DataType'
  <2>1. issued' = issued + 1 /\ issued' \in 0..MaxCommands /\ heap' = heap
    BY <1>5, <1>0, ServerAssumption DEF Receive, data, DataType
  <2> DEFINE pc == IF op = "BAD" THEN "refuse" ELSE "get"
             t == [Idle EXCEPT !.pc = pc, !.op = op, !.key = k, !.id = issued + 1]
  <2>2. pc \in Pc
    BY DEF Pc, Working
  <2>3. t \in ThreadOf(issued', Len(heap'))
    <3> HIDE DEF pc
    <3>1. issued + 1 \in Nat
      BY <1>a
    <3> QED BY <3>1, <1>a, <2>1, <2>2, IdleType
  <2>4. io' = [io EXCEPT ![c] = t]
    BY <1>5 DEF Receive
  <2> HIDE DEF t
  <2>5. io' \in [Client -> IOThread']
    BY <1>0, <1>a, <2>1, <2>3, <2>4, ThreadKept
  <2>6. heap' \in Seq(1..(issued' + 1))
    <3>1. 1..(issued + 1) \subseteq 1..(issued' + 1)
      BY <1>a, <2>1
    <3> QED BY <3>1, <1>0, <2>1 DEF DataType
  <2>7. raced' \subseteq Key
    BY <1>0, <1>5 DEF Receive, DataType
  <2>8. /\ table' \in [Key -> {Nil} \cup (1..Len(heap'))] /\ numKeys' \in Int
        /\ acked' \cup unlogged' \subseteq 1..issued'
        /\ log' \in Seq(Entry) /\ \A i \in 1..Len(log') : log'[i].id <= issued'
    <3>1. UNCHANGED <<table, numKeys, acked, unlogged, log>>
      BY <1>5 DEF Receive, data
    <3>2. \A i \in 1..Len(log) : log[i] \in Entry
      BY <1>0 DEF DataType
    <3>3. \A i \in 1..Len(log) : log[i].id \in Int
      BY <3>2 DEF Entry
    <3> QED BY <1>0, <2>1, <1>a, <3>1, <3>3 DEF DataType
  <2> QED BY <2>1, <2>5, <2>6, <2>7, <2>8 DEF DataType
<1>6. ASSUME NEW c \in Client, Get(c) PROVE DataType'
  <2>1. io[c].key \in Key
    BY <1>6, <1>b DEF Get, At, AtWork, Working
  <2> DEFINE k == io[c].key
             pc == CASE io[c].op = "INCR" /\ table[k] # Nil -> "read"
                     [] io[c].op = "INCR" /\ table[k] = Nil -> "put"
                     [] io[c].op = "DEL" /\ table[k] # Nil -> "del"
                     [] OTHER -> "log"
             obj == IF table[k] = Nil THEN 0 ELSE table[k]
  <2>2. pc \in Pc /\ obj \in 0..Len(heap)
    BY <1>0, <2>1, <1>a DEF DataType, Pc, Working
  <2>3. io' = [io EXCEPT ![c].pc = pc, ![c].obj = obj] /\ UNCHANGED <<data, history>>
    BY <1>6 DEF Get
  <2> HIDE DEF pc, obj
  <2>4. [io[c] EXCEPT !.pc = pc, !.obj = obj] \in ThreadOf(issued', Len(heap'))
    BY <1>a, <1>d, <2>2, <2>3, ThreadExcept DEF data, history
  <2>5. io' \in [Client -> IOThread']
    BY <1>0, <1>a, <2>3, <2>4, ThreadKept DEF data, history
  <2> QED BY <1>0, <2>3, <2>5 DEF DataType, data, history
<1>7. ASSUME NEW c \in Client, ReadValue(c) PROVE DataType'
  <2>1. io[c].obj \in 1..Len(heap) /\ heap[io[c].obj] \in Int
    BY <1>0, <1>c, <1>7 DEF DataType, ReadValue, At, Holds
  <2>2. io' = [io EXCEPT ![c].pc = "write", ![c].old = heap[io[c].obj]] /\ UNCHANGED <<data, history>>
    BY <1>7 DEF ReadValue
  <2>3. "write" \in Pc
    BY DEF Pc, Working
  <2>4. [io[c] EXCEPT !.pc = "write", !.old = heap[io[c].obj]] \in ThreadOf(issued', Len(heap'))
    BY <1>a, <2>1, <2>2, <2>3, ThreadExcept DEF data, history
  <2>5. io' \in [Client -> IOThread']
    BY <1>0, <1>a, <2>2, <2>4, ThreadKept DEF data, history
  <2> QED BY <1>0, <2>2, <2>5 DEF DataType, data, history
<1>8. ASSUME NEW c \in Client, WriteValue(c) PROVE DataType'
  <2>1. io[c].obj \in 1..Len(heap) /\ io[c].old \in Int /\ io[c].old >= 1 /\ io[c].old <= Slack
    BY <1>c, <1>d, <1>8 DEF WriteValue, Holds, At, TypeInv, ValueInv
  <2>2. IsFiniteSet(Unwritten) /\ c \in Unwritten
    BY <1>8 DEF WriteValue, At, Unwritten, TypeInv, ValueInv
  <2>3. Cardinality(Unwritten) \in Nat /\ Cardinality(Unwritten) # 0
    BY <2>2, FS_EmptySet, FS_CardinalityType
  <2>4. io[c].old + 1 \in 1..(issued + 1)
    BY <1>a, <2>1, <2>3 DEF Slack
  <2>5. heap' = [heap EXCEPT ![io[c].obj] = io[c].old + 1] /\ UNCHANGED <<table, numKeys, history>>
    BY <1>8 DEF WriteValue
  <2>6. heap' \in Seq(1..(issued + 1)) /\ Len(heap') = Len(heap)
    BY <1>0, <2>1, <2>4, <2>5 DEF DataType
  <2>7. [io[c] EXCEPT !.pc = "log"] \in ThreadOf(issued', Len(heap'))
    BY <1>a, <1>e, <2>5, <2>6, ThreadExcept DEF history, Working
  <2>8. io' \in [Client -> IOThread']
    BY <1>0, <1>a, <1>8, <2>5, <2>6, <2>7, ThreadKept DEF WriteValue, Goto, history
  <2> QED BY <1>0, <2>5, <2>6, <2>8 DEF DataType, history
<1>9. ASSUME NEW c \in Client, Put(c) PROVE DataType'
  <2> DEFINE pc == IF table[io[c].key] = Nil THEN "count" ELSE "store"
  <2>1. pc \in Pc
    BY DEF Pc, Working
  <2>2. io' = [io EXCEPT ![c].pc = pc, ![c].obj = Len(heap) + 1, ![c].old = numKeys]
    BY <1>9 DEF Put
  <2> HIDE DEF pc
  <2>3. heap' = Append(heap, 1) /\ UNCHANGED <<table, numKeys, history>>
    BY <1>9 DEF Put
  <2>4. heap' \in Seq(1..(issued + 1)) /\ Len(heap') = Len(heap) + 1 /\ numKeys \in Int
    BY <1>0, <1>a, <2>3 DEF DataType
  <2>5. io[c] \in ThreadOf(issued', Len(heap'))
    BY <1>a, <2>3, <2>4, ThreadMono DEF history
  <2>6. [io[c] EXCEPT !.pc = pc, !.obj = Len(heap) + 1, !.old = numKeys] \in ThreadOf(issued', Len(heap'))
    <3>1. Len(heap) + 1 \in 0..Len(heap') /\ issued' \in Nat /\ Len(heap') \in Nat
      BY <1>a, <2>3, <2>4 DEF history
    <3> QED BY <2>1, <2>4, <2>5, <3>1, ThreadExcept
  <2>7. io' \in [Client -> IOThread']
    BY <1>0, <1>a, <2>2, <2>3, <2>4, <2>6, ThreadKept DEF history
  <2> QED BY <1>0, <1>a, <2>3, <2>4, <2>7 DEF DataType, history
<1>10. ASSUME NEW c \in Client, Count(c) PROVE DataType'
  <2>1. io' \in [Client -> IOThread']
    BY <1>2, <1>10, <1>e DEF Count, history, Working
  <2> QED BY <1>0, <1>d, <1>10, <2>1 DEF Count, DataType, history
<1>11. ASSUME NEW c \in Client, Store(c) PROVE DataType'
  <2>1. io' \in [Client -> IOThread']
    BY <1>2, <1>11, <1>e DEF Store, history, Working
  <2>2. io[c].obj \in 1..Len(heap)
    BY <1>11, <1>c DEF Store, At, Holds
  <2> QED BY <1>0, <1>11, <2>1, <2>2 DEF Store, DataType, history
<1>12. ASSUME NEW c \in Client, Delete(c) PROVE DataType'
  <2>1. io' = [io EXCEPT ![c].pc = "uncount", ![c].old = numKeys] /\ numKeys \in Int
        /\ UNCHANGED <<heap, issued>>
    BY <1>0, <1>12 DEF Delete, history, DataType
  <2>2. [io[c] EXCEPT !.pc = "uncount", !.old = numKeys] \in ThreadOf(issued', Len(heap'))
    BY <1>a, <1>e, <2>1, ThreadExcept DEF Working
  <2>3. io' \in [Client -> IOThread']
    BY <1>0, <1>a, <2>1, <2>2, ThreadKept
  <2> QED BY <1>0, <1>12, <2>3 DEF Delete, DataType, history
<1>13. ASSUME NEW c \in Client, Uncount(c) PROVE DataType'
  <2>1. io' \in [Client -> IOThread']
    BY <1>2, <1>13, <1>e DEF Uncount, history, Working
  <2> QED BY <1>0, <1>d, <1>13, <2>1 DEF Uncount, DataType, history
<1>14. ASSUME NEW c \in Client, LogCommand(c) PROVE DataType'
  <2>1. io' \in [Client -> IOThread']
    BY <1>2, <1>14, <1>e DEF LogCommand, data
  <2> DEFINE e == [id |-> io[c].id, op |-> io[c].op, key |-> io[c].key]
  <2>2. AtWork(c)
    BY <1>14 DEF LogCommand, At, AtWork, Working
  <2>3. e \in Entry /\ e.id \in 1..issued /\ e.key \in Key /\ e.id = io[c].id /\ e.key = io[c].key
    BY <1>a, <1>b, <2>2 DEF Entry
  <2>4. UNCHANGED <<table, heap, numKeys, acked, issued>>
    BY <1>14 DEF LogCommand, data
  <2>5. \/ log' = Append(log, e) /\ UNCHANGED <<unlogged, raced>>
        \/ /\ unlogged' = unlogged \cup {io[c].id} /\ raced' = raced \cup {io[c].key}
           /\ UNCHANGED log
    BY <1>14 DEF LogCommand
  <2> HIDE DEF e
  <2>6. CASE log' = Append(log, e) /\ UNCHANGED <<unlogged, raced>>
    <3>1. /\ log' \in Seq(Entry) /\ Len(log') = Len(log) + 1 /\ log'[Len(log) + 1] = e
          /\ Len(log) \in Nat /\ \A i \in 1..Len(log) : log'[i] = log[i]
      BY <1>0, <2>3, <2>6 DEF DataType
    <3>2. \A i \in 1..Len(log') : log'[i].id <= issued
      <4>1. \A i \in 1..Len(log) : log'[i].id <= issued
        BY <1>0, <3>1 DEF DataType
      <4>2. \A i \in 1..Len(log') : i \in 1..Len(log) \/ i = Len(log) + 1
        BY <3>1
      <4>3. log'[Len(log) + 1].id <= issued
        BY <1>a, <2>3, <3>1
      <4> QED BY <4>1, <4>2, <4>3
    <3> QED BY <1>0, <2>1, <2>4, <2>6, <3>1, <3>2 DEF DataType
  <2>7. CASE UNCHANGED log /\ unlogged' = unlogged \cup {io[c].id} /\ raced' = raced \cup {io[c].key}
    BY <1>0, <2>1, <2>3, <2>4, <2>7 DEF DataType
  <2> QED BY <2>5, <2>6, <2>7
<1>15. ASSUME NEW c \in Client, Answer(c) PROVE DataType'
  <2>1. UNCHANGED <<data, log, issued, unlogged, raced>> /\ (Over(c, "recv") \/ Over(c, "done"))
    BY <1>15 DEF Answer
  <2>2. io' \in [Client -> IOThread']
    BY <1>3, <1>e, <2>1 DEF data
  <2>3. io[c].id \in 1..issued
    BY <1>a, <1>15 DEF Answer, TypeInv, WorkInv, ThreadOf
  <2>4. acked' \subseteq 1..issued
    BY <1>0, <1>15, <2>3 DEF Answer, DataType
  <2> QED BY <1>0, <2>1, <2>2, <2>4 DEF DataType, data
<1>16. ASSUME NEW c \in Client, Refuse(c) PROVE DataType'
  <2>1. io' \in [Client -> IOThread']
    BY <1>3, <1>16, <1>e DEF Refuse, data, history
  <2> QED BY <1>0, <1>16, <2>1 DEF Refuse, DataType, data, history
<1>17. ASSUME NEW c \in Client, IOStep(c) PROVE DataType'
  BY <1>17, <1>6, <1>7, <1>8, <1>9, <1>10, <1>11, <1>12, <1>13, <1>14, <1>15, <1>16 DEF IOStep
<1>18. ASSUME NEW c \in Client, NEW op \in {"INCR", "DEL"}, NEW k \in Key, Receive(c, op, k)
       PROVE  DataType'
  <2>1. op \in {"INCR", "DEL", "BAD"} /\ k \in Key \cup {Nil}
    OBVIOUS
  <2> QED BY <1>5, <1>18, <2>1
<1>19. ASSUME NEW c \in Client, Receive(c, "BAD", Nil) PROVE DataType'
  BY <1>5, <1>19
<1> QED
  BY StepCases, <1>1, <1>4, <1>17, <1>18, <1>19

-----------------------------------------------------------------------------
(* What a step of an IO thread does, field by field *)

OthersKept(c) == \A d \in Client \ {c} : io'[d] = io[d]

\* The command of c goes on.
Continues(c, pc) ==
  /\ OthersKept(c) /\ UNCHANGED history
  /\ AtWork(c) /\ pc \in Working
  /\ io'[c].pc = pc /\ io'[c].op = io[c].op /\ io'[c].key = io[c].key /\ io'[c].id = io[c].id

\* c was not at work and is not.
Settles(c) ==
  /\ OthersKept(c) /\ UNCHANGED <<data, log, issued, unlogged, raced>>
  /\ ~AtWork(c) /\ io'[c].pc \in {"absent", "recv", "refuse", "done"}

LEMMA SettleSteps ==
  ASSUME DataType, NEW c \in Client, Accept(c) \/ Leave(c) \/ Refuse(c) \/ Answer(c)
  PROVE  Settles(c)
<1>0. io \in [Client -> ThreadOf(issued, Len(heap))]
  BY DataFacts
<1>1. ASSUME Accept(c) \/ Leave(c) PROVE Settles(c)
  BY <1>0, <1>1 DEF Accept, Leave, Goto, At, Settles, OthersKept, history, AtWork, Working, ThreadOf
<1>2. ASSUME NEW pc, Over(c, pc) PROVE OthersKept(c) /\ io'[c].pc = pc
  BY <1>0, <1>2 DEF Over, Idle, OthersKept
<1>3. ASSUME Refuse(c) \/ Answer(c) PROVE Settles(c)
  BY <1>2, <1>3 DEF Refuse, Answer, At, Settles, history, AtWork, Working
<1> QED BY <1>1, <1>3

LEMMA GotoEffect ==
  ASSUME DataType, NEW c \in Client, AtWork(c), UNCHANGED history, NEW pc \in Working, Goto(c, pc)
  PROVE  Continues(c, pc) /\ io'[c].obj = io[c].obj /\ io'[c].old = io[c].old
BY DataFacts DEF Goto, Continues, OthersKept, ThreadOf

LEMMA GetEffect ==
  ASSUME DataType, WorkInv, NEW c \in Client, Get(c)
  PROVE  LET k == io[c].key
         IN  /\ io[c].pc = "get" /\ UNCHANGED data /\ k \in Key
             /\ \E pc \in Working : Continues(c, pc)
             /\ io[c].op = "INCR" /\ table[k] # Nil => io'[c].pc = "read" /\ io'[c].obj = table[k]
             /\ io[c].op = "INCR" /\ table[k] = Nil => io'[c].pc = "put"
             /\ io[c].op = "DEL" /\ table[k] # Nil => io'[c].pc = "del"
             /\ io[c].op = "DEL" /\ table[k] = Nil => io'[c].pc = "log"
<1> DEFINE k == io[c].key
           pc == CASE io[c].op = "INCR" /\ table[k] # Nil -> "read"
                   [] io[c].op = "INCR" /\ table[k] = Nil -> "put"
                   [] io[c].op = "DEL" /\ table[k] # Nil -> "del"
                   [] OTHER -> "log"
           obj == IF table[k] = Nil THEN 0 ELSE table[k]
<1>1. AtWork(c) /\ k \in Key /\ io[c].op \in {"INCR", "DEL"}
  BY DEF Get, At, AtWork, Working, WorkInv
<1>2. /\ pc \in {"read", "put", "del", "log"}
      /\ io[c].op = "INCR" /\ table[k] # Nil => pc = "read"
      /\ io[c].op = "INCR" /\ table[k] = Nil => pc = "put"
      /\ io[c].op = "DEL" /\ table[k] # Nil => pc = "del"
      /\ io[c].op = "DEL" /\ table[k] = Nil => pc = "log"
  BY <1>1
<1>3. io' = [io EXCEPT ![c].pc = pc, ![c].obj = obj] /\ UNCHANGED <<data, history>> /\ io[c].pc = "get"
  BY DEF Get, At
<1> HIDE DEF pc
<1>4. pc \in Working
  BY <1>2 DEF Working
<1>5. Continues(c, pc) /\ io'[c].pc = pc /\ io'[c].obj = obj
  <2> HIDE DEF obj
  <2> QED BY <1>1, <1>3, <1>4, DataFacts DEF Continues, OthersKept, ThreadOf
<1> QED
  BY <1>1, <1>2, <1>3, <1>4, <1>5

LEMMA ReadEffect ==
  ASSUME DataType, NEW c \in Client, ReadValue(c)
  PROVE  /\ io[c].pc = "read" /\ UNCHANGED data /\ Continues(c, "write")
         /\ io'[c].obj = io[c].obj /\ io'[c].old = heap[io[c].obj]
BY DataFacts DEF ReadValue, At, AtWork, Working, Continues, OthersKept, ThreadOf

LEMMA WriteEffect ==
  ASSUME DataType, NEW c \in Client, WriteValue(c)
  PROVE  /\ io[c].pc = "write" /\ Continues(c, "log") /\ UNCHANGED <<table, numKeys>>
         /\ heap' = [heap EXCEPT ![io[c].obj] = io[c].old + 1]
BY GotoEffect DEF WriteValue, At, AtWork, Working

LEMMA PutEffect ==
  ASSUME DataType, NEW c \in Client, Put(c)
  PROVE  LET pc == IF table[io[c].key] = Nil THEN "count" ELSE "store"
         IN  /\ io[c].pc = "put" /\ UNCHANGED <<table, numKeys>> /\ Continues(c, pc)
             /\ heap' = Append(heap, 1)
             /\ io'[c].obj = Len(heap) + 1 /\ io'[c].old = numKeys
<1> DEFINE pc == IF table[io[c].key] = Nil THEN "count" ELSE "store"
<1>1. /\ io' = [io EXCEPT ![c].pc = pc, ![c].obj = Len(heap) + 1, ![c].old = numKeys]
      /\ AtWork(c) /\ pc \in Working
  BY DEF Put, At, AtWork, Working
<1>2. io[c].pc = "put" /\ UNCHANGED <<table, numKeys, history>> /\ heap' = Append(heap, 1)
  BY DEF Put, At
<1> HIDE DEF pc
<1>3. Continues(c, pc) /\ io'[c].obj = Len(heap) + 1 /\ io'[c].old = numKeys
  BY <1>1, <1>2, DataFacts DEF Continues, OthersKept, ThreadOf
<1> QED BY <1>2, <1>3 DEF pc

LEMMA CountEffect ==
  ASSUME DataType, NEW c \in Client, Count(c)
  PROVE  /\ io[c].pc = "count" /\ Continues(c, "store") /\ UNCHANGED <<table, heap>>
         /\ numKeys' = io[c].old + 1
         /\ io'[c].obj = io[c].obj
BY GotoEffect DEF Count, At, AtWork, Working

LEMMA StoreEffect ==
  ASSUME DataType, NEW c \in Client, Store(c)
  PROVE  /\ io[c].pc = "store" /\ Continues(c, "log") /\ UNCHANGED <<heap, numKeys>>
         /\ table' = [table EXCEPT ![io[c].key] = io[c].obj]
BY GotoEffect DEF Store, At, AtWork, Working

LEMMA DeleteEffect ==
  ASSUME DataType, NEW c \in Client, Delete(c)
  PROVE  /\ io[c].pc = "del" /\ Continues(c, "uncount") /\ UNCHANGED <<heap, numKeys>>
         /\ table' = [table EXCEPT ![io[c].key] = Nil]
         /\ io'[c].old = numKeys
BY DataFacts DEF Delete, At, AtWork, Working, Continues, OthersKept, ThreadOf

LEMMA UncountEffect ==
  ASSUME DataType, NEW c \in Client, Uncount(c)
  PROVE  /\ io[c].pc = "uncount" /\ Continues(c, "log") /\ UNCHANGED <<table, heap>>
         /\ numKeys' = io[c].old - 1
BY GotoEffect DEF Uncount, At, AtWork, Working

LEMMA LogEffect ==
  ASSUME DataType, NEW c \in Client, LogCommand(c)
  PROVE  /\ io[c].pc = "log" /\ AtWork(c) /\ OthersKept(c) /\ UNCHANGED <<data, acked, issued>>
         /\ io'[c].pc = "answer" /\ io'[c].id = io[c].id /\ ~AtWork(c)'
         /\ \/ /\ log' = Append(log, [id |-> io[c].id, op |-> io[c].op, key |-> io[c].key])
               /\ UNCHANGED <<unlogged, raced>>
            \/ /\ unlogged' = unlogged \cup {io[c].id} /\ raced' = raced \cup {io[c].key}
               /\ UNCHANGED log
BY DataFacts DEF LogCommand, At, AtWork, Working, Goto, OthersKept, ThreadOf

LEMMA ReceiveEffect ==
  ASSUME DataType, NEW c \in Client, NEW op, NEW k, Receive(c, op, k)
  PROVE  /\ io[c].pc = "recv" /\ ~AtWork(c) /\ OthersKept(c) /\ issued' = issued + 1
         /\ UNCHANGED <<data, log, acked, unlogged>>
         /\ io'[c].pc = (IF op = "BAD" THEN "refuse" ELSE "get")
         /\ io'[c].op = op /\ io'[c].key = k /\ io'[c].id = issued + 1
         /\ raced' = IF op # "BAD" /\ \E d \in Client \ {c} : AtWork(d) /\ io[d].key = k
                     THEN raced \cup {k} ELSE raced
<1>1. /\ io[c].pc = "recv" /\ ~AtWork(c) /\ issued' = issued + 1
      /\ UNCHANGED <<data, log, acked, unlogged>>
  BY DEF Receive, At, AtWork, Working
<1>2. /\ raced' = IF op # "BAD" /\ \E d \in Client \ {c} : AtWork(d) /\ io[d].key = k
                  THEN raced \cup {k} ELSE raced
  BY DEF Receive
<1> DEFINE pc == IF op = "BAD" THEN "refuse" ELSE "get"
           t == [Idle EXCEPT !.pc = pc, !.op = op, !.key = k, !.id = issued + 1]
<1>3. io' = [io EXCEPT ![c] = t]
  BY DEF Receive
<1>4. t.pc = pc /\ t.op = op /\ t.key = k /\ t.id = issued + 1
  <2> HIDE DEF pc
  <2> QED BY DEF Idle
<1> HIDE DEF t
<1>5. io'[c] = t /\ OthersKept(c)
  BY <1>3, DataFacts DEF OthersKept
<1> QED BY <1>1, <1>2, <1>4, <1>5

-----------------------------------------------------------------------------
(* Type correctness *)

LEMMA LogIdsAppend ==
  ASSUME DataType, NEW e \in Entry, log' = Append(log, e)
  PROVE  LogIds' = LogIds \cup {e.id}
<1>1. /\ Len(log') = Len(log) + 1 /\ log'[Len(log) + 1] = e /\ Len(log) \in Nat
      /\ \A i \in 1..Len(log) : log'[i] = log[i]
  BY DEF DataType
<1>2. \A i \in 1..Len(log') : i \in 1..Len(log) \/ i = Len(log) + 1
  BY <1>1
<1>3. 1..Len(log) \subseteq 1..Len(log') /\ Len(log) + 1 \in 1..Len(log')
  BY <1>1
<1> QED
  BY <1>1, <1>2, <1>3 DEF LogIds

LEMMA IdBounds ==
  ASSUME DataType
  PROVE  /\ \A id \in LogIds : id \in Int /\ id <= issued
         /\ \A id \in unlogged : id \in Int /\ id <= issued
         /\ \A c \in Client : io[c].id \in 0..issued
<1>1. \A i \in 1..Len(log) : log[i] \in Entry
  BY DEF DataType
<1>2. \A i \in 1..Len(log) : log[i].id \in Int /\ log[i].id <= issued
  BY <1>1 DEF DataType, Entry
<1> QED
  BY <1>2, DataFacts DEF LogIds, DataType, ThreadOf

\* A command that goes on keeps its key and its id, and nothing is logged.
LEMMA WorkContinues ==
  ASSUME WorkInv, NEW c \in Client, NEW pc, Continues(c, pc),
         pc \in {"read", "write", "count", "store"} => io'[c].obj >= 1
  PROVE  WorkInv'
<1>1. LogIds' = LogIds /\ UNCHANGED unlogged
  BY DEF LogIds, Continues, history
<1>2. \A d \in Client : io'[d].key = io[d].key /\ io'[d].op = io[d].op /\ io'[d].id = io[d].id
  BY DEF Continues, OthersKept
<1>8. \A d \in Client : AtWork(d)' <=> AtWork(d)
  BY DEF Continues, OthersKept, AtWork
<1>3. \A d \in Client : io'[d].pc = "answer" => io[d].pc = "answer"
  BY DEF Continues, OthersKept, Working
<1>4. \A d \in Client : Holds(d)' => io'[d].obj >= 1
  BY DEF Continues, OthersKept, Holds, WorkInv
<1>5. \A d \in Client : AtWork(d)' => /\ io'[d].key \in Key /\ io'[d].op \in {"INCR", "DEL"}
                                       /\ io'[d].id >= 1 /\ io'[d].id \notin LogIds'
  BY <1>1, <1>2, <1>8 DEF WorkInv
<1>6. \A d, e \in Client : AtWork(d)' /\ AtWork(e)' /\ io'[d].id = io'[e].id => d = e
  BY <1>2, <1>8 DEF WorkInv
<1>7. \A d \in Client : At(d, "answer")' => io'[d].id >= 1 /\ io'[d].id \in unlogged' \cup LogIds'
  <2> SUFFICES ASSUME NEW d \in Client, io'[d].pc = "answer"
               PROVE  io'[d].id >= 1 /\ io'[d].id \in unlogged' \cup LogIds'
    BY DEF At
  <2>1. At(d, "answer") /\ io'[d].id = io[d].id
    BY <1>2, <1>3 DEF At
  <2> QED BY <1>1, <2>1 DEF WorkInv
<1> QED
  BY <1>4, <1>5, <1>6, <1>7 DEF WorkInv

LEMMA WorkStep ==
  ASSUME TypeInv, [Next]_vars
  PROVE  WorkInv'
<1>0. DataType /\ WorkInv /\ issued \in Nat /\ Len(heap) \in Nat
  BY TypeSplit, DataFacts DEF TypeInv
<1>1. CASE UNCHANGED <<io, data, history>>
  BY <1>0, <1>1 DEF WorkInv, history, AtWork, At, Holds, LogIds
<1>2. ASSUME NEW c \in Client, Settles(c) PROVE WorkInv'
  <2>1. LogIds' = LogIds /\ UNCHANGED unlogged
    BY <1>2 DEF LogIds, Settles
  <2>2. ~AtWork(c)' /\ io'[c].pc # "answer" /\ ~Holds(c)'
    BY <1>2 DEF Settles, AtWork, Working, Holds
  <2>3. \A d \in Client \ {c} : io'[d] = io[d]
    BY <1>2 DEF Settles, OthersKept
  <2> QED BY <1>0, <2>1, <2>2, <2>3 DEF WorkInv, At, AtWork, Holds
<1>3. ASSUME NEW c \in Client, Accept(c) \/ Leave(c) \/ Refuse(c) \/ Answer(c) PROVE WorkInv'
  BY <1>0, <1>2, <1>3, SettleSteps
<1>4. ASSUME NEW c \in Client, NEW op, NEW k, op # "BAD" => op \in {"INCR", "DEL"} /\ k \in Key,
             Receive(c, op, k)
      PROVE  WorkInv'
  <2>1. LogIds' = LogIds /\ UNCHANGED unlogged /\ \A d \in Client \ {c} : io'[d] = io[d]
    BY <1>0, <1>4, ReceiveEffect DEF LogIds, OthersKept
  <2>2. /\ AtWork(c)' => io'[c].key \in Key /\ io'[c].op \in {"INCR", "DEL"}
        /\ io'[c].id = issued + 1 /\ io'[c].pc # "answer" /\ ~Holds(c)'
    BY <1>0, <1>4, ReceiveEffect DEF AtWork, Working, Holds
  <2>3. \A d \in Client \ {c} : io'[d].id # issued + 1
    BY <1>0, <2>1, IdBounds
  <2>4. issued + 1 \notin LogIds /\ issued + 1 >= 1
    BY <1>0, IdBounds
  <2> QED BY <1>0, <2>1, <2>2, <2>3, <2>4 DEF WorkInv, At, AtWork, Holds
<1>5. ASSUME NEW c \in Client, Get(c) PROVE WorkInv'
  <2>1. PICK pc \in Working : Continues(c, pc)
    BY <1>0, <1>5, GetEffect
  <2>2. pc \in {"read", "write", "count", "store"} => io'[c].obj >= 1
    <3>1. io'[c].pc = pc /\ io[c].op \in {"INCR", "DEL"} /\ io[c].key \in Key
      BY <1>0, <2>1 DEF Continues, WorkInv
    <3>2. table[io[c].key] # Nil => table[io[c].key] \in 1..Len(heap)
      BY <1>0, <3>1 DEF DataType
    <3> QED BY <1>0, <1>5, <3>1, <3>2, GetEffect
  <2> QED BY <1>0, <2>1, <2>2, WorkContinues
<1>6. ASSUME NEW c \in Client, ReadValue(c) PROVE WorkInv'
  <2>1. Continues(c, "write") /\ io'[c].obj >= 1
    BY <1>0, <1>6, ReadEffect DEF WorkInv, Holds
  <2> QED BY <1>0, <2>1, WorkContinues
<1>7. ASSUME NEW c \in Client, Put(c) PROVE WorkInv'
  <2>1. PICK pc \in {"count", "store"} : Continues(c, pc)
    BY <1>0, <1>7, PutEffect
  <2>2. io'[c].obj >= 1
    BY <1>0, <1>7, PutEffect
  <2> QED BY <1>0, <2>1, <2>2, WorkContinues
<1>8. ASSUME NEW c \in Client, Count(c) PROVE WorkInv'
  <2>1. Continues(c, "store") /\ io'[c].obj >= 1
    BY <1>0, <1>8, CountEffect DEF WorkInv, Holds
  <2> QED BY <1>0, <2>1, WorkContinues
<1>9. ASSUME NEW c \in Client, WriteValue(c) \/ Store(c) \/ Delete(c) \/ Uncount(c) PROVE WorkInv'
  <2>1. Continues(c, "log") \/ Continues(c, "uncount")
    BY <1>0, <1>9, WriteEffect, StoreEffect, DeleteEffect, UncountEffect
  <2> QED BY <1>0, <2>1, WorkContinues
<1>10. ASSUME NEW c \in Client, LogCommand(c) PROVE WorkInv'
  <2> DEFINE e == [id |-> io[c].id, op |-> io[c].op, key |-> io[c].key]
  <2>1. /\ AtWork(c) /\ ~AtWork(c)' /\ io'[c].pc = "answer" /\ io'[c].id = io[c].id
        /\ \A d \in Client \ {c} : io'[d] = io[d]
        /\ \/ log' = Append(log, e) /\ unlogged' = unlogged
           \/ log' = log /\ unlogged' = unlogged \cup {io[c].id}
    BY <1>0, <1>10, LogEffect DEF OthersKept
  <2>2. e \in Entry /\ e.id = io[c].id /\ io[c].id >= 1
    BY <1>0, <2>1, IdBounds DEF WorkInv, Entry
  <2> HIDE DEF e
  <2>3. LogIds' \cup unlogged' = LogIds \cup unlogged \cup {io[c].id}
    BY <1>0, <2>1, <2>2, LogIdsAppend DEF LogIds
  <2>4. LogIds' \subseteq LogIds \cup {io[c].id}
    BY <1>0, <2>1, <2>2, LogIdsAppend DEF LogIds
  <2>5. \A d \in Client \ {c} : AtWork(d)' => io'[d].id # io[c].id
    BY <1>0, <2>1 DEF WorkInv, AtWork
  <2>6. ~Holds(c)'
    BY <2>1 DEF Holds
  <2> QED BY <1>0, <2>1, <2>2, <2>3, <2>4, <2>5, <2>6 DEF WorkInv, AtWork, At, Holds
<1>11. ASSUME NEW c \in Client, IOStep(c) PROVE WorkInv'
  BY <1>11, <1>3, <1>5, <1>6, <1>7, <1>8, <1>9, <1>10 DEF IOStep
<1>12. ASSUME NEW c \in Client, NEW op \in {"INCR", "DEL"}, NEW k \in Key, Receive(c, op, k) PROVE WorkInv'
  BY <1>4, <1>12
<1>13. ASSUME NEW c \in Client, Receive(c, "BAD", Nil) PROVE WorkInv'
  BY <1>4, <1>13
<1> QED
  BY StepCases, <1>1, <1>3, <1>11, <1>12, <1>13

\* Commands that are yet to write and commands received grow alike, and the
\* slack grows when a command need not write any more.
LEMMA SlackKept ==
  ASSUME DataType, IsFiniteSet(Unwritten), NEW c \in Client,
         \/ issued' = issued /\ Unwritten' = Unwritten
         \/ issued' = issued /\ Unwritten' = Unwritten \ {c}
         \/ issued' = issued + 1 /\ Unwritten' = Unwritten \cup {c}
         \/ issued' = issued + 1 /\ Unwritten' = Unwritten
  PROVE  /\ IsFiniteSet(Unwritten') /\ Slack \in Int /\ Slack' \in Int /\ Slack <= Slack'
         /\ issued' = issued /\ c \in Unwritten /\ c \notin Unwritten' => Slack + 1 <= Slack'
<1> DEFINE U == Unwritten
           V == Unwritten'
<1>1. issued \in Nat /\ IsFiniteSet(U)
  BY DataFacts
<1>2. \/ issued' = issued /\ V = U
      \/ issued' = issued /\ V = U \ {c}
      \/ issued' = issued + 1 /\ V = U \cup {c}
      \/ issued' = issued + 1 /\ V = U
  OBVIOUS
<1> HIDE DEF U, V
<1>3. Cardinality(U) \in Nat
  BY <1>1, FS_CardinalityType
<1>4. /\ IsFiniteSet(U \cup {c})
      /\ Cardinality(U \cup {c}) = IF c \in U THEN Cardinality(U) ELSE Cardinality(U) + 1
  BY <1>1, FS_AddElement
<1>5. /\ IsFiniteSet(U \ {c})
      /\ Cardinality(U \ {c}) = IF c \in U THEN Cardinality(U) - 1 ELSE Cardinality(U)
  BY <1>1, FS_RemoveElement
<1>6. IsFiniteSet(V) /\ issued' \in Nat
  BY <1>1, <1>2, <1>4, <1>5
<1>7. Cardinality(V) \in Nat
  BY <1>6, FS_CardinalityType
<1>8. \/ issued' = issued /\ Cardinality(V) = Cardinality(U)
      \/ issued' = issued /\ Cardinality(V) = Cardinality(U) - 1
      \/ issued' = issued + 1 /\ Cardinality(V) = Cardinality(U)
      \/ issued' = issued + 1 /\ Cardinality(V) = Cardinality(U) + 1
  BY <1>2, <1>4, <1>5
<1>9. issued' = issued /\ c \in U /\ c \notin V => Cardinality(V) = Cardinality(U) - 1
  BY <1>1, <1>2, <1>5
<1>10. Slack = issued + 1 - Cardinality(U) /\ Slack' = issued' + 1 - Cardinality(V)
  BY DEF Slack, U, V
<1>11. Slack \in Int /\ Slack' \in Int
  BY <1>1, <1>3, <1>6, <1>7, <1>10
<1>12. Slack <= Slack'
  BY <1>1, <1>3, <1>7, <1>8, <1>10
<1>13. issued' = issued /\ c \in U /\ c \notin V => Slack + 1 <= Slack'
  BY <1>1, <1>3, <1>9, <1>10
<1> QED
  BY <1>6, <1>11, <1>12, <1>13 DEF U, V

LEMMA ValueStep ==
  ASSUME TypeInv, [Next]_vars
  PROVE  ValueInv'
<1>0. /\ DataType /\ WorkInv /\ ValueInv /\ issued \in Nat /\ Len(heap) \in Nat
      /\ IsFiniteSet(Unwritten) /\ heap \in Seq(1..(issued + 1))
  BY TypeSplit, DataFacts DEF TypeInv, ValueInv, DataType
<1>a. \A c \in Client : io[c].old \in Int
  BY <1>0, DataFacts DEF ThreadOf
<1>b. \A i \in 1..Len(heap) : heap[i] \in Int /\ heap[i] >= 1 /\ heap[i] <= Slack
  BY <1>0 DEF ValueInv
<1>c. \A c \in Client : io[c].pc = "write" => io[c].old >= 1 /\ io[c].old <= Slack
  BY <1>0 DEF ValueInv, At
<1>1. CASE UNCHANGED <<io, data, history>>
  BY <1>0, <1>1 DEF ValueInv, data, history, At, Unwritten, Slack
<1>2. ASSUME NEW c \in Client, OthersKept(c), heap' = heap,
             io'[c].pc = "write" => io'[c].old \in Int /\ io'[c].old >= 1 /\ io'[c].old <= Slack,
             \/ issued' = issued /\ (c \in Unwritten' => c \in Unwritten)
             \/ issued' = issued + 1 /\ c \notin Unwritten
      PROVE  ValueInv'
  <2>1. Unwritten' = Unwritten \/ Unwritten' = Unwritten \ {c} \/ Unwritten' = Unwritten \cup {c}
    BY <1>2 DEF OthersKept, Unwritten
  <2>2. \/ issued' = issued /\ Unwritten' = Unwritten
        \/ issued' = issued /\ Unwritten' = Unwritten \ {c}
        \/ issued' = issued + 1 /\ Unwritten' = Unwritten \cup {c}
        \/ issued' = issued + 1 /\ Unwritten' = Unwritten
    <3> DEFINE U == Unwritten
               V == Unwritten'
    <3>1. V = U \/ V = U \ {c} \/ V = U \cup {c}
      BY <2>1
    <3>2. \/ issued' = issued /\ (c \in V => c \in U)
          \/ issued' = issued + 1 /\ c \notin U
      BY <1>2
    <3> HIDE DEF U, V
    <3>3. \/ issued' = issued /\ V = U
          \/ issued' = issued /\ V = U \ {c}
          \/ issued' = issued + 1 /\ V = U \cup {c}
          \/ issued' = issued + 1 /\ V = U
      BY <3>1, <3>2
    <3> QED BY <3>3 DEF U, V
  <2>3. IsFiniteSet(Unwritten') /\ Slack \in Int /\ Slack' \in Int /\ Slack <= Slack'
    BY <1>0, <2>2, SlackKept
  <2>4. 1 <= Slack'
    BY <1>0, <2>3 DEF ValueInv
  <2>5. \A i \in 1..Len(heap') : heap'[i] <= Slack'
    BY <1>2, <1>b, <2>3
  <2>6. \A d \in Client : io'[d].pc = "write" => io'[d].old >= 1 /\ io'[d].old <= Slack'
    <3>1. \A d \in Client : io'[d].pc = "write" => io'[d].old \in Int /\ io'[d].old >= 1 /\ io'[d].old <= Slack
      BY <1>2, <1>a, <1>c DEF OthersKept
    <3> QED BY <3>1, <2>3
  <2> QED BY <2>3, <2>4, <2>5, <2>6 DEF ValueInv, At
<1>3. ASSUME NEW c \in Client, Settles(c) PROVE ValueInv'
  <2>1. OthersKept(c) /\ heap' = heap /\ issued' = issued /\ io'[c].pc \notin {"get", "read", "write"}
    BY <1>3 DEF Settles, data
  <2>2. c \notin Unwritten'
    BY <2>1 DEF Unwritten
  <2> QED BY <1>2, <2>1, <2>2
<1>4. ASSUME NEW c \in Client, Accept(c) \/ Leave(c) \/ Refuse(c) \/ Answer(c) PROVE ValueInv'
  BY <1>0, <1>3, <1>4, SettleSteps
<1>5. ASSUME NEW c \in Client, NEW op, NEW k, Receive(c, op, k) PROVE ValueInv'
  <2>1. /\ OthersKept(c) /\ heap' = heap /\ issued' = issued + 1 /\ io'[c].pc # "write"
        /\ io[c].pc = "recv"
    BY <1>0, <1>5, ReceiveEffect DEF data
  <2>2. c \notin Unwritten
    BY <2>1 DEF Unwritten
  <2> QED BY <1>2, <2>1, <2>2
<1>6. ASSUME NEW c \in Client, NEW pc, Continues(c, pc), heap' = heap, pc # "write",
             pc \in {"get", "read"} => c \in Unwritten
      PROVE  ValueInv'
  <2>1. OthersKept(c) /\ issued' = issued /\ io'[c].pc = pc
    BY <1>6 DEF Continues, history
  <2>2. c \in Unwritten' => c \in Unwritten
    BY <1>6, <2>1 DEF Unwritten
  <2> QED BY <1>2, <1>6, <2>1, <2>2
<1>7. ASSUME NEW c \in Client, Get(c) PROVE ValueInv'
  <2>1. PICK pc \in Working : Continues(c, pc)
    BY <1>0, <1>7, GetEffect
  <2>2. c \in Unwritten /\ heap' = heap
    BY <1>0, <1>7, GetEffect DEF Unwritten, data
  <2>3. io[c].op \in {"INCR", "DEL"} /\ io'[c].pc = pc
    BY <1>0, <2>1 DEF Continues, WorkInv
  <2>4. pc # "write"
    BY <1>0, <1>7, <2>3, GetEffect
  <2> QED BY <1>6, <2>1, <2>2, <2>4
<1>8. ASSUME NEW c \in Client, ReadValue(c) PROVE ValueInv'
  <2>1. /\ OthersKept(c) /\ heap' = heap /\ issued' = issued /\ io[c].pc = "read"
        /\ io'[c].old = heap[io[c].obj]
    BY <1>0, <1>8, ReadEffect DEF Continues, data, history
  <2>2. c \in Unwritten
    BY <2>1 DEF Unwritten
  <2>3. io[c].obj \in 1..Len(heap)
    BY <1>0, <2>1, DataFacts DEF WorkInv, Holds, ThreadOf
  <2> QED BY <1>2, <1>b, <2>1, <2>2, <2>3
<1>9. ASSUME NEW c \in Client, WriteValue(c) PROVE ValueInv'
  <2>1. /\ OthersKept(c) /\ issued' = issued /\ io[c].pc = "write" /\ io'[c].pc = "log"
        /\ heap' = [heap EXCEPT ![io[c].obj] = io[c].old + 1]
    BY <1>0, <1>9, WriteEffect DEF Continues, history
  <2>2. Unwritten' = Unwritten \ {c} /\ c \in Unwritten /\ c \notin Unwritten'
    BY <2>1 DEF Unwritten, OthersKept
  <2>3. /\ IsFiniteSet(Unwritten') /\ Slack \in Int /\ Slack' \in Int /\ Slack <= Slack'
        /\ Slack + 1 <= Slack'
    BY <1>0, <2>1, <2>2, SlackKept
  <2>4. 1 <= Slack'
    BY <1>0, <2>3 DEF ValueInv
  <2>5. \A i \in 1..Len(heap') : heap'[i] <= Slack'
    <3>1. Len(heap') = Len(heap) /\ \A i \in 1..Len(heap) : heap'[i] = heap[i] \/ heap'[i] = io[c].old + 1
      BY <1>0, <2>1
    <3> QED BY <1>a, <1>b, <1>c, <2>1, <2>3, <3>1
  <2>6. \A d \in Client : io'[d].pc = "write" => io'[d].old >= 1 /\ io'[d].old <= Slack'
    BY <1>a, <1>c, <2>1, <2>3 DEF OthersKept
  <2> QED BY <2>3, <2>4, <2>5, <2>6 DEF ValueInv, At
<1>10. ASSUME NEW c \in Client, Put(c) PROVE ValueInv'
  <2>1. /\ OthersKept(c) /\ UNCHANGED history /\ io[c].pc = "put" /\ io'[c].pc \in {"count", "store"}
        /\ heap' = Append(heap, 1)
    BY <1>0, <1>10, PutEffect DEF Continues
  <2>2. Unwritten' = Unwritten /\ issued' = issued
    BY <2>1 DEF Unwritten, OthersKept, history
  <2>3. IsFiniteSet(Unwritten') /\ Slack \in Int /\ Slack' \in Int /\ Slack <= Slack'
    BY <1>0, <2>2, SlackKept
  <2>4. 1 <= Slack'
    BY <1>0, <2>3 DEF ValueInv
  <2>5. \A i \in 1..Len(heap') : heap'[i] <= Slack'
    <3>1. \A i \in 1..Len(heap') : heap'[i] = 1 \/ (i \in 1..Len(heap) /\ heap'[i] = heap[i])
      <4>1. /\ Len(heap') = Len(heap) + 1 /\ heap'[Len(heap) + 1] = 1
            /\ \A i \in 1..Len(heap) : heap'[i] = heap[i]
        BY <1>0, <2>1
      <4>2. \A i \in 1..Len(heap') : i \in 1..Len(heap) \/ i = Len(heap) + 1
        BY <1>0, <4>1
      <4> QED BY <4>1, <4>2
    <3> QED BY <1>b, <2>3, <2>4, <3>1
  <2>6. \A d \in Client : io'[d].pc = "write" => io'[d].old >= 1 /\ io'[d].old <= Slack'
    BY <1>a, <1>c, <2>1, <2>3 DEF OthersKept
  <2> QED BY <2>3, <2>4, <2>5, <2>6 DEF ValueInv, At
<1>11. ASSUME NEW c \in Client, Count(c) \/ Store(c) \/ Delete(c) \/ Uncount(c) PROVE ValueInv'
  <2>1. heap' = heap /\ \E pc \in {"store", "log", "uncount"} : Continues(c, pc)
    BY <1>0, <1>11, CountEffect, StoreEffect, DeleteEffect, UncountEffect
  <2> QED BY <1>6, <2>1
<1>12. ASSUME NEW c \in Client, LogCommand(c) PROVE ValueInv'
  <2>1. OthersKept(c) /\ heap' = heap /\ issued' = issued /\ io'[c].pc = "answer"
    BY <1>0, <1>12, LogEffect DEF data
  <2>2. c \notin Unwritten'
    BY <2>1 DEF Unwritten
  <2> QED BY <1>2, <2>1, <2>2
<1>13. ASSUME NEW c \in Client, IOStep(c) PROVE ValueInv'
  BY <1>13, <1>4, <1>7, <1>8, <1>9, <1>10, <1>11, <1>12 DEF IOStep
<1> QED
  BY StepCases, <1>1, <1>4, <1>5, <1>13

LEMMA TypeInvStep ==
  ASSUME TypeInv, [Next]_vars
  PROVE  TypeInv'
<1>1. LifecycleType' /\ DataType'
  BY TypeSplit, LifecycleTypeStep, DataTypeStep DEF TypeInv
<1>2. TypeOK'
  BY <1>1 DEF TypeOK, LifecycleType, DataType
<1> QED
  BY <1>2, WorkStep, ValueStep DEF TypeInv

\* The states of the goroutines, the objects and the histories are well
\* formed whatever the clients, keys and bounds, and no value exceeds the
\* commands received: doIncr on a racing key may lose an increment, and never
\* adds one.
THEOREM TypeCorrect == Spec => []TypeOK
<1>1. Init => TypeInv
  BY InitTypeInv
<1>2. TypeInv /\ [Next]_vars => TypeInv'
  BY TypeInvStep
<1>3. TypeInv => TypeOK
  BY DEF TypeInv
<1> QED
  BY <1>1, <1>2, <1>3, PTL DEF Spec

-----------------------------------------------------------------------------
(* Shutdown *)

LEMMA ShutdownStep ==
  ASSUME TypeInv, ShutdownInv, [Next]_vars
  PROVE  ShutdownInv'
<1>0. DataType /\ WorkInv /\ LifecycleType
  BY TypeSplit DEF TypeInv
<1>2. CASE UNCHANGED vars
  BY <1>2 DEF vars, lifecycle, ShutdownInv, Live
<1>3. CASE Signal
  BY <1>3 DEF Signal, ShutdownInv, Live
<1>4. CASE CancelOnSignal
  BY <1>4, <1>0 DEF CancelOnSignal, ShutdownInv, Live, LifecycleType
<1>5. CASE Start
  BY <1>5 DEF Start, LeaveRange, CloseSigs, TeardownWAL, Cancel, Exit, ShutdownInv, Live
<1>6. CASE ManagerRun
  BY <1>6 DEF ManagerRun, ShutdownInv, Live
<1>7. CASE RunSelect
  BY <1>7 DEF RunSelect, ShutdownInv, Live
<1>8. CASE RunReturn
  BY <1>8 DEF RunReturn, ShutdownInv, Live
<1>9. CASE AcceptLook \/ AcceptNobody \/ AcceptError
  BY <1>9 DEF AcceptLook, AcceptNobody, AcceptError, ShutdownInv, Live
<1>10. ASSUME NEW s \in Shard, ShardThreadStop(s) PROVE ShutdownInv'
  BY <1>10 DEF ShardThreadStop, ShutdownInv, Live
<1>11. ASSUME NEW c \in Client, Accept(c) PROVE ShutdownInv'
  <2>1. run' = run /\ run # "returned" /\ accept' # "call" /\ UNCHANGED <<main, sigs, wal>>
    BY <1>11 DEF Accept, ShutdownInv
  <2> QED BY <2>1 DEF ShutdownInv
<1>12. ASSUME UNCHANGED lifecycle, NEW c \in Client, Live(c) PROVE ShutdownInv'
  BY <1>12 DEF lifecycle, ShutdownInv
<1>13. ASSUME NEW c \in Client, NEW op, NEW k, Receive(c, op, k) PROVE ShutdownInv'
  <2>1. UNCHANGED lifecycle /\ Live(c)
    BY <1>13 DEF Receive, At, Live
  <2> QED BY <1>12, <2>1
<1>14. ASSUME NEW c \in Client, Leave(c) \/ IOStep(c) PROVE ShutdownInv'
  <2>1. UNCHANGED lifecycle /\ Live(c)
    BY <1>14 DEF Leave, IOStep, Get, ReadValue, WriteValue, Put, Count, Store, Delete, Uncount,
                 LogCommand, Answer, Refuse, At, Live
  <2> QED BY <1>12, <2>1
<1> QED
  BY <1>2, <1>3, <1>4, <1>5, <1>6, <1>7, <1>8, <1>9, <1>10, <1>11, <1>13, <1>14 DEF Next

LEMMA InitShutdown == Init => ShutdownInv
BY DEF Init, ShutdownInv, Live, Idle

\* TeardownWAL closes the log when no IO thread is left that could write to
\* it, with any number of clients: Start calls it after Run, which waits for
\* the accept loop and for every IO thread, and nobody is accepted later.
THEOREM LogOutlivesThreads == Spec => []TeardownAfterThreads
<1>1. Init => TypeInv /\ ShutdownInv
  BY InitTypeInv, InitShutdown
<1>2. TypeInv /\ ShutdownInv /\ [Next]_vars => TypeInv' /\ ShutdownInv'
  BY TypeInvStep, ShutdownStep
<1>3. ShutdownInv => TeardownAfterThreads
  BY DEF ShutdownInv, TeardownAfterThreads
<1> QED
  BY <1>1, <1>2, <1>3, PTL DEF Spec

-----------------------------------------------------------------------------
(* Answers and the log *)

OncePerId == \A i, j \in 1..Len(log) : log[i].id = log[j].id => i = j

LEMMA AnsweredForm == AnsweredIsLogged <=> acked \subseteq unlogged \cup LogIds /\ OncePerId
<1>1. IsInjective([i \in 1..Len(log) |-> log[i].id]) <=> OncePerId
  BY DEF IsInjective, OncePerId
<1> QED BY <1>1 DEF AnsweredIsLogged, LogIds

LEMMA InitAnswered == Init => AnsweredIsLogged
<1> SUFFICES ASSUME Init PROVE AnsweredIsLogged
  OBVIOUS
<1> DEFINE keys == SetToSeq(Restored)
<1>1. log = [i \in DOMAIN keys |-> [id |-> 1 - i, op |-> "INCR", key |-> keys[i]]]
      /\ acked = {}
  BY DEF Init
<1>2. \E n \in Nat : DOMAIN keys = 1..n
  BY RestoredSeq
<1> HIDE DEF keys
<1>3. PICK n \in Nat : DOMAIN keys = 1..n
  BY <1>2
<1>4. Len(log) = n /\ \A i \in 1..n : log[i].id = 1 - i
  BY <1>1, <1>3
<1>5. OncePerId
  BY <1>4 DEF OncePerId
<1> QED BY <1>1, <1>5, AnsweredForm

LEMMA AnsweredStep ==
  ASSUME TypeInv, AnsweredIsLogged, [Next]_vars
  PROVE  AnsweredIsLogged'
<1>0. DataType /\ WorkInv /\ acked \subseteq unlogged \cup LogIds /\ OncePerId
  BY TypeSplit, AnsweredForm DEF TypeInv
<1>a. acked' \subseteq unlogged' \cup LogIds' /\ OncePerId' => AnsweredIsLogged'
  <2>1. IsInjective([i \in 1..Len(log') |-> log'[i].id]) <=> OncePerId'
    BY DEF IsInjective, OncePerId
  <2> QED BY <2>1 DEF AnsweredIsLogged, LogIds
<1>1. ASSUME UNCHANGED <<log, acked, unlogged>> PROVE AnsweredIsLogged'
  BY <1>1 DEF AnsweredIsLogged
<1>2. ASSUME NEW c \in Client, NEW op, NEW k, Receive(c, op, k) PROVE AnsweredIsLogged'
  BY <1>0, <1>1, <1>2, ReceiveEffect
<1>3. ASSUME NEW c \in Client, Accept(c) \/ Leave(c) \/ Refuse(c) PROVE AnsweredIsLogged'
  BY <1>1, <1>3 DEF Accept, Leave, Refuse, history
<1>4. ASSUME NEW c \in Client, LogCommand(c) PROVE AnsweredIsLogged'
  <2> DEFINE e == [id |-> io[c].id, op |-> io[c].op, key |-> io[c].key]
  <2>1. /\ AtWork(c) /\ acked' = acked
        /\ \/ log' = Append(log, e) /\ unlogged' = unlogged
           \/ log' = log /\ unlogged' = unlogged \cup {io[c].id}
    BY <1>0, <1>4, LogEffect
  <2>2. e \in Entry /\ e.id = io[c].id /\ e.id \notin LogIds
    BY <1>0, <2>1, IdBounds DEF WorkInv, Entry
  <2> HIDE DEF e
  <2>3. CASE log' = Append(log, e) /\ unlogged' = unlogged
    <3>1. LogIds' = LogIds \cup {e.id}
      BY <1>0, <2>2, <2>3, LogIdsAppend
    <3>2. /\ Len(log') = Len(log) + 1 /\ log'[Len(log) + 1] = e /\ Len(log) \in Nat
          /\ \A i \in 1..Len(log) : log'[i] = log[i]
      BY <1>0, <2>3 DEF DataType
    <3>3. \A i \in 1..Len(log') : i \in 1..Len(log) \/ i = Len(log) + 1
      BY <3>2
    <3>4. \A i \in 1..Len(log) : log'[i].id \in LogIds
      BY <3>2 DEF LogIds
    <3>5. OncePerId'
      BY <1>0, <2>2, <3>2, <3>3, <3>4 DEF OncePerId
    <3> QED BY <1>0, <1>a, <2>1, <2>3, <3>1, <3>5
  <2>4. CASE log' = log /\ unlogged' = unlogged \cup {io[c].id}
    BY <1>0, <1>a, <2>1, <2>4 DEF OncePerId, LogIds
  <2> QED BY <2>1, <2>3, <2>4
<1>5. ASSUME NEW c \in Client, Answer(c) PROVE AnsweredIsLogged'
  <2>1. UNCHANGED <<log, unlogged>> /\ acked' \subseteq acked \cup {io[c].id}
    BY <1>5 DEF Answer
  <2>2. io[c].id \in unlogged \cup LogIds
    BY <1>0, <1>5 DEF Answer, WorkInv
  <2> QED BY <1>0, <1>a, <2>1, <2>2 DEF OncePerId, LogIds
<1>6. ASSUME NEW c \in Client, Get(c) \/ ReadValue(c) \/ WriteValue(c) \/ Put(c) \/ Count(c)
                               \/ Store(c) \/ Delete(c) \/ Uncount(c)
      PROVE  AnsweredIsLogged'
  BY <1>1, <1>6 DEF Get, ReadValue, WriteValue, Put, Count, Store, Delete, Uncount, history
<1>7. ASSUME NEW c \in Client, IOStep(c) PROVE AnsweredIsLogged'
  BY <1>3, <1>4, <1>5, <1>6, <1>7 DEF IOStep
<1>8. CASE UNCHANGED <<io, data, history>>
  BY <1>1, <1>8 DEF history
<1> QED
  BY StepCases, <1>2, <1>3, <1>7, <1>8

\* A command is answered with OK after it was logged, or after its logging
\* failed, and no command is logged twice, for any number of clients whose
\* threads interleave at every access of the store.
THEOREM AnswersAreLogged == Spec => []AnsweredIsLogged
<1>1. Init => TypeInv /\ AnsweredIsLogged
  BY InitTypeInv, InitAnswered
<1>2. TypeInv /\ AnsweredIsLogged /\ [Next]_vars => TypeInv' /\ AnsweredIsLogged'
  BY TypeInvStep, AnsweredStep
<1> QED
  BY <1>1, <1>2, PTL DEF Spec

-----------------------------------------------------------------------------
(* Objects belong to one key *)

\* No object is the value of two keys, or of one key and in the hands of a
\* thread that is at work on another.
ObjectInv ==
  /\ \A j, k \in Key : table[j] = table[k] /\ table[k] # Nil => j = k
  /\ \A c \in Client, k \in Key : Holds(c) /\ table[k] = io[c].obj => k = io[c].key
  /\ \A c, d \in Client : Holds(c) /\ Holds(d) /\ io[c].obj = io[d].obj => io[c].key = io[d].key

LEMMA InitObject == Init => ObjectInv
<1> SUFFICES ASSUME Init PROVE ObjectInv
  OBVIOUS
<1> DEFINE keys == SetToSeq(Restored)
           n == Cardinality(Restored)
<1>1. /\ DOMAIN keys = 1..n /\ \A k \in Restored : \E i \in 1..n : keys[i] = k
  BY RestoredSeq
<1>2. table = [k \in Key |-> IF k \in Restored THEN CHOOSE i \in DOMAIN keys : keys[i] = k ELSE Nil]
  BY DEF Init
<1> HIDE DEF keys, n
<1>3. \A k \in Key : table[k] # Nil => keys[table[k]] = k
  BY <1>1, <1>2
<1>4. \A c \in Client : ~Holds(c)
  BY DEF Init, Idle, Holds
<1> QED BY <1>3, <1>4 DEF ObjectInv

LEMMA ObjectStep ==
  ASSUME TypeInv, ObjectInv, [Next]_vars
  PROVE  ObjectInv'
<1>0. /\ DataType /\ WorkInv /\ Len(heap) \in Nat
      /\ table \in [Key -> {Nil} \cup (1..Len(heap))]
  BY TypeSplit, DataFacts DEF TypeInv, DataType
<1>a. \A c \in Client : Holds(c) => io[c].obj \in 1..Len(heap) /\ io[c].key \in Key
  BY <1>0, DataFacts DEF ThreadOf, WorkInv, Holds, AtWork, Working
<1>b. \A k \in Key : table[k] \in Nat => table[k] <= Len(heap)
  BY <1>0, ServerAssumption
<1>1. CASE UNCHANGED <<io, data, history>>
  BY <1>1 DEF ObjectInv, Holds, data
<1>2. ASSUME NEW c \in Client, OthersKept(c), table' = table,
             Holds(c)' => Holds(c) /\ io'[c].obj = io[c].obj /\ io'[c].key = io[c].key
      PROVE  ObjectInv'
  BY <1>2 DEF ObjectInv, OthersKept, Holds
<1>3. ASSUME NEW c \in Client, Settles(c) PROVE ObjectInv'
  BY <1>2, <1>3 DEF Settles, data, Holds
<1>4. ASSUME NEW c \in Client, NEW op, NEW k, Receive(c, op, k) PROVE ObjectInv'
  <2>1. OthersKept(c) /\ table' = table /\ io'[c].pc \in {"refuse", "get"}
    BY <1>0, <1>4, ReceiveEffect DEF data
  <2> QED BY <1>2, <2>1 DEF Holds
<1>5. ASSUME NEW c \in Client, Get(c) PROVE ObjectInv'
  <2> DEFINE k == io[c].key
  <2>1. OthersKept(c) /\ table' = table /\ k \in Key /\ io'[c].key = k /\ io[c].op \in {"INCR", "DEL"}
    BY <1>0, <1>5, GetEffect DEF Continues, data, WorkInv
  <2>2. Holds(c)' => table[k] # Nil /\ io'[c].obj = table[k]
    BY <1>0, <1>5, <2>1, GetEffect DEF Holds
  <2> QED BY <2>1, <2>2 DEF ObjectInv, OthersKept, Holds
<1>6. ASSUME NEW c \in Client, ReadValue(c) \/ WriteValue(c) \/ Count(c) \/ Uncount(c) PROVE ObjectInv'
  <2>1. OthersKept(c) /\ table' = table /\ io'[c].key = io[c].key
    BY <1>0, <1>6, ReadEffect, WriteEffect, CountEffect, UncountEffect DEF Continues, data
  <2>2. Holds(c)' => Holds(c) /\ io'[c].obj = io[c].obj
    BY <1>0, <1>6, ReadEffect, WriteEffect, CountEffect, UncountEffect DEF Continues, Holds
  <2> QED BY <1>2, <2>1, <2>2
<1>7. ASSUME NEW c \in Client, Put(c) PROVE ObjectInv'
  <2>1. OthersKept(c) /\ table' = table /\ io'[c].obj = Len(heap) + 1
    BY <1>0, <1>7, PutEffect DEF Continues
  <2>2. \A k \in Key : table[k] # Len(heap) + 1
    BY <1>0, <1>b
  <2>3. \A d \in Client : Holds(d) => io[d].obj # Len(heap) + 1
    BY <1>0, <1>a
  <2> QED BY <2>1, <2>2, <2>3 DEF ObjectInv, OthersKept, Holds
<1>8. ASSUME NEW c \in Client, Store(c) PROVE ObjectInv'
  <2>1. /\ OthersKept(c) /\ Holds(c) /\ io'[c].pc = "log"
        /\ table' = [table EXCEPT ![io[c].key] = io[c].obj]
    BY <1>0, <1>8, StoreEffect DEF Continues, Holds
  <2>2. ~Holds(c)'
    BY <2>1 DEF Holds
  <2>3. \A k \in Key : table'[k] = IF k = io[c].key THEN io[c].obj ELSE table[k]
    BY <1>0, <2>1
  <2> QED BY <2>1, <2>2, <2>3 DEF ObjectInv, OthersKept, Holds
<1>9. ASSUME NEW c \in Client, Delete(c) PROVE ObjectInv'
  <2>1. /\ OthersKept(c) /\ io'[c].pc = "uncount"
        /\ table' = [table EXCEPT ![io[c].key] = Nil]
    BY <1>0, <1>9, DeleteEffect DEF Continues
  <2>2. ~Holds(c)'
    BY <2>1 DEF Holds
  <2>3. \A k \in Key : table'[k] = table[k] \/ table'[k] = Nil
    BY <1>0, <2>1
  <2>4. \A d \in Client : Holds(d) => io[d].obj # Nil
    BY <1>a, ServerAssumption
  <2> QED BY <2>1, <2>2, <2>3, <2>4 DEF ObjectInv, OthersKept, Holds
<1>10. ASSUME NEW c \in Client, LogCommand(c) PROVE ObjectInv'
  <2>1. OthersKept(c) /\ table' = table /\ io'[c].pc = "answer"
    BY <1>0, <1>10, LogEffect DEF data
  <2> QED BY <1>2, <2>1 DEF Holds
<1>11. ASSUME NEW c \in Client, Accept(c) \/ Leave(c) \/ Refuse(c) \/ Answer(c) PROVE ObjectInv'
  BY <1>0, <1>3, <1>11, SettleSteps
<1>12. ASSUME NEW c \in Client, IOStep(c) PROVE ObjectInv'
  BY <1>12, <1>5, <1>6, <1>7, <1>8, <1>9, <1>10, <1>11 DEF IOStep
<1> QED
  BY StepCases, <1>1, <1>4, <1>11, <1>12

-----------------------------------------------------------------------------
(* Commands that do not overlap *)

\* No two commands met on k.
Alone(k) == k \notin raced

\* What a thread that is alone on its key knows of the store.
Fact(c) ==
  LET k == io[c].key
  IN  /\ io[c].pc \in {"read", "write"} => io[c].op = "INCR" /\ table[k] = io[c].obj
      /\ io[c].pc \in {"put", "count", "store"} => io[c].op = "INCR" /\ table[k] = Nil
      /\ io[c].pc = "del" => io[c].op = "DEL" /\ table[k] # Nil
      /\ io[c].pc = "uncount" => io[c].op = "DEL" /\ table[k] = Nil
      /\ io[c].pc \in {"count", "store"} => heap[io[c].obj] = 1
      /\ io[c].pc = "write" => io[c].old = heap[io[c].obj]

AloneInv ==
  /\ \A c, d \in Client : AtWork(c) /\ AtWork(d) /\ io[c].key = io[d].key /\ Alone(io[c].key) => c = d
  /\ \A c \in Client : AtWork(c) /\ Alone(io[c].key) => Fact(c)

LEMMA InitAlone == Init => AloneInv
BY DEF Init, AloneInv, AtWork, Working, Idle

\* A step of c leaves what d knows alone when it keeps the value of d's key
\* and of the object d holds.
LEMMA FactKept ==
  ASSUME WorkInv, NEW c \in Client, OthersKept(c), NEW d \in Client \ {c}, AtWork(d), Fact(d),
         table'[io[d].key] = table[io[d].key], Holds(d) => heap'[io[d].obj] = heap[io[d].obj]
  PROVE  Fact(d)'
BY DEF Fact, OthersKept, Holds

\* A step of one thread keeps AloneInv when its command keeps to itself.
LEMMA AloneContinues ==
  ASSUME WorkInv, AloneInv, NEW c \in Client, OthersKept(c),
         raced \subseteq raced',
         AtWork(c)' => AtWork(c),
         AtWork(c)' => io'[c].key = io[c].key,
         AtWork(c)' /\ Alone(io[c].key) /\ Fact(c) => Fact(c)',
         \A d \in Client \ {c} : AtWork(d) /\ Alone(io[d].key) =>
            /\ table'[io[d].key] = table[io[d].key]
            /\ Holds(d) => heap'[io[d].obj] = heap[io[d].obj]
  PROVE  AloneInv'
<1>1. \A k : (Alone(k))' => Alone(k)
  BY DEF Alone
<1>2. \A d \in Client : AtWork(d)' => AtWork(d)
  BY DEF OthersKept, AtWork
<1>3. \A d \in Client : AtWork(d)' => io'[d].key = io[d].key
  BY DEF OthersKept
<1>4. ASSUME NEW d \in Client, AtWork(d)', Alone(io[d].key)', io'[d].key = io[d].key PROVE Fact(d)'
  <2>1. AtWork(d) /\ Alone(io[d].key)
    BY <1>2, <1>4 DEF Alone
  <2>2. Fact(d)
    BY <2>1 DEF AloneInv
  <2>3. CASE d = c
    BY <1>4, <2>1, <2>2, <2>3
  <2>4. CASE d # c
    BY <2>1, <2>2, <2>4, FactKept
  <2> QED BY <2>3, <2>4
<1>5. \A d \in Client : AtWork(d)' /\ Alone(io[d].key)' => Fact(d)'
  BY <1>3, <1>4
<1>7. ASSUME NEW d \in Client, NEW e \in Client, AtWork(d)', AtWork(e)', io'[d].key = io'[e].key,
             Alone(io[d].key)'
      PROVE  d = e
  <2>1. AtWork(d) /\ AtWork(e) /\ io[d].key = io[e].key
    BY <1>2, <1>3, <1>7
  <2>2. Alone(io[d].key)
    BY <1>3, <1>7 DEF Alone
  <2> QED BY <2>1, <2>2 DEF AloneInv
<1> QED
  BY <1>5, <1>7 DEF AloneInv

LEMMA AloneStep ==
  ASSUME TypeInv, ObjectInv, AloneInv, [Next]_vars
  PROVE  AloneInv'
<1>0. /\ DataType /\ WorkInv /\ Len(heap) \in Nat
      /\ table \in [Key -> {Nil} \cup (1..Len(heap))]
      /\ heap \in Seq(1..(issued + 1))
  BY TypeSplit, DataFacts DEF TypeInv, DataType
<1>a. \A c \in Client : Holds(c) => io[c].obj \in 1..Len(heap)
  BY <1>0, DataFacts DEF ThreadOf, WorkInv
<1>b. \A c \in Client : Holds(c) => AtWork(c)
  BY DEF Holds, AtWork, Working
<1>1. CASE UNCHANGED <<io, data, history>>
  BY <1>1 DEF AloneInv, Alone, Fact, AtWork, data, history
<1>2. ASSUME NEW c \in Client, Settles(c) PROVE AloneInv'
  <2>1. OthersKept(c) /\ UNCHANGED <<data, raced>>
    BY <1>2 DEF Settles
  <2>2. ~AtWork(c)'
    BY <1>2 DEF Settles, AtWork, Working
  <2> QED BY <1>0, <2>1, <2>2, AloneContinues DEF data
<1>3. ASSUME NEW c \in Client, Accept(c) \/ Leave(c) \/ Refuse(c) \/ Answer(c) PROVE AloneInv'
  BY <1>0, <1>2, <1>3, SettleSteps
<1>4. ASSUME NEW c \in Client, LogCommand(c) PROVE AloneInv'
  <2>1. OthersKept(c) /\ UNCHANGED <<data>> /\ raced \subseteq raced'
    BY <1>0, <1>4, LogEffect
  <2>2. ~AtWork(c)'
    BY <1>0, <1>4, LogEffect
  <2> QED BY <1>0, <2>1, <2>2, AloneContinues DEF data
<1>5. ASSUME NEW c \in Client, NEW op, NEW k, Receive(c, op, k) PROVE AloneInv'
  <2>1. /\ OthersKept(c) /\ UNCHANGED <<table, heap>>
        /\ io'[c].pc = (IF op = "BAD" THEN "refuse" ELSE "get") /\ io'[c].key = k
        /\ raced' = IF op # "BAD" /\ \E d \in Client \ {c} : AtWork(d) /\ io[d].key = k
                    THEN raced \cup {k} ELSE raced
    BY <1>0, <1>5, ReceiveEffect DEF data
  <2>2. raced \subseteq raced'
    BY <2>1
  <2>3. CASE op = "BAD"
    <3>1. ~AtWork(c)'
      BY <2>1, <2>3 DEF AtWork, Working
    <3> QED BY <1>0, <2>1, <2>2, <3>1, AloneContinues
  <2>4. CASE op # "BAD"
    <3>1. Fact(c)'
      BY <2>1, <2>4 DEF Fact
    <3>2. \A d \in Client \ {c} : (AtWork(d)' <=> AtWork(d))
      BY <2>1 DEF OthersKept, AtWork
    <3>3. \A d \in Client \ {c} : io'[d] = io[d]
      BY <2>1 DEF OthersKept
    <3>4. \A j : Alone(j)' => Alone(j)
      BY <2>2 DEF Alone
    <3>6. \A d \in Client \ {c} : AtWork(d) /\ io[d].key = k => ~Alone(k)'
      BY <2>1, <2>4 DEF Alone
    <3>7. \A d \in Client : AtWork(d)' /\ Alone(io[d].key)' => Fact(d)'
      <4> SUFFICES ASSUME NEW d \in Client, AtWork(d)', Alone(io[d].key)', d # c PROVE Fact(d)'
        BY <3>1
      <4>1. AtWork(d) /\ Alone(io[d].key)
        BY <3>2, <3>3, <2>2 DEF Alone
      <4>2. Fact(d)
        BY <4>1 DEF AloneInv
      <4> QED BY <1>0, <2>1, <4>1, <4>2, FactKept
    <3>9. ASSUME NEW d \in Client, NEW e \in Client, AtWork(d)', AtWork(e)', io'[d].key = io'[e].key,
                 Alone(io[d].key)'
          PROVE  d = e
      <4>1. CASE d # c /\ e # c
        <5>1. AtWork(d) /\ AtWork(e) /\ io[d].key = io[e].key
          BY <3>2, <3>3, <3>9, <4>1
        <5>2. Alone(io[d].key)
          BY <3>3, <3>9, <4>1, <2>2 DEF Alone
        <5> QED BY <5>1, <5>2 DEF AloneInv
      <4>2. CASE d = c /\ e # c
        <5>1. AtWork(e) /\ io[e].key = k
          BY <2>1, <3>2, <3>3, <3>9, <4>2
        <5>2. Alone(k)'
          BY <2>1, <3>9, <4>2 DEF Alone
        <5> QED BY <3>6, <4>2, <5>1, <5>2
      <4>3. CASE d # c /\ e = c
        <5>1. AtWork(d) /\ io[d].key = k
          BY <2>1, <3>2, <3>3, <3>9, <4>3
        <5>2. Alone(k)'
          BY <2>1, <3>9, <4>3 DEF Alone
        <5> QED BY <3>6, <4>3, <5>1, <5>2
      <4> QED BY <4>1, <4>2, <4>3
    <3> QED BY <3>7, <3>9 DEF AloneInv
  <2> QED BY <2>3, <2>4
<1>6. ASSUME NEW c \in Client, Get(c) PROVE AloneInv'
  <2>1. /\ OthersKept(c) /\ UNCHANGED <<data, raced>> /\ io'[c].key = io[c].key
        /\ io'[c].op = io[c].op /\ io[c].op \in {"INCR", "DEL"}
    BY <1>0, <1>6, GetEffect DEF Continues, history, WorkInv
  <2>2. AtWork(c)
    BY <1>0, <1>6, GetEffect DEF Continues
  <2>3. Fact(c)'
    BY <1>0, <1>6, <2>1, GetEffect DEF Fact, data
  <2> QED BY <1>0, <2>1, <2>2, <2>3, AloneContinues DEF data
<1>7. ASSUME NEW c \in Client, ReadValue(c) PROVE AloneInv'
  <2>1. /\ OthersKept(c) /\ UNCHANGED <<data, raced>> /\ io'[c].key = io[c].key
        /\ io'[c].op = io[c].op /\ io[c].pc = "read" /\ io'[c].pc = "write"
        /\ io'[c].obj = io[c].obj /\ io'[c].old = heap[io[c].obj]
    BY <1>0, <1>7, ReadEffect DEF Continues, history
  <2>2. AtWork(c)
    BY <1>0, <1>7, ReadEffect DEF Continues
  <2>3. Fact(c) => Fact(c)'
    BY <2>1 DEF Fact, data
  <2> QED BY <1>0, <2>1, <2>2, <2>3, AloneContinues DEF data
<1>8. ASSUME NEW c \in Client, WriteValue(c) PROVE AloneInv'
  <2>1. /\ OthersKept(c) /\ UNCHANGED <<table, raced>> /\ io'[c].key = io[c].key
        /\ io[c].pc = "write" /\ io'[c].pc = "log"
        /\ heap' = [heap EXCEPT ![io[c].obj] = io[c].old + 1]
    BY <1>0, <1>8, WriteEffect DEF Continues, history
  <2>2. AtWork(c) /\ Holds(c)
    BY <2>1 DEF AtWork, Working, Holds
  <2>3. Fact(c)'
    BY <2>1 DEF Fact
  <2>4. ASSUME NEW d \in Client \ {c}, AtWork(d), Alone(io[d].key), Holds(d)
        PROVE  heap'[io[d].obj] = heap[io[d].obj]
    <3>1. io[d].obj # io[c].obj
      BY <2>2, <2>4 DEF ObjectInv, AloneInv
    <3> QED BY <1>0, <1>a, <2>1, <2>2, <2>4, <3>1
  <2> QED BY <1>0, <2>1, <2>2, <2>3, <2>4, AloneContinues
<1>9. ASSUME NEW c \in Client, Put(c) PROVE AloneInv'
  <2>1. /\ OthersKept(c) /\ UNCHANGED <<table, raced>> /\ io'[c].key = io[c].key
        /\ io[c].pc = "put" /\ io'[c].pc = (IF table[io[c].key] = Nil THEN "count" ELSE "store")
        /\ heap' = Append(heap, 1) /\ io'[c].obj = Len(heap) + 1 /\ io'[c].op = io[c].op
    BY <1>0, <1>9, PutEffect DEF Continues, history
  <2>2. AtWork(c)
    BY <2>1 DEF AtWork, Working
  <2>3. heap'[Len(heap) + 1] = 1 /\ \A i \in 1..Len(heap) : heap'[i] = heap[i]
    BY <1>0, <2>1
  <2>4. Fact(c) => Fact(c)'
    BY <2>1, <2>3 DEF Fact
  <2> QED BY <1>0, <1>a, <2>1, <2>2, <2>3, <2>4, AloneContinues
<1>10. ASSUME NEW c \in Client, Count(c) PROVE AloneInv'
  <2>1. /\ OthersKept(c) /\ UNCHANGED <<table, heap, raced>> /\ io'[c].key = io[c].key
        /\ io[c].pc = "count" /\ io'[c].pc = "store" /\ io'[c].op = io[c].op
        /\ io'[c].obj = io[c].obj
    BY <1>0, <1>10, CountEffect DEF Continues, history
  <2>2. AtWork(c)
    BY <2>1 DEF AtWork, Working
  <2>3. Fact(c) => Fact(c)'
    BY <2>1 DEF Fact
  <2> QED BY <1>0, <2>1, <2>2, <2>3, AloneContinues
<1>11. ASSUME NEW c \in Client, AtWork(c), OthersKept(c), UNCHANGED <<heap, raced>>,
              io'[c].key = io[c].key, NEW v, table' = [table EXCEPT ![io[c].key] = v], Fact(c) => Fact(c)'
       PROVE  AloneInv'
  <2>1. io[c].key \in Key
    BY <1>0, <1>11 DEF WorkInv
  <2>2. ASSUME NEW d \in Client \ {c}, AtWork(d), Alone(io[d].key)
        PROVE  table'[io[d].key] = table[io[d].key]
    <3>1. io[d].key # io[c].key /\ io[d].key \in Key
      BY <1>0, <1>11, <2>2 DEF AloneInv, WorkInv
    <3> QED BY <1>0, <1>11, <2>1, <3>1
  <2> QED BY <1>0, <1>11, <2>2, AloneContinues
<1>12. ASSUME NEW c \in Client, Store(c) PROVE AloneInv'
  <2>1. /\ OthersKept(c) /\ UNCHANGED <<heap, raced>> /\ io'[c].key = io[c].key
        /\ io[c].pc = "store" /\ io'[c].pc = "log"
        /\ table' = [table EXCEPT ![io[c].key] = io[c].obj]
    BY <1>0, <1>12, StoreEffect DEF Continues, history
  <2>2. AtWork(c)
    BY <2>1 DEF AtWork, Working
  <2>3. Fact(c)'
    BY <2>1 DEF Fact
  <2> QED BY <1>11, <2>1, <2>2, <2>3
<1>13. ASSUME NEW c \in Client, Delete(c) PROVE AloneInv'
  <2>1. /\ OthersKept(c) /\ UNCHANGED <<heap, raced>> /\ io'[c].key = io[c].key
        /\ io[c].pc = "del" /\ io'[c].pc = "uncount" /\ io'[c].op = io[c].op
        /\ table' = [table EXCEPT ![io[c].key] = Nil]
    BY <1>0, <1>13, DeleteEffect DEF Continues, history
  <2>2. AtWork(c)
    BY <2>1 DEF AtWork, Working
  <2>3. table'[io[c].key] = Nil
    BY <1>0, <2>1, <2>2 DEF WorkInv
  <2>4. Fact(c) => Fact(c)'
    BY <2>1, <2>3 DEF Fact
  <2> QED BY <1>11, <2>1, <2>2, <2>4
<1>14. ASSUME NEW c \in Client, Uncount(c) PROVE AloneInv'
  <2>1. /\ OthersKept(c) /\ UNCHANGED <<table, heap, raced>> /\ io'[c].key = io[c].key
        /\ io[c].pc = "uncount" /\ io'[c].pc = "log"
    BY <1>0, <1>14, UncountEffect DEF Continues, history
  <2>2. AtWork(c)
    BY <2>1 DEF AtWork, Working
  <2>3. Fact(c)'
    BY <2>1 DEF Fact
  <2> QED BY <1>0, <2>1, <2>2, <2>3, AloneContinues
<1>15. ASSUME NEW c \in Client, IOStep(c) PROVE AloneInv'
  BY <1>15, <1>3, <1>4, <1>6, <1>7, <1>8, <1>9, <1>10, <1>12, <1>13, <1>14 DEF IOStep
<1> QED
  BY StepCases, <1>1, <1>3, <1>5, <1>15

-----------------------------------------------------------------------------
(* The store and a replay of the log *)

\* What a thread at work knows of the value of its key: it is the replayed
\* one until the command has taken effect, and one command ahead from then
\* until it is logged.
Ahead(c) ==
  LET k == io[c].key
  IN  /\ io[c].pc \notin {"uncount", "log"} => Stored(k) = Replayed(k)
      /\ io[c].pc = "log" => Stored(k) = Effect(io[c], k, Replayed(k))

ReplayInv ==
  /\ ReplayMatches
  /\ \A c \in Client : AtWork(c) /\ io[c].key \notin raced => Ahead(c)

LEMMA InitReplay == Init => ReplayInv
<1> SUFFICES ASSUME Init PROVE ReplayInv
  OBVIOUS
<1> DEFINE keys == SetToSeq(Restored)
           n == Cardinality(Restored)
<1>1. /\ n \in Nat /\ keys \in [1..n -> Restored] /\ DOMAIN keys = 1..n
      /\ \A i, j \in 1..n : keys[i] = keys[j] => i = j
      /\ \A k \in Restored : \E i \in 1..n : keys[i] = k
  BY RestoredSeq
<1>2. /\ log = [i \in DOMAIN keys |-> [id |-> 1 - i, op |-> "INCR", key |-> keys[i]]]
      /\ heap = [i \in DOMAIN keys |-> 1]
      /\ table = [k \in Key |-> IF k \in Restored THEN CHOOSE i \in DOMAIN keys : keys[i] = k ELSE Nil]
  BY DEF Init
<1>3. log \in Seq(Entry)
  BY InitTypeInv DEF TypeInv, TypeOK
<1>4. \A c \in Client : ~AtWork(c)
  BY DEF Init, AtWork, Working, Idle
<1> HIDE DEF keys, n
<1>5. Len(log) = n /\ \A i \in 1..n : log[i].key = keys[i] /\ log[i].op = "INCR"
  BY <1>1, <1>2
<1>6. ASSUME NEW k \in Key PROVE Stored(k) = Replayed(k)
  <2> DEFINE g == [i \in 0..n |-> IF \E j \in 1..i : keys[j] = k THEN 1 ELSE 0]
  <2>1. PICK f \in [0..n -> Nat] :
             /\ f[0] = 0 /\ \A i \in 1..n : f[i] = Effect(log[i], k, f[i - 1])
             /\ ReplayOf(log, k) = f[n]
    BY <1>3, <1>5, ReplayLaw
  <2>2. g[0] = 0
    BY <1>1
  <2>3. ASSUME NEW i \in 1..n PROVE g[i] = IF keys[i] # k THEN g[i - 1] ELSE g[i - 1] + 1
    <3>1. i \in 0..n /\ i - 1 \in 0..n /\ i \in Nat
      BY <1>1
    <3>2. 1..i = (1..i - 1) \cup {i}
      BY <3>1
    <3>3. CASE keys[i] # k
      BY <3>1, <3>2, <3>3
    <3>4. CASE keys[i] = k
      <4>1. g[i] = 1
        BY <3>1, <3>2, <3>4
      <4>2. \A j \in 1..i - 1 : j \in 1..n /\ j # i
        BY <1>1
      <4>3. g[i - 1] = 0
        BY <1>1, <3>1, <3>4, <4>2
      <4> QED BY <3>4, <4>1, <4>3
    <3> QED BY <3>3, <3>4
  <2> HIDE DEF g
  <2>4. Alike(f, g, n)
    BY <1>5, <2>1, <2>2, <2>3 DEF Alike, Effect
  <2>5. f[n] = g[n]
    <3>1. \A i \in 0..n : f[i] = g[i]
      BY <1>1, <2>4, RecursionUnique
    <3> QED BY <1>1, <3>1
  <2>6. g[n] = IF k \in Restored THEN 1 ELSE 0
    BY <1>1 DEF g
  <2>7. Stored(k) = IF k \in Restored THEN 1 ELSE 0
    <3>1. CASE k \in Restored
      <4>1. table[k] \in 1..n
        BY <1>1, <1>2, <3>1
      <4>2. table[k] # Nil /\ heap[table[k]] = 1
        <5>1. \A i \in 1..n : heap[i] = 1 /\ i \in Nat
          BY <1>1, <1>2
        <5> QED BY <4>1, <5>1, ServerAssumption
      <4> QED BY <3>1, <4>2 DEF Stored
    <3>2. CASE k \notin Restored
      BY <1>2, <3>2 DEF Stored
    <3> QED BY <3>1, <3>2
  <2> QED BY <2>1, <2>5, <2>6, <2>7 DEF Replayed
<1> QED BY <1>4, <1>6 DEF ReplayInv, ReplayMatches

\* A step of one thread keeps ReplayInv when no other key changes its value.
LEMMA ReplayContinues ==
  ASSUME TypeInv, AloneInv, ReplayInv, NEW c \in Client, OthersKept(c), UNCHANGED <<log, raced>>,
         AtWork(c), AtWork(c)', io'[c].key = io[c].key,
         \A k \in Key \ {io[c].key} : Stored(k)' = Stored(k),
         io[c].key \notin raced /\ Ahead(c) => Ahead(c)'
  PROVE  ReplayInv'
<1>0. WorkInv
  BY DEF TypeInv
<1>1. \A k : Replayed(k)' = Replayed(k)
  BY DEF Replayed
<1>2. \A d \in Client : AtWork(d)' <=> AtWork(d)
  BY DEF OthersKept, AtWork
<1>3. \A d \in Client : io'[d].key = io[d].key
  BY DEF OthersKept
<1>4. ReplayMatches'
  <2> SUFFICES ASSUME NEW k \in Key, k \notin raced', \A d \in Client : AtWork(d)' => io'[d].key # k
               PROVE  Stored(k)' = Replayed(k)'
    BY DEF ReplayMatches
  <2>1. \A d \in Client : AtWork(d) => io[d].key # k
    BY <1>2, <1>3
  <2>2. k # io[c].key
    BY <2>1
  <2> QED BY <1>1, <2>1, <2>2 DEF ReplayInv, ReplayMatches
<1>5. ASSUME NEW d \in Client, AtWork(d)', io'[d].key \notin raced'
      PROVE  Ahead(d)'
  <2>1. AtWork(d) /\ io[d].key \notin raced
    BY <1>2, <1>3, <1>5
  <2>2. Ahead(d)
    BY <2>1 DEF ReplayInv
  <2>3. CASE d = c
    BY <2>1, <2>2, <2>3
  <2>4. CASE d # c
    <3>1. io[d].key # io[c].key /\ io[d].key \in Key
      BY <1>0, <2>1, <2>4 DEF AloneInv, Alone, WorkInv
    <3>2. io'[d] = io[d]
      BY <2>4 DEF OthersKept
    <3>3. PICK k \in Key \ {io[c].key} : k = io[d].key
      BY <3>1
    <3>4. Stored(k)' = Stored(k) /\ Replayed(k)' = Replayed(k) /\ io'[d].key = k
      BY <1>1, <3>2, <3>3
    <3> QED BY <2>2, <3>2, <3>3, <3>4 DEF Ahead, Stored, Replayed
  <2> QED BY <2>3, <2>4
<1> QED
  BY <1>4, <1>5 DEF ReplayInv

\* A thread that was not at work, or whose command has just been logged.
LEMMA ReplaySettles ==
  ASSUME TypeInv, ReplayInv, NEW c \in Client, OthersKept(c), ~AtWork(c)',
         raced \subseteq raced', UNCHANGED data,
         \A k \in Key \ raced' : (AtWork(c) /\ io[c].key = k) \/ Replayed(k)' = Replayed(k),
         \A k \in Key \ raced' : AtWork(c) /\ io[c].key = k =>
            /\ Stored(k) = Replayed(k)'
            /\ \A d \in Client \ {c} : AtWork(d) => io[d].key # k
  PROVE  ReplayInv'
<1>0. WorkInv
  BY DEF TypeInv
<1>1. \A k : Stored(k)' = Stored(k)
  BY DEF Stored, data
<1>2. \A d \in Client \ {c} : AtWork(d)' <=> AtWork(d)
  BY DEF OthersKept, AtWork
<1>3. \A d \in Client \ {c} : io'[d] = io[d]
  BY DEF OthersKept
<1>4. ReplayMatches'
  <2> SUFFICES ASSUME NEW k \in Key, k \notin raced', \A d \in Client : AtWork(d)' => io'[d].key # k
               PROVE  Stored(k)' = Replayed(k)'
    BY DEF ReplayMatches
  <2>1. \A d \in Client \ {c} : AtWork(d) => io[d].key # k
    BY <1>2, <1>3
  <2>2. CASE AtWork(c) /\ io[c].key = k
    BY <1>1, <2>2
  <2>3. CASE ~(AtWork(c) /\ io[c].key = k)
    <3>1. Stored(k) = Replayed(k)
      BY <2>1, <2>3 DEF ReplayInv, ReplayMatches
    <3>2. Replayed(k)' = Replayed(k)
      BY <2>3
    <3> QED BY <1>1, <3>1, <3>2
  <2> QED BY <2>2, <2>3
<1>5. ASSUME NEW d \in Client, AtWork(d)', io'[d].key \notin raced'
      PROVE  Ahead(d)'
  <2>1. d # c
    BY <1>5
  <2>2. AtWork(d)
    BY <1>2, <1>5, <2>1
  <2>3. io'[d] = io[d] /\ io[d].key \in Key /\ io[d].key \notin raced'
    BY <1>0, <1>3, <1>5, <2>1, <2>2 DEF WorkInv
  <2>4. Ahead(d)
    BY <2>2, <2>3 DEF ReplayInv
  <2>5. PICK k \in Key \ raced' : k = io[d].key
    BY <2>3
  <2>6. Replayed(k)' = Replayed(k)
    BY <2>1, <2>2, <2>5
  <2> QED BY <1>1, <2>3, <2>4, <2>5, <2>6 DEF Ahead, Stored, Replayed
<1> QED
  BY <1>4, <1>5 DEF ReplayInv

LEMMA ReplayStep ==
  ASSUME TypeInv, ObjectInv, AloneInv, ReplayInv, [Next]_vars
  PROVE  ReplayInv'
<1>0. /\ DataType /\ WorkInv /\ Len(heap) \in Nat
      /\ table \in [Key -> {Nil} \cup (1..Len(heap))]
      /\ heap \in Seq(1..(issued + 1)) /\ log \in Seq(Entry)
  BY TypeSplit, DataFacts DEF TypeInv, DataType
<1>a. \A c \in Client : Holds(c) => io[c].obj \in 1..Len(heap)
  BY <1>0, DataFacts DEF ThreadOf, WorkInv
<1>b. \A k \in Key : Replayed(k) \in Nat
  BY <1>0, ReplayType DEF Replayed
<1>c. \A k \in Key : table[k] # Nil => table[k] \in 1..Len(heap) /\ heap[table[k]] \in Nat
  <2>1. \A i \in 1..Len(heap) : heap[i] \in Nat
    BY <1>0, DataFacts
  <2> QED BY <1>0, <2>1
<1>1. CASE UNCHANGED <<io, data, history>>
  BY <1>1 DEF ReplayInv, ReplayMatches, Ahead, Stored, Replayed, AtWork, data, history
<1>2. ASSUME NEW c \in Client, Settles(c) PROVE ReplayInv'
  <2>1. OthersKept(c) /\ UNCHANGED <<data, log, raced>>
    BY <1>2 DEF Settles
  <2>2. ~AtWork(c) /\ ~AtWork(c)'
    BY <1>2 DEF Settles, AtWork, Working
  <2>3. \A k : Replayed(k)' = Replayed(k)
    BY <2>1 DEF Replayed
  <2> QED BY <2>1, <2>2, <2>3, ReplaySettles
<1>3. ASSUME NEW c \in Client, Accept(c) \/ Leave(c) \/ Refuse(c) \/ Answer(c) PROVE ReplayInv'
  BY <1>0, <1>2, <1>3, SettleSteps
<1>4. ASSUME NEW c \in Client, LogCommand(c) PROVE ReplayInv'
  <2> DEFINE e == [id |-> io[c].id, op |-> io[c].op, key |-> io[c].key]
  <2>1. /\ OthersKept(c) /\ io[c].pc = "log" /\ UNCHANGED data /\ raced \subseteq raced'
        /\ \/ log' = Append(log, e) /\ raced' = raced
           \/ log' = log /\ raced' = raced \cup {io[c].key}
    BY <1>0, <1>4, LogEffect
  <2>2. AtWork(c) /\ ~AtWork(c)'
    BY <1>0, <1>4, LogEffect
  <2>3. e \in Entry /\ e.key = io[c].key /\ e.op = io[c].op /\ io[c].key \in Key
    BY <1>0, <2>2, IdBounds DEF WorkInv, Entry
  <2> HIDE DEF e
  <2>4. CASE log' = Append(log, e) /\ raced' = raced
    <3>1. \A k \in Key : Replayed(k)' = Effect(e, k, Replayed(k))
      BY <1>0, <2>3, <2>4, ReplayAppend DEF Replayed
    <3>2. \A k \in Key \ raced' : (AtWork(c) /\ io[c].key = k) \/ Replayed(k)' = Replayed(k)
      BY <2>2, <2>3, <3>1 DEF Effect
    <3>3. ASSUME NEW k \in Key, k \notin raced', io[c].key = k
          PROVE  /\ Stored(k) = Replayed(k)'
                 /\ \A d \in Client \ {c} : AtWork(d) => io[d].key # k
      <4>1. Stored(k) = Effect(io[c], k, Replayed(k))
        BY <2>1, <2>2, <2>4, <3>3 DEF ReplayInv, Ahead
      <4>2. Effect(io[c], k, Replayed(k)) = Effect(e, k, Replayed(k))
        BY <2>3 DEF Effect
      <4>3. \A d \in Client \ {c} : AtWork(d) => io[d].key # k
        BY <2>2, <2>4, <3>3 DEF AloneInv, Alone
      <4> QED BY <3>1, <4>1, <4>2, <4>3
    <3> QED BY <2>1, <2>2, <3>2, <3>3, ReplaySettles
  <2>5. CASE log' = log /\ raced' = raced \cup {io[c].key}
    <3>1. \A k : Replayed(k)' = Replayed(k)
      BY <2>5 DEF Replayed
    <3> QED BY <2>1, <2>2, <2>5, <3>1, ReplaySettles
  <2> QED BY <2>1, <2>4, <2>5
<1>5. ASSUME NEW c \in Client, NEW op, NEW k, op # "BAD" => k \in Key, Receive(c, op, k)
      PROVE  ReplayInv'
  <2>1. /\ OthersKept(c) /\ UNCHANGED <<data, log>>
        /\ io'[c].pc = (IF op = "BAD" THEN "refuse" ELSE "get") /\ io'[c].key = k
        /\ raced' = IF op # "BAD" /\ \E d \in Client \ {c} : AtWork(d) /\ io[d].key = k
                    THEN raced \cup {k} ELSE raced
    BY <1>0, <1>5, ReceiveEffect
  <2>2. ~AtWork(c)
    BY <1>0, <1>5, ReceiveEffect
  <2>3. raced \subseteq raced'
    BY <2>1
  <2>4. \A j : Replayed(j)' = Replayed(j)
    BY <2>1 DEF Replayed
  <2>5. CASE op = "BAD"
    <3>1. ~AtWork(c)'
      BY <2>1, <2>5 DEF AtWork, Working
    <3> QED BY <2>1, <2>2, <2>3, <2>4, <3>1, ReplaySettles
  <2>6. CASE op # "BAD"
    <3>1. \A j : Stored(j)' = Stored(j)
      BY <2>1 DEF Stored, data
    <3>2. \A d \in Client \ {c} : AtWork(d)' <=> AtWork(d)
      BY <2>1 DEF OthersKept, AtWork
    <3>3. \A d \in Client \ {c} : io'[d] = io[d]
      BY <2>1 DEF OthersKept
    <3>4. AtWork(c)'
      BY <2>1, <2>6 DEF AtWork, Working
    <3>5. ReplayMatches'
      <4> SUFFICES ASSUME NEW j \in Key, j \notin raced', \A d \in Client : AtWork(d)' => io'[d].key # j
                   PROVE  Stored(j)' = Replayed(j)'
        BY DEF ReplayMatches
      <4>1. \A d \in Client : AtWork(d) => io[d].key # j
        BY <2>2, <3>2, <3>3
      <4> QED BY <2>3, <2>4, <3>1, <4>1 DEF ReplayInv, ReplayMatches
    <3>6. ASSUME k \notin raced' PROVE Ahead(c)'
      <4>1. \A d \in Client : AtWork(d) => io[d].key # k
        BY <2>1, <2>2, <2>6, <3>6
      <4>2. Stored(k) = Replayed(k)
        BY <1>5, <2>3, <2>6, <3>6, <4>1 DEF ReplayInv, ReplayMatches
      <4>3. Stored(k)' = Replayed(k)' /\ io'[c].pc = "get"
        BY <2>1, <2>4, <2>6, <3>1, <4>2
      <4> QED BY <2>1, <4>3 DEF Ahead, Stored, Replayed
    <3>7. ASSUME NEW d \in Client \ {c}, AtWork(d)', io'[d].key \notin raced' PROVE Ahead(d)'
      <4>1. AtWork(d) /\ Ahead(d)
        BY <2>3, <3>2, <3>3, <3>7 DEF ReplayInv
      <4>2. io'[d] = io[d]
        BY <3>3
      <4>3. UNCHANGED <<table, heap, log>>
        BY <2>1 DEF data
      <4> QED BY <4>1, <4>2, <4>3 DEF Ahead, Stored, Replayed
    <3> QED BY <2>1, <3>5, <3>6, <3>7 DEF ReplayInv
  <2> QED BY <2>5, <2>6
<1>6. ASSUME NEW c \in Client, NEW pc, Continues(c, pc), UNCHANGED <<table, heap>>,
             Ahead(c) /\ Fact(c) => Ahead(c)'
      PROVE  ReplayInv'
  <2>1. OthersKept(c) /\ UNCHANGED <<log, raced>> /\ io'[c].key = io[c].key
    BY <1>6 DEF Continues, history
  <2>2. AtWork(c) /\ AtWork(c)'
    BY <1>6 DEF Continues, AtWork
  <2>3. \A k : Stored(k)' = Stored(k)
    BY <1>6 DEF Stored
  <2>4. io[c].key \notin raced => Fact(c)
    BY <2>2 DEF AloneInv, Alone
  <2> QED BY <1>6, <2>1, <2>2, <2>3, <2>4, ReplayContinues
<1>7. ASSUME NEW c \in Client, Get(c) PROVE ReplayInv'
  <2>1. PICK pc \in Working : Continues(c, pc)
    BY <1>0, <1>7, GetEffect
  <2>2. /\ io'[c].key = io[c].key /\ io'[c].op = io[c].op /\ io[c].pc = "get" /\ UNCHANGED <<table, heap, log>>
        /\ io[c].key \in Key /\ io[c].op \in {"INCR", "DEL"}
    BY <1>0, <1>7, <2>1, GetEffect DEF Continues, data, history, WorkInv
  <2>3. Ahead(c) => Ahead(c)'
    <3> SUFFICES ASSUME Ahead(c) PROVE Ahead(c)'
      OBVIOUS
    <3>1. Stored(io[c].key) = Replayed(io[c].key)
      BY <2>2 DEF Ahead
    <3>2. io'[c].pc = "log" => io[c].op = "DEL" /\ table[io[c].key] = Nil
      BY <1>0, <1>7, <2>2, GetEffect
    <3>3. io'[c].pc = "log" => Effect(io'[c], io[c].key, Replayed(io[c].key)) = 0 /\ Stored(io[c].key) = 0
      BY <2>2, <3>2 DEF Effect, Stored
    <3> QED BY <2>2, <3>1, <3>3 DEF Ahead, Stored, Replayed
  <2> QED BY <1>6, <2>1, <2>2, <2>3
<1>8. ASSUME NEW c \in Client, ReadValue(c) \/ Count(c) PROVE ReplayInv'
  <2>1. PICK pc \in {"write", "store"} : Continues(c, pc)
    BY <1>0, <1>8, ReadEffect, CountEffect
  <2>2. io'[c].key = io[c].key /\ io[c].pc \in {"read", "count"} /\ UNCHANGED <<table, heap, log>>
        /\ io'[c].pc = pc
    BY <1>0, <1>8, <2>1, ReadEffect, CountEffect DEF Continues, data, history
  <2>3. Ahead(c) => Ahead(c)'
    BY <2>2 DEF Ahead, Stored, Replayed
  <2> QED BY <1>6, <2>1, <2>2, <2>3
<1>9. ASSUME NEW c \in Client, Uncount(c) PROVE ReplayInv'
  <2>1. /\ Continues(c, "log") /\ io[c].pc = "uncount" /\ UNCHANGED <<table, heap>>
    BY <1>0, <1>9, UncountEffect
  <2>2. io'[c].key = io[c].key /\ io'[c].op = io[c].op /\ io'[c].pc = "log" /\ log' = log
    BY <2>1 DEF Continues, history
  <2>3. Ahead(c) /\ Fact(c) => Ahead(c)'
    <3> SUFFICES ASSUME Fact(c) PROVE Ahead(c)'
      OBVIOUS
    <3>1. io[c].op = "DEL" /\ table[io[c].key] = Nil
      BY <2>1 DEF Fact
    <3>2. Effect(io'[c], io[c].key, Replayed(io[c].key)) = 0 /\ Stored(io[c].key) = 0
      BY <2>2, <3>1 DEF Effect, Stored
    <3> QED BY <2>1, <2>2, <3>2 DEF Ahead, Stored, Replayed
  <2> QED BY <1>6, <2>1, <2>3
<1>10. ASSUME NEW c \in Client, WriteValue(c) PROVE ReplayInv'
  <2>1. /\ Continues(c, "log") /\ io[c].pc = "write" /\ table' = table
        /\ heap' = [heap EXCEPT ![io[c].obj] = io[c].old + 1]
    BY <1>0, <1>10, WriteEffect
  <2>2. /\ OthersKept(c) /\ UNCHANGED <<log, raced>> /\ io'[c].key = io[c].key /\ io'[c].op = io[c].op
        /\ io'[c].pc = "log"
    BY <2>1 DEF Continues, history
  <2>3. AtWork(c) /\ AtWork(c)' /\ Holds(c)
    BY <2>1 DEF Continues, AtWork, Holds
  <2>4. ASSUME NEW k \in Key \ {io[c].key} PROVE Stored(k)' = Stored(k)
    <3>1. table[k] # io[c].obj
      BY <2>3 DEF ObjectInv
    <3> QED BY <1>0, <1>c, <2>1, <3>1 DEF Stored
  <2>5. io[c].key \notin raced /\ Ahead(c) => Ahead(c)'
    <3> SUFFICES ASSUME io[c].key \notin raced, Ahead(c) PROVE Ahead(c)'
      OBVIOUS
    <3> DEFINE k == io[c].key
    <3>1. Fact(c) /\ k \in Key
      BY <1>0, <2>3 DEF AloneInv, Alone, WorkInv
    <3>2. io[c].op = "INCR" /\ table[k] = io[c].obj /\ io[c].old = heap[io[c].obj]
      BY <2>1, <3>1 DEF Fact
    <3>3. io[c].obj \in 1..Len(heap) /\ table[k] # Nil
      BY <1>a, <2>3, <3>2, ServerAssumption
    <3>4. Stored(k) = heap[io[c].obj] /\ Stored(k) = Replayed(k)
      BY <2>1, <3>2, <3>3 DEF Stored, Ahead
    <3>5. heap'[table'[k]] = Replayed(k) + 1
      BY <1>0, <2>1, <3>2, <3>3, <3>4
    <3>6. Effect(io'[c], k, Replayed(k)) = Replayed(k) + 1
      BY <2>2, <3>2 DEF Effect
    <3> QED BY <2>1, <2>2, <3>3, <3>5, <3>6 DEF Ahead, Stored, Replayed
  <2> QED BY <2>2, <2>3, <2>4, <2>5, ReplayContinues
<1>11. ASSUME NEW c \in Client, Put(c) PROVE ReplayInv'
  <2>1. /\ \E pc \in {"count", "store"} : Continues(c, pc)
        /\ io[c].pc = "put" /\ table' = table /\ heap' = Append(heap, 1)
    BY <1>0, <1>11, PutEffect
  <2>2. /\ OthersKept(c) /\ UNCHANGED <<log, raced>> /\ io'[c].key = io[c].key
        /\ io'[c].pc \in {"count", "store"}
    BY <2>1 DEF Continues, history
  <2>3. AtWork(c) /\ AtWork(c)'
    BY <2>1 DEF Continues, AtWork
  <2>4. \A i \in 1..Len(heap) : heap'[i] = heap[i]
    BY <1>0, <2>1
  <2>5. \A k \in Key : Stored(k)' = Stored(k)
    BY <1>c, <2>1, <2>4 DEF Stored
  <2>6. Ahead(c) => Ahead(c)'
    <3> SUFFICES ASSUME Ahead(c) PROVE Ahead(c)'
      OBVIOUS
    <3>1. PICK k \in Key : k = io[c].key
      BY <1>0, <2>3 DEF WorkInv
    <3>2. Stored(k)' = Stored(k) /\ io'[c].key = k
      BY <2>2, <2>5, <3>1
    <3> QED BY <2>1, <2>2, <3>1, <3>2 DEF Ahead, Stored, Replayed
  <2> QED BY <2>2, <2>3, <2>5, <2>6, ReplayContinues
<1>12. ASSUME NEW c \in Client, NEW v, table' = [table EXCEPT ![io[c].key] = v], heap' = heap
       PROVE  \A k \in Key \ {io[c].key} : Stored(k)' = Stored(k)
  BY <1>0, <1>12 DEF Stored
<1>13. ASSUME NEW c \in Client, Store(c) PROVE ReplayInv'
  <2>1. /\ Continues(c, "log") /\ io[c].pc = "store" /\ heap' = heap
        /\ table' = [table EXCEPT ![io[c].key] = io[c].obj]
    BY <1>0, <1>13, StoreEffect
  <2>2. /\ OthersKept(c) /\ UNCHANGED <<log, raced>> /\ io'[c].key = io[c].key /\ io'[c].op = io[c].op
        /\ io'[c].pc = "log"
    BY <2>1 DEF Continues, history
  <2>3. AtWork(c) /\ AtWork(c)' /\ Holds(c)
    BY <2>1 DEF Continues, AtWork, Holds
  <2>4. io[c].key \notin raced /\ Ahead(c) => Ahead(c)'
    <3> SUFFICES ASSUME io[c].key \notin raced, Ahead(c) PROVE Ahead(c)'
      OBVIOUS
    <3> DEFINE k == io[c].key
    <3>1. Fact(c) /\ k \in Key
      BY <1>0, <2>3 DEF AloneInv, Alone, WorkInv
    <3>2. io[c].op = "INCR" /\ table[k] = Nil /\ heap[io[c].obj] = 1
      BY <2>1, <3>1 DEF Fact
    <3>3. Replayed(k) = 0
      BY <2>1, <3>2 DEF Stored, Ahead
    <3>4. table'[k] = io[c].obj /\ io[c].obj # Nil
      BY <1>0, <1>a, <2>1, <2>3, <3>1, ServerAssumption
    <3>5. Effect(io'[c], k, Replayed(k)) = 1
      BY <2>2, <3>2, <3>3 DEF Effect
    <3> QED BY <2>1, <2>2, <3>2, <3>4, <3>5 DEF Ahead, Stored, Replayed
  <2> QED BY <1>12, <2>1, <2>2, <2>3, <2>4, ReplayContinues
<1>14. ASSUME NEW c \in Client, Delete(c) PROVE ReplayInv'
  <2>1. /\ Continues(c, "uncount") /\ heap' = heap
        /\ table' = [table EXCEPT ![io[c].key] = Nil]
    BY <1>0, <1>14, DeleteEffect
  <2>2. OthersKept(c) /\ UNCHANGED <<log, raced>> /\ io'[c].key = io[c].key /\ io'[c].pc = "uncount"
    BY <2>1 DEF Continues, history
  <2>3. AtWork(c) /\ AtWork(c)' /\ Ahead(c)'
    BY <2>1, <2>2 DEF Continues, AtWork, Ahead
  <2> QED BY <1>12, <2>1, <2>2, <2>3, ReplayContinues
<1>15. ASSUME NEW c \in Client, IOStep(c) PROVE ReplayInv'
  BY <1>15, <1>3, <1>4, <1>7, <1>8, <1>9, <1>10, <1>11, <1>13, <1>14 DEF IOStep
<1>16. ASSUME NEW c \in Client, NEW op \in {"INCR", "DEL"}, NEW k \in Key, Receive(c, op, k) PROVE ReplayInv'
  BY <1>5, <1>16
<1>17. ASSUME NEW c \in Client, Receive(c, "BAD", Nil) PROVE ReplayInv'
  BY <1>5, <1>17
<1> QED
  BY StepCases, <1>1, <1>3, <1>15, <1>16, <1>17

\* A key whose commands never overlapped and whose commands were all logged
\* has the value a replay of the log gives it, whatever the threads of the
\* other clients do to other keys meanwhile: IOThread.Start executes a
\* command before it logs it, and no lock spans the two.
THEOREM ReplayAgrees == Spec => []ReplayMatches
<1>1. Init => TypeInv /\ ObjectInv /\ AloneInv /\ ReplayInv
  BY InitTypeInv, InitObject, InitAlone, InitReplay
<1>2. TypeInv /\ ObjectInv /\ AloneInv /\ ReplayInv /\ [Next]_vars
        => TypeInv' /\ ObjectInv' /\ AloneInv' /\ ReplayInv'
  BY TypeInvStep, ObjectStep, AloneStep, ReplayStep
<1>3. ReplayInv => ReplayMatches
  BY DEF ReplayInv
<1> QED
  BY <1>1, <1>2, <1>3, PTL DEF Spec

=============================================================================
