------------------------------- MODULE Server -------------------------------
(***************************************************************************)
(* The server's goroutines, from the first connection to the end of the    *)
(* process: Start of server/main.go, Run and the accept loop of            *)
(* ironhawk/main.go, one IO thread per client, the shard manager and its   *)
(* shard threads.                                                          *)
(*                                                                         *)
(* The IO threads call the store themselves and without a lock.  Commands  *)
(* are split where they read or write what others share: the map, an       *)
(* object's value, numKeys, the log.  INCR of a missing and of a present   *)
(* key and DEL stand for the commands that write; deadlines, eviction and  *)
(* watches are the subject of Keyspace and Watch.                          *)
(*                                                                         *)
(* A send of an answer finishes or fails.                                  *)
(***************************************************************************)
EXTENDS Integers, FiniteSetsExt, SequencesExt

CONSTANTS
  Client,
  Key,          \* keys of one shard
  Shard,
  Nil,
  Restored,     \* the keys the replay of the log restored, with value 1
  MaxCommands,  \* bound: the commands received
  MaxSignals    \* bound: the signals delivered

\* ShardCount is an int8, which GetShardForKey divides by; a log restores
\* finitely many keys; the absence of an object is no object.
ASSUME ServerAssumption ==
  /\ Cardinality(Shard) \in 1..127
  /\ Restored \subseteq Key /\ IsFiniteSet(Restored)
  /\ Nil \notin Nat
  /\ MaxCommands \in Nat /\ MaxSignals \in Nat

VARIABLES
  main,     \* where Start is
  ctx,      \* the context is cancelled
  signals,  \* the signals delivered
  sigs,     \* the channel of Start: "empty", "full" or "closed"
  sigWait,  \* the goroutine that waits for a signal has not cancelled yet
  accept,   \* the accept loop: "look", "call", "failed" or "done"
  run,      \* Run: "select", "wait" or "returned"
  manager,  \* the shard manager: "run", "wait" or "done"
  shards,   \* the shard threads that run
  io,       \* [Client -> the IO thread of the client]
  table,    \* the map of the store: [Key -> an object or Nil]
  heap,     \* the values of the objects made so far
  numKeys,
  wal,      \* TeardownWAL was not called yet
  log,      \* the commands logged
  acked,    \* the commands answered with OK
  issued,   \* the commands received
  unlogged, \* the commands LogCommand failed for
  raced     \* the keys two commands were at work on at once, or one was not logged for

lifecycle == <<main, ctx, signals, sigs, sigWait, accept, run, manager, shards, wal>>
data == <<table, heap, numKeys>>
history == <<log, acked, issued, unlogged, raced>>
vars == <<lifecycle, io, data, history>>

Idle == [pc |-> "absent", op |-> Nil, key |-> Nil, id |-> 0, obj |-> 0, old |-> 0]

Init ==
  /\ main = "range" /\ ctx = FALSE
  /\ signals = 0 /\ sigs = "empty" /\ sigWait = TRUE
  /\ accept = "look" /\ run \in {"select", "returned"}  \* binding may fail
  /\ manager = "run" /\ shards = Shard
  /\ io = [c \in Client |-> Idle]
  /\ LET keys == SetToSeq(Restored)
     IN /\ log = [i \in DOMAIN keys |-> [id |-> 1 - i, op |-> "INCR", key |-> keys[i]]]
        /\ heap = [i \in DOMAIN keys |-> 1]
        /\ table = [k \in Key |-> IF k \in Restored THEN CHOOSE i \in DOMAIN keys : keys[i] = k ELSE Nil]
        /\ numKeys = Len(keys)
  /\ wal = TRUE /\ acked = {} /\ unlogged = {} /\ issued = 0
  /\ raced = {}

Ended == main \in {"exited", "panic"}

Live(c) == io[c].pc \notin {"absent", "done"}

At(c, pc) == io[c].pc = pc
Goto(c, pc) == io' = [io EXCEPT ![c].pc = pc]
Over(c, pc) == io' = [io EXCEPT ![c] = [Idle EXCEPT !.pc = pc]]

-----------------------------------------------------------------------------
(* Start *)

\* The runtime delivers a signal to both channels; a full one drops it, a
\* closed one panics.
Signal ==
  /\ signals < MaxSignals
  /\ signals' = signals + 1
  /\ \/ sigs = "closed" /\ main' = "panic" /\ UNCHANGED <<sigs, manager>>
     \/ /\ sigs # "closed" /\ sigs' = "full"
        /\ manager' = IF manager = "run" THEN "wait" ELSE manager
        /\ UNCHANGED main
  /\ UNCHANGED <<ctx, sigWait, accept, run, shards, wal, io, data, history>>

\* Mutant: the signal is taken and nothing is cancelled.
CancelOnSignal_Ignored ==
  /\ sigWait /\ sigs # "empty"
  /\ sigWait' = FALSE
  /\ sigs' = IF sigs = "full" THEN "empty" ELSE sigs
  /\ UNCHANGED <<main, ctx, signals, accept, run, manager, shards, wal, io, data, history>>

\* The goroutine that receives from sigs, a closed one too.
CancelOnSignal ==
  /\ sigWait /\ sigs # "empty"
  /\ sigWait' = FALSE
  /\ sigs' = IF sigs = "full" THEN "empty" ELSE sigs
  /\ ctx' = TRUE
  /\ UNCHANGED <<main, signals, accept, run, manager, shards, wal, io, data, history>>

\* serverErrCh is closed when runServer has returned; the errors that come
\* through it are not ErrAborted.
LeaveRange == main = "range" /\ run = "returned" /\ main' = "close" /\ UNCHANGED <<ctx, sigs, wal>>
CloseSigs == main = "close" /\ main' = "teardown" /\ sigs' = "closed" /\ UNCHANGED <<ctx, wal>>
TeardownWAL == main = "teardown" /\ main' = "cancel" /\ wal' = FALSE /\ UNCHANGED <<ctx, sigs>>
Cancel == main = "cancel" /\ main' = "wait" /\ ctx' = TRUE /\ UNCHANGED <<sigs, wal>>
Exit ==
  /\ main = "wait" /\ manager = "done" /\ ~sigWait
  /\ main' = "exited"
  /\ UNCHANGED <<ctx, sigs, wal>>

Start ==
  /\ LeaveRange \/ CloseSigs \/ TeardownWAL \/ Cancel \/ Exit
  /\ UNCHANGED <<signals, sigWait, accept, run, manager, shards, io, data, history>>

-----------------------------------------------------------------------------
(* The shard manager *)

ManagerRun ==
  /\ \/ manager = "run" /\ ctx /\ manager' = "wait"
     \/ manager = "wait" /\ shards = {} /\ manager' = "done"
  /\ UNCHANGED <<main, ctx, signals, sigs, sigWait, accept, run, shards, wal, io, data, history>>

ShardThreadStop(s) ==
  /\ s \in shards /\ ctx
  /\ shards' = shards \ {s}
  /\ UNCHANGED <<main, ctx, signals, sigs, sigWait, accept, run, manager, wal, io, data, history>>

-----------------------------------------------------------------------------
(* Server.Run *)

\* Mutant: Run listens to the context only.
RunSelect_ContextOnly ==
  /\ run = "select" /\ ctx
  /\ run' = "wait"
  /\ UNCHANGED <<main, ctx, signals, sigs, sigWait, accept, manager, shards, wal, io, data, history>>

\* Both channels lead to the wait for the accept loop and the IO threads;
\* Shutdown does nothing.
RunSelect ==
  /\ run = "select" /\ (ctx \/ accept = "failed")
  /\ run' = "wait"
  /\ UNCHANGED <<main, ctx, signals, sigs, sigWait, accept, manager, shards, wal, io, data, history>>

\* Mutant: Run waits for the accept loop and not for the IO threads.
RunReturn_LeavesThreads ==
  /\ run = "wait" /\ accept \in {"failed", "done"}
  /\ run' = "returned"
  /\ UNCHANGED <<main, ctx, signals, sigs, sigWait, accept, manager, shards, wal, io, data, history>>

RunReturn ==
  /\ run = "wait" /\ accept \in {"failed", "done"} /\ \A c \in Client : ~Live(c)
  /\ run' = "returned"
  /\ UNCHANGED <<main, ctx, signals, sigs, sigWait, accept, manager, shards, wal, io, data, history>>

\* The accept loop: it looks at the context, then calls Accept.
AcceptLook ==
  /\ accept = "look" /\ run # "returned"
  /\ accept' = IF ctx THEN "done" ELSE "call"
  /\ UNCHANGED <<main, ctx, signals, sigs, sigWait, run, manager, shards, wal, io, data, history>>

\* Nobody waits to be accepted, no thread could be made, or Accept fails.
AcceptNobody ==
  /\ accept = "call" /\ accept' = "look"
  /\ UNCHANGED <<main, ctx, signals, sigs, sigWait, run, manager, shards, wal, io, data, history>>

AcceptError ==
  /\ accept = "call" /\ accept' = "failed"
  /\ UNCHANGED <<main, ctx, signals, sigs, sigWait, run, manager, shards, wal, io, data, history>>

Accept(c) ==
  /\ accept = "call" /\ accept' = "look"
  /\ At(c, "absent") /\ Goto(c, "recv")
  /\ UNCHANGED <<main, ctx, signals, sigs, sigWait, run, manager, shards, wal, data, history>>

-----------------------------------------------------------------------------
(* IO threads *)

Working == {"get", "read", "write", "put", "count", "store", "del", "uncount", "log"}
AtWork(c) == io[c].pc \in Working

\* A command arrives: one that is refused, or one on a key.  select may take
\* it although the context is cancelled.
Receive(c, op, k) ==
  /\ At(c, "recv") /\ issued < MaxCommands
  /\ issued' = issued + 1
  /\ io' = [io EXCEPT ![c] = [Idle EXCEPT !.pc = IF op = "BAD" THEN "refuse" ELSE "get",
                                         !.op = op, !.key = k, !.id = issued + 1]]
  /\ raced' = IF op # "BAD" /\ \E d \in Client \ {c} : AtWork(d) /\ io[d].key = k
              THEN raced \cup {k} ELSE raced
  /\ UNCHANGED <<lifecycle, data, log, acked, unlogged>>

\* The context is cancelled, or the connection ends.
Leave(c) ==
  /\ At(c, "recv") /\ Goto(c, "done")
  /\ UNCHANGED <<lifecycle, data, history>>

\* Mutant: a DEL that finds nothing is not logged.
Get_SkipsLog(c) ==
  LET k == io[c].key
      next == CASE io[c].op = "INCR" /\ table[k] # Nil -> "read"
                [] io[c].op = "INCR" /\ table[k] = Nil -> "put"
                [] io[c].op = "DEL" /\ table[k] # Nil -> "del"
                [] OTHER -> "answer"
  IN /\ At(c, "get")
     /\ io' = [io EXCEPT ![c].pc = next, ![c].obj = IF table[k] = Nil THEN 0 ELSE table[k]]
     /\ UNCHANGED <<lifecycle, data, history>>

\* store.Get or the look-up of store.Del.
Get(c) ==
  LET k == io[c].key
      next == CASE io[c].op = "INCR" /\ table[k] # Nil -> "read"
                [] io[c].op = "INCR" /\ table[k] = Nil -> "put"
                [] io[c].op = "DEL" /\ table[k] # Nil -> "del"
                [] OTHER -> "log"
  IN /\ At(c, "get")
     /\ io' = [io EXCEPT ![c].pc = next, ![c].obj = IF table[k] = Nil THEN 0 ELSE table[k]]
     /\ UNCHANGED <<lifecycle, data, history>>

\* doIncr on an object it found: read the value, write its successor.
ReadValue(c) ==
  /\ At(c, "read")
  /\ io' = [io EXCEPT ![c].pc = "write", ![c].old = heap[io[c].obj]]
  /\ UNCHANGED <<lifecycle, data, history>>

\* Mutant: the sum is answered and not stored.
WriteValue_Dropped(c) ==
  /\ At(c, "write") /\ Goto(c, "log")
  /\ UNCHANGED <<lifecycle, data, history>>

WriteValue(c) ==
  /\ At(c, "write")
  /\ heap' = [heap EXCEPT ![io[c].obj] = io[c].old + 1]
  /\ Goto(c, "log")
  /\ UNCHANGED <<lifecycle, table, numKeys, history>>

\* Mutant: the object is referred to before it is made.
Put_NoObject(c) ==
  /\ At(c, "put")
  /\ io' = [io EXCEPT ![c].pc = IF table[io[c].key] = Nil THEN "count" ELSE "store",
                      ![c].obj = Len(heap) + 1, ![c].old = numKeys]
  /\ UNCHANGED <<lifecycle, data, history>>

\* doIncr on a missing key: make an object; putHelper looks the key up again.
Put(c) ==
  /\ At(c, "put")
  /\ heap' = Append(heap, 1)
  /\ io' = [io EXCEPT ![c].pc = IF table[io[c].key] = Nil THEN "count" ELSE "store",
                      ![c].obj = Len(heap) + 1, ![c].old = numKeys]
  /\ UNCHANGED <<lifecycle, table, numKeys, history>>

\* numKeys is a plain int: what was read is written back, plus one.
Count(c) ==
  /\ At(c, "count")
  /\ numKeys' = io[c].old + 1
  /\ Goto(c, "store")
  /\ UNCHANGED <<lifecycle, table, heap, history>>

Store(c) ==
  /\ At(c, "store")
  /\ table' = [table EXCEPT ![io[c].key] = io[c].obj]
  /\ Goto(c, "log")
  /\ UNCHANGED <<lifecycle, heap, numKeys, history>>

\* deleteKey.
Delete(c) ==
  /\ At(c, "del")
  /\ table' = [table EXCEPT ![io[c].key] = Nil]
  /\ io' = [io EXCEPT ![c].pc = "uncount", ![c].old = numKeys]
  /\ UNCHANGED <<lifecycle, heap, numKeys, history>>

Uncount(c) ==
  /\ At(c, "uncount")
  /\ numKeys' = io[c].old - 1
  /\ Goto(c, "log")
  /\ UNCHANGED <<lifecycle, table, heap, history>>

\* An error of the log is only reported.
LogCommand(c) ==
  /\ At(c, "log") /\ Goto(c, "answer")
  /\ \/ /\ log' = Append(log, [id |-> io[c].id, op |-> io[c].op, key |-> io[c].key])
        /\ UNCHANGED <<unlogged, raced>>
     \/ /\ unlogged' = unlogged \cup {io[c].id} /\ raced' = raced \cup {io[c].key}
        /\ UNCHANGED log
  /\ UNCHANGED <<lifecycle, data, acked, issued>>

\* The answer is sent, or cannot be and the thread ends.
Answer(c) ==
  /\ At(c, "answer")
  /\ \/ acked' = acked \cup {io[c].id} /\ Over(c, "recv")
     \/ acked' = acked /\ Over(c, "done")
  /\ UNCHANGED <<lifecycle, data, log, issued, unlogged, raced>>

\* A refused command is answered and not logged.
Refuse(c) ==
  /\ At(c, "refuse")
  /\ Over(c, "recv") \/ Over(c, "done")
  /\ UNCHANGED <<lifecycle, data, history>>

IOStep(c) ==
  \/ Get(c) \/ ReadValue(c) \/ WriteValue(c) \/ Put(c) \/ Count(c) \/ Store(c)
  \/ Delete(c) \/ Uncount(c) \/ LogCommand(c) \/ Answer(c) \/ Refuse(c)

-----------------------------------------------------------------------------

Next ==
  /\ ~Ended
  /\ \/ Signal \/ CancelOnSignal \/ Start \/ ManagerRun \/ RunSelect \/ RunReturn
     \/ AcceptLook \/ AcceptNobody \/ AcceptError
     \/ \E s \in Shard : ShardThreadStop(s)
     \/ \E c \in Client :
          \/ Accept(c)
          \/ \E op \in {"INCR", "DEL"}, k \in Key : Receive(c, op, k)
          \/ Receive(c, "BAD", Nil)
          \/ Leave(c)
          \/ IOStep(c)

Spec == Init /\ [][Next]_vars

\* Every goroutine that can run does, and a thread whose context is cancelled
\* leaves its select.  Nothing is promised of signals and of clients.
FairSpec ==
  /\ Spec
  /\ WF_vars(~Ended /\ CancelOnSignal) /\ WF_vars(~Ended /\ Start)
  /\ WF_vars(~Ended /\ ManagerRun) /\ WF_vars(~Ended /\ RunSelect) /\ WF_vars(~Ended /\ RunReturn)
  /\ WF_vars(~Ended /\ (AcceptLook \/ AcceptNobody))
  /\ \A s \in Shard : WF_vars(~Ended /\ ShardThreadStop(s))
  /\ \A c \in Client : WF_vars(~Ended /\ IOStep(c)) /\ WF_vars(~Ended /\ ctx /\ Leave(c))

-----------------------------------------------------------------------------
(* Properties *)

Pc == {"absent", "recv", "refuse", "answer", "done"} \cup Working
IOThread ==
  [pc : Pc, op : {Nil, "INCR", "DEL", "BAD"}, key : Key \cup {Nil},
   id : 0..issued, obj : 0..Len(heap), old : Int]
Entry == [id : Int, op : {"INCR", "DEL"}, key : Key]

\* The states of the goroutines, the objects of the store and the histories
\* are well formed; an IO thread refers to an object that was made, and no
\* value exceeds the commands received.
TypeOK ==
  /\ main \in {"range", "close", "teardown", "cancel", "wait", "exited", "panic"}
  /\ {ctx, sigWait, wal} \subseteq BOOLEAN
  /\ signals \in 0..MaxSignals /\ sigs \in {"empty", "full", "closed"}
  /\ accept \in {"look", "call", "failed", "done"}
  /\ run \in {"select", "wait", "returned"} /\ manager \in {"run", "wait", "done"}
  /\ shards \subseteq Shard
  /\ issued \in 0..MaxCommands
  /\ io \in [Client -> IOThread]
  /\ table \in [Key -> {Nil} \cup (1..Len(heap))]
  /\ heap \in Seq(1..(issued + 1)) /\ numKeys \in Int
  /\ acked \cup unlogged \subseteq 1..issued
  /\ log \in Seq(Entry) /\ \A i \in 1..Len(log) : log[i].id <= issued
  /\ raced \subseteq Key

Stored(k) == IF table[k] = Nil THEN 0 ELSE heap[table[k]]

\* What a logged command makes of the value of k, and what a log makes of it.
Effect(e, k, v) == IF e.key # k THEN v ELSE IF e.op = "DEL" THEN 0 ELSE v + 1
ReplayOf(l, k) ==
  LET upTo[n \in 0..Len(l)] == IF n = 0 THEN 0 ELSE Effect(l[n], k, upTo[n - 1])
  IN  upTo[Len(l)]
Replayed(k) == ReplayOf(log, k)

\* A key whose commands never overlapped has the value a replay of the log
\* gives it, whatever the other IO threads did to other keys meanwhile: what
\* is executed before it is logged, without a lock, is still logged in the
\* order of execution (IOThread.Start).
ReplayMatches ==
  \A k \in Key \ raced :
    (\A c \in Client : AtWork(c) => io[c].key # k) => Stored(k) = Replayed(k)

Quiet == \A c \in Client : ~AtWork(c)

\* "INCR increments the integer at 'key' by one" (cmd_incr.go), whoever else
\* increments it meanwhile.  Refuted: MCServer_increment.
IncrementsByOne ==
  [][\A c \in Client : WriteValue(c) => heap'[io[c].obj] = heap[io[c].obj] + 1]_vars

\* What ShouldEvict compares with the limit is "the number of keys"
\* (batchevictionlru.go), at least while no command is at work.
\* Refuted: MCServer_keycount.
KeyCountIsKeys == Quiet => numKeys = Cardinality({k \in Key : table[k] # Nil})

\* "Restore the database from WAL logs" (server/main.go): while no command is
\* at work, and the log took every command, a replay of the log makes the keys
\* the store has.  Refuted: MCServer_replayorder.
ReplayRestoresKeys ==
  Quiet /\ unlogged = {} => \A k \in Key : table[k] # Nil <=> Replayed(k) > 0

\* A command answered with OK was logged, once, unless the log failed
\* (IOThread.Start answers after LogCommand).
AnsweredIsLogged ==
  /\ acked \subseteq unlogged \cup {log[i].id : i \in 1..Len(log)}
  /\ IsInjective([i \in 1..Len(log) |-> log[i].id])

\* When TeardownWAL closes the log no IO thread is left that could still
\* write to it (Start of server/main.go, Server.Run).
TeardownAfterThreads == ~wal => \A c \in Client : ~Live(c)

\* A signal ends the server: every thread and shard stops and Start returns,
\* or a second signal meets the closed channel and ends the process.
ShutdownCompletes == signals > 0 ~> Ended

\* When accepting fails the server ends once its clients are gone, without a
\* signal: Run waits for threads nobody told to stop.
AcceptFailureEnds == (accept = "failed" /\ \A c \in Client : ~Live(c)) ~> Ended

=============================================================================
