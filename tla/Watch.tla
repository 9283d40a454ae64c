-------------------------------- MODULE Watch -------------------------------
(***************************************************************************)
(* Query subscriptions: the IO threads of internal/server/ironhawk, one    *)
(* per connection, and the watch manager they share.                       *)
(*                                                                         *)
(* An IO thread executes a request, then leaves two things to goroutines   *)
(* of their own, which run in any order: HandleWatch, which subscribes,    *)
(* and NotifyWatchers, which runs the subscribed commands on the key again *)
(* and sends what they return.  HandleWatch and the cleanup take the write *)
(* lock of the manager; NotifyWatchers holds the read lock from running a  *)
(* command to sending its result.                                          *)
(*                                                                         *)
(* A key's value is its version, the number of SETs on it.  GET stands for *)
(* the watchable commands: it and its .WATCH form have one fingerprint per *)
(* key.  A connection has done its HANDSHAKE before anything else.         *)
(***************************************************************************)
EXTENDS Integers, FiniteSets, Bags

CONSTANTS
  Thread,     \* the connections
  Client,     \* client ids
  ClientOf,   \* [Thread -> Client]: the id each connection's HANDSHAKE gives
  ModeOf,     \* [Thread -> {"command", "watch"}]: and the mode
  Key,
  None,
  CommandsOf, \* [Thread -> the commands its client sends]
  Breakable,  \* the connections that may break
  MaxVer,     \* bound: SETs on a key
  MaxJobs     \* bound: no new request while this many goroutines are pending

ASSUME ThreadAssumption ==
  /\ ClientOf \in [Thread -> Client]
  /\ ModeOf \in [Thread -> {"command", "watch"}]
  /\ None \notin Thread
ASSUME BreakableAssumption == Breakable \subseteq Thread
ASSUME CommandAssumption ==
  CommandsOf \in [Thread -> SUBSET {"GET", "GET.WATCH", "SET", "UNWATCH"}]
ASSUME BoundAssumption == MaxVer \in Nat /\ MaxJobs \in Nat

\* The fingerprint of GET.WATCH k, and of UNWATCH with that fingerprint.
Fingerprint == {"GET.WATCH", "UNWATCH"} \X Key

VARIABLES
  conn,         \* "new", "open", "eof" (closed by the client) or "failed"
  cur,          \* [Thread -> the request it is executing, or None]
  ver,          \* [Key -> version]: the store
  keyFPMap,     \* the fingerprints listed under the key their command is on
  fpClientMap,  \* [Fingerprint -> SUBSET Client]
  fpCmdMap,     \* the fingerprints that have a command
  clientWatchThreadMap,  \* [Client -> Thread or None]
  jobs,         \* the goroutines that have not finished: a bag
  waiting,      \* [Thread -> the fingerprint whose result a client waits for]
  last,         \* [Thread -> [Key -> the version last sent, 0 if none]]
  seen,         \* [Thread -> [Key -> the newest version ever sent]]
  due,          \* [Client -> [Key -> the last version set while subscribed]]
  unwatched     \* [Client -> [Key -> None, or the version at its UNWATCH]]

maps == <<keyFPMap, fpClientMap, fpCmdMap, clientWatchThreadMap>>
client == <<waiting, last, seen, due, unwatched>>
vars == <<conn, cur, ver, maps, jobs, client>>

-----------------------------------------------------------------------------
(* Goroutines *)

Job(kind, cmd, k, t, val) == [kind |-> kind, cmd |-> cmd, key |-> k, by |-> t, val |-> val]

WatchName == {"GET.WATCH", "UNWATCH"}

HandleJobs == [kind : {"handle"}, cmd : WatchName, key : Key, by : Thread, val : {0}]
NotifyJobs == [kind : {"notify"}, cmd : WatchName \cup {"SET"}, key : Key, by : Thread, val : {0}]
SendJobs ==
  [kind : {"send"}, cmd : WatchName \cup {"SET"}, key : Key, by : Thread, val : 0..MaxVer]
Jobs == HandleJobs \cup NotifyJobs \cup SendJobs

Pending(j) == BagIn(j, jobs)

\* A notification holds the read lock, so nobody gets the write lock.
WriteLocked == \A j \in BagToSet(jobs) : j.kind # "send"

\* Mutant: the fingerprint of the command that changed the key is looked up.
FingerprintOf_Own(j) == <<j.cmd, j.key>>

\* The fingerprint listed under the key of the job's command.  The key of
\* UNWATCH is its argument, a fingerprint.
FingerprintOf(j) == <<IF j.cmd = "UNWATCH" THEN "UNWATCH" ELSE "GET.WATCH", j.key>>

-----------------------------------------------------------------------------
(* Connections *)

Init ==
  /\ conn = [t \in Thread |-> "new"]
  /\ cur = [t \in Thread |-> None]
  /\ ver = [k \in Key |-> 0]
  /\ keyFPMap = {} /\ fpCmdMap = {}
  /\ fpClientMap = [fp \in Fingerprint |-> {}]
  /\ clientWatchThreadMap = [c \in Client |-> None]
  /\ jobs = EmptyBag
  /\ waiting = [t \in Thread |-> None]
  /\ last = [t \in Thread |-> [k \in Key |-> 0]]
  /\ seen = [t \in Thread |-> [k \in Key |-> 0]]
  /\ due = [c \in Client |-> [k \in Key |-> 0]]
  /\ unwatched = [c \in Client |-> [k \in Key |-> None]]

\* RegisterThread: only a thread in watch mode needs the lock.
RegisterThread(t) ==
  IF ModeOf[t] = "watch"
  THEN WriteLocked /\ clientWatchThreadMap' = [clientWatchThreadMap EXCEPT ![ClientOf[t]] = t]
  ELSE UNCHANGED clientWatchThreadMap

HANDSHAKE(t) ==
  /\ conn[t] = "new"
  /\ conn' = [conn EXCEPT ![t] = "open"]
  /\ RegisterThread(t)
  /\ UNCHANGED <<cur, ver, keyFPMap, fpClientMap, fpCmdMap, jobs, client>>

\* Mutant: the suffix goes to a copy of the request.
NameAfterExecute_Copied(cmd) == cmd

\* The name of a watchable command gets the suffix .WATCH, through a pointer to
\* the request itself: from then on a GET is a GET.WATCH.
NameAfterExecute(cmd) == IF cmd = "GET" THEN "GET.WATCH" ELSE cmd

\* One turn of the loop of IOThread.Start: execute the request and start
\* HandleWatch if its name ends in WATCH, as that of UNWATCH does.
Request(t, cmd, k) ==
  LET name   == NameAfterExecute(cmd)
      handle == IF name \in WatchName THEN {Job("handle", name, k, t, 0)} ELSE {}
      told   == IF cmd = "SET" THEN fpClientMap[<<"GET.WATCH", k>>] ELSE {}
  IN  /\ conn[t] = "open" /\ cur[t] = None /\ waiting[t] = None
      /\ BagCardinality(jobs) < MaxJobs
      /\ cmd = "SET" => ver[k] < MaxVer
      /\ cur' = [cur EXCEPT ![t] = <<name, k>>]
      /\ ver' = IF cmd = "SET" THEN [ver EXCEPT ![k] = @ + 1] ELSE ver
      /\ jobs' = jobs (+) SetToBag(handle)
      /\ waiting' = [waiting EXCEPT ![t] =
                       IF cmd \in {"GET", "UNWATCH"} THEN <<name, k>> ELSE None]
      /\ due' = [c \in Client |-> IF c \in told THEN [due[c] EXCEPT ![k] = ver'[k]]
                                  ELSE due[c]]
      /\ unwatched' = [unwatched EXCEPT ![ClientOf[t]][k] =
                         IF cmd = "UNWATCH" THEN ver[k] ELSE IF cmd = "SET" THEN @ ELSE None]
      /\ UNCHANGED <<conn, maps, last, seen>>

\* The rest of the turn: register the thread, answer, unless it is a watch
\* command, and start NotifyWatchers.  If the answer cannot be sent, the
\* thread ends there.
Respond(t) ==
  LET notify == Job("notify", cur[t][1], cur[t][2], t, 0)
  IN  /\ cur[t] # None
      /\ cur' = [cur EXCEPT ![t] = None]
      /\ RegisterThread(t)
      /\ \/ jobs' = jobs (+) SetToBag({notify}) /\ UNCHANGED conn
         \/ /\ t \in Breakable /\ cur[t][1] \notin WatchName
            /\ conn' = [conn EXCEPT ![t] = "failed"] /\ UNCHANGED jobs
      /\ UNCHANGED <<ver, keyFPMap, fpClientMap, fpCmdMap, client>>

\* Mutant: the thread is forgotten but its subscriptions are kept.
CleanupThreadWatchSubscriptions_ThreadOnly(t) ==
  /\ WriteLocked
  /\ clientWatchThreadMap' = [clientWatchThreadMap EXCEPT ![ClientOf[t]] = None]
  /\ UNCHANGED <<fpClientMap, keyFPMap, fpCmdMap, due>>

CleanupThreadWatchSubscriptions(t) ==
  /\ WriteLocked
  /\ clientWatchThreadMap' = [clientWatchThreadMap EXCEPT ![ClientOf[t]] = None]
  /\ fpClientMap' = [fp \in Fingerprint |-> fpClientMap[fp] \ {ClientOf[t]}]
  /\ due' = [due EXCEPT ![ClientOf[t]] = [k \in Key |-> 0]]
  /\ UNCHANGED <<keyFPMap, fpCmdMap>>

\* The connection ends.  Only a clean end of file cleans up after it.
Disconnect(t) ==
  /\ conn[t] = "open" /\ cur[t] = None
  /\ \/ /\ conn' = [conn EXCEPT ![t] = "eof"]
        /\ CleanupThreadWatchSubscriptions(t)
     \/ /\ t \in Breakable
        /\ conn' = [conn EXCEPT ![t] = "failed"]
        /\ UNCHANGED <<maps, due>>
  /\ UNCHANGED <<cur, ver, jobs, waiting, last, seen, unwatched>>

-----------------------------------------------------------------------------
(* The watch manager's goroutines *)

HandleWatch(j) ==
  LET fp == FingerprintOf(j)
      c  == ClientOf[j.by]
  IN  /\ Pending(j) /\ j.kind = "handle" /\ WriteLocked
      /\ keyFPMap' = keyFPMap \cup {fp}
      /\ fpClientMap' = [fpClientMap EXCEPT ![fp] = @ \cup {c}]
      /\ fpCmdMap' = fpCmdMap \cup {fp}
      /\ clientWatchThreadMap' = [clientWatchThreadMap EXCEPT ![c] = j.by]
      /\ jobs' = jobs (-) SetToBag({j})
      /\ UNCHANGED <<conn, cur, ver, client>>

\* NotifyWatchers, first half: run the subscribed command.
NotifyRun(j) ==
  LET fp == FingerprintOf(j)
  IN  /\ Pending(j) /\ j.kind = "notify"
      /\ jobs' = (jobs (-) SetToBag({j})) (+)
                 SetToBag(IF fp \in keyFPMap \cap fpCmdMap
                          THEN {Job("send", j.cmd, j.key, j.by, ver[j.key])} ELSE {})
      /\ UNCHANGED <<conn, cur, ver, maps, client>>

\* The connections the result goes to: a .WATCH command only notifies the
\* client that sent it.
Receivers(j) ==
  {t \in Thread :
     /\ conn[t] = "open"
     /\ \E c \in fpClientMap[FingerprintOf(j)] :
          /\ clientWatchThreadMap[c] = t
          /\ j.cmd = "GET.WATCH" => c = ClientOf[j.by]}

\* NotifyWatchers, second half: send the result.
NotifySend(j) ==
  LET to      == Receivers(j)
      isValue == j.cmd # "UNWATCH"
      k       == j.key
  IN  /\ Pending(j) /\ j.kind = "send"
      /\ jobs' = jobs (-) SetToBag({j})
      /\ waiting' = [t \in Thread |-> IF t \in to /\ waiting[t] = FingerprintOf(j)
                                      THEN None ELSE waiting[t]]
      /\ last' = [t \in Thread |-> IF t \in to /\ isValue
                                   THEN [last[t] EXCEPT ![k] = j.val] ELSE last[t]]
      /\ seen' = [t \in Thread |-> IF t \in to /\ isValue /\ j.val > seen[t][k]
                                   THEN [seen[t] EXCEPT ![k] = j.val] ELSE seen[t]]
      /\ UNCHANGED <<conn, cur, ver, maps, due, unwatched>>

-----------------------------------------------------------------------------

Next ==
  \/ \E t \in Thread : HANDSHAKE(t) \/ Respond(t) \/ Disconnect(t)
  \/ \E t \in Thread, k \in Key : \E cmd \in CommandsOf[t] : Request(t, cmd, k)
  \/ \E j \in BagToSet(jobs) : HandleWatch(j) \/ NotifyRun(j) \/ NotifySend(j)

Spec == Init /\ [][Next]_vars

\* The Go scheduler runs every goroutine eventually, and the lock lets no new
\* reader in while a writer waits: a writer that can get the lock again and
\* again gets it.
FairSpec ==
  /\ Spec
  /\ \A t \in Thread : SF_vars(Respond(t))
  /\ \A j \in HandleJobs : SF_vars(HandleWatch(j))
  /\ \A j \in NotifyJobs : WF_vars(NotifyRun(j))
  /\ \A j \in SendJobs : WF_vars(NotifySend(j))

-----------------------------------------------------------------------------
(* Properties *)

TypeOK ==
  /\ conn \in [Thread -> {"new", "open", "eof", "failed"}]
  /\ cur \in [Thread -> {None} \cup ((WatchName \cup {"SET"}) \X Key)]
  /\ ver \in [Key -> 0..MaxVer]
  /\ keyFPMap \subseteq Fingerprint /\ fpCmdMap \subseteq Fingerprint
  /\ fpClientMap \in [Fingerprint -> SUBSET Client]
  /\ clientWatchThreadMap \in [Client -> Thread \cup {None}]
  /\ IsABag(jobs) /\ BagToSet(jobs) \subseteq Jobs
  /\ waiting \in [Thread -> {None} \cup Fingerprint]
  /\ last \in [Thread -> [Key -> 0..MaxVer]]
  /\ seen \in [Thread -> [Key -> 0..MaxVer]]
  /\ due \in [Client -> [Key -> 0..MaxVer]]
  /\ unwatched \in [Client -> [Key -> {None} \cup 0..MaxVer]]

Subscribed(c, k) == c \in fpClientMap[<<"GET.WATCH", k>>]

\* Every subscription can be served: NotifyWatchers finds its fingerprint
\* under the key, the command to run and a thread to send to.  "Not having a
\* command for a fingerprint is a bug" (NotifyWatchers).
SubscriptionReachable ==
  \A fp \in Fingerprint : \A c \in fpClientMap[fp] :
    fp \in keyFPMap \cap fpCmdMap /\ clientWatchThreadMap[c] # None

\* A value set while the client was subscribed has not been sent to its
\* thread, nor has a newer one.
Owed(c, k) ==
  LET t == clientWatchThreadMap[c]
  IN  t # None /\ conn[t] = "open" /\ Subscribed(c, k) /\ due[c][k] > seen[t][k]

\* What GET.WATCH promises: whenever the key is set, its subscribers are sent
\* that value or a newer one, however HandleWatch, NotifyWatchers, requests
\* and disconnections interleave.
NotifiedEventually == \A c \in Client, k \in Key : Owed(c, k) ~> ~Owed(c, k)

\* UNWATCH (cmd_unwatch.go): once it has been executed, no later change of the
\* key is sent to the client.
UnwatchStopsUpdates ==
  \A t \in Thread, k \in Key :
    LET u == unwatched[ClientOf[t]][k] IN u # None => seen[t][k] <= u

\* GET (cmd_get.go): the client that sent it is answered, or is gone.
GetAnswered ==
  \A t \in Thread, k \in Key :
    (waiting[t] = <<"GET.WATCH", k>>) ~> (waiting[t] = None \/ conn[t] # "open")

\* GET.WATCH (cmd_get_watch.go): when everything has been sent, the last value
\* a subscriber got for a key is the value of the key.
LastSentIsCurrent ==
  (jobs = EmptyBag /\ \A t \in Thread : cur[t] = None) =>
    \A t \in Thread, k \in Key :
      (conn[t] = "open" /\ Subscribed(ClientOf[t], k) /\ last[t][k] # 0) => last[t][k] = ver[k]

=============================================================================
