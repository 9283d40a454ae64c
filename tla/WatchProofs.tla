----------------------------- MODULE WatchProofs ----------------------------
(***************************************************************************)
(* The watch manager keeps its four maps in step, for any connections,     *)
(* clients, keys and bounds: whoever is subscribed can be served.          *)
(***************************************************************************)
EXTENDS Watch, TLAPS

-----------------------------------------------------------------------------
(* The bag of goroutines *)

LEMMA SetToBagType ==
  ASSUME NEW S \in SUBSET Jobs
  PROVE  IsABag(SetToBag(S)) /\ DOMAIN SetToBag(S) = S
BY DEF IsABag, SetToBag

LEMMA BagAdd ==
  ASSUME NEW A, NEW B, IsABag(A), IsABag(B)
  PROVE  IsABag(A (+) B) /\ DOMAIN (A (+) B) = DOMAIN A \cup DOMAIN B
BY DEF IsABag, (+), BagIn, BagToSet

LEMMA BagRemove ==
  ASSUME NEW A, NEW B, IsABag(A), IsABag(B)
  PROVE  IsABag(A (-) B) /\ DOMAIN (A (-) B) \subseteq DOMAIN A
BY DEF IsABag, (-), BagIn, BagToSet

LEMMA AddJobs ==
  ASSUME NEW B, IsABag(B), BagToSet(B) \subseteq Jobs, NEW S \in SUBSET Jobs
  PROVE  IsABag(B (+) SetToBag(S)) /\ BagToSet(B (+) SetToBag(S)) \subseteq Jobs
<1> DEFINE C == SetToBag(S)
<1>1. IsABag(C) /\ DOMAIN C = S
  BY SetToBagType
<1> HIDE DEF C
<1>2. IsABag(B (+) C) /\ DOMAIN (B (+) C) = DOMAIN B \cup DOMAIN C
  BY <1>1, BagAdd
<1>3. BagToSet(B (+) C) \subseteq Jobs
  BY <1>1, <1>2 DEF BagToSet
<1> QED BY <1>2, <1>3 DEF C

LEMMA JobType ==
  ASSUME NEW k \in Key, NEW t \in Thread
  PROVE  /\ \A name \in WatchName : Job("handle", name, k, t, 0) \in Jobs
         /\ \A name \in WatchName \cup {"SET"} :
              /\ Job("notify", name, k, t, 0) \in Jobs
              /\ \A v \in 0..MaxVer : Job("send", name, k, t, v) \in Jobs
BY BoundAssumption DEF Job, Jobs, HandleJobs, NotifyJobs, SendJobs

\* A pending job is a job, and its fingerprint is one.
LEMMA PendingJob ==
  ASSUME TypeOK, NEW j, Pending(j)
  PROVE  /\ j \in Jobs /\ j.key \in Key /\ j.by \in Thread
         /\ j.cmd \in WatchName \cup {"SET"} /\ j.val \in 0..MaxVer
         /\ ClientOf[j.by] \in Client /\ FingerprintOf(j) \in Fingerprint
<1>1. j \in Jobs
  BY DEF TypeOK, Pending, BagIn, BagToSet
<1> QED
  BY <1>1, ThreadAssumption, BoundAssumption
  DEF Jobs, HandleJobs, NotifyJobs, SendJobs, FingerprintOf, Fingerprint, WatchName

-----------------------------------------------------------------------------
(* One lemma per action *)

\* What the maps of the watch manager promise each other.
IndInv == TypeOK /\ SubscriptionReachable

LEMMA InitInv == Init => IndInv
<1> SUFFICES ASSUME Init PROVE IndInv
  OBVIOUS
<1>1. IsABag(jobs) /\ BagToSet(jobs) \subseteq Jobs
  BY DEF Init, IsABag, EmptyBag, SetToBag, BagToSet
<1> QED
  BY <1>1, ThreadAssumption, BoundAssumption
  DEF Init, IndInv, TypeOK, SubscriptionReachable, Fingerprint

\* Registering a thread only ever replaces a thread by a thread.
LEMMA RegisterInv ==
  ASSUME IndInv, NEW t \in Thread, RegisterThread(t)
  PROVE  /\ clientWatchThreadMap' \in [Client -> Thread \cup {None}]
         /\ \A c \in Client : clientWatchThreadMap[c] # None => clientWatchThreadMap'[c] # None
BY ThreadAssumption DEF IndInv, TypeOK, RegisterThread

LEMMA HANDSHAKEInv ==
  ASSUME IndInv, NEW t \in Thread, HANDSHAKE(t)
  PROVE  IndInv'
<1>1. TypeOK'
  BY RegisterInv DEF IndInv, TypeOK, HANDSHAKE, client
<1>2. SubscriptionReachable'
  BY RegisterInv DEF IndInv, TypeOK, SubscriptionReachable, HANDSHAKE
<1> QED BY <1>1, <1>2 DEF IndInv

LEMMA RequestInv ==
  ASSUME IndInv, NEW t \in Thread, NEW k \in Key, NEW cmd \in CommandsOf[t], Request(t, cmd, k)
  PROVE  IndInv'
<1> DEFINE name == NameAfterExecute(cmd)
<1>0. cmd \in {"GET", "GET.WATCH", "SET", "UNWATCH"} /\ name \in WatchName \cup {"SET"}
  BY CommandAssumption DEF NameAfterExecute, WatchName
<1>1. IsABag(jobs') /\ BagToSet(jobs') \subseteq Jobs
  <2> DEFINE handle == IF name \in WatchName THEN {Job("handle", name, k, t, 0)} ELSE {}
  <2>1. handle \in SUBSET Jobs
    BY JobType
  <2>2. jobs' = jobs (+) SetToBag(handle)
    BY DEF Request
  <2> HIDE DEF handle
  <2> QED BY <2>1, <2>2, AddJobs DEF IndInv, TypeOK
<1>2. cur' \in [Thread -> {None} \cup ((WatchName \cup {"SET"}) \X Key)]
  BY <1>0 DEF IndInv, TypeOK, Request
<1>3. ver' \in [Key -> 0..MaxVer]
  BY BoundAssumption DEF IndInv, TypeOK, Request
<1>4. waiting' \in [Thread -> {None} \cup Fingerprint]
  BY <1>0 DEF IndInv, TypeOK, Request, NameAfterExecute, Fingerprint
<1>5. due' \in [Client -> [Key -> 0..MaxVer]]
  BY <1>3 DEF IndInv, TypeOK, Request
<1>6. unwatched' \in [Client -> [Key -> {None} \cup 0..MaxVer]]
  BY <1>0, ThreadAssumption DEF IndInv, TypeOK, Request
<1>7. TypeOK'
  BY <1>1, <1>2, <1>3, <1>4, <1>5, <1>6 DEF IndInv, TypeOK, Request, maps
<1>8. SubscriptionReachable'
  BY DEF IndInv, SubscriptionReachable, Request, maps
<1> QED BY <1>7, <1>8 DEF IndInv

LEMMA RespondInv ==
  ASSUME IndInv, NEW t \in Thread, Respond(t)
  PROVE  IndInv'
<1> DEFINE notify == Job("notify", cur[t][1], cur[t][2], t, 0)
<1>0. cur[t][1] \in WatchName \cup {"SET"} /\ cur[t][2] \in Key
  BY DEF IndInv, TypeOK, Respond
<1>1. IsABag(jobs') /\ BagToSet(jobs') \subseteq Jobs
  <2>1. {notify} \in SUBSET Jobs
    BY <1>0, JobType
  <2>2. jobs' = jobs (+) SetToBag({notify}) \/ jobs' = jobs
    BY DEF Respond
  <2> HIDE DEF notify
  <2>3. IsABag(jobs) /\ BagToSet(jobs) \subseteq Jobs
    BY DEF IndInv, TypeOK
  <2>4. CASE jobs' = jobs
    BY <2>3, <2>4 DEF IsABag, BagToSet
  <2>5. CASE jobs' = jobs (+) SetToBag({notify})
    BY <2>1, <2>3, <2>5, AddJobs
  <2> QED BY <2>2, <2>4, <2>5
<1>2. conn' \in [Thread -> {"new", "open", "eof", "failed"}]
  BY DEF IndInv, TypeOK, Respond
<1>3. TypeOK'
  BY <1>1, <1>2, RegisterInv DEF IndInv, TypeOK, Respond, client
<1>4. SubscriptionReachable'
  BY RegisterInv DEF IndInv, TypeOK, SubscriptionReachable, Respond
<1> QED BY <1>3, <1>4 DEF IndInv

LEMMA DisconnectInv ==
  ASSUME IndInv, NEW t \in Thread, Disconnect(t)
  PROVE  IndInv'
<1>1. CASE CleanupThreadWatchSubscriptions(t)
  <2>1. /\ clientWatchThreadMap' \in [Client -> Thread \cup {None}]
        /\ fpClientMap' \in [Fingerprint -> SUBSET Client]
        /\ due' \in [Client -> [Key -> 0..MaxVer]]
    BY <1>1, BoundAssumption, ThreadAssumption
    DEF IndInv, TypeOK, CleanupThreadWatchSubscriptions
  <2>2. conn' \in [Thread -> {"new", "open", "eof", "failed"}]
    BY DEF IndInv, TypeOK, Disconnect
  <2>3. TypeOK'
    BY <1>1, <2>1, <2>2 DEF IndInv, TypeOK, Disconnect, CleanupThreadWatchSubscriptions
  <2>4. SubscriptionReachable'
    BY <1>1 DEF IndInv, TypeOK, SubscriptionReachable, CleanupThreadWatchSubscriptions
  <2> QED BY <2>3, <2>4 DEF IndInv
<1>2. CASE UNCHANGED <<maps, due>>
  <2>1. TypeOK'
    BY <1>2 DEF IndInv, TypeOK, Disconnect, maps
  <2>2. SubscriptionReachable'
    BY <1>2 DEF IndInv, SubscriptionReachable, maps
  <2> QED BY <2>1, <2>2 DEF IndInv
<1> QED BY <1>1, <1>2 DEF Disconnect

LEMMA HandleWatchInv ==
  ASSUME IndInv, NEW j, HandleWatch(j)
  PROVE  IndInv'
<1>0. j \in Jobs /\ j.by \in Thread /\ ClientOf[j.by] \in Client /\ FingerprintOf(j) \in Fingerprint
  BY PendingJob DEF IndInv, HandleWatch
<1>1. IsABag(jobs') /\ BagToSet(jobs') \subseteq Jobs
  BY <1>0, SetToBagType, BagRemove DEF IndInv, TypeOK, HandleWatch, BagToSet
<1>2. TypeOK'
  BY <1>0, <1>1 DEF IndInv, TypeOK, HandleWatch, client
<1>3. SubscriptionReachable'
  BY <1>0, ThreadAssumption DEF IndInv, TypeOK, SubscriptionReachable, HandleWatch
<1> QED BY <1>2, <1>3 DEF IndInv

LEMMA NotifyRunInv ==
  ASSUME IndInv, NEW j, NotifyRun(j)
  PROVE  IndInv'
<1> DEFINE send == IF FingerprintOf(j) \in keyFPMap \cap fpCmdMap
                   THEN {Job("send", j.cmd, j.key, j.by, ver[j.key])} ELSE {}
<1>0. /\ j \in Jobs /\ j.by \in Thread /\ j.key \in Key
      /\ j.cmd \in WatchName \cup {"SET"}
  BY PendingJob DEF IndInv, NotifyRun
<1>1. send \in SUBSET Jobs
  <2>1. ver[j.key] \in 0..MaxVer
    BY <1>0 DEF IndInv, TypeOK
  <2> QED BY <1>0, <2>1, JobType
<1>2. jobs' = (jobs (-) SetToBag({j})) (+) SetToBag(send)
  BY DEF NotifyRun
<1>3. IsABag(jobs') /\ BagToSet(jobs') \subseteq Jobs
  <2> HIDE DEF send
  <2> DEFINE rest == jobs (-) SetToBag({j})
  <2>1. IsABag(rest) /\ BagToSet(rest) \subseteq Jobs
    BY <1>0, SetToBagType, BagRemove DEF IndInv, TypeOK, BagToSet
  <2> HIDE DEF rest
  <2>2. IsABag(rest (+) SetToBag(send)) /\ BagToSet(rest (+) SetToBag(send)) \subseteq Jobs
    BY <1>1, <2>1, AddJobs
  <2> QED BY <1>2, <2>2 DEF rest
<1>4. TypeOK'
  BY <1>3 DEF IndInv, TypeOK, NotifyRun, maps, client
<1>5. SubscriptionReachable'
  BY DEF IndInv, SubscriptionReachable, NotifyRun, maps
<1> QED BY <1>4, <1>5 DEF IndInv

LEMMA NotifySendInv ==
  ASSUME IndInv, NEW j, NotifySend(j)
  PROVE  IndInv'
<1>0. j \in Jobs /\ j.key \in Key /\ j.val \in 0..MaxVer
  BY PendingJob DEF IndInv, NotifySend
<1>1. IsABag(jobs') /\ BagToSet(jobs') \subseteq Jobs
  BY <1>0, SetToBagType, BagRemove DEF IndInv, TypeOK, NotifySend, BagToSet
<1>2. waiting' \in [Thread -> {None} \cup Fingerprint]
  BY DEF IndInv, TypeOK, NotifySend
<1>3. last' \in [Thread -> [Key -> 0..MaxVer]]
  BY <1>0 DEF IndInv, TypeOK, NotifySend
<1>4. seen' \in [Thread -> [Key -> 0..MaxVer]]
  BY <1>0 DEF IndInv, TypeOK, NotifySend
<1>5. TypeOK'
  BY <1>1, <1>2, <1>3, <1>4 DEF IndInv, TypeOK, NotifySend, maps
<1>6. SubscriptionReachable'
  BY DEF IndInv, SubscriptionReachable, NotifySend, maps
<1> QED BY <1>5, <1>6 DEF IndInv

LEMMA NextInv == IndInv /\ [Next]_vars => IndInv'
<1> SUFFICES ASSUME IndInv, [Next]_vars PROVE IndInv'
  OBVIOUS
<1>1. CASE UNCHANGED vars
  <2>1. TypeOK' BY <1>1 DEF IndInv, TypeOK, vars, maps, client
  <2>2. SubscriptionReachable' BY <1>1 DEF IndInv, SubscriptionReachable, vars, maps
  <2> QED BY <2>1, <2>2 DEF IndInv
<1>2. CASE Next
  BY <1>2, HANDSHAKEInv, RequestInv, RespondInv, DisconnectInv, HandleWatchInv, NotifyRunInv,
     NotifySendInv DEF Next
<1> QED BY <1>1, <1>2

-----------------------------------------------------------------------------
(* Theorems *)

\* The watch manager and its connections keep their shape.
THEOREM WatchTypeCorrect == Spec => []TypeOK
<1>1. IndInv => TypeOK
  BY DEF IndInv
<1> QED BY <1>1, InitInv, NextInv, PTL DEF Spec

\* Every subscription can be served, whatever connections share a client id
\* and however requests, goroutines and disconnections interleave: the bug
\* NotifyWatchers guards against, a fingerprint without a command, never
\* happens, and a subscribed client always has a thread.
THEOREM SubscribersReachable == Spec => []SubscriptionReachable
<1>1. IndInv => SubscriptionReachable
  BY DEF IndInv
<1> QED BY <1>1, InitInv, NextInv, PTL DEF Spec

=============================================================================
