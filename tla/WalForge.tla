------------------------------ MODULE WalForge ------------------------------
(***************************************************************************)
(* The write-ahead log (internal/wal), across crashes, shutdowns and       *)
(* restarts of the server that writes it and replays it.                   *)
(*                                                                         *)
(* A segment file is a sequence of units.  An entry is two units, its head *)
(* (checksum and size) and its body, so that a buffer that spills over in  *)
(* the middle of an entry leaves a torn one.  Entries are numbered in the  *)
(* order LogCommand took them; the number stands for the command.          *)
(*                                                                         *)
(* What reached the file with a flush survives a crash of the process; the *)
(* loss of unsynced pages with the machine is left out, and so are failing *)
(* disks.                                                                  *)
(***************************************************************************)
EXTENDS Integers, Sequences, FiniteSets, FiniteSetsExt

CONSTANTS
  MaxSegmentSize,  \* wal-max-segment-size-mb, in units
  FirstBuffer,     \* wal-buffer-size-mb, in units: the buffer Init makes
  LaterBuffer,     \* the default size of bufio: the buffer rotateLog makes
  TimeRotation,    \* whether wal-rotation-mode is "time"
  MaxLog,          \* bound: entries ever logged
  MaxSeg,          \* bound: index of the last segment
  MaxRuns          \* bound: times the server is started

EntrySize == 2

ASSUME SizeAssumption ==
  /\ MaxSegmentSize \in Nat /\ MaxSegmentSize >= EntrySize
  /\ FirstBuffer \in Nat /\ FirstBuffer >= EntrySize
  /\ LaterBuffer \in Nat /\ LaterBuffer >= EntrySize
  /\ TimeRotation \in BOOLEAN
ASSUME BoundAssumption ==
  /\ MaxLog \in Nat /\ MaxRuns \in Nat
  /\ MaxSeg \in 0..99   \* SegmentKey compares names of at most two digits

VARIABLES
  files,     \* [0..MaxSeg -> Seq(units)]: what the segment files hold
  buf,       \* the units in csWriter
  csIdx,     \* index of the current segment
  csSize,    \* units written to it since it was opened
  state,     \* "up", "crashed" or "stopped"
  run,       \* how many times the server was started
  logged,    \* for each entry, the run that logged it and its kind
  restored   \* the entries the last start replayed, in that order

vars == <<files, buf, csIdx, csSize, state, run, logged, restored>>

-----------------------------------------------------------------------------
(* Segment files *)

Segment == 0..MaxSeg

HeadOf(id) == <<id, "head">>

BodyOf(id) == <<id, "body">>

Complete(f, id) == \E i \in 1..Len(f) - 1 : f[i] = HeadOf(id) /\ f[i + 1] = BodyOf(id)

OnDisk(id) == \E s \in Segment : Complete(files[s], id)

\* Mutant: the current segment is listed again at the end.
segments_Twice == [i \in 1..MaxSeg + 1 |-> IF i = MaxSeg + 1 THEN 0 ELSE i - 1]

\* filepath.Glob returns the names in lexical order, "seg-10.wal" before
\* "seg-2.wal"; the comparison segments() then sorts with is never true.
SegmentKey(s) == IF s < 10 THEN 11 * s ELSE 11 * (s \div 10) + 1 + (s % 10)

segments ==
  [i \in 1..MaxSeg + 1 |->
     CHOOSE s \in Segment :
       Cardinality({u \in Segment : SegmentKey(u) < SegmentKey(s)}) = i - 1]

-----------------------------------------------------------------------------
(* The current segment's writer *)

BufferSize == IF csIdx = 0 THEN FirstBuffer ELSE LaterBuffer

\* Mutant: an entry that does not fit goes to the file ahead of the buffer.
Write_Bypasses(f, s, b, size, id) ==
  LET e == <<HeadOf(id), BodyOf(id)>>
  IN  IF Len(b \o e) > size
      THEN [files |-> [f EXCEPT ![s] = @ \o e], buf |-> b]
      ELSE [files |-> f, buf |-> b \o e]

\* bufio.Writer.Write of one entry to segment s: a buffer that cannot take all
\* of it is filled and flushed.
Write(f, s, b, size, id) ==
  LET all == b \o <<HeadOf(id), BodyOf(id)>>
      out == IF Len(all) > size THEN size ELSE 0
  IN  [files |-> [f EXCEPT ![s] = @ \o SubSeq(all, 1, out)],
       buf   |-> SubSeq(all, out + 1, Len(all))]

\* Mutant: the buffer is dropped, not flushed.
sync_Drops == files

\* csWriter.Flush and csf.Sync.
sync == [files EXCEPT ![csIdx] = @ \o buf]

-----------------------------------------------------------------------------
(* Replay *)

\* The j-th entry of a file is well formed when a body follows its head:
\* anything else fails its checksum.
WellFormed(f, j) == f[2 * j - 1][2] = "head" /\ f[2 * j] = BodyOf(f[2 * j - 1][1])

\* How many entries of f are read before the first that is torn.
Readable(f) == Max({n \in 0..Len(f) \div 2 : \A j \in 1..n : WellFormed(f, j)})

\* How many of them are replayed before the first the callback refuses.
Accepted(f, refused) ==
  Max({n \in 0..Readable(f) : \A j \in 1..n : f[2 * j - 1][1] \notin refused})

\* Mutant: an error skips the rest of its segment only.
Replay_Continues(refused) ==
  LET upTo[n \in 0..MaxSeg + 1] ==
        IF n = 0 THEN <<>>
        ELSE LET f == files[segments[n]]
             IN  upTo[n - 1] \o [j \in 1..Accepted(f, refused) |-> f[2 * j - 1][1]]
  IN  upTo[MaxSeg + 1]

\* The entries replayed from the first n segments; an error ends the replay.
Replay(refused) ==
  LET upTo[n \in 0..MaxSeg + 1] ==
        IF n = 0 THEN [ids |-> <<>>, ok |-> TRUE]
        ELSE LET prev == upTo[n - 1]
                 f    == files[segments[n]]
                 m    == Accepted(f, refused)
             IN  IF ~prev.ok THEN prev
                 ELSE [ids |-> prev.ids \o [j \in 1..m |-> f[2 * j - 1][1]],
                       ok  |-> 2 * m = Len(f)]
  IN  upTo[MaxSeg + 1].ids

-----------------------------------------------------------------------------
(* Actions *)

\* The server starts with an empty directory.
Init ==
  /\ files = [s \in Segment |-> <<>>]
  /\ buf = <<>> /\ csIdx = 0 /\ csSize = 0
  /\ state = "up" /\ run = 1
  /\ logged = <<>> /\ restored = <<>>

\* Mutant: the size of the entry itself is not counted.
rotateLogIfNeeded_Late == csSize > MaxSegmentSize

rotateLogIfNeeded == csSize + EntrySize > MaxSegmentSize

\* A command whose outcome depends on the clock (SET with EXAT or PXAT) is
\* "timed": it can be refused when it is replayed.
LogCommand(kind) ==
  LET id     == Len(logged) + 1
      rotate == rotateLogIfNeeded
      next   == IF rotate THEN csIdx + 1 ELSE csIdx
      w      == Write(IF rotate THEN sync ELSE files, next, IF rotate THEN <<>> ELSE buf,
                      IF rotate THEN LaterBuffer ELSE BufferSize, id)
  IN  /\ state = "up" /\ id <= MaxLog /\ next <= MaxSeg
      /\ files' = w.files /\ buf' = w.buf
      /\ csIdx' = next
      /\ csSize' = IF rotate THEN EntrySize ELSE csSize + EntrySize
      /\ logged' = Append(logged, [run |-> run, kind |-> kind])
      /\ UNCHANGED <<state, run, restored>>

\* Mutant: the ticker waits for the buffer to fill up.
periodicSyncBuffer_WhenFull ==
  /\ state = "up" /\ Len(buf) = BufferSize
  /\ files' = sync /\ buf' = <<>>
  /\ UNCHANGED <<csIdx, csSize, state, run, logged, restored>>

periodicSyncBuffer ==
  /\ state = "up"
  /\ files' = sync /\ buf' = <<>>
  /\ UNCHANGED <<csIdx, csSize, state, run, logged, restored>>

periodicRotateSegment ==
  /\ state = "up" /\ TimeRotation /\ csIdx < MaxSeg
  /\ files' = sync /\ buf' = <<>>
  /\ csIdx' = csIdx + 1 /\ csSize' = 0
  /\ UNCHANGED <<state, run, logged, restored>>

\* The process ends, and its buffer with it: killed, or shut down through
\* TeardownWAL, which closes a channel nobody reads and calls no Stop.
End(how) ==
  /\ state = "up"
  /\ state' = how /\ buf' = <<>>
  /\ UNCHANGED <<files, csIdx, csSize, run, logged, restored>>

Crash == End("crashed")

TeardownWAL == End("stopped")

\* SetupWAL reopens segment 0 whatever the last index was; then the server
\* replays every segment before it serves.  Some timed commands are refused.
Restart ==
  /\ state # "up" /\ run < MaxRuns
  /\ state' = "up" /\ run' = run + 1
  /\ buf' = <<>> /\ csIdx' = 0 /\ csSize' = 0
  /\ \E refused \in SUBSET {i \in DOMAIN logged : logged[i].kind = "timed"} :
       restored' = Replay(refused)
  /\ UNCHANGED <<files, logged>>

Next ==
  \/ \E kind \in {"plain", "timed"} : LogCommand(kind)
  \/ periodicSyncBuffer
  \/ periodicRotateSegment
  \/ Crash
  \/ TeardownWAL
  \/ Restart

Spec == Init /\ [][Next]_vars

\* The sync ticker of a running server keeps firing.
FairSpec == Spec /\ WF_vars(periodicSyncBuffer)

-----------------------------------------------------------------------------
(* Properties *)

Unit == (1..MaxLog) \X {"head", "body"}

TypeOK ==
  /\ files \in [Segment -> Seq(Unit)]
  /\ buf \in Seq(Unit) /\ Len(buf) <= BufferSize
  /\ csIdx \in Segment /\ csSize \in 0..MaxSegmentSize
  /\ state \in {"up", "crashed", "stopped"}
  /\ run \in Nat
  /\ logged \in Seq([run : 1..run, kind : {"plain", "timed"}])
  /\ restored \in Seq(1..MaxLog)

\* Losses are suffixes: an entry on disk is there with every entry the same
\* run logged before it, however the buffer spilled over and the segments
\* rotated.
NoHoleInARun ==
  \A i, j \in DOMAIN logged :
    i < j /\ logged[i].run = logged[j].run /\ OnDisk(j) => OnDisk(i)

\* Every segment file holds its entries in the order they were logged, after
\* any number of restarts that append to it again.
SegmentsInOrder ==
  \A s \in Segment : \A i, j \in DOMAIN files[s] :
    i < j => files[s][i][1] <= files[s][j][1]

\* No entry is replayed twice.
ReplayedOnce == \A i, j \in DOMAIN restored : i # j => restored[i] # restored[j]

\* The first restart recovers a prefix of what the first run logged, torn
\* entries and refused commands included (up to ten segments).
FirstRecoveryIsPrefix ==
  run = 2 /\ MaxSeg < 10 => \A i \in DOMAIN restored : restored[i] = i

\* Logged by the server that is running, and not on disk yet.
Pending(id) ==
  id \in DOMAIN logged /\ state = "up" /\ logged[id].run = run /\ ~OnDisk(id)

\* An entry reaches the disk unless its run ends first.
Durable == \A id \in 1..MaxLog : Pending(id) ~> ~Pending(id)

-----------------------------------------------------------------------------
(* What the comments say of the log *)

\* wal_forge.go: replay processes the segment files in ascending order.
ReplayInLogOrder == \A i, j \in DOMAIN restored : i < j => restored[i] < restored[j]

=============================================================================
