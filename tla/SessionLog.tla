----------------------------- MODULE SessionLog -----------------------------
(***************************************************************************)
(* The durable per-session event log (runtime/lib/session-log.js): appends *)
(* through one write queue, size-based rotation to a single old file, the  *)
(* in-memory ring, meta.json that lags the files, write failures, and      *)
(* recovery after a crash of the gateway process.                          *)
(*                                                                         *)
(* An event is its seq and an id the model adds, so that two events with   *)
(* the same seq can be told apart.  A line of a file is an event in one of *)
(* three forms: "whole" (parses), "torn" (the start of a line, no newline) *)
(* or "merged" (a later line written behind a torn one: does not parse, but *)
(* its prefix shows the torn line's seq).  Every event has one byte, so    *)
(* sizes are counts of lines.                                              *)
(*                                                                         *)
(* A crash is that of the process: what the kernel accepted stays.         *)
(***************************************************************************)
EXTENDS Integers, Sequences, Sublists

CONSTANTS
    RingMax,      \* RING
    RotateSize,   \* rotateBytes, in lines
    WriteFaults,  \* how the file system may fail: a subset of {"clean", "partial", "rename"}
    MaxEvents,    \* bound on append calls
    MaxCrashes,   \* bound on crashes
    MaxFaults     \* bound on failed writes

ASSUME LogAssumption ==
    /\ RingMax \in Nat \ {0}
    /\ RotateSize \in Nat \ {0}
    /\ WriteFaults \subseteq {"clean", "partial", "rename"}
    /\ MaxEvents \in Nat /\ MaxCrashes \in Nat /\ MaxFaults \in Nat

VARIABLES
    \* --- memory of the open instance
    up,           \* the log is open
    lastSeq,      \* last seq handed out
    writtenSeq,   \* last seq on disk
    firstSeq,     \* oldest seq still kept on disk
    ring,         \* the newest events, newest last
    size,         \* this.bytes: size of the current file
    queue,        \* the write queue: appended events and whether they sync
    step,         \* where the task at the head of the queue is
    \* --- disk
    file,         \* events.ndjson (<<>> also when missing)
    oldFile,      \* events.1.ndjson
    meta,         \* meta.json
    \* --- history and bounds
    issued,       \* append calls so far: the ids
    acked,        \* events whose append resolved
    crashes, faults

memVars == <<up, lastSeq, writtenSeq, firstSeq, ring, size, queue, step>>
diskVars == <<file, oldFile, meta>>
logVars == <<memVars, diskVars, issued, acked, crashes, faults>>

Event == [seq : Nat, id : Nat]
Line == [seq : Nat, id : Nat, form : {"whole", "torn", "merged"}]
Task == [seq : Nat, id : Nat, sync : BOOLEAN]

TypeOK ==
    /\ up \in BOOLEAN
    /\ lastSeq \in Nat /\ writtenSeq \in Nat /\ firstSeq \in Nat /\ size \in Nat
    /\ ring \in Seq(Event)
    /\ queue \in Seq(Task)
    /\ step \in {"start", "rotated", "write", "meta"}
    /\ file \in Seq(Line) /\ oldFile \in Seq(Line)
    /\ meta \in [lastSeq : Nat, firstSeq : Nat]
    /\ issued \in Nat /\ crashes \in Nat /\ faults \in Nat
    /\ acked \subseteq Event

\* A new session: open() has made the directory and written meta.json.
LogInit ==
    /\ up = TRUE
    /\ lastSeq = 0 /\ writtenSeq = 0 /\ firstSeq = 1 /\ size = 0
    /\ ring = <<>> /\ queue = <<>> /\ step = "start"
    /\ file = <<>> /\ oldFile = <<>>
    /\ meta = [lastSeq |-> 0, firstSeq |-> 1]
    /\ issued = 0 /\ acked = {} /\ crashes = 0 /\ faults = 0

-----------------------------------------------------------------------------
\* Files

\* Writing a line: behind a torn line it becomes part of that line.
Written(f, t, form) ==
    LET n == Len(f) IN
    IF n > 0 /\ f[n].form = "torn"
    THEN [f EXCEPT ![n].form = IF form = "torn" THEN "torn" ELSE "merged"]
    ELSE Append(f, [seq |-> t.seq, id |-> t.id, form |-> form])

\* inspectFile: only lines ended by a newline count.
Complete(f) == IF Len(f) > 0 /\ f[Len(f)].form = "torn" THEN SubSeq(f, 1, Len(f) - 1) ELSE f

\* A slip: the torn tail is left in place.
RepairedNot(f) == f

\* inspectFile with repair: the torn tail is cut away.
Repaired(f) == Complete(f)

LastSeqOf(f) == LET g == Complete(f) IN IF g = <<>> THEN 0 ELSE g[Len(g)].seq

\* The first seq of a file, or the default when there is none.
FirstSeqOf(f, default) == LET g == Complete(f) IN IF g = <<>> THEN default ELSE g[1].seq

-----------------------------------------------------------------------------
\* append and the write queue

\* #remember: the ring keeps the newest RingMax events.
Remember(e) ==
    LET all == Append(ring, e)
        n == Len(all)
    IN IF n > RingMax THEN SubSeq(all, n - RingMax + 1, n) ELSE all

\* #forget
Forget(t) == Sublist(ring, {i \in DOMAIN ring : ring[i].id # t.id})

\* append up to its return: seq handed out, event in the ring, write queued.
AppendEvent(sync) ==
    /\ up /\ issued < MaxEvents
    /\ issued' = issued + 1
    /\ lastSeq' = lastSeq + 1
    /\ ring' = Remember([seq |-> lastSeq + 1, id |-> issued + 1])
    /\ queue' = Append(queue, [seq |-> lastSeq + 1, id |-> issued + 1, sync |-> sync])
    /\ UNCHANGED <<up, writtenSeq, firstSeq, size, step, diskVars, acked, crashes, faults>>

\* The queued task rotates first when its line would not fit.
MustRotate == size > 0 /\ size + 1 > RotateSize

AtWrite == up /\ queue # <<>> /\ (step = "write" \/ (step = "start" /\ ~MustRotate))

Ack(t) == acked' = acked \cup {[seq |-> t.seq, id |-> t.id]}
NextTask == queue' = Tail(queue) /\ step' = "start"

\* #rotate: the current file replaces the old one; a rename that fails is
\* swallowed, and the current file goes on growing.
Rotate ==
    /\ up /\ queue # <<>> /\ step = "start" /\ MustRotate
    /\ \/ oldFile' = file /\ file' = <<>> /\ UNCHANGED faults
       \/ /\ "rename" \in WriteFaults /\ faults < MaxFaults
          /\ faults' = faults + 1
          /\ UNCHANGED <<file, oldFile>>
    /\ size' = 0
    /\ firstSeq' = FirstSeqOf(oldFile', writtenSeq + 1)
    /\ step' = "rotated"
    /\ UNCHANGED <<up, lastSeq, writtenSeq, ring, queue, meta, issued, acked, crashes>>

\* #writeMetaNow: the counters as they are when it runs.
MetaNow == [lastSeq |-> lastSeq, firstSeq |-> firstSeq]

RotateMeta ==
    /\ up /\ step = "rotated"
    /\ meta' = MetaNow
    /\ step' = "write"
    /\ UNCHANGED <<up, lastSeq, writtenSeq, firstSeq, ring, size, queue, file,
                   oldFile, issued, acked, crashes, faults>>

\* The line is written (and synced); a synced append also saves meta.json.
Write ==
    LET t == Head(queue) IN
    /\ AtWrite
    /\ file' = Written(file, t, "whole")
    /\ size' = size + 1
    /\ writtenSeq' = t.seq
    /\ IF t.sync THEN step' = "meta" /\ UNCHANGED <<queue, acked>>
                 ELSE NextTask /\ Ack(t)
    /\ UNCHANGED <<up, lastSeq, firstSeq, ring, oldFile, meta, issued, crashes, faults>>

SyncMeta ==
    /\ up /\ step = "meta"
    /\ meta' = MetaNow
    /\ NextTask /\ Ack(Head(queue))
    /\ UNCHANGED <<up, lastSeq, writtenSeq, firstSeq, ring, size, file, oldFile,
                   issued, crashes, faults>>

\* The append fails: before its line is written, with part of it written, or
\* (the line is on disk, only meta.json is not) without being forgotten.
Fault ==
    /\ faults < MaxFaults
    /\ faults' = faults + 1
    /\ \/ /\ AtWrite \/ (up /\ step = "rotated")
          /\ "clean" \in WriteFaults
          /\ ring' = Forget(Head(queue))
          /\ UNCHANGED file
       \/ /\ AtWrite /\ "partial" \in WriteFaults
          /\ ring' = Forget(Head(queue))
          /\ file' = Written(file, Head(queue), "torn")
       \/ /\ up /\ step = "meta"
          /\ UNCHANGED <<ring, file>>
    /\ NextTask
    /\ UNCHANGED <<up, lastSeq, writtenSeq, firstSeq, size, oldFile, meta,
                   issued, acked, crashes>>

-----------------------------------------------------------------------------
\* Crash and open

\* The process dies, perhaps in the middle of a write.  (An eviction by the
\* broker is a crash with an empty queue.)
Crash ==
    /\ up /\ crashes < MaxCrashes
    /\ crashes' = crashes + 1
    /\ up' = FALSE
    /\ file' \in {file} \cup
         (IF AtWrite THEN {Written(file, Head(queue), form) : form \in {"torn", "whole"}} ELSE {})
    /\ ring' = <<>> /\ queue' = <<>> /\ step' = "start"
    /\ UNCHANGED <<lastSeq, writtenSeq, firstSeq, size, oldFile, meta, issued, acked, faults>>

\* A slip: only the current file is asked.
OnDiskCurrentOnly == LastSeqOf(file)

\* #recover's onDisk.
OnDisk == IF LastSeqOf(file) # 0 THEN LastSeqOf(file) ELSE LastSeqOf(oldFile)

\* open() and #recover: the higher of meta.json and the files; the counters of
\* the dead instance are not read.
Open ==
    LET last == IF OnDisk > meta.lastSeq THEN OnDisk ELSE meta.lastSeq
        first == FirstSeqOf(oldFile, FirstSeqOf(file, last + 1))
    IN
    /\ ~up
    /\ up' = TRUE
    /\ file' = Repaired(file)
    /\ size' = Len(Complete(file))
    /\ lastSeq' = last /\ writtenSeq' = last /\ firstSeq' = first
    /\ meta' = IF OnDisk > meta.lastSeq THEN [lastSeq |-> last, firstSeq |-> first] ELSE meta
    /\ UNCHANGED <<ring, queue, step, oldFile, issued, acked, crashes, faults>>

Done == up /\ queue = <<>> /\ issued = MaxEvents /\ UNCHANGED logVars

LogNext ==
    \/ \E sync \in BOOLEAN : AppendEvent(sync)
    \/ Rotate \/ RotateMeta \/ Write \/ SyncMeta \/ Fault
    \/ Crash \/ Open
    \/ Done

LogSpec == LogInit /\ [][LogNext]_logVars

-----------------------------------------------------------------------------
\* replay

EventOf(l) == [seq |-> l.seq, id |-> l.id]
Events(s) == [i \in DOMAIN s |-> EventOf(s[i])]

\* #streamHandle over the rotated file, then the current one.
Streamed(after) ==
    LET all == oldFile \o file IN
    Events(Sublist(all, {i \in DOMAIN all : /\ all[i].form = "whole"
                                            /\ all[i].seq > after /\ all[i].seq <= writtenSeq}))

\* #snapshot's ring: nothing rotation dropped, nothing not yet written.
SnapRing == Sublist(ring, {i \in DOMAIN ring : ring[i].seq >= firstSeq /\ ring[i].seq <= writtenSeq})

\* A slip: the ring is served whenever it holds something.
RingCoversAny(after) == SnapRing # <<>>

RingCovers(after) == SnapRing # <<>> /\ SnapRing[1].seq <= after + 1

\* What of a snapshot of the ring is newer than the client's last event.
Newer(snap, after) == Sublist(snap, {i \in DOMAIN snap : snap[i].seq > after})

\* What replay(after) sends, when its snapshot task runs in the queue now.
Replay(after) ==
    IF after >= writtenSeq THEN <<>>
    ELSE IF RingCovers(after) THEN Newer(SnapRing, after)
    ELSE Streamed(after)

ReplayTruncated(after) == after + 1 < firstSeq /\ after < writtenSeq

\* Between two tasks of the queue, where a snapshot may run.
BetweenTasks == up /\ step = "start"

-----------------------------------------------------------------------------
\* Properties

\* No seq is used for two acknowledged events, across rotations, failed writes
\* and crashes ("a reused seq makes a client's dedup drop a new event").
NoSeqReuse == \A e, f \in acked : e.seq = f.seq => e.id = f.id

\* The files hold strictly increasing seqs, rotated file first: what replay's
\* early `break` and first-line lookups rely on.
FilesOrdered ==
    LET all == oldFile \o file IN
    \A i \in 1..(Len(all) - 1) : all[i].seq < all[i + 1].seq

\* A replay served from the ring sends exactly what the files would
\* ("the ring mirrors the files").
RingMirrorsFiles ==
    BetweenTasks => \A after \in 0..lastSeq :
        after < writtenSeq => Replay(after) = Streamed(after)

\* Every acknowledged event after `after` is replayed, or it was dropped by
\* rotation and the replay says that it is truncated.
NothingLostSilently ==
    BetweenTasks => \A e \in acked : \A after \in 0..(e.seq - 1) :
        \/ \E i \in DOMAIN Replay(after) : Replay(after)[i] = e
        \/ e.seq < firstSeq /\ ReplayTruncated(after)

\* Seqs name events, across rotations, failures and crashes, and the files are in
\* their order.
SeqsHold == NoSeqReuse /\ FilesOrdered

\* A replay misses nothing silently, and it does not matter where it reads from.
ReplaysHold == RingMirrorsFiles /\ NothingLostSilently
=============================================================================
