---------------------------- MODULE FileCaptures ----------------------------
(***************************************************************************)
(* The protected store (runtime/lib/file-captures.js), with the            *)
(* preparation of workbooks and maps (file-workbooks.js, file-gis.js).     *)
(*                                                                         *)
(* A source is an immutable private file, its metadata and the lease,      *)
(* holds and readers that keep it.  Bytes are staged under a private name, *)
(* journalled as "publishing", renamed, and committed in one transaction.  *)
(* The retention lock covers a publication and a sweep; what is not under  *)
(* it (cancellation, the end of a reader, of a lease or of a job, a crash) *)
(* may fall between their steps.  An index is derived from captures and is *)
(* kept and evicted with them.                                             *)
(*                                                                         *)
(* Every source has size 1.  A request record and its job are one record.  *)
(* A lease does not end during the admission that created it: it lasts     *)
(* minutes.  Draining only refuses admissions and cancels: both may happen *)
(* at any time here.  Voxel reservations are in module Voxels.             *)
(***************************************************************************)
EXTENDS Naturals, Sequences, FiniteSets

CONSTANTS
    Captures, Indexes,
    CaptureQueue,       \* limits.queueSize
    RetainedMax,        \* limits.retainedBytes
    ReadByClients,      \* bound: what the one client reader may open
    MaxCapFaults, MaxCapCrashes

ASSUME CapturesAssumption ==
    /\ IsFiniteSet(Captures) /\ IsFiniteSet(Indexes) /\ Captures \cap Indexes = {}
    /\ {"none", "sweep", "client", "initial"} \cap (Captures \cup Indexes) = {}
    /\ RetainedMax \in Nat

VARIABLES
    part, blob,         \* sources with a staging file, with a protected file
    rec, pub,           \* metadata record; publication journal
    lease, holds,       \* a live lease; the holds: "initial", "client" or a job's id
    digest,             \* digests that are ready or pending
    inputs, reserved,   \* captures of an index; indexes with a reservation
    origin, target,     \* what created the id; the capture a job hashes
    job, doubt,         \* durable job; ids whose error says indeterminate
    at, queue, running, aborted, active, reading, retention, evict,
    phase, unres, capFaults, capCrashes

bytes == <<part, blob>>
meta == <<rec, pub, lease, holds, digest, inputs, reserved>>
jobs == <<origin, target, job, doubt>>
tasks == <<at, queue, running, aborted, active>>
store == <<reading, retention, evict, phase, unres>>
capBudget == <<capFaults, capCrashes>>
capVars == <<bytes, meta, jobs, tasks, store, capBudget>>

Sources == Captures \cup Indexes
Null == "none"
Unresolved == {"publishing", "indeterminate"}
Terminal == {"succeeded", "failed", "cancelled", "interrupted"}

CapturesInit ==
    /\ part = {} /\ blob = {} /\ reserved = {} /\ lease = {} /\ doubt = {}
    /\ rec = [s \in Sources |-> Null] /\ pub = [s \in Sources |-> Null]
    /\ holds = [s \in Sources |-> {}] /\ digest = [c \in Captures |-> Null]
    /\ inputs = [x \in Indexes |-> {}]
    /\ origin = [s \in Sources |-> Null] /\ target = [s \in Sources |-> Null]
    /\ job = [s \in Sources |-> Null] /\ at = [s \in Sources |-> Null]
    /\ queue = <<>> /\ running = Null /\ aborted = {} /\ active = {} /\ reading = {}
    /\ retention = Null /\ evict = {}
    /\ phase = "up" /\ unres = {} /\ capFaults = 0 /\ capCrashes = 0

Set(f, s, v) == [f EXCEPT ![s] = v]
Go(s, where) == at' = Set(at, s, where)
Fault == capFaults < MaxCapFaults /\ capFaults' = capFaults + 1 /\ UNCHANGED capCrashes
Free == phase = "up" /\ retention = Null
Admitting == \E c \in Captures : at[c] \in {"claimed", "leased"}      \* admissionTail

\* record(): confirmed metadata, not evicted, publication resolved.
Usable(s) == rec[s] = "live" /\ pub[s] \notin Unresolved /\ s \in blob

\* A slip: only confirmed records count.
UsageOfRecords == Cardinality({s \in Sources : rec[s] \in {"live", "evicting"}})

\* retainedUsage: records not cleaned up, unresolved publications, reservations.
Usage == Cardinality({s \in Sources : \/ rec[s] \in {"live", "evicting"}
                                      \/ pub[s] \in Unresolved
                                      \/ s \in reserved})

-----------------------------------------------------------------------------
\* Admission

Claim(c) ==
    /\ phase = "up" /\ job[c] = Null /\ ~Admitting
    /\ Len(queue) < CaptureQueue
    /\ origin' = Set(origin, c, "capture") /\ job' = Set(job, c, "accepted") /\ Go(c, "claimed")
    /\ UNCHANGED <<bytes, meta, target, doubt, queue, running, aborted, active, store, capBudget>>

\* The source cannot be opened or no longer has the requested observation.
RefuseCapture(c) ==
    /\ at[c] = "claimed" /\ job' = Set(job, c, "failed") /\ Go(c, Null)
    /\ UNCHANGED <<bytes, meta, origin, target, doubt, queue, running, aborted, active, store, capBudget>>

\* reusable: a source the service published itself is leased again.
ReuseSource(c, d) ==
    /\ at[c] = "claimed" /\ Free /\ Usable(d) /\ origin[d] = "retain"
    /\ lease' = lease \cup {d}
    /\ \/ job' = Set(job, c, "succeeded") /\ Go(c, Null) /\ UNCHANGED target
       \/ digest[d] # "ready" /\ Go(c, "leased") /\ target' = Set(target, c, d) /\ UNCHANGED job
    /\ UNCHANGED <<bytes, rec, pub, holds, digest, inputs, reserved, origin, doubt, queue, running,
                   aborted, active, store, capBudget>>

Enqueue(c) == job' = Set(job, c, "queued") /\ queue' = Append(queue, c) /\ Go(c, "queued")

\* One transaction: job, its hold, and the record as `reusable` read it.
QueueHash(c) ==
    /\ at[c] = "leased" /\ Enqueue(c)
    /\ holds' = [holds EXCEPT ![target[c]] = @ \cup {c}]
    /\ digest' = Set(digest, target[c], "pending") /\ rec' = Set(rec, target[c], "live")
    /\ UNCHANGED <<bytes, pub, lease, inputs, reserved, origin, target, doubt, running, aborted,
                   active, store, capBudget>>

QueueCapture(c) ==
    /\ at[c] = "claimed" /\ Enqueue(c)
    /\ UNCHANGED <<bytes, meta, origin, target, doubt, running, aborted, active, store, capBudget>>

\* retainStaged: bytes an upload, an import or a producer already has.
RetainStaged(c) ==
    /\ phase = "up" /\ ~Admitting /\ job[c] = Null /\ Len(queue) < CaptureQueue
    /\ origin' = Set(origin, c, "retain") /\ Enqueue(c)
    /\ UNCHANGED <<bytes, meta, target, doubt, running, aborted, active, store, capBudget>>

\* A first preview stages its fragment at once; one window is active.
Preview(c) ==
    /\ phase = "up" /\ job[c] = Null
    /\ ~\E d \in Captures : origin[d] = "preview" /\ at[d] # Null
    /\ origin' = Set(origin, c, "preview") /\ job' = Set(job, c, "running") /\ Go(c, "copying")
    /\ UNCHANGED <<bytes, meta, target, doubt, queue, running, aborted, active, store, capBudget>>

\* reserveIndex: reservation, job and a hold on every input, in one transaction.
ReserveIndex(x, D) ==
    /\ Free /\ job[x] = Null /\ \A y \in Indexes : at[y] = Null      \* acquireNative
    /\ D # {} /\ \A c \in D : Usable(c) /\ origin[c] # "preview"
    /\ Usage < RetainedMax
    /\ inputs' = Set(inputs, x, D) /\ reserved' = reserved \cup {x}
    /\ holds' = [s \in Sources |-> IF s \in D THEN holds[s] \cup {x} ELSE holds[s]]
    /\ job' = Set(job, x, "queued") /\ Go(x, "copying")
    /\ UNCHANGED <<bytes, rec, pub, lease, digest, target, doubt, queue, running, aborted, active,
                   store, capBudget>>
PrepareWorkbook(x) ==
    \E c \in Captures : ReserveIndex(x, {c}) /\ origin' = Set(origin, x, "workbook")
\* A map of one capture goes the way of a workbook.
PrepareMap(x) ==
    \E D \in SUBSET Captures : Cardinality(D) > 1 /\ ReserveIndex(x, D) /\ origin' = Set(origin, x, "map")

-----------------------------------------------------------------------------
\* A task

StartTask(c) ==
    /\ phase = "up" /\ running = Null /\ queue # <<>> /\ c = Head(queue)
    /\ running' = c /\ queue' = Tail(queue)
    /\ IF c \in aborted THEN Go(c, "failing") /\ UNCHANGED job
       ELSE /\ Go(c, IF target[c] = Null THEN "copying" ELSE "hashing")
            /\ job' = Set(job, c, "running")
    /\ UNCHANGED <<bytes, meta, origin, target, doubt, aborted, active, store, capBudget>>

\* Bytes into a private file, or nothing: cancelled, unreadable, or changed meanwhile.
StageBytes(s) ==
    \/ /\ s \notin aborted /\ Go(s, "staged")
       /\ part' = part \cup {s} /\ active' = active \cup {s}
    \/ Go(s, "failing") /\ UNCHANGED <<part, active>>
CopyOf(s, from) ==
    /\ at[s] = "copying" /\ origin[s] = from
    /\ UNCHANGED <<blob, meta, jobs, queue, running, aborted, retention, evict, phase, unres, capBudget>>

CaptureTask(c) == CopyOf(c, "capture") /\ StageBytes(c) /\ UNCHANGED reading
Retain(c) == CopyOf(c, "retain") /\ StageBytes(c) /\ UNCHANGED reading
PreviewRequest(c) == CopyOf(c, "preview") /\ StageBytes(c) /\ UNCHANGED reading

\* A preparation reads every input while its reader writes the index.
OpenInputs(x) == /\ Free /\ \A c \in inputs[x] : Usable(c)
                 /\ reading' = reading \cup {<<x, c>> : c \in inputs[x]}
RunWorkbook(x) == CopyOf(x, "workbook") /\ OpenInputs(x) /\ StageBytes(x)
RunMap(x) == CopyOf(x, "map") /\ OpenInputs(x) /\ StageBytes(x)

\* cleanup(stage) before the journal was attempted.
Discard(s) ==
    /\ part' = part \ {s} /\ active' = active \ {s} /\ Go(s, "failing")
    /\ UNCHANGED <<blob, pub, doubt, retention>>

\* A slip: the caller is not told that the bytes may have been retained.
DoubtSilently(s) == retention' = Null /\ active' = active \ {s} /\ Go(s, "failing") /\ UNCHANGED doubt

\* Once the journal was attempted the stage is preserved and the error says so.
Doubt(s) ==
    retention' = Null /\ active' = active \ {s} /\ Go(s, "failing") /\ doubt' = doubt \cup {s}

\* publish, up to the journal: under retention until the publication ends.
Journal(s) ==
    /\ at[s] = "staged" /\ Free
    /\ \/ /\ s \notin aborted /\ (s \in Indexes => \A c \in inputs[s] : Usable(c))
          /\ Usage - (IF s \in reserved THEN 1 ELSE 0) < RetainedMax
          /\ \/ /\ pub' = Set(pub, s, "publishing") /\ Go(s, "journalled") /\ retention' = s
                /\ UNCHANGED <<part, active, doubt, capBudget>>
             \/ /\ Fault /\ pub' \in {pub, Set(pub, s, "publishing")} /\ Doubt(s)
                /\ UNCHANGED part
       \/ Discard(s) /\ UNCHANGED capBudget
    /\ UNCHANGED <<blob, rec, lease, holds, digest, inputs, reserved, origin, target, job, queue,
                   running, aborted, reading, evict, phase, unres>>

\* The rename to the protected name, and the sync of the directory.
RenameSource(s) ==
    /\ at[s] = "journalled"
    /\ \/ /\ s \notin aborted /\ part' = part \ {s} /\ blob' = blob \cup {s}
          /\ \/ Go(s, "renamed") /\ UNCHANGED <<active, doubt, retention, capBudget>>
             \/ Fault /\ Doubt(s)
       \/ s \in aborted /\ Doubt(s) /\ UNCHANGED <<bytes, capBudget>>
       \/ Fault /\ Doubt(s) /\ UNCHANGED bytes
    /\ UNCHANGED <<meta, origin, target, job, queue, running, aborted, reading, evict, phase, unres>>

\* The transaction of a publication: record, lease, hold and the journal's end.
CommitMetadata(s) ==
    /\ rec' = Set(rec, s, "live") /\ pub' = Set(pub, s, "committed")
    /\ lease' = lease \cup ({s} \cap Captures)
    /\ holds' = IF origin[s] = "retain" THEN [holds EXCEPT ![s] = @ \cup {"initial"}] ELSE holds
    /\ reserved' = reserved \ {s}

CommitSource(s) ==
    /\ at[s] = "renamed"
    /\ \/ /\ CommitMetadata(s) /\ Go(s, "published") /\ retention' = Null /\ active' = active \ {s}
          /\ UNCHANGED <<doubt, capBudget>>
       \/ Fault /\ CommitMetadata(s) /\ Doubt(s)
       \/ Fault /\ Doubt(s) /\ UNCHANGED <<rec, pub, lease, holds, reserved>>
    /\ UNCHANGED <<bytes, digest, inputs, origin, target, job, queue, running, aborted, reading,
                   evict, phase, unres>>

\* hashTask: a reader of the capture, then its digest under retention.
Hash(c) ==
    /\ at[c] = "hashing" /\ Free
    /\ IF Usable(target[c]) THEN reading' = reading \cup {<<c, target[c]>>} /\ Go(c, "reading")
       ELSE Go(c, "failing") /\ UNCHANGED reading
    /\ UNCHANGED <<bytes, meta, jobs, queue, running, aborted, active, retention, evict, phase, unres, capBudget>>
HashEnds(c) ==
    /\ at[c] = "reading" /\ reading' = reading \ {<<c, target[c]>>}
    /\ \/ c \in aborted /\ Go(c, "failing") /\ UNCHANGED digest
       \/ /\ Free /\ c \notin aborted /\ Go(c, "published")
          /\ digest' = Set(digest, target[c], "ready")
    /\ UNCHANGED <<bytes, rec, pub, lease, holds, inputs, reserved, jobs, queue, running, aborted,
                   active, retention, evict, phase, unres, capBudget>>

\* pump and settle: the receipt of a task; a lost receipt of published bytes is a failure.
Succeed(s) ==
    /\ at[s] = "published"
    /\ \/ /\ job' = Set(job, s, "succeeded") /\ Go(s, "settled") /\ UNCHANGED <<doubt, capBudget>>
       \/ /\ Fault /\ doubt' = doubt \cup {s} /\ Go(s, "late") /\ UNCHANGED job
    /\ UNCHANGED <<bytes, meta, origin, target, queue, running, aborted, active, store>>

\* failDigest first, then the receipt; without the receipt the job stays as it was.
FailTask(s) ==
    /\ at[s] \in {"failing", "late"}
    /\ digest' = IF target[s] # Null /\ digest[target[s]] = "pending"
                 THEN Set(digest, target[s], "failed") ELSE digest
    /\ \/ /\ job' = Set(job, s, IF s \in aborted /\ at[s] # "late" /\ ~(s \in Indexes /\ s \in doubt)
                                THEN "cancelled" ELSE "failed")
          /\ Go(s, IF s \in Indexes \cap doubt /\ at[s] = "failing" THEN "kept" ELSE "settled")
          /\ UNCHANGED <<running, capBudget>>
       \/ /\ Fault /\ Go(s, Null) /\ running' = IF running = s THEN Null ELSE running
          /\ UNCHANGED job
    /\ UNCHANGED <<bytes, rec, pub, lease, holds, inputs, reserved, origin, target, doubt, queue,
                   aborted, active, store>>

\* After the receipt: the job's holds, its readers, its reservation and its turn.
Release(s) ==
    /\ \/ /\ at[s] = "settled" /\ (s \in Indexes => Free)
          /\ holds' = [d \in Sources |-> holds[d] \ {s}] /\ reserved' = reserved \ {s}
       \/ at[s] = "kept" /\ UNCHANGED <<holds, reserved>>      \* the stage is preserved
    /\ reading' = {r \in reading : r[1] # s} /\ Go(s, Null)
    /\ aborted' = aborted \ {s} /\ target' = Set(target, s, Null)
    /\ running' = IF running = s THEN Null ELSE running
    /\ UNCHANGED <<bytes, rec, pub, lease, digest, inputs, origin, job, doubt, queue, active, retention,
                   evict, phase, unres, capBudget>>

Cancel(s) ==
    /\ phase = "up" /\ at[s] \notin {Null, "claimed", "leased", "settled", "kept"}
    /\ s \notin aborted /\ origin[s] # "preview" /\ aborted' = aborted \cup {s}
    /\ UNCHANGED <<bytes, meta, jobs, at, queue, running, active, store, capBudget>>

-----------------------------------------------------------------------------
\* Retention

TakeLease(c) ==
    /\ Free /\ Usable(c) /\ c \notin lease /\ lease' = lease \cup {c}
    /\ UNCHANGED <<bytes, rec, pub, holds, digest, inputs, reserved, jobs, tasks, store, capBudget>>
LeaseEnds(c) ==
    /\ c \in lease /\ ~\E d \in Captures : at[d] = "leased" /\ target[d] = c
    /\ lease' = lease \ {c}
    /\ UNCHANGED <<bytes, rec, pub, holds, digest, inputs, reserved, jobs, tasks, store, capBudget>>

Hold(c) ==
    /\ Free /\ Usable(c) /\ holds[c] = {} /\ holds' = Set(holds, c, {"client"})
    /\ UNCHANGED <<bytes, rec, pub, lease, digest, inputs, reserved, jobs, tasks, store, capBudget>>
ReleaseHold(c) ==
    /\ Free /\ \E h \in {"initial", "client"} \cap holds[c] : holds' = Set(holds, c, holds[c] \ {h})
    /\ UNCHANGED <<bytes, rec, pub, lease, digest, inputs, reserved, jobs, tasks, store, capBudget>>

\* open: a capture, or an index together with its inputs.
Read(s) ==
    /\ Free /\ Usable(s) /\ s \in ReadByClients /\ ~\E r \in reading : r[1] = "client"
    /\ reading' = reading \cup {<<"client", s>>}
    /\ UNCHANGED <<bytes, meta, jobs, tasks, retention, evict, phase, unres, capBudget>>
OpenCapture(c) == Read(c)
OpenWorkbook(x) == Read(x) /\ origin[x] = "workbook" /\ \A c \in inputs[x] : Usable(c)
OpenMap(x) == Read(x) /\ origin[x] = "map" /\ \A c \in inputs[x] : Usable(c)
ReaderEnds(s) ==
    /\ <<"client", s>> \in reading /\ reading' = reading \ {<<"client", s>>}
    /\ UNCHANGED <<bytes, meta, jobs, tasks, retention, evict, phase, unres, capBudget>>

\* A slip: readers of an index do not protect its inputs.
ProtectedOwn(c) ==
    \/ c \in lease \/ holds[c] # {} \/ pub[c] \in Unresolved \/ \E r \in reading : r[2] = c
    \/ \E x \in Indexes : c \in inputs[x] /\ pub[x] \in Unresolved

\* What a sweep leaves alone, as it stood when the sweep began.
Protected(c) ==
    \/ c \in lease \/ holds[c] # {} \/ pub[c] \in Unresolved \/ \E r \in reading : r[2] = c
    \/ \E x \in Indexes : /\ c \in inputs[x]
                          /\ pub[x] \in Unresolved \/ \E r \in reading : r[2] = x

\* Which unprotected captures go depends on their age and on the budget.
Sweep ==
    /\ Free /\ retention' = "sweep"
    /\ \E W \in SUBSET {c \in Captures : rec[c] = "live" /\ ~Protected(c)} :
         /\ evict' = W \cup {c \in Captures : rec[c] = "evicting"} /\ evict' # {}
    /\ UNCHANGED <<bytes, meta, jobs, tasks, reading, phase, unres, capBudget>>

Sweeping == retention = "sweep" /\ (phase = "booting" => unres = {})
Dependents(c) == {x \in Indexes : c \in inputs[x] /\ rec[x] \in {"live", "evicting"}}
Doomed(s) == s \in evict \/ (s \in Indexes /\ \E c \in inputs[s] \cap evict : rec[c] = "evicting")

\* The tombstone is durable before any deletion, and dependents go first.
Tombstone(s) ==
    /\ Sweeping /\ Doomed(s) /\ rec[s] = "live" /\ rec' = Set(rec, s, "evicting")
    /\ UNCHANGED <<bytes, pub, lease, holds, digest, inputs, reserved, jobs, tasks, store, capBudget>>
Unlink(s) ==
    /\ Sweeping /\ Doomed(s) /\ rec[s] = "evicting" /\ s \in blob
    /\ s \in Captures => Dependents(s) = {}
    /\ blob' = blob \ {s}
    /\ UNCHANGED <<part, meta, jobs, tasks, store, capBudget>>
Evicted(s) ==
    /\ Sweeping /\ Doomed(s) /\ rec[s] = "evicting" /\ s \notin blob
    /\ s \in Captures => Dependents(s) = {}
    /\ rec' = Set(rec, s, "evicted") /\ evict' = evict \ {s}
    /\ UNCHANGED <<bytes, pub, lease, holds, digest, inputs, reserved, jobs, tasks, reading,
                   retention, phase, unres, capBudget>>

\* A sweep ends, or fails with its tombstones pending.
SweepEnds ==
    /\ retention = "sweep" /\ phase = "up" /\ retention' = Null /\ evict' = {}
    /\ \/ evict = {} /\ UNCHANGED capBudget
       \/ evict # {} /\ Fault
    /\ UNCHANGED <<bytes, meta, jobs, tasks, reading, phase, unres>>

\* collectOrphanPartials: nothing durable and no running task speaks for the file.
CollectPartial(s) ==
    /\ Free /\ s \in part \ active /\ pub[s] \notin Unresolved \cup {"aborting"}
    /\ ~\E r \in reading : r[2] = s
    /\ s \in Indexes => job[s] \in Terminal
    /\ part' = part \ {s}
    /\ UNCHANGED <<blob, meta, jobs, tasks, store, capBudget>>

-----------------------------------------------------------------------------
\* Crash and recovery

CapturesCrash ==
    /\ capCrashes < MaxCapCrashes /\ capCrashes' = capCrashes + 1 /\ UNCHANGED capFaults
    /\ at' = [s \in Sources |-> Null] /\ queue' = <<>> /\ running' = Null
    /\ aborted' = {} /\ active' = {} /\ reading' = {}
    /\ phase' = "booting" /\ retention' = "sweep"
    /\ unres' = {s \in Sources : pub[s] \in Unresolved \cup {"aborting"}}
    /\ evict' = {c \in Captures : rec[c] = "evicting"}
    /\ UNCHANGED <<bytes, meta, jobs>>

Unfinished(s) == job[s] \notin Terminal \cup {Null} \/ \E d \in Sources : s \in holds[d]

\* init: the interrupted outcome first, then the source hold of that job.  Index
\* jobs follow when the store is available (recover of the preparation services).
Interrupt(s) ==
    /\ phase = "booting" /\ Unfinished(s)
    /\ s \in Indexes => unres = {} /\ evict = {}
    /\ job' = IF job[s] \in Terminal THEN job ELSE Set(job, s, "interrupted")
    /\ digest' = IF target[s] # Null /\ digest[target[s]] = "pending" /\ job[s] # "succeeded"
                 THEN Set(digest, target[s], "failed") ELSE digest
    /\ holds' = [d \in Sources |-> holds[d] \ {s}]
    /\ UNCHANGED <<bytes, rec, pub, lease, inputs, reserved, origin, target, doubt, tasks, store,
                   capBudget>>

Recovering(s) ==
    phase = "booting" /\ s \in unres /\ \A c \in Captures : ~Unfinished(c)

\* The protected file exists: its metadata is committed now.
RecoverPublished(s) ==
    /\ Recovering(s) /\ s \in blob \ part /\ pub[s] # "aborting"
    /\ IF s \in Indexes => \A c \in inputs[s] : Usable(c)
       THEN CommitMetadata(s)
       ELSE pub' = Set(pub, s, "indeterminate") /\ UNCHANGED <<rec, lease, holds, reserved>>
    /\ unres' = unres \ {s}
    /\ UNCHANGED <<bytes, digest, inputs, jobs, tasks, reading, retention, evict, phase,
                   capBudget>>

\* Only the staged file exists: the abort is durable before the file goes.
RecoverStaged(s) ==
    /\ Recovering(s) /\ s \notin blob /\ rec[s] = Null
    /\ \/ /\ pub[s] # "aborting" /\ s \in part /\ pub' = Set(pub, s, "aborting")
          /\ UNCHANGED <<part, unres>>
       \/ pub[s] = "aborting" /\ s \in part /\ part' = part \ {s} /\ UNCHANGED <<pub, unres>>
       \/ /\ pub[s] = "aborting" /\ s \notin part /\ pub' = Set(pub, s, "aborted")
          /\ unres' = unres \ {s} /\ UNCHANGED part
    /\ UNCHANGED <<blob, rec, lease, holds, digest, inputs, reserved, jobs, tasks, reading,
                   retention, evict, phase, capBudget>>

\* Reservations without an unresolved publication end with their staging file.
Booted ==
    /\ phase = "booting" /\ unres = {} /\ evict = {} /\ \A s \in Sources : ~Unfinished(s)
    /\ LET over == {x \in reserved : pub[x] \notin Unresolved}
       IN reserved' = reserved \ over /\ part' = part \ over
    /\ phase' = "up" /\ retention' = Null
    /\ UNCHANGED <<blob, rec, pub, lease, holds, digest, inputs, jobs, tasks, reading, evict,
                   unres, capBudget>>

-----------------------------------------------------------------------------
OfSource(s) == \/ Journal(s) \/ RenameSource(s) \/ CommitSource(s) \/ Succeed(s) \/ FailTask(s) \/ Release(s)
               \/ Cancel(s) \/ ReaderEnds(s) \/ Tombstone(s) \/ Unlink(s) \/ Evicted(s)
               \/ CollectPartial(s) \/ Interrupt(s) \/ RecoverPublished(s) \/ RecoverStaged(s)
OfCapture(c) == \/ Claim(c) \/ RefuseCapture(c) \/ QueueHash(c) \/ QueueCapture(c)
                \/ RetainStaged(c) \/ Preview(c) \/ StartTask(c) \/ Hash(c) \/ HashEnds(c)
                \/ CaptureTask(c) \/ Retain(c) \/ PreviewRequest(c) \/ OpenCapture(c)
                \/ TakeLease(c) \/ LeaseEnds(c) \/ Hold(c) \/ ReleaseHold(c)
                \/ \E d \in Captures : ReuseSource(c, d)
OfIndex(x) == \/ PrepareWorkbook(x) \/ PrepareMap(x) \/ RunWorkbook(x) \/ RunMap(x)
              \/ OpenWorkbook(x) \/ OpenMap(x)
CapturesNext == \/ \E s \in Sources : OfSource(s)
        \/ \E c \in Captures : OfCapture(c)
        \/ \E x \in Indexes : OfIndex(x)
        \/ Sweep \/ SweepEnds \/ CapturesCrash \/ Booted
CapturesSpec == CapturesInit /\ [][CapturesNext]_capVars

-----------------------------------------------------------------------------
\* What someone keeps stays: while a lease, a hold or a reader names a capture its
\* record is live and its bytes are there, and a reader of an index has the index
\* and every input (sweep, finishEviction, QueueHash's stale record, recovery).
RetainedStays ==
    /\ \A c \in Captures :
         c \in lease \/ holds[c] # {} \/ (\E r \in reading : r[2] = c) => rec[c] = "live" /\ c \in blob
    /\ \A x \in Indexes :
         <<"client", x>> \in reading => \A s \in {x} \cup inputs[x] : rec[s] = "live" /\ s \in blob

\* The deployment ceiling bounds the protected files themselves, whatever was lost
\* between journal, rename and commit: each one is a record's or an unresolved
\* publication's, and no live record is without its file.
BytesAccounted ==
    /\ \A s \in blob : rec[s] \in {"live", "evicting"} \/ pub[s] \in Unresolved
    /\ \A s \in Sources : rec[s] = "live" => s \in blob
    /\ Cardinality(blob) <= RetainedMax

\* A receipt tells the truth: a success retained the bytes, and a failure that does
\* not say "indeterminate" retained none and left no journal to recover.
CaptureReceipts ==
    \A s \in Sources :
        /\ job[s] = "succeeded" /\ target[s] = Null /\ pub[s] # Null => pub[s] = "committed"
        /\ job[s] \in {"failed", "cancelled"} /\ s \notin doubt =>
             s \notin blob /\ rec[s] = Null /\ pub[s] \notin Unresolved \cup {"committed"}

CapturePromises == RetainedStays /\ BytesAccounted /\ CaptureReceipts
=============================================================================
