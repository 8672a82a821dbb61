------------------------------ MODULE CloudSync ------------------------------
(***************************************************************************)
(* Keeping the workspace and its cloud heads in step                       *)
(* (runtime/lib/remote-publication.js, workspace-persistence-port.js and   *)
(* the hydrate and push halves of cloud-import-worker.js).                 *)
(*                                                                         *)
(* The cloud is a sequence of changes, each to one path or, for a move, to *)
(* two.  One worker applies them in order and pushes local operations by   *)
(* compare-and-swap on the head; a client may choose a change the worker   *)
(* put off.  Local operations and other programs write the same files.     *)
(*                                                                         *)
(* A version stands for bytes, object and times, so it is also the         *)
(* observation of the file that holds it.  Folders, and local operations   *)
(* that end indeterminate (WorkspaceFiles), are left out.                  *)
(***************************************************************************)
EXTENDS Naturals, FiniteSets, Sequences, Functions

CONSTANTS
    CloudPaths,
    Locals,         \* ids of local operations, and the versions uploads write
    Programs,       \* versions other programs write
    FirstVersion,   \* the version of the file that is synchronised at the start
    Remotes,        \* versions other owners upload to the cloud
    MaxSeq,
    MaxSyncEvents   \* changes of other owners, local operations, other writes, faults and crashes, together

ASSUME SyncAssumption == "nil" \notin CloudPaths \cup Locals      \* Nil, below

VARIABLES
    cloud,          \* the changes: where from, where to, which version, whose
    cloudFile,      \* path -> version
    head,           \* path -> the cloud-heads record: seq, observation, headKnown
    gen,            \* path -> the operation that last committed there
    loc,            \* local operation -> its record
    commits,        \* local operations in commit order
    app,            \* remote application -> its record
    thread,         \* the worker and the client -> the application it executes, and where
    held,           \* who holds the managed lock
    pushing,        \* the local operation the worker pushes, and where
    ckpt, cur, thru, snap,      \* the checkpoint, the walk after it, the frozen snapshot
    pending,        \* path -> the change that waits for a decision (cloud-pending)
    lost, raced,    \* versions replaced without a copy; written during a publication
    syncMode, syncEvents

local == <<cloudFile, gen, loc, commits>>
walk == <<ckpt, cur, thru, snap>>
seen == <<lost, raced>>
syncBudget == <<syncMode, syncEvents>>
syncVars == <<cloud, local, head, app, thread, held, pushing, walk, pending, seen, syncBudget>>

Nil == "nil"
NoId == [via |-> Nil, seq |-> 0, paths |-> {}, path |-> Nil]
NoRun == [id |-> NoId, at |-> Nil]
NoPush == [id |-> Nil, at |-> Nil]
NoSnapshot == [through |-> 0, gone |-> {}, left |-> {}]
Generation(o) == [NoId EXCEPT !.via = o]       \* of a local operation; a remote one is its own
Clients == {"worker", "client"}
Overlay(f, g) == [x \in DOMAIN f \cup DOMAIN g |-> IF x \in DOMAIN g THEN g[x] ELSE f[x]]

Touches(n) == {cloud[n].from, cloud[n].to} \ {Nil}
WrittenAt(n, p) == IF cloud[n].to = p THEN cloud[n].v ELSE Nil     \* Nil: a tombstone
HeadAt(p, n) ==
    LET s == {k \in 1..n : p \in Touches(k)} IN IF s = {} THEN 0 ELSE CHOOSE k \in s : \A j \in s : j <= k
CloudHead(p) == HeadAt(p, Len(cloud))

SyncInit ==
    /\ \E p \in CloudPaths :
         /\ cloud = <<[from |-> Nil, to |-> p, v |-> FirstVersion, by |-> Nil]>>
         /\ cloudFile = [x \in CloudPaths |-> IF x = p THEN FirstVersion ELSE Nil]
         /\ head = [x \in CloudPaths |-> IF x = p THEN [seq |-> 1, obs |-> FirstVersion, known |-> TRUE]
                                         ELSE [seq |-> 0, obs |-> Nil, known |-> TRUE]]
    /\ gen = [p \in CloudPaths |-> NoId]
    /\ loc = [o \in Locals |-> [kind |-> Nil, from |-> Nil, to |-> Nil, st |-> Nil, base |-> <<>>, obs |-> Nil,
                                push |-> Nil]]
    /\ commits = <<>> /\ app = <<>> /\ thread = [t \in Clients |-> NoRun] /\ held = Nil /\ pushing = NoPush
    /\ ckpt = 1 /\ cur = 1 /\ thru = 0 /\ snap = NoSnapshot /\ pending = [p \in CloudPaths |-> 0]
    /\ lost = {} /\ raced = {} /\ syncMode = "up" /\ syncEvents = 0

SyncEvent == syncEvents < MaxSyncEvents /\ syncEvents' = syncEvents + 1
SyncUp == syncMode = "up"
LockFree == SyncUp /\ held = Nil
Idle == SyncUp /\ thread["worker"].at = Nil /\ pushing.at = Nil
Enter(t, where) == thread' = [thread EXCEPT ![t].at = where]

-----------------------------------------------------------------------------
\* The other writers

\* Another owner's upload, deletion or move, as the cloud orders it.
CloudChange ==
    /\ Len(cloud) < MaxSeq /\ SyncEvent
    /\ \E p \in CloudPaths :
         LET old == WrittenAt(CloudHead(p), p) IN
         \/ \E v \in Remotes \ {cloud[n].v : n \in 1..Len(cloud)} :
              cloud' = Append(cloud, [from |-> Nil, to |-> p, v |-> v, by |-> Nil])
         \/ /\ CloudHead(p) # 0 /\ old # Nil
            /\ \E q \in (CloudPaths \ {p}) \cup {Nil} :
                 cloud' = Append(cloud, [from |-> p, to |-> q, v |-> IF q = Nil THEN Nil ELSE old, by |-> Nil])
    /\ UNCHANGED <<local, head, app, thread, held, pushing, walk, pending, seen, syncMode>>

\* Another program replaces a file; it takes no lock.
ProgramWrites ==
    /\ SyncEvent
    /\ \E v \in Programs, p \in CloudPaths :
         /\ v \notin {cloudFile[x] : x \in CloudPaths} \cup raced \cup lost
         /\ \A i \in DOMAIN app : \A x \in i.paths : app[i].base[x].obs # v /\ v \notin app[i].copies
         /\ cloudFile' = [cloudFile EXCEPT ![p] = v]
         /\ raced' = IF \E t \in Clients : thread[t].at = "publishing" /\ p \in thread[t].id.paths
                     THEN raced \cup {v} ELSE raced
    /\ UNCHANGED <<cloud, gen, loc, commits, head, app, thread, held, pushing, walk, pending, lost, syncMode>>

\* accept: the record remembers the cloud heads the operation starts from.
LocalEntry(k, p, q) ==
    [kind |-> k, from |-> p, to |-> q, st |-> "accepted", obs |-> cloudFile[p], push |-> Nil,
     base |-> [x \in {p, q} \ {Nil} |-> IF head[x].known THEN head[x].seq ELSE 0]]

LocalAccept(o) ==
    /\ LockFree /\ loc[o].st = Nil /\ SyncEvent
    /\ \E k \in {"upload", "delete", "move"}, p \in CloudPaths, q \in CloudPaths \cup {Nil} :
         /\ k = "upload" => q = p
         /\ k = "delete" => q = Nil /\ cloudFile[p] # Nil
         /\ k = "move" => q \notin {p, Nil} /\ cloudFile[p] # Nil /\ cloudFile[q] = Nil
         /\ loc' = [loc EXCEPT ![o] = LocalEntry(k, p, q)]
    /\ UNCHANGED <<cloud, cloudFile, gen, commits, head, app, thread, held, pushing, walk, pending, seen, syncMode>>

\* The operation takes effect and commits under the lock, if what it was based on is still there.
LocalCommit(o) ==
    /\ LockFree /\ loc[o].st = "accepted"
    /\ loc[o].kind \in {"delete", "move"} => cloudFile[loc[o].from] = loc[o].obs
    /\ loc[o].kind = "move" => cloudFile[loc[o].to] = Nil
    /\ cloudFile' = [p \in CloudPaths |->
         IF loc[o].to = p THEN (IF loc[o].kind = "upload" THEN o ELSE loc[o].obs)
         ELSE IF loc[o].from = p THEN Nil ELSE cloudFile[p]]
    /\ gen' = [p \in CloudPaths |-> IF p \in DOMAIN loc[o].base THEN Generation(o) ELSE gen[p]]
    /\ loc' = [loc EXCEPT ![o].st = "committed"]
    /\ commits' = Append(commits, o)
    /\ UNCHANGED <<cloud, head, app, thread, held, pushing, walk, pending, seen, syncBudget>>

-----------------------------------------------------------------------------
\* Applying a remote change (RemotePublication)

Run(t) == thread[t].id
App(t) == app[Run(t)]
IsMove(id) == Cardinality(id.paths) = 2
Stay(t) == UNCHANGED <<cloud, cloudFile, gen, loc, commits, head, pushing, seen, syncBudget>>

\* The latest operation of a path is an indeterminate one that was accepted
\* after the last commit there.
Blocked(p) == \E i \in DOMAIN app : p \in i.paths /\ app[i].st = "indeterminate" /\ app[i].base[p].gen = gen[p]

\* A slip: the bases are only compared when the change is prepared.
CheckOnce(id, base, discard) == \A p \in id.paths : head[p].seq <= id.seq /\ ~Blocked(p)

\* check: no newer baseline, nothing indeterminate, the bases unchanged, and an
\* existing file is the one the last baseline left, unless the client discards it.
Check(id, base, discard) ==
    \A p \in id.paths :
      /\ head[p].seq <= id.seq /\ ~Blocked(p)
      /\ base[p] = [gen |-> gen[p], obs |-> cloudFile[p]]
      /\ discard \/ cloudFile[p] = Nil \/ head[p].obs = cloudFile[p]

Bases(id) == [p \in id.paths |-> [gen |-> gen[p], obs |-> cloudFile[p]]]

\* prepare: the first call of an operation id claims its record under the lock; a
\* repeated call resumes the record with the bases it has.
Prepare(t) ==
    /\ LockFree /\ thread[t].at = "prepare"
    /\ \/ /\ Run(t) \notin DOMAIN app
          /\ Check(Run(t), Bases(Run(t)), Run(t).via = "choice")
          /\ app' = Overlay(app, [i \in {Run(t)} |->
                [st |-> "accepted", base |-> Bases(i), copied |-> FALSE, copies |-> {}, evidence |-> Nil,
                 applied |-> FALSE]])
          /\ Enter(t, "stage")
       \/ /\ Run(t) \in DOMAIN app /\ App(t).st \in {"accepted", "staged"}
          /\ Enter(t, IF App(t).st = "accepted" THEN "stage" ELSE "publish") /\ UNCHANGED app
    /\ Stay(t) /\ UNCHANGED <<held, walk, pending>>

\* The bytes are downloaded, verified and retained under a hold that outlives a crash;
\* a move and a tombstone have none.
StageSource(t) ==
    /\ SyncUp /\ thread[t].at = "stage"
    /\ app' = [app EXCEPT ![Run(t)].st = "staged"]
    /\ Enter(t, "publish")
    /\ Stay(t) /\ UNCHANGED <<held, walk, pending>>

\* An import whose head a snapshot has already written adopts that unchanged file.
Adopted(id) ==
    /\ id.via = "import" /\ gen[id.path] \in DOMAIN app
    /\ head[id.path].seq = id.seq /\ head[id.path].obs = cloudFile[id.path] /\ cloudFile[id.path] # Nil

Reuse(id, base) ==
    /\ ~IsMove(id) /\ WrittenAt(id.seq, id.path) # Nil
    /\ head[id.path].seq = id.seq /\ head[id.path].obs = base[id.path].obs

\* displaced: what the change will replace is captured and held before it is touched.
Displaced(id) ==
    {cloudFile[p] : p \in {x \in id.paths : cloudFile[x] # Nil /\ ~(IsMove(id) /\ WrittenAt(id.seq, x) = Nil)}}

\* The candidate of a single file is created under the lock, after a check.
BeginCandidate(t) ==
    /\ LockFree /\ thread[t].at = "publish"
    /\ LET id == Run(t)
           base == IF Adopted(id) THEN Bases(id) ELSE App(t).base
           reuse == Reuse(id, base)
           single == ~IsMove(id) /\ WrittenAt(id.seq, id.path) # Nil IN
       /\ single /\ ~reuse => Check(id, base, id.via = "choice")
       /\ app' = [app EXCEPT ![id].base = base,
                             ![id].copies = IF reuse \/ App(t).copied THEN @ ELSE Displaced(id),
                             ![id].copied = @ \/ ~reuse,
                             ![id].evidence = IF reuse THEN base[id.path].obs
                                              ELSE IF single THEN WrittenAt(id.seq, id.path) ELSE Nil]
    /\ Enter(t, "final")
    /\ Stay(t) /\ UNCHANGED <<held, walk, pending>>

\* The last check and the durable "publishing" share the lock with the effect.
Publishing(t) ==
    /\ LockFree /\ thread[t].at = "final"
    /\ Check(Run(t), App(t).base, Run(t).via = "choice")
    /\ app' = [app EXCEPT ![Run(t)].st = "publishing"]
    /\ held' = t /\ Enter(t, "publishing")
    /\ Stay(t) /\ UNCHANGED <<walk, pending>>

\* The one rename.  Without a base the destination must still be free.
Replaces(id, p) == {cloudFile[p]} \ ({Nil, WrittenAt(id.seq, p)} \cup app[id].copies)

FileEffect(id, p) ==
    /\ app[id].base[p].obs = Nil => cloudFile[p] = Nil
    /\ lost' = lost \cup Replaces(id, p)
    /\ cloudFile' = [cloudFile EXCEPT ![p] = WrittenAt(id.seq, p)]

\* entryEffect: a tombstone moves the file to the trash.
TombstoneEffect(id, p) == cloudFile' = [cloudFile EXCEPT ![p] = Nil] /\ UNCHANGED lost

\* move: the source must be the version the cloud moved.
MoveEffect(id) ==
    LET from == cloud[id.seq].from to == cloud[id.seq].to IN
    /\ cloudFile[from] # Nil /\ head[from].seq # 0
    /\ WrittenAt(head[from].seq, from) = cloud[id.seq].v
    /\ app[id].base[to].obs = Nil => cloudFile[to] = Nil
    /\ lost' = lost \cup Replaces(id, to)
    /\ cloudFile' = [cloudFile EXCEPT ![from] = Nil, ![to] = cloudFile[from]]

ApplyEffect(t) ==
    /\ SyncUp /\ thread[t].at = "publishing"
    /\ LET id == Run(t) IN
       IF IsMove(id) THEN MoveEffect(id) /\ app' = [app EXCEPT ![id].applied = TRUE, ![id].evidence = cloudFile[cloud[id.seq].from]]
       ELSE IF WrittenAt(id.seq, id.path) = Nil
       THEN TombstoneEffect(id, id.path) /\ app' = [app EXCEPT ![id].applied = TRUE, ![id].evidence = "trash"]
       ELSE IF Reuse(id, App(t).base) THEN UNCHANGED <<cloudFile, lost, app>>
       ELSE FileEffect(id, id.path) /\ app' = [app EXCEPT ![id].applied = TRUE]
    /\ Enter(t, "commit")
    /\ UNCHANGED <<cloud, gen, loc, commits, head, held, pushing, walk, pending, raced, syncBudget>>

\* commit: every path must show what was published.
Shows(id) == \A p \in id.paths : cloudFile[p] = WrittenAt(id.seq, p)
Committed(id) ==
    /\ app' = [app EXCEPT ![id].st = "committed"]
    /\ head' = [p \in CloudPaths |->
         IF p \in id.paths THEN [seq |-> id.seq, obs |-> cloudFile[p], known |-> TRUE] ELSE head[p]]
    /\ gen' = [p \in CloudPaths |-> IF p \in id.paths THEN id ELSE gen[p]]

\* applyEntries and applyPendingRemote forget the pending change once it is applied.
ApplyDone(t, id) ==
    /\ thread' = [thread EXCEPT ![t] = NoRun]
    /\ pending' = [p \in CloudPaths |-> IF p \in id.paths /\ id.via # "import" THEN 0 ELSE pending[p]]

\* The walk goes on with the next change, the snapshot with its next entry.
Walked(id) ==
    /\ cur' = IF id.via = "change" THEN id.seq ELSE cur
    /\ snap' = IF id.via = "snapshot" THEN [snap EXCEPT !.left = @ \ {id.path}] ELSE snap
    /\ UNCHANGED <<ckpt, thru>>

CommitApply(t) ==
    /\ SyncUp /\ thread[t].at = "commit" /\ Shows(Run(t))
    /\ Committed(Run(t)) /\ held' = Nil
    /\ ApplyDone(t, Run(t)) /\ Walked(Run(t))
    /\ UNCHANGED <<cloud, cloudFile, loc, commits, pushing, seen, syncBudget>>

\* A pass of hydrate that fails starts again at the checkpoint; a superseded entry
\* or an expired cursor drops the checkpoint, so that a snapshot is taken.
WalkFails(id) ==
    IF id.via \notin {"change", "snapshot"} THEN UNCHANGED walk
    ELSE /\ ckpt' \in IF id.via = "change" /\ \E p \in id.paths : head[p].seq > id.seq THEN {0} ELSE {ckpt}
         /\ cur' = ckpt' /\ thru' = 0 /\ UNCHANGED snap

PutOff(t, id) ==
    /\ thread' = [thread EXCEPT ![t] = NoRun]
    /\ pending' \in {pending} \cup
         (IF t = "worker" /\ id.via # "import"
          THEN {[pending EXCEPT ![id.path] = id.seq]} ELSE {})

\* A refusal or an error before "publishing" leaves the record for a later call.  A
\* refusal is certain when the check fails; an active writer or the store also refuse.
RefuseApply(t) ==
    /\ SyncUp /\ thread[t].at \in {"prepare", "stage", "publish", "final"}
    /\ \/ SyncEvent
       \/ /\ UNCHANGED syncEvents
          /\ \/ Run(t) \in DOMAIN app /\ App(t).st \in {"publishing", "indeterminate"}
             \/ Run(t) \notin DOMAIN app /\ ~Check(Run(t), Bases(Run(t)), Run(t).via = "choice")
             \/ Run(t) \in DOMAIN app /\ thread[t].at \in {"publish", "final"}
                /\ ~Check(Run(t), App(t).base, Run(t).via = "choice")
    /\ PutOff(t, Run(t)) /\ WalkFails(Run(t))
    /\ UNCHANGED <<cloud, cloudFile, gen, loc, commits, head, app, held, pushing, seen, syncMode>>

\* After "publishing" any error leaves the operation indeterminate, whatever it did.
PublishFails(t) ==
    /\ SyncUp /\ thread[t].at \in {"publishing", "commit"}
    /\ \/ SyncEvent
       \/ thread[t].at = "commit" /\ ~Shows(Run(t)) /\ UNCHANGED syncEvents
       \/ thread[t].at = "publishing" /\ ~ENABLED ApplyEffect(t) /\ UNCHANGED syncEvents
    /\ app' = [app EXCEPT ![Run(t)].st = "indeterminate"]
    /\ held' = Nil
    /\ PutOff(t, Run(t)) /\ WalkFails(Run(t))
    /\ UNCHANGED <<cloud, cloudFile, gen, loc, commits, head, pushing, seen, syncMode>>

-----------------------------------------------------------------------------
\* The worker: imports, hydration, pushes

Start(t, id) == thread' = [thread EXCEPT ![t] = [id |-> id, at |-> "prepare"]]
SingleId(via, n, p) == [via |-> via, seq |-> n, paths |-> {p}, path |-> p]

\* deliverSerial: a claim publishes one uploaded file at its destination head, and
\* needs a publication permit (CloudImport), which may not come.
Import ==
    /\ Idle
    /\ \E n \in 1..Len(cloud) :
         LET id == SingleId("import", n, cloud[n].to) IN
         /\ cloud[n].from = Nil /\ cloud[n].by = Nil /\ n > 1
         /\ id \in DOMAIN app \/ n = CloudHead(cloud[n].to)
         /\ ~(id \in DOMAIN app /\ app[id].st = "committed")
         /\ Start("worker", id)
    /\ UNCHANGED <<cloud, local, head, app, held, pushing, walk, pending, seen, syncBudget>>

Unsettled(p) ==
    \/ \E i \in DOMAIN app : p \in i.paths /\ app[i].st # "committed"
    \/ \E t \in Clients : p \in thread[t].id.paths
    \/ \E n \in 1..Len(cloud) : p \in Touches(n) /\ cloud[n].by # Nil /\ loc[cloud[n].by].push # "clean"

\* hydrate without a checkpoint: a frozen snapshot of the heads.  The cloud may have
\* purged old tombstones, but no sooner than applications and pushes there are settled.
TakeSnapshot ==
    /\ Idle /\ ckpt = 0 /\ snap = NoSnapshot
    /\ \E gone \in SUBSET {p \in CloudPaths : CloudHead(p) # 0 /\ WrittenAt(CloudHead(p), p) = Nil /\ ~Unsettled(p)} :
         snap' = [through |-> Len(cloud), gone |-> gone,
                  left |-> {p \in CloudPaths : CloudHead(p) # 0} \ gone]
    /\ UNCHANGED <<cloud, local, head, app, thread, held, pushing, ckpt, cur, thru, pending, seen, syncBudget>>

\* applyEntries: an entry at or below the baseline is done; a move of which one half is
\* newer is superseded, and the walk falls back to a snapshot.
KnownHead(id) == \A p \in id.paths : head[p].seq >= id.seq

ApplySnapshotEntry ==
    /\ Idle /\ ckpt = 0 /\ snap # NoSnapshot
    /\ \E p \in snap.left :
         LET id == SingleId("snapshot", HeadAt(p, snap.through), p) IN
         IF KnownHead(id) THEN snap' = [snap EXCEPT !.left = @ \ {p}] /\ UNCHANGED thread
         ELSE Start("worker", id) /\ UNCHANGED snap
    /\ UNCHANGED <<cloud, local, head, app, held, pushing, ckpt, cur, thru, pending, seen, syncBudget>>

\* A baseline the complete snapshot does not mention loses its head token; then the
\* checkpoint replaces the snapshot in one transaction.
EndSnapshot ==
    /\ LockFree /\ Idle /\ ckpt = 0 /\ snap # NoSnapshot /\ snap.left = {}
    /\ head' = [p \in CloudPaths |->
         IF head[p].seq \in 1..snap.through /\ p \in snap.gone THEN [head[p] EXCEPT !.known = FALSE] ELSE head[p]]
    /\ ckpt' = snap.through /\ cur' = snap.through /\ snap' = NoSnapshot
    /\ UNCHANGED <<cloud, local, app, thread, held, pushing, thru, pending, seen, syncBudget>>

\* changesAfter: the page fixes how far this pass goes.
ReadChanges ==
    /\ Idle /\ ckpt # 0 /\ thru = 0
    /\ thru' = Len(cloud) /\ cur' = ckpt
    /\ UNCHANGED <<cloud, local, head, app, thread, held, pushing, ckpt, snap, pending, seen, syncBudget>>

\* A slip: a change that has to wait is recorded and passed over.
NextOfWalkSkipping(n) == {k \in (n + 1)..thru : \A p \in Touches(k) : pending[p] # k}

\* The changes are applied one by one in their order.
NextOfWalk(n) == (n + 1)..thru

ApplyChange ==
    /\ Idle /\ ckpt # 0 /\ thru # 0 /\ NextOfWalk(cur) # {}
    /\ LET n == CHOOSE k \in NextOfWalk(cur) : \A j \in NextOfWalk(cur) : k <= j
           id == [via |-> "change", seq |-> n, paths |-> Touches(n),
                  path |-> IF cloud[n].to # Nil THEN cloud[n].to ELSE cloud[n].from] IN
       IF KnownHead(id) THEN cur' = n /\ UNCHANGED <<thread, ckpt, thru>>
       ELSE IF \E p \in id.paths : head[p].seq > n
       THEN ckpt' = 0 /\ cur' = 0 /\ thru' = 0 /\ UNCHANGED thread
       ELSE Start("worker", id) /\ UNCHANGED <<cur, ckpt, thru>>
    /\ UNCHANGED <<cloud, local, head, app, held, pushing, snap, pending, seen, syncBudget>>

SaveCheckpoint ==
    /\ Idle /\ ckpt # 0 /\ thru # 0 /\ NextOfWalk(cur) = {}
    /\ ckpt' = thru /\ cur' = thru /\ thru' = 0
    /\ UNCHANGED <<cloud, local, head, app, thread, held, pushing, snap, pending, seen, syncBudget>>

\* The cloud no longer has the cursor or the snapshot (410).
CursorExpires ==
    /\ Idle /\ SyncEvent
    /\ IF ckpt # 0 THEN ckpt' = 0 /\ cur' = 0 /\ thru' = 0 /\ UNCHANGED snap
       ELSE snap # NoSnapshot /\ snap' = NoSnapshot /\ UNCHANGED <<ckpt, cur, thru>>
    /\ UNCHANGED <<cloud, local, head, app, thread, held, pushing, pending, seen, syncMode>>

\* applyPendingRemote: a client chooses a file that waits, while it is still the head.
Choose ==
    /\ SyncUp /\ thread["client"].at = Nil
    /\ \E p \in CloudPaths :
         /\ pending[p] # 0 /\ CloudHead(p) = pending[p] /\ Cardinality(Touches(pending[p])) = 1
         /\ WrittenAt(pending[p], p) # Nil
         /\ Start("client", SingleId("choice", pending[p], p))
    /\ UNCHANGED <<cloud, local, head, app, held, pushing, walk, pending, seen, syncBudget>>

\* pushLocal: committed operations in commit order; one that waits holds back every
\* later one of its paths.
Before(o) == {commits[k] : k \in {j \in 1..Len(commits) : \E l \in (j + 1)..Len(commits) : commits[l] = o}}
Pushable(o) ==
    /\ loc[o].st = "committed" /\ loc[o].push \in {Nil, "transfer"}
    /\ \A b \in Before(o) : loc[b].push = "clean" \/ DOMAIN loc[b].base \cap DOMAIN loc[o].base = {}

\* An upload's bytes are held together with its transfer record, a mutation's intent
\* is saved; only then is anything sent.
BeginPush(o) ==
    /\ LockFree /\ Idle /\ Pushable(o)
    /\ IF \A p \in DOMAIN loc[o].base : head[p].known
       THEN loc' = [loc EXCEPT ![o].push = "transfer"] /\ pushing' = [id |-> o, at |-> "send"]
       ELSE loc' = [loc EXCEPT ![o].push = "conflict"] /\ UNCHANGED pushing
    /\ UNCHANGED <<cloud, cloudFile, gen, commits, head, app, thread, held, walk, pending, seen, syncBudget>>

Accepted(o) == {n \in 1..Len(cloud) : cloud[n].by = o}
NowAt(o) == IF loc[o].kind = "upload" THEN o ELSE IF loc[o].kind = "move" THEN loc[o].obs ELSE Nil

\* The cloud accepts the operation if its heads are the expected ones, and answers a
\* repeated operation id from its record; the answer may be lost.
SendPush ==
    /\ SyncUp /\ pushing.at = "send"
    /\ LET o == pushing.id IN
       IF Accepted(o) # {} THEN cloud' = cloud /\ pushing' = [pushing EXCEPT !.at = "ready"]
       ELSE IF \E p \in DOMAIN loc[o].base : CloudHead(p) # loc[o].base[p]
       THEN cloud' = cloud /\ pushing' = [pushing EXCEPT !.at = "conflict"]
       ELSE /\ Len(cloud) < MaxSeq
            /\ cloud' = Append(cloud, [from |-> IF loc[o].kind = "upload" THEN Nil ELSE loc[o].from,
                                       to |-> loc[o].to, v |-> NowAt(o), by |-> o])
            /\ pushing' = [pushing EXCEPT !.at = "ready"]
    /\ UNCHANGED <<local, head, app, thread, held, walk, pending, seen, syncBudget>>

LosePush ==
    /\ SyncUp /\ pushing.at \in {"send", "ready"}
    /\ SyncEvent
    /\ pushing' = NoPush
    /\ UNCHANGED <<cloud, local, head, app, thread, held, walk, pending, seen, syncMode>>

\* The baseline only moves forward, and names the file only while it is this operation's.
AcknowledgedHead(o, n, p) ==
    IF head[p].seq > n THEN head[p] ELSE
    [seq |-> n, known |-> TRUE, obs |-> IF loc[o].kind = "upload" THEN o ELSE IF gen[p] = Generation(o) /\ ~Blocked(p) THEN cloudFile[p] ELSE Nil]

\* recordAcknowledgement, or the end of a mutation: clean, the hold released and the
\* new baseline in one transaction.
RecordAcknowledgement ==
    /\ LockFree /\ pushing.at = "ready"
    /\ LET o == pushing.id n == CHOOSE k \in Accepted(o) : TRUE IN
       /\ loc' = [loc EXCEPT ![o].push = "clean"]
       /\ head' = [p \in CloudPaths |-> IF p \in Touches(n) THEN AcknowledgedHead(o, n, p) ELSE head[p]]
    /\ pushing' = NoPush
    /\ UNCHANGED <<cloud, cloudFile, gen, commits, app, thread, held, walk, pending, seen, syncBudget>>

PushConflict ==
    /\ LockFree /\ pushing.at = "conflict"
    /\ loc' = [loc EXCEPT ![pushing.id].push = "conflict"] /\ pushing' = NoPush
    /\ UNCHANGED <<cloud, cloudFile, gen, commits, head, app, thread, held, walk, pending, seen, syncBudget>>

-----------------------------------------------------------------------------
\* Crash and restart

SyncCrash ==
    /\ SyncUp /\ SyncEvent
    /\ syncMode' = "recover" /\ thread' = [t \in Clients |-> NoRun] /\ held' = Nil /\ pushing' = NoPush
    /\ cur' = ckpt /\ thru' = 0
    /\ loc' = [o \in Locals |-> IF loc[o].st = "accepted" THEN [loc[o] EXCEPT !.st = "failed"] ELSE loc[o]]
    /\ UNCHANGED <<cloud, cloudFile, gen, commits, head, app, ckpt, snap, pending, seen>>

\* recover: an effect is committed only when it is proved and no later sequence has
\* been applied; everything else stays as it is.
EffectProved(id) ==
    /\ app[id].st \in {"publishing", "indeterminate"}
    /\ \A p \in id.paths : head[p].seq <= id.seq
    /\ app[id].evidence # Nil /\ Shows(id)
    /\ app[id].evidence # "trash" => cloudFile[id.path] = app[id].evidence

Recover(id) ==
    /\ syncMode = "recover" /\ EffectProved(id) /\ Committed(id)
    /\ UNCHANGED <<cloud, cloudFile, loc, commits, thread, held, pushing, walk, pending, seen, syncBudget>>

SyncReady ==
    /\ syncMode = "recover" /\ ~\E id \in DOMAIN app : EffectProved(id)
    /\ syncMode' = "up"
    /\ UNCHANGED <<cloud, local, head, app, thread, held, pushing, walk, pending, seen, syncEvents>>

ApplyStep(t) ==
    Prepare(t) \/ StageSource(t) \/ BeginCandidate(t) \/ Publishing(t) \/ ApplyEffect(t)
    \/ CommitApply(t) \/ RefuseApply(t) \/ PublishFails(t)

SyncNext ==
    \/ CloudChange \/ ProgramWrites
    \/ \E o \in Locals : LocalAccept(o) \/ LocalCommit(o) \/ BeginPush(o)
    \/ \E t \in Clients : ApplyStep(t)
    \/ Import \/ TakeSnapshot \/ ApplySnapshotEntry \/ EndSnapshot
    \/ ReadChanges \/ ApplyChange \/ SaveCheckpoint \/ CursorExpires \/ Choose
    \/ SendPush \/ LosePush \/ RecordAcknowledgement \/ PushConflict
    \/ SyncCrash \/ SyncReady \/ \E id \in DOMAIN app : Recover(id)

SyncSpec == SyncInit /\ [][SyncNext]_syncVars

-----------------------------------------------------------------------------
\* What a remote change replaces has been copied to a recovery capture first.  Only a
\* file another program wrote between the last check and the rename is beyond that.
DisplacedKept == lost \subseteq raced

\* Every change at or below the checkpoint has been applied or is the baseline of its
\* path, whatever was put off, lost, expired or restarted on the way; only a tombstone
\* the cloud has purged leaves its baseline behind, with an unknown head.
NoChangeSkipped ==
    ckpt # 0 => \A p \in CloudPaths :
      head[p].seq >= HeadAt(p, ckpt) \/ ~head[p].known
      \/ (head[p].seq = 0 /\ WrittenAt(HeadAt(p, ckpt), p) = Nil)

\* A remote change destroys nothing that was not copied, and none is skipped.
SyncPromises == DisplacedKept /\ NoChangeSkipped
=============================================================================
