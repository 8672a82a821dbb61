-------------------------------- MODULE FileIndex --------------------------------
(***************************************************************************)
(* The catalogue of the workspace's files (file-index.js): a scan session  *)
(* walks the folders in passes with a work budget, resumes where a pass    *)
(* stopped, and ends by removing the rows it did not find.  Watcher hints, *)
(* the file service's own writes and a slow timer schedule the passes.     *)
(* One folder d of the root holds one file g: d is a folder in its version *)
(* 1 and an ordinary file in its version 2.                                *)
(***************************************************************************)
EXTENDS Naturals, Sequences

CONSTANTS RootFiles,      \* files of the root
          MaxIndexEvents  \* changes on disk and failures

VARIABLES onDisk,           \* version of each path, 0 when absent
          obj,            \* which object the folder d is: it changes when d is made again
          rows,           \* the catalogue: version observed, 0 when not listed
          dirs,           \* coverage of each folder in the current or last session
          sess,           \* scanSession
          pass,           \* none, scan or prune: the step the running pass is in
          worked,         \* the running pass has done a step
          refreshTimer, queuedRefresh,
          hint,           \* a change the watcher has not reported yet
          watch,          \* live or error
          listed, scanError,
          steady,         \* paths unchanged since the session began (history)
          indexEvents
indexVars == <<onDisk, obj, rows, dirs, sess, pass, worked, refreshTimer, queuedRefresh, hint, watch, listed, scanError, steady, indexEvents>>

Root == "root"
Tree == RootFiles \cup {"d", "g"}
Folders == {Root, "d"}
ParentOf(p) == IF p = "g" THEN "d" ELSE Root
IsFolder(p, v) == p = "d" /\ v = 1
NoSession == [on |-> FALSE, queue |-> <<>>, current |-> "none", before |-> 0, left |-> {}, yielded |-> {},
              seen |-> {}, nonDirectories |-> {}, pruning |-> FALSE, rest |-> {}]
Unscanned == [f \in Folders |-> "no"]

IndexInit ==   \* rows come back from the last boot and may be wrong
    /\ onDisk \in {f \in [Tree -> 0 .. 1] : f["g"] = 1 => f["d"] = 1} /\ obj = 1
    /\ rows \in {onDisk, [p \in Tree |-> 0], [p \in Tree |-> 1]}
    /\ dirs = Unscanned /\ sess = NoSession /\ pass = "none" /\ worked = FALSE /\ refreshTimer = TRUE /\ queuedRefresh = FALSE
    /\ hint = FALSE /\ watch = "live" /\ listed = FALSE /\ scanError = FALSE /\ steady = Tree /\ indexEvents = 0

Change == indexEvents < MaxIndexEvents /\ indexEvents' = indexEvents + 1

-------------------------------------------------------------------------------
\* Scheduling
StartPass ==
    /\ pass' = "scan" /\ worked' = FALSE /\ scanError' = FALSE
    /\ IF sess.on THEN UNCHANGED <<sess, dirs, steady>>
       ELSE sess' = [NoSession EXCEPT !.on = TRUE, !.queue = <<Root>>] /\ dirs' = Unscanned /\ steady' = Tree

TimerFires ==   \* refresh: one pass runs, one more may wait for it
    /\ refreshTimer /\ refreshTimer' = FALSE
    /\ IF pass = "none" THEN StartPass /\ UNCHANGED queuedRefresh
       ELSE queuedRefresh' = TRUE /\ UNCHANGED <<pass, worked, scanError, sess, dirs, steady>>
    /\ UNCHANGED <<onDisk, obj, rows, hint, watch, listed, indexEvents>>

Schedule == /\ refreshTimer' = TRUE
            /\ UNCHANGED <<onDisk, obj, rows, dirs, sess, pass, worked, queuedRefresh, listed, scanError, steady>>

Reconcile == ~refreshTimer /\ Schedule /\ UNCHANGED <<hint, watch, indexEvents>>   \* scanIntervalMs
WatcherReports == hint /\ hint' = FALSE /\ Schedule /\ UNCHANGED <<watch, indexEvents>>
WatcherFails == watch = "live" /\ watch' = "error" /\ hint' = FALSE /\ Schedule /\ Change

\* The pass ends with session s: a queued refresh runs at once.
EndPass(s) ==
    /\ IF queuedRefresh
       THEN /\ queuedRefresh' = FALSE /\ pass' = "scan" /\ worked' = FALSE
            /\ IF s.on THEN sess' = s /\ UNCHANGED <<dirs, steady>>
               ELSE sess' = [NoSession EXCEPT !.on = TRUE, !.queue = <<Root>>] /\ dirs' = Unscanned /\ steady' = Tree
       ELSE pass' = "none" /\ worked' = FALSE /\ sess' = s /\ UNCHANGED <<queuedRefresh, dirs, steady>>
    /\ UNCHANGED <<onDisk, obj, rows, hint, watch, scanError>>

\* The work budget is spent, checked before an entry is taken.
PauseLosing ==
    /\ pass # "none" /\ worked /\ refreshTimer' = TRUE /\ UNCHANGED <<listed, indexEvents>>
    /\ \E p \in sess.left \cup {"none"} : EndPass([sess EXCEPT !.left = @ \ {p}, !.yielded = @ \cup {p}])

Pause == /\ pass # "none" /\ worked /\ refreshTimer' = TRUE /\ EndPass(sess) /\ UNCHANGED <<listed, indexEvents>>

ScanFails ==   \* storage, or a policy that changed: the session is given up, and a refresh queued behind it too
    /\ pass # "none" /\ Change /\ pass' = "none" /\ sess' = NoSession /\ scanError' = TRUE /\ queuedRefresh' = FALSE
    /\ UNCHANGED <<onDisk, obj, rows, dirs, worked, refreshTimer, hint, watch, listed, steady>>

-------------------------------------------------------------------------------
\* The walk
ScanStep == worked' = TRUE /\ UNCHANGED <<onDisk, obj, refreshTimer, queuedRefresh, hint, watch, listed, scanError, steady, indexEvents>>
Readable(f) == f = Root \/ IsFolder("d", onDisk["d"])
Entries(f) == {p \in Tree : ParentOf(p) = f /\ onDisk[p] # 0}

OpenFolder ==
    /\ pass = "scan" /\ sess.current = "none" /\ sess.queue # <<>> /\ ScanStep
    /\ LET f == Head(sess.queue) IN
       IF Readable(f)
       THEN /\ dirs' = [dirs EXCEPT ![f] = "open"]
            /\ sess' = [sess EXCEPT !.queue = Tail(@), !.current = f, !.before = obj, !.left = Entries(f), !.yielded = {}]
       ELSE dirs' = [dirs EXCEPT ![f] = "error"] /\ sess' = [sess EXCEPT !.queue = Tail(@)]
    /\ UNCHANGED <<rows, pass>>

\* The folder at the address is the one that was opened.
SameObject == sess.current = Root \/ (Readable("d") /\ sess.before = obj)
AbandonFolder == /\ dirs' = [dirs EXCEPT ![sess.current] = "error"] /\ sess' = [sess EXCEPT !.current = "none"]
                 /\ UNCHANGED <<rows, pass>>

\* A folder lists what it held when it was opened, and perhaps what came
\* later; a path that is gone by its stat is not seen.
ProcessEntry ==
    /\ pass = "scan" /\ sess.current # "none" /\ ScanStep
    /\ \E p \in (sess.left \cup Entries(sess.current)) \ sess.yielded :
         LET s == [sess EXCEPT !.yielded = @ \cup {p}, !.left = @ \ {p}] IN
         IF onDisk[p] = 0 THEN sess' = s /\ UNCHANGED <<rows, dirs>>
         ELSE /\ rows' = [rows EXCEPT ![p] = onDisk[p]]
              /\ IF IsFolder(p, onDisk[p])
                 THEN sess' = [s EXCEPT !.seen = @ \cup {p}, !.nonDirectories = @ \ {p}, !.queue = Append(@, p)] /\ UNCHANGED dirs
                 ELSE /\ sess' = [s EXCEPT !.seen = @ \cup {p}, !.nonDirectories = @ \cup {p}]
                      /\ dirs' = IF IsFolder(p, rows[p]) THEN [dirs EXCEPT ![p] = "no"] ELSE dirs
    /\ UNCHANGED pass

EndFolder ==
    /\ pass = "scan" /\ sess.current # "none" /\ ScanStep
    /\ IF ~SameObject THEN AbandonFolder
       ELSE /\ {p \in sess.left : onDisk[p] # 0} = {}
            /\ dirs' = [dirs EXCEPT ![sess.current] = "done"] /\ sess' = [sess EXCEPT !.current = "none"]
            /\ UNCHANGED <<rows, pass>>

FolderFails == pass = "scan" /\ sess.current # "none" /\ Change /\ AbandonFolder /\ worked' = TRUE
               /\ UNCHANGED <<onDisk, obj, refreshTimer, queuedRefresh, hint, watch, listed, scanError, steady>>

\* #missing: its folder was listed to the end without it, or it has none.
Missing(p) ==
    \/ p \notin sess.seen /\ dirs[ParentOf(p)] = "done"
    \/ p = "g" /\ ("d" \in sess.nonDirectories \/ ("d" \notin sess.seen /\ dirs[Root] = "done"))

StartPrune ==
    /\ pass = "scan" /\ sess.current = "none" /\ sess.queue = <<>> /\ pass' = "prune"
    /\ sess' = IF sess.pruning THEN sess ELSE [sess EXCEPT !.pruning = TRUE, !.rest = {p \in Tree : rows[p] # 0}]
    /\ UNCHANGED <<onDisk, obj, rows, dirs, worked, refreshTimer, queuedRefresh, hint, watch, listed, scanError, steady, indexEvents>>

Prune ==
    /\ pass = "prune" /\ ScanStep /\ UNCHANGED <<dirs, pass>>
    /\ \E p \in sess.rest : /\ sess' = [sess EXCEPT !.rest = @ \ {p}]
                            /\ rows' = IF Missing(p) THEN [rows EXCEPT ![p] = 0] ELSE rows

Complete == pass = "prune" /\ sess.rest = {} /\ listed' = TRUE /\ EndPass(NoSession) /\ UNCHANGED <<refreshTimer, indexEvents>>

-------------------------------------------------------------------------------
\* The workspace changes under the scan
DiskChanges ==
    /\ Change /\ hint' = (watch = "live")
    /\ \E p \in Tree, v \in 0 .. 2 :
         /\ v # onDisk[p] /\ (p = "g" => Readable("d"))
         /\ onDisk' = [q \in Tree |-> IF q = p THEN v ELSE IF q = "g" /\ p = "d" THEN 0 ELSE onDisk[q]]
         /\ obj' = IF p = "d" /\ v = 1 THEN obj + 1 ELSE obj
         /\ steady' = steady \ (IF p = "d" THEN {"d", "g"} ELSE {p})
    /\ UNCHANGED <<rows, dirs, sess, pass, worked, refreshTimer, queuedRefresh, watch, listed, scanError>>

IndexNext ==
    \/ TimerFires \/ Reconcile \/ WatcherReports \/ WatcherFails \/ Pause \/ ScanFails \/ OpenFolder \/ ProcessEntry
    \/ EndFolder \/ FolderFails \/ StartPrune \/ Prune \/ Complete \/ DiskChanges

IndexSpec == IndexInit /\ [][IndexNext]_indexVars

-------------------------------------------------------------------------------
NoErrors == ~scanError /\ \A f \in Folders : dirs[f] # "error"

\* settledGeneration
IndexSettled == listed /\ ~sess.on /\ pass = "none" /\ ~refreshTimer /\ watch = "live" /\ NoErrors

\* A session that ends without errors is exact about what did not change
\* under it, in however many passes it was walked: every such file is
\* listed in its version, and no row is left for one that was absent.
PassIsExact == listed /\ ~sess.on /\ NoErrors => \A p \in steady : rows[p] = onDisk[p]

\* What settledGeneration's comment says: a file missing from a settled
\* index is gone, or arrived too recently to be reported by the watcher.
SettledIsComplete == IndexSettled /\ ~hint => \A p \in Tree : onDisk[p] # 0 => rows[p] # 0
================================================================================
