-------------------------------- MODULE OwnedDemo --------------------------------
(***************************************************************************)
(* The sample workspace a new project starts with (owned-demo.js), and the *)
(* lifecycle admission that closes publication for good                    *)
(* (lifecycle-admission.js, the drain of files-server.js).  Startup        *)
(* installs the seed files before any other writer runs; an observer then  *)
(* captures and holds the map's inputs and saves one map.  The backend     *)
(* grants a permit for each stage, with a deadline, and is told the outcome*)
(* by checkpoints that are retained until they are acknowledged.  Deletion *)
(* of the project fences the runtime owner: nothing is published after it, *)
(* also when the daemon restarts.                                          *)
(* The backend is external: it grants, expires, offers a retry and         *)
(* replaces a fenced owner as the checkpoints and permits here assume.     *)
(***************************************************************************)
EXTENDS Naturals

CONSTANTS Members,        \* files of the seed, created one by one
          MaxRev, MaxOwner, MaxDemoEvents

VARIABLES be,             \* the backend's record of the assignment and its permits
          rec,            \* owned-demo.sqlite
          disk,           \* members installed, the map, the input holds, edits by users
          saveOp,         \* the map save's operation record
          task, live,     \* the step startup or runMap awaits; the dispatch still outstanding
          admission,      \* open, closed, acked (fenced and acknowledged)
          owner, demoEvents
demoVars == <<be, rec, disk, saveOp, task, live, admission, owner, demoEvents>>

None == "none"
NoPend == [stage |-> None, outcome |-> None, mode |-> None]

DemoInit ==
    /\ be = [files |-> "pending", map |-> "pending", initial |-> FALSE, rev |-> 1, over |-> FALSE,
             fp |-> None, mp |-> None, mpId |-> 0, bound |-> 0, failed |-> 0]
    /\ rec = [files |-> None, fRev |-> 0, fFail |-> 0, fSettled |-> FALSE, pend |-> NoPend, ret |-> None,
              retRev |-> 0, outcome |-> None, mFail |-> 0, mRev |-> 0, deferred |-> None, settled |-> FALSE, fence |-> 0]
    /\ disk = [members |-> 0, map |-> FALSE, holds |-> FALSE, edited |-> FALSE]
    /\ saveOp = None /\ task = "off" /\ live = None /\ admission = "open" /\ owner = 1 /\ demoEvents = 0

DemoEvent == demoEvents < MaxDemoEvents /\ demoEvents' = demoEvents + 1
Still == UNCHANGED demoEvents
DemoOpen == admission = "open"
DemoExpired == be.over /\ ~be.initial      \* checkAttempt

-------------------------------------------------------------------------------
\* Checkpoints: persisted, dispatched, and cleared by an acknowledgement
Permit(b, stage) == IF stage = "files" THEN b.fp ELSE b.mp

Accept(b, p) ==   \* the backend: a request it has taken already changes nothing
    IF p.mode = "validation" THEN [b EXCEPT !.initial = ~b.over]
    ELSE IF Permit(b, p.stage) # "granted" THEN b
    ELSE IF p.outcome = "ready"
         THEN IF p.stage = "files" THEN [b EXCEPT !.files = "ready", !.fp = "completed"]
              ELSE [b EXCEPT !.map = "ready", !.mp = "completed", !.initial = p.mode # "settlement" /\ ~b.over]
         ELSE IF p.stage = "files" THEN [b EXCEPT !.files = "failed", !.fp = "failed", !.over = TRUE]
              ELSE [b EXCEPT !.map = "failed", !.mp = "failed", !.over = TRUE, !.failed = b.mpId]

Cleared(r) == [r EXCEPT !.pend = NoPend,
                        !.fSettled = @ \/ (r.pend.mode = "settlement" /\ r.pend.stage = "files"),
                        !.settled = @ \/ (r.pend.mode = "settlement" /\ r.pend.stage = "map" /\ r.pend.outcome = "ready"),
                        !.deferred = IF r.pend.outcome = @ THEN None ELSE @]

\* dispatchCheckpoint: r has the pending checkpoint; the answer, or the
\* request, may be lost, and readiness is not sent past the deadline.
Dispatch(r, after, failing) ==
    LET p == r.pend IN
    \/ /\ p.mode = "settlement" \/ p.outcome # "ready" \/ ~DemoExpired
       /\ be' = Accept(be, p) /\ rec' = Cleared(r) /\ task' = after /\ Still
    \/ /\ p.mode = "settlement" \/ p.outcome # "ready" \/ ~DemoExpired
       /\ be' = Accept(be, p) /\ rec' = r /\ task' = failing /\ DemoEvent
    \/ /\ be' = be /\ rec' = r /\ task' = failing
       /\ IF p.mode # "settlement" /\ p.outcome = "ready" /\ DemoExpired THEN Still ELSE DemoEvent

Checkpoint(r, stage, outcome, mode, after, failing) ==
    /\ r.pend = NoPend
    /\ Dispatch([r EXCEPT !.pend = [stage |-> stage, outcome |-> outcome, mode |-> mode]], after, failing)

\* A readiness replayed past the deadline becomes a settlement.
Converted(r) == IF DemoExpired /\ r.pend.outcome = "ready" THEN [r EXCEPT !.pend.mode = "settlement"] ELSE r

RetainedPermit(stage) == IF stage = "files" THEN rec.fRev = be.rev ELSE rec.mRev = be.mpId /\ be.mpId = be.rev

LoseAuthority == admission' = "closed" /\ task' = "idle" /\ UNCHANGED <<be, rec>> /\ Still

\* validatePermit refuses the owner a deletion has fenced.
FencedNever == FALSE

Fenced == rec.fence = owner

-------------------------------------------------------------------------------
\* Startup: initializeFiles, before any other writer
Boot == /\ task = "off" /\ DemoOpen /\ task' = "boot"
        /\ UNCHANGED <<be, rec, disk, saveOp, live, admission, owner, demoEvents>>

FilesPending == rec.pend.stage = "files" /\ rec.fence = 0

BootReplay == /\ task = "boot" /\ DemoOpen /\ FilesPending /\ RetainedPermit("files")
              /\ Dispatch(Converted(rec), "boot", "off")
              /\ UNCHANGED <<disk, saveOp, live, admission, owner>>

Published(r) == [r EXCEPT !.files = "published"]

\* settleExpiredFiles: a publication with its receipt is reported ready,
\* anything less failed.
SettleFiles(after) ==
    LET done == rec.files = "published"
        r == IF done THEN rec ELSE [rec EXCEPT !.fFail = be.rev]
    IN  Checkpoint(r, "files", IF done THEN "ready" ELSE "failed", "settlement", after, "off")

FilesSettled == be.fp # "granted" \/ rec.fSettled

InitFiles ==
    /\ task = "boot" /\ DemoOpen /\ ~FilesPending
    /\ UNCHANGED <<disk, saveOp, live, owner>>
    /\ \/ be.files = "ready" /\ rec' = Published(rec) /\ task' = "index" /\ UNCHANGED <<be, admission>> /\ Still
       \/ be.files # "ready" /\ DemoExpired
          /\ IF FilesSettled
             THEN task' = (IF rec.files = "published" THEN "index" ELSE "off") /\ UNCHANGED <<be, rec, admission>> /\ Still
             ELSE SettleFiles(IF rec.files = "published" THEN "index" ELSE "off") /\ UNCHANGED admission
       \/ be.files # "ready" /\ ~DemoExpired /\ rec.files = "published" /\ task' = "index" /\ UNCHANGED <<be, rec, admission>> /\ Still

PermitFiles ==   \* the permit's answer may be lost; it is granted once
    /\ task = "boot" /\ DemoOpen /\ ~FilesPending /\ be.files = "pending" /\ ~DemoExpired /\ rec.files # "published"
    /\ rec.fFail # be.rev
    /\ \/ Fenced /\ LoseAuthority
       \/ ~Fenced /\ be' = [be EXCEPT !.fp = "granted"] /\ UNCHANGED admission
          /\ \/ rec' = [rec EXCEPT !.fence = 0, !.pend = IF rec.fence # 0 THEN NoPend ELSE @, !.fRev = be.rev,
                                   !.files = IF @ = None THEN "staging" ELSE @]
                /\ task' = "stage" /\ Still
             \/ rec' = rec /\ task' = "off" /\ DemoEvent
    /\ UNCHANGED <<disk, saveOp, live, owner>>

\* Each step is one publication: admission and the attempt are checked in it.
StepOf(t) == task = t /\ DemoOpen /\ UNCHANGED <<be, saveOp, live, admission, owner, demoEvents>>

Stage == /\ StepOf("stage") /\ ~DemoExpired /\ rec' = [rec EXCEPT !.files = "publishing"] /\ task' = "install" /\ UNCHANGED disk

Install == /\ StepOf("install") /\ ~DemoExpired /\ disk.members < Members
           /\ disk' = [disk EXCEPT !.members = @ + 1] /\ UNCHANGED <<rec, task>>

PublishFiles == /\ StepOf("install") /\ ~DemoExpired /\ disk.members = Members
                /\ rec' = Published(rec) /\ task' = "index" /\ UNCHANGED disk

StartupFails == /\ (task \in {"stage", "install"} /\ DemoExpired) \/ (task \in {"boot", "stage", "install", "index"} /\ ~DemoOpen)
                /\ task' = "off" /\ UNCHANGED <<be, rec, disk, saveOp, live, admission, owner, demoEvents>>

FilesIndexed ==
    /\ task = "index" /\ DemoOpen /\ UNCHANGED <<disk, saveOp, live, admission, owner>>
    /\ IF be.files = "ready" \/ (DemoExpired /\ FilesSettled)
       THEN task' = "idle" /\ UNCHANGED <<be, rec>> /\ Still
       ELSE IF DemoExpired THEN SettleFiles("idle")
       ELSE be.fp = "granted" /\ rec.fRev = be.rev
            /\ IF disk.edited THEN task' = "off" /\ UNCHANGED <<be, rec>> /\ Still     \* compareSources
               ELSE Checkpoint(rec, "files", "ready", "publication", "idle", "off")

-------------------------------------------------------------------------------
\* The map: runMap, one observation at a time
MapTurn == task = "idle" /\ DemoOpen /\ ~be.initial /\ be.files = "ready"

DemoReplay ==   \* reconcileCheckpoint; a permit of another attempt is an owner that was replaced
    /\ task = "idle" /\ DemoOpen /\ rec.pend # NoPend /\ rec.fence = 0
    /\ IF RetainedPermit(rec.pend.stage) THEN Dispatch(Converted(rec), "idle", "idle") /\ UNCHANGED admission
       ELSE LoseAuthority
    /\ UNCHANGED <<disk, saveOp, live, owner>>

\* A slip: a request that left is taken to be over.
OutstandingNever == FALSE

Outstanding == live # None

\* safelyAbandon: nothing of the attempt can still take effect.
Abandonable == ~Outstanding /\ saveOp \notin {"accepted", "committed", "doubt"} /\ rec.outcome # "ready"

Released(r) == IF r.ret = "held" THEN [r EXCEPT !.ret = "released"] ELSE r
LetGo == disk' = [disk EXCEPT !.holds = @ /\ rec.ret # "held"]

\* reportMapFailure: the failure is kept as intent until the attempt is
\* abandoned, and only then reported.
ReportFailure(outcome) ==
    LET r == [rec EXCEPT !.deferred = outcome] IN
    /\ rec.deferred \in {None, outcome}
    /\ IF Abandonable
       THEN LetGo /\ Checkpoint(Released([r EXCEPT !.outcome = outcome, !.mFail = be.rev]), "map", outcome,
                                IF DemoExpired THEN "settlement" ELSE "publication", "idle", "idle")
       ELSE rec' = r /\ task' = "idle" /\ UNCHANGED <<be, disk>> /\ Still

DeferredFailure ==
    /\ MapTurn /\ rec.pend = NoPend /\ rec.deferred # None
    /\ IF be.mp = "granted" /\ RetainedPermit("map") THEN ReportFailure(rec.deferred) /\ UNCHANGED admission
       ELSE LoseAuthority /\ UNCHANGED disk
    /\ UNCHANGED <<saveOp, live, owner>>

Overdue ==   \* the deadline has passed: settle what was saved, or report the failure
    /\ MapTurn /\ rec.pend = NoPend /\ rec.deferred = None /\ DemoExpired
    /\ IF saveOp = "committed"
       THEN /\ ~rec.settled /\ UNCHANGED disk
            /\ IF RetainedPermit("map")
               THEN Checkpoint([rec EXCEPT !.outcome = "ready"], "map", "ready", "settlement", "idle", "idle") /\ UNCHANGED admission
               ELSE LoseAuthority
       ELSE /\ be.mp = "granted"
            /\ IF RetainedPermit("map") THEN ReportFailure("failed") /\ UNCHANGED admission
               ELSE LoseAuthority /\ UNCHANGED disk
    /\ UNCHANGED <<saveOp, live, owner>>

Current == MapTurn /\ rec.pend = NoPend /\ rec.deferred = None /\ ~DemoExpired
Evidence == ~disk.edited /\ disk.holds /\ disk.map      \* mapEvidence

Resume ==   \* a map that was saved is reported again, never saved again
    /\ Current /\ saveOp = "committed"
    /\ IF be.mp \in {"granted", "completed"} /\ be.bound = be.rev /\ ~Fenced
       THEN /\ rec.mRev = be.mpId /\ Evidence /\ UNCHANGED admission
            /\ Checkpoint([rec EXCEPT !.outcome = "ready"], "map", "ready",
                          IF be.mp = "completed" THEN "validation" ELSE "publication", "idle", "idle")
       ELSE LoseAuthority
    /\ UNCHANGED <<disk, saveOp, live, owner>>

Unsaved == Current /\ saveOp \notin {"committed", "accepted", "doubt"}
Refused == be.map # "pending" \/ rec.outcome = "conflict" \/ rec.mFail = be.rev

PermitMap ==   \* the inputs of an earlier attempt were let go with its failure
    /\ Unsaved /\ ~Refused /\ (rec.ret = "held" => rec.retRev = be.rev)
    /\ \/ Fenced /\ LoseAuthority /\ UNCHANGED saveOp
       \/ ~Fenced /\ be' = [be EXCEPT !.mp = "granted", !.mpId = be.rev, !.bound = be.rev] /\ UNCHANGED admission
          /\ \/ /\ rec' = [rec EXCEPT !.fence = 0, !.ret = "held", !.retRev = be.rev, !.mRev = be.rev,
                                      !.settled = IF rec.ret = "held" THEN @ ELSE FALSE,
                                      !.outcome = IF rec.ret = "held" THEN @ ELSE None]
                /\ saveOp' = (IF rec.mRev = be.rev THEN saveOp ELSE None) /\ task' = "inputs" /\ Still
             \/ rec' = rec /\ task' = "idle" /\ DemoEvent /\ UNCHANGED saveOp
    /\ UNCHANGED <<disk, live, owner>>

CaptureInputs ==   \* the sources are compared, then a capture is requested
    /\ task = "inputs" /\ DemoOpen /\ UNCHANGED <<saveOp, admission, owner>>
    /\ IF disk.edited THEN ReportFailure("conflict") /\ UNCHANGED live
       ELSE IF disk.map \/ DemoExpired THEN ReportFailure(IF DemoExpired THEN "failed" ELSE "conflict") /\ UNCHANGED live
       ELSE task' = "capturing" /\ live' = "request" /\ UNCHANGED <<be, rec, disk>> /\ Still

RequestEnds == /\ live = "request" /\ live' = None
               /\ UNCHANGED <<be, rec, disk, saveOp, task, admission, owner, demoEvents>>

HoldInputs ==   \* holdSource: a publication; the binding is persisted before the hold
    /\ StepOf("capturing") /\ live = None /\ ~DemoExpired /\ disk' = [disk EXCEPT !.holds = TRUE] /\ task' = "prepared" /\ UNCHANGED rec

DispatchSave ==   \* authority is observed once more, then the intent is a publication
    /\ task = "prepared" /\ DemoOpen /\ ~DemoExpired /\ be.mp = "granted" /\ be.mpId = be.rev
    /\ task' = "saving" /\ live' = "save" /\ UNCHANGED <<be, rec, disk, saveOp, admission, owner, demoEvents>>

StepFails ==   \* a failed job, a conflict, the deadline: bounded gives up while the dispatch goes on
    /\ task \in {"capturing", "prepared", "saving"} /\ DemoOpen
    /\ \/ task # "saving" /\ live = None /\ ~DemoExpired /\ DemoEvent /\ task' = "reporting"
       \/ DemoExpired /\ saveOp # "committed" /\ task' = "reporting" /\ Still
    /\ UNCHANGED <<be, rec, disk, saveOp, live, admission, owner>>

Report ==
    /\ task = "reporting" /\ DemoOpen /\ UNCHANGED <<saveOp, live, admission, owner>>
    /\ IF saveOp \notin {None, "failed"} THEN task' = "idle" /\ UNCHANGED <<be, rec, disk>> /\ Still
       ELSE ReportFailure("failed")

\* The save itself, in the file service; its guard runs in the namespace lock.
SaveClaims == /\ live = "save" /\ saveOp \in {None, "failed"} /\ DemoOpen /\ saveOp' = "accepted"
              /\ UNCHANGED <<be, rec, disk, task, live, admission, owner, demoEvents>>

SaveEnds ==
    /\ live = "save" /\ live' = None /\ UNCHANGED <<be, rec, task, admission, owner>>
    /\ \/ saveOp = "accepted" /\ DemoOpen /\ ~DemoExpired /\ ~disk.edited /\ Still
          /\ saveOp' = "committed" /\ disk' = [disk EXCEPT !.map = TRUE]
       \/ saveOp = "accepted" /\ (~DemoOpen \/ DemoExpired \/ disk.edited) /\ Still /\ saveOp' = "failed" /\ UNCHANGED disk
       \/ saveOp = "accepted" /\ DemoOpen /\ ~DemoExpired /\ DemoEvent /\ saveOp' = "doubt"
          /\ \E m \in BOOLEAN : disk' = [disk EXCEPT !.map = m]
       \/ saveOp # "accepted" /\ ~DemoOpen /\ Still /\ UNCHANGED <<saveOp, disk>>

SaveReturns ==
    /\ task = "saving" /\ live = None /\ DemoOpen /\ UNCHANGED <<disk, saveOp, live, admission, owner>>
    /\ IF saveOp = "committed" /\ Evidence
       THEN Checkpoint([rec EXCEPT !.outcome = "ready"], "map", "ready", "publication", "idle", "idle")
       ELSE task' = (IF saveOp = "failed" THEN "reporting" ELSE "idle") /\ UNCHANGED <<be, rec>> /\ Still

Preempted ==   \* admission closed under it: the attempt is left as it is
    /\ ~DemoOpen /\ task \in {"inputs", "capturing", "prepared", "saving", "reporting"} /\ task' = "idle"
    /\ UNCHANGED <<be, rec, disk, saveOp, live, admission, owner, demoEvents>>

-------------------------------------------------------------------------------
\* Lifecycle: drains, stops, and what the backend and the users do
DemoDrain ==   \* closure is synchronous; the fence is durable before the barrier
    /\ admission # "acked" /\ admission' = "closed"
    /\ \/ rec' = [rec EXCEPT !.fence = owner] /\ (DemoEvent \/ (rec.fence = owner /\ Still))
       \/ DemoOpen /\ DemoEvent /\ UNCHANGED rec
    /\ UNCHANGED <<be, disk, saveOp, task, live, owner>>

CapturesUp == task \in {"index", "idle"}

Barrier ==   \* the last publication has ended; the inputs are let go, and the drain acknowledged
    /\ admission = "closed" /\ Fenced /\ (CapturesUp \/ rec.ret # "held")
    /\ admission' = "acked" /\ rec' = Released(rec) /\ LetGo
    /\ UNCHANGED <<be, saveOp, task, live, owner, demoEvents>>

Stop ==   \* a crash or a shutdown; the next start recovers the save's record
    /\ DemoEvent /\ (task # "off" \/ ~DemoOpen) /\ task' = "off" /\ live' = None /\ admission' = "open"
    /\ saveOp' \in (CASE saveOp \in {"accepted", "doubt"} -> IF disk.map THEN {"committed", "doubt"} ELSE {"failed", "doubt"}
                      [] OTHER -> {saveOp})
    /\ UNCHANGED <<be, rec, disk, owner>>

Deadline == /\ ~be.over /\ ~be.initial /\ DemoEvent /\ be' = [be EXCEPT !.over = TRUE]
            /\ UNCHANGED <<rec, disk, saveOp, task, live, admission, owner>>

Carried(b) == IF b.mp = "completed" THEN [b EXCEPT !.bound = b.rev + 1] ELSE [b EXCEPT !.mp = None]
NewAttempt(b) == [Carried(b) EXCEPT !.rev = b.rev + 1, !.over = FALSE, !.fp = IF @ = "completed" THEN @ ELSE None,
                                    !.files = IF @ = "failed" THEN "pending" ELSE @,
                                    !.map = IF @ = "failed" THEN "pending" ELSE @]

Retry == /\ be.over /\ ~be.initial /\ be.fp # "granted" /\ be.mp # "granted" /\ be.rev < MaxRev /\ be' = NewAttempt(be)
         /\ UNCHANGED <<rec, disk, saveOp, task, live, admission, owner, demoEvents>>

Replace ==   \* a fenced owner is replaced, in a new attempt
    /\ admission = "acked" /\ owner < MaxOwner /\ owner' = owner + 1 /\ be.rev < MaxRev /\ be' = NewAttempt(be)
    /\ task' = "off" /\ live' = None /\ admission' = "open"
    /\ saveOp' = (IF saveOp = "accepted" THEN "failed" ELSE saveOp) /\ UNCHANGED <<rec, disk, demoEvents>>

UserEdits == /\ task \notin {"off", "boot", "stage", "install"} /\ disk.members = Members /\ ~disk.edited /\ DemoEvent
             /\ disk' = [disk EXCEPT !.edited = TRUE]
             /\ UNCHANGED <<be, rec, saveOp, task, live, admission, owner>>

OperatorRelease == /\ be.initial /\ DemoOpen /\ task = "idle" /\ rec.ret = "held" /\ DemoEvent
                   /\ rec' = Released(rec) /\ LetGo /\ UNCHANGED <<be, saveOp, task, live, admission, owner>>

DemoNext ==
    \/ Boot \/ BootReplay \/ InitFiles \/ PermitFiles \/ Stage \/ Install \/ PublishFiles \/ StartupFails \/ FilesIndexed
    \/ DemoReplay \/ DeferredFailure \/ Overdue \/ Resume \/ PermitMap \/ CaptureInputs \/ RequestEnds
    \/ HoldInputs \/ DispatchSave \/ StepFails \/ Report \/ SaveClaims \/ SaveEnds \/ SaveReturns \/ Preempted
    \/ DemoDrain \/ Barrier \/ Stop \/ Deadline \/ Retry \/ Replace \/ UserEdits \/ OperatorRelease

DemoSpec == DemoInit /\ [][DemoNext]_demoVars

-------------------------------------------------------------------------------
\* What the backend has been told is true and stays true: files reported
\* ready are all installed, a map reported ready is saved and its inputs
\* are held until they are released on purpose, and once an attempt is
\* reported failed nothing of it can still act: no request or save is
\* outstanding, and its map does not exist.
DemoTruthful ==
    /\ be.files = "ready" => disk.members = Members
    /\ be.map = "ready" => saveOp = "committed" /\ disk.map /\ (rec.ret = "held" => disk.holds)
    /\ be.failed # 0 /\ be.failed = rec.mRev /\ be.failed = be.mpId => saveOp \in {None, "failed"} /\ live = None

\* A fence stands for its owner: once deletion has fenced it, no restart
\* or late answer installs a file, saves the map or takes a hold, and the
\* fence is lifted only for a replacement.
FenceHolds ==
    [][rec.fence = owner /\ owner' = owner =>
          /\ rec'.fence = owner
          /\ disk'.members = disk.members /\ disk'.map = disk.map /\ (disk'.holds => disk.holds)]_demoVars
================================================================================
