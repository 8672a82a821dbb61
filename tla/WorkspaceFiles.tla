--------------------------- MODULE WorkspaceFiles ---------------------------
(***************************************************************************)
(* The mutations of the workspace (runtime/lib/workspace-files.js).        *)
(*                                                                         *)
(* Uploads, folders, moves, deletions and restores are operations with a   *)
(* durable record.  Service writers exclude each other by one lock; other  *)
(* programs write the same files without it.  The record says "publishing" *)
(* before the one rename that takes effect, and what a crash leaves behind *)
(* is proved from the identity of the objects, or stays indeterminate.     *)
(*                                                                         *)
(* An address stands for its path and the identity of its parent, an       *)
(* observation for object, size and times.  A chain of parent folders is   *)
(* one folder; digests, limits and HTTP preconditions only decide whether  *)
(* an operation fails early.                                               *)
(***************************************************************************)
EXTENDS Naturals, FiniteSets

CONSTANTS
    Paths,
    Ops,            \* operation ids; an upload or mkdir creates the object of its id
    OldFile,        \* the file present at the start
    Earlier,        \* deletions already committed at the start
    Foreign,        \* objects other programs may put at an address
    QueueSize,      \* limits.queueSize: operations in flight
    MaxOpErrors, MaxOpCrashes, MaxForeign

\* Objects are told apart by who made them, and paths are finitely many.
ASSUME FilesAssumption ==
    /\ IsFiniteSet(Paths) /\ Earlier \subseteq Ops
    /\ "none" \notin Paths \cup Ops \cup Foreign \cup {OldFile}
    /\ OldFile \notin Ops \cup Foreign /\ Ops \cap Foreign = {}

VARIABLES
    ns,             \* address -> the object there
    touched,        \* objects another program has written to in place
    trash,          \* delete -> the object it moved to the trash
    recov,          \* delete -> its recovery record
    late,           \* deletes whose recovery has expired
    intent, st,     \* the durable record of an operation
    cand,           \* its evidence: the object it is about
    stg, pend,      \* where its staged candidate is; its pending clean-up
    pc, lock,       \* how far its request is; who holds the lock
    did, over,      \* the object it renamed (effectApplied); what that replaced
    todo, mode, opErrors, opCrashes, foreign

disk == <<ns, touched, trash, recov, late>>
record == <<intent, st, cand, stg, pend>>
request == <<pc, lock, did, over>>
budget == <<opErrors, opCrashes, foreign>>
filesVars == <<disk, record, request, todo, mode, budget>>

None == "none"
Uploads == {"create", "replace", "force-replace"}
Settled == {"committed", "failed", "aborted"}     \* `terminal`

Observation(p) == <<ns[p], ns[p] \in touched>>

\* What the requests ask for, with the observations the client has at that time.
Intents ==
    [kind : Uploads \cup {"mkdir"}, from : {None}, to : Paths, of : {None}, replace : {FALSE}]
    \cup {i \in [kind : {"move"}, from : Paths, to : Paths, of : {None}, replace : BOOLEAN] : i.from # i.to}
    \cup [kind : {"delete"}, from : Paths, to : {None}, of : {None}, replace : {FALSE}]
    \cup [kind : {"restore"}, from : {None}, to : Paths, of : Ops, replace : {FALSE}]
NoIntent == [kind |-> None, from |-> None, to |-> None, of |-> None, replace |-> FALSE,
             base |-> <<None, FALSE>>, dest |-> <<None, FALSE>>]

FilesInit ==
    /\ ns \in {f \in [Paths -> {None, OldFile}] : Cardinality({p \in Paths : f[p] = OldFile}) = 1}
    /\ intent = [o \in Ops |->
         IF o \in Earlier THEN [NoIntent EXCEPT !.kind = "delete", !.base = <<o, FALSE>>] ELSE NoIntent]
    /\ st = [o \in Ops |-> IF o \in Earlier THEN "committed" ELSE None]
    /\ recov = [o \in Ops |-> IF o \in Earlier THEN "available" ELSE None]
    /\ cand = [o \in Ops |-> IF o \in Earlier THEN o ELSE None]
    /\ trash = cand /\ did = cand /\ over = [o \in Ops |-> None]
    /\ stg = [o \in Ops |-> None] /\ pend = [o \in Ops |-> None] /\ pc = [o \in Ops |-> None]
    /\ touched = {} /\ late = {} /\ lock = None
    /\ todo = {} /\ mode = "ready" /\ opErrors = 0 /\ opCrashes = 0 /\ foreign = 0

Up == mode = "ready"
IsUpload(o) == intent[o].kind \in Uploads
At(o, where) == Up /\ pc[o] = where
Save(o, s) == st' = [st EXCEPT ![o] = s]
Step(o, where) == pc' = [pc EXCEPT ![o] = where]
Error == opErrors < MaxOpErrors /\ opErrors' = opErrors + 1

-----------------------------------------------------------------------------
\* Admission and the end of a request

\* accept: one record per operation id, one slot until the request ends.  A
\* repeated id is answered from the record and changes nothing.
Accept(o) ==
    /\ mode = "ready" /\ lock = None /\ st[o] = None
    /\ Cardinality({x \in Ops : pc[x] # None}) < QueueSize
    /\ \E i \in Intents :
         /\ i.kind = "restore" => i.of # o /\ recov[i.of] # None
         /\ i.kind \in {"move", "delete"} => ns[i.from] # None
         /\ i.kind = "replace" => ns[i.to] # None
         /\ intent' = [intent EXCEPT ![o] =
                [kind |-> i.kind, from |-> i.from, to |-> i.to, of |-> i.of, replace |-> i.replace,
                 base |-> IF i.kind \in {"move", "delete"} THEN Observation(i.from)
                          ELSE IF i.kind = "replace" THEN Observation(i.to) ELSE <<None, FALSE>>,
                 dest |-> IF i.replace THEN Observation(i.to) ELSE <<None, FALSE>>]]
         /\ Step(o, IF i.kind \in Uploads THEN "stream" ELSE "begin")
    /\ Save(o, "accepted")
    /\ UNCHANGED <<disk, cand, stg, pend, lock, did, over, todo, mode, budget>>

\* A slip: an error of the rename itself is taken as proof that nothing happened.
FailedAsTrusting(o, io) ==
    IF did[o] # None THEN "indeterminate"
    ELSE IF st[o] = "publishing" THEN "aborted" ELSE "failed"

\* failed(): only a refusal that excludes an effect may settle the record.
FailedAs(o, io) ==
    IF did[o] # None \/ (st[o] = "publishing" /\ io) THEN "indeterminate"
    ELSE IF st[o] = "publishing" THEN "aborted" ELSE "failed"

\* A slip: the candidate is unlinked whatever the outcome.
UnstageAlways(o, s) == stg' = [stg EXCEPT ![o] = None]

\* The candidate is unlinked unless the outcome is indeterminate; that may fail.
Unstage(o, s) ==
    IF s = "indeterminate" \/ ~IsUpload(o) THEN UNCHANGED stg
    ELSE stg' = [stg EXCEPT ![o] = None] \/ UNCHANGED stg

Fail(o, io) ==
    /\ Save(o, FailedAs(o, io)) /\ Unstage(o, FailedAs(o, io))
    /\ Step(o, None) /\ lock' = IF lock = o THEN None ELSE lock

-----------------------------------------------------------------------------
\* The steps of a request

\* checkBase and the conditions of uploads, mkdir, move, delete and restoreRecovery.
UploadMay(i) ==
    \/ i.kind = "create" /\ ns[i.to] = None
    \/ i.kind = "replace" /\ Observation(i.to) = i.base
    \/ i.kind = "force-replace"
MkdirMay(i) == i.kind = "mkdir" /\ ns[i.to] = None
MoveMay(i) ==
    /\ i.kind = "move" /\ Observation(i.from) = i.base
    /\ ns[i.to] # None \/ i.dest[1] # None => i.replace /\ Observation(i.to) = i.dest
DeleteMay(i) == i.kind = "delete" /\ Observation(i.from) = i.base
RestoreMay(i) ==
    /\ i.kind = "restore" /\ recov[i.of] = "available" /\ i.of \notin late
    /\ ns[i.to] = None /\ trash[i.of] = cand[i.of]
MayPublish(o) ==
    LET i == intent[o] IN UploadMay(i) \/ MkdirMay(i) \/ MoveMay(i) \/ DeleteMay(i) \/ RestoreMay(i)

\* The body is streamed and retained as a capture.
Stream(o) ==
    /\ At(o, "stream")
    /\ Save(o, "streaming") /\ Step(o, "stage")
    /\ UNCHANGED <<disk, intent, cand, stg, pend, lock, did, over, todo, mode, budget>>

\* Under the lock: a first check, then the candidate; its bytes are copied after.
Stage(o) ==
    /\ At(o, "stage") /\ lock = None
    /\ IF MayPublish(o)
       THEN /\ stg' = [stg EXCEPT ![o] = "ws"] /\ cand' = [cand EXCEPT ![o] = o]
            /\ Save(o, "staged") /\ Step(o, "begin") /\ UNCHANGED lock
       ELSE Fail(o, FALSE) /\ UNCHANGED cand
    /\ UNCHANGED <<disk, intent, pend, did, over, todo, mode, budget>>

\* A slip: the observation was checked when the candidate was staged.
RecheckUploadsNot(o) == IsUpload(o) \/ MayPublish(o)

Recheck(o) == MayPublish(o)

\* The object the record names as evidence before the rename.
Candidate(o) ==
    CASE intent[o].kind \in {"move", "delete"} -> ns[intent[o].from]
      [] intent[o].kind = "restore" -> cand[intent[o].of]
      [] OTHER -> o

\* Under the lock: check again, then the record says "publishing".
BeginPublish(o) ==
    /\ At(o, "begin") /\ lock = None
    /\ IF Recheck(o)
       THEN /\ lock' = o /\ cand' = [cand EXCEPT ![o] = Candidate(o)]
            /\ Save(o, "publishing") /\ Step(o, "rename") /\ UNCHANGED stg
       ELSE Fail(o, FALSE) /\ UNCHANGED cand
    /\ UNCHANGED <<disk, intent, pend, did, over, todo, mode, budget>>

\* The rename moves whatever has the name now.
Source(o) ==
    CASE intent[o].kind \in {"move", "delete"} -> ns[intent[o].from]
      [] intent[o].kind = "restore" -> trash[intent[o].of]
      [] OTHER -> o
NoReplace(o) ==
    \/ intent[o].kind \in {"create", "mkdir", "restore"}
    \/ intent[o].kind = "move" /\ ~intent[o].replace

Occupied(o) == intent[o].to # None /\ ns[intent[o].to] # None

Effect(o) ==
    LET i == intent[o] IN
    /\ ns' = [p \in Paths |-> IF p = i.to THEN Source(o) ELSE IF p = i.from THEN None ELSE ns[p]]
    /\ trash' = [x \in Ops |-> IF x = o /\ i.kind = "delete" THEN Source(o)
                               ELSE IF x = i.of THEN None ELSE trash[x]]
    /\ did' = [did EXCEPT ![o] = Source(o)]
    /\ over' = [over EXCEPT ![o] = IF Occupied(o) THEN ns[i.to] ELSE None]
    /\ stg' = [stg EXCEPT ![o] = None]

Rename(o) ==
    /\ At(o, "rename")
    /\ \/ /\ Source(o) # None /\ ~(Occupied(o) /\ NoReplace(o))
          /\ Effect(o) /\ Step(o, "prove") /\ UNCHANGED <<cand, st, lock>>
       \/ /\ Source(o) = None \/ (Occupied(o) /\ NoReplace(o))
          /\ Fail(o, FALSE) /\ UNCHANGED <<ns, trash, cand, did, over>>
       \/ /\ Occupied(o) /\ intent[o].kind = "mkdir"     \* another writer made the folder
          /\ cand' = [cand EXCEPT ![o] = ns[intent[o].to]] /\ Step(o, "prove")
          /\ UNCHANGED <<ns, trash, did, over, st, stg, lock>>
    /\ UNCHANGED <<touched, recov, late, intent, pend, todo, mode, budget>>

\* The rename fails with an error that excludes nothing, or a sync behind it does.
RenameFails(o) ==
    /\ pc[o] \in {"rename", "prove"} /\ Up /\ Error
    /\ \/ Fail(o, TRUE) /\ UNCHANGED <<ns, trash, did, over>>
       \/ /\ pc[o] = "rename" /\ Source(o) # None /\ ~(Occupied(o) /\ NoReplace(o))
          /\ Effect(o) /\ Save(o, FailedAs(o, TRUE)) /\ Step(o, None) /\ lock' = None
    /\ UNCHANGED <<touched, recov, late, intent, cand, pend, todo, mode, opCrashes, foreign>>

\* prove: the object is at its address (a deleted one in the trash, and only there).
Proved(o) ==
    IF intent[o].kind = "delete" THEN trash[o] = cand[o] /\ ns[intent[o].from] # cand[o]
    ELSE ns[intent[o].to] = cand[o]

Prove(o) ==
    /\ At(o, "prove")
    /\ IF Proved(o)
       THEN /\ Step(o, "commit") /\ lock' = IF IsUpload(o) THEN None ELSE lock
            /\ UNCHANGED <<st, stg>>
       ELSE Fail(o, TRUE)
    /\ UNCHANGED <<disk, intent, cand, pend, did, over, todo, mode, budget>>

\* committed: the receipt and the recovery records are one transaction.
Receipt(o) ==
    recov' = [x \in Ops |-> IF x = o /\ intent[o].kind = "delete" THEN "available"
                            ELSE IF x = intent[o].of THEN "restored" ELSE recov[x]]

Commit(o) ==
    /\ At(o, "commit") /\ lock \in {None, o}
    /\ Receipt(o) /\ Save(o, "committed") /\ Unstage(o, "committed")
    /\ Step(o, None) /\ lock' = None
    /\ UNCHANGED <<ns, touched, trash, late, intent, cand, pend, did, over, todo, mode, budget>>

\* The transaction fails, or only its acknowledgement is lost: an upload then
\* finds its receipt, the others record that they do not know.
CommitFails(o) ==
    /\ At(o, "commit") /\ lock \in {None, o} /\ Error
    /\ \/ Fail(o, TRUE) /\ UNCHANGED recov
       \/ /\ Receipt(o) /\ Save(o, IF IsUpload(o) THEN "committed" ELSE "indeterminate")
          /\ Step(o, None) /\ lock' = None /\ UNCHANGED stg
    /\ UNCHANGED <<ns, touched, trash, late, intent, cand, pend, did, over, todo, mode, opCrashes, foreign>>

-----------------------------------------------------------------------------
\* Retention

\* cleanupStaging: the candidate of a settled upload goes through the trash,
\* each move recorded before it is made.
CleanStaging(o) ==
    /\ Up /\ lock = None /\ pc[o] = None /\ st[o] \in {"failed", "aborted"}
    /\ \/ stg[o] = "ws" /\ pend[o] = None /\ pend' = [pend EXCEPT ![o] = "moving"] /\ UNCHANGED stg
       \/ stg[o] = "ws" /\ pend[o] = "moving" /\ stg' = [stg EXCEPT ![o] = "trash"] /\ UNCHANGED pend
       \/ stg[o] = "trash" /\ pend[o] = "moving" /\ pend' = [pend EXCEPT ![o] = "removing"] /\ UNCHANGED stg
       \/ stg[o] = "trash" /\ pend[o] = "removing" /\ stg' = [stg EXCEPT ![o] = None] /\ UNCHANGED pend
       \/ stg[o] = None /\ pend[o] # None /\ pend' = [pend EXCEPT ![o] = None] /\ UNCHANGED stg
    /\ UNCHANGED <<disk, intent, st, cand, request, todo, mode, budget>>

RecoveryExpires(o) ==
    /\ recov[o] = "available" /\ o \notin late
    /\ late' = late \cup {o}
    /\ UNCHANGED <<ns, touched, trash, recov, record, request, todo, mode, budget>>

\* sweep: the trash of an expired deletion is emptied, then recorded.
SweepTrash(o) ==
    /\ mode = "ready" /\ lock = None
    /\ st[o] = "committed" /\ recov[o] = "available" /\ o \in late /\ trash[o] # None
    /\ trash' = [trash EXCEPT ![o] = None]
    /\ recov' = [recov EXCEPT ![o] = "expired"] \/ UNCHANGED recov
    /\ UNCHANGED <<ns, touched, late, record, request, todo, mode, budget>>

-----------------------------------------------------------------------------
\* Crash and recovery

\* A drained service only accepts nothing more, which it may do at any time.
Crash ==
    /\ mode # "down" /\ opCrashes < MaxOpCrashes
    /\ opCrashes' = opCrashes + 1
    /\ mode' = "down" /\ pc' = [o \in Ops |-> None] /\ lock' = None /\ todo' = {}
    /\ UNCHANGED <<disk, record, did, over, opErrors, foreign>>

Restart ==
    /\ mode = "down"
    /\ mode' = "recovering" /\ todo' = {o \in Ops : st[o] \notin Settled \cup {None}}
    /\ UNCHANGED <<disk, record, request, budget>>

\* recoverOperations: what the objects prove of an interrupted publication.
ProvedAfterwards(o) ==
    /\ Proved(o)
    /\ intent[o].kind = "move" => ns[intent[o].from] # cand[o]
    /\ intent[o].kind = "restore" => trash[intent[o].of] = None

\* A restore that left the trash and its destination as they were did nothing.
ExcludedAfterwards(o) ==
    /\ intent[o].kind = "restore"
    /\ ns[intent[o].to] = None /\ trash[intent[o].of] = cand[o]

RecoverOp(o) ==
    /\ mode = "recovering" /\ o \in todo
    /\ todo' = todo \ {o}
    /\ IF st[o] \in {"accepted", "streaming", "staged"} THEN Save(o, "aborted") /\ UNCHANGED recov
       ELSE IF st[o] = "indeterminate" /\ ~IsUpload(o) THEN UNCHANGED <<st, recov>>
       ELSE IF ProvedAfterwards(o) THEN Save(o, "committed") /\ Receipt(o)
       ELSE /\ Save(o, IF ExcludedAfterwards(o) THEN "aborted" ELSE "indeterminate")
            /\ UNCHANGED recov
    /\ UNCHANGED <<ns, touched, trash, late, intent, cand, stg, pend, request, mode, budget>>

Recovered ==
    /\ mode = "recovering" /\ todo = {}
    /\ mode' = "ready"
    /\ UNCHANGED <<disk, record, request, todo, budget>>

\* Other programs: write in place, put another object there, or remove it.
OtherProgram ==
    /\ foreign < MaxForeign /\ foreign' = foreign + 1
    /\ \E p \in Paths :
         \/ ns[p] # None /\ touched' = touched \cup {ns[p]} /\ UNCHANGED ns
         \/ \E e \in (Foreign \ {ns[q] : q \in Paths}) \cup {None} :
              ns' = [ns EXCEPT ![p] = e] /\ ns[p] # e /\ UNCHANGED touched
    /\ UNCHANGED <<trash, recov, late, record, request, todo, mode, opErrors, opCrashes>>

FilesNext ==
    \/ Crash \/ Restart \/ Recovered \/ OtherProgram
    \/ \E o \in Ops :
         \/ Accept(o) \/ Stream(o) \/ Stage(o) \/ BeginPublish(o) \/ Rename(o) \/ RenameFails(o)
         \/ Prove(o) \/ Commit(o) \/ CommitFails(o)
         \/ CleanStaging(o) \/ RecoveryExpires(o) \/ SweepTrash(o) \/ RecoverOp(o)

FilesSpec == FilesInit /\ [][FilesNext]_filesVars

-----------------------------------------------------------------------------
\* Properties

\* A settled receipt tells the truth, whatever failed or crashed: "committed"
\* only if the very object of the evidence was moved, "failed" and "aborted" only
\* if nothing was.  A folder may be another writer's, and an object that other
\* programs brought they may put in its place themselves.
ReceiptsTruthful ==
    \A o \in Ops :
        /\ st[o] = "committed" =>
             did[o] = cand[o] \/ intent[o].kind = "mkdir" \/ (intent[o].kind = "move" /\ cand[o] \in Foreign)
        /\ st[o] \in {"failed", "aborted"} => did[o] = None

\* No lost update between service writers: what an operation replaced is what
\* its client had observed, or what another program put there meanwhile.
NoLostUpdate ==
    \A o \in Ops : over[o] \in Ops \cup {OldFile} =>
        \/ intent[o].kind = "force-replace"
        \/ over[o] \in {intent[o].base[1], intent[o].dest[1]}

\* Evidence and deleted entries are kept: the candidate of an unsettled
\* publication, and what a recovery record still offers, unless a restore took it.
EvidenceKept ==
    \A o \in Ops :
        /\ IsUpload(o) /\ st[o] \in {"publishing", "indeterminate"} /\ did[o] = None => stg[o] = "ws"
        /\ recov[o] = "available" /\ o \notin late =>
             \/ trash[o] = cand[o]
             \/ \E r \in Ops : intent[r].of = o /\ did[r] = cand[o]

\* Settled receipts tell the truth, no client's write is lost, and what a recovery
\* offers or a publication in doubt needs is kept.
FilePromises == ReceiptsTruthful /\ NoLostUpdate /\ EvidenceKept
=============================================================================
