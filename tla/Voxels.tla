--------------------------------- MODULE Voxels ---------------------------------
(***************************************************************************)
(* Voxel artifacts (voxels.js, voxel-registry.js, voxel-named.js and their *)
(* transactions in file-state-worker.js).  A submission computes arrays in *)
(* a worker, publishes them as held captures and a manifest as a workspace *)
(* file, registers the artifact and makes it the head of a named voxel by  *)
(* compare and swap.  A stop anywhere leaves evidence from which the next  *)
(* boot recovers the publication, fails it, or leaves it unresolved; an    *)
(* artifact may be deleted at any time, and one whose manifest file has    *)
(* been gone for the recovery window is released.                          *)
(* Several submissions revise one named voxel here, each from the head it  *)
(* saw; the bytes of an artifact are its member captures.                  *)
(***************************************************************************)
EXTENDS Naturals, FiniteSets

CONSTANTS Saves,          \* submissions, each with an idempotency key and at most one artifact
          NoSave,         \* the voxel has no head yet
          Workers, MaxVoxelEvents
ASSUME VoxelsAssumption == IsFiniteSet(Saves) /\ Workers \in Nat

VARIABLES vox,            \* save -> its operation, artifact, upload and captures
          headOf, headRev,   \* voxel-named: the head artifact, its revision
          active,         \* compute slots taken
          inspecting,     \* a description, validation or scan has one
          cleanupDue,     \* cleanupArtifacts is queued
          voxelEvents
voxVars == <<vox, headOf, headRev, active, inspecting, cleanupDue, voxelEvents>>
headVars == <<headOf, headRev>>
restVars == <<inspecting, cleanupDue, voxelEvents>>

\* task: none, or the step the run awaits.  phase, linked, outcome: the
\* operation, its artifact link, named.outcome.  base: the head revision
\* the submission names.  pub, ver, link, recovering, deleted, cleaned:
\* the registration and its deletion receipt.  upload, file: the manifest's
\* receipt and whether it is in the workspace.  bytes: none, held, free,
\* gone.  job: none, queued, active.
NoVox == [task |-> "none", phase |-> "none", linked |-> FALSE, outcome |-> "none", base |-> 0,
          hold |-> FALSE, pub |-> "none", ver |-> "unchecked", link |-> FALSE, recovering |-> FALSE,
          deleted |-> FALSE, cleaned |-> FALSE, upload |-> "none", file |-> FALSE, bytes |-> "none",
          job |-> "none", reading |-> FALSE, since |-> FALSE]

VoxTerminal(v) == v.phase \in {"ready", "failed"}
Committed(v) == v.upload = "committed"                       \* publicationEvidence
Uncertain(v) == v.upload \in {"publishing", "indeterminate"}

VoxelsInit ==
    /\ vox = [s \in Saves |-> NoVox] /\ headOf = NoSave /\ headRev = 0
    /\ active = 0 /\ inspecting = FALSE /\ cleanupDue = FALSE /\ voxelEvents = 0

Become(s, v) == vox' = [vox EXCEPT ![s] = v]
Event == voxelEvents < MaxVoxelEvents /\ voxelEvents' = voxelEvents + 1
Reserve == active < Workers /\ active' = active + 1

-------------------------------------------------------------------------------
\* A submission, and the run behind it
Submit(s) ==   \* the key is claimed, then the operation and its source hold are saved
    /\ vox[s].phase = "none" /\ Reserve
    /\ Become(s, [vox[s] EXCEPT !.phase = "accepted", !.task = "accepted", !.base = headRev, !.hold = TRUE,
                                !.outcome = "unknown"])
    /\ UNCHANGED <<headVars, restVars>>

Quiet == UNCHANGED <<headVars, active, restVars>>

Compute(s) ==   \* validating, generating
    /\ vox[s].task = "accepted"
    /\ Become(s, [vox[s] EXCEPT !.phase = "generating", !.task = "computed"]) /\ Quiet

ReserveArtifact(s) ==
    /\ vox[s].task = "computed"
    /\ Become(s, [vox[s] EXCEPT !.phase = "publishing", !.pub = "staging", !.task = "reserved"]) /\ Quiet

StageMembers(s) ==   \* each published with its hold, the set verified, the registration marked
    /\ vox[s].task = "reserved"
    /\ Become(s, [vox[s] EXCEPT !.bytes = "held", !.pub = "publishing", !.task = "staged"]) /\ Quiet

StartUpload(s) == /\ vox[s].task = "staged"
                  /\ Become(s, [vox[s] EXCEPT !.upload = "publishing", !.task = "uploading"]) /\ Quiet

UploadLands(s) ==   \* the guarded create, then its receipt
    /\ vox[s].task = "uploading"
    /\ \/ ~vox[s].file /\ Become(s, [vox[s] EXCEPT !.file = TRUE])
       \/ vox[s].file /\ Become(s, [vox[s] EXCEPT !.upload = "committed", !.task = "uploaded"])
    /\ Quiet

Register(s) ==   \* the write keeps a deletion that came meanwhile
    /\ vox[s].task = "uploaded"
    /\ Become(s, [vox[s] EXCEPT !.pub = "ready", !.ver = "verified", !.link = TRUE, !.task = "registered"]) /\ Quiet

Associate(s) == /\ vox[s].task = "registered"
                /\ Become(s, [vox[s] EXCEPT !.linked = TRUE, !.phase = "associating", !.task = "associating"])
                /\ Quiet

\* voxelNamedCommit, one transaction; an outcome already journaled stands.
HeadMatchesAny(v) == TRUE

HeadMatches(v) == v.base = headRev

Outcome(v) == IF v.outcome # "unknown" THEN v.outcome
              ELSE IF v.deleted THEN "failed"
              ELSE IF HeadMatches(v) THEN "committed" ELSE "conflict"

NamedCommit(s, v) ==   \* v: the save's record as the caller has it
    LET settled == [v EXCEPT !.phase = "ready", !.outcome = Outcome(v)]
    IN  /\ Become(s, settled)
        /\ IF v.outcome = "unknown" /\ settled.outcome = "committed"
           THEN headOf' = s /\ headRev' = headRev + 1 ELSE UNCHANGED headVars

SettleNamed(s) ==
    /\ vox[s].task = "associating"
    /\ NamedCommit(s, [vox[s] EXCEPT !.task = "ending"])
    /\ UNCHANGED <<active, restVars>>

EndRun(s) ==   \* run's finally, then the cleanup it queues
    /\ vox[s].task = "ending"
    /\ Become(s, [vox[s] EXCEPT !.task = "none", !.hold = @ /\ ~(VoxTerminal(vox[s]) /\ vox[s].pub \in {"none", "ready", "failed"})])
    /\ active' = active - 1 /\ cleanupDue' = TRUE /\ UNCHANGED <<headVars, voxelEvents, inspecting>>

\* incompleteArtifact: without a doubt about the publication the
\* registration fails, and only then its captures are let go.
HoldsLetGo(v) == IF v.bytes = "held" THEN "free" ELSE v.bytes

\* A slip: an attempt in doubt has failed, and lets go of its bytes.
IncompleteForgetting(v) == [v EXCEPT !.pub = "failed", !.bytes = HoldsLetGo(v)]

Incomplete(v) ==
    IF v.pub \in {"none", "ready"} THEN v
    ELSE IF Uncertain(v) \/ Committed(v) THEN [v EXCEPT !.pub = "unresolved"]
    ELSE [v EXCEPT !.pub = "failed", !.bytes = HoldsLetGo(v),
                   !.phase = IF VoxTerminal(v) THEN @ ELSE "failed", !.outcome = IF VoxTerminal(v) THEN @ ELSE "failed"]

UploadAfterError(v) == IF v.upload # "publishing" THEN {v.upload}
                       ELSE IF v.file THEN {"committed", "indeterminate"} ELSE {"failed", "indeterminate"}

RunFails(s) ==   \* an error in any step of the run before its named outcome
    LET v == vox[s] IN
    /\ v.task \notin {"none", "ending"} /\ Event
    /\ \E up \in UploadAfterError(v) :
          LET saved == v.linked \/ v.pub = "ready"
              told == [v EXCEPT !.upload = up, !.task = "ending", !.linked = saved,
                                !.phase = IF saved THEN "ready" ELSE "failed",
                                !.outcome = IF saved THEN "unknown" ELSE "failed"]
          IN  Become(s, Incomplete(told))
    /\ UNCHANGED <<headVars, active, cleanupDue, inspecting>>

AskOperation(s) ==   \* operation(): a saved artifact whose association is unknown is settled on demand
    /\ vox[s].linked /\ vox[s].outcome = "unknown" /\ vox[s].task = "none" /\ vox[s].pub = "ready"
    /\ NamedCommit(s, vox[s]) /\ UNCHANGED <<active, restVars>>

Rename == /\ headOf # NoSave /\ Event /\ headRev' = headRev + 1
          /\ UNCHANGED <<vox, headOf, active, cleanupDue, inspecting>>

-------------------------------------------------------------------------------
\* Verification and recovery jobs, and readers
Demand(s) ==   \* demandVerification: the read is refused until the job has verified
    LET v == vox[s] IN
    /\ ~v.deleted /\ v.pub = "ready" /\ v.ver \notin {"verified", "blocked"} /\ v.job = "none"
    /\ Become(s, [v EXCEPT !.job = "queued", !.ver = "checking"]) /\ Quiet

Pump(s) ==   \* recovery first; a binding deleted while queued is dropped
    LET v == vox[s] IN
    /\ v.job = "queued" /\ active < Workers
    /\ v.recovering \/ \A r \in Saves : ~(vox[r].job = "queued" /\ vox[r].recovering)
    /\ IF v.deleted /\ ~v.recovering THEN Become(s, [v EXCEPT !.job = "none"]) /\ UNCHANGED active
       ELSE Become(s, [v EXCEPT !.job = "active", !.ver = "checking"]) /\ active' = active + 1
    /\ UNCHANGED <<headVars, restVars>>

JobPasses(s) ==   \* recoverArtifact restores the holds and settles the name too
    LET v == vox[s] IN
    /\ v.job = "active" /\ v.bytes # "gone"
    /\ IF v.recovering
       THEN NamedCommit(s, [v EXCEPT !.job = "none", !.ver = "verified", !.pub = "ready", !.recovering = FALSE,
                                     !.linked = TRUE, !.link = TRUE, !.hold = FALSE,
                                     !.bytes = IF v.deleted THEN @ ELSE "held",
                                     !.outcome = IF @ \in {"committed", "conflict"} THEN @ ELSE "unknown"])
       ELSE Become(s, [v EXCEPT !.job = "none", !.ver = IF v.deleted THEN @ ELSE "verified"]) /\ UNCHANGED headVars
    /\ active' = active - 1 /\ cleanupDue' = TRUE /\ UNCHANGED <<voxelEvents, inspecting>>

JobFails(s) ==   \* transient: tried again; a contradiction: blocked, and a recovery ends
    LET v == vox[s] IN
    /\ v.job = "active" /\ Event
    /\ \/ Become(s, [v EXCEPT !.job = IF v.recovering THEN "queued" ELSE "none",
                              !.ver = IF v.deleted /\ ~v.recovering THEN @ ELSE "unavailable"])
       \/ ~(v.deleted /\ ~v.recovering)
          /\ Become(s, [v EXCEPT !.job = "none", !.ver = "blocked", !.recovering = FALSE,
                              !.pub = IF v.recovering THEN "failed" ELSE @,
                              !.phase = IF v.recovering /\ @ # "ready" THEN "failed" ELSE @,
                              !.outcome = IF v.recovering /\ v.phase # "ready" THEN "failed" ELSE @])
    /\ active' = active - 1 /\ cleanupDue' = TRUE /\ UNCHANGED <<headVars, inspecting>>

ReadStarts(s) ==   \* the readers are opened under the retention lock, after the slot is taken
    LET v == vox[s] IN
    /\ v.pub = "ready" /\ v.ver = "verified" /\ ~v.deleted /\ ~v.reading /\ Reserve
    /\ Become(s, [v EXCEPT !.reading = TRUE]) /\ UNCHANGED <<headVars, restVars>>

ReadEnds(s) == /\ vox[s].reading /\ active' = active - 1
               /\ Become(s, [vox[s] EXCEPT !.reading = FALSE])
               /\ cleanupDue' = (cleanupDue \/ vox[s].deleted) /\ UNCHANGED <<headVars, voxelEvents, inspecting>>

ReadBlocks(s) ==   \* bytes: the manifest or a member contradicts its registration
    /\ vox[s].pub = "ready" /\ vox[s].ver = "verified" /\ ~vox[s].deleted /\ Event
    /\ Become(s, [vox[s] EXCEPT !.ver = "blocked"]) /\ UNCHANGED <<headVars, active, inspecting, cleanupDue>>

InspectVoxel == /\ ~inspecting /\ Reserve /\ inspecting' = TRUE
           /\ UNCHANGED <<vox, headVars, cleanupDue, voxelEvents>>

InspectEnds ==   \* an answer, an error or the time limit of the worker
    /\ inspecting /\ inspecting' = FALSE /\ active' = active - 1
    /\ UNCHANGED <<vox, headVars, cleanupDue, voxelEvents>>

-------------------------------------------------------------------------------
\* Deletion and cleanup
Busy(v) == v.task # "none" \/ v.job = "active" \/ v.recovering   \* accepted work is not cancelled

CleanupOne(v) ==   \* the tombstone's receipt, against the evidence
    IF ~v.deleted \/ v.cleaned \/ Busy(v) \/ Uncertain(v) THEN v
    ELSE LET pub == IF Committed(v) THEN "ready"
                    ELSE IF v.pub \in {"staging", "publishing", "unresolved"} THEN "failed" ELSE v.pub
             freed == [v EXCEPT !.pub = pub, !.link = @ \/ Committed(v), !.bytes = HoldsLetGo(v),
                              !.hold = @ /\ ~VoxTerminal(v)]
         IN  IF v.reading THEN freed
             ELSE [freed EXCEPT !.cleaned = TRUE, !.bytes = IF @ = "free" THEN "gone" ELSE @]

DeleteNow(s) ==   \* voxelArtifactDelete changes the head's revision; then cleanupOne
    LET v == [vox[s] EXCEPT !.deleted = TRUE, !.since = FALSE,
                            !.job = IF @ = "queued" /\ ~vox[s].recovering THEN "none" ELSE @]
    IN  /\ Become(s, CleanupOne(v))
        /\ IF headOf = s THEN headRev' = headRev + 1 /\ UNCHANGED headOf ELSE UNCHANGED headVars
        /\ UNCHANGED <<active, cleanupDue, inspecting>>

Delete(s) == vox[s].pub # "none" /\ ~vox[s].deleted /\ Event /\ DeleteNow(s)

ReconciledVox(v) ==   \* reconcilePublications: an unresolved publication whose evidence has settled
    IF v.pub # "unresolved" \/ v.task # "none" \/ v.recovering \/ Uncertain(v) THEN v
    ELSE IF Committed(v) THEN [v EXCEPT !.pub = "publishing", !.recovering = TRUE, !.link = TRUE, !.linked = TRUE,
                                        !.phase = "publishing", !.outcome = "unknown", !.job = "queued"]
    ELSE Incomplete(v)

CleanupPass ==
    /\ cleanupDue /\ cleanupDue' = FALSE
    /\ vox' = [s \in Saves |-> CleanupOne(ReconciledVox(vox[s]))]
    /\ UNCHANGED <<headVars, active, voxelEvents, inspecting>>

EvidenceSettles(s) ==   \* an indeterminate upload is proved one way or the other
    /\ vox[s].upload = "indeterminate" /\ vox[s].task = "none"
    /\ Become(s, [vox[s] EXCEPT !.upload = IF vox[s].file THEN "committed" ELSE "failed"])
    /\ cleanupDue' = TRUE /\ UNCHANGED <<headVars, active, voxelEvents, inspecting>>

Evict(s) ==   \* captures without a hold or a reader may be reclaimed
    /\ vox[s].bytes = "free" /\ ~vox[s].reading
    /\ Become(s, [vox[s] EXCEPT !.bytes = "gone"]) /\ Quiet

FileChanges(s) ==   \* the user deletes the manifest, or restores it from the trash
    /\ vox[s].upload = "committed" /\ Event
    /\ Become(s, [vox[s] EXCEPT !.file = ~@]) /\ UNCHANGED <<headVars, active, cleanupDue, inspecting>>

ReleaseUnreferenced(s) ==   \* marked, and after the recovery window deleted
    LET v == vox[s] IN
    /\ v.link /\ ~v.deleted /\ v.pub = "ready"
    /\ \/ (v.file = v.since) /\ Become(s, [v EXCEPT !.since = ~v.file]) /\ Quiet
       \/ ~v.file /\ v.since /\ DeleteNow(s) /\ UNCHANGED voxelEvents

-------------------------------------------------------------------------------
\* A stop, and the next boot's reconciliation
Booted(v) ==   \* what init makes of one save
    LET idle == [v EXCEPT !.task = "none", !.job = "none", !.reading = FALSE, !.recovering = FALSE,
                          !.ver = IF @ = "blocked" THEN @ ELSE "unchecked"]
        settled == v.pub = "ready" /\ v.phase = "ready"
        blocked == v.ver = "blocked" /\ Committed(v)
        seen == IF v.pub = "none" \/ settled \/ blocked THEN idle
                ELSE IF Committed(v) THEN [idle EXCEPT !.pub = "publishing", !.recovering = TRUE, !.link = TRUE,
                                                       !.linked = TRUE, !.phase = "publishing", !.job = "queued"]
                ELSE Incomplete(idle)
        failed == idle.pub = "failed" /\ seen.pub = "failed"   \* one that fails only now is held again
        held == [seen EXCEPT !.bytes = IF ~seen.deleted /\ (~failed \/ blocked) /\ @ = "free" THEN "held" ELSE @]
        ended == IF held.pub = "none" /\ held.phase # "none" /\ ~VoxTerminal(held)
                 THEN [held EXCEPT !.phase = "failed", !.outcome = "failed"] ELSE held
    IN  [ended EXCEPT !.hold = @ /\ ended.pub \notin {"none", "ready", "failed"}]

Unsettled(booted) == {s \in Saves : ~booted[s].deleted /\ booted[s].pub = "ready" /\ booted[s].linked
                                    /\ booted[s].outcome = "unknown"}

VoxelsRestart ==   \* of the unknown associations the first that matches the head wins
    /\ Event /\ active' = 0 /\ inspecting' = FALSE /\ cleanupDue' = TRUE
    /\ \E up \in [Saves -> {"none", "failed", "committed", "indeterminate"}] :
          /\ \A s \in Saves : up[s] \in UploadAfterError(vox[s])
          /\ LET booted == [s \in Saves |-> Booted([vox[s] EXCEPT !.upload = up[s]])]
                 settle == Unsettled(booted)
                 match == {s \in settle : HeadMatches(booted[s])}
                 End(won) == [s \in Saves |-> IF s \notin settle THEN booted[s]
                                ELSE [booted[s] EXCEPT !.phase = "ready", !.outcome = IF s \in won THEN "committed" ELSE "conflict"]]
             IN  \/ match = {} /\ vox' = End({}) /\ UNCHANGED headVars
                 \/ \E w \in match : vox' = End({w}) /\ headOf' = w /\ headRev' = headRev + 1

VoxelsNext ==
    \/ CleanupPass \/ VoxelsRestart \/ Rename \/ InspectVoxel \/ InspectEnds
    \/ \E s \in Saves :
          \/ Submit(s) \/ Compute(s) \/ ReserveArtifact(s) \/ StageMembers(s) \/ StartUpload(s)
          \/ UploadLands(s) \/ Register(s) \/ Associate(s) \/ SettleNamed(s) \/ EndRun(s)
          \/ RunFails(s) \/ AskOperation(s) \/ Demand(s) \/ Pump(s) \/ JobPasses(s) \/ JobFails(s)
          \/ ReadStarts(s) \/ ReadEnds(s) \/ ReadBlocks(s) \/ Delete(s) \/ EvidenceSettles(s) \/ Evict(s)
          \/ FileChanges(s) \/ ReleaseUnreferenced(s)

VoxelsSpec == VoxelsInit /\ [][VoxelsNext]_voxVars

-------------------------------------------------------------------------------
\* What a user can reach can be read: the captures of a manifest that is
\* in the workspace are held until its registration is deleted, also when
\* the run that wrote it failed or was cut off with its upload in doubt;
\* the head of a voxel is a ready artifact; and a reader's captures stay
\* until it ends, whatever deletion, release or restart comes in between.
HeadReadable ==
    /\ \A s \in Saves : vox[s].file /\ ~vox[s].deleted => vox[s].bytes = "held"
    /\ headOf # NoSave => vox[headOf].pub = "ready" /\ (vox[headOf].deleted \/ vox[headOf].bytes = "held")
    /\ \A s \in Saves : vox[s].reading => vox[s].bytes \in {"held", "free"}

\* Of the saves that revise the same head at most one becomes it, however
\* often its outcome is settled again after a failure or a boot; and every
\* compute slot taken is one some run, job or read still has.
OneWinner == \A s, r \in Saves : s # r /\ vox[s].outcome = "committed" /\ vox[r].outcome = "committed"
                => vox[s].base # vox[r].base
SlotsReturned == active = Cardinality({s \in Saves : vox[s].task # "none"})
                          + Cardinality({s \in Saves : vox[s].job = "active"})
                          + Cardinality({s \in Saves : vox[s].reading})
                          + (IF inspecting THEN 1 ELSE 0) /\ active <= Workers
VoxelsSettle == OneWinner /\ SlotsReturned

\* What is reachable can be read, one revision of a head wins, and slots
\* come back.
VoxelPromises == HeadReadable /\ VoxelsSettle
================================================================================
