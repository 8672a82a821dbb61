------------------------- MODULE DocumentProcessing -------------------------
(***************************************************************************)
(* The delivery of documents to the external processor                     *)
(* (runtime/lib/document-processing.js, preprocessing-client.js).          *)
(*                                                                         *)
(* A ticket is admitted below a ceiling, bound to a retained capture, its  *)
(* bytes are copied to a private inbox, and it is dispatched by a POST     *)
(* under a submission key that is kept for ever.  The answer of a POST may *)
(* be lost, and a POST may take effect after its sender gave up.  The      *)
(* ticket then follows the processor's job to its end, and the inbox and   *)
(* the hold on the capture are given back.  The process may crash between  *)
(* any two steps.                                                          *)
(*                                                                         *)
(* Every change of a ticket's record is one transaction (mutate,           *)
(* attachCapture).  Backoff times, profiles, progress, publications and    *)
(* telemetry are left out.                                                 *)
(***************************************************************************)
EXTENDS Naturals, FiniteSets

CONSTANTS
    FileJobs,       \* tickets of submit() for a workspace file
    UploadJobs,     \* tickets of uploads with the policy "auto"
    CloudJobs,      \* those of them that need a permit of the backend
    ActiveTickets,  \* config.activeTickets
    MaxProcFaults,  \* bound on failed calls, lost answers and revocations
    MaxProcCrashes  \* bound on crashes and drains

Jobs == FileJobs \cup UploadJobs

\* The ids of tickets for files and for uploads are different ones.
ASSUME TicketsAssumption == /\ IsFiniteSet(Jobs) /\ FileJobs \cap UploadJobs = {} /\ CloudJobs \subseteq UploadJobs
                            /\ ActiveTickets \in Nat

VARIABLES
    job,        \* ticket -> its record in "processing-jobs"
    claimed,    \* tickets with a claim in "processing-requests"
    creq,       \* ticket -> its capture request
    opst,       \* ticket -> the upload or import operation it belongs to
    holds,      \* tickets whose hold on the capture exists
    inbox,      \* tickets whose bytes are published in the inbox
    up, net,    \* the processor's job; POSTs nobody waits for any more
    alive, draining,
    admitting,  \* the submit inside serialAdmission
    reservations, permits,
    cap,        \* captureWork
    work,       \* where localWork's task of the ticket is
    seen,       \* what run() is going to do, from the records it listed
    settling,   \* cancels on their way to settleLocalCancel
    aborted,    \* copies whose signal is aborted
    procFaults, procCrashes,
    over        \* history: tickets admitted beyond the ceiling, under a permit granted before

durable == <<job, claimed, creq, opst, holds, inbox>>
upstream == <<up, net>>
volatile == <<admitting, reservations, permits, cap, work, seen, settling, aborted>>
modes == <<alive, draining>>
procVars == <<durable, upstream, modes, volatile, procFaults, procCrashes, over>>

None == "none"
Ended == {"done", "cancelled", "failed"}

NewJob(s) == [stage |-> s, cancel |-> FALSE, intent |-> FALSE, uncertain |-> FALSE,
              rejected |-> FALSE, known |-> FALSE, req |-> FALSE, snap |-> FALSE,
              paused |-> FALSE, outcome |-> None, clean |-> "inbox"]

TicketsInit ==
    /\ job = [j \in Jobs |-> NewJob(None)]
    /\ claimed = {}
    /\ creq = [j \in Jobs |-> None] /\ opst = [j \in Jobs |-> None]
    /\ holds = {} /\ inbox = {} /\ net = {}
    /\ up = [j \in Jobs |-> [state |-> None, snap |-> FALSE]]
    /\ alive = TRUE /\ draining = FALSE /\ admitting = {} /\ reservations = {}
    /\ permits = [j \in Jobs |-> IF j \in CloudJobs THEN None ELSE "full"]
    /\ cap = {} /\ work = [j \in Jobs |-> None] /\ seen = [j \in Jobs |-> None]
    /\ settling = {} /\ aborted = {}
    /\ procFaults = 0 /\ procCrashes = 0 /\ over = {}

Fault == procFaults < MaxProcFaults /\ procFaults' = procFaults + 1
TicketEnded(j) == job[j].stage = "terminal"
Open == {j \in Jobs : job[j].stage \notin {None, "terminal"}}

\* A record with a new stage; nothing leaves "terminal" (mutate).
AtStage(j, s) == [job[j] EXCEPT !.stage = IF TicketEnded(j) THEN @ ELSE s]
EndedAs(j, o) == IF TicketEnded(j) THEN job[j] ELSE [job[j] EXCEPT !.stage = "terminal", !.outcome = o]
PutTicket(j, r) == job' = [job EXCEPT ![j] = r]
Work(j, w) == work' = [work EXCEPT ![j] = w]

-----------------------------------------------------------------------------
\* Admission

\* A slip: claims whose job record is not written yet are not counted.
CapacityOfJobs == Cardinality(Open) + Cardinality({j \in reservations : job[j].stage = None})

\* capacity(): open tickets, reservations without a ticket, unmatched claims.
Capacity == Cardinality(Open) + Cardinality({j \in reservations \cup claimed : job[j].stage = None})

Admitted == alive /\ ~draining /\ admitting = {}

\* submit, inside serialAdmission: first the durable claim ...
SubmitClaim(j) ==
    /\ j \in FileJobs \ claimed
    /\ Admitted /\ Capacity < ActiveTickets
    /\ claimed' = claimed \cup {j} /\ admitting' = {j}
    /\ UNCHANGED <<job, creq, opst, holds, inbox, upstream, modes, reservations, permits,
                   cap, work, seen, settling, aborted, procFaults, procCrashes, over>>

\* ... then the record; resolveSource follows, as captureWork.
SubmitRecord(j) ==
    /\ j \in admitting
    /\ admitting' = {} /\ cap' = cap \cup {j}
    /\ PutTicket(j, NewJob("capturing"))
    /\ UNCHANGED <<claimed, creq, opst, holds, inbox, upstream, modes, reservations, permits,
                   work, seen, settling, aborted, procFaults, procCrashes, over>>

\* The record cannot be written: the claim keeps its slot until it is repaired.
SubmitFails(j) ==
    /\ j \in admitting /\ Fault
    /\ admitting' = {}
    /\ UNCHANGED <<durable, upstream, modes, reservations, permits, cap, work, seen,
                   settling, aborted, procCrashes, over>>

\* repairAdmissions, at the next admission or run.
Repair(j) ==
    /\ Admitted
    /\ j \in claimed /\ job[j].stage = None
    /\ PutTicket(j, NewJob("capturing"))
    /\ UNCHANGED <<claimed, creq, opst, holds, inbox, upstream, modes, volatile,
                   procFaults, procCrashes, over>>

\* reserveUpload: in memory, then saved with the operation.
UploadReserve(j) ==
    /\ j \in UploadJobs \ CloudJobs /\ opst[j] = None /\ j \notin reservations
    /\ Admitted
    /\ IF Capacity < ActiveTickets
       THEN reservations' = reservations \cup {j} /\ UNCHANGED opst
       ELSE opst' = [opst EXCEPT ![j] = "skipped"] /\ UNCHANGED reservations
    /\ UNCHANGED <<job, claimed, creq, holds, inbox, upstream, modes, admitting, permits, cap,
                   work, seen, settling, aborted, procFaults, procCrashes, over>>

\* reserveCloud, of an import without a decision or left awaiting capacity (None): with
\* room, the permit is asked for and the slot taken.  If the answer is lost, the intent is
\* stored and the permit is not.  Without room the import goes on awaiting capacity.
CloudReserve(j) ==
    /\ j \in CloudJobs /\ opst[j] \in {None, "asked"} /\ j \notin reservations
    /\ Admitted /\ Capacity < ActiveTickets
    /\ \/ /\ opst' = [opst EXCEPT ![j] = "held"] /\ reservations' = reservations \cup {j}
          /\ UNCHANGED procFaults
       \/ Fault /\ opst' = [opst EXCEPT ![j] = "asked"] /\ UNCHANGED reservations
    /\ UNCHANGED <<job, claimed, creq, holds, inbox, upstream, modes, admitting, permits, cap,
                   work, seen, settling, aborted, procCrashes, over>>

\* inspectPermit, or a reconcile claim: the backend had granted it after all.
PermitFound(j) ==
    /\ j \in CloudJobs /\ opst[j] = "asked" /\ alive /\ admitting = {}
    /\ opst' = [opst EXCEPT ![j] = "held"]
    /\ UNCHANGED <<job, claimed, creq, holds, inbox, upstream, modes, volatile,
                   procFaults, procCrashes, over>>

\* What the ceiling is exceeded by.
Beyond(j) == IF Capacity < ActiveTickets THEN over \ {j} ELSE over \cup {j}

\* reserveCloud under a permit granted before: whatever the capacity, also while draining.
CloudResume(j) ==
    /\ j \in CloudJobs /\ opst[j] = "held" /\ j \notin reservations
    /\ alive /\ admitting = {}
    /\ reservations' = reservations \cup {j} /\ over' = Beyond(j)
    /\ UNCHANGED <<durable, upstream, modes, admitting, permits, cap,
                   work, seen, settling, aborted, procFaults, procCrashes>>

UploadStaged(j) ==
    /\ j \in reservations /\ alive
    /\ opst[j] = IF j \in CloudJobs THEN "held" ELSE None
    /\ opst' = [opst EXCEPT ![j] = "staged"]
    /\ UNCHANGED <<job, claimed, creq, holds, inbox, upstream, modes, volatile,
                   procFaults, procCrashes, over>>

\* uploadMetadata and cloudMetadata: the receipt, the ticket and the hold are
\* one transaction.
UploadCommit(j) ==
    /\ alive /\ opst[j] = "staged" /\ job[j].stage = None
    /\ opst' = [opst EXCEPT ![j] = "committed"]
    /\ PutTicket(j, NewJob("pending")) /\ holds' = holds \cup {j}
    /\ permits' = [permits EXCEPT ![j] = "full"]
    /\ UNCHANGED <<claimed, creq, inbox, upstream, modes, admitting, reservations, cap,
                   work, seen, settling, aborted, procFaults, procCrashes, over>>

\* releaseFailedUpload; the slot of an import that failed (CloudImport's failure) stays
\* taken until the next start.
UploadFails(j) ==
    /\ alive /\ j \in reservations /\ opst[j] \in {None, "held", "staged"} /\ Fault
    /\ opst' = [opst EXCEPT ![j] = "failed"]
    /\ reservations' = IF j \in CloudJobs THEN reservations ELSE reservations \ {j}
    /\ UNCHANGED <<job, claimed, creq, holds, inbox, upstream, modes, admitting, permits,
                   cap, work, seen, settling, aborted, procCrashes, over>>

-----------------------------------------------------------------------------
\* The source

\* attachCapture: the record and the hold are one transaction.
Attach(j) ==
    IF job[j].cancel \/ TicketEnded(j) THEN UNCHANGED <<job, holds>>
    ELSE PutTicket(j, AtStage(j, "pending")) /\ holds' = holds \cup {j}

\* failLocal
FailLocal(j) ==
    IF job[j].intent \/ job[j].known THEN UNCHANGED job ELSE PutTicket(j, EndedAs(j, "failed"))

\* captures.create of resolveSource: done at once, accepted as a job, or refused.
CaptureAnswered(j) ==
    /\ alive /\ j \in cap
    /\ cap' = cap \ {j}
    /\ \/ creq' = [creq EXCEPT ![j] = "succeeded"] /\ Attach(j) /\ UNCHANGED procFaults
       \/ creq' = [creq EXCEPT ![j] = "running"] /\ UNCHANGED <<job, holds, procFaults>>
       \/ Fault /\ creq' = [creq EXCEPT ![j] = "failed"] /\ FailLocal(j) /\ UNCHANGED holds
    /\ UNCHANGED <<claimed, opst, inbox, upstream, modes, admitting, reservations, permits,
                   work, seen, settling, aborted, procCrashes, over>>

CaptureEnds(j) ==
    /\ alive /\ creq[j] = "running"
    /\ creq' = [creq EXCEPT ![j] = "succeeded"]
    /\ UNCHANGED <<job, claimed, opst, holds, inbox, upstream, modes, volatile,
                   procFaults, procCrashes, over>>

\* settleLocalCancel: after a look at the capture, a ticket that was never
\* dispatched ends.
SettleLocal(j) ==
    IF work[j] # None \/ j \in cap THEN UNCHANGED <<job, creq>>
    ELSE IF creq[j] = "running"
    THEN creq' = [creq EXCEPT ![j] = "cancelled"] /\ UNCHANGED job
    ELSE /\ IF job[j].intent \/ job[j].known THEN UNCHANGED job
            ELSE PutTicket(j, EndedAs(j, "cancelled"))
         /\ UNCHANGED creq

-----------------------------------------------------------------------------
\* cancel

Cancel(j) ==
    /\ alive /\ j \in Open /\ ~job[j].cancel
    /\ PutTicket(j, [job[j] EXCEPT !.cancel = TRUE])
    /\ aborted' = IF work[j] \in {"copying", "copied"} THEN aborted \cup {j} ELSE aborted
    /\ settling' = IF job[j].intent \/ job[j].known \/ work[j] # None \/ j \in cap
                   THEN settling ELSE settling \cup {j}
    /\ UNCHANGED <<claimed, creq, opst, holds, inbox, upstream, modes, admitting,
                   reservations, permits, cap, work, seen, procFaults, procCrashes, over>>

CancelSettles(j) ==
    /\ alive /\ j \in settling
    /\ settling' = settling \ {j}
    /\ SettleLocal(j)
    /\ UNCHANGED <<claimed, opst, holds, inbox, upstream, modes, admitting, reservations,
                   permits, cap, work, seen, aborted, procFaults, procCrashes, over>>

-----------------------------------------------------------------------------
\* run: one pass over the records, acting on what it listed

\* A slip: an accepted job is taken to have the bytes already.
MayCleanAccepted(r) == r.snap \/ r.known \/ (r.stage = "terminal" /\ (~r.intent \/ r.rejected))

\* The processor has its own snapshot, or will never ask for the bytes.
MayClean(r) ==
    \/ r.snap
    \/ r.stage = "terminal" /\ (~r.intent \/ r.rejected \/ r.known)

Decision(j) ==
    LET r == job[j] IN
    IF r.stage = None THEN None
    ELSE IF r.clean # "complete" /\ MayClean(r) THEN "cleanup"
    ELSE IF r.stage = "terminal" \/ (r.paused /\ ~r.cancel) THEN None
    ELSE IF r.stage = "capturing" THEN "capture"
    ELSE IF r.cancel /\ ~r.intent /\ ~r.known THEN "settle"
    ELSE IF r.known THEN None
    ELSE IF r.req THEN "dispatch" ELSE "copy"

RunLists ==
    /\ alive /\ ~draining /\ \A j \in Jobs : seen[j] = None
    /\ \E j \in Jobs : Decision(j) # None
    /\ seen' = [j \in Jobs |-> Decision(j)]
    /\ UNCHANGED <<durable, upstream, modes, admitting, reservations, permits, cap, work,
                   settling, aborted, procFaults, procCrashes, over>>

Visited(j) == seen' = [seen EXCEPT ![j] = None]
Running(j, what) == alive /\ seen[j] = what
\* What run() skips: drained, no permit, or a task of the ticket is under way.
Skipped(j) == draining \/ permits[j] # "full" \/ work[j] # None

RunSkips(j) ==
    /\ alive /\ seen[j] \in {"capture", "settle", "dispatch", "copy"} /\ Skipped(j)
    /\ Visited(j)
    /\ UNCHANGED <<durable, upstream, modes, admitting, reservations, permits, cap, work,
                   settling, aborted, procFaults, procCrashes, over>>

\* reconcileCapture
RunCapture(j) ==
    /\ Running(j, "capture") /\ ~Skipped(j) /\ Visited(j)
    /\ IF j \in cap THEN UNCHANGED <<job, creq, holds, cap>>
       ELSE IF job[j].cancel THEN SettleLocal(j) /\ UNCHANGED <<holds, cap>>
       ELSE CASE creq[j] = "succeeded" -> Attach(j) /\ UNCHANGED <<creq, cap>>
              [] creq[j] \in {"failed", "cancelled"} -> FailLocal(j) /\ UNCHANGED <<creq, holds, cap>>
              [] creq[j] = "running" -> UNCHANGED <<job, creq, holds, cap>>
              [] OTHER -> cap' = cap \cup {j} /\ UNCHANGED <<job, creq, holds>>
    /\ UNCHANGED <<claimed, opst, inbox, upstream, modes, admitting, reservations, permits,
                   work, settling, aborted, procFaults, procCrashes, over>>

RunSettles(j) ==
    /\ Running(j, "settle") /\ ~Skipped(j) /\ Visited(j)
    /\ SettleLocal(j)
    /\ UNCHANGED <<claimed, opst, holds, inbox, upstream, modes, admitting, reservations,
                   permits, cap, work, settling, aborted, procFaults, procCrashes, over>>

\* One copy at a time; a dispatch in its own task.
RunLaunches(j) ==
    /\ alive /\ seen[j] \in {"copy", "dispatch"} /\ ~Skipped(j) /\ Visited(j)
    /\ IF seen[j] = "copy" /\ \E i \in Jobs : work[i] \in {"copy", "copying", "copied"}
       THEN UNCHANGED work ELSE Work(j, seen[j])
    /\ UNCHANGED <<durable, upstream, modes, admitting, reservations, permits, cap,
                   settling, aborted, procFaults, procCrashes, over>>

\* cleanup: the inbox, then the hold, each with its own record change.
RunCleans(j) ==
    /\ Running(j, "cleanup")
    /\ IF permits[j] = None \/ draining \/ ~MayClean(job[j])
       THEN Visited(j) /\ UNCHANGED <<job, inbox, holds>>
       ELSE CASE job[j].clean = "inbox" ->
                   /\ inbox' = inbox \ {j} /\ PutTicket(j, [job[j] EXCEPT !.clean = "hold"])
                   /\ UNCHANGED <<holds, seen>>
              [] job[j].clean = "hold" ->
                   /\ holds' = holds \ {j} /\ PutTicket(j, [job[j] EXCEPT !.clean = "complete"])
                   /\ UNCHANGED <<inbox, seen>>
              [] OTHER -> Visited(j) /\ UNCHANGED <<job, inbox, holds>>
    /\ UNCHANGED <<claimed, creq, opst, upstream, modes, admitting, reservations, permits,
                   cap, work, settling, aborted, procFaults, procCrashes, over>>

\* An error ends this try; the next run tries again.
CleanFails(j) ==
    /\ Running(j, "cleanup") /\ Fault
    /\ Visited(j)
    /\ UNCHANGED <<durable, upstream, modes, admitting, reservations, permits, cap, work,
                   settling, aborted, procCrashes, over>>

-----------------------------------------------------------------------------
\* copyInput, dispatch, track

\* block, for an error that may pass, a usage denial, or a final one.
Blocked(j) == PutTicket(j, AtStage(j, "blocked"))
BlockedFor(j) ==
    \/ Blocked(j)
    \/ PutTicket(j, [job[j] EXCEPT !.paused = TRUE])
    \/ ~job[j].intent /\ ~job[j].known /\ PutTicket(j, EndedAs(j, "failed"))

CopyStart(j) ==
    /\ alive /\ work[j] = "copy"
    /\ IF permits[j] # "full" THEN Blocked(j) /\ Work(j, None)
       ELSE IF job[j].cancel \/ TicketEnded(j) THEN Work(j, None) /\ UNCHANGED job
       ELSE PutTicket(j, AtStage(j, "copying")) /\ Work(j, "copying")
    /\ UNCHANGED <<claimed, creq, opst, holds, inbox, upstream, modes, admitting, reservations,
                   permits, cap, seen, settling, aborted, procFaults, procCrashes, over>>

\* The bytes are checked and renamed into place, or the copy was aborted.
CopyPublish(j) ==
    /\ alive /\ work[j] = "copying"
    /\ IF j \in aborted \/ draining
       THEN /\ (UNCHANGED job \/ Blocked(j)) /\ Work(j, None)
            /\ aborted' = aborted \ {j} /\ UNCHANGED inbox
       ELSE inbox' = inbox \cup {j} /\ Work(j, "copied") /\ UNCHANGED <<job, aborted>>
    /\ UNCHANGED <<claimed, creq, opst, holds, upstream, modes, admitting, reservations,
                   permits, cap, seen, settling, procFaults, procCrashes, over>>

CopyDone(j) ==
    /\ alive /\ work[j] = "copied"
    /\ PutTicket(j, IF TicketEnded(j) THEN job[j] ELSE [job[j] EXCEPT !.stage = "submitting", !.req = TRUE])
    /\ Work(j, None) /\ aborted' = aborted \ {j}
    /\ UNCHANGED <<claimed, creq, opst, holds, inbox, upstream, modes, admitting, reservations,
                   permits, cap, seen, settling, procFaults, procCrashes, over>>

CopyFails(j) ==
    /\ alive /\ work[j] = "copying" /\ Fault
    /\ BlockedFor(j) /\ Work(j, None) /\ aborted' = aborted \ {j}
    /\ UNCHANGED <<claimed, creq, opst, holds, inbox, upstream, modes, admitting, reservations,
                   permits, cap, seen, settling, procCrashes, over>>

\* An intent is evidence enough that a POST may be under way.
UncertainByIntent(j) == [job[j] EXCEPT !.uncertain = TRUE]

DispatchStart(j) ==
    /\ alive /\ work[j] = "dispatch"
    /\ IF permits[j] # "full" THEN Blocked(j) /\ Work(j, None)
       ELSE IF TicketEnded(j) \/ (job[j].cancel /\ ~job[j].intent) THEN Work(j, None) /\ UNCHANGED job
       ELSE IF job[j].intent THEN PutTicket(j, UncertainByIntent(j)) /\ Work(j, "lookup")
       ELSE Work(j, "intent") /\ UNCHANGED job
    /\ UNCHANGED <<claimed, creq, opst, holds, inbox, upstream, modes, admitting, reservations,
                   permits, cap, seen, settling, aborted, procFaults, procCrashes, over>>

\* observe: what the processor says of its job.
Observed(j, u) ==
    IF TicketEnded(j) THEN [job[j] EXCEPT !.known = TRUE, !.snap = @ \/ u.snap]
    ELSE [job[j] EXCEPT !.known = TRUE, !.snap = @ \/ u.snap,
                        !.stage = IF u.state \in Ended THEN "terminal" ELSE "tracking",
                        !.outcome = IF u.state \in Ended THEN u.state ELSE None]

\* An empty lookup settles nothing: another POST may still arrive.
DispatchLookup(j) ==
    /\ alive /\ work[j] = "lookup"
    /\ \/ up[j].state # None /\ PutTicket(j, Observed(j, up[j])) /\ Work(j, None) /\ UNCHANGED procFaults
       \/ up[j].state = None /\ Work(j, "intent") /\ UNCHANGED <<job, procFaults>>
       \/ Fault /\ BlockedFor(j) /\ Work(j, None)
    /\ UNCHANGED <<claimed, creq, opst, holds, inbox, upstream, modes, admitting, reservations,
                   permits, cap, seen, settling, aborted, procCrashes, over>>

NoDispatch(j) == TicketEnded(j) \/ (job[j].cancel /\ ~job[j].intent)

DispatchIntent(j) ==
    /\ alive /\ work[j] = "intent"
    /\ IF NoDispatch(j) THEN Work(j, None) /\ UNCHANGED job
       ELSE PutTicket(j, [job[j] EXCEPT !.intent = TRUE, !.stage = "submitting"]) /\ Work(j, "send")
    /\ UNCHANGED <<claimed, creq, opst, holds, inbox, upstream, modes, admitting, reservations,
                   permits, cap, seen, settling, aborted, procFaults, procCrashes, over>>

\* The permit may have been revoked meanwhile.
DispatchSend(j) ==
    /\ alive /\ work[j] = "send"
    /\ IF draining THEN Work(j, None) /\ UNCHANGED job
       ELSE IF permits[j] # "full" THEN Blocked(j) /\ Work(j, None)
       ELSE Work(j, "post") /\ UNCHANGED job
    /\ UNCHANGED <<claimed, creq, opst, holds, inbox, upstream, modes, admitting, reservations,
                   permits, cap, seen, settling, aborted, procFaults, procCrashes, over>>

\* One job per submission key (external).
JobAccepted(j) == IF up[j].state = None THEN [up EXCEPT ![j].state = "active"] ELSE up

PostAccepted(j) ==
    /\ alive /\ work[j] = "post"
    /\ up' = JobAccepted(j)
    /\ PutTicket(j, Observed(j, up'[j])) /\ Work(j, None)
    /\ UNCHANGED <<claimed, creq, opst, holds, inbox, net, modes, admitting, reservations,
                   permits, cap, seen, settling, aborted, procFaults, procCrashes, over>>

\* A slip: a rejected replay ends the ticket although the first POST may arrive.
RejectionIsFinalAlways(j) == TRUE

RejectionIsFinal(j) == ~job[j].uncertain

PostRejected(j) ==
    /\ alive /\ work[j] = "post" /\ up[j].state = None /\ Fault
    /\ \/ /\ RejectionIsFinal(j)
          /\ PutTicket(j, IF TicketEnded(j) THEN job[j] ELSE [EndedAs(j, "failed") EXCEPT !.rejected = TRUE])
       \/ ~RejectionIsFinal(j) /\ (Blocked(j) \/ PutTicket(j, [job[j] EXCEPT !.paused = TRUE]))
       \/ Blocked(j)                                  \* an error the client may retry
    /\ Work(j, None)
    /\ UNCHANGED <<claimed, creq, opst, holds, inbox, upstream, modes, admitting, reservations,
                   permits, cap, seen, settling, aborted, procCrashes, over>>

\* No answer in time: the POST itself may be lost or only late.
PostTimesOut(j) ==
    /\ alive /\ work[j] = "post" /\ Fault
    /\ net' = net \cup {j}
    /\ PutTicket(j, [AtStage(j, "blocked") EXCEPT !.uncertain = TRUE]) /\ Work(j, None)
    /\ UNCHANGED <<claimed, creq, opst, holds, inbox, up, modes, admitting, reservations,
                   permits, cap, seen, settling, aborted, procCrashes, over>>

\* sampleJobs: the dispatched tickets that are looked at.
Sampled(j) ==
    /\ alive /\ ~draining /\ work[j] = None /\ j \in Open /\ job[j].known
    /\ permits[j] = "full" /\ (~job[j].paused \/ job[j].cancel)

\* track: poll the processor's job, or cancel it.
Track(j) ==
    /\ Sampled(j)
    /\ \/ /\ up' = IF job[j].cancel /\ up[j].state = "active" THEN [up EXCEPT ![j].state = "cancelled"] ELSE up
          /\ PutTicket(j, Observed(j, up'[j])) /\ UNCHANGED procFaults
       \/ Fault /\ (Blocked(j) \/ PutTicket(j, [job[j] EXCEPT !.paused = TRUE])) /\ UNCHANGED up
    /\ UNCHANGED <<claimed, creq, opst, holds, inbox, net, modes, volatile, procCrashes, over>>

-----------------------------------------------------------------------------
\* The processor and the backend (external)

LatePost(j) ==
    /\ j \in net
    /\ net' = net \ {j}
    /\ up' = JobAccepted(j) \/ UNCHANGED up
    /\ UNCHANGED <<durable, modes, volatile, procFaults, procCrashes, over>>

UpSnapshots(j) ==
    /\ up[j].state = "active" /\ ~up[j].snap /\ j \in inbox
    /\ up' = [up EXCEPT ![j].snap = TRUE]
    /\ UNCHANGED <<durable, net, modes, volatile, procFaults, procCrashes, over>>

UpEnds(j) ==
    /\ up[j].state = "active"
    /\ \E s \in {"done", "failed"} : (s = "done" => up[j].snap) /\ up' = [up EXCEPT ![j].state = s]
    /\ UNCHANGED <<durable, net, modes, volatile, procFaults, procCrashes, over>>

\* authorizeCloud and revokeCloud, called by the import worker's reconciliation.
Permit(j) ==
    /\ alive /\ j \in CloudJobs /\ job[j].stage # None
    /\ \E p \in {"observe", "full"} : permits' = [permits EXCEPT ![j] = p]
    /\ permits[j] # "full"
    /\ UNCHANGED <<durable, upstream, modes, admitting, reservations, cap, work, seen, settling,
                   aborted, procFaults, procCrashes, over>>

Revoke(j) ==
    /\ alive /\ j \in CloudJobs /\ permits[j] # None /\ Fault
    /\ permits' = [permits EXCEPT ![j] = None]
    /\ UNCHANGED <<durable, upstream, modes, admitting, reservations, cap, work, seen, settling,
                   aborted, procCrashes, over>>

-----------------------------------------------------------------------------
\* Drain, crash, restart

Drain ==
    /\ alive /\ ~draining /\ procCrashes < MaxProcCrashes
    /\ draining' = TRUE
    /\ aborted' = {j \in Jobs : work[j] \in {"copying", "copied"}}
    /\ UNCHANGED <<durable, upstream, alive, admitting, reservations, permits, cap, work, seen,
                   settling, procFaults, procCrashes, over>>

\* A crash, or the end of a drained process.
ProcessEnds ==
    /\ alive /\ procCrashes < MaxProcCrashes
    /\ procCrashes' = procCrashes + 1
    /\ alive' = FALSE /\ draining' = FALSE
    /\ net' = net \cup {j \in Jobs : work[j] = "post"}
    /\ admitting' = {} /\ reservations' = {} /\ cap' = {} /\ settling' = {} /\ aborted' = {}
    /\ work' = [j \in Jobs |-> None] /\ seen' = [j \in Jobs |-> None]
    /\ permits' = [j \in Jobs |-> IF j \in CloudJobs THEN None ELSE "full"]
    /\ UNCHANGED <<durable, up, procFaults, over>>

\* init and reconcileOperations: claims are repaired, a copy starts again, a
\* capture that was not even accepted ends its ticket.
Recovered(j) ==
    LET r == IF j \in claimed /\ job[j].stage = None THEN NewJob("capturing") ELSE job[j] IN
    IF r.stage = "copying" THEN [r EXCEPT !.stage = "pending"]
    ELSE IF r.stage = "capturing" /\ r.cancel THEN [r EXCEPT !.stage = "terminal", !.outcome = "cancelled"]
    ELSE IF r.stage = "capturing" /\ creq[j] # "succeeded" THEN [r EXCEPT !.stage = "terminal", !.outcome = "failed"]
    ELSE r

\* rebuildReservations
ReservedOnDisk == {j \in UploadJobs : opst[j] = "staged" /\ job[j].stage = None}

\* Uploads before their publication are aborted, others are proved and commit,
\* or stay indeterminate and keep their slot; so does every import.
ProcessorRestarts ==
    /\ ~alive
    /\ alive' = TRUE
    /\ job' = [j \in Jobs |-> Recovered(j)]
    /\ creq' = [j \in Jobs |-> IF creq[j] = "running" THEN "failed" ELSE creq[j]]
    /\ \E lost \in SUBSET (ReservedOnDisk \ CloudJobs) :
         /\ opst' = [j \in Jobs |-> IF j \in lost THEN "failed" ELSE opst[j]]
         /\ reservations' = ReservedOnDisk \ lost
    /\ UNCHANGED <<claimed, holds, inbox, upstream, draining, admitting, permits, cap, work,
                   seen, settling, aborted, procFaults, procCrashes, over>>

-----------------------------------------------------------------------------

Admission(j) == SubmitClaim(j) \/ SubmitRecord(j) \/ SubmitFails(j) \/ Repair(j)
                \/ UploadReserve(j) \/ CloudReserve(j) \/ PermitFound(j) \/ CloudResume(j) \/ UploadStaged(j) \/ UploadCommit(j) \/ UploadFails(j)
Source(j) == CaptureAnswered(j) \/ CaptureEnds(j) \/ Cancel(j) \/ CancelSettles(j)
Pass(j) == RunSkips(j) \/ RunCapture(j) \/ RunSettles(j) \/ RunLaunches(j) \/ RunCleans(j) \/ CleanFails(j)
Task(j) == CopyStart(j) \/ CopyPublish(j) \/ CopyDone(j) \/ CopyFails(j) \/ DispatchStart(j)
           \/ DispatchLookup(j) \/ DispatchIntent(j) \/ DispatchSend(j)
           \/ PostAccepted(j) \/ PostRejected(j) \/ PostTimesOut(j)
External(j) == LatePost(j) \/ UpSnapshots(j) \/ UpEnds(j) \/ Permit(j) \/ Revoke(j)

TicketsNext ==
    \/ RunLists \/ Drain \/ ProcessEnds \/ ProcessorRestarts
    \/ \E j \in Jobs : Admission(j) \/ Source(j) \/ Pass(j) \/ Task(j) \/ Track(j) \/ External(j)

TicketsSpec == TicketsInit /\ [][TicketsNext]_procVars

-----------------------------------------------------------------------------
\* Properties

\* The ceiling holds for what is durable: open tickets, claims without a record
\* and staged uploads, also across a crash that forgot the reservations.  It is exceeded
\* only by imports whose permit the backend had granted before (a lost answer, a crash),
\* and these take slots from everyone else.
TicketCeiling ==
    /\ over \subseteq {j \in CloudJobs : opst[j] \notin {None, "asked"}}
    /\ Cardinality(Open \ over) + Cardinality({j \in claimed : job[j].stage = None})
                                + Cardinality(ReservedOnDisk \ over) <= ActiveTickets

\* A ticket that ended without a processor's job leaves no work behind: nothing
\* runs under its key, and no POST is under way that could start something.
NoOrphanWork ==
    \A j \in Jobs : TicketEnded(j) /\ ~job[j].known =>
        up[j].state = None /\ j \notin net /\ work[j] # "post"

\* The bytes stay until the processor has them: a POST that can still start a
\* job, or a job without its snapshot, finds the published inbox, and an attached
\* ticket that is open has its capture held until then.
SourceKept ==
    \A j \in Jobs :
        /\ \/ up[j].state = "active" /\ ~up[j].snap
           \/ up[j].state = None /\ (work[j] = "post" \/ j \in net)
           => j \in inbox
        /\ job[j].stage \in {"pending", "copying", "submitting"} /\ ~up[j].snap => j \in holds

\* The ceiling of tickets is exceeded only under permits granted before, an ended ticket leaves no work
\* behind, and its bytes stay until the processor has them.
TicketPromises == TicketCeiling /\ NoOrphanWork /\ SourceKept
=============================================================================
