----------------------------- MODULE CloudImport -----------------------------
(***************************************************************************)
(* Delivery of the files uploaded to the cloud, and the receipts for them  *)
(* (runtime/lib/cloud-import-worker.js, backend-file-adapter.js).          *)
(*                                                                         *)
(* The backend hands out work under a lease.  The worker fetches and       *)
(* publishes the file under a publication permit, admits its processing    *)
(* under a processing permit, acknowledges each revision of the receipt    *)
(* and settles both permits; then the hold on the source is released.  Two *)
(* passes run at once, the delivery pass and the observation pass, and     *)
(* share one lane per operation.  A restart, a rejected acknowledgement or *)
(* an expired first one needs a reconciliation of every receipt, which     *)
(* holds all their lanes.                                                  *)
(*                                                                         *)
(* Publication itself is CloudSync's, the ticket DocumentProcessing's.     *)
(* Work moved here from another runtime (rehome) is left out.              *)
(***************************************************************************)
EXTENDS Naturals, FiniteSets

CONSTANTS
    Works,
    MaxRevision,    \* receipt revisions considered
    MaxImportEvents \* lost answers, refusals, expired leases, lost ownership, crashes, together

VARIABLES
    dlv,            \* cloud-deliveries: the state of a delivery
    claim,          \* its claim: the recovery it names, and whether the lease is alive
    jr,             \* the operation's journal: how far, effectApplied, permits and their intents, admission
    rec,            \* cloud-imports: the receipt record
    ticket,         \* the processing ticket: none, queued, running, or how it ended
    auth,           \* the processor's cloudPermits: tickets that may be dispatched (volatile)
    lane,           \* pass -> the work whose lane it holds, and where it is
    recon, need,    \* the reconciliation under way; needsReconcile
    bk,             \* the backend: ownership, permits, what was acknowledged or reported
    impEvents

impVars == <<dlv, claim, jr, rec, ticket, auth, lane, recon, need, bk, impEvents>>

Void == "void"
Passes == {"run", "report"}
Free == [w |-> Void, at |-> Void, del |-> FALSE]
Calm == [at |-> Void, works |-> {}, left |-> {}, group |-> {}]
NoJournal == [st |-> Void, eff |-> FALSE, pub |-> FALSE, pubAsked |-> FALSE, proc |-> FALSE, procAsked |-> FALSE, adm |-> Void]
NoRecord == [on |-> FALSE, rev |-> 0, acked |-> 0, proc |-> Void, required |-> FALSE, owner |-> FALSE,
             pubIntent |-> FALSE, pubDone |-> FALSE, procIntent |-> Void, procDone |-> FALSE,
             hold |-> FALSE, link |-> FALSE, seen |-> Void, ackSeen |-> Void]

ImportInit ==
    /\ dlv = [w \in Works |-> Void] /\ claim = [w \in Works |-> [kind |-> Void, lease |-> FALSE]]
    /\ jr = [w \in Works |-> NoJournal] /\ rec = [w \in Works |-> NoRecord]
    /\ ticket = [w \in Works |-> Void] /\ auth = {}
    /\ lane = [t \in Passes |-> Free] /\ recon = Calm /\ need = TRUE
    /\ bk = [w \in Works |-> [mine |-> TRUE, pub |-> Void, proc |-> Void, rev |-> 0, seen |-> Void, failed |-> FALSE]]
    /\ impEvents = 0

Trouble == impEvents < MaxImportEvents /\ impEvents' = impEvents + 1
LaneFree(w) == w \notin recon.works /\ \A t \in Passes : lane[t].w = w => lane[t].at = "confirm"
PassAt(t, where) == lane[t].at = where
W(t) == lane[t].w
Goto(t, where) == lane' = [lane EXCEPT ![t].at = where]
Leave(t) == lane' = [lane EXCEPT ![t] = Free]
RecordStands(w) == rec[w].on /\ ~rec[w].required /\ ~rec[w].owner
PutRecord(w, r) == rec' = [rec EXCEPT ![w] = r]

-----------------------------------------------------------------------------
\* Claims

\* The recovery the backend names: other permits mean other work to do first.
Recovery(w) == IF ~bk[w].mine THEN "wait-owner" ELSE IF bk[w].pub # Void THEN "reconcile" ELSE "new"

\* drainClaims: the page and its work are stored before the poll id is dropped, so a
\* lost answer is asked for again; a delivery whose failure is final is not reopened.
ClaimPage(w) ==
    /\ lane["run"].at = Void /\ recon.at = Void /\ ~need
    /\ dlv[w] \notin {"failure-reporting", "failed"}
    /\ dlv[w] \in {Void, "superseded", "wait-owner"} \/ ~claim[w].lease
    /\ ~bk[w].failed
    /\ claim' = [claim EXCEPT ![w] = [kind |-> Recovery(w), lease |-> TRUE]]
    /\ dlv' = [dlv EXCEPT ![w] = "pending"]
    /\ UNCHANGED <<jr, rec, ticket, auth, lane, recon, need, bk, impEvents>>

LeaseExpires(w) ==
    /\ claim[w].lease /\ Trouble
    /\ claim' = [claim EXCEPT ![w].lease = FALSE]
    /\ UNCHANGED <<dlv, jr, rec, ticket, auth, lane, recon, need, bk>>

\* The backend gives the work to another owner.
OwnerLost(w) ==
    /\ bk[w].mine /\ bk[w].pub # Void /\ Trouble
    /\ bk' = [bk EXCEPT ![w].mine = FALSE]
    /\ UNCHANGED <<dlv, claim, jr, rec, ticket, auth, lane, recon, need>>

-----------------------------------------------------------------------------
\* deliver

\* deliverSerial takes the lane.  With a record only its acknowledgement is left, and a
\* record that awaits reconciliation is not touched.
Deliver(w) ==
    /\ lane["run"].at = Void /\ dlv[w] = "pending" /\ LaneFree(w)
    /\ IF claim[w].kind = "wait-owner"
       THEN /\ rec' = IF rec[w].on THEN [rec EXCEPT ![w].owner = TRUE] ELSE rec
            /\ auth' = IF rec[w].on THEN auth \ {w} ELSE auth
            /\ dlv' = [dlv EXCEPT ![w] = "wait-owner"]
            /\ UNCHANGED <<lane, need>>
       ELSE /\ UNCHANGED <<rec, auth, dlv>>
            /\ IF rec[w].on
               THEN /\ RecordStands(w)
                    /\ IF claim[w].kind = "reconcile" \/ (rec[w].acked = 0 /\ ~claim[w].lease)
                       THEN need' = TRUE /\ lane' = [lane EXCEPT !["run"] = [w |-> w, at |-> "confirm", del |-> TRUE]]
                       ELSE lane' = [lane EXCEPT !["run"] = [w |-> w, at |-> "ack", del |-> TRUE]] /\ UNCHANGED need
               ELSE /\ claim[w].kind = "new" => claim[w].lease
                    /\ claim[w].kind = "reconcile" => jr[w].st = "staged"
                    /\ lane' = [lane EXCEPT !["run"] = [w |-> w, at |-> "stage", del |-> TRUE]] /\ UNCHANGED need
    /\ UNCHANGED <<claim, jr, ticket, recon, bk, impEvents>>

\* The source is downloaded and verified once; a later call finds it staged.  A
\* reconcile claim adopts the permits the backend has.
StageImport ==
    /\ PassAt("run", "stage")
    /\ LET w == W("run") IN
       /\ jr' = [jr EXCEPT ![w].st = IF @ = Void THEN "staged" ELSE @,
                           ![w].pub = @ \/ (claim[w].kind = "reconcile" /\ bk[w].pub = "granted"),
                           ![w].proc = @ \/ (claim[w].kind = "reconcile" /\ bk[w].proc = "granted")]
       /\ jr[w].st # "indeterminate"
    /\ Goto("run", "publication")
    /\ UNCHANGED <<dlv, claim, rec, ticket, auth, recon, need, bk, impEvents>>

\* grant and inspectPermit: the intent is saved first, so that a lost answer is looked
\* up and never asked for as new authority.  The backend grants to the owner only.
Granted(w, kind) == IF kind = "publication" THEN jr[w].pub ELSE jr[w].proc
Ask(t, kind) ==
    LET w == W(t) IN
    /\ PassAt(t, kind) /\ ~Granted(w, kind) /\ bk[w].mine /\ claim[w].kind # "wait-owner"
    /\ \/ IF kind = "publication" THEN jr[w].pubAsked /\ bk[w].pub # Void ELSE jr[w].procAsked /\ bk[w].proc # Void
       \/ claim[w].lease /\ (claim[w].kind = "reconcile" => kind = "processing" /\ jr[w].pub)
    /\ IF kind = "publication"
       THEN bk' = [bk EXCEPT ![w].pub = IF @ = Void THEN "granted" ELSE @]
       ELSE bk' = [bk EXCEPT ![w].proc = IF @ = Void THEN "granted" ELSE @]
    /\ \/ UNCHANGED impEvents /\ UNCHANGED lane
          /\ jr' = IF kind = "publication" THEN [jr EXCEPT ![w].pubAsked = TRUE, ![w].pub = TRUE]
                   ELSE [jr EXCEPT ![w].procAsked = TRUE, ![w].proc = TRUE]
       \/ Trouble /\ Leave(t)
          /\ jr' = IF kind = "publication" THEN [jr EXCEPT ![w].pubAsked = TRUE] ELSE [jr EXCEPT ![w].procAsked = TRUE]
    /\ UNCHANGED <<dlv, claim, rec, ticket, auth, recon, need>>

HavePublication ==
    /\ PassAt("run", "publication") /\ jr[W("run")].pub
    /\ Goto("run", "admission")
    /\ UNCHANGED <<dlv, claim, jr, rec, ticket, auth, recon, need, bk, impEvents>>

\* reserveCloud decides once: skipped, waiting for capacity, or a ticket, which needs
\* the processing permit.
Admit(t) ==
    LET w == W(t) IN
    /\ PassAt(t, "admission")
    /\ \/ jr[w].adm \in {"skipped", "ticket"} /\ UNCHANGED jr /\ Goto(t, "publish")
       \/ /\ jr[w].adm \in {Void, "awaiting"} /\ ~jr[w].proc /\ (jr[w].procAsked => bk[w].proc = Void)
          /\ \/ jr[w].adm = Void /\ \E a \in {"skipped", "awaiting"} : jr' = [jr EXCEPT ![w].adm = a]
             \/ jr[w].adm = "awaiting" /\ UNCHANGED jr
          /\ Goto(t, "publish")
       \/ jr[w].adm \in {Void, "awaiting"} /\ ~jr[w].proc /\ UNCHANGED jr /\ Goto(t, "processing")
       \/ /\ jr[w].adm \in {Void, "awaiting"} /\ jr[w].proc /\ Goto(t, "publish")
          /\ \E a \in {"ticket"} \cup (IF jr[w].adm = Void THEN {"skipped"} ELSE {}) : jr' = [jr EXCEPT ![w].adm = a]
    /\ UNCHANGED <<dlv, claim, rec, ticket, auth, recon, need, bk, impEvents>>

HaveProcessing(t) ==
    /\ PassAt(t, "processing") /\ jr[W(t)].proc
    /\ Goto(t, "admission")
    /\ UNCHANGED <<dlv, claim, jr, rec, ticket, auth, recon, need, bk, impEvents>>

FirstRevision(w) == [NoRecord EXCEPT !.on = TRUE, !.rev = 1, !.proc = jr[w].adm, !.hold = TRUE]

\* publish: one transaction commits the file, the first revision of the receipt, the
\* hold and the ticket; then the ticket may be dispatched.  A publication that reuses
\* the file it finds leaves effectApplied unset.
Publish ==
    /\ PassAt("run", "publish") /\ lane["run"].del
    /\ LET w == W("run") IN
       /\ \E written \in BOOLEAN : jr' = [jr EXCEPT ![w].st = "committed", ![w].eff = written]
       /\ PutRecord(w, FirstRevision(w))
       /\ ticket' = [ticket EXCEPT ![w] = IF jr[w].adm = "ticket" THEN "queued" ELSE @]
       /\ auth' = IF jr[w].adm = "ticket" THEN auth \cup {w} ELSE auth
    /\ Goto("run", "ack")
    /\ UNCHANGED <<dlv, claim, recon, need, bk, impEvents>>

\* The publication may end indeterminate, or its process may: the operation waits for its
\* proof, with effectApplied as far as it was stored.
PublishUnproved ==
    /\ PassAt("run", "publish") /\ lane["run"].del /\ Trouble
    /\ \E written \in BOOLEAN : jr' = [jr EXCEPT ![W("run")].st = "indeterminate", ![W("run")].eff = written]
    /\ Leave("run")
    /\ UNCHANGED <<dlv, claim, rec, ticket, auth, recon, need, bk>>

\* A slip: a permanent error is reported whatever the journal says.
MayReportFailureAlways(w) == TRUE

\* failure: a permanent error, also one of the backend's on progress or ack, is final if
\* the journal is not in doubt and has no effect on record; that it is committed is not
\* asked.
MayReportFailure(w) == jr[w].st # "indeterminate" /\ ~jr[w].eff /\ claim[w].kind \notin {"reconcile", "wait-owner"}

DeliveryFails ==
    /\ lane["run"].at \in {"stage", "publication", "admission", "processing", "publish", "ack"} /\ lane["run"].del
    /\ Trouble
    /\ LET w == W("run") IN
       \/ /\ MayReportFailure(w) /\ dlv' = [dlv EXCEPT ![w] = "failure-reporting"]
          /\ jr' = [jr EXCEPT ![w].st = IF @ = "staged" THEN "failed" ELSE @]
       \/ (\E d \in {"pending", "superseded"} : dlv' = [dlv EXCEPT ![w] = d]) /\ UNCHANGED jr
    /\ Leave("run")
    /\ UNCHANGED <<claim, rec, ticket, auth, recon, need, bk>>

\* reportFailure repeats until it is acknowledged.
ReportFailure(w) ==
    /\ lane["run"].at = Void /\ dlv[w] = "failure-reporting"
    /\ bk' = [bk EXCEPT ![w].failed = TRUE]
    /\ \/ dlv' = [dlv EXCEPT ![w] = "failed"] /\ UNCHANGED impEvents
       \/ Trouble /\ UNCHANGED dlv
    /\ UNCHANGED <<claim, jr, rec, ticket, auth, lane, recon, need>>

\* A missing permit, an ended lease or another owner stop the delivery until later.
DeliveryWaits ==
    /\ lane["run"].at \in {"publication", "processing"}
    /\ LET w == W("run") kind == lane["run"].at IN
       ~Granted(w, kind) /\ (~bk[w].mine \/ ~claim[w].lease \/ (claim[w].kind = "reconcile" /\ kind = "publication"))
    /\ Leave("run")
    /\ UNCHANGED <<dlv, claim, jr, rec, ticket, auth, recon, need, bk, impEvents>>

-----------------------------------------------------------------------------
\* Receipts: acknowledgement, observation, settlement

\* retryReceiptSerial re-reads the record once it has the lane.
RetryReceipt(t, w) ==
    /\ lane[t].at = Void /\ LaneFree(w) /\ RecordStands(w)
    /\ t = "report" => rec[w].proc = "ticket"
    /\ lane' = [lane EXCEPT ![t] = [w |-> w, at |-> IF rec[w].proc = "awaiting" THEN "admission" ELSE "observe",
                                    del |-> FALSE]]
    /\ UNCHANGED <<dlv, claim, jr, rec, ticket, auth, recon, need, bk, impEvents>>

\* Capacity came: the ticket and the next revision commit together.
AdmitLater(t) ==
    LET w == W(t) IN
    /\ PassAt(t, "publish") /\ ~lane[t].del
    /\ IF jr[w].adm = "awaiting" THEN UNCHANGED <<rec, ticket, auth>>
       ELSE /\ rec[w].rev < MaxRevision
            /\ PutRecord(w, [rec[w] EXCEPT !.proc = jr[w].adm, !.rev = @ + 1])
            /\ ticket' = [ticket EXCEPT ![w] = "queued"] /\ auth' = auth \cup {w}
    /\ Goto(t, "observe")
    /\ UNCHANGED <<dlv, claim, jr, recon, need, bk, impEvents>>

Submitted == {"running", "done", "interrupted"}

\* The processor's job id makes a revision of its own; the first terminal sample stays.
Observe(t) ==
    LET w == W(t) r == rec[w]
        linked == r.proc = "ticket" /\ ticket[w] \in Submitted /\ ~r.link /\ r.rev < MaxRevision
        sample == r.proc = "ticket" /\ r.seen \in {Void, "running"} /\ ticket[w] \in Submitted IN
    /\ PassAt(t, "observe")
    /\ LET n == [r EXCEPT !.link = @ \/ linked, !.rev = IF linked THEN @ + 1 ELSE @,
                          !.seen = IF sample THEN ticket[w] ELSE @] IN
       /\ PutRecord(w, n)
       /\ Goto(t, IF n.acked < n.rev \/ n.seen # n.ackSeen THEN "ack" ELSE "settle")
    /\ UNCHANGED <<dlv, claim, jr, ticket, auth, recon, need, bk, impEvents>>

\* ack: a first acknowledgement after the lease must be reconciled, outside the lane.
AckExpired(t) ==
    LET w == W(t) IN
    /\ PassAt(t, "ack") /\ rec[w].acked = 0 /\ ~claim[w].lease
    /\ need' = TRUE
    /\ Goto(t, "confirm")
    /\ UNCHANGED <<dlv, claim, jr, rec, ticket, auth, recon, bk, impEvents>>

\* A slip: a rejected acknowledgement leaves the dispatch authority.
RejectedKeepsAuthority(w) == auth

\* A rejection takes the dispatch authority away before anything else.
Rejected(w) == auth \ {w}

Ack(t) ==
    LET w == W(t) r == rec[w] IN
    /\ PassAt(t, "ack") /\ (r.acked > 0 \/ claim[w].lease)
    /\ IF bk[w].mine
       THEN /\ bk' = [bk EXCEPT ![w].rev = r.rev, ![w].seen = r.seen]
            /\ UNCHANGED <<auth, need>>
            /\ \/ PutRecord(w, [r EXCEPT !.acked = r.rev, !.ackSeen = r.seen])
                  /\ Goto(t, "settle") /\ UNCHANGED impEvents
               \/ Trouble /\ Leave(t) /\ UNCHANGED rec
       ELSE /\ auth' = Rejected(w) /\ need' = TRUE
            /\ PutRecord(w, [r EXCEPT !.required = TRUE]) /\ Leave(t)
            /\ UNCHANGED <<bk, impEvents>>
    /\ UNCHANGED <<dlv, claim, jr, ticket, recon>>

\* settle: the body of a settlement is saved before it is sent, and sent again after a
\* loss; only the backend's answer marks it done.
SettlePublication(t) ==
    LET w == W(t) r == rec[w] IN
    /\ PassAt(t, "settle") /\ t = "run" /\ RecordStands(w) /\ ~r.pubDone
    /\ IF bk[w].mine
       THEN /\ bk' = [bk EXCEPT ![w].pub = "completed"]
            /\ \/ PutRecord(w, [r EXCEPT !.pubIntent = TRUE, !.pubDone = TRUE]) /\ UNCHANGED <<lane, impEvents>>
               \/ PutRecord(w, [r EXCEPT !.pubIntent = TRUE]) /\ Leave(t) /\ Trouble
       ELSE PutRecord(w, [r EXCEPT !.pubIntent = TRUE]) /\ Leave(t) /\ UNCHANGED <<bk, impEvents>>
    /\ UNCHANGED <<dlv, claim, jr, ticket, auth, recon, need>>

\* What the processing permit may be settled as: a completed job once its terminal sample
\* is confirmed, one that was interrupted or never submitted as soon as it has ended.
SettledAs(w) ==
    IF rec[w].proc = "skipped" THEN "skipped"
    ELSE IF ticket[w] \in {"interrupted", "dropped"} THEN "interrupted"
    ELSE IF ticket[w] = "done" /\ rec[w].seen = "done" /\ rec[w].ackSeen = "done" THEN "completed" ELSE Void

Delivered(t) == IF lane[t].del THEN [dlv EXCEPT ![W(t)] = "delivered"] ELSE dlv

\* The backend settles it, or answers that it has to reconcile first: then the pass is
\* over for this one, and a later pass settles again.
SettleProcessing(t) ==
    LET w == W(t) r == rec[w] IN
    /\ PassAt(t, "settle") /\ t = "run" /\ RecordStands(w) /\ r.pubDone
    /\ jr[w].proc /\ ~r.procDone /\ SettledAs(w) # Void
    /\ \/ /\ bk[w].mine /\ bk' = [bk EXCEPT ![w].proc = "settled"] /\ UNCHANGED dlv
          /\ \/ PutRecord(w, [r EXCEPT !.procIntent = SettledAs(w), !.procDone = TRUE]) /\ UNCHANGED <<lane, impEvents>>
             \/ PutRecord(w, [r EXCEPT !.procIntent = SettledAs(w)]) /\ Leave(t) /\ Trouble
       \/ /\ PutRecord(w, [r EXCEPT !.procIntent = SettledAs(w)]) /\ Leave(t) /\ UNCHANGED <<bk, impEvents>>
          /\ IF bk[w].mine THEN dlv' = Delivered(t) ELSE UNCHANGED dlv
    /\ UNCHANGED <<claim, jr, ticket, auth, recon, need>>

\* A slip: the hold goes with the publication permit.
MayReleaseEarly(w) == rec[w].pubDone /\ (jr[w].proc => rec[w].procDone)

\* The hold goes when both permits are settled and this very revision is acknowledged,
\* and never while the source waits for capacity.
MayRelease(w) ==
    /\ rec[w].pubDone /\ (jr[w].proc => rec[w].procDone)
    /\ rec[w].acked = rec[w].rev /\ rec[w].proc # "awaiting"

EndSettle(t) ==
    LET w == W(t) IN
    /\ PassAt(t, "settle")
    /\ t = "report" \/ ~RecordStands(w) \/ (rec[w].pubDone /\ ~(jr[w].proc /\ ~rec[w].procDone /\ SettledAs(w) # Void))
    /\ rec' = IF t = "run" /\ RecordStands(w) /\ MayRelease(w) THEN [rec EXCEPT ![w].hold = FALSE] ELSE rec
    /\ dlv' = Delivered(t)
    /\ Leave(t)
    /\ UNCHANGED <<claim, jr, ticket, auth, recon, need, bk, impEvents>>

\* After the reconciliation it asked for, a pass takes the lane again to settle.
AfterReconcile(t) ==
    /\ PassAt(t, "confirm") /\ recon.at = Void /\ LaneFree(W(t))
    /\ IF RecordStands(W(t)) /\ ~need /\ t = "run" THEN Goto(t, "settle") ELSE Leave(t)
    /\ UNCHANGED <<dlv, claim, jr, rec, ticket, auth, recon, need, bk, impEvents>>

-----------------------------------------------------------------------------
\* Reconciliation, dispatch, restart

Records == {w \in Works : rec[w].on}

\* All lanes first, then every dispatch authority is taken back.
Reconcile ==
    /\ recon.at = Void /\ (need \/ \E w \in Records : rec[w].required)
    /\ \A w \in Records : LaneFree(w)
    /\ auth' = auth \ Records
    /\ recon' = [at |-> "inspect", works |-> Records, left |-> Records, group |-> {}]
    /\ UNCHANGED <<dlv, claim, jr, rec, ticket, lane, need, bk, impEvents>>

\* Each record is marked and looked up; another owner's work leaves the batch, either
\* to wait or to the history.
InspectRecord(w) ==
    /\ recon.at = "inspect" /\ w \in recon.left
    /\ \/ /\ bk[w].mine
          /\ PutRecord(w, [rec[w] EXCEPT !.required = TRUE])
          /\ recon' = [recon EXCEPT !.left = @ \ {w}, !.group = @ \cup {w}]
       \/ /\ ~bk[w].mine
          /\ recon' = [recon EXCEPT !.left = @ \ {w}]
          /\ \/ PutRecord(w, [rec[w] EXCEPT !.required = TRUE, !.owner = TRUE])
             \/ PutRecord(w, NoRecord)
    /\ UNCHANGED <<dlv, claim, jr, ticket, auth, lane, need, bk, impEvents>>

\* One batch; the whole answer is validated before any record is restored.
SendBatch ==
    /\ recon.at = "inspect" /\ recon.left = {}
    /\ bk' = [w \in Works |-> IF w \in recon.group /\ bk[w].mine
                              THEN [bk[w] EXCEPT !.rev = rec[w].rev, !.seen = rec[w].seen] ELSE bk[w]]
    /\ recon' = [recon EXCEPT !.at = "restore", !.left = {w \in recon.group : bk[w].mine}]
    /\ UNCHANGED <<dlv, claim, jr, rec, ticket, auth, lane, need, impEvents>>

Restore(w) ==
    /\ recon.at = "restore" /\ w \in recon.left
    /\ PutRecord(w, [rec[w] EXCEPT !.required = FALSE, !.owner = FALSE, !.acked = rec[w].rev, !.ackSeen = rec[w].seen])
    /\ auth' = IF rec[w].proc = "ticket" THEN auth \cup {w} ELSE auth
    /\ recon' = [recon EXCEPT !.left = @ \ {w}]
    /\ UNCHANGED <<dlv, claim, jr, ticket, lane, need, bk, impEvents>>

BatchReconciled ==
    /\ recon.at = "restore" /\ recon.left = {}
    /\ recon' = Calm /\ need' = FALSE
    /\ UNCHANGED <<dlv, claim, jr, rec, ticket, auth, lane, bk, impEvents>>

\* An error on the way leaves what is not restored fenced; it is tried again.
ReconcileFails ==
    /\ recon.at # Void /\ Trouble
    /\ recon' = Calm
    /\ UNCHANGED <<dlv, claim, jr, rec, ticket, auth, lane, need, bk>>

\* The processor (DocumentProcessing) submits a ticket only under its authority; what was
\* submitted ends without it, and a ticket may end before it is submitted.
Dispatch(w) ==
    /\ ticket[w] = "queued" /\ w \in auth
    /\ ticket' = [ticket EXCEPT ![w] = "running"]
    /\ UNCHANGED <<dlv, claim, jr, rec, auth, lane, recon, need, bk, impEvents>>

JobEnds(w) ==
    /\ \E e \in CASE ticket[w] = "running" -> {"done", "interrupted"}
              [] ticket[w] = "queued" -> {"dropped"} [] OTHER -> {} :
         ticket' = [ticket EXCEPT ![w] = e]
    /\ UNCHANGED <<dlv, claim, jr, rec, auth, lane, recon, need, bk, impEvents>>

\* A restart proves what it can of the publications in doubt (CloudSync's Recover), and
\* begins with a reconciliation.
ImportRestart ==
    /\ Trouble
    /\ auth' = {} /\ lane' = [t \in Passes |-> Free] /\ recon' = Calm /\ need' = TRUE
    /\ \E proved \in SUBSET {w \in Works : jr[w].st = "indeterminate"} :
         /\ jr' = [w \in Works |-> IF w \in proved THEN [jr[w] EXCEPT !.st = "committed"] ELSE jr[w]]
         /\ rec' = [w \in Works |-> IF w \in proved THEN FirstRevision(w) ELSE rec[w]]
         /\ ticket' = [w \in Works |-> IF w \in proved /\ jr[w].adm = "ticket" THEN "queued" ELSE ticket[w]]
    /\ UNCHANGED <<dlv, claim, bk>>

ImportNext ==
    \/ \E w \in Works :
         \/ ClaimPage(w) \/ LeaseExpires(w) \/ OwnerLost(w) \/ Deliver(w) \/ ReportFailure(w)
         \/ InspectRecord(w) \/ Restore(w) \/ Dispatch(w) \/ JobEnds(w)
         \/ \E t \in Passes : RetryReceipt(t, w)
    \/ StageImport \/ HavePublication \/ Publish \/ PublishUnproved \/ DeliveryFails \/ DeliveryWaits
    \/ Ask("run", "publication") \/ Ask("run", "processing")
    \/ Admit("run") \/ HaveProcessing("run") \/ AdmitLater("run")
    \/ \E t \in Passes : Observe(t) \/ AfterReconcile(t) \/ AckExpired(t) \/ Ack(t) \/ SettlePublication(t) \/ SettleProcessing(t) \/ EndSettle(t)
    \/ Reconcile \/ SendBatch \/ BatchReconciled \/ ReconcileFails \/ ImportRestart

ImportSpec == ImportInit /\ [][ImportNext]_impVars

-----------------------------------------------------------------------------
\* The source stays held until the backend itself has both permits settled and the very
\* receipt the record holds, whatever answer was lost and whoever ran in between.  Only an
\* interrupted job, settled before its id was known, may add that id afterwards.
HeldUntilSettled ==
    \A w \in Works : rec[w].on /\ ~rec[w].hold =>
      /\ bk[w].pub = "completed" /\ (bk[w].proc # Void => bk[w].proc = "settled")
      /\ \/ bk[w].rev = rec[w].rev
         \/ ticket[w] = "interrupted" /\ rec[w].link /\ bk[w].rev + 1 = rec[w].rev
      /\ rec[w].proc # "awaiting"

\* A ticket may be dispatched only under a record that stands: never while it awaits
\* reconciliation, waits for its owner or has gone to the history.
AuthorityStands == \A w \in auth : RecordStands(w)

\* The backend is told that a delivery failed for good only if the file is not, and
\* cannot turn out to be, published by a change that is on record.  What is committed
\* without one (it reused the file there was, or a restart proved what a crash had kept
\* from the journal) may still be reported failed.
FailureIsCertain ==
    \A w \in Works : bk[w].failed => jr[w].st \in {Void, "failed"} \/ (jr[w].st = "committed" /\ ~jr[w].eff)

\* A source is held until the backend has settled, a ticket is dispatched only under a
\* record that stands, and a failed delivery has no change on record.
ImportPromises == HeldUntilSettled /\ AuthorityStands /\ FailureIsCertain
=============================================================================
