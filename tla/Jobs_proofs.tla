------------------------------ MODULE Jobs_proofs ------------------------------
(***************************************************************************)
(* Proofs about the work done for the user in the background: the tickets  *)
(* of document processing (DocumentProcessing), the imports from the cloud *)
(* (CloudImport) and the voxel artifacts (Voxels), for any number of them, *)
(* any ceiling, and any number of failed calls, lost answers, crashes,     *)
(* restarts and drains.                                                    *)
(***************************************************************************)
EXTENDS DocumentProcessing, CloudImport, Voxels, FiniteSetTheorems, TLAPS

--------------------
\* DocumentProcessing: the ceiling, no orphan work, the source kept

Stages == {None, "capturing", "pending", "copying", "submitting", "tracking", "blocked", "terminal"}
TicketRecord == [stage : Stages, cancel : BOOLEAN, intent : BOOLEAN, uncertain : BOOLEAN, rejected : BOOLEAN,
                 known : BOOLEAN, req : BOOLEAN, snap : BOOLEAN, paused : BOOLEAN, outcome : {None} \cup Ended,
                 clean : {"inbox", "hold", "complete"}]
CaptureStates == {None, "running", "succeeded", "failed", "cancelled"}
OperationStates == {None, "skipped", "asked", "held", "staged", "committed", "failed"}
UpstreamJob == [state : {None, "active"} \cup Ended, snap : BOOLEAN]
Sending == {"send", "post"}
Dispatching == {"dispatch", "lookup", "intent"} \cup Sending
Tasks == {None, "copy", "copying", "copied"} \cup Dispatching
Listed == {None, "cleanup", "capture", "settle", "dispatch", "copy"}

TicketTypes ==
    /\ job \in [Jobs -> TicketRecord] /\ up \in [Jobs -> UpstreamJob]
    /\ creq \in [Jobs -> CaptureStates]
    /\ opst \in [Jobs -> OperationStates]
    /\ work \in [Jobs -> Tasks] /\ seen \in [Jobs -> Listed]
    /\ permits \in [Jobs -> {None, "observe", "full"}]
    /\ claimed \subseteq FileJobs /\ reservations \subseteq UploadJobs /\ over \subseteq CloudJobs
    /\ alive \in BOOLEAN /\ draining \in BOOLEAN
    /\ \A i, j \in admitting : i = j

\* A ticket that has no source yet has left no traces: no task, no intent.
Unbegun(j) ==
    /\ job[j].stage = None => j \notin cap /\ j \notin settling /\ seen[j] = None
    /\ job[j].stage \in {None, "capturing"} =>
         ~job[j].intent /\ ~job[j].known /\ work[j] = None /\ seen[j] \notin {"copy", "dispatch"}

\* Whatever reached the processor, or is about to, left its intent before; an intent its
\* request; and whoever sends while another POST may be under way knows of it.
Traced(j) ==
    /\ up[j].state # None \/ j \in net \/ work[j] \in Sending => job[j].intent
    /\ job[j].intent \/ work[j] \in Dispatching \/ seen[j] = "dispatch" => job[j].req
    /\ work[j] = "lookup" => job[j].intent
    /\ j \in net /\ work[j] \in {"lookup", "intent"} \cup Sending => job[j].uncertain

\* What the record says of the processor's job is so.
Reported(j) ==
    /\ job[j].snap => up[j].snap
    /\ up[j].snap => up[j].state # None
    /\ job[j].known => up[j].state # None
    /\ TicketEnded(j) /\ job[j].known => up[j].state \in Ended
    /\ job[j].rejected => TicketEnded(j) /\ ~job[j].known

Unorphaned(j) ==
    TicketEnded(j) /\ ~job[j].known => up[j].state = None /\ j \notin net /\ work[j] \notin Sending

\* The bytes are there from the copy until they may be cleaned, the hold from the capture.
Stored(j) ==
    /\ job[j].req \/ work[j] = "copied" => j \in inbox \/ MayClean(job[j])
    /\ job[j].stage \notin {None, "capturing", "terminal"} => j \in holds \/ up[j].snap

\* One submit at a time writes a record, and only for a claim; a staged upload has its
\* reservation; and what exceeds the ceiling has been granted.
Admitting(j) ==
    /\ j \in admitting => alive /\ j \in claimed /\ job[j].stage = None
    /\ alive /\ opst[j] = "staged" /\ job[j].stage = None => j \in reservations
    /\ j \in FileJobs /\ job[j].stage # None => j \in claimed
    /\ opst[j] = "staged" => j \in UploadJobs
    /\ j \in over => opst[j] \notin {None, "asked"}

TicketInv(j) == Unbegun(j) /\ Traced(j) /\ Reported(j) /\ Unorphaned(j) /\ Stored(j) /\ Admitting(j)

\* What the ceiling counts, in memory and on disk: all but what has exceeded it.
Counted == {j \in Jobs \ over : job[j].stage # "terminal"
                         /\ (job[j].stage # None \/ j \in claimed \/ j \in reservations \/ opst[j] = "staged")}

TicketsInv ==
    /\ TicketTypes
    /\ \A j \in Jobs : TicketInv(j)
    /\ Cardinality(Counted) <= ActiveTickets

LEMMA TicketsCounted == IsFiniteSet(Jobs) /\ \A S : S \subseteq Jobs => IsFiniteSet(S) /\ Cardinality(S) \in Nat
<1>1. IsFiniteSet(Jobs) BY TicketsAssumption
<1> QED BY <1>1, FS_Subset, FS_CardinalityType

\* A step that touches one ticket.
OnlyTicket(j) ==
    \A i \in Jobs \ {j} :
        /\ job'[i] = job[i] /\ up'[i] = up[i] /\ work'[i] = work[i] /\ seen'[i] = seen[i] /\ opst'[i] = opst[i]
        /\ (i \in net') = (i \in net) /\ (i \in cap') = (i \in cap) /\ (i \in settling') = (i \in settling)
        /\ (i \in inbox') = (i \in inbox) /\ (i \in holds') = (i \in holds) /\ (i \in admitting') = (i \in admitting)
        /\ (i \in claimed') = (i \in claimed) /\ (i \in reservations') = (i \in reservations)
        /\ (i \in over') = (i \in over)

LEMMA UntouchedTicket ==
    ASSUME NEW i \in Jobs, TicketInv(i), alive' = alive,
           job'[i] = job[i], up'[i] = up[i], work'[i] = work[i], seen'[i] = seen[i], opst'[i] = opst[i],
           (i \in net') = (i \in net), (i \in cap') = (i \in cap), (i \in settling') = (i \in settling),
           (i \in inbox') = (i \in inbox), (i \in holds') = (i \in holds), (i \in admitting') = (i \in admitting),
           (i \in claimed') = (i \in claimed), (i \in reservations') = (i \in reservations),
           (i \in over') = (i \in over)
    PROVE  TicketInv(i)'
<1>1. Unbegun(i)' BY DEF TicketInv, Unbegun
<1>2. Traced(i)' /\ Reported(i)' /\ Unorphaned(i)' BY DEF TicketInv, Traced, Reported, Unorphaned, TicketEnded
<1>3. Stored(i)' /\ Admitting(i)' BY DEF TicketInv, Stored, Admitting, MayClean
<1> QED BY <1>1, <1>2, <1>3 DEF TicketInv

LEMMA OneTicketMoves ==
    ASSUME TicketsInv, NEW j \in Jobs, TicketTypes', OnlyTicket(j), alive' = alive, TicketInv(j)',
           j \in Counted' => j \in Counted
    PROVE  TicketsInv'
<1>1. ASSUME NEW i \in Jobs
      PROVE  TicketInv(i)'
 <2>1. CASE i = j BY <2>1
 <2>2. CASE i # j BY <2>2, UntouchedTicket DEF TicketsInv, OnlyTicket
 <2> QED BY <2>1, <2>2
<1>2. Counted' \subseteq Counted BY DEF OnlyTicket, Counted
<1>3. IsFiniteSet(Counted) /\ Cardinality(Counted) \in Nat /\ Cardinality(Counted') \in Nat
  BY TicketsCounted DEF Counted
<1>4. Cardinality(Counted') <= Cardinality(Counted) BY <1>2, <1>3, FS_Subset
<1>5. Cardinality(Counted') <= ActiveTickets BY <1>3, <1>4, TicketsAssumption DEF TicketsInv
<1> QED BY <1>1, <1>5 DEF TicketsInv

\* A changed record that keeps what the ticket left behind, and how its stage may move.
SameTrail(r, q) ==
    /\ r.intent = q.intent /\ r.rejected = q.rejected /\ r.known = q.known /\ r.req = q.req /\ r.snap = q.snap
    /\ q.uncertain => r.uncertain
StageMoves(r, q) ==
    \/ r.stage = q.stage
    \/ q.stage # "terminal" /\ r.stage = "terminal" /\ ~q.intent /\ ~q.known
    \/ q.stage # "terminal" /\ r.stage \in {"pending", "copying", "submitting", "blocked"}

RecordMoves(j) ==
    /\ job' \in [Jobs -> TicketRecord] /\ \A i \in Jobs \ {j} : job'[i] = job[i]
    /\ SameTrail(job'[j], job[j]) /\ StageMoves(job'[j], job[j])

LEMMA StagedRecord ==
    ASSUME NEW j \in Jobs, job[j] \in TicketRecord, NEW s \in Stages
    PROVE  /\ AtStage(j, s) \in TicketRecord /\ SameTrail(AtStage(j, s), job[j])
           /\ AtStage(j, s).stage = (IF TicketEnded(j) THEN job[j].stage ELSE s)
           /\ AtStage(j, s).uncertain = job[j].uncertain
<1> DEFINE t == IF TicketEnded(j) THEN job[j].stage ELSE s
<1>1. t \in Stages BY DEF TicketRecord
<1>2. AtStage(j, s) = [job[j] EXCEPT !.stage = t] BY DEF AtStage, TicketRecord
<1> HIDE DEF t
<1>3. LET r == [job[j] EXCEPT !.stage = t] q == job[j] IN
      r \in TicketRecord /\ SameTrail(r, q) /\ r.stage = t /\ r.uncertain = q.uncertain
  BY <1>1 DEF TicketRecord, SameTrail
<1> QED BY <1>2, <1>3 DEF t

LEMMA EndedRecord ==
    ASSUME NEW j \in Jobs, job[j] \in TicketRecord, NEW o \in Ended
    PROVE  /\ EndedAs(j, o) \in TicketRecord /\ SameTrail(EndedAs(j, o), job[j])
           /\ EndedAs(j, o).stage = "terminal"
<1>1. CASE TicketEnded(j) BY <1>1 DEF EndedAs, TicketEnded, SameTrail
<1>2. CASE ~TicketEnded(j)
 <2>1. EndedAs(j, o) = [job[j] EXCEPT !.stage = "terminal", !.outcome = o] BY <1>2 DEF EndedAs
 <2>2. LET r == [job[j] EXCEPT !.stage = "terminal", !.outcome = o] q == job[j] IN
       r \in TicketRecord /\ SameTrail(r, q) /\ r.stage = "terminal" BY DEF TicketRecord, Stages, SameTrail
 <2> QED BY <2>1, <2>2
<1> QED BY <1>1, <1>2

LEMMA FlaggedRecord ==
    ASSUME NEW j \in Jobs, job[j] \in TicketRecord
    PROVE  LET q == job[j] cancelled == [q EXCEPT !.cancel = TRUE] paused == [q EXCEPT !.paused = TRUE] IN
           /\ cancelled \in TicketRecord /\ SameTrail(cancelled, q) /\ cancelled.stage = q.stage
           /\ paused \in TicketRecord /\ SameTrail(paused, q) /\ paused.stage = q.stage
           /\ UncertainByIntent(j) \in TicketRecord /\ SameTrail(UncertainByIntent(j), q)
           /\ UncertainByIntent(j).stage = q.stage /\ UncertainByIntent(j).uncertain = TRUE
BY DEF TicketRecord, SameTrail, UncertainByIntent

LEMMA FreshRecord ==
    ASSUME NEW s \in Stages
    PROVE  LET r == NewJob(s) IN
           /\ r \in TicketRecord /\ r.stage = s /\ r.cancel = FALSE /\ r.intent = FALSE /\ r.uncertain = FALSE
           /\ r.rejected = FALSE /\ r.known = FALSE /\ r.req = FALSE /\ r.snap = FALSE BY DEF NewJob, TicketRecord

LEMMA PutIs ==
    ASSUME TicketTypes, NEW j \in Jobs, NEW r \in TicketRecord, PutTicket(j, r)
    PROVE  job' \in [Jobs -> TicketRecord] /\ job'[j] = r /\ \A i \in Jobs \ {j} : job'[i] = job[i]
BY DEF TicketTypes, PutTicket

LEMMA WorkIs ==
    ASSUME TicketTypes, NEW j \in Jobs, NEW w \in Tasks, Work(j, w)
    PROVE  work' \in [Jobs -> Tasks] /\ work'[j] = w /\ \A i \in Jobs \ {j} : work'[i] = work[i]
BY DEF TicketTypes, Work

LEMMA VisitedIs ==
    ASSUME TicketTypes, NEW j \in Jobs, Visited(j)
    PROVE  seen' \in [Jobs -> Listed] /\ seen'[j] = None /\ \A i \in Jobs \ {j} : seen'[i] = seen[i]
BY DEF TicketTypes, Visited, Listed

\* The ways in which the actions write a record.
LEMMA KeptMoves ==
    ASSUME TicketTypes, NEW j \in Jobs, UNCHANGED job
    PROVE  RecordMoves(j) BY DEF TicketTypes, RecordMoves, SameTrail, StageMoves

LEMMA PutMoves ==
    ASSUME TicketTypes, NEW j \in Jobs, NEW r \in TicketRecord, PutTicket(j, r), SameTrail(r, job[j]), StageMoves(r, job[j])
    PROVE  RecordMoves(j) /\ job'[j] = r BY PutIs DEF RecordMoves

LEMMA StagedMoves ==
    ASSUME TicketTypes, NEW j \in Jobs, NEW s \in {"pending", "copying", "submitting", "blocked"}, PutTicket(j, AtStage(j, s))
    PROVE  RecordMoves(j)
<1>1. job[j] \in TicketRecord /\ s \in Stages BY DEF TicketTypes, Stages
<1>2. StageMoves(AtStage(j, s), job[j]) BY <1>1, StagedRecord DEF StageMoves, TicketEnded
<1> QED BY <1>1, <1>2, StagedRecord, PutMoves

LEMMA EndedMoves ==
    ASSUME TicketTypes, NEW j \in Jobs, NEW o \in Ended, ~job[j].intent, ~job[j].known, PutTicket(j, EndedAs(j, o))
    PROVE  RecordMoves(j) /\ job'[j].stage \in {job[j].stage, "terminal"}
<1>1. job[j] \in TicketRecord BY DEF TicketTypes
<1>2. StageMoves(EndedAs(j, o), job[j]) BY <1>1, EndedRecord DEF StageMoves
<1> QED BY <1>1, <1>2, EndedRecord, PutMoves

LEMMA FlaggedMoves ==
    ASSUME TicketTypes, NEW j \in Jobs
    PROVE  /\ PutTicket(j, [job[j] EXCEPT !.paused = TRUE]) => RecordMoves(j) /\ job'[j].stage = job[j].stage
           /\ PutTicket(j, [job[j] EXCEPT !.cancel = TRUE]) => RecordMoves(j) /\ job'[j].stage = job[j].stage
           /\ PutTicket(j, UncertainByIntent(j)) => RecordMoves(j) /\ job'[j].stage = job[j].stage /\ job'[j].uncertain = TRUE
<1>1. job[j] \in TicketRecord BY DEF TicketTypes
<1>2. \A r : r.stage = job[j].stage => StageMoves(r, job[j]) BY DEF StageMoves
<1> QED BY <1>1, <1>2, FlaggedRecord, PutMoves

LEMMA BlockedMoves ==
    ASSUME TicketTypes, NEW j \in Jobs, BlockedFor(j)
    PROVE  RecordMoves(j)
<1>1. CASE Blocked(j) BY <1>1, StagedMoves DEF Blocked
<1>2. CASE PutTicket(j, [job[j] EXCEPT !.paused = TRUE]) BY <1>2, FlaggedMoves
<1>3. CASE ~job[j].intent /\ ~job[j].known /\ PutTicket(j, EndedAs(j, "failed")) BY <1>3, EndedMoves DEF Ended
<1> QED BY <1>1, <1>2, <1>3 DEF BlockedFor

LEMMA FailLocalMoves ==
    ASSUME TicketTypes, NEW j \in Jobs, FailLocal(j)
    PROVE  RecordMoves(j) /\ job'[j].stage \in {job[j].stage, "terminal"}
BY KeptMoves, EndedMoves DEF FailLocal, Ended

LEMMA SettleLocalMoves ==
    ASSUME TicketTypes, NEW j \in Jobs, SettleLocal(j)
    PROVE  /\ RecordMoves(j) /\ job'[j].stage \in {job[j].stage, "terminal"}
           /\ creq' \in [Jobs -> CaptureStates]
<1>1. UNCHANGED job \/ (~job[j].intent /\ ~job[j].known /\ PutTicket(j, EndedAs(j, "cancelled"))) BY DEF SettleLocal
<1>2. RecordMoves(j) /\ job'[j].stage \in {job[j].stage, "terminal"} BY <1>1, KeptMoves, EndedMoves DEF Ended
<1>3. creq' = creq \/ creq' = [creq EXCEPT ![j] = "cancelled"] BY DEF SettleLocal
<1> QED BY <1>2, <1>3 DEF TicketTypes, CaptureStates

LEMMA AttachMoves ==
    ASSUME TicketTypes, NEW j \in Jobs, Attach(j)
    PROVE  /\ RecordMoves(j) /\ holds \subseteq holds' /\ holds' \subseteq holds \cup {j}
           /\ job'[j].stage = job[j].stage \/ j \in holds'
<1>1. CASE UNCHANGED <<job, holds>> BY <1>1, KeptMoves
<1>2. CASE PutTicket(j, AtStage(j, "pending")) /\ holds' = holds \cup {j} BY <1>2, StagedMoves
<1> QED BY <1>1, <1>2 DEF Attach

\* A step of a ticket that sends nothing and learns nothing: its record moves on or ends
\* before its first intent, and its task goes to a stage before the POST.
QuietMove(j) ==
    LET q == job[j] r == job'[j] IN
    /\ SameTrail(r, q) /\ StageMoves(r, q)
    /\ q.stage = None => r.stage = None
    /\ q.stage = "capturing" => r.stage \in {"capturing", "terminal"} \/ j \in holds'
    /\ seen'[j] \in {seen[j], None}
    /\ \/ work'[j] \in {work[j], None}
       \/ work'[j] \in {"copy", "copying"} /\ q.stage \notin {None, "capturing"}
       \/ work'[j] = "copied" /\ j \in inbox' /\ q.stage \notin {None, "capturing"}
       \/ work'[j] = "dispatch" /\ q.req /\ q.stage \notin {None, "capturing"}
       \/ work'[j] \in {"lookup", "intent"} /\ work[j] \in Dispatching /\ (j \in net => r.uncertain)
          /\ (work'[j] = "lookup" => q.intent)
       \/ work'[j] \in Sending /\ work[j] \in Sending
    /\ (j \in holds => j \in holds') /\ (j \in inbox => j \in inbox')
    /\ j \in cap' \/ j \in settling' => q.stage # None
    /\ up'[j] = up[j] /\ opst'[j] = opst[j] /\ (j \in net') = (j \in net) /\ (j \in admitting') = (j \in admitting)
    /\ (j \in claimed') = (j \in claimed) /\ (j \in reservations') = (j \in reservations)
    /\ (j \in over') = (j \in over)

LEMMA QuietStep ==
    ASSUME TicketsInv, NEW j \in Jobs, TicketTypes', OnlyTicket(j), alive' = alive, QuietMove(j)
    PROVE  TicketsInv'
<1> DEFINE q == job[j]
           r == job'[j]
<1>1. TicketInv(j) /\ q \in TicketRecord /\ r \in TicketRecord /\ work[j] \in Tasks /\ work'[j] \in Tasks
  BY DEF TicketsInv, TicketTypes
<1>2. /\ r.intent = q.intent /\ r.rejected = q.rejected /\ r.known = q.known /\ r.req = q.req /\ r.snap = q.snap
      /\ q.uncertain => r.uncertain
      /\ up'[j] = up[j] /\ (j \in net') = (j \in net)
      /\ (j \in holds => j \in holds') /\ (j \in inbox => j \in inbox') BY DEF QuietMove, SameTrail
<1>3. \/ r.stage = q.stage
      \/ q.stage \notin {None, "terminal"} /\ r.stage = "terminal" /\ ~q.intent /\ ~q.known
      \/ /\ q.stage \notin {None, "terminal"} /\ r.stage \notin {None, "capturing", "terminal"}
         /\ q.stage = "capturing" => j \in holds' BY DEF QuietMove, StageMoves, None
<1>4. \/ work'[j] \in {work[j], None}
      \/ work'[j] \in {"copy", "copying"} /\ q.stage \notin {None, "capturing"}
      \/ work'[j] = "copied" /\ j \in inbox' /\ q.stage \notin {None, "capturing"}
      \/ work'[j] = "dispatch" /\ q.req /\ q.stage \notin {None, "capturing"}
      \/ work'[j] \in {"lookup", "intent"} /\ work[j] \in Dispatching /\ (j \in net => r.uncertain)
         /\ (work'[j] = "lookup" => q.intent)
      \/ work'[j] \in Sending /\ work[j] \in Sending BY DEF QuietMove
<1> HIDE DEF q, r
<1>5. Unbegun(j)'
 <2>1. job[j].stage = None => seen'[j] = None /\ j \notin cap' /\ j \notin settling'
   BY <1>1 DEF QuietMove, TicketInv, Unbegun
 <2>2. r.stage = None => q.stage = None BY <1>3 DEF None
 <2>3. r.stage \in {None, "capturing"} => q.stage \in {None, "capturing"} BY <1>3 DEF None
 <2>4. q.stage \in {None, "capturing"} => work'[j] = None
   BY <1>1, <1>4 DEF TicketInv, Unbegun, Dispatching, Sending, None, q
 <2>5. q.stage \in {None, "capturing"} => seen'[j] \notin {"copy", "dispatch"}
   BY <1>1 DEF QuietMove, TicketInv, Unbegun, None, q
 <2> QED BY <1>1, <1>2, <2>1, <2>2, <2>3, <2>4, <2>5 DEF TicketInv, Unbegun, q, r
<1>6. work'[j] \in Sending => work[j] \in Sending BY <1>4 DEF Sending, None
<1>7. Traced(j)'
 <2>1. (up[j].state # None \/ j \in net \/ work[j] \in Sending => q.intent)' 
   BY <1>1, <1>2, <1>6 DEF TicketInv, Traced, q, r
 <2>2. seen'[j] = "dispatch" => seen[j] = "dispatch" BY DEF QuietMove, None
 <2>3. work'[j] \in Dispatching => work[j] \in Dispatching \/ q.req BY <1>4 DEF Dispatching, Sending, None
 <2>4. (work'[j] = "lookup" => q.intent)  BY <1>1, <1>4 DEF TicketInv, Traced, None, q
 <2>5. j \in net /\ work'[j] \in {"lookup", "intent"} \cup Sending => r.uncertain
   BY <1>1, <1>2, <1>4 DEF TicketInv, Traced, None, q, Sending
 <2> QED BY <1>1, <1>2, <2>1, <2>2, <2>3, <2>4, <2>5 DEF TicketInv, Traced, q, r
<1>8. r.stage = "terminal" /\ q.stage # "terminal" => ~q.intent /\ ~q.known BY <1>3
<1>9. q.stage = "terminal" => r.stage = "terminal" BY <1>3
<1>10. Reported(j)' BY <1>1, <1>2, <1>8, <1>9 DEF TicketInv, Reported, TicketEnded, q, r
<1>11. Unorphaned(j)' BY <1>1, <1>2, <1>6, <1>8, <1>9 DEF TicketInv, Traced, Unorphaned, TicketEnded, q, r
<1>12. MayClean(q) => MayClean(r) BY <1>2, <1>9 DEF MayClean
<1>13. work'[j] = "copied" => work[j] = "copied" \/ j \in inbox' BY <1>4 DEF None, Sending
<1>14. r.stage \notin {None, "capturing", "terminal"} => q.stage \notin {None, "capturing", "terminal"} \/ j \in holds'
  BY <1>3
<1>15. Stored(j)' BY <1>1, <1>2, <1>12, <1>13, <1>14 DEF TicketInv, Stored, q, r
<1>16. r.stage = None <=> q.stage = None BY <1>3 DEF None
<1>17. Admitting(j)' /\ (j \in Counted' => j \in Counted)
  BY <1>1, <1>9, <1>16 DEF QuietMove, TicketInv, Admitting, Counted, q, r
<1> QED BY <1>5, <1>7, <1>10, <1>11, <1>15, <1>17, OneTicketMoves DEF TicketInv

\* One lemma for each action.

LEMMA CopyStartStep ==
    ASSUME TicketsInv, NEW j \in Jobs, CopyStart(j)
    PROVE  TicketsInv'
<1> USE DEF modes, volatile, durable, upstream
<1>1. TicketTypes /\ TicketInv(j) /\ work[j] = "copy" BY DEF TicketsInv, TicketTypes, CopyStart
<1>2. RecordMoves(j) BY <1>1, StagedMoves, KeptMoves DEF CopyStart, Blocked
<1>3. PICK w \in {None, "copying"} : Work(j, w) BY <1>1 DEF CopyStart
<1>4. work' \in [Jobs -> Tasks] /\ work'[j] = w /\ \A i \in Jobs \ {j} : work'[i] = work[i]
  BY <1>1, <1>3, WorkIs DEF Tasks, Dispatching, Sending
<1>5. UNCHANGED <<claimed, creq, opst, holds, inbox, up, net, alive, draining, admitting,
                  reservations, permits, cap, seen, settling, over>> BY DEF CopyStart
<1>6. job[j].stage \notin {None, "capturing"} BY <1>1 DEF TicketInv, Unbegun, None
<1>7. TicketTypes' /\ OnlyTicket(j) BY <1>1, <1>2, <1>4, <1>5 DEF TicketTypes, OnlyTicket, RecordMoves
<1>8. QuietMove(j)
  BY <1>1, <1>2, <1>3, <1>4, <1>5, <1>6 DEF QuietMove, TicketInv, Unbegun, RecordMoves, Dispatching, Sending
<1> QED BY <1>5, <1>7, <1>8, QuietStep

LEMMA CopyPublishStep ==
    ASSUME TicketsInv, NEW j \in Jobs, CopyPublish(j)
    PROVE  TicketsInv'
<1> USE DEF modes, volatile, durable, upstream
<1>1. TicketTypes /\ TicketInv(j) /\ work[j] = "copying" BY DEF TicketsInv, TicketTypes, CopyPublish
<1>2. RecordMoves(j) BY <1>1, StagedMoves, KeptMoves DEF CopyPublish, Blocked
<1>3. PICK w \in {None, "copied"} : Work(j, w) BY <1>1 DEF CopyPublish
<1>4. work' \in [Jobs -> Tasks] /\ work'[j] = w /\ \A i \in Jobs \ {j} : work'[i] = work[i]
  BY <1>1, <1>3, WorkIs DEF Tasks, Dispatching, Sending
<1>5. UNCHANGED <<claimed, creq, opst, holds, up, net, alive, draining, admitting, reservations,
                  permits, cap, seen, settling, over>> BY DEF CopyPublish
<1>6. (inbox' = inbox /\ w = None) \/ inbox' = inbox \cup {j} BY <1>3, <1>4 DEF CopyPublish, Work, None
<1>7. job[j].stage \notin {None, "capturing"} BY <1>1 DEF TicketInv, Unbegun, None
<1>8. TicketTypes' /\ OnlyTicket(j) BY <1>1, <1>2, <1>4, <1>5, <1>6 DEF TicketTypes, OnlyTicket, RecordMoves
<1>9. QuietMove(j)
  BY <1>1, <1>2, <1>3, <1>4, <1>5, <1>6, <1>7 DEF QuietMove, TicketInv, Unbegun, RecordMoves, Dispatching, Sending
<1> QED BY <1>5, <1>8, <1>9, QuietStep

LEMMA CopyFailsStep ==
    ASSUME TicketsInv, NEW j \in Jobs, CopyFails(j)
    PROVE  TicketsInv'
<1> USE DEF modes, volatile, durable, upstream
<1>1. TicketTypes /\ TicketInv(j) /\ work[j] = "copying" BY DEF TicketsInv, TicketTypes, CopyFails
<1>2. RecordMoves(j) BY <1>1, BlockedMoves DEF CopyFails
<1>3. PICK w \in {None} : Work(j, w) BY <1>1 DEF CopyFails
<1>4. work' \in [Jobs -> Tasks] /\ work'[j] = w /\ \A i \in Jobs \ {j} : work'[i] = work[i]
  BY <1>1, <1>3, WorkIs DEF Tasks, Dispatching, Sending
<1>5. UNCHANGED <<claimed, creq, opst, holds, inbox, up, net, alive, draining, admitting,
                  reservations, permits, cap, seen, settling, over>> BY DEF CopyFails
<1>6. job[j].stage \notin {None, "capturing"} BY <1>1 DEF TicketInv, Unbegun, None
<1>7. TicketTypes' /\ OnlyTicket(j) BY <1>1, <1>2, <1>4, <1>5 DEF TicketTypes, OnlyTicket, RecordMoves
<1>8. QuietMove(j)
  BY <1>1, <1>2, <1>3, <1>4, <1>5, <1>6 DEF QuietMove, TicketInv, Unbegun, RecordMoves, Dispatching, Sending
<1> QED BY <1>5, <1>7, <1>8, QuietStep

LEMMA DispatchStartStep ==
    ASSUME TicketsInv, NEW j \in Jobs, DispatchStart(j)
    PROVE  TicketsInv'
<1> USE DEF modes, volatile, durable, upstream
<1>1. TicketTypes /\ TicketInv(j) /\ work[j] = "dispatch" BY DEF TicketsInv, TicketTypes, DispatchStart
<1>2. RecordMoves(j) BY <1>1, StagedMoves, KeptMoves, FlaggedMoves DEF DispatchStart, Blocked
<1>3. PICK w \in {None, "lookup", "intent"} : Work(j, w) BY <1>1 DEF DispatchStart
<1>4. work' \in [Jobs -> Tasks] /\ work'[j] = w /\ \A i \in Jobs \ {j} : work'[i] = work[i]
  BY <1>1, <1>3, WorkIs DEF Tasks, Dispatching, Sending
<1>5. UNCHANGED <<claimed, creq, opst, holds, inbox, up, net, alive, draining, admitting,
                  reservations, permits, cap, seen, settling, over>> BY DEF DispatchStart
<1>6. (w = "intent" => j \notin net) /\ (w = "lookup" => job[j].intent /\ job'[j].uncertain)
  BY <1>1, <1>3, <1>4, FlaggedMoves DEF DispatchStart, Work, None, TicketInv, Traced
<1>7. job[j].stage \notin {None, "capturing"} BY <1>1 DEF TicketInv, Unbegun, None
<1>8. TicketTypes' /\ OnlyTicket(j) BY <1>1, <1>2, <1>4, <1>5, <1>6 DEF TicketTypes, OnlyTicket, RecordMoves
<1>9. QuietMove(j)
  BY <1>1, <1>2, <1>3, <1>4, <1>5, <1>6, <1>7 DEF QuietMove, TicketInv, Unbegun, RecordMoves, Dispatching, Sending
<1> QED BY <1>5, <1>8, <1>9, QuietStep

LEMMA CaptureAnsweredStep ==
    ASSUME TicketsInv, NEW j \in Jobs, CaptureAnswered(j)
    PROVE  TicketsInv'
<1> USE DEF modes, volatile, durable, upstream
<1>1. TicketTypes /\ TicketInv(j) /\ j \in cap BY DEF TicketsInv, TicketTypes, CaptureAnswered
<1>2. RecordMoves(j) /\ (job'[j].stage \in {job[j].stage, "terminal"} \/ j \in holds')
  BY <1>1, AttachMoves, FailLocalMoves, KeptMoves DEF CaptureAnswered
<1>3. work' \in [Jobs -> Tasks] /\ work'[j] = work[j] /\ \A i \in Jobs \ {j} : work'[i] = work[i]
  BY <1>1 DEF CaptureAnswered, TicketTypes
<1>4. UNCHANGED <<claimed, opst, inbox, up, net, alive, draining, admitting, reservations,
                  permits, work, seen, settling, over>> BY DEF CaptureAnswered
<1>5. /\ holds \subseteq holds' /\ holds' \subseteq holds \cup {j} /\ cap' = cap \ {j}
      /\ creq' \in [Jobs -> CaptureStates] BY <1>1, AttachMoves DEF CaptureAnswered, TicketTypes, CaptureStates
<1>6. job[j].stage # None BY <1>1 DEF TicketInv, Unbegun, None
<1>7. TicketTypes' /\ OnlyTicket(j) BY <1>1, <1>2, <1>3, <1>4, <1>5 DEF TicketTypes, OnlyTicket, RecordMoves
<1>8. QuietMove(j)
  BY <1>1, <1>2, <1>3, <1>4, <1>5, <1>6 DEF QuietMove, TicketInv, Unbegun, RecordMoves, Dispatching, Sending
<1> QED BY <1>4, <1>7, <1>8, QuietStep

LEMMA CaptureEndsStep ==
    ASSUME TicketsInv, NEW j \in Jobs, CaptureEnds(j)
    PROVE  TicketsInv'
<1> USE DEF modes, volatile, durable, upstream
<1>1. TicketTypes /\ TicketInv(j) BY DEF TicketsInv, TicketTypes, CaptureEnds
<1>2. RecordMoves(j) /\ job'[j] = job[j] BY <1>1, KeptMoves DEF CaptureEnds
<1>3. work' \in [Jobs -> Tasks] /\ work'[j] = work[j] /\ \A i \in Jobs \ {j} : work'[i] = work[i]
  BY <1>1 DEF CaptureEnds, TicketTypes
<1>4. UNCHANGED <<claimed, opst, holds, inbox, up, net, alive, draining, admitting, reservations,
                  permits, cap, work, seen, settling, over>> BY DEF CaptureEnds
<1>5. creq' \in [Jobs -> CaptureStates] BY <1>1 DEF CaptureEnds, TicketTypes, CaptureStates
<1>6. TicketTypes' /\ OnlyTicket(j) BY <1>1, <1>2, <1>3, <1>4, <1>5 DEF TicketTypes, OnlyTicket, RecordMoves
<1>7. QuietMove(j)
  BY <1>1, <1>2, <1>3, <1>4, <1>5 DEF QuietMove, TicketInv, Unbegun, RecordMoves, Dispatching, Sending
<1> QED BY <1>4, <1>6, <1>7, QuietStep

LEMMA CancelStep ==
    ASSUME TicketsInv, NEW j \in Jobs, Cancel(j)
    PROVE  TicketsInv'
<1> USE DEF modes, volatile, durable, upstream
<1>1. TicketTypes /\ TicketInv(j) /\ j \in Open BY DEF TicketsInv, TicketTypes, Cancel
<1>2. RecordMoves(j) /\ job'[j].stage = job[j].stage BY <1>1, FlaggedMoves DEF Cancel
<1>3. work' \in [Jobs -> Tasks] /\ work'[j] = work[j] /\ \A i \in Jobs \ {j} : work'[i] = work[i]
  BY <1>1 DEF Cancel, TicketTypes
<1>4. UNCHANGED <<claimed, creq, opst, holds, inbox, up, net, alive, draining, admitting,
                  reservations, permits, cap, work, seen, over>> BY DEF Cancel
<1>5. settling' \in {settling, settling \cup {j}} BY DEF Cancel
<1>6. job[j].stage # None BY <1>1 DEF Open
<1>7. TicketTypes' /\ OnlyTicket(j) BY <1>1, <1>2, <1>3, <1>4, <1>5 DEF TicketTypes, OnlyTicket, RecordMoves
<1>8. QuietMove(j)
  BY <1>1, <1>2, <1>3, <1>4, <1>5, <1>6 DEF QuietMove, TicketInv, Unbegun, RecordMoves, Dispatching, Sending
<1> QED BY <1>4, <1>7, <1>8, QuietStep

LEMMA CancelSettlesStep ==
    ASSUME TicketsInv, NEW j \in Jobs, CancelSettles(j)
    PROVE  TicketsInv'
<1> USE DEF modes, volatile, durable, upstream
<1>1. TicketTypes /\ TicketInv(j) /\ j \in settling BY DEF TicketsInv, TicketTypes, CancelSettles
<1>2. RecordMoves(j) /\ job'[j].stage \in {job[j].stage, "terminal"} BY <1>1, SettleLocalMoves DEF CancelSettles
<1>3. work' \in [Jobs -> Tasks] /\ work'[j] = work[j] /\ \A i \in Jobs \ {j} : work'[i] = work[i]
  BY <1>1 DEF CancelSettles, TicketTypes
<1>4. UNCHANGED <<claimed, opst, holds, inbox, up, net, alive, draining, admitting, reservations,
                  permits, cap, work, seen, over>> BY DEF CancelSettles
<1>5. settling' = settling \ {j} /\ creq' \in [Jobs -> CaptureStates] BY <1>1, SettleLocalMoves DEF CancelSettles
<1>6. job[j].stage # None BY <1>1 DEF TicketInv, Unbegun, None
<1>7. TicketTypes' /\ OnlyTicket(j) BY <1>1, <1>2, <1>3, <1>4, <1>5 DEF TicketTypes, OnlyTicket, RecordMoves
<1>8. QuietMove(j)
  BY <1>1, <1>2, <1>3, <1>4, <1>5, <1>6 DEF QuietMove, TicketInv, Unbegun, RecordMoves, Dispatching, Sending
<1> QED BY <1>4, <1>7, <1>8, QuietStep

LEMMA RunSkipsStep ==
    ASSUME TicketsInv, NEW j \in Jobs, RunSkips(j)
    PROVE  TicketsInv'
<1> USE DEF modes, volatile, durable, upstream
<1>1. TicketTypes /\ TicketInv(j) /\ seen[j] # None BY DEF TicketsInv, TicketTypes, RunSkips, None
<1>2. RecordMoves(j) /\ job'[j] = job[j] BY <1>1, KeptMoves DEF RunSkips
<1>3. work' \in [Jobs -> Tasks] /\ work'[j] = work[j] /\ \A i \in Jobs \ {j} : work'[i] = work[i]
  BY <1>1 DEF RunSkips, TicketTypes, None
<1>4. seen' \in [Jobs -> Listed] /\ seen'[j] = None /\ \A i \in Jobs \ {j} : seen'[i] = seen[i]
  BY <1>1, VisitedIs DEF RunSkips, None
<1>5. UNCHANGED <<claimed, creq, opst, holds, inbox, up, net, alive, draining, admitting,
                  reservations, permits, cap, work, settling, over>> BY DEF RunSkips, None
<1>6. job[j].stage # None BY <1>1 DEF TicketInv, Unbegun, None
<1>7. TicketTypes' /\ OnlyTicket(j) BY <1>1, <1>2, <1>3, <1>4, <1>5 DEF TicketTypes, OnlyTicket, RecordMoves
<1>8. QuietMove(j)
  BY <1>1, <1>2, <1>3, <1>4, <1>5, <1>6 DEF QuietMove, TicketInv, Unbegun, RecordMoves, Dispatching, Sending
<1> QED BY <1>5, <1>7, <1>8, QuietStep

LEMMA RunCaptureStep ==
    ASSUME TicketsInv, NEW j \in Jobs, RunCapture(j)
    PROVE  TicketsInv'
<1> USE DEF modes, volatile, durable, upstream
<1>1. TicketTypes /\ TicketInv(j) /\ seen[j] # None BY DEF TicketsInv, TicketTypes, RunCapture, None, Running
<1>2. RecordMoves(j) /\ (job'[j].stage \in {job[j].stage, "terminal"} \/ j \in holds')
  BY <1>1, AttachMoves, FailLocalMoves, SettleLocalMoves, KeptMoves DEF RunCapture
<1>3. work' \in [Jobs -> Tasks] /\ work'[j] = work[j] /\ \A i \in Jobs \ {j} : work'[i] = work[i]
  BY <1>1 DEF RunCapture, TicketTypes, None, Running
<1>4. seen' \in [Jobs -> Listed] /\ seen'[j] = None /\ \A i \in Jobs \ {j} : seen'[i] = seen[i]
  BY <1>1, VisitedIs DEF RunCapture, None, Running
<1>5. UNCHANGED <<claimed, opst, inbox, up, net, alive, draining, admitting, reservations,
                  permits, work, settling, over>> BY DEF RunCapture, None, Running
<1>6. /\ holds \subseteq holds' /\ holds' \subseteq holds \cup {j} /\ cap' \in {cap, cap \cup {j}}
      /\ creq' \in [Jobs -> CaptureStates]
  BY <1>1, AttachMoves, SettleLocalMoves DEF RunCapture, TicketTypes, CaptureStates
<1>7. job[j].stage # None BY <1>1 DEF TicketInv, Unbegun, None
<1>8. TicketTypes' /\ OnlyTicket(j) BY <1>1, <1>2, <1>3, <1>4, <1>5, <1>6 DEF TicketTypes, OnlyTicket, RecordMoves
<1>9. QuietMove(j)
  BY <1>1, <1>2, <1>3, <1>4, <1>5, <1>6, <1>7 DEF QuietMove, TicketInv, Unbegun, RecordMoves, Dispatching, Sending
<1> QED BY <1>5, <1>8, <1>9, QuietStep

LEMMA RunSettlesStep ==
    ASSUME TicketsInv, NEW j \in Jobs, RunSettles(j)
    PROVE  TicketsInv'
<1> USE DEF modes, volatile, durable, upstream
<1>1. TicketTypes /\ TicketInv(j) /\ seen[j] # None BY DEF TicketsInv, TicketTypes, RunSettles, None, Running
<1>2. RecordMoves(j) /\ job'[j].stage \in {job[j].stage, "terminal"} BY <1>1, SettleLocalMoves DEF RunSettles
<1>3. work' \in [Jobs -> Tasks] /\ work'[j] = work[j] /\ \A i \in Jobs \ {j} : work'[i] = work[i]
  BY <1>1 DEF RunSettles, TicketTypes, None, Running
<1>4. seen' \in [Jobs -> Listed] /\ seen'[j] = None /\ \A i \in Jobs \ {j} : seen'[i] = seen[i]
  BY <1>1, VisitedIs DEF RunSettles, None, Running
<1>5. UNCHANGED <<claimed, opst, holds, inbox, up, net, alive, draining, admitting, reservations,
                  permits, cap, work, settling, over>> BY DEF RunSettles, None, Running
<1>6. creq' \in [Jobs -> CaptureStates] BY <1>1, SettleLocalMoves DEF RunSettles
<1>7. job[j].stage # None BY <1>1 DEF TicketInv, Unbegun, None
<1>8. TicketTypes' /\ OnlyTicket(j) BY <1>1, <1>2, <1>3, <1>4, <1>5, <1>6 DEF TicketTypes, OnlyTicket, RecordMoves
<1>9. QuietMove(j)
  BY <1>1, <1>2, <1>3, <1>4, <1>5, <1>6, <1>7 DEF QuietMove, TicketInv, Unbegun, RecordMoves, Dispatching, Sending
<1> QED BY <1>5, <1>8, <1>9, QuietStep

LEMMA CleanFailsStep ==
    ASSUME TicketsInv, NEW j \in Jobs, CleanFails(j)
    PROVE  TicketsInv'
<1> USE DEF modes, volatile, durable, upstream
<1>1. TicketTypes /\ TicketInv(j) /\ seen[j] # None BY DEF TicketsInv, TicketTypes, CleanFails, None, Running
<1>2. RecordMoves(j) /\ job'[j] = job[j] BY <1>1, KeptMoves DEF CleanFails
<1>3. work' \in [Jobs -> Tasks] /\ work'[j] = work[j] /\ \A i \in Jobs \ {j} : work'[i] = work[i]
  BY <1>1 DEF CleanFails, TicketTypes, None, Running
<1>4. seen' \in [Jobs -> Listed] /\ seen'[j] = None /\ \A i \in Jobs \ {j} : seen'[i] = seen[i]
  BY <1>1, VisitedIs DEF CleanFails, None, Running
<1>5. UNCHANGED <<claimed, creq, opst, holds, inbox, up, net, alive, draining, admitting,
                  reservations, permits, cap, work, settling, over>> BY DEF CleanFails, None, Running
<1>6. job[j].stage # None BY <1>1 DEF TicketInv, Unbegun, None
<1>7. TicketTypes' /\ OnlyTicket(j) BY <1>1, <1>2, <1>3, <1>4, <1>5 DEF TicketTypes, OnlyTicket, RecordMoves
<1>8. QuietMove(j)
  BY <1>1, <1>2, <1>3, <1>4, <1>5, <1>6 DEF QuietMove, TicketInv, Unbegun, RecordMoves, Dispatching, Sending
<1> QED BY <1>5, <1>7, <1>8, QuietStep

LEMMA PermitStep ==
    ASSUME TicketsInv, NEW j \in Jobs, Permit(j)
    PROVE  TicketsInv'
<1> USE DEF modes, volatile, durable, upstream
<1>1. TicketTypes /\ TicketInv(j) BY DEF TicketsInv, TicketTypes, Permit
<1>2. RecordMoves(j) /\ job'[j] = job[j] BY <1>1, KeptMoves DEF Permit
<1>3. work' \in [Jobs -> Tasks] /\ work'[j] = work[j] /\ \A i \in Jobs \ {j} : work'[i] = work[i]
  BY <1>1 DEF Permit, TicketTypes
<1>4. UNCHANGED <<claimed, creq, opst, holds, inbox, up, net, alive, draining, admitting,
                  reservations, cap, work, seen, settling, over>> BY DEF Permit
<1>5. permits' \in [Jobs -> {None, "observe", "full"}] BY <1>1 DEF Permit, TicketTypes
<1>6. TicketTypes' /\ OnlyTicket(j) BY <1>1, <1>2, <1>3, <1>4, <1>5 DEF TicketTypes, OnlyTicket, RecordMoves
<1>7. QuietMove(j)
  BY <1>1, <1>2, <1>3, <1>4, <1>5 DEF QuietMove, TicketInv, Unbegun, RecordMoves, Dispatching, Sending
<1> QED BY <1>4, <1>6, <1>7, QuietStep

LEMMA RevokeStep ==
    ASSUME TicketsInv, NEW j \in Jobs, Revoke(j)
    PROVE  TicketsInv'
<1> USE DEF modes, volatile, durable, upstream
<1>1. TicketTypes /\ TicketInv(j) BY DEF TicketsInv, TicketTypes, Revoke
<1>2. RecordMoves(j) /\ job'[j] = job[j] BY <1>1, KeptMoves DEF Revoke
<1>3. work' \in [Jobs -> Tasks] /\ work'[j] = work[j] /\ \A i \in Jobs \ {j} : work'[i] = work[i]
  BY <1>1 DEF Revoke, TicketTypes
<1>4. UNCHANGED <<claimed, creq, opst, holds, inbox, up, net, alive, draining, admitting,
                  reservations, cap, work, seen, settling, over>> BY DEF Revoke
<1>5. permits' \in [Jobs -> {None, "observe", "full"}] BY <1>1 DEF Revoke, TicketTypes
<1>6. TicketTypes' /\ OnlyTicket(j) BY <1>1, <1>2, <1>3, <1>4, <1>5 DEF TicketTypes, OnlyTicket, RecordMoves
<1>7. QuietMove(j)
  BY <1>1, <1>2, <1>3, <1>4, <1>5 DEF QuietMove, TicketInv, Unbegun, RecordMoves, Dispatching, Sending
<1> QED BY <1>4, <1>6, <1>7, QuietStep

LEMMA RunLaunchesStep ==
    ASSUME TicketsInv, NEW j \in Jobs, RunLaunches(j)
    PROVE  TicketsInv'
<1> USE DEF modes, volatile, durable, upstream
<1>1. TicketTypes /\ TicketInv(j) /\ seen[j] \in {"copy", "dispatch"} /\ work[j] = None
  BY DEF TicketsInv, TicketTypes, RunLaunches, Skipped
<1>2. RecordMoves(j) /\ job'[j] = job[j] BY <1>1, KeptMoves DEF RunLaunches
<1>3. PICK w \in {None, seen[j]} : Work(j, w) \/ (w = None /\ work' = work) BY DEF RunLaunches
<1>4. w \in Tasks BY <1>1, <1>3 DEF Tasks, Dispatching
<1>5. work' \in [Jobs -> Tasks] /\ work'[j] = w /\ \A i \in Jobs \ {j} : work'[i] = work[i]
  BY <1>1, <1>3, <1>4, WorkIs DEF TicketTypes
<1>6. seen' \in [Jobs -> Listed] /\ seen'[j] = None /\ \A i \in Jobs \ {j} : seen'[i] = seen[i]
  BY <1>1, VisitedIs DEF RunLaunches
<1>7. UNCHANGED <<claimed, creq, opst, holds, inbox, up, net, alive, draining, admitting,
                  reservations, permits, cap, settling, over>> BY DEF RunLaunches
<1>8. job[j].stage \notin {None, "capturing"} /\ (seen[j] = "dispatch" => job[j].req)
  BY <1>1 DEF TicketInv, Unbegun, Traced, None
<1>9. TicketTypes' /\ OnlyTicket(j) BY <1>1, <1>2, <1>5, <1>6, <1>7 DEF TicketTypes, OnlyTicket, RecordMoves
<1>10. QuietMove(j) BY <1>1, <1>2, <1>3, <1>5, <1>6, <1>7, <1>8 DEF QuietMove, TicketInv, Unbegun, RecordMoves
<1> QED BY <1>7, <1>9, <1>10, QuietStep

\* The processor's answer goes into the record.
IsObserved(r, j, u) ==
    LET q == job[j] IN
    /\ r \in TicketRecord /\ r.intent = q.intent /\ r.uncertain = q.uncertain /\ r.rejected = q.rejected
    /\ r.req = q.req /\ r.known = TRUE /\ r.snap = (q.snap \/ u.snap)
    /\ r.stage = (IF TicketEnded(j) THEN "terminal" ELSE IF u.state \in Ended THEN "terminal" ELSE "tracking")

LEMMA ObservedRecord ==
    ASSUME NEW j \in Jobs, job[j] \in TicketRecord, NEW u \in UpstreamJob
    PROVE  IsObserved(Observed(j, u), j, u)
<1> DEFINE s == job[j].snap \/ u.snap
           t == IF u.state \in Ended THEN "terminal" ELSE "tracking"
           o == IF u.state \in Ended THEN u.state ELSE None
<1>1. s \in BOOLEAN /\ t \in Stages /\ o \in {None} \cup Ended BY DEF TicketRecord, UpstreamJob, Stages
<1>2. CASE TicketEnded(j)
 <2>1. Observed(j, u) = [job[j] EXCEPT !.known = TRUE, !.snap = s] BY <1>2 DEF Observed, TicketRecord
 <2> HIDE DEF s
 <2>2. LET r == [job[j] EXCEPT !.known = TRUE, !.snap = s] q == job[j] IN
       /\ r \in TicketRecord /\ r.intent = q.intent /\ r.uncertain = q.uncertain /\ r.rejected = q.rejected
       /\ r.req = q.req /\ r.known = TRUE /\ r.snap = s /\ r.stage = q.stage BY <1>1 DEF TicketRecord
 <2> QED BY <1>2, <2>1, <2>2 DEF s, TicketEnded, IsObserved
<1>3. CASE ~TicketEnded(j)
 <2>1. Observed(j, u) = [job[j] EXCEPT !.known = TRUE, !.snap = s, !.stage = t, !.outcome = o]
   BY <1>3 DEF Observed, TicketRecord
 <2> HIDE DEF s, t, o
 <2>2. LET r == [job[j] EXCEPT !.known = TRUE, !.snap = s, !.stage = t, !.outcome = o] q == job[j] IN
       /\ r \in TicketRecord /\ r.intent = q.intent /\ r.uncertain = q.uncertain /\ r.rejected = q.rejected
       /\ r.req = q.req /\ r.known = TRUE /\ r.snap = s /\ r.stage = t BY <1>1 DEF TicketRecord
 <2> QED BY <1>3, <2>1, <2>2 DEF s, t, IsObserved
<1> QED BY <1>2, <1>3

LEMMA ObserveStep ==
    ASSUME TicketsInv, NEW j \in Jobs, PutTicket(j, Observed(j, up'[j])), up' \in [Jobs -> UpstreamJob],
           \A i \in Jobs \ {j} : up'[i] = up[i],
           up'[j].state # None, up[j].state \in Ended => up'[j] = up[j], up[j].snap => up'[j].snap,
           job[j].intent, TicketEnded(j) => job[j].known,
           Work(j, None) \/ (work' = work /\ work[j] = None),
           UNCHANGED <<claimed, creq, opst, holds, inbox, net, alive, draining, admitting, reservations, permits, cap,
                       seen, settling, over>>
    PROVE  TicketsInv'
<1> DEFINE q == job[j]
           r == job'[j]
<1>1. TicketTypes /\ TicketInv(j) /\ q \in TicketRecord /\ up'[j] \in UpstreamJob BY DEF TicketsInv, TicketTypes
<1>2. /\ r \in TicketRecord /\ r.intent = q.intent /\ r.uncertain = q.uncertain /\ r.rejected = q.rejected
      /\ r.req = q.req /\ r.known = TRUE /\ r.snap = (q.snap \/ up'[j].snap)
      /\ r.stage = (IF TicketEnded(j) THEN "terminal" ELSE IF up'[j].state \in Ended THEN "terminal" ELSE "tracking")
 <2>1. PICK u \in UpstreamJob : u = up'[j] BY <1>1
 <2>2. IsObserved(Observed(j, u), j, u) BY <1>1, ObservedRecord
 <2>3. Observed(j, u) \in TicketRecord BY <2>2 DEF IsObserved
 <2>4. r = Observed(j, u) BY <1>1, <2>1, <2>3, PutIs
 <2>5. IsObserved(r, j, u) BY <2>2, <2>4
 <2> HIDE DEF r
 <2> QED BY <2>1, <2>5 DEF IsObserved
<1>3. job' \in [Jobs -> TicketRecord] /\ \A i \in Jobs \ {j} : job'[i] = job[i]
 <2>1. PICK u \in UpstreamJob : u = up'[j] BY <1>1
 <2> QED BY <1>1, <2>1, ObservedRecord, PutIs DEF IsObserved
<1>4. work' \in [Jobs -> Tasks] /\ work'[j] = None /\ \A i \in Jobs \ {j} : work'[i] = work[i]
  BY <1>1, WorkIs DEF Tasks, TicketTypes
<1>5. TicketTypes' /\ OnlyTicket(j) BY <1>1, <1>3, <1>4 DEF TicketTypes, OnlyTicket
<1>6. q.stage \notin {None, "capturing"} /\ r.stage \in {"terminal", "tracking"} BY <1>1, <1>2 DEF TicketInv, Unbegun
<1>7. Unbegun(j)' /\ Traced(j)' BY <1>1, <1>2, <1>4, <1>6 DEF TicketInv, Unbegun, Traced, None, Dispatching, Sending
<1>8. Unorphaned(j)' BY <1>2 DEF Unorphaned
<1>9. q.rejected = FALSE BY <1>1 DEF TicketInv, Reported, TicketRecord
<1>10. TicketEnded(j) => up'[j].state \in Ended BY <1>1 DEF TicketInv, Reported
<1>11. (q.snap \/ up[j].snap => up'[j].snap) BY <1>1 DEF TicketInv, Reported
<1>12. r.stage = "terminal" => up'[j].state \in Ended BY <1>2, <1>10
<1>13. Reported(j)' BY <1>2, <1>9, <1>11, <1>12 DEF Reported, TicketEnded
<1>14. MayClean(q) => MayClean(r) BY <1>2, <1>9 DEF MayClean, TicketEnded
<1>15. r.stage \notin {None, "capturing", "terminal"} => q.stage \notin {None, "capturing", "terminal"}
  BY <1>2, <1>6 DEF TicketEnded
<1>16. Stored(j)' BY <1>1, <1>2, <1>4, <1>11, <1>14, <1>15 DEF TicketInv, Stored, None
<1>17. q.stage = "terminal" => r.stage = "terminal" BY <1>2 DEF TicketEnded
<1>18. Admitting(j)' /\ (j \in Counted' => j \in Counted) BY <1>1, <1>6, <1>17 DEF TicketInv, Admitting, Counted, None
<1> QED BY <1>5, <1>7, <1>8, <1>13, <1>16, <1>18, OneTicketMoves DEF TicketInv

LEMMA AcceptedUp ==
    ASSUME TicketTypes, NEW j \in Jobs
    PROVE  /\ JobAccepted(j) \in [Jobs -> UpstreamJob] /\ JobAccepted(j)[j].state # None
           /\ up[j].state # None => JobAccepted(j)[j] = up[j]
           /\ up[j].state = None => JobAccepted(j)[j].state = "active"
           /\ JobAccepted(j)[j].snap = up[j].snap
           /\ \A i \in Jobs \ {j} : JobAccepted(j)[i] = up[i]
BY DEF TicketTypes, JobAccepted, UpstreamJob, Ended, None

LEMMA PostAcceptedStep ==
    ASSUME TicketsInv, NEW j \in Jobs, PostAccepted(j)
    PROVE  TicketsInv'
<1> USE DEF modes
<1>1. TicketTypes /\ TicketInv(j) /\ work[j] = "post" /\ up' = JobAccepted(j) /\ Work(j, None)
  BY DEF TicketsInv, PostAccepted
<1>2. job[j].intent /\ (TicketEnded(j) => job[j].known) BY <1>1 DEF TicketInv, Traced, Unorphaned, Sending
<1>3. PutTicket(j, Observed(j, up'[j])) BY DEF PostAccepted
<1>4. UNCHANGED <<claimed, creq, opst, holds, inbox, net, alive, draining, admitting,
                  reservations, permits, cap, seen, settling, over>> BY DEF PostAccepted
<1>5. up' \in [Jobs -> UpstreamJob] /\ up'[j].state # None /\ (up[j].state \in Ended => up'[j] = up[j])
      /\ (up[j].snap => up'[j].snap) /\ \A i \in Jobs \ {j} : up'[i] = up[i] BY <1>1, AcceptedUp DEF Ended, None
<1> QED BY <1>1, <1>2, <1>3, <1>4, <1>5, ObserveStep

LEMMA DispatchLookupStep ==
    ASSUME TicketsInv, NEW j \in Jobs, DispatchLookup(j)
    PROVE  TicketsInv'
<1> USE DEF modes, upstream
<1>1. TicketTypes /\ TicketInv(j) /\ work[j] = "lookup" BY DEF TicketsInv, DispatchLookup
<1>2. UNCHANGED <<claimed, creq, opst, holds, inbox, up, net, alive, draining, admitting,
                  reservations, permits, cap, seen, settling, over>> BY DEF DispatchLookup
<1>3. job[j].intent /\ (up[j].state # None => (TicketEnded(j) => job[j].known))
  BY <1>1 DEF TicketInv, Traced, Unorphaned
<1>4. CASE up[j].state # None /\ PutTicket(j, Observed(j, up[j])) /\ Work(j, None)
 <2>1. PutTicket(j, Observed(j, up'[j])) /\ up' \in [Jobs -> UpstreamJob] BY <1>1, <1>2, <1>4 DEF TicketTypes
 <2> QED BY <1>1, <1>2, <1>3, <1>4, <2>1, ObserveStep
<1>5. CASE (Work(j, "intent") /\ UNCHANGED job) \/ (BlockedFor(j) /\ Work(j, None))
 <2>1. RecordMoves(j) BY <1>1, <1>5, KeptMoves, BlockedMoves
 <2>2. PICK w \in {None, "intent"} : Work(j, w) /\ (w = "intent" => UNCHANGED job) BY <1>5 DEF None
 <2>3. work' \in [Jobs -> Tasks] /\ work'[j] = w /\ \A i \in Jobs \ {j} : work'[i] = work[i]
   BY <1>1, <2>2, WorkIs DEF Tasks, Dispatching
 <2>4. TicketTypes' /\ OnlyTicket(j) BY <1>1, <1>2, <2>1, <2>3 DEF TicketTypes, OnlyTicket, RecordMoves
 <2>5. job[j].stage \notin {None, "capturing"} BY <1>1 DEF TicketInv, Unbegun, None
 <2>6. w = "intent" => job[j].intent /\ work[j] \in Dispatching BY <1>1, <1>3 DEF Dispatching
 <2>7. w = "intent" => job'[j].uncertain \/ j \notin net BY <1>1, <2>2 DEF TicketInv, Traced
 <2>8. QuietMove(j)
   BY <1>1, <1>2, <1>3, <2>1, <2>2, <2>3, <2>4, <2>5, <2>6, <2>7 DEF QuietMove, TicketInv, Unbegun, RecordMoves
 <2> QED BY <1>2, <2>4, <2>8, QuietStep
<1> QED BY <1>4, <1>5 DEF DispatchLookup

LEMMA TrackStep ==
    ASSUME TicketsInv, NEW j \in Jobs, Track(j)
    PROVE  TicketsInv'
<1> USE DEF modes, volatile
<1>1. TicketTypes /\ TicketInv(j) /\ work[j] = None /\ job[j].known /\ ~TicketEnded(j)
  BY DEF TicketsInv, Track, Sampled, Open, TicketEnded
<1>2. UNCHANGED <<claimed, creq, opst, holds, inbox, net, alive, draining, admitting, reservations, permits, cap, work,
                  seen, settling, over>> BY DEF Track
<1>3. up[j].state # None /\ job[j].intent BY <1>1 DEF TicketInv, Reported, Traced
<1>4. CASE /\ up' = IF job[j].cancel /\ up[j].state = "active" THEN [up EXCEPT ![j].state = "cancelled"] ELSE up
           /\ PutTicket(j, Observed(j, up'[j]))
 <2>1. up' \in [Jobs -> UpstreamJob] /\ \A i \in Jobs \ {j} : up'[i] = up[i]
   BY <1>1, <1>4 DEF TicketTypes, UpstreamJob, Ended
 <2>2. up'[j].state # None /\ (up[j].state \in Ended => up'[j] = up[j]) /\ (up[j].snap => up'[j].snap)
   BY <1>1, <1>3, <1>4 DEF TicketTypes, UpstreamJob, Ended, None
 <2> QED BY <1>1, <1>2, <1>3, <1>4, <2>1, <2>2, ObserveStep
<1>5. CASE UNCHANGED up /\ (Blocked(j) \/ PutTicket(j, [job[j] EXCEPT !.paused = TRUE]))
 <2>1. RecordMoves(j) BY <1>1, <1>5, StagedMoves, FlaggedMoves DEF Blocked
 <2>2. TicketTypes' /\ OnlyTicket(j) BY <1>1, <1>2, <1>5, <2>1 DEF TicketTypes, OnlyTicket, RecordMoves
 <2>3. job[j].stage \notin {None, "capturing"} BY <1>1 DEF TicketInv, Unbegun
 <2>4. QuietMove(j) BY <1>1, <1>2, <1>5, <2>1, <2>3 DEF QuietMove, TicketInv, Unbegun, RecordMoves
 <2> QED BY <1>2, <2>2, <2>4, QuietStep
<1> QED BY <1>4, <1>5 DEF Track

LEMMA PostRejectedStep ==
    ASSUME TicketsInv, NEW j \in Jobs, PostRejected(j)
    PROVE  TicketsInv'
<1> USE DEF modes, upstream
<1>1. TicketTypes /\ TicketInv(j) /\ work[j] = "post" /\ up[j].state = None /\ Work(j, None) /\ job[j] \in TicketRecord
  BY DEF TicketsInv, TicketTypes, PostRejected
<1>2. UNCHANGED <<claimed, creq, opst, holds, inbox, up, net, alive, draining, admitting, reservations, permits, cap, seen,
                  settling, over>> BY DEF PostRejected
<1>3. work' \in [Jobs -> Tasks] /\ work'[j] = None /\ \A i \in Jobs \ {j} : work'[i] = work[i]
  BY <1>1, WorkIs DEF Tasks
<1>4. job[j].stage \notin {None, "capturing"} BY <1>1 DEF TicketInv, Unbegun, None
<1>5. CASE RecordMoves(j)
 <2>1. TicketTypes' /\ OnlyTicket(j) BY <1>1, <1>2, <1>3, <1>5 DEF TicketTypes, OnlyTicket, RecordMoves
 <2>2. QuietMove(j) BY <1>1, <1>2, <1>3, <1>4, <1>5 DEF QuietMove, TicketInv, Unbegun, RecordMoves
 <2> QED BY <1>2, <2>1, <2>2, QuietStep
<1>6. CASE RejectionIsFinal(j) /\ ~TicketEnded(j) /\ PutTicket(j, [EndedAs(j, "failed") EXCEPT !.rejected = TRUE])
 <2> DEFINE q == job[j]
            r == [EndedAs(j, "failed") EXCEPT !.rejected = TRUE]
 <2>1. /\ r \in TicketRecord /\ r.stage = "terminal" /\ r.rejected = TRUE /\ r.known = q.known /\ r.intent = q.intent
       /\ r.req = q.req /\ r.snap = q.snap
  <3>1. EndedAs(j, "failed") \in TicketRecord /\ SameTrail(EndedAs(j, "failed"), q) /\ EndedAs(j, "failed").stage = "terminal"
    BY <1>1, EndedRecord DEF Ended
  <3> QED BY <3>1 DEF SameTrail, TicketRecord
 <2>2. job' \in [Jobs -> TicketRecord] /\ job'[j] = r /\ \A i \in Jobs \ {j} : job'[i] = job[i]
   BY <1>1, <1>6, <2>1, PutIs
 <2> HIDE DEF r
 <2>3. TicketTypes' /\ OnlyTicket(j) BY <1>1, <1>2, <1>3, <2>2 DEF TicketTypes, OnlyTicket
 <2>4. job[j].known = FALSE /\ j \notin net /\ q.rejected = FALSE /\ q.snap = FALSE
   BY <1>1, <1>6 DEF TicketInv, Reported, Traced, RejectionIsFinal, Sending, TicketEnded, TicketRecord
 <2>5. Unbegun(j)' /\ Traced(j)'
   BY <1>1, <1>2, <1>3, <1>4, <2>1, <2>2, <2>4 DEF TicketInv, Unbegun, Traced, None, Dispatching, Sending
 <2>6. Reported(j)' /\ Unorphaned(j)'
   BY <1>1, <1>2, <1>3, <2>1, <2>2, <2>4 DEF TicketInv, Reported, Unorphaned, TicketEnded, Sending, None
 <2>7. Stored(j)' BY <1>1, <1>2, <1>3, <2>1, <2>2, <2>4 DEF TicketInv, Stored, MayClean
 <2>8. Admitting(j)' /\ (j \in Counted' => j \in Counted)
   BY <1>1, <1>2, <1>4, <2>1, <2>2 DEF TicketInv, Admitting, Counted, None
 <2> QED BY <1>2, <2>3, <2>5, <2>6, <2>7, <2>8, OneTicketMoves DEF TicketInv
<1>7. \/ RecordMoves(j)
      \/ RejectionIsFinal(j) /\ ~TicketEnded(j) /\ PutTicket(j, [EndedAs(j, "failed") EXCEPT !.rejected = TRUE])
 <2>1. PutTicket(j, job[j]) => RecordMoves(j) BY <1>1, PutMoves DEF SameTrail, StageMoves
 <2> QED BY <1>1, <2>1, StagedMoves, FlaggedMoves DEF PostRejected, Blocked
<1> QED BY <1>5, <1>6, <1>7

LEMMA PostTimesOutStep ==
    ASSUME TicketsInv, NEW j \in Jobs, PostTimesOut(j)
    PROVE  TicketsInv'
<1> USE DEF modes
<1> DEFINE q == job[j]
           r == [AtStage(j, "blocked") EXCEPT !.uncertain = TRUE]
<1>1. TicketTypes /\ TicketInv(j) /\ work[j] = "post" /\ Work(j, None) /\ q \in TicketRecord
  BY DEF TicketsInv, TicketTypes, PostTimesOut
<1>2. UNCHANGED <<claimed, creq, opst, holds, inbox, up, alive, draining, admitting, reservations, permits, cap, seen,
                  settling, over>> /\ net' = net \cup {j} /\ PutTicket(j, r) BY DEF PostTimesOut
<1>3. /\ r \in TicketRecord /\ r.uncertain = TRUE /\ r.known = q.known /\ r.intent = q.intent /\ r.rejected = q.rejected
      /\ r.req = q.req /\ r.snap = q.snap /\ r.stage = (IF TicketEnded(j) THEN q.stage ELSE "blocked")
 <2>1. LET b == AtStage(j, "blocked") IN
       b \in TicketRecord /\ SameTrail(b, q) /\ b.stage = (IF TicketEnded(j) THEN q.stage ELSE "blocked")
   BY <1>1, StagedRecord DEF Stages
 <2> QED BY <2>1 DEF SameTrail, TicketRecord
<1>4. job' \in [Jobs -> TicketRecord] /\ job'[j] = r /\ \A i \in Jobs \ {j} : job'[i] = job[i]
  BY <1>1, <1>2, <1>3, PutIs
<1> HIDE DEF r
<1>5. work' \in [Jobs -> Tasks] /\ work'[j] = None /\ \A i \in Jobs \ {j} : work'[i] = work[i]
  BY <1>1, WorkIs DEF Tasks
<1>6. q.stage \notin {None, "capturing"} /\ q.intent /\ (TicketEnded(j) => q.known)
  BY <1>1 DEF TicketInv, Unbegun, Traced, Unorphaned, Sending, None
<1>7. r.stage \notin {None, "capturing"} /\ (r.stage = "terminal" <=> q.stage = "terminal")
  BY <1>3, <1>6 DEF TicketEnded, None
<1>8. TicketTypes' /\ OnlyTicket(j) BY <1>1, <1>2, <1>4, <1>5 DEF TicketTypes, OnlyTicket
<1>9. Unbegun(j)' /\ Traced(j)'
  BY <1>1, <1>2, <1>3, <1>4, <1>5, <1>6, <1>7 DEF TicketInv, Unbegun, Traced, None, Dispatching, Sending
<1>10. Reported(j)' /\ Unorphaned(j)'
  BY <1>1, <1>2, <1>3, <1>4, <1>5, <1>6, <1>7 DEF TicketInv, Reported, Unorphaned, TicketEnded, None
<1>11. Stored(j)' BY <1>1, <1>2, <1>3, <1>4, <1>5, <1>6, <1>7 DEF TicketInv, Stored, MayClean, None
<1>12. Admitting(j)' /\ (j \in Counted' => j \in Counted)
  BY <1>1, <1>2, <1>4, <1>6, <1>7 DEF TicketInv, Admitting, Counted, None
<1> QED BY <1>2, <1>8, <1>9, <1>10, <1>11, <1>12, OneTicketMoves DEF TicketInv

LEMMA DispatchIntentStep ==
    ASSUME TicketsInv, NEW j \in Jobs, DispatchIntent(j)
    PROVE  TicketsInv'
<1> USE DEF modes, upstream
<1>1. TicketTypes /\ TicketInv(j) /\ work[j] = "intent" /\ job[j] \in TicketRecord
  BY DEF TicketsInv, TicketTypes, DispatchIntent
<1>2. UNCHANGED <<claimed, creq, opst, holds, inbox, up, net, alive, draining, admitting, reservations, permits, cap, seen,
                  settling, over>> BY DEF DispatchIntent
<1>3. job[j].stage \notin {None, "capturing"} /\ job[j].req BY <1>1 DEF TicketInv, Unbegun, Traced, Dispatching, None
<1>4. CASE UNCHANGED job /\ Work(j, None)
 <2>1. work' \in [Jobs -> Tasks] /\ work'[j] = None /\ \A i \in Jobs \ {j} : work'[i] = work[i]
   BY <1>1, <1>4, WorkIs DEF Tasks
 <2>2. RecordMoves(j) BY <1>1, <1>4, KeptMoves
 <2>3. TicketTypes' /\ OnlyTicket(j) BY <1>1, <1>2, <2>1, <2>2 DEF TicketTypes, OnlyTicket, RecordMoves
 <2>4. QuietMove(j) BY <1>1, <1>2, <1>3, <2>1, <2>2 DEF QuietMove, TicketInv, Unbegun, RecordMoves
 <2> QED BY <1>2, <2>3, <2>4, QuietStep
<1>5. CASE /\ ~NoDispatch(j) /\ Work(j, "send")
           /\ PutTicket(j, [job[j] EXCEPT !.intent = TRUE, !.stage = "submitting"])
 <2> DEFINE q == job[j]
            r == [job[j] EXCEPT !.intent = TRUE, !.stage = "submitting"]
 <2>1. /\ r \in TicketRecord /\ r.stage = "submitting" /\ r.intent = TRUE /\ r.known = q.known /\ r.rejected = q.rejected
       /\ r.req = q.req /\ r.snap = q.snap /\ r.uncertain = q.uncertain BY <1>1 DEF TicketRecord, Stages
 <2>2. job' \in [Jobs -> TicketRecord] /\ job'[j] = r /\ \A i \in Jobs \ {j} : job'[i] = job[i]
   BY <1>1, <1>5, <2>1, PutIs
 <2> HIDE DEF r
 <2>3. work' \in [Jobs -> Tasks] /\ work'[j] = "send" /\ \A i \in Jobs \ {j} : work'[i] = work[i]
   BY <1>1, <1>5, WorkIs DEF Tasks, Dispatching, Sending
 <2>4. TicketTypes' /\ OnlyTicket(j) BY <1>1, <1>2, <2>2, <2>3 DEF TicketTypes, OnlyTicket
 <2>5. q.stage # "terminal" /\ q.rejected = FALSE
   BY <1>1, <1>5 DEF NoDispatch, TicketEnded, TicketInv, Reported, TicketRecord
 <2>6. Unbegun(j)' BY <2>1, <2>2 DEF Unbegun, None
 <2>7. Traced(j)' BY <1>1, <1>2, <1>3, <2>1, <2>2, <2>3 DEF TicketInv, Traced, None, Dispatching, Sending
 <2>8. Reported(j)' /\ Unorphaned(j)' BY <1>1, <1>2, <2>1, <2>2, <2>5 DEF TicketInv, Reported, Unorphaned, TicketEnded
 <2>9. Stored(j)' BY <1>1, <1>2, <1>3, <2>1, <2>2, <2>3, <2>5 DEF TicketInv, Stored, MayClean
 <2>10. Admitting(j)' /\ (j \in Counted' => j \in Counted)
   BY <1>1, <1>2, <1>3, <2>1, <2>2, <2>5 DEF TicketInv, Admitting, Counted, None
 <2> QED BY <1>2, <2>4, <2>6, <2>7, <2>8, <2>9, <2>10, OneTicketMoves DEF TicketInv
<1> QED BY <1>4, <1>5 DEF DispatchIntent

LEMMA DispatchSendStep ==
    ASSUME TicketsInv, NEW j \in Jobs, DispatchSend(j)
    PROVE  TicketsInv'
<1> USE DEF modes, upstream
<1>1. TicketTypes /\ TicketInv(j) /\ work[j] = "send" BY DEF TicketsInv, DispatchSend
<1>2. UNCHANGED <<claimed, creq, opst, holds, inbox, up, net, alive, draining, admitting, reservations, permits, cap, seen,
                  settling, over>> BY DEF DispatchSend
<1>3. RecordMoves(j) BY <1>1, KeptMoves, StagedMoves DEF DispatchSend, Blocked
<1>4. PICK w \in {None, "post"} : Work(j, w) BY DEF DispatchSend
<1>5. work' \in [Jobs -> Tasks] /\ work'[j] = w /\ \A i \in Jobs \ {j} : work'[i] = work[i]
  BY <1>1, <1>4, WorkIs DEF Tasks, Dispatching, Sending
<1>6. TicketTypes' /\ OnlyTicket(j) BY <1>1, <1>2, <1>3, <1>5 DEF TicketTypes, OnlyTicket, RecordMoves
<1>7. job[j].stage \notin {None, "capturing"} BY <1>1 DEF TicketInv, Unbegun, None
<1>8. QuietMove(j) BY <1>1, <1>2, <1>3, <1>5, <1>7 DEF QuietMove, TicketInv, Unbegun, RecordMoves, Sending
<1> QED BY <1>2, <1>6, <1>8, QuietStep

LEMMA CopyDoneStep ==
    ASSUME TicketsInv, NEW j \in Jobs, CopyDone(j)
    PROVE  TicketsInv'
<1> USE DEF modes, upstream
<1> DEFINE q == job[j]
           moved == [job[j] EXCEPT !.stage = "submitting", !.req = TRUE]
           r == IF TicketEnded(j) THEN job[j] ELSE moved
<1>1. TicketTypes /\ TicketInv(j) /\ work[j] = "copied" /\ Work(j, None) /\ q \in TicketRecord
  BY DEF TicketsInv, TicketTypes, CopyDone
<1>2. UNCHANGED <<claimed, creq, opst, holds, inbox, up, net, alive, draining, admitting, reservations, permits, cap, seen,
                  settling, over>> /\ PutTicket(j, r) BY DEF CopyDone
<1>3. /\ r \in TicketRecord /\ SameTrail([r EXCEPT !.req = q.req], q) /\ r.known = q.known /\ r.intent = q.intent
      /\ r.rejected = q.rejected /\ r.snap = q.snap /\ r.uncertain = q.uncertain
      /\ r.stage = (IF TicketEnded(j) THEN q.stage ELSE "submitting") /\ (q.req => r.req)
 <2>1. /\ moved \in TicketRecord /\ moved.stage = "submitting" /\ moved.req = TRUE /\ moved.known = q.known
       /\ moved.intent = q.intent /\ moved.rejected = q.rejected /\ moved.snap = q.snap /\ moved.uncertain = q.uncertain
   BY <1>1 DEF TicketRecord, Stages
 <2> QED BY <1>1, <2>1 DEF SameTrail, TicketRecord
<1> HIDE DEF r
<1>4. job' \in [Jobs -> TicketRecord] /\ job'[j] = r /\ \A i \in Jobs \ {j} : job'[i] = job[i]
  BY <1>1, <1>2, <1>3, PutIs
<1>5. work' \in [Jobs -> Tasks] /\ work'[j] = None /\ \A i \in Jobs \ {j} : work'[i] = work[i]
  BY <1>1, WorkIs DEF Tasks
<1>6. q.stage \notin {None, "capturing"} /\ r.stage \notin {None, "capturing"} /\ (r.stage = "terminal" <=> q.stage = "terminal")
  BY <1>1, <1>3 DEF TicketInv, Unbegun, None, TicketEnded
<1>7. TicketTypes' /\ OnlyTicket(j) BY <1>1, <1>2, <1>4, <1>5 DEF TicketTypes, OnlyTicket
<1>8. Unbegun(j)' /\ Traced(j)'
  BY <1>1, <1>2, <1>3, <1>4, <1>5, <1>6 DEF TicketInv, Unbegun, Traced, None, Dispatching, Sending
<1>9. Reported(j)' /\ Unorphaned(j)'
  BY <1>1, <1>2, <1>3, <1>4, <1>5, <1>6 DEF TicketInv, Reported, Unorphaned, TicketEnded, None, Sending
<1>10. MayClean(q) => MayClean(r) BY <1>3, <1>6 DEF MayClean
<1>11. Stored(j)' BY <1>1, <1>2, <1>4, <1>5, <1>6, <1>10 DEF TicketInv, Stored
<1>12. Admitting(j)' /\ (j \in Counted' => j \in Counted)
  BY <1>1, <1>2, <1>4, <1>6 DEF TicketInv, Admitting, Counted, None
<1> QED BY <1>2, <1>7, <1>8, <1>9, <1>11, <1>12, OneTicketMoves DEF TicketInv

\* The processor moves on its own: its job only goes forward.
LEMMA UpstreamStep ==
    ASSUME TicketsInv, NEW j \in Jobs, up' \in [Jobs -> UpstreamJob], \A i \in Jobs \ {j} : up'[i] = up[i],
           up[j].state # None \/ j \in net \/ up'[j] = up[j], up'[j].snap => up'[j].state # None,
           up[j].state # None => up'[j].state # None, up[j].state \in Ended => up'[j].state \in Ended,
           up[j].snap => up'[j].snap, net' \in {net, net \ {j}},
           UNCHANGED <<job, claimed, creq, opst, holds, inbox, alive, draining, admitting, reservations, permits, cap, work,
                       seen, settling, over>>
    PROVE  TicketsInv'
<1>1. TicketTypes /\ TicketInv(j) BY DEF TicketsInv
<1>2. TicketTypes' /\ OnlyTicket(j) BY <1>1 DEF TicketTypes, OnlyTicket
<1>3. Unbegun(j)' /\ Traced(j)' BY <1>1 DEF TicketInv, Unbegun, Traced
<1>4. Reported(j)' /\ Unorphaned(j)' BY <1>1 DEF TicketInv, Reported, Unorphaned, TicketEnded
<1>5. Stored(j)' /\ Admitting(j)' /\ (j \in Counted' => j \in Counted)
  BY <1>1 DEF TicketInv, Stored, Admitting, Counted
<1> QED BY <1>2, <1>3, <1>4, <1>5, OneTicketMoves DEF TicketInv

LEMMA ExternalStep ==
    ASSUME TicketsInv, NEW j \in Jobs, LatePost(j) \/ UpSnapshots(j) \/ UpEnds(j)
    PROVE  TicketsInv'
<1> USE DEF modes, durable, volatile
<1>1. TicketTypes /\ TicketInv(j) BY DEF TicketsInv
<1>2. UNCHANGED <<job, claimed, creq, opst, holds, inbox, alive, draining, admitting, reservations, permits, cap, work,
                  seen, settling, over>> BY DEF LatePost, UpSnapshots, UpEnds
<1>3. up[j].snap => up[j].state # None BY <1>1 DEF TicketInv, Reported
<1>4. CASE LatePost(j)
 <2>1. j \in net /\ net' = net \ {j} /\ up' \in {up, JobAccepted(j)} BY <1>4 DEF LatePost
 <2>2. up' \in [Jobs -> UpstreamJob] /\ \A i \in Jobs \ {j} : up'[i] = up[i] BY <1>1, <2>1, AcceptedUp DEF TicketTypes
 <2>3. (up'[j].snap => up'[j].state # None) /\ (up[j].state # None => up'[j] = up[j]) /\ (up[j].snap => up'[j].snap)
   BY <1>1, <1>3, <2>1, AcceptedUp
 <2> QED BY <1>2, <2>1, <2>2, <2>3, UpstreamStep DEF Ended, None
<1>5. CASE UpSnapshots(j)
 <2>1. up[j].state = "active" /\ up' = [up EXCEPT ![j].snap = TRUE] /\ net' = net BY <1>5 DEF UpSnapshots
 <2>2. up' \in [Jobs -> UpstreamJob] /\ (\A i \in Jobs \ {j} : up'[i] = up[i]) /\ up'[j].state = "active" /\ up'[j].snap = TRUE
   BY <1>1, <2>1 DEF TicketTypes, UpstreamJob
 <2> QED BY <1>2, <2>1, <2>2, UpstreamStep DEF Ended, None
<1>6. CASE UpEnds(j)
 <2>1. PICK s \in {"done", "failed"} : up' = [up EXCEPT ![j].state = s] BY <1>6 DEF UpEnds
 <2>2. up[j].state = "active" /\ net' = net BY <1>6 DEF UpEnds
 <2>3. up' \in [Jobs -> UpstreamJob] /\ (\A i \in Jobs \ {j} : up'[i] = up[i]) /\ up'[j].state = s /\ up'[j].snap = up[j].snap
   BY <1>1, <2>1 DEF TicketTypes, UpstreamJob, Ended
 <2> QED BY <1>2, <2>2, <2>3, UpstreamStep DEF Ended, None
<1> QED BY <1>4, <1>5, <1>6

LEMMA RunCleansStep ==
    ASSUME TicketsInv, NEW j \in Jobs, RunCleans(j)
    PROVE  TicketsInv'
<1> USE DEF modes, upstream
<1> DEFINE q == job[j]
<1>1. TicketTypes /\ TicketInv(j) /\ q \in TicketRecord /\ seen[j] = "cleanup"
  BY DEF TicketsInv, TicketTypes, RunCleans, Running
<1>2. UNCHANGED <<claimed, creq, opst, up, net, alive, draining, admitting, reservations, permits,
                  cap, work, settling, over>> BY DEF RunCleans
<1>3. CASE Visited(j) /\ UNCHANGED <<job, inbox, holds>>
 <2>1. RecordMoves(j) /\ job'[j] = job[j] BY <1>1, <1>3, KeptMoves
 <2>2. seen' \in [Jobs -> Listed] /\ seen'[j] = None /\ \A i \in Jobs \ {j} : seen'[i] = seen[i]
   BY <1>1, <1>3, VisitedIs
 <2>3. TicketTypes' /\ OnlyTicket(j) BY <1>1, <1>2, <1>3, <2>1, <2>2 DEF TicketTypes, OnlyTicket, RecordMoves
 <2>4. q.stage # None BY <1>1 DEF TicketInv, Unbegun, None
 <2>5. QuietMove(j) BY <1>1, <1>2, <1>3, <2>1, <2>2, <2>4 DEF QuietMove, RecordMoves
 <2> QED BY <1>2, <2>3, <2>5, QuietStep
<1>4. CASE /\ MayClean(q) /\ UNCHANGED seen /\ holds \ {j} \subseteq holds' /\ holds' \subseteq holds
           /\ inbox \ {j} \subseteq inbox' /\ inbox' \subseteq inbox
           /\ \E c \in {"hold", "complete"} : PutTicket(j, [q EXCEPT !.clean = c])
 <2>1. PICK c \in {"hold", "complete"} : PutTicket(j, [q EXCEPT !.clean = c]) BY <1>4
 <2> DEFINE r == [q EXCEPT !.clean = c]
 <2>2. r \in TicketRecord /\ SameTrail(r, q) /\ r.stage = q.stage /\ r.uncertain = q.uncertain
   BY <1>1 DEF TicketRecord, SameTrail
 <2>3. job' \in [Jobs -> TicketRecord] /\ job'[j] = r /\ \A i \in Jobs \ {j} : job'[i] = job[i]
   BY <1>1, <2>1, <2>2, PutIs
 <2> HIDE DEF r
 <2>4. TicketTypes' /\ OnlyTicket(j) BY <1>1, <1>2, <1>4, <2>3 DEF TicketTypes, OnlyTicket
 <2>5. Unbegun(j)' /\ Traced(j)' /\ Reported(j)' /\ Unorphaned(j)'
   BY <1>1, <1>2, <1>4, <2>2, <2>3 DEF TicketInv, Unbegun, Traced, Reported, Unorphaned, TicketEnded, SameTrail
 <2>6. MayClean(r) BY <1>4, <2>2 DEF MayClean, SameTrail
 <2>7. q.stage \in {None, "capturing"} => q.stage = r.stage BY <2>2
 <2>8. q.snap => up[j].snap BY <1>1 DEF TicketInv, Reported
 <2>9. q.stage = "terminal" \/ q.snap BY <1>4 DEF MayClean
 <2>10. Stored(j)' BY <1>1, <1>2, <2>2, <2>3, <2>6, <2>8, <2>9 DEF TicketInv, Stored
 <2>11. Admitting(j)' /\ (j \in Counted' => j \in Counted) BY <1>1, <1>2, <2>2, <2>3 DEF TicketInv, Admitting, Counted
 <2> QED BY <1>2, <2>4, <2>5, <2>10, <2>11, OneTicketMoves DEF TicketInv
<1>5. \/ Visited(j) /\ UNCHANGED <<job, inbox, holds>>
      \/ /\ MayClean(q) /\ UNCHANGED seen /\ holds \ {j} \subseteq holds' /\ holds' \subseteq holds
         /\ inbox \ {j} \subseteq inbox' /\ inbox' \subseteq inbox
         /\ \E c \in {"hold", "complete"} : PutTicket(j, [q EXCEPT !.clean = c]) BY DEF RunCleans
<1> QED BY <1>3, <1>4, <1>5

\* While the process lives, admission counts at least what the ceiling counts.
LEMMA CapacityIsCounted ==
    ASSUME TicketsInv, alive
    PROVE  Cardinality(Counted) <= Capacity
<1> DEFINE waiting == {i \in reservations \cup claimed : job[i].stage = None}
<1>1. reservations \cup claimed \subseteq Jobs BY DEF TicketsInv, TicketTypes, Jobs
<1>2. \A i \in Jobs : opst[i] = "staged" /\ job[i].stage = None => i \in reservations
  BY DEF TicketsInv, TicketInv, Admitting
<1>3. Counted \subseteq Open \cup waiting BY <1>1, <1>2 DEF Counted, Open, None
<1>4. Open \cap waiting = {} BY DEF Open
<1>5. IsFiniteSet(Open) /\ IsFiniteSet(waiting) /\ Cardinality(Open) \in Nat /\ Cardinality(waiting) \in Nat
 <2>1. Open \subseteq Jobs /\ waiting \subseteq Jobs BY <1>1 DEF Open
 <2> QED BY <2>1, TicketsCounted
<1>6. Capacity = Cardinality(Open) + Cardinality(waiting) BY DEF Capacity
<1> HIDE DEF waiting
<1>7. Cardinality(Open \cup waiting) = Cardinality(Open) + Cardinality(waiting) - Cardinality(Open \cap waiting)
  BY <1>5, FS_Union
<1>8. Cardinality(Open \cap waiting) = 0 BY <1>4, FS_EmptySet
<1>9. IsFiniteSet(Open \cup waiting) BY <1>5, FS_Union
<1>10. Cardinality(Counted) <= Cardinality(Open \cup waiting) BY <1>3, <1>9, FS_Subset
<1> QED BY <1>5, <1>6, <1>7, <1>8, <1>10

\* A ticket is admitted where there is room for it.
LEMMA OneTicketJoins ==
    ASSUME TicketsInv, NEW j \in Jobs, TicketTypes', OnlyTicket(j), alive, alive' = alive, TicketInv(j)',
           Capacity < ActiveTickets
    PROVE  TicketsInv'
<1>1. ASSUME NEW i \in Jobs
      PROVE  TicketInv(i)'
 <2>1. CASE i = j BY <2>1
 <2>2. CASE i # j BY <2>2, UntouchedTicket DEF TicketsInv, OnlyTicket
 <2> QED BY <2>1, <2>2
<1>2. Counted' \subseteq Counted \cup {j} BY DEF OnlyTicket, Counted
<1>3. Counted \subseteq Jobs /\ Counted' \subseteq Jobs /\ Counted \cup {j} \subseteq Jobs BY DEF Counted
<1>4. /\ IsFiniteSet(Counted) /\ Cardinality(Counted) \in Nat /\ Cardinality(Counted') \in Nat
      /\ IsFiniteSet(Counted \cup {j}) /\ Cardinality(Counted \cup {j}) \in Nat BY <1>3, TicketsCounted
<1>5. Cardinality(Counted \cup {j}) <= Cardinality(Counted) + 1 BY <1>4, FS_AddElement
<1>6. Cardinality(Counted') <= Cardinality(Counted \cup {j}) BY <1>2, <1>4, FS_Subset
<1>7. Cardinality(Counted) < ActiveTickets
 <2>1. Capacity \in Nat
  <3> DEFINE waiting == {i \in reservations \cup claimed : job[i].stage = None}
  <3>1. Open \subseteq Jobs /\ waiting \subseteq Jobs BY DEF Open, TicketsInv, TicketTypes, Jobs
  <3>2. Cardinality(Open) \in Nat /\ Cardinality(waiting) \in Nat BY <3>1, TicketsCounted
  <3>3. Capacity = Cardinality(Open) + Cardinality(waiting) BY DEF Capacity
  <3> QED BY <3>2, <3>3
 <2> QED BY <1>4, <2>1, CapacityIsCounted, TicketsAssumption
<1>8. Cardinality(Counted') <= ActiveTickets BY <1>4, <1>5, <1>6, <1>7, TicketsAssumption
<1> QED BY <1>1, <1>8 DEF TicketsInv

LEMMA SubmitClaimStep ==
    ASSUME TicketsInv, NEW j \in Jobs, SubmitClaim(j)
    PROVE  TicketsInv'
<1> USE DEF modes, upstream
<1>1. TicketTypes /\ TicketInv(j) /\ j \in FileJobs \ claimed /\ alive /\ admitting = {} /\ Capacity < ActiveTickets
  BY DEF TicketsInv, SubmitClaim, Admitted
<1>2. /\ UNCHANGED <<job, creq, opst, holds, inbox, up, net, alive, draining, reservations,
                     permits, cap, work, seen, settling, over>>
      /\ claimed' = claimed \cup {j} /\ admitting' = {j} BY DEF SubmitClaim
<1>3. TicketTypes' /\ OnlyTicket(j) BY <1>1, <1>2 DEF TicketTypes, OnlyTicket
<1>4. Unbegun(j)' /\ Traced(j)' /\ Reported(j)' /\ Unorphaned(j)' /\ Stored(j)'
  BY <1>1, <1>2 DEF TicketInv, Unbegun, Traced, Reported, Unorphaned, TicketEnded, Stored
<1>5. Admitting(j)' BY <1>1, <1>2 DEF TicketInv, Admitting
<1> QED BY <1>1, <1>2, <1>3, <1>4, <1>5, OneTicketJoins DEF TicketInv

LEMMA CloudReserveStep ==
    ASSUME TicketsInv, NEW j \in Jobs, CloudReserve(j)
    PROVE  TicketsInv'
<1> USE DEF modes, upstream
<1>1. /\ TicketTypes /\ TicketInv(j) /\ j \in UploadJobs /\ opst[j] \in {None, "asked"} /\ alive
      /\ Capacity < ActiveTickets BY TicketsAssumption DEF TicketsInv, CloudReserve, Admitted
<1>2. /\ UNCHANGED <<job, claimed, creq, holds, inbox, up, net, alive, draining, admitting, permits,
                     cap, work, seen, settling, over>>
      /\ \/ opst' = [opst EXCEPT ![j] = "held"] /\ reservations' = reservations \cup {j}
         \/ opst' = [opst EXCEPT ![j] = "asked"] /\ reservations' = reservations BY DEF CloudReserve
<1>3. opst' \in [Jobs -> OperationStates] /\ opst'[j] \in {"held", "asked"} /\ \A i \in Jobs \ {j} : opst'[i] = opst[i]
  BY <1>1, <1>2 DEF TicketTypes, OperationStates
<1>4. TicketTypes' /\ OnlyTicket(j) BY <1>1, <1>2, <1>3 DEF TicketTypes, OnlyTicket
<1>5. Unbegun(j)' /\ Traced(j)' /\ Reported(j)' /\ Unorphaned(j)' /\ Stored(j)'
  BY <1>1, <1>2 DEF TicketInv, Unbegun, Traced, Reported, Unorphaned, TicketEnded, Stored
<1>6. Admitting(j)' BY <1>1, <1>2, <1>3 DEF TicketInv, Admitting
<1> QED BY <1>1, <1>2, <1>4, <1>5, <1>6, OneTicketJoins DEF TicketInv

\* A permit found or used again: without room for it, the ticket goes beyond the ceiling.
LEMMA CloudHeldStep ==
    ASSUME TicketsInv, NEW j \in Jobs, PermitFound(j) \/ CloudResume(j)
    PROVE  TicketsInv'
<1> USE DEF modes, upstream, durable, volatile
<1>1. /\ TicketTypes /\ TicketInv(j) /\ j \in UploadJobs /\ j \in CloudJobs /\ alive
      /\ UNCHANGED <<job, claimed, creq, holds, inbox, up, net, alive, draining, admitting, permits,
                     cap, work, seen, settling>> BY TicketsAssumption DEF TicketsInv, PermitFound, CloudResume
<1>2. Unbegun(j)' /\ Traced(j)' /\ Reported(j)' /\ Unorphaned(j)' /\ Stored(j)'
  BY <1>1 DEF TicketInv, Unbegun, Traced, Reported, Unorphaned, TicketEnded, Stored
<1>3. CASE PermitFound(j)
 <2>1. opst[j] = "asked" /\ opst' = [opst EXCEPT ![j] = "held"] /\ UNCHANGED <<reservations, over>>
   BY <1>3 DEF PermitFound
 <2>2. opst' \in [Jobs -> OperationStates] /\ opst'[j] = "held" /\ \A i \in Jobs \ {j} : opst'[i] = opst[i]
   BY <1>1, <2>1 DEF TicketTypes, OperationStates
 <2>3. TicketTypes' /\ OnlyTicket(j) BY <1>1, <2>1, <2>2 DEF TicketTypes, OnlyTicket
 <2>4. Admitting(j)' /\ (j \in Counted' => j \in Counted) BY <1>1, <2>1, <2>2 DEF TicketInv, Admitting, Counted
 <2> QED BY <1>1, <1>2, <2>3, <2>4, OneTicketMoves DEF TicketInv
<1>4. CASE CloudResume(j)
 <2>1. opst[j] = "held" /\ reservations' = reservations \cup {j} /\ over' = Beyond(j) /\ UNCHANGED opst
   BY <1>4 DEF CloudResume
 <2>2. over' = IF Capacity < ActiveTickets THEN over \ {j} ELSE over \cup {j} BY <2>1 DEF Beyond
 <2>3. TicketTypes' /\ OnlyTicket(j) BY <1>1, <2>1, <2>2 DEF TicketTypes, OnlyTicket
 <2>4. Admitting(j)' BY <1>1, <2>1 DEF TicketInv, Admitting, None
 <2>5. CASE Capacity < ActiveTickets BY <1>1, <1>2, <2>3, <2>4, <2>5, OneTicketJoins DEF TicketInv
 <2>6. CASE ~(Capacity < ActiveTickets)
  <3>1. j \notin Counted' BY <2>2, <2>6 DEF Counted
  <3> QED BY <1>1, <1>2, <2>3, <2>4, <3>1, OneTicketMoves DEF TicketInv
 <2> QED BY <2>5, <2>6
<1> QED BY <1>3, <1>4

LEMMA UploadReserveStep ==
    ASSUME TicketsInv, NEW j \in Jobs, UploadReserve(j)
    PROVE  TicketsInv'
<1> USE DEF modes, upstream
<1>1. TicketTypes /\ TicketInv(j) /\ j \in UploadJobs \ CloudJobs /\ opst[j] = None /\ alive
  BY DEF TicketsInv, UploadReserve, Admitted
<1>2. UNCHANGED <<job, claimed, creq, holds, inbox, up, net, alive, draining, admitting, permits,
                  cap, work, seen, settling, over>> BY DEF UploadReserve
<1>3. CASE Capacity < ActiveTickets
 <2>1. reservations' = reservations \cup {j} /\ opst' = opst BY <1>3 DEF UploadReserve
 <2>2. TicketTypes' /\ OnlyTicket(j) BY <1>1, <1>2, <2>1 DEF TicketTypes, OnlyTicket
 <2>3. Unbegun(j)' /\ Traced(j)' /\ Reported(j)' /\ Unorphaned(j)' /\ Stored(j)'
   BY <1>1, <1>2 DEF TicketInv, Unbegun, Traced, Reported, Unorphaned, TicketEnded, Stored
 <2>4. Admitting(j)' BY <1>1, <1>2, <2>1 DEF TicketInv, Admitting
 <2> QED BY <1>1, <1>2, <1>3, <2>2, <2>3, <2>4, OneTicketJoins DEF TicketInv
<1>4. CASE ~(Capacity < ActiveTickets)
 <2>1. opst' = [opst EXCEPT ![j] = "skipped"] /\ reservations' = reservations BY <1>4 DEF UploadReserve
 <2>2. TicketTypes' /\ OnlyTicket(j) /\ opst'[j] = "skipped"
   BY <1>1, <1>2, <2>1 DEF TicketTypes, OnlyTicket, OperationStates
 <2>3. Unbegun(j)' /\ Traced(j)' /\ Reported(j)' /\ Unorphaned(j)' /\ Stored(j)'
   BY <1>1, <1>2 DEF TicketInv, Unbegun, Traced, Reported, Unorphaned, TicketEnded, Stored
 <2>4. Admitting(j)' /\ (j \in Counted' => j \in Counted) BY <1>1, <1>2, <2>1, <2>2 DEF TicketInv, Admitting, Counted
 <2> QED BY <1>1, <1>2, <2>2, <2>3, <2>4, OneTicketMoves DEF TicketInv
<1> QED BY <1>3, <1>4

\* A record is written for a ticket that is counted already.
LEMMA FreshStep ==
    ASSUME TicketsInv, NEW j \in Jobs, NEW s \in {"capturing", "pending"}, PutTicket(j, NewJob(s)),
           job[j].stage = None, j \in Counted \/ j \in over, TicketTypes', OnlyTicket(j), alive' = alive,
           s = "pending" => j \in holds', j \in claimed' \/ j \notin FileJobs, j \notin admitting',
           opst'[j] = "staged" => j \in UploadJobs, opst'[j] \in {opst[j], "committed"},
           UNCHANGED <<inbox, up, net, work, seen, over>>
    PROVE  TicketsInv'
<1>1. TicketInv(j) /\ TicketTypes BY DEF TicketsInv
<1>2. LET r == job'[j] IN
      /\ r.stage = s /\ r.intent = FALSE /\ r.uncertain = FALSE
      /\ r.rejected = FALSE /\ r.known = FALSE /\ r.req = FALSE /\ r.snap = FALSE
 <2>1. s \in Stages BY DEF Stages
 <2>2. job'[j] = NewJob(s) BY <1>1, <2>1, PutIs, FreshRecord
 <2> QED BY <2>1, <2>2, FreshRecord
<1>3. job[j].intent = FALSE /\ job[j].known = FALSE /\ work[j] = None /\ seen[j] = None
  BY <1>1 DEF TicketInv, Unbegun, TicketTypes, TicketRecord
<1>4. up[j].state = None /\ j \notin net BY <1>1, <1>3 DEF TicketInv, Traced
<1>5. Unbegun(j)' /\ Traced(j)' BY <1>1, <1>2, <1>3, <1>4 DEF Unbegun, Traced, None, Dispatching, Sending
<1>6. Reported(j)' /\ Unorphaned(j)' BY <1>1, <1>2, <1>4 DEF TicketInv, Reported, Unorphaned, TicketEnded
<1>7. Stored(j)' BY <1>2, <1>3 DEF Stored, None
<1>8. Admitting(j)' BY <1>1, <1>2 DEF TicketInv, Admitting, None
<1>9. j \in Counted' => j \in Counted BY DEF Counted
<1> QED BY <1>5, <1>6, <1>7, <1>8, <1>9, OneTicketMoves DEF TicketInv

LEMMA SubmitRecordStep ==
    ASSUME TicketsInv, NEW j \in Jobs, SubmitRecord(j)
    PROVE  TicketsInv'
<1> USE DEF modes, upstream
<1>1. TicketTypes /\ j \in claimed /\ job[j].stage = None BY DEF TicketsInv, TicketInv, Admitting, SubmitRecord
<1>2. /\ UNCHANGED <<claimed, creq, opst, holds, inbox, up, net, alive, draining, reservations,
                     permits, work, seen, settling, over>>
      /\ admitting' = {} /\ cap' = cap \cup {j} /\ PutTicket(j, NewJob("capturing")) BY DEF SubmitRecord
<1>3. j \in admitting /\ \A i \in admitting : i = j BY DEF TicketsInv, TicketTypes, SubmitRecord
<1>4. job' \in [Jobs -> TicketRecord] /\ \A i \in Jobs \ {j} : job'[i] = job[i]
  BY <1>1, <1>2, FreshRecord, PutIs DEF Stages
<1>5. TicketTypes' /\ OnlyTicket(j) BY <1>1, <1>2, <1>3, <1>4 DEF TicketTypes, OnlyTicket
<1>6. j \in Counted \/ j \in over BY <1>1 DEF Counted, None
<1>7. opst[j] = "staged" => j \in UploadJobs BY DEF TicketsInv, TicketInv, Admitting
<1> QED BY <1>1, <1>2, <1>5, <1>6, <1>7, FreshStep

LEMMA RepairStep ==
    ASSUME TicketsInv, NEW j \in Jobs, Repair(j)
    PROVE  TicketsInv'
<1> USE DEF modes, upstream, volatile
<1>1. TicketTypes /\ j \in claimed /\ job[j].stage = None /\ admitting = {} BY DEF TicketsInv, Repair, Admitted
<1>2. /\ UNCHANGED <<claimed, creq, opst, holds, inbox, up, net, alive, draining, admitting, reservations, permits, cap,
                      work, seen, settling, over>>
      /\ PutTicket(j, NewJob("capturing")) BY DEF Repair
<1>3. job' \in [Jobs -> TicketRecord] /\ \A i \in Jobs \ {j} : job'[i] = job[i]
  BY <1>1, <1>2, FreshRecord, PutIs DEF Stages
<1>4. TicketTypes' /\ OnlyTicket(j) BY <1>1, <1>2, <1>3 DEF TicketTypes, OnlyTicket
<1>5. j \in Counted \/ j \in over BY <1>1 DEF Counted, None
<1>6. opst[j] = "staged" => j \in UploadJobs BY DEF TicketsInv, TicketInv, Admitting
<1> QED BY <1>1, <1>2, <1>4, <1>5, <1>6, FreshStep

LEMMA UploadCommitStep ==
    ASSUME TicketsInv, NEW j \in Jobs, UploadCommit(j)
    PROVE  TicketsInv'
<1> USE DEF modes, upstream
<1>1. TicketTypes /\ opst[j] = "staged" /\ job[j].stage = None BY DEF TicketsInv, UploadCommit
<1>2. j \notin FileJobs /\ j \notin admitting
  BY <1>1, TicketsAssumption DEF TicketsInv, TicketTypes, TicketInv, Admitting
<1>3. /\ UNCHANGED <<claimed, creq, inbox, up, net, alive, draining, admitting, reservations, cap,
                     work, seen, settling, over>>
      /\ PutTicket(j, NewJob("pending")) /\ holds' = holds \cup {j}
      /\ opst' = [opst EXCEPT ![j] = "committed"] /\ permits' = [permits EXCEPT ![j] = "full"] BY DEF UploadCommit
<1>4. job' \in [Jobs -> TicketRecord] /\ \A i \in Jobs \ {j} : job'[i] = job[i]
  BY <1>1, <1>3, FreshRecord, PutIs DEF Stages
<1>5. /\ opst' \in [Jobs -> OperationStates] /\ opst'[j] = "committed"
      /\ \A i \in Jobs \ {j} : opst'[i] = opst[i]
      /\ permits' \in [Jobs -> {None, "observe", "full"}] BY <1>1, <1>3 DEF TicketTypes, OperationStates
<1>6. TicketTypes' /\ OnlyTicket(j) BY <1>1, <1>3, <1>4, <1>5 DEF TicketTypes, OnlyTicket
<1>7. j \in Counted \/ j \in over BY <1>1 DEF Counted, None
<1> QED BY <1>1, <1>2, <1>3, <1>5, <1>6, <1>7, FreshStep

\* The rest of the admission: a slot is kept or given back.
LEMMA SlotStep ==
    ASSUME TicketsInv, NEW j \in Jobs, SubmitFails(j) \/ UploadStaged(j) \/ UploadFails(j)
    PROVE  TicketsInv'
<1> USE DEF modes, upstream, durable, volatile
<1>1. TicketTypes /\ TicketInv(j) BY DEF TicketsInv
<1>2. UNCHANGED <<job, claimed, creq, holds, inbox, up, net, alive, draining, permits, cap, work,
                  seen, settling, over>> BY DEF SubmitFails, UploadStaged, UploadFails
<1>3. Unbegun(j)' /\ Traced(j)' /\ Reported(j)' /\ Unorphaned(j)' /\ Stored(j)'
  BY <1>1, <1>2 DEF TicketInv, Unbegun, Traced, Reported, Unorphaned, TicketEnded, Stored
<1>4. CASE SubmitFails(j)
 <2>1. admitting' = {} /\ (\A i \in admitting : i = j) /\ UNCHANGED <<opst, reservations>>
   BY <1>1, <1>4 DEF SubmitFails, TicketTypes
 <2>2. TicketTypes' /\ OnlyTicket(j) BY <1>1, <1>2, <2>1 DEF TicketTypes, OnlyTicket
 <2>3. Admitting(j)' /\ (j \in Counted' => j \in Counted) BY <1>1, <1>2, <2>1 DEF TicketInv, Admitting, Counted
 <2> QED BY <1>2, <1>3, <2>2, <2>3, OneTicketMoves DEF TicketInv
<1>5. CASE UploadStaged(j)
 <2>1. opst' = [opst EXCEPT ![j] = "staged"] /\ j \in reservations /\ UNCHANGED <<admitting,
                                                                                  reservations>>
   BY <1>5 DEF UploadStaged
 <2>2. TicketTypes' /\ OnlyTicket(j) /\ opst'[j] = "staged"
   BY <1>1, <1>2, <2>1 DEF TicketTypes, OnlyTicket, OperationStates
 <2>3. Admitting(j)' /\ (j \in Counted' => j \in Counted)
   BY <1>1, <1>2, <2>1, <2>2 DEF TicketTypes, TicketInv, Admitting, Counted, None
 <2> QED BY <1>2, <1>3, <2>2, <2>3, OneTicketMoves DEF TicketInv
<1>6. CASE UploadFails(j)
 <2>1. opst' = [opst EXCEPT ![j] = "failed"] /\ reservations' \in {reservations, reservations \ {j}} /\ UNCHANGED admitting
   BY <1>6 DEF UploadFails
 <2>2. TicketTypes' /\ OnlyTicket(j) /\ opst'[j] = "failed"
   BY <1>1, <1>2, <2>1 DEF TicketTypes, OnlyTicket, OperationStates
 <2>3. Admitting(j)' /\ (j \in Counted' => j \in Counted) BY <1>1, <1>2, <2>1, <2>2 DEF TicketInv, Admitting, Counted, None
 <2> QED BY <1>2, <1>3, <2>2, <2>3, OneTicketMoves DEF TicketInv
<1> QED BY <1>4, <1>5, <1>6

LEMMA RunListsStep ==
    ASSUME TicketsInv, RunLists
    PROVE  TicketsInv'
<1> USE DEF modes, upstream, durable
<1>1. TicketTypes BY DEF TicketsInv
<1>2. /\ UNCHANGED <<job, claimed, creq, opst, holds, inbox, up, net, alive, draining, admitting, reservations, permits, cap,
                      work, settling, over>>
      /\ seen' = [i \in Jobs |-> Decision(i)] BY DEF RunLists
<1>3. ASSUME NEW i \in Jobs
      PROVE  /\ seen'[i] \in Listed /\ (job[i].stage = None => seen'[i] = None)
             /\ job[i].stage = "capturing" => seen'[i] \notin {"copy", "dispatch"}
             /\ seen'[i] = "dispatch" => job[i].req
 <2>1. seen'[i] = Decision(i) BY <1>2
 <2> QED BY <2>1 DEF Decision, Listed, None
<1>4. TicketTypes'
 <2>1. seen' \in [Jobs -> Listed] BY <1>2, <1>3
 <2> QED BY <1>1, <1>2, <2>1 DEF TicketTypes
<1>5. ASSUME NEW i \in Jobs
      PROVE  TicketInv(i)'
 <2>1. TicketInv(i) BY DEF TicketsInv
 <2>2. Unbegun(i)' /\ Traced(i)' BY <1>2, <1>3, <2>1 DEF TicketInv, Unbegun, Traced, None
 <2>3. Reported(i)' /\ Unorphaned(i)' /\ Stored(i)' /\ Admitting(i)'
   BY <1>2, <2>1 DEF TicketInv, Reported, Unorphaned, TicketEnded, Stored, Admitting
 <2> QED BY <2>2, <2>3 DEF TicketInv
<1>6. Counted' = Counted BY <1>2 DEF Counted
<1> QED BY <1>4, <1>5, <1>6 DEF TicketsInv

\* No step but an admission counts one more ticket.
LEMMA NoMoreCounted ==
    ASSUME TicketsInv, TicketTypes', \A i \in Jobs : TicketInv(i)', Counted' \subseteq Counted
    PROVE  TicketsInv'
<1>1. IsFiniteSet(Counted) /\ Cardinality(Counted) \in Nat /\ Cardinality(Counted') \in Nat
  BY TicketsCounted DEF Counted
<1>2. Cardinality(Counted') <= Cardinality(Counted) BY <1>1, FS_Subset
<1>3. Cardinality(Counted') <= ActiveTickets BY <1>1, <1>2, TicketsAssumption DEF TicketsInv
<1> QED BY <1>3 DEF TicketsInv

LEMMA DrainStep ==
    ASSUME TicketsInv, Drain \/ UNCHANGED procVars
    PROVE  TicketsInv'
<1> USE DEF modes, upstream, durable, volatile
<1>1. UNCHANGED <<job, claimed, creq, opst, holds, inbox, up, net, alive, admitting, reservations, permits, cap, work, seen,
                  settling, over>> /\ draining' \in BOOLEAN BY DEF Drain, procVars, TicketsInv, TicketTypes
<1>2. TicketTypes' BY <1>1 DEF TicketsInv, TicketTypes
<1>3. \A i \in Jobs : TicketInv(i)' BY <1>1, UntouchedTicket DEF TicketsInv
<1>4. Counted' = Counted BY <1>1 DEF Counted
<1> QED BY <1>2, <1>3, <1>4, NoMoreCounted

LEMMA ProcessEndsStep ==
    ASSUME TicketsInv, ProcessEnds
    PROVE  TicketsInv'
<1> USE DEF durable
<1>1. UNCHANGED <<job, claimed, creq, opst, holds, inbox, up, over>> /\ alive' = FALSE /\ draining' = FALSE BY DEF ProcessEnds
<1>2. /\ net' = net \cup {i \in Jobs : work[i] = "post"}
      /\ admitting' = {} /\ reservations' = {} /\ cap' = {} /\ settling' = {}
      /\ work' = [i \in Jobs |-> None] /\ seen' = [i \in Jobs |-> None]
      /\ permits' = [i \in Jobs |-> IF i \in CloudJobs THEN None ELSE "full"] BY DEF ProcessEnds
<1>3. TicketTypes' BY <1>1, <1>2 DEF TicketsInv, TicketTypes, Tasks, Listed
<1>4. ASSUME NEW i \in Jobs
      PROVE  TicketInv(i)'
 <2>1. TicketInv(i) /\ work'[i] = None /\ seen'[i] = None BY <1>2 DEF TicketsInv
 <2>2. i \in net' => i \in net \/ work[i] \in Sending BY <1>2 DEF Sending
 <2>3. Unbegun(i)' BY <1>1, <1>2, <2>1 DEF TicketInv, Unbegun, None
 <2>4. Traced(i)' BY <1>1, <2>1, <2>2 DEF TicketInv, Traced, None, Dispatching, Sending
 <2>5. Reported(i)' /\ Unorphaned(i)'
   BY <1>1, <2>1, <2>2 DEF TicketInv, Reported, Unorphaned, TicketEnded, None, Sending
 <2>6. Stored(i)' /\ Admitting(i)' BY <1>1, <1>2, <2>1 DEF TicketInv, Stored, Admitting, None
 <2> QED BY <2>3, <2>4, <2>5, <2>6 DEF TicketInv
<1>5. Counted' \subseteq Counted BY <1>1, <1>2 DEF Counted
<1> QED BY <1>3, <1>4, <1>5, NoMoreCounted

\* What a restart makes of a record: a claim gets one, a copy starts again, a source that
\* was never there ends.
IsRecovered(r, j) ==
    LET q == job[j] IN
    /\ r \in TicketRecord
    /\ \/ /\ q.stage = None /\ j \in claimed /\ r.stage \in {"capturing", "terminal"}
          /\ r.intent = FALSE /\ r.rejected = FALSE /\ r.known = FALSE /\ r.req = FALSE /\ r.snap = FALSE
       \/ /\ SameTrail(r, q) /\ (q.stage = None => j \notin claimed)
          /\ \/ r.stage = q.stage
             \/ q.stage = "copying" /\ r.stage = "pending"
             \/ q.stage = "capturing" /\ r.stage = "terminal"

LEMMA RecoveredRecord ==
    ASSUME NEW j \in Jobs, job[j] \in TicketRecord
    PROVE  IsRecovered(Recovered(j), j)
<1> DEFINE b == IF j \in claimed /\ job[j].stage = None THEN NewJob("capturing") ELSE job[j]
<1>1. /\ b \in TicketRecord
      /\ \/ /\ job[j].stage = None /\ j \in claimed /\ b.stage = "capturing"
            /\ b.intent = FALSE /\ b.rejected = FALSE /\ b.known = FALSE /\ b.req = FALSE /\ b.snap = FALSE
         \/ b = job[j] /\ (job[j].stage = None => j \notin claimed) BY FreshRecord DEF Stages
<1>2. \/ Recovered(j) = b
      \/ b.stage = "copying" /\ Recovered(j) = [b EXCEPT !.stage = "pending"]
      \/ /\ b.stage = "capturing"
         /\ \E o \in {"cancelled", "failed"} : Recovered(j) = [b EXCEPT !.stage = "terminal", !.outcome = o]
  BY DEF Recovered
<1> HIDE DEF b
<1>3. CASE Recovered(j) = b BY <1>1, <1>3 DEF IsRecovered, SameTrail
<1>4. CASE b.stage = "copying" /\ Recovered(j) = [b EXCEPT !.stage = "pending"]
 <2>1. LET r == [b EXCEPT !.stage = "pending"] IN r \in TicketRecord /\ SameTrail(r, b) /\ r.stage = "pending"
   BY <1>1 DEF TicketRecord, SameTrail, Stages
 <2> QED BY <1>1, <1>4, <2>1 DEF IsRecovered
<1>5. ASSUME b.stage = "capturing", NEW o \in {"cancelled", "failed"},
             Recovered(j) = [b EXCEPT !.stage = "terminal", !.outcome = o]
      PROVE  IsRecovered(Recovered(j), j)
 <2>1. LET r == [b EXCEPT !.stage = "terminal", !.outcome = o] IN
       r \in TicketRecord /\ SameTrail(r, b) /\ r.stage = "terminal"
   BY <1>1 DEF TicketRecord, SameTrail, Stages, Ended
 <2>2. PICK r : r = Recovered(j) /\ r \in TicketRecord /\ SameTrail(r, b) /\ r.stage = "terminal" BY <1>5, <2>1
 <2>3. IsRecovered(r, j) BY <1>1, <1>5, <2>2 DEF IsRecovered, SameTrail
 <2> QED BY <2>2, <2>3
<1> QED BY <1>2, <1>3, <1>4, <1>5

LEMMA ProcessorRestartsStep ==
    ASSUME TicketsInv, ProcessorRestarts
    PROVE  TicketsInv'
<1> USE DEF upstream
<1>1. /\ alive = FALSE /\ alive' = TRUE /\ job' = [i \in Jobs |-> Recovered(i)]
      /\ UNCHANGED <<claimed, holds, inbox, up, net, draining, admitting, permits, cap, work,
                     seen, settling, over>>
      /\ creq' = [i \in Jobs |-> IF creq[i] = "running" THEN "failed" ELSE creq[i]]
  BY DEF ProcessorRestarts, TicketsInv, TicketTypes
<1>2. PICK lost \in SUBSET (ReservedOnDisk \ CloudJobs) :
         /\ opst' = [i \in Jobs |-> IF i \in lost THEN "failed" ELSE opst[i]]
         /\ reservations' = ReservedOnDisk \ lost BY DEF ProcessorRestarts
<1>3. ASSUME NEW i \in Jobs
      PROVE  IsRecovered(job'[i], i) BY <1>1, RecoveredRecord DEF TicketsInv, TicketTypes
<1>4. TicketTypes'
 <2>1. job' \in [Jobs -> TicketRecord] BY <1>1, <1>3 DEF IsRecovered
 <2>2. creq' \in [Jobs -> CaptureStates] BY <1>1 DEF TicketsInv, TicketTypes, CaptureStates
 <2>3. opst' \in [Jobs -> OperationStates] BY <1>2 DEF TicketsInv, TicketTypes, OperationStates
 <2>4. reservations' \subseteq UploadJobs BY <1>2 DEF ReservedOnDisk
 <2> QED BY <1>1, <2>1, <2>2, <2>3, <2>4 DEF TicketsInv, TicketTypes
<1>5. ASSUME NEW i \in Jobs
      PROVE  TicketInv(i)'
 <2> DEFINE q == job[i]
            r == job'[i]
 <2>1. TicketInv(i) /\ q \in TicketRecord /\ r \in TicketRecord BY <1>4 DEF TicketsInv, TicketTypes
 <2>2. \/ /\ q.stage = None /\ i \in claimed /\ r.stage \in {"capturing", "terminal"}
          /\ r.intent = FALSE /\ r.rejected = FALSE /\ r.known = FALSE /\ r.req = FALSE /\ r.snap = FALSE
       \/ /\ SameTrail(r, q) /\ (q.stage = None => i \notin claimed)
          /\ \/ r.stage = q.stage
             \/ q.stage = "copying" /\ r.stage = "pending"
             \/ q.stage = "capturing" /\ r.stage = "terminal" BY <1>3 DEF IsRecovered
 <2> HIDE DEF q, r
 <2>3. Unbegun(i)' BY <1>1, <2>1, <2>2 DEF TicketInv, Unbegun, SameTrail, None, q, r
 <2>4. q.stage \in {None, "capturing"} => q.intent = FALSE /\ q.known = FALSE /\ work[i] = None /\ seen[i] # "dispatch"
   BY <2>1 DEF TicketInv, Unbegun, TicketRecord, q
 <2>5. q.stage \in {None, "capturing"} => up[i].state = None /\ i \notin net BY <2>1, <2>4 DEF TicketInv, Traced, q
 <2>6. Traced(i)' BY <1>1, <2>1, <2>2, <2>4, <2>5 DEF TicketInv, Traced, SameTrail, None, Dispatching, Sending, q, r
 <2>7. Reported(i)' BY <1>1, <2>1, <2>2, <2>4, <2>5 DEF TicketInv, Reported, TicketEnded, SameTrail, q, r
 <2>8. Unorphaned(i)'
   BY <1>1, <2>1, <2>2, <2>4, <2>5 DEF TicketInv, Unorphaned, TicketEnded, SameTrail, Sending, None, q, r
 <2>9. Stored(i)'
  <3>1. MayClean(q) => MayClean(r) \/ (r.req = FALSE /\ q.stage = None) BY <2>2, <2>4 DEF MayClean, SameTrail
  <3>2. r.req \/ work[i] = "copied" => (q.req \/ work[i] = "copied") /\ (MayClean(q) => MayClean(r))
    BY <2>2, <2>4, <3>1 DEF SameTrail, None
  <3>3. (job[i].req \/ work[i] = "copied" => i \in inbox \/ MayClean(job[i]))'
    BY <1>1, <2>1, <3>2 DEF TicketInv, Stored, q, r
  <3>4. (job[i].stage \notin {None, "capturing", "terminal"} => i \in holds \/ up[i].snap)'
    BY <1>1, <2>1, <2>2 DEF TicketInv, Stored, None, q, r
  <3> QED BY <3>3, <3>4 DEF Stored
 <2>10. i \notin admitting BY <1>1, <2>1 DEF TicketInv, Admitting
 <2>11. r.stage = None => q.stage = None BY <2>2 DEF None
 <2>12. opst'[i] = "staged" => opst[i] = "staged" /\ i \notin lost BY <1>2
 <2>13. opst'[i] = "staged" /\ r.stage = None => i \in reservations'
   BY <1>2, <2>1, <2>11, <2>12 DEF ReservedOnDisk, TicketInv, Admitting, q
 <2>14. i \in over => opst'[i] \notin {None, "asked"} BY <1>2, <2>1 DEF TicketInv, Admitting, None
 <2>15. Admitting(i)' BY <1>1, <2>1, <2>2, <2>10, <2>12, <2>13, <2>14 DEF TicketInv, Admitting, None, q, r
 <2> QED BY <2>3, <2>6, <2>7, <2>8, <2>9, <2>15 DEF TicketInv
<1>6. Counted' \subseteq Counted
 <2>1. SUFFICES ASSUME NEW i \in Jobs, i \in Counted'
                PROVE  i \in Counted BY DEF Counted
 <2>2. /\ job'[i].stage # "terminal" /\ i \notin over
       /\ job'[i].stage # None \/ i \in claimed \/ i \in reservations' \/ opst'[i] = "staged"
   BY <1>1, <2>1 DEF Counted
 <2>3. i \in reservations' \/ opst'[i] = "staged" => opst[i] = "staged" BY <1>2 DEF ReservedOnDisk
 <2>4. job[i].stage # "terminal" BY <1>3, <2>2 DEF IsRecovered, None
 <2>5. job'[i].stage # None => job[i].stage # None \/ i \in claimed BY <1>3 DEF IsRecovered, None
 <2> QED BY <2>2, <2>3, <2>4, <2>5 DEF Counted
<1> QED BY <1>4, <1>5, <1>6, NoMoreCounted

LEMMA TicketsBegin ==
    ASSUME TicketsInit
    PROVE  TicketsInv
<1> USE DEF TicketsInit
<1>1. job = [j \in Jobs |-> NewJob(None)] /\ NewJob(None) \in TicketRecord BY FreshRecord DEF Stages
<1>2. TicketTypes BY <1>1 DEF TicketTypes, UpstreamJob, CaptureStates, Tasks, Listed, OperationStates
<1>3. ASSUME NEW j \in Jobs
      PROVE  TicketInv(j)
 <2>1. LET r == job[j] IN
       /\ r.stage = None /\ r.cancel = FALSE /\ r.intent = FALSE /\ r.uncertain = FALSE
       /\ r.rejected = FALSE /\ r.known = FALSE /\ r.req = FALSE /\ r.snap = FALSE BY <1>1, FreshRecord DEF Stages
 <2>2. Unbegun(j) /\ Traced(j) BY <2>1 DEF Unbegun, Traced, None, Dispatching, Sending
 <2>3. Reported(j) /\ Unorphaned(j) BY <2>1 DEF Reported, Unorphaned, TicketEnded, None
 <2>4. Stored(j) /\ Admitting(j) BY <2>1 DEF Stored, Admitting, None
 <2> QED BY <2>2, <2>3, <2>4 DEF TicketInv
<1>4. Counted = {}
 <2>1. \A j \in Jobs : job[j].stage = None /\ opst[j] = None BY <1>1, FreshRecord DEF Stages
 <2> QED BY <2>1 DEF Counted, None
<1>5. Cardinality(Counted) <= ActiveTickets BY <1>4, FS_EmptySet, TicketsAssumption
<1> QED BY <1>2, <1>3, <1>5 DEF TicketsInv

LEMMA TicketsStep ==
    ASSUME TicketsInv, [TicketsNext]_procVars
    PROVE  TicketsInv'
<1>1. CASE RunLists \/ Drain \/ ProcessEnds \/ ProcessorRestarts \/ UNCHANGED procVars
  BY <1>1, RunListsStep, DrainStep, ProcessEndsStep, ProcessorRestartsStep
<1>2. ASSUME NEW j \in Jobs, Admission(j)
      PROVE  TicketsInv'
  BY <1>2, SubmitClaimStep, SubmitRecordStep, RepairStep, UploadReserveStep, CloudReserveStep, CloudHeldStep,
     UploadCommitStep, SlotStep DEF Admission
<1>3. ASSUME NEW j \in Jobs, Source(j)
      PROVE  TicketsInv' BY <1>3, CaptureAnsweredStep, CaptureEndsStep, CancelStep, CancelSettlesStep DEF Source
<1>4. ASSUME NEW j \in Jobs, Pass(j)
      PROVE  TicketsInv'
  BY <1>4, RunSkipsStep, RunCaptureStep, RunSettlesStep, RunLaunchesStep, RunCleansStep, CleanFailsStep DEF Pass
<1>5. ASSUME NEW j \in Jobs, Task(j)
      PROVE  TicketsInv'
  BY <1>5, CopyStartStep, CopyPublishStep, CopyDoneStep, CopyFailsStep, DispatchStartStep, DispatchLookupStep,
     DispatchIntentStep, DispatchSendStep, PostAcceptedStep, PostRejectedStep, PostTimesOutStep DEF Task
<1>6. ASSUME NEW j \in Jobs, Track(j) \/ External(j)
      PROVE  TicketsInv' BY <1>6, TrackStep, ExternalStep, PermitStep, RevokeStep DEF External
<1> QED BY <1>1, <1>2, <1>3, <1>4, <1>5, <1>6 DEF TicketsNext

\* The ceiling counts three kinds of tickets, and no ticket twice.
LEMMA CeilingIsKept ==
    ASSUME TicketsInv
    PROVE  TicketCeiling
<1> DEFINE unwritten == {j \in claimed : job[j].stage = None}
           open == Open \ over
           staged == ReservedOnDisk \ over
<1>1. TicketTypes /\ claimed \subseteq Jobs BY DEF TicketsInv, TicketTypes, Jobs
<1>2. open \subseteq Counted /\ unwritten \subseteq Counted /\ staged \subseteq Counted
  BY <1>1, TicketsAssumption DEF Open, Counted, ReservedOnDisk, Jobs, None, TicketTypes
<1>3. open \cap unwritten = {} /\ (open \cup unwritten) \cap staged = {}
  BY <1>1, TicketsAssumption DEF Open, ReservedOnDisk, TicketTypes
<1> HIDE DEF unwritten, open, staged
<1>4. /\ IsFiniteSet(Counted) /\ Cardinality(Counted) \in Nat
      /\ IsFiniteSet(open) /\ IsFiniteSet(unwritten) /\ IsFiniteSet(staged)
      /\ IsFiniteSet(open \cup unwritten) /\ IsFiniteSet((open \cup unwritten) \cup staged)
      /\ Cardinality(open) \in Nat /\ Cardinality(unwritten) \in Nat /\ Cardinality(staged) \in Nat
      /\ Cardinality(open \cup unwritten) \in Nat /\ Cardinality((open \cup unwritten) \cup staged) \in Nat
 <2>1. Counted \subseteq Jobs BY DEF Counted
 <2> QED BY <1>2, <2>1, TicketsCounted
<1>5. Cardinality(open \cup unwritten) = Cardinality(open) + Cardinality(unwritten) - Cardinality(open \cap unwritten)
  BY <1>4, FS_Union
<1>6. Cardinality((open \cup unwritten) \cup staged)
      = Cardinality(open \cup unwritten) + Cardinality(staged) - Cardinality((open \cup unwritten) \cap staged)
  BY <1>4, FS_Union
<1>7. Cardinality(open \cap unwritten) = 0 /\ Cardinality((open \cup unwritten) \cap staged) = 0 BY <1>3, FS_EmptySet
<1>8. Cardinality((open \cup unwritten) \cup staged) <= Cardinality(Counted) BY <1>2, <1>4, FS_Subset
<1>9. Cardinality(Counted) <= ActiveTickets BY DEF TicketsInv
<1>10. Cardinality(open) + Cardinality(unwritten) + Cardinality(staged) <= ActiveTickets
  BY <1>4, <1>5, <1>6, <1>7, <1>8, <1>9, TicketsAssumption
<1>11. over \subseteq {j \in CloudJobs : opst[j] \notin {None, "asked"}}
  BY <1>1, TicketsAssumption DEF TicketsInv, TicketTypes, TicketInv, Admitting, Jobs
<1> QED BY <1>10, <1>11 DEF TicketCeiling, unwritten, open, staged

\* The bytes are there whenever the processor may still ask for them.
LEMMA SourceIsKept ==
    ASSUME TicketsInv
    PROVE  SourceKept
<1> SUFFICES ASSUME NEW j \in Jobs
             PROVE  /\ \/ up[j].state = "active" /\ ~up[j].snap
                       \/ up[j].state = None /\ (work[j] = "post" \/ j \in net)
                       => j \in inbox
                    /\ job[j].stage \in {"pending", "copying", "submitting"} /\ ~up[j].snap => j \in holds
  BY DEF SourceKept
<1>1. TicketInv(j) BY DEF TicketsInv
<1>2. up[j].state = "active" \/ j \in net \/ work[j] = "post" => job[j].intent /\ job[j].req
  BY <1>1 DEF TicketInv, Traced, Sending, None
<1>3. MayClean(job[j]) /\ job[j].intent /\ ~up[j].snap => up[j].state \in Ended \/ (TicketEnded(j) /\ ~job[j].known)
  BY <1>1 DEF TicketInv, Reported, MayClean, TicketEnded
<1>4. TicketEnded(j) /\ ~job[j].known => up[j].state = None /\ j \notin net /\ work[j] # "post"
  BY <1>1 DEF TicketInv, Unorphaned, Sending
<1>5. up[j].state = None => ~up[j].snap BY <1>1 DEF TicketInv, Reported
<1>6. \/ up[j].state = "active" /\ ~up[j].snap
      \/ up[j].state = None /\ (work[j] = "post" \/ j \in net)
      => j \in inbox BY <1>1, <1>2, <1>3, <1>4, <1>5 DEF TicketInv, Stored, Ended, None
<1>7. job[j].stage \in {"pending", "copying", "submitting"} /\ ~up[j].snap => j \in holds
  BY <1>1 DEF TicketInv, Stored, None
<1> QED BY <1>6, <1>7

\* No more tickets are active than the ceiling allows (submit, reserveUpload and reserveCloud
\* count before they write), but for imports whose permit was granted before (reserveCloud
\* does not count again when it finds one after a lost answer or a crash); a ticket that ended without the processor's job has none there (dispatch
\* leaves its intent before it posts, and an end that is only local needs that there is
\* none, or a refusal that is certain); and the copy and the capture stay until the
\* processor has its own (cleanup).  For any tickets, lost answers, crashes and drains.
THEOREM TicketsAreKept == TicketsSpec => []TicketPromises
<1>1. TicketsInv => TicketPromises
 <2>1. TicketsInv => NoOrphanWork BY DEF TicketsInv, TicketInv, Unorphaned, NoOrphanWork, Sending
 <2> QED BY <2>1, CeilingIsKept, SourceIsKept DEF TicketPromises
<1> QED BY <1>1, TicketsBegin, TicketsStep, PTL DEF TicketsSpec

--------------------
\* CloudImport: the hold, the authority to dispatch, the reported failure

Lanes == {Void, "stage", "publication", "admission", "processing", "publish", "ack", "observe", "settle", "confirm"}
Early == {"stage", "publication", "admission", "processing", "publish"}   \* before there is a record
Journal == [st : {Void, "staged", "indeterminate", "committed", "failed"}, eff : BOOLEAN, pub : BOOLEAN, pubAsked : BOOLEAN,
            proc : BOOLEAN, procAsked : BOOLEAN, adm : {Void, "skipped", "awaiting", "ticket"}]
Sample == {Void, "queued", "running", "done", "interrupted", "dropped"}
Receipt == [on : BOOLEAN, rev : Nat, acked : Nat, proc : {Void, "skipped", "awaiting", "ticket"},
            required : BOOLEAN, owner : BOOLEAN, pubIntent : BOOLEAN, pubDone : BOOLEAN,
            procIntent : {Void, "skipped", "completed", "interrupted"}, procDone : BOOLEAN, hold : BOOLEAN,
            link : BOOLEAN, seen : Sample, ackSeen : Sample]
Backend == [mine : BOOLEAN, pub : {Void, "granted", "completed"}, proc : {Void, "granted", "settled"},
            rev : Nat, seen : Sample, failed : BOOLEAN]

ImportTypes ==
    /\ jr \in [Works -> Journal] /\ rec \in [Works -> Receipt] /\ bk \in [Works -> Backend]
    /\ ticket \in [Works -> Sample] /\ auth \subseteq Works /\ need \in BOOLEAN
    /\ dlv \in [Works -> {Void, "pending", "superseded", "wait-owner", "failure-reporting", "failed", "delivered"}]
    /\ claim \in [Works -> [kind : {Void, "wait-owner", "reconcile", "new"}, lease : BOOLEAN]]
    /\ lane \in [Passes -> [w : Works \cup {Void}, at : Lanes, del : BOOLEAN]]
    /\ recon \in [at : {Void, "inspect", "restore"}, works : SUBSET Works, left : SUBSET Works,
                  group : SUBSET Works]

\* What the journal says of the permits the backend gave.
Permitted(w) ==
    /\ jr[w].adm = "ticket" => jr[w].proc
    /\ jr[w].adm = "skipped" /\ ~jr[w].proc => bk[w].proc = Void
    /\ jr[w].proc \/ bk[w].proc # Void => jr[w].procAsked
    /\ jr[w].st = "indeterminate" => jr[w].adm # Void
    /\ jr[w].adm \in {Void, "awaiting"} => ticket[w] = Void

\* A record stands for a published file; what it says is done, the backend has.
Recorded(w) ==
    rec[w].on =>
      /\ jr[w].st = "committed"
      /\ rec[w].proc # Void /\ (rec[w].proc # "awaiting" => rec[w].proc = jr[w].adm)
      /\ rec[w].acked <= rec[w].rev /\ (rec[w].acked = rec[w].rev => bk[w].rev = rec[w].rev)
      /\ rec[w].pubDone => bk[w].pub = "completed"
      /\ rec[w].procDone => bk[w].proc = "settled"

\* The processor's job is a revision before its end is settled, so that none comes after
\* the hold has gone, but for a job that was interrupted.
Released(w) ==
    rec[w].on =>
      /\ rec[w].procDone /\ rec[w].proc = "ticket" => rec[w].seen = "done" \/ ticket[w] \in {"interrupted", "dropped"}
      /\ rec[w].seen # Void => rec[w].link \/ ~(rec[w].rev < MaxRevision)
      /\ rec[w].proc = "awaiting" => rec[w].seen = Void /\ ~rec[w].procDone /\ ticket[w] = Void
      /\ ~rec[w].hold =>
           /\ rec[w].pubDone /\ (jr[w].proc => rec[w].procDone) /\ rec[w].proc # "awaiting"
           /\ \/ bk[w].rev = rec[w].rev
              \/ ticket[w] = "interrupted" /\ rec[w].link /\ bk[w].rev + 1 = rec[w].rev

\* A delivery reported as failed has changed nothing that is on record.
Refused(w) ==
    /\ bk[w].failed => dlv[w] \in {"failure-reporting", "failed"}
    /\ dlv[w] \in {"failure-reporting", "failed"} =>
         jr[w].st \in {Void, "failed"} \/ (jr[w].st = "committed" /\ ~jr[w].eff)

WorkInv(w) == Permitted(w) /\ Recorded(w) /\ Released(w) /\ Refused(w) /\ (w \in auth => RecordStands(w))

InLane(t) == lane[t].at \notin {Void, "confirm"}

\* A pass that has a lane: a delivery up to its record, or the record it works on.
LaneInv(t) ==
    /\ lane[t].at # Void => W(t) \in Works
    /\ lane[t].at # Void /\ lane[t].del => t = "run" /\ dlv[W(t)] = "pending"
    /\ lane[t].at \in Early => t = "run"
    /\ lane[t].at \in {"stage", "publication"} => lane[t].del
    /\ lane[t].at \in Early /\ lane[t].del => ~rec[W(t)].on
    /\ lane[t].at \in Early /\ ~lane[t].del => rec[W(t)].proc = "awaiting"
    /\ InLane(t) => W(t) \notin recon.works
    /\ InLane(t) /\ ~(lane[t].at \in Early /\ lane[t].del) => RecordStands(W(t))
    /\ lane[t].at = "publish" => jr[W(t)].adm # Void
    /\ lane[t].at = "processing" => jr[W(t)].adm \in {Void, "awaiting"}

\* One pass at a time works on an operation.
LanesApart == \A t, u \in Passes : t # u /\ InLane(t) /\ InLane(u) => W(t) # W(u)

\* A reconciliation has its records to itself, without any authority, until it restores
\* what the backend has.
ReconInv ==
    /\ recon.left \subseteq recon.works /\ recon.group \subseteq recon.works
    /\ recon.at = Void => recon.works = {}
    /\ \A w \in recon.left \cup recon.group : rec[w].on
    /\ recon.at = "inspect" => recon.left \cap recon.group = {} /\ recon.works \cap auth = {}
    /\ recon.at = "restore" => recon.left \subseteq recon.group /\ \A w \in recon.left : bk[w].rev = rec[w].rev

ImportsInv ==
    /\ ImportTypes
    /\ \A w \in Works : WorkInv(w)
    /\ (\A t \in Passes : LaneInv(t)) /\ LanesApart
    /\ ReconInv

LEMMA SameWork ==
    ASSUME NEW w \in Works, WorkInv(w), jr'[w] = jr[w], rec'[w] = rec[w], bk'[w] = bk[w], dlv'[w] = dlv[w],
           w \in auth' => w \in auth, ticket[w] \in {Void, "interrupted", "dropped"} => ticket'[w] = ticket[w]
    PROVE  WorkInv(w)' BY DEF WorkInv, Permitted, Recorded, Released, Refused, RecordStands

\* Who has the lane of a work, or may take it; and what a step in that lane leaves alone.
HasLane(t, w) == (InLane(t) /\ W(t) = w) \/ LaneFree(w)
InLaneOnly(t, w) ==
    /\ recon' = recon /\ lane' \in [Passes -> [w : Works \cup {Void}, at : Lanes, del : BOOLEAN]]
    /\ \A v \in Works \ {w} : /\ jr'[v] = jr[v] /\ rec'[v] = rec[v] /\ bk'[v] = bk[v] /\ dlv'[v] = dlv[v]
                              /\ (v \in auth') = (v \in auth) /\ ticket'[v] = ticket[v]
    /\ \A u \in Passes \ {t} : lane'[u] = lane[u]
    /\ lane'[t].at # Void => lane'[t].w = w
    /\ t = "run" \/ dlv'[w] = dlv[w]

LEMMA LaneStep ==
    ASSUME ImportsInv, NEW t \in Passes, NEW w \in Works, HasLane(t, w), InLaneOnly(t, w),
           ImportTypes', WorkInv(w)', LaneInv(t)'
    PROVE  ImportsInv'
<1>1. w \notin recon.works /\ \A u \in Passes \ {t} : InLane(u) => W(u) # w
 <2>1. CASE InLane(t) /\ W(t) = w BY <2>1 DEF ImportsInv, LanesApart, LaneInv
 <2>2. CASE LaneFree(w) BY <2>2 DEF LaneFree, InLane, W
 <2> QED BY <2>1, <2>2 DEF HasLane
<1>2. ASSUME NEW v \in Works
      PROVE  WorkInv(v)'
 <2>1. CASE v = w BY <2>1
 <2>2. CASE v # w BY <2>2, SameWork DEF ImportsInv, InLaneOnly
 <2> QED BY <2>1, <2>2
<1>3. ASSUME NEW u \in Passes
      PROVE  LaneInv(u)'
 <2>1. CASE u = t BY <2>1
 <2>2. CASE u # t
  <3>1. LaneInv(u) /\ lane'[u] = lane[u] /\ W(u)' = W(u) /\ recon' = recon /\ (InLane(u)' <=> InLane(u))
    BY <2>2 DEF ImportsInv, InLaneOnly, W, InLane
  <3>2. CASE InLane(u)
   <4>1. W(u) \in Works \ {w} BY <1>1, <2>2, <3>1, <3>2 DEF LaneInv, InLane
   <4>2. jr'[W(u)] = jr[W(u)] /\ rec'[W(u)] = rec[W(u)] /\ dlv'[W(u)] = dlv[W(u)] BY <4>1 DEF InLaneOnly
   <4> QED BY <3>1, <4>2 DEF LaneInv, RecordStands
  <3>3. CASE ~InLane(u)
   <4>1. lane[u].at \notin Early BY <3>3 DEF InLane, Early, Void
   <4>2. lane[u].at # Void /\ lane[u].del => u = "run" /\ dlv'[W(u)] = "pending"
    <5>1. SUFFICES ASSUME lane[u].at # Void, lane[u].del
                   PROVE  u = "run" /\ dlv'[W(u)] = "pending" OBVIOUS
    <5>2. u = "run" /\ dlv[W(u)] = "pending" /\ W(u) \in Works BY <3>1, <5>1 DEF LaneInv
    <5>3. dlv'[W(u)] = dlv[W(u)] BY <2>2, <5>2 DEF InLaneOnly
    <5> QED BY <5>2, <5>3
   <4>3. lane[u].at \notin {"publish", "processing", "stage", "publication"} BY <4>1 DEF Early
   <4> QED BY <3>1, <3>3, <4>1, <4>2, <4>3 DEF LaneInv
  <3> QED BY <3>2, <3>3
 <2> QED BY <2>1, <2>2
<1>4. LanesApart'
 <2>1. SUFFICES ASSUME NEW u \in Passes, NEW v \in Passes, u # v, InLane(u)', InLane(v)'
                PROVE  W(u)' # W(v)' BY DEF LanesApart
 <2>2. CASE u # t /\ v # t BY <2>1, <2>2 DEF ImportsInv, LanesApart, InLaneOnly, InLane, W
 <2>3. CASE u = t
  <3>1. W(u)' = w BY <2>1, <2>3 DEF InLaneOnly, InLane, W
  <3>2. W(v)' # w BY <1>1, <2>1, <2>3 DEF InLaneOnly, InLane, W
  <3> QED BY <3>1, <3>2
 <2>4. CASE v = t
  <3>1. W(v)' = w BY <2>1, <2>4 DEF InLaneOnly, InLane, W
  <3>2. W(u)' # w BY <1>1, <2>1, <2>4 DEF InLaneOnly, InLane, W
  <3> QED BY <3>1, <3>2
 <2> QED BY <2>2, <2>3, <2>4
<1>5. ReconInv'
 <2>1. ReconInv /\ recon' = recon /\ recon.works \subseteq Works BY DEF ImportsInv, InLaneOnly, ImportTypes
 <2>2. \A v \in recon.works : rec'[v] = rec[v] /\ bk'[v] = bk[v] /\ (v \in auth') = (v \in auth)
   BY <1>1, <2>1 DEF InLaneOnly
 <2> QED BY <2>1, <2>2 DEF ReconInv
<1> QED BY <1>2, <1>3, <1>4, <1>5 DEF ImportsInv

LEMMA GotoIs ==
    ASSUME ImportTypes, NEW t \in Passes, NEW p \in Lanes, Goto(t, p)
    PROVE  /\ lane' \in [Passes -> [w : Works \cup {Void}, at : Lanes, del : BOOLEAN]]
           /\ lane'[t].at = p /\ lane'[t].w = lane[t].w /\ lane'[t].del = lane[t].del
           /\ \A u \in Passes \ {t} : lane'[u] = lane[u] BY DEF ImportTypes, Goto

LEMMA LeaveIs ==
    ASSUME ImportTypes, NEW t \in Passes, Leave(t)
    PROVE  /\ lane' \in [Passes -> [w : Works \cup {Void}, at : Lanes, del : BOOLEAN]]
           /\ lane'[t].at = Void /\ \A u \in Passes \ {t} : lane'[u] = lane[u] BY DEF ImportTypes, Leave, Free, Lanes

LEMMA PutRecordIs ==
    ASSUME ImportTypes, NEW w \in Works, NEW r \in Receipt, PutRecord(w, r)
    PROVE  rec' \in [Works -> Receipt] /\ rec'[w] = r /\ \A v \in Works \ {w} : rec'[v] = rec[v]
BY DEF ImportTypes, PutRecord

LEMMA JournalIs ==
    ASSUME ImportTypes, NEW w \in Works, NEW r \in Journal, jr' = [jr EXCEPT ![w] = r]
    PROVE  jr' \in [Works -> Journal] /\ jr'[w] = r /\ \A v \in Works \ {w} : jr'[v] = jr[v] BY DEF ImportTypes

LEMMA BackendIs ==
    ASSUME ImportTypes, NEW w \in Works, NEW r \in Backend, bk' = [bk EXCEPT ![w] = r]
    PROVE  bk' \in [Works -> Backend] /\ bk'[w] = r /\ \A v \in Works \ {w} : bk'[v] = bk[v] BY DEF ImportTypes

\* A pass leaves its lane, whatever became of its work.
LEMMA FreeLane ==
    ASSUME NEW t \in Passes, lane'[t].at = Void
    PROVE  LaneInv(t)' BY DEF LaneInv, InLane, Early, Void

\* The work is left alone.
LEMMA LaneOnlyStep ==
    ASSUME ImportsInv, NEW t \in Passes, NEW w \in Works, HasLane(t, w), LaneInv(t)',
           lane' \in [Passes -> [w : Works \cup {Void}, at : Lanes, del : BOOLEAN]],
           \A u \in Passes \ {t} : lane'[u] = lane[u], lane'[t].at # Void => lane'[t].w = w,
           need' \in BOOLEAN, UNCHANGED <<dlv, claim, jr, rec, ticket, auth, recon, bk>>
    PROVE  ImportsInv'
<1>1. WorkInv(w)' BY SameWork DEF ImportsInv
<1>2. ImportTypes' /\ InLaneOnly(t, w) BY DEF ImportsInv, ImportTypes, InLaneOnly
<1> QED BY <1>1, <1>2, LaneStep

LEMMA InLaneIs ==
    ASSUME ImportsInv, NEW t \in Passes, InLane(t)
    PROVE  /\ W(t) \in Works /\ HasLane(t, W(t)) /\ LaneInv(t) /\ WorkInv(W(t)) /\ ImportTypes
           /\ W(t) \notin recon.works /\ (t = "run" \/ ~lane[t].del)
BY DEF ImportsInv, LaneInv, InLane, HasLane, ImportTypes

LEMMA HavePublicationStep ==
    ASSUME ImportsInv, HavePublication
    PROVE  ImportsInv'
<1> DEFINE t == "run"
<1>1. t \in Passes /\ lane[t].at = "publication" BY DEF HavePublication, PassAt, Passes
<1>2. InLane(t) /\ Goto(t, "admission") /\ UNCHANGED <<dlv, claim, jr, rec, ticket, auth, recon,
                                                       need, bk>> BY <1>1 DEF HavePublication, InLane, Void
<1> HIDE DEF t
<1>3. W(t) \in Works /\ HasLane(t, W(t)) /\ LaneInv(t) /\ ImportTypes BY <1>1, <1>2, InLaneIs
<1>4. /\ lane' \in [Passes -> [w : Works \cup {Void}, at : Lanes, del : BOOLEAN]]
      /\ lane'[t].at = "admission" /\ lane'[t].w = lane[t].w /\ lane'[t].del = lane[t].del
      /\ \A u \in Passes \ {t} : lane'[u] = lane[u] BY <1>1, <1>2, <1>3, GotoIs DEF Lanes
<1>5. LaneInv(t)' BY <1>1, <1>2, <1>3, <1>4 DEF LaneInv, InLane, W, Early, RecordStands, Void
<1> QED BY <1>1, <1>2, <1>3, <1>4, <1>5, LaneOnlyStep DEF W, ImportTypes

\* A pass goes to another place in its lane, or gives it back.
LEMMA HaveProcessingStep ==
    ASSUME ImportsInv, NEW t \in Passes, HaveProcessing(t)
    PROVE  ImportsInv'
<1>1. lane[t].at = "processing" BY DEF HaveProcessing, PassAt
<1>2. InLane(t) /\ Goto(t, "admission") /\ UNCHANGED <<dlv, claim, jr, rec, ticket, auth, recon,
                                                       need, bk>> BY <1>1 DEF HaveProcessing, InLane, Void
<1>3. W(t) \in Works /\ HasLane(t, W(t)) /\ LaneInv(t) /\ ImportTypes BY <1>2, InLaneIs
<1>4. /\ lane' \in [Passes -> [w : Works \cup {Void}, at : Lanes, del : BOOLEAN]]
      /\ lane'[t].at = "admission" /\ lane'[t].w = lane[t].w /\ lane'[t].del = lane[t].del
      /\ \A u \in Passes \ {t} : lane'[u] = lane[u] BY <1>2, <1>3, GotoIs DEF Lanes
<1>5. LaneInv(t)' BY <1>1, <1>2, <1>3, <1>4 DEF LaneInv, InLane, W, Early, RecordStands, Void
<1> QED BY <1>2, <1>3, <1>4, <1>5, LaneOnlyStep DEF W, ImportTypes

LEMMA DeliveryWaitsStep ==
    ASSUME ImportsInv, DeliveryWaits
    PROVE  ImportsInv'
<1>1. "run" \in Passes /\ InLane("run") /\ Leave("run") BY DEF DeliveryWaits, Passes, InLane, Void
<1>2. UNCHANGED <<dlv, claim, jr, rec, ticket, auth, recon, need, bk>> BY DEF DeliveryWaits
<1>3. W("run") \in Works /\ HasLane("run", W("run")) /\ ImportTypes BY <1>1, InLaneIs
<1>4. /\ lane' \in [Passes -> [w : Works \cup {Void}, at : Lanes, del : BOOLEAN]]
      /\ lane'["run"].at = Void /\ \A u \in Passes \ {"run"} : lane'[u] = lane[u] BY <1>1, <1>3, LeaveIs
<1> QED BY <1>1, <1>2, <1>3, <1>4, FreeLane, LaneOnlyStep DEF ImportTypes

LEMMA AckExpiredStep ==
    ASSUME ImportsInv, NEW t \in Passes, AckExpired(t)
    PROVE  ImportsInv'
<1>1. lane[t].at = "ack" /\ InLane(t) /\ Goto(t, "confirm") BY DEF AckExpired, PassAt, InLane, Void
<1>2. UNCHANGED <<dlv, claim, jr, rec, ticket, auth, recon, bk>> /\ need' = TRUE BY DEF AckExpired
<1>3. W(t) \in Works /\ HasLane(t, W(t)) /\ LaneInv(t) /\ ImportTypes BY <1>1, InLaneIs
<1>4. /\ lane' \in [Passes -> [w : Works \cup {Void}, at : Lanes, del : BOOLEAN]]
      /\ lane'[t].at = "confirm" /\ lane'[t].w = lane[t].w /\ lane'[t].del = lane[t].del
      /\ \A u \in Passes \ {t} : lane'[u] = lane[u] BY <1>1, <1>3, GotoIs DEF Lanes
<1>5. LaneInv(t)' BY <1>1, <1>2, <1>3, <1>4 DEF LaneInv, InLane, W, Early, Void
<1> QED BY <1>1, <1>2, <1>3, <1>4, <1>5, LaneOnlyStep DEF W

LEMMA RetryReceiptStep ==
    ASSUME ImportsInv, NEW t \in Passes, NEW w \in Works, RetryReceipt(t, w)
    PROVE  ImportsInv'
<1> DEFINE p == IF rec[w].proc = "awaiting" THEN "admission" ELSE "observe"
<1>1. ImportTypes /\ HasLane(t, w) /\ RecordStands(w) /\ w \notin recon.works /\ (t = "report" => rec[w].proc = "ticket")
  BY DEF ImportsInv, RetryReceipt, HasLane, LaneFree
<1>2. lane' = [lane EXCEPT ![t] = [w |-> w, at |-> p, del |-> FALSE]]
      /\ UNCHANGED <<dlv, claim, jr, rec, ticket, auth, recon, need, bk>> BY DEF RetryReceipt
<1>3. p \in Lanes /\ p \in {"admission", "observe"} /\ (p = "admission" => rec[w].proc = "awaiting") BY DEF Lanes
<1> HIDE DEF p
<1>4. /\ lane' \in [Passes -> [w : Works \cup {Void}, at : Lanes, del : BOOLEAN]]
      /\ lane'[t].at = p /\ lane'[t].w = w /\ lane'[t].del = FALSE
      /\ \A u \in Passes \ {t} : lane'[u] = lane[u] BY <1>1, <1>2, <1>3 DEF ImportTypes
<1>5. p = "admission" => t = "run" BY <1>1, <1>3 DEF Passes
<1>6. LaneInv(t)' BY <1>1, <1>2, <1>3, <1>4, <1>5 DEF LaneInv, InLane, W, Early, Void, RecordStands
<1> QED BY <1>1, <1>2, <1>4, <1>6, LaneOnlyStep DEF ImportTypes

LEMMA AfterReconcileStep ==
    ASSUME ImportsInv, NEW t \in Passes, AfterReconcile(t)
    PROVE  ImportsInv'
<1>1. ImportTypes /\ LaneInv(t) /\ lane[t].at = "confirm" /\ W(t) \in Works /\ HasLane(t, W(t)) /\ W(t) \notin recon.works
  BY DEF ImportsInv, AfterReconcile, PassAt, HasLane, LaneInv, LaneFree, Void
<1>2. UNCHANGED <<dlv, claim, jr, rec, ticket, auth, recon, need, bk>> BY DEF AfterReconcile
<1>3. CASE RecordStands(W(t)) /\ Goto(t, "settle")
 <2>1. /\ lane' \in [Passes -> [w : Works \cup {Void}, at : Lanes, del : BOOLEAN]]
       /\ lane'[t].at = "settle" /\ lane'[t].w = lane[t].w /\ lane'[t].del = lane[t].del
       /\ \A u \in Passes \ {t} : lane'[u] = lane[u] BY <1>1, <1>3, GotoIs DEF Lanes
 <2>2. LaneInv(t)' BY <1>1, <1>2, <1>3, <2>1 DEF LaneInv, InLane, W, Early, RecordStands, Void
 <2> QED BY <1>1, <1>2, <2>1, <2>2, LaneOnlyStep DEF W, ImportTypes
<1>4. CASE Leave(t) BY <1>1, <1>2, <1>4, LeaveIs, FreeLane, LaneOnlyStep DEF ImportTypes
<1> QED BY <1>3, <1>4 DEF AfterReconcile

LEMMA DeliverStep ==
    ASSUME ImportsInv, NEW w \in Works, Deliver(w)
    PROVE  ImportsInv'
<1>1. /\ ImportTypes /\ "run" \in Passes /\ HasLane("run", w) /\ w \notin recon.works /\ WorkInv(w)
      /\ lane["run"].at = Void /\ dlv[w] = "pending" /\ UNCHANGED <<claim, jr, ticket, recon, bk>>
  BY DEF ImportsInv, Deliver, HasLane, LaneFree, Passes
<1>2. ASSUME NEW p \in {"confirm", "ack", "stage"}, lane' = [lane EXCEPT !["run"] = [w |-> w, at |-> p, del |-> TRUE]],
             need' \in BOOLEAN, UNCHANGED <<rec, auth,
                                            dlv>>, p = "stage" => ~rec[w].on, p # "stage" => RecordStands(w)
      PROVE  ImportsInv'
 <2>1. /\ lane' \in [Passes -> [w : Works \cup {Void}, at : Lanes, del : BOOLEAN]]
       /\ lane'["run"].at = p /\ lane'["run"].w = w /\ lane'["run"].del = TRUE
       /\ \A u \in Passes \ {"run"} : lane'[u] = lane[u] BY <1>1, <1>2 DEF ImportTypes, Lanes
 <2>2. LaneInv("run")' BY <1>1, <1>2, <2>1 DEF LaneInv, InLane, W, Early, Void, RecordStands
 <2> QED BY <1>1, <1>2, <2>1, <2>2, LaneOnlyStep
<1>3. CASE claim[w].kind = "wait-owner"
 <2>1. /\ rec' = IF rec[w].on THEN [rec EXCEPT ![w].owner = TRUE] ELSE rec
       /\ auth' = IF rec[w].on THEN auth \ {w} ELSE auth
       /\ dlv' = [dlv EXCEPT ![w] = "wait-owner"]
       /\ UNCHANGED <<lane, need>> BY <1>3 DEF Deliver
 <2>2. /\ rec' \in [Works -> Receipt] /\ \A v \in Works \ {w} : rec'[v] = rec[v]
       /\ rec'[w].on = rec[w].on /\ rec'[w].proc = rec[w].proc /\ rec'[w].acked = rec[w].acked /\ rec'[w].rev = rec[w].rev
       /\ rec'[w].pubDone = rec[w].pubDone /\ rec'[w].procDone = rec[w].procDone /\ rec'[w].seen = rec[w].seen
       /\ rec'[w].link = rec[w].link /\ rec'[w].hold = rec[w].hold
  <3>1. CASE rec[w].on
   <4> DEFINE r == [rec[w] EXCEPT !.owner = TRUE]
   <4>1. rec[w] \in Receipt /\ PutRecord(w, r) BY <1>1, <2>1, <3>1 DEF ImportTypes, PutRecord
   <4>2. /\ r \in Receipt /\ r.on = rec[w].on /\ r.proc = rec[w].proc /\ r.acked = rec[w].acked
         /\ r.rev = rec[w].rev /\ r.pubDone = rec[w].pubDone /\ r.procDone = rec[w].procDone
         /\ r.seen = rec[w].seen /\ r.link = rec[w].link /\ r.hold = rec[w].hold BY <4>1 DEF Receipt
   <4> HIDE DEF r
   <4> QED BY <1>1, <4>1, <4>2, PutRecordIs
  <3>2. CASE ~rec[w].on BY <1>1, <2>1, <3>2 DEF ImportTypes
  <3> QED BY <3>1, <3>2
 <2>3. /\ dlv' \in [Works -> {Void, "pending", "superseded", "wait-owner", "failure-reporting", "failed", "delivered"}]
       /\ dlv'[w] = "wait-owner" /\ \A v \in Works \ {w} : dlv'[v] = dlv[v] BY <1>1, <2>1 DEF ImportTypes
 <2>4. auth' \subseteq auth /\ w \notin auth' /\ \A v \in Works \ {w} : (v \in auth') = (v \in auth)
   BY <1>1, <2>1 DEF WorkInv, RecordStands
 <2>5. WorkInv(w)' BY <1>1, <2>2, <2>3, <2>4 DEF WorkInv, Permitted, Recorded, Released, Refused
 <2>6. ImportTypes' /\ InLaneOnly("run", w) BY <1>1, <2>1, <2>2, <2>3, <2>4 DEF ImportTypes, InLaneOnly
 <2> QED BY <1>1, <2>1, <2>5, <2>6, FreeLane, LaneStep
<1>4. CASE claim[w].kind # "wait-owner"
 <2>1. UNCHANGED <<rec, auth, dlv>> /\ need \in BOOLEAN BY <1>1, <1>4 DEF Deliver, ImportTypes
 <2>2. CASE rec[w].on
  <3>1. RecordStands(w) BY <1>4, <2>2 DEF Deliver
  <3>2. \E p \in {"confirm", "ack"} : lane' = [lane EXCEPT !["run"] = [w |-> w, at |-> p, del |-> TRUE]] /\ need' \in BOOLEAN
    BY <1>4, <2>1, <2>2 DEF Deliver
  <3> QED BY <1>2, <2>1, <3>1, <3>2
 <2>3. CASE ~rec[w].on
  <3>1. lane' = [lane EXCEPT !["run"] = [w |-> w, at |-> "stage", del |-> TRUE]] /\ need' = need
    BY <1>4, <2>3 DEF Deliver
  <3> QED BY <1>2, <2>1, <2>3, <3>1
 <2> QED BY <2>2, <2>3
<1> QED BY <1>3, <1>4

\* A field of the journal is written.
LEMMA StageImportStep ==
    ASSUME ImportsInv, StageImport
    PROVE  ImportsInv'
<1>1. "run" \in Passes /\ lane["run"].at = "stage" /\ InLane("run") /\ Goto("run", "publication")
  BY DEF StageImport, PassAt, Passes, InLane, Void
<1>2. PICK w \in Works : w = W("run") /\ HasLane("run", w) /\ LaneInv("run") /\ WorkInv(w) /\ ImportTypes
  BY <1>1, InLaneIs
<1> DEFINE s == IF jr[w].st = Void THEN "staged" ELSE jr[w].st
           a == jr[w].pub \/ (claim[w].kind = "reconcile" /\ bk[w].pub = "granted")
           b == jr[w].proc \/ (claim[w].kind = "reconcile" /\ bk[w].proc = "granted")
<1>3. /\ UNCHANGED <<dlv, claim, rec, ticket, auth, recon, need, bk>> /\ jr[w].st # "indeterminate"
      /\ jr' = [jr EXCEPT ![w].st = IF @ = Void THEN "staged" ELSE @,
                          ![w].pub = @ \/ (claim[w].kind = "reconcile" /\ bk[w].pub = "granted"),
                          ![w].proc = @ \/ (claim[w].kind = "reconcile" /\ bk[w].proc = "granted")]
  BY <1>2 DEF StageImport
<1>4. jr[w] \in Journal /\ jr' = [jr EXCEPT ![w] = [jr[w] EXCEPT !.st = s, !.pub = a, !.proc = b]]
  BY <1>3, <1>2 DEF ImportTypes, Journal
<1>5. /\ s \in {"staged", "committed", "failed"} /\ a \in BOOLEAN /\ b \in BOOLEAN /\ (b => jr[w].proc \/ bk[w].proc # Void)
      /\ jr[w].proc => b BY <1>3, <1>4 DEF Journal, Void
<1> HIDE DEF s, a, b
<1>6. /\ jr' \in [Works -> Journal] /\ \A v \in Works \ {w} : jr'[v] = jr[v]
      /\ jr'[w].st = s /\ jr'[w].proc = b /\ jr'[w].adm = jr[w].adm /\ jr'[w].procAsked = jr[w].procAsked
  BY <1>2, <1>4, <1>5 DEF ImportTypes, Journal
<1>7. /\ lane' \in [Passes -> [w : Works \cup {Void}, at : Lanes, del : BOOLEAN]]
      /\ lane'["run"].at = "publication" /\ lane'["run"].w = lane["run"].w /\ lane'["run"].del = lane["run"].del
      /\ \A u \in Passes \ {"run"} : lane'[u] = lane[u] BY <1>1, <1>2, GotoIs DEF Lanes
<1>8. lane["run"].del /\ ~rec[w].on /\ dlv[w] = "pending" /\ w \notin auth
  BY <1>1, <1>2 DEF LaneInv, WorkInv, RecordStands, Early, InLane
<1>9. WorkInv(w)' BY <1>3, <1>2, <1>5, <1>6, <1>8 DEF WorkInv, Permitted, Recorded, Released, Refused
<1>10. LaneInv("run")' BY <1>1, <1>3, <1>2, <1>6, <1>7, <1>8 DEF LaneInv, InLane, W, Early, Void
<1>11. ImportTypes' /\ InLaneOnly("run", w) BY <1>3, <1>2, <1>6, <1>7 DEF ImportTypes, InLaneOnly, W
<1> QED BY <1>1, <1>2, <1>9, <1>10, <1>11, LaneStep

LEMMA AskPublicationStep ==
    ASSUME ImportsInv, Ask("run", "publication")
    PROVE  ImportsInv'
<1>1. "run" \in Passes /\ lane["run"].at = "publication" /\ InLane("run") BY DEF Ask, PassAt, Passes, InLane, Void
<1>2. PICK w \in Works : w = W("run") /\ HasLane("run", w) /\ LaneInv("run") /\ WorkInv(w) /\ ImportTypes
  BY <1>1, InLaneIs
<1> DEFINE p == IF bk[w].pub = Void THEN "granted" ELSE bk[w].pub
<1>3. /\ UNCHANGED <<dlv, claim, rec, ticket, auth, recon, need>>
      /\ bk' = [bk EXCEPT ![w].pub = IF @ = Void THEN "granted" ELSE @]
      /\ \/ UNCHANGED lane /\ jr' = [jr EXCEPT ![w].pubAsked = TRUE, ![w].pub = TRUE]
         \/ Leave("run") /\ jr' = [jr EXCEPT ![w].pubAsked = TRUE] BY <1>2 DEF Ask
<1>4. bk[w] \in Backend /\ bk' = [bk EXCEPT ![w] = [bk[w] EXCEPT !.pub = p]] /\ p \in {Void, "granted", "completed"}
  BY <1>3, <1>2 DEF ImportTypes, Backend
<1> HIDE DEF p
<1>5. /\ bk' \in [Works -> Backend] /\ \A v \in Works \ {w} : bk'[v] = bk[v]
      /\ bk'[w].pub = p /\ bk'[w].proc = bk[w].proc /\ bk'[w].rev = bk[w].rev /\ bk'[w].failed = bk[w].failed
  BY <1>2, <1>4 DEF ImportTypes, Backend
<1>6. /\ jr' \in [Works -> Journal] /\ \A v \in Works \ {w} : jr'[v] = jr[v]
      /\ jr'[w].st = jr[w].st /\ jr'[w].proc = jr[w].proc /\ jr'[w].adm = jr[w].adm /\ jr'[w].procAsked = jr[w].procAsked
 <2>1. PICK d \in BOOLEAN : jr' = [jr EXCEPT ![w] = [jr[w] EXCEPT !.pubAsked = TRUE, !.pub = d]]
  <3>1. jr[w] \in Journal BY <1>2 DEF ImportTypes
  <3> DEFINE j == [jr[w] EXCEPT !.pubAsked = TRUE]
  <3>2. j \in Journal /\ j.pub = jr[w].pub BY <3>1 DEF Journal
  <3> HIDE DEF j
  <3>3. [j EXCEPT !.pub = jr[w].pub] = j /\ jr[w].pub \in BOOLEAN BY <3>1, <3>2 DEF Journal
  <3>4. CASE jr' = [jr EXCEPT ![w].pubAsked = TRUE] BY <3>3, <3>4 DEF j
  <3> QED BY <1>3, <3>4
 <2> DEFINE r == [jr[w] EXCEPT !.pubAsked = TRUE, !.pub = d]
 <2>2. jr[w] \in Journal BY <1>2 DEF ImportTypes
 <2>3. /\ r \in Journal /\ r.st = jr[w].st /\ r.proc = jr[w].proc /\ r.adm = jr[w].adm
       /\ r.procAsked = jr[w].procAsked BY <2>2 DEF Journal
 <2> HIDE DEF r
 <2> QED BY <1>2, <2>1, <2>3, JournalIs DEF r
<1>7. lane["run"].del /\ ~rec[w].on /\ dlv[w] = "pending" /\ w \notin auth
  BY <1>1, <1>2 DEF LaneInv, WorkInv, RecordStands, Early, InLane
<1>8. WorkInv(w)' BY <1>3, <1>2, <1>5, <1>6, <1>7 DEF WorkInv, Permitted, Recorded, Released, Refused
<1>9. \/ UNCHANGED lane
      \/ /\ lane' \in [Passes -> [w : Works \cup {Void}, at : Lanes, del : BOOLEAN]]
         /\ lane'["run"].at = Void /\ \A u \in Passes \ {"run"} : lane'[u] = lane[u] BY <1>1, <1>3, <1>2, LeaveIs
<1>10. LaneInv("run")'
 <2>1. CASE UNCHANGED lane BY <1>1, <1>3, <1>2, <1>6, <1>7, <2>1 DEF LaneInv, InLane, W, Early, Void
 <2>2. CASE lane'["run"].at = Void BY <1>1, <2>2, FreeLane
 <2> QED BY <1>9, <2>1, <2>2
<1>11. ImportTypes' /\ InLaneOnly("run", w) BY <1>3, <1>2, <1>5, <1>6, <1>9 DEF ImportTypes, InLaneOnly, W
<1> QED BY <1>1, <1>2, <1>8, <1>10, <1>11, LaneStep

LEMMA AskProcessingStep ==
    ASSUME ImportsInv, Ask("run", "processing")
    PROVE  ImportsInv'
<1>1. "run" \in Passes /\ lane["run"].at = "processing" /\ InLane("run") BY DEF Ask, PassAt, Passes, InLane, Void
<1>2. PICK w \in Works : w = W("run") /\ HasLane("run", w) /\ LaneInv("run") /\ WorkInv(w) /\ ImportTypes
  BY <1>1, InLaneIs
<1> DEFINE p == IF bk[w].proc = Void THEN "granted" ELSE bk[w].proc
<1>3. /\ UNCHANGED <<dlv, claim, rec, ticket, auth, recon, need>>
      /\ bk' = [bk EXCEPT ![w].proc = IF @ = Void THEN "granted" ELSE @]
      /\ \/ UNCHANGED lane /\ jr' = [jr EXCEPT ![w].procAsked = TRUE, ![w].proc = TRUE]
         \/ Leave("run") /\ jr' = [jr EXCEPT ![w].procAsked = TRUE] BY <1>2 DEF Ask
<1>4. bk[w] \in Backend /\ bk' = [bk EXCEPT ![w] = [bk[w] EXCEPT !.proc = p]] /\ p \in {"granted", "settled"}
      /\ (bk[w].proc = "settled" => p = "settled") BY <1>3, <1>2 DEF ImportTypes, Backend, Void
<1> HIDE DEF p
<1>5. /\ bk' \in [Works -> Backend] /\ \A v \in Works \ {w} : bk'[v] = bk[v]
      /\ bk'[w].pub = bk[w].pub /\ bk'[w].proc = p /\ bk'[w].rev = bk[w].rev /\ bk'[w].failed = bk[w].failed
  BY <1>2, <1>4 DEF ImportTypes, Backend
<1>6. /\ jr' \in [Works -> Journal] /\ \A v \in Works \ {w} : jr'[v] = jr[v]
      /\ jr'[w].st = jr[w].st /\ (jr[w].proc => jr'[w].proc) /\ jr'[w].adm = jr[w].adm /\ jr'[w].procAsked = TRUE
      /\ jr'[w].eff = jr[w].eff
 <2>1. PICK d \in BOOLEAN : (jr[w].proc => d) /\ jr' = [jr EXCEPT ![w] = [jr[w] EXCEPT !.procAsked = TRUE, !.proc = d]]
  <3>1. jr[w] \in Journal BY <1>2 DEF ImportTypes
  <3> DEFINE j == [jr[w] EXCEPT !.procAsked = TRUE]
  <3>2. j \in Journal /\ j.proc = jr[w].proc BY <3>1 DEF Journal
  <3> HIDE DEF j
  <3>3. [j EXCEPT !.proc = jr[w].proc] = j /\ jr[w].proc \in BOOLEAN BY <3>1, <3>2 DEF Journal
  <3>4. CASE jr' = [jr EXCEPT ![w].procAsked = TRUE] BY <3>3, <3>4 DEF j
  <3> QED BY <1>3, <3>4
 <2> DEFINE r == [jr[w] EXCEPT !.procAsked = TRUE, !.proc = d]
 <2>2. jr[w] \in Journal BY <1>2 DEF ImportTypes
 <2>3. /\ r \in Journal /\ r.st = jr[w].st /\ (jr[w].proc => r.proc) /\ r.adm = jr[w].adm
       /\ r.procAsked = TRUE /\ r.eff = jr[w].eff BY <2>1, <2>2 DEF Journal
 <2> HIDE DEF r
 <2> QED BY <1>2, <2>1, <2>3, JournalIs DEF r
<1>7. jr[w].adm \in {Void, "awaiting"} /\ (rec[w].on => rec[w].proc = "awaiting" /\ rec[w].hold)
 <2>1. jr[w].adm \in {Void, "awaiting"} /\ (~rec[w].on \/ rec[w].proc = "awaiting") BY <1>1, <1>2 DEF LaneInv, Early
 <2>2. rec[w].on /\ rec[w].proc = "awaiting" => rec[w].hold BY <1>2 DEF WorkInv, Released, ImportTypes, Receipt
 <2> QED BY <2>1, <2>2
<1>8. Permitted(w)' BY <1>2, <1>3, <1>6, <1>7 DEF WorkInv, Permitted, Void
<1>9. Recorded(w)' /\ Released(w)' /\ Refused(w)' /\ (w \in auth => RecordStands(w))'
  BY <1>3, <1>2, <1>4, <1>5, <1>6, <1>7 DEF WorkInv, Recorded, Released, Refused, RecordStands
<1>10. WorkInv(w)' BY <1>8, <1>9 DEF WorkInv
<1>11. \/ UNCHANGED lane
       \/ /\ lane' \in [Passes -> [w : Works \cup {Void}, at : Lanes, del : BOOLEAN]]
          /\ lane'["run"].at = Void /\ \A u \in Passes \ {"run"} : lane'[u] = lane[u] BY <1>1, <1>3, <1>2, LeaveIs
<1>12. LaneInv("run")'
 <2>1. CASE UNCHANGED lane BY <1>1, <1>3, <1>2, <1>6, <2>1 DEF LaneInv, InLane, W, Early, RecordStands, Void
 <2>2. CASE lane'["run"].at = Void BY <1>1, <2>2, FreeLane
 <2> QED BY <1>11, <2>1, <2>2
<1>13. ImportTypes' /\ InLaneOnly("run", w) BY <1>3, <1>2, <1>5, <1>6, <1>11 DEF ImportTypes, InLaneOnly, W
<1> QED BY <1>1, <1>2, <1>10, <1>12, <1>13, LaneStep

LEMMA AdmitStep ==
    ASSUME ImportsInv, NEW t \in Passes, Admit(t)
    PROVE  ImportsInv'
<1>1. lane[t].at = "admission" /\ InLane(t) /\ UNCHANGED <<dlv, claim, rec, ticket, auth, recon,
                                                           need, bk>> BY DEF Admit, PassAt, InLane, Void
<1>2. PICK w \in Works : w = W(t) /\ HasLane(t, w) /\ LaneInv(t) /\ WorkInv(w) /\ ImportTypes BY <1>1, InLaneIs
<1>3. PICK q \in {"publish", "processing"} : Goto(t, q) BY DEF Admit
<1>4. /\ lane' \in [Passes -> [w : Works \cup {Void}, at : Lanes, del : BOOLEAN]]
      /\ lane'[t].at = q /\ lane'[t].w = lane[t].w /\ lane'[t].del = lane[t].del
      /\ \A u \in Passes \ {t} : lane'[u] = lane[u] BY <1>2, <1>3, GotoIs DEF Lanes
<1>5. PICK d \in {Void, "skipped", "awaiting", "ticket"} : jr' = [jr EXCEPT ![w].adm = d]
 <2>1. UNCHANGED jr => jr' = [jr EXCEPT ![w].adm = jr[w].adm] /\ jr[w].adm \in {Void, "skipped", "awaiting", "ticket"}
   BY <1>2 DEF ImportTypes, Journal
 <2>2. UNCHANGED jr \/ \E d \in {"skipped", "awaiting", "ticket"} : jr' = [jr EXCEPT ![w].adm = d] BY <1>2 DEF Admit
 <2> QED BY <2>1, <2>2
<1>6. /\ jr' \in [Works -> Journal] /\ (\A v \in Works \ {w} : jr'[v] = jr[v]) /\ jr'[w].adm = d
      /\ jr'[w].st = jr[w].st /\ jr'[w].proc = jr[w].proc /\ jr'[w].procAsked = jr[w].procAsked
      /\ jr'[w].eff = jr[w].eff
 <2> DEFINE r == [jr[w] EXCEPT !.adm = d]
 <2>1. jr[w] \in Journal BY <1>2 DEF ImportTypes
 <2>2. /\ r \in Journal /\ r.adm = d /\ r.st = jr[w].st /\ r.proc = jr[w].proc
       /\ r.procAsked = jr[w].procAsked /\ r.eff = jr[w].eff BY <2>1 DEF Journal
 <2>3. jr' = [jr EXCEPT ![w] = r] BY <1>5
 <2> HIDE DEF r
 <2> QED BY <1>2, <2>2, <2>3, JournalIs
<1>7. \/ jr[w].adm \in {"skipped", "ticket"} /\ d = jr[w].adm /\ q = "publish"
      \/ /\ jr[w].adm \in {Void, "awaiting"} /\ ~jr[w].proc /\ (jr[w].procAsked => bk[w].proc = Void)
         /\ d \in {"skipped", "awaiting"} /\ q = "publish"
      \/ jr[w].adm \in {Void, "awaiting"} /\ d = jr[w].adm /\ q = "processing"
      \/ jr[w].adm \in {Void, "awaiting"} /\ jr[w].proc /\ d \in {"ticket", "skipped"} /\ q = "publish"
 <2>1. UNCHANGED jr => d = jr[w].adm BY <1>2, <1>6
 <2>2. \A x \in {"publish", "processing"} : Goto(t, x) => x = q
  <3>1. ASSUME NEW x \in {"publish", "processing"}, Goto(t, x)
        PROVE  x = q
   <4>1. lane'[t].at = x BY <1>2, <3>1, GotoIs DEF Lanes
   <4> QED BY <1>4, <4>1
  <3> QED BY <3>1
 <2>3. \A x \in {"skipped", "awaiting", "ticket"} : jr' = [jr EXCEPT ![w].adm = x] => x = d
   BY <1>2, <1>6 DEF ImportTypes, Journal
 <2>4. /\ jr[w].adm = "awaiting" => jr[w].adm # Void
       /\ \A x : x \in {"ticket"} \cup (IF jr[w].adm = Void THEN {"skipped"} ELSE {}) => x \in {"ticket", "skipped"}
   BY DEF Void
 <2>5. \/ jr[w].adm \in {"skipped", "ticket"} /\ UNCHANGED jr /\ Goto(t, "publish")
       \/ /\ jr[w].adm \in {Void, "awaiting"} /\ ~jr[w].proc /\ (jr[w].procAsked => bk[w].proc = Void)
          /\ \/ \E x \in {"skipped", "awaiting"} : jr' = [jr EXCEPT ![w].adm = x]
             \/ jr[w].adm = "awaiting" /\ UNCHANGED jr
          /\ Goto(t, "publish")
       \/ jr[w].adm \in {Void, "awaiting"} /\ UNCHANGED jr /\ Goto(t, "processing")
       \/ /\ jr[w].adm \in {Void, "awaiting"} /\ jr[w].proc /\ Goto(t, "publish")
          /\ \E x \in {"ticket", "skipped"} : jr' = [jr EXCEPT ![w].adm = x] BY <1>2, <2>4 DEF Admit
 <2>6. CASE jr[w].adm \in {"skipped", "ticket"} /\ UNCHANGED jr /\ Goto(t, "publish") BY <2>1, <2>2, <2>6
 <2>7. CASE /\ jr[w].adm \in {Void, "awaiting"} /\ ~jr[w].proc /\ (jr[w].procAsked => bk[w].proc = Void)
            /\ \/ \E x \in {"skipped", "awaiting"} : jr' = [jr EXCEPT ![w].adm = x]
               \/ jr[w].adm = "awaiting" /\ UNCHANGED jr
            /\ Goto(t, "publish")
  <3>1. q = "publish" /\ d \in {"skipped", "awaiting"} BY <2>1, <2>2, <2>3, <2>7
  <3> QED BY <2>7, <3>1
 <2>8. CASE jr[w].adm \in {Void, "awaiting"} /\ UNCHANGED jr /\ Goto(t, "processing") BY <2>1, <2>2, <2>8
 <2>9. CASE /\ jr[w].adm \in {Void, "awaiting"} /\ jr[w].proc /\ Goto(t, "publish")
            /\ \E x \in {"ticket", "skipped"} : jr' = [jr EXCEPT ![w].adm = x]
  <3>1. q = "publish" /\ d \in {"skipped", "ticket"} BY <2>2, <2>3, <2>9
  <3> QED BY <2>9, <3>1
 <2> QED BY <2>5, <2>6, <2>7, <2>8, <2>9
<1>8. rec[w].on => rec[w].proc = "awaiting" BY <1>1, <1>2 DEF LaneInv, Early
<1>9. Permitted(w)' BY <1>1, <1>2, <1>6, <1>7 DEF WorkInv, Permitted, Void
<1>10. Recorded(w)' /\ Released(w)' /\ Refused(w)' /\ (w \in auth => RecordStands(w))'
  BY <1>1, <1>2, <1>6, <1>8 DEF WorkInv, Recorded, Released, Refused, RecordStands
<1>11. LaneInv(t)' BY <1>1, <1>2, <1>4, <1>6, <1>7 DEF LaneInv, InLane, W, Early, RecordStands, Void
<1>12. ImportTypes' /\ InLaneOnly(t, w) /\ WorkInv(w)'
  BY <1>1, <1>2, <1>4, <1>6, <1>9, <1>10 DEF ImportTypes, InLaneOnly, W, WorkInv
<1> QED BY <1>2, <1>11, <1>12, LaneStep

\* The publication, and its failures.
LEMMA PublishStep ==
    ASSUME ImportsInv, Publish
    PROVE  ImportsInv'
<1>1. "run" \in Passes /\ lane["run"].at = "publish" /\ lane["run"].del /\ InLane("run") /\ Goto("run", "ack")
  BY DEF Publish, PassAt, Passes, InLane, Void
<1>2. PICK w \in Works : w = W("run") /\ HasLane("run", w) /\ LaneInv("run") /\ WorkInv(w) /\ ImportTypes
  BY <1>1, InLaneIs
<1> DEFINE r == FirstRevision(w)
           q == IF jr[w].adm = "ticket" THEN "queued" ELSE ticket[w]
<1>3. /\ UNCHANGED <<dlv, claim, recon, need,
                     bk>> /\ PutRecord(w, r)
      /\ ticket' = [ticket EXCEPT ![w] = q]
      /\ auth' = IF jr[w].adm = "ticket" THEN auth \cup {w} ELSE auth BY <1>2 DEF Publish
<1> HIDE DEF r, q
<1>16. PICK e \in BOOLEAN : jr' = [jr EXCEPT ![w].st = "committed", ![w].eff = e] BY <1>2 DEF Publish
<1>4. jr[w] \in Journal /\ jr[w].adm # Void /\ ~rec[w].on /\ dlv[w] = "pending" /\ w \notin recon.works
  BY <1>1, <1>2, InLaneIs DEF LaneInv, ImportTypes, Early, Void
<1>5. /\ jr' \in [Works -> Journal] /\ \A v \in Works \ {w} : jr'[v] = jr[v]
      /\ jr'[w].st = "committed" /\ jr'[w].proc = jr[w].proc /\ jr'[w].adm = jr[w].adm /\ jr'[w].procAsked = jr[w].procAsked
 <2> DEFINE j == [jr[w] EXCEPT !.st = "committed", !.eff = e]
 <2>1. j \in Journal /\ j.st = "committed" /\ j.proc = jr[w].proc /\ j.adm = jr[w].adm /\ j.procAsked = jr[w].procAsked
   BY <1>4 DEF Journal
 <2>2. jr' = [jr EXCEPT ![w] = j] BY <1>4, <1>16 DEF Journal
 <2> HIDE DEF j
 <2> QED BY <1>2, <2>1, <2>2, JournalIs
<1>6. /\ r \in Receipt /\ r.on = TRUE /\ r.rev = 1 /\ r.acked = 0 /\ r.proc = jr[w].adm /\ r.required = FALSE /\ r.owner = FALSE
      /\ r.pubDone = FALSE /\ r.procDone = FALSE /\ r.hold = TRUE /\ r.seen = Void
  BY <1>4 DEF r, FirstRevision, NoRecord, Receipt, Journal, Sample, Void
<1>7. q \in Sample /\ (jr[w].adm # "ticket" => q = ticket[w]) BY <1>2 DEF q, ImportTypes, Sample
<1>8. rec' \in [Works -> Receipt] /\ rec'[w] = r /\ \A v \in Works \ {w} : rec'[v] = rec[v]
  BY <1>2, <1>3, <1>6, PutRecordIs
<1>9. /\ lane' \in [Passes -> [w : Works \cup {Void}, at : Lanes, del : BOOLEAN]]
      /\ lane'["run"].at = "ack" /\ lane'["run"].w = lane["run"].w /\ lane'["run"].del = lane["run"].del
      /\ \A u \in Passes \ {"run"} : lane'[u] = lane[u] BY <1>1, <1>2, GotoIs DEF Lanes
<1>17. ticket'[w] = q BY <1>2, <1>3 DEF ImportTypes
<1>10. RecordStands(w)' /\ Permitted(w)'
  BY <1>2, <1>3, <1>5, <1>6, <1>7, <1>8, <1>17 DEF RecordStands, WorkInv, Permitted, Void
<1>11. Recorded(w)' /\ Released(w)' /\ Refused(w)'
  BY <1>2, <1>3, <1>4, <1>5, <1>6, <1>7, <1>8, <1>17 DEF WorkInv, Permitted, Recorded, Released, Refused, Void
<1>12. LaneInv("run")' BY <1>1, <1>2, <1>3, <1>4, <1>9, <1>10 DEF LaneInv, InLane, W, Early, Void
<1>13. /\ ticket' \in [Works -> Sample] /\ auth' \subseteq Works
       /\ \A v \in Works \ {w} : (v \in auth') = (v \in auth) /\ ticket'[v] = ticket[v]
  BY <1>2, <1>3, <1>7 DEF ImportTypes
<1>14. ImportTypes' /\ InLaneOnly("run", w) BY <1>2, <1>3, <1>5, <1>8, <1>9, <1>13 DEF ImportTypes, InLaneOnly, W
<1>15. WorkInv(w)' BY <1>10, <1>11 DEF WorkInv
<1> QED BY <1>1, <1>2, <1>12, <1>14, <1>15, LaneStep

LEMMA PublishUnprovedStep ==
    ASSUME ImportsInv, PublishUnproved
    PROVE  ImportsInv'
<1>1. "run" \in Passes /\ lane["run"].at = "publish" /\ lane["run"].del /\ InLane("run") /\ Leave("run")
  BY DEF PublishUnproved, PassAt, Passes, InLane, Void
<1>2. PICK w \in Works : w = W("run") /\ HasLane("run", w) /\ LaneInv("run") /\ WorkInv(w) /\ ImportTypes
  BY <1>1, InLaneIs
<1>3. UNCHANGED <<dlv, claim, rec, ticket, auth, recon, need, bk>> BY DEF PublishUnproved
<1>9. PICK e \in BOOLEAN : jr' = [jr EXCEPT ![w].st = "indeterminate", ![w].eff = e] BY <1>2 DEF PublishUnproved
<1>4. jr[w] \in Journal /\ jr[w].adm # Void /\ ~rec[w].on /\ dlv[w] = "pending" /\ w \notin auth
  BY <1>1, <1>2 DEF LaneInv, ImportTypes, Early, Void, WorkInv, RecordStands
<1>5. /\ jr' \in [Works -> Journal] /\ \A v \in Works \ {w} : jr'[v] = jr[v]
      /\ jr'[w].st = "indeterminate" /\ jr'[w].proc = jr[w].proc /\ jr'[w].adm = jr[w].adm /\ jr'[w].procAsked = jr[w].procAsked
 <2> DEFINE j == [jr[w] EXCEPT !.st = "indeterminate", !.eff = e]
 <2>1. /\ j \in Journal /\ j.st = "indeterminate" /\ j.proc = jr[w].proc /\ j.adm = jr[w].adm
       /\ j.procAsked = jr[w].procAsked BY <1>4 DEF Journal
 <2>2. jr' = [jr EXCEPT ![w] = j] BY <1>4, <1>9 DEF Journal
 <2> HIDE DEF j
 <2> QED BY <1>2, <2>1, <2>2, JournalIs
<1>6. /\ lane' \in [Passes -> [w : Works \cup {Void}, at : Lanes, del : BOOLEAN]]
      /\ lane'["run"].at = Void /\ \A u \in Passes \ {"run"} : lane'[u] = lane[u] BY <1>1, <1>2, LeaveIs
<1>7. WorkInv(w)' BY <1>2, <1>3, <1>4, <1>5 DEF WorkInv, Permitted, Recorded, Released, Refused
<1>8. ImportTypes' /\ InLaneOnly("run", w) BY <1>2, <1>3, <1>5, <1>6 DEF ImportTypes, InLaneOnly
<1> QED BY <1>1, <1>2, <1>6, <1>7, <1>8, FreeLane, LaneStep

LEMMA DeliveryFailsStep ==
    ASSUME ImportsInv, DeliveryFails
    PROVE  ImportsInv'
<1>1. /\ "run" \in Passes /\ lane["run"].at # Void /\ lane["run"].del /\ InLane("run") /\ Leave("run")
      /\ UNCHANGED <<claim, rec, ticket, auth, recon, need, bk>> BY DEF DeliveryFails, Passes, InLane, Void
<1>2. PICK w \in Works : w = W("run") /\ HasLane("run", w) /\ LaneInv("run") /\ WorkInv(w) /\ ImportTypes
  BY <1>1, InLaneIs
<1> DEFINE s == IF jr[w].st = "staged" THEN "failed" ELSE jr[w].st
           j == [jr[w] EXCEPT !.st = s]
<1>3. PICK d \in {"failure-reporting", "pending", "superseded"} :
        /\ dlv' = [dlv EXCEPT ![w] = d]
        /\ IF d = "failure-reporting" THEN MayReportFailure(w) /\ jr' = [jr EXCEPT ![w] = j] ELSE UNCHANGED jr
 <2>1. [jr EXCEPT ![w].st = IF @ = "staged" THEN "failed" ELSE @] = [jr EXCEPT ![w] = j] BY <1>2 DEF ImportTypes
 <2>2. \/ /\ MayReportFailure(w) /\ dlv' = [dlv EXCEPT ![w] = "failure-reporting"]
          /\ jr' = [jr EXCEPT ![w].st = IF @ = "staged" THEN "failed" ELSE @]
       \/ (\E d \in {"pending", "superseded"} : dlv' = [dlv EXCEPT ![w] = d]) /\ UNCHANGED jr
   BY <1>2 DEF DeliveryFails
 <2> HIDE DEF j
 <2>3. CASE (\E d \in {"pending", "superseded"} : dlv' = [dlv EXCEPT ![w] = d]) /\ UNCHANGED jr BY <2>3
 <2> QED BY <2>1, <2>2, <2>3
<1>4. /\ dlv' \in [Works -> {Void, "pending", "superseded", "wait-owner", "failure-reporting", "failed", "delivered"}]
      /\ dlv'[w] = d /\ \A v \in Works \ {w} : dlv'[v] = dlv[v] BY <1>2, <1>3 DEF ImportTypes
<1>5. dlv[w] = "pending" /\ ~bk[w].failed BY <1>1, <1>2 DEF LaneInv, WorkInv, Refused
<1>6. /\ j \in Journal /\ j.st = s /\ j.eff = jr[w].eff /\ j.proc = jr[w].proc /\ j.adm = jr[w].adm
      /\ j.procAsked = jr[w].procAsked /\ jr[w] \in Journal
 <2>1. jr[w] \in Journal BY <1>2 DEF ImportTypes
 <2>2. s \in {Void, "staged", "indeterminate", "committed", "failed"} BY <2>1 DEF Journal
 <2> HIDE DEF s
 <2> QED BY <2>1, <2>2 DEF Journal
<1> HIDE DEF j
<1>7. /\ jr' \in [Works -> Journal] /\ (\A v \in Works \ {w} : jr'[v] = jr[v])
      /\ jr'[w] = IF d = "failure-reporting" THEN j ELSE jr[w]
 <2>1. CASE d = "failure-reporting" BY <1>2, <1>3, <1>6, <2>1, JournalIs
 <2>2. CASE d # "failure-reporting" BY <1>2, <1>3, <2>2 DEF ImportTypes
 <2> QED BY <2>1, <2>2
<1>8. Refused(w)'
 <2>1. CASE d = "failure-reporting"
  <3>1. jr[w].st # "indeterminate" /\ ~jr[w].eff BY <1>3, <2>1 DEF MayReportFailure
  <3>2. s \in {Void, "failed"} \/ s = "committed" BY <1>6, <3>1 DEF Journal
  <3> QED BY <1>1, <1>4, <1>5, <1>6, <1>7, <2>1, <3>1, <3>2 DEF Refused
 <2>2. CASE d # "failure-reporting" BY <1>1, <1>3, <1>4, <1>5, <2>2 DEF Refused
 <2> QED BY <2>1, <2>2
<1>11. Permitted(w)' /\ Recorded(w)' /\ Released(w)' /\ (w \in auth => RecordStands(w))'
  BY <1>1, <1>2, <1>6, <1>7 DEF WorkInv, Permitted, Recorded, Released, RecordStands
<1>9. /\ lane' \in [Passes -> [w : Works \cup {Void}, at : Lanes, del : BOOLEAN]]
      /\ lane'["run"].at = Void /\ \A u \in Passes \ {"run"} : lane'[u] = lane[u] BY <1>1, <1>2, LeaveIs
<1>10. ImportTypes' /\ InLaneOnly("run", w) /\ WorkInv(w)'
  BY <1>1, <1>2, <1>4, <1>7, <1>8, <1>9, <1>11 DEF ImportTypes, InLaneOnly, WorkInv
<1> QED BY <1>1, <1>2, <1>9, <1>10, FreeLane, LaneStep

LEMMA AdmitLaterStep ==
    ASSUME ImportsInv, NEW t \in Passes, AdmitLater(t)
    PROVE  ImportsInv'
<1>1. /\ lane[t].at = "publish" /\ ~lane[t].del /\ InLane(t) /\ Goto(t, "observe")
      /\ UNCHANGED <<dlv, claim, jr, recon, need, bk>> BY DEF AdmitLater, PassAt, InLane, Void
<1>2. PICK w \in Works : w = W(t) /\ HasLane(t, w) /\ LaneInv(t) /\ WorkInv(w) /\ ImportTypes BY <1>1, InLaneIs
<1>3. /\ rec[w] \in Receipt /\ jr[w] \in Journal /\ jr[w].adm # Void /\ RecordStands(w) /\ rec[w].proc = "awaiting"
      /\ rec[w].on /\ rec[w].hold /\ rec[w].seen = Void /\ ~rec[w].procDone /\ w \notin recon.works
 <2>1. /\ rec[w] \in Receipt /\ jr[w] \in Journal /\ jr[w].adm # Void /\ rec[w].proc = "awaiting" /\ w \notin recon.works
       /\ RecordStands(w) BY <1>1, <1>2 DEF LaneInv, ImportTypes, Early
 <2>2. rec[w].on BY <2>1 DEF RecordStands
 <2> QED BY <1>2, <2>1, <2>2 DEF WorkInv, Released, Receipt
<1>4. /\ lane' \in [Passes -> [w : Works \cup {Void}, at : Lanes, del : BOOLEAN]]
      /\ lane'[t].at = "observe" /\ lane'[t].w = lane[t].w /\ lane'[t].del = lane[t].del
      /\ \A u \in Passes \ {t} : lane'[u] = lane[u] BY <1>1, <1>2, GotoIs DEF Lanes
<1>5. CASE jr[w].adm = "awaiting"
 <2>1. UNCHANGED <<rec, ticket, auth>> BY <1>2, <1>5 DEF AdmitLater
 <2>2. LaneInv(t)' BY <1>1, <1>2, <1>3, <1>4, <2>1 DEF LaneInv, InLane, W, Early, Void, RecordStands
 <2> QED BY <1>1, <1>2, <1>4, <2>1, <2>2, LaneOnlyStep DEF W, ImportTypes
<1>6. CASE jr[w].adm # "awaiting"
 <2> DEFINE r == [rec[w] EXCEPT !.proc = jr[w].adm, !.rev = rec[w].rev + 1]
 <2>1. PutRecord(w, r) /\ ticket' = [ticket EXCEPT ![w] = "queued"] /\ auth' = auth \cup {w}
   BY <1>2, <1>6 DEF AdmitLater
 <2> DEFINE n == rec[w].rev + 1
 <2>2. n \in Nat /\ jr[w].adm \in {Void, "skipped", "awaiting", "ticket"} BY <1>3 DEF Receipt, Journal
 <2> HIDE DEF n
 <2>3. r = [rec[w] EXCEPT !.proc = jr[w].adm, !.rev = n] BY DEF n
 <2>4. /\ r \in Receipt /\ r.on = TRUE /\ r.rev = n /\ r.acked = rec[w].acked /\ r.proc = jr[w].adm
       /\ r.required = rec[w].required /\ r.owner = rec[w].owner /\ r.pubDone = rec[w].pubDone
       /\ r.procDone = rec[w].procDone /\ r.hold = rec[w].hold /\ r.seen = rec[w].seen BY <1>3, <2>2, <2>3 DEF Receipt
 <2> HIDE DEF r
 <2>5. rec' \in [Works -> Receipt] /\ rec'[w] = r /\ \A v \in Works \ {w} : rec'[v] = rec[v]
   BY <1>2, <2>1, <2>4, PutRecordIs
 <2>6. RecordStands(w)' /\ Permitted(w)' /\ Released(w)' /\ Refused(w)'
   BY <1>1, <1>2, <1>3, <1>6, <2>4, <2>5 DEF RecordStands, WorkInv, Permitted, Released, Refused
 <2>7. rec[w].acked <= rec[w].rev /\ rec[w].acked \in Nat /\ rec[w].rev \in Nat
   BY <1>2, <1>3 DEF WorkInv, Recorded, Receipt
 <2>8. r.acked <= r.rev /\ r.acked # r.rev BY <2>4, <2>7 DEF n
 <2>9. Recorded(w)' BY <1>1, <1>2, <1>3, <1>6, <2>4, <2>5, <2>8 DEF WorkInv, Recorded
 <2>10. LaneInv(t)' BY <1>1, <1>2, <1>3, <1>4, <2>6 DEF LaneInv, InLane, W, Early, Void
 <2>11. /\ ticket' \in [Works -> Sample] /\ auth' \subseteq Works
        /\ \A v \in Works \ {w} : (v \in auth') = (v \in auth) /\ ticket'[v] = ticket[v]
   BY <1>2, <2>1 DEF ImportTypes, Sample
 <2>12. ImportTypes' /\ InLaneOnly(t, w) /\ WorkInv(w)'
   BY <1>1, <1>2, <1>4, <2>5, <2>6, <2>9, <2>11 DEF ImportTypes, InLaneOnly, W, WorkInv
 <2> QED BY <1>2, <2>10, <2>12, LaneStep
<1> QED BY <1>5, <1>6

\* The record itself is written.
LEMMA SampleStep ==
    ASSUME ImportsInv, NEW t \in Passes, Observe(t)
    PROVE  ImportsInv'
<1>1. lane[t].at = "observe" /\ InLane(t) /\ UNCHANGED <<dlv, claim, jr, ticket, auth, recon,
                                                         need, bk>> BY DEF Observe, PassAt, InLane, Void
<1>2. PICK w \in Works : w = W(t) /\ HasLane(t, w) /\ LaneInv(t) /\ WorkInv(w) /\ ImportTypes BY <1>1, InLaneIs
<1> DEFINE l == rec[w].proc = "ticket" /\ ticket[w] \in Submitted /\ ~rec[w].link /\ rec[w].rev < MaxRevision
           s == rec[w].proc = "ticket" /\ rec[w].seen \in {Void, "running"} /\ ticket[w] \in Submitted
           v1 == IF l THEN rec[w].rev + 1 ELSE rec[w].rev
           v2 == IF s THEN ticket[w] ELSE rec[w].seen
           n == [rec[w] EXCEPT !.link = rec[w].link \/ l, !.rev = v1, !.seen = v2]
<1>3. rec[w] \in Receipt /\ jr[w] \in Journal /\ ticket[w] \in Sample /\ RecordStands(w) /\ rec[w].on
  BY <1>1, <1>2 DEF LaneInv, ImportTypes, Early, RecordStands
<1>4. PutRecord(w, n) /\ \E p \in {"ack", "settle"} : Goto(t, p) BY <1>2 DEF Observe
<1>5. /\ l \in BOOLEAN /\ s \in BOOLEAN /\ v1 \in Nat /\ v2 \in Sample /\ rec[w].link \in BOOLEAN
      /\ (l => v1 = rec[w].rev + 1) /\ (~l => v1 = rec[w].rev) /\ (~s => v2 = rec[w].seen) BY <1>3 DEF Receipt, Sample
<1>6. /\ rec[w].proc = "awaiting" => ~l /\ ~s
      /\ s /\ ~l => rec[w].link \/ ~(rec[w].rev < MaxRevision)
      /\ rec[w].seen = "done" => ~s
      /\ rec[w].link \/ ~(rec[w].rev < MaxRevision) => ~l
      /\ l => rec[w].proc = "ticket" /\ ~rec[w].link /\ ticket[w] # "dropped" BY DEF Submitted, Void
<1> HIDE DEF l, s, v1, v2
<1>7. /\ n \in Receipt /\ n.on = TRUE /\ n.rev = v1 /\ n.acked = rec[w].acked /\ n.proc = rec[w].proc
      /\ n.required = rec[w].required /\ n.owner = rec[w].owner /\ n.pubDone = rec[w].pubDone
      /\ n.procDone = rec[w].procDone /\ n.hold = rec[w].hold /\ n.seen = v2 /\ n.link = (rec[w].link \/ l)
 <2>1. (rec[w].link \/ l) \in BOOLEAN BY <1>5
 <2>2. /\ n.on = TRUE /\ n.rev = v1 /\ n.acked = rec[w].acked /\ n.proc = rec[w].proc
       /\ n.required = rec[w].required /\ n.owner = rec[w].owner /\ n.pubDone = rec[w].pubDone
       /\ n.procDone = rec[w].procDone /\ n.hold = rec[w].hold /\ n.seen = v2
       /\ n.link = (rec[w].link \/ l) BY <1>3, <1>5, <2>1 DEF Receipt, Sample
 <2>3. n \in Receipt BY <1>3, <1>5, <2>1 DEF Receipt
 <2> QED BY <2>2, <2>3
<1> HIDE DEF n
<1>8. rec' \in [Works -> Receipt] /\ rec'[w] = n /\ \A v \in Works \ {w} : rec'[v] = rec[v]
  BY <1>2, <1>4, <1>7, PutRecordIs
<1>9. ~rec[w].hold /\ l => ticket[w] = "interrupted" /\ bk[w].rev = rec[w].rev
 <2>1. SUFFICES ASSUME ~rec[w].hold, l
                PROVE  ticket[w] = "interrupted" /\ bk[w].rev = rec[w].rev OBVIOUS
 <2>2. rec[w].proc = "ticket" /\ jr[w].proc BY <1>2, <1>3, <1>6, <2>1 DEF WorkInv, Recorded, Permitted
 <2>3. rec[w].procDone /\ bk[w].rev = rec[w].rev BY <1>2, <1>3, <1>6, <2>1, <2>2 DEF WorkInv, Released
 <2>4. rec[w].seen # "done" BY <1>2, <1>3, <1>6, <2>1 DEF WorkInv, Released, Void
 <2> QED BY <1>2, <1>3, <1>6, <2>1, <2>2, <2>3, <2>4 DEF WorkInv, Released
<1>10. RecordStands(w)' /\ Permitted(w)' /\ Refused(w)'
  BY <1>1, <1>2, <1>3, <1>7, <1>8 DEF RecordStands, WorkInv, Permitted, Refused
<1>11. Recorded(w)'
 <2>1. rec[w].acked <= rec[w].rev /\ rec[w].acked \in Nat /\ rec[w].rev \in Nat
   BY <1>2, <1>3 DEF WorkInv, Recorded, Receipt
 <2>2. v1 = rec[w].rev \/ (rec[w].acked <= v1 /\ rec[w].acked # v1) BY <1>5, <2>1
 <2> QED BY <1>1, <1>2, <1>3, <1>7, <1>8, <2>1, <2>2 DEF WorkInv, Recorded
<1>12. Released(w)'
 <2>1. rec[w].procDone /\ rec[w].proc = "ticket" => v2 = "done" \/ ticket[w] \in {"interrupted", "dropped"}
   BY <1>2, <1>3, <1>5, <1>6 DEF WorkInv, Released
 <2>2. v2 # Void => rec[w].link \/ l \/ ~(v1 < MaxRevision) BY <1>2, <1>3, <1>5, <1>6 DEF WorkInv, Released
 <2>3. rec[w].proc = "awaiting" => v2 = Void /\ ~rec[w].procDone /\ ticket[w] = Void
   BY <1>2, <1>3, <1>5, <1>6 DEF WorkInv, Released
 <2>4. ~rec[w].hold => /\ rec[w].pubDone /\ (jr[w].proc => rec[w].procDone) /\ rec[w].proc # "awaiting"
                       /\ \/ bk[w].rev = v1
                          \/ ticket[w] = "interrupted" /\ (rec[w].link \/ l) /\ bk[w].rev + 1 = v1
  <3>1. CASE l BY <1>2, <1>3, <1>5, <1>9, <3>1 DEF WorkInv, Released
  <3>2. CASE ~l BY <1>2, <1>3, <1>5, <3>2 DEF WorkInv, Released
  <3> QED BY <3>1, <3>2
 <2> QED BY <1>1, <1>7, <1>8, <2>1, <2>2, <2>3, <2>4 DEF Released
<1>13. PICK p \in {"ack", "settle"} : Goto(t, p) BY <1>4
<1>14. /\ lane' \in [Passes -> [w : Works \cup {Void}, at : Lanes, del : BOOLEAN]]
       /\ lane'[t].at = p /\ lane'[t].w = lane[t].w /\ lane'[t].del = lane[t].del
       /\ \A u \in Passes \ {t} : lane'[u] = lane[u] BY <1>2, <1>13, GotoIs DEF Lanes
<1>15. LaneInv(t)' BY <1>1, <1>2, <1>10, <1>14 DEF LaneInv, InLane, W, Early, Void
<1>16. ImportTypes' /\ InLaneOnly(t, w) /\ WorkInv(w)'
  BY <1>1, <1>2, <1>8, <1>10, <1>11, <1>12, <1>14 DEF ImportTypes, InLaneOnly, W, WorkInv
<1> QED BY <1>2, <1>15, <1>16, LaneStep

LEMMA AckStep ==
    ASSUME ImportsInv, NEW t \in Passes, Ack(t)
    PROVE  ImportsInv'
<1>1. lane[t].at = "ack" /\ InLane(t) /\ UNCHANGED <<dlv, claim, jr, ticket, recon>> BY DEF Ack, PassAt, InLane, Void
<1>2. PICK w \in Works : w = W(t) /\ HasLane(t, w) /\ LaneInv(t) /\ WorkInv(w) /\ ImportTypes BY <1>1, InLaneIs
<1>3. rec[w] \in Receipt /\ bk[w] \in Backend /\ RecordStands(w) /\ rec[w].on /\ need \in BOOLEAN
  BY <1>1, <1>2 DEF LaneInv, ImportTypes, Early, RecordStands
<1>4. CASE bk[w].mine
 <2> DEFINE b == [bk[w] EXCEPT !.rev = rec[w].rev, !.seen = rec[w].seen]
            r == [rec[w] EXCEPT !.acked = rec[w].rev, !.ackSeen = rec[w].seen]
 <2>1. /\ bk' = [bk EXCEPT ![w] = b] /\ UNCHANGED <<auth, need>>
       /\ \/ PutRecord(w, r) /\ Goto(t, "settle")
          \/ Leave(t) /\ UNCHANGED rec BY <1>2, <1>4 DEF Ack
 <2>2. /\ b \in Backend /\ b.pub = bk[w].pub /\ b.proc = bk[w].proc /\ b.rev = rec[w].rev /\ b.failed = bk[w].failed
       /\ r \in Receipt /\ r.on = TRUE /\ r.rev = rec[w].rev /\ r.acked = rec[w].rev /\ r.proc = rec[w].proc
       /\ r.required = rec[w].required /\ r.owner = rec[w].owner /\ r.pubDone = rec[w].pubDone
       /\ r.procDone = rec[w].procDone /\ r.hold = rec[w].hold /\ r.seen = rec[w].seen /\ r.link = rec[w].link
   BY <1>3 DEF Backend, Receipt
 <2> HIDE DEF b, r
 <2>3. bk' \in [Works -> Backend] /\ bk'[w] = b /\ \A v \in Works \ {w} : bk'[v] = bk[v]
   BY <1>2, <2>1, <2>2, BackendIs
 <2>4. Permitted(w)' /\ Refused(w)'
  <3>1. rec'[w].on => rec[w].on BY <1>3
  <3> QED BY <1>1, <1>2, <2>2, <2>3, <3>1 DEF WorkInv, Permitted, Refused
 <2>5. CASE PutRecord(w, r) /\ Goto(t, "settle")
  <3>1. rec' \in [Works -> Receipt] /\ rec'[w] = r /\ \A v \in Works \ {w} : rec'[v] = rec[v]
    BY <1>2, <2>2, <2>5, PutRecordIs
  <3>2. /\ lane' \in [Passes -> [w : Works \cup {Void}, at : Lanes, del : BOOLEAN]]
        /\ lane'[t].at = "settle" /\ lane'[t].w = lane[t].w /\ lane'[t].del = lane[t].del
        /\ \A u \in Passes \ {t} : lane'[u] = lane[u] BY <1>2, <2>5, GotoIs DEF Lanes
  <3>3. RecordStands(w)' /\ Recorded(w)' /\ Released(w)'
   <4>1. rec[w].rev <= rec[w].rev BY <1>3 DEF Receipt
   <4> QED BY <1>1, <1>2, <1>3, <2>2, <2>3, <3>1, <4>1 DEF RecordStands, WorkInv, Recorded, Released
  <3>4. LaneInv(t)' BY <1>1, <1>2, <3>2, <3>3 DEF LaneInv, InLane, W, Early, Void
  <3>5. ImportTypes' /\ InLaneOnly(t, w) /\ WorkInv(w)'
    BY <1>1, <1>2, <2>1, <2>3, <2>4, <3>1, <3>2, <3>3 DEF ImportTypes, InLaneOnly, W, WorkInv
  <3> QED BY <1>2, <3>4, <3>5, LaneStep
 <2>6. CASE Leave(t) /\ UNCHANGED rec
  <3>1. /\ lane' \in [Passes -> [w : Works \cup {Void}, at : Lanes, del : BOOLEAN]]
        /\ lane'[t].at = Void /\ \A u \in Passes \ {t} : lane'[u] = lane[u] BY <1>2, <2>6, LeaveIs
  <3>2. RecordStands(w)' /\ Recorded(w)' /\ Released(w)'
    BY <1>1, <1>2, <1>3, <2>2, <2>3, <2>6 DEF RecordStands, WorkInv, Recorded, Released
  <3>3. ImportTypes' /\ InLaneOnly(t, w) /\ WorkInv(w)'
    BY <1>1, <1>2, <2>1, <2>3, <2>4, <2>6, <3>1, <3>2 DEF ImportTypes, InLaneOnly, WorkInv
  <3> QED BY <1>2, <3>1, <3>3, FreeLane, LaneStep
 <2> QED BY <2>1, <2>5, <2>6
<1>5. CASE ~bk[w].mine
 <2> DEFINE r == [rec[w] EXCEPT !.required = TRUE]
 <2>1. UNCHANGED bk /\ auth' = auth \ {w} /\ need' = TRUE /\ PutRecord(w, r) /\ Leave(t)
   BY <1>2, <1>5 DEF Ack, Rejected
 <2>2. /\ r \in Receipt /\ r.on = TRUE /\ r.rev = rec[w].rev /\ r.acked = rec[w].acked /\ r.proc = rec[w].proc
       /\ r.pubDone = rec[w].pubDone /\ r.procDone = rec[w].procDone /\ r.hold = rec[w].hold
       /\ r.seen = rec[w].seen /\ r.link = rec[w].link BY <1>3 DEF Receipt
 <2> HIDE DEF r
 <2>3. rec' \in [Works -> Receipt] /\ rec'[w] = r /\ \A v \in Works \ {w} : rec'[v] = rec[v]
   BY <1>2, <2>1, <2>2, PutRecordIs
 <2>4. /\ lane' \in [Passes -> [w : Works \cup {Void}, at : Lanes, del : BOOLEAN]]
       /\ lane'[t].at = Void /\ \A u \in Passes \ {t} : lane'[u] = lane[u] BY <1>2, <2>1, LeaveIs
 <2>5. WorkInv(w)' BY <1>1, <1>2, <1>3, <2>1, <2>2, <2>3 DEF WorkInv, Permitted, Recorded, Released, Refused
 <2>6. ImportTypes' /\ InLaneOnly(t, w) BY <1>1, <1>2, <2>1, <2>3, <2>4 DEF ImportTypes, InLaneOnly
 <2> QED BY <1>2, <2>4, <2>5, <2>6, FreeLane, LaneStep
<1> QED BY <1>4, <1>5

\* Settling writes the intent, and with the answer of the backend that it is done.
LEMMA SettlePublicationStep ==
    ASSUME ImportsInv, NEW t \in Passes, SettlePublication(t)
    PROVE  ImportsInv'
<1>1. /\ lane[t].at = "settle" /\ InLane(t) /\ t = "run" /\ UNCHANGED <<dlv, claim, jr, ticket,
                                                                        auth, recon, need>>
  BY DEF SettlePublication, PassAt, InLane, Void
<1>2. PICK w \in Works : w = W(t) /\ HasLane(t, w) /\ LaneInv(t) /\ WorkInv(w) /\ ImportTypes BY <1>1, InLaneIs
<1>3. rec[w] \in Receipt /\ bk[w] \in Backend /\ RecordStands(w) /\ rec[w].on /\ ~rec[w].pubDone
  BY <1>2 DEF SettlePublication, ImportTypes, RecordStands
<1> DEFINE b == [bk[w] EXCEPT !.pub = "completed"]
           r(d) == [rec[w] EXCEPT !.pubIntent = TRUE, !.pubDone = d]
<1>4. [rec[w] EXCEPT !.pubIntent = TRUE] = r(FALSE) BY <1>3 DEF Receipt
<1>5. \E d \in BOOLEAN : /\ PutRecord(w, r(d)) /\ (UNCHANGED lane \/ Leave(t))
                         /\ \/ bk' = [bk EXCEPT ![w] = b]
                            \/ UNCHANGED bk /\ d = FALSE
 <2>1. CASE bk[w].mine
  <3>1. /\ bk' = [bk EXCEPT ![w] = b]
        /\ \/ PutRecord(w, r(TRUE)) /\ UNCHANGED lane
           \/ PutRecord(w, r(FALSE)) /\ Leave(t) BY <1>2, <1>4, <2>1 DEF SettlePublication
  <3> QED BY <3>1
 <2>2. CASE ~bk[w].mine
  <3>1. PutRecord(w, r(FALSE)) /\ Leave(t) /\ UNCHANGED bk BY <1>2, <1>4, <2>2 DEF SettlePublication
  <3> QED BY <3>1
 <2> QED BY <2>1, <2>2
<1>6. PICK d \in BOOLEAN : /\ PutRecord(w, r(d)) /\ (UNCHANGED lane \/ Leave(t))
                           /\ \/ bk' = [bk EXCEPT ![w] = b]
                              \/ UNCHANGED bk /\ d = FALSE BY <1>5
<1> DEFINE n == r(d)
<1>7. /\ n \in Receipt /\ n.on = TRUE /\ n.rev = rec[w].rev /\ n.acked = rec[w].acked /\ n.proc = rec[w].proc
      /\ n.required = rec[w].required /\ n.owner = rec[w].owner /\ n.pubDone = d
      /\ n.procDone = rec[w].procDone /\ n.hold = rec[w].hold /\ n.seen = rec[w].seen /\ n.link = rec[w].link
      /\ b \in Backend /\ b.pub = "completed" /\ b.proc = bk[w].proc /\ b.rev = bk[w].rev /\ b.failed = bk[w].failed
  BY <1>3 DEF Receipt, Backend
<1>8. PutRecord(w, n) BY <1>6
<1> HIDE DEF b, r, n
<1>9. rec' \in [Works -> Receipt] /\ rec'[w] = n /\ \A v \in Works \ {w} : rec'[v] = rec[v]
  BY <1>2, <1>7, <1>8, PutRecordIs
<1>10. /\ bk' \in [Works -> Backend] /\ (\A v \in Works \ {w} : bk'[v] = bk[v]) /\ bk'[w].proc = bk[w].proc
       /\ bk'[w].rev = bk[w].rev /\ bk'[w].failed = bk[w].failed /\ (d => bk'[w].pub = "completed")
 <2>1. CASE bk' = [bk EXCEPT ![w] = b] BY <1>2, <1>7, <2>1, BackendIs
 <2>2. CASE UNCHANGED bk /\ d = FALSE BY <1>2, <2>2 DEF ImportTypes
 <2> QED BY <1>6, <2>1, <2>2
<1>11. RecordStands(w)' /\ Permitted(w)' /\ Refused(w)'
  BY <1>1, <1>2, <1>3, <1>7, <1>9, <1>10 DEF RecordStands, WorkInv, Permitted, Refused
<1>12. rec[w].hold BY <1>2, <1>3 DEF WorkInv, Released, ImportTypes, Receipt
<1>13. Recorded(w)' /\ Released(w)'
 <2>1. Recorded(w)' BY <1>1, <1>2, <1>3, <1>7, <1>9, <1>10 DEF WorkInv, Recorded
 <2>2. rec'[w].hold BY <1>7, <1>9, <1>12
 <2>3. Released(w)' BY <1>1, <1>2, <1>3, <1>7, <1>9, <1>12, <2>2 DEF WorkInv, Released
 <2> QED BY <2>1, <2>3
<1>14. /\ lane' \in [Passes -> [w : Works \cup {Void}, at : Lanes, del : BOOLEAN]]
       /\ UNCHANGED lane \/ lane'[t].at = Void
       /\ \A u \in Passes \ {t} : lane'[u] = lane[u] BY <1>2, <1>6, LeaveIs DEF ImportTypes
<1>15. LaneInv(t)'
 <2>1. CASE UNCHANGED lane BY <1>1, <1>2, <1>11, <2>1 DEF LaneInv, InLane, W, Early, Void
 <2>2. CASE lane'[t].at = Void BY <2>2, FreeLane
 <2> QED BY <1>14, <2>1, <2>2
<1>16. ImportTypes' /\ InLaneOnly(t, w) /\ WorkInv(w)'
  BY <1>1, <1>2, <1>9, <1>10, <1>11, <1>13, <1>14 DEF ImportTypes, InLaneOnly, W, WorkInv
<1> QED BY <1>2, <1>15, <1>16, LaneStep

LEMMA SettleProcessingStep ==
    ASSUME ImportsInv, NEW t \in Passes, SettleProcessing(t)
    PROVE  ImportsInv'
<1>1. /\ lane[t].at = "settle" /\ InLane(t) /\ t = "run" /\ UNCHANGED <<claim, jr, ticket, auth, recon, need>>
  BY DEF SettleProcessing, PassAt, InLane, Void
<1>2. PICK w \in Works : w = W(t) /\ HasLane(t, w) /\ LaneInv(t) /\ WorkInv(w) /\ ImportTypes BY <1>1, InLaneIs
<1>3. /\ rec[w] \in Receipt /\ bk[w] \in Backend /\ RecordStands(w) /\ rec[w].on /\ ~rec[w].procDone /\ jr[w].proc
      /\ rec[w].proc = "skipped" \/ rec[w].seen = "done" \/ ticket[w] \in {"interrupted", "dropped"}
      /\ SettledAs(w) \in {"skipped", "interrupted", "completed"}
  BY <1>2 DEF SettleProcessing, ImportTypes, RecordStands, SettledAs
<1> DEFINE x == SettledAs(w)
           b == [bk[w] EXCEPT !.proc = "settled"]
           r(d) == [rec[w] EXCEPT !.procIntent = x, !.procDone = d]
<1>4. [rec[w] EXCEPT !.procIntent = x] = r(FALSE) BY <1>3 DEF Receipt
<1>5. \E d \in BOOLEAN : /\ PutRecord(w, r(d)) /\ ((UNCHANGED lane /\ UNCHANGED dlv) \/ Leave(t))
                         /\ \/ bk' = [bk EXCEPT ![w] = b]
                            \/ UNCHANGED bk /\ d = FALSE
 <2>1. CASE /\ bk' = [bk EXCEPT ![w] = b] /\ UNCHANGED dlv
            /\ \/ PutRecord(w, r(TRUE)) /\ UNCHANGED lane
               \/ PutRecord(w, r(FALSE)) /\ Leave(t) BY <2>1
 <2>2. CASE PutRecord(w, r(FALSE)) /\ Leave(t) /\ UNCHANGED bk BY <2>2
 <2>3. [rec[w] EXCEPT !.procIntent = x, !.procDone = TRUE] = r(TRUE) OBVIOUS
 <2> HIDE DEF r
 <2> QED BY <1>2, <1>4, <2>1, <2>2, <2>3 DEF SettleProcessing
<1>6. PICK d \in BOOLEAN : /\ PutRecord(w, r(d)) /\ ((UNCHANGED lane /\ UNCHANGED dlv) \/ Leave(t))
                           /\ \/ bk' = [bk EXCEPT ![w] = b]
                              \/ UNCHANGED bk /\ d = FALSE BY <1>5
<1> DEFINE n == r(d)
<1> HIDE DEF x
<1>7. /\ n \in Receipt /\ n.on = TRUE /\ n.rev = rec[w].rev /\ n.acked = rec[w].acked /\ n.proc = rec[w].proc
      /\ n.required = rec[w].required /\ n.owner = rec[w].owner /\ n.pubDone = rec[w].pubDone
      /\ n.procDone = d /\ n.hold = rec[w].hold /\ n.seen = rec[w].seen /\ n.link = rec[w].link
      /\ b \in Backend /\ b.pub = bk[w].pub /\ b.proc = "settled" /\ b.rev = bk[w].rev /\ b.failed = bk[w].failed
 <2>1. x \in {Void, "skipped", "interrupted", "completed"} BY <1>3 DEF x
 <2> QED BY <1>3, <2>1 DEF Receipt, Backend
<1>8. PutRecord(w, n) BY <1>6
<1> HIDE DEF b, r, n
<1>9. rec' \in [Works -> Receipt] /\ rec'[w] = n /\ \A v \in Works \ {w} : rec'[v] = rec[v]
  BY <1>2, <1>7, <1>8, PutRecordIs
<1>10. /\ bk' \in [Works -> Backend] /\ (\A v \in Works \ {w} : bk'[v] = bk[v]) /\ bk'[w].pub = bk[w].pub
       /\ bk'[w].rev = bk[w].rev /\ bk'[w].failed = bk[w].failed /\ (d => bk'[w].proc = "settled")
       /\ bk'[w].proc \in {bk[w].proc, "settled"}
 <2>1. CASE bk' = [bk EXCEPT ![w] = b] BY <1>2, <1>7, <2>1, BackendIs
 <2>2. CASE UNCHANGED bk /\ d = FALSE BY <1>2, <2>2 DEF ImportTypes
 <2> QED BY <1>6, <2>1, <2>2
<1>17. /\ dlv' \in [Works -> {Void, "pending", "superseded", "wait-owner", "failure-reporting", "failed", "delivered"}]
       /\ \A v \in Works \ {w} : dlv'[v] = dlv[v]
       /\ dlv'[w] = dlv[w] \/ (dlv'[w] = "delivered" /\ dlv[w] = "pending")
       /\ UNCHANGED lane => UNCHANGED dlv
 <2>1. dlv' = dlv \/ (lane[t].del /\ dlv' = [dlv EXCEPT ![w] = "delivered"]) BY <1>2 DEF SettleProcessing, Delivered
 <2>2. lane[t].del => dlv[w] = "pending" BY <1>1, <1>2 DEF LaneInv, Void
 <2>3. Leave(t) /\ UNCHANGED lane => FALSE BY <1>1, <1>2 DEF Leave, Free, ImportTypes, Void
 <2> QED BY <1>2, <1>6, <2>1, <2>2, <2>3 DEF ImportTypes
<1>11. RecordStands(w)' /\ Permitted(w)' /\ Refused(w)'
  BY <1>1, <1>2, <1>3, <1>7, <1>9, <1>10, <1>17 DEF RecordStands, WorkInv, Permitted, Refused
<1>12. rec[w].hold /\ rec[w].proc # "awaiting" BY <1>2, <1>3 DEF WorkInv, Released, Void, ImportTypes, Receipt
<1>13. Recorded(w)' /\ Released(w)'
 <2>1. Recorded(w)' BY <1>1, <1>2, <1>3, <1>7, <1>9, <1>10 DEF WorkInv, Recorded
 <2>2. rec'[w].hold BY <1>7, <1>9, <1>12
 <2>3. Released(w)' BY <1>1, <1>2, <1>3, <1>7, <1>9, <1>12, <2>2 DEF WorkInv, Released
 <2> QED BY <2>1, <2>3
<1>14. /\ lane' \in [Passes -> [w : Works \cup {Void}, at : Lanes, del : BOOLEAN]]
       /\ UNCHANGED lane \/ lane'[t].at = Void
       /\ \A u \in Passes \ {t} : lane'[u] = lane[u] BY <1>2, <1>6, LeaveIs DEF ImportTypes
<1>15. LaneInv(t)'
 <2>1. CASE UNCHANGED lane BY <1>1, <1>2, <1>11, <1>17, <2>1 DEF LaneInv, InLane, W, Early, Void
 <2>2. CASE lane'[t].at = Void BY <2>2, FreeLane
 <2> QED BY <1>14, <2>1, <2>2
<1>16. ImportTypes' /\ InLaneOnly(t, w) /\ WorkInv(w)'
  BY <1>1, <1>2, <1>9, <1>10, <1>11, <1>13, <1>14, <1>17 DEF ImportTypes, InLaneOnly, W, WorkInv
<1> QED BY <1>2, <1>15, <1>16, LaneStep

LEMMA EndSettleStep ==
    ASSUME ImportsInv, NEW t \in Passes, EndSettle(t)
    PROVE  ImportsInv'
<1>1. lane[t].at = "settle" /\ InLane(t) /\ Leave(t) /\ UNCHANGED <<claim, jr, ticket, auth,
                                                                    recon, need, bk>>
  BY DEF EndSettle, PassAt, InLane, Void
<1>2. PICK w \in Works : w = W(t) /\ HasLane(t, w) /\ LaneInv(t) /\ WorkInv(w) /\ ImportTypes BY <1>1, InLaneIs
<1>3. rec[w] \in Receipt /\ RecordStands(w) /\ rec[w].on BY <1>1, <1>2 DEF LaneInv, ImportTypes, Early, RecordStands
<1> DEFINE r == [rec[w] EXCEPT !.hold = FALSE]
<1>4. UNCHANGED rec \/ (PutRecord(w, r) /\ MayRelease(w)) BY <1>2 DEF EndSettle, PutRecord
<1>5. /\ r \in Receipt /\ r.on = TRUE /\ r.rev = rec[w].rev /\ r.acked = rec[w].acked /\ r.proc = rec[w].proc
      /\ r.required = rec[w].required /\ r.owner = rec[w].owner /\ r.pubDone = rec[w].pubDone
      /\ r.procDone = rec[w].procDone /\ r.seen = rec[w].seen /\ r.link = rec[w].link BY <1>3 DEF Receipt
<1> HIDE DEF r
<1>6. /\ rec' \in [Works -> Receipt] /\ \A v \in Works \ {w} : rec'[v] = rec[v]
      /\ rec'[w].on /\ rec'[w].rev = rec[w].rev /\ rec'[w].acked = rec[w].acked /\ rec'[w].proc = rec[w].proc
      /\ rec'[w].required = rec[w].required /\ rec'[w].owner = rec[w].owner /\ rec'[w].pubDone = rec[w].pubDone
      /\ rec'[w].procDone = rec[w].procDone /\ rec'[w].seen = rec[w].seen /\ rec'[w].link = rec[w].link
      /\ ~rec'[w].hold => ~rec[w].hold \/ MayRelease(w)
 <2>1. CASE UNCHANGED rec BY <1>2, <1>3, <2>1 DEF ImportTypes
 <2>2. CASE PutRecord(w, r) /\ MayRelease(w) BY <1>2, <1>5, <2>2, PutRecordIs
 <2> QED BY <1>4, <2>1, <2>2
<1>7. /\ dlv' \in [Works -> {Void, "pending", "superseded", "wait-owner", "failure-reporting", "failed", "delivered"}]
      /\ \A v \in Works \ {w} : dlv'[v] = dlv[v]
      /\ dlv'[w] = dlv[w] \/ (dlv'[w] = "delivered" /\ dlv[w] = "pending" /\ t = "run")
 <2>1. CASE lane[t].del
  <3>1. dlv[w] = "pending" /\ t = "run" BY <1>1, <1>2, <2>1 DEF LaneInv, Void
  <3>2. dlv' = [dlv EXCEPT ![w] = "delivered"] BY <1>2, <2>1 DEF EndSettle, Delivered
  <3> QED BY <1>2, <3>1, <3>2 DEF ImportTypes
 <2>2. CASE ~lane[t].del
  <3>1. dlv' = dlv BY <1>2, <2>2 DEF EndSettle, Delivered
  <3> QED BY <1>2, <3>1 DEF ImportTypes
 <2> QED BY <2>1, <2>2
<1>8. Permitted(w)' /\ Recorded(w)' /\ (w \in auth => RecordStands(w))'
  BY <1>1, <1>2, <1>3, <1>6 DEF WorkInv, Permitted, Recorded, RecordStands
<1>9. Released(w)' /\ Refused(w)'
 <2>1. Refused(w)' BY <1>1, <1>2, <1>6, <1>7 DEF WorkInv, Refused
 <2>2. MayRelease(w) => bk[w].rev = rec[w].rev BY <1>2, <1>3 DEF WorkInv, Recorded, MayRelease
 <2>3. Released(w)' BY <1>1, <1>2, <1>3, <1>6, <2>2 DEF WorkInv, Released, MayRelease
 <2> QED BY <2>1, <2>3
<1>10. /\ lane' \in [Passes -> [w : Works \cup {Void}, at : Lanes, del : BOOLEAN]]
       /\ lane'[t].at = Void /\ \A u \in Passes \ {t} : lane'[u] = lane[u] BY <1>1, <1>2, LeaveIs
<1>11. InLaneOnly(t, w) BY <1>1, <1>2, <1>6, <1>7, <1>10 DEF InLaneOnly, Passes
<1>12. ImportTypes' /\ WorkInv(w)' BY <1>1, <1>2, <1>6, <1>7, <1>8, <1>9, <1>10 DEF ImportTypes, WorkInv
<1> QED BY <1>2, <1>10, <1>11, <1>12, FreeLane, LaneStep

\* What the backend, the lease and the processor do by themselves.
LEMMA OutsideStep ==
    ASSUME ImportsInv, ImportTypes', UNCHANGED <<jr, rec, auth, lane, recon>>,
           \A v \in Works : bk'[v].pub = bk[v].pub /\ bk'[v].proc = bk[v].proc /\ bk'[v].rev = bk[v].rev,
           \A v \in Works : Refused(v)' /\ (ticket[v] \in {Void, "interrupted", "dropped"} => ticket'[v] = ticket[v]),
           \A t \in Passes : lane[t].at # Void /\ lane[t].del => dlv'[W(t)] = "pending"
    PROVE  ImportsInv'
<1>1. ASSUME NEW v \in Works
      PROVE  WorkInv(v)' BY DEF ImportsInv, WorkInv, Permitted, Recorded, Released, RecordStands
<1>2. ASSUME NEW t \in Passes
      PROVE  LaneInv(t)' BY DEF ImportsInv, LaneInv, InLane, W, RecordStands
<1>3. LanesApart' BY DEF ImportsInv, LanesApart, InLane, W
<1>4. ReconInv'
 <2>1. recon.left \subseteq Works BY DEF ImportsInv, ImportTypes
 <2> QED BY <2>1 DEF ImportsInv, ReconInv
<1> QED BY <1>1, <1>2, <1>3, <1>4 DEF ImportsInv

LEMMA ClaimPageStep ==
    ASSUME ImportsInv, NEW w \in Works, ClaimPage(w)
    PROVE  ImportsInv'
<1>1. /\ UNCHANGED <<jr, rec, ticket, auth, lane, recon, need, bk>>
      /\ ~bk[w].failed /\ dlv' = [dlv EXCEPT ![w] = "pending"]
      /\ claim' = [claim EXCEPT ![w] = [kind |-> Recovery(w), lease |-> TRUE]] BY DEF ClaimPage
<1>2. Recovery(w) \in {Void, "wait-owner", "reconcile", "new"} BY DEF Recovery
<1>3. ImportTypes' BY <1>1, <1>2 DEF ImportsInv, ImportTypes
<1>4. ASSUME NEW v \in Works
      PROVE  Refused(v)'
 <2>1. dlv'[v] = IF v = w THEN "pending" ELSE dlv[v] BY <1>1 DEF ImportsInv, ImportTypes
 <2> QED BY <1>1, <2>1 DEF ImportsInv, WorkInv, Refused
<1>5. ASSUME NEW t \in Passes, lane[t].at # Void, lane[t].del
      PROVE  dlv'[W(t)] = "pending"
 <2>1. dlv[W(t)] = "pending" /\ W(t) \in Works BY <1>5 DEF ImportsInv, LaneInv
 <2> QED BY <1>1, <2>1 DEF ImportsInv, ImportTypes
<1> QED BY <1>1, <1>3, <1>4, <1>5, OutsideStep

LEMMA ReportFailureStep ==
    ASSUME ImportsInv, NEW w \in Works, ReportFailure(w)
    PROVE  ImportsInv'
<1>1. /\ UNCHANGED <<claim, jr, rec, ticket, auth, lane, recon, need>>
      /\ lane["run"].at = Void /\ dlv[w] = "failure-reporting" /\ bk' = [bk EXCEPT ![w].failed = TRUE]
      /\ dlv' = [dlv EXCEPT ![w] = "failed"] \/ UNCHANGED dlv BY DEF ReportFailure
<1>2. bk[w] \in Backend BY DEF ImportsInv, ImportTypes
<1> DEFINE b == [bk[w] EXCEPT !.failed = TRUE]
<1>3. b \in Backend /\ b.pub = bk[w].pub /\ b.proc = bk[w].proc /\ b.rev = bk[w].rev BY <1>2 DEF Backend
<1>4. bk' = [bk EXCEPT ![w] = b] BY <1>1
<1> HIDE DEF b
<1>5. bk' \in [Works -> Backend] /\ bk'[w] = b /\ \A v \in Works \ {w} : bk'[v] = bk[v]
  BY <1>3, <1>4, BackendIs DEF ImportsInv
<1>6. /\ dlv' \in [Works -> {Void, "pending", "superseded", "wait-owner", "failure-reporting", "failed", "delivered"}]
      /\ dlv'[w] \in {"failure-reporting", "failed"} /\ \A v \in Works \ {w} : dlv'[v] = dlv[v]
  BY <1>1 DEF ImportsInv, ImportTypes
<1>7. ImportTypes' BY <1>1, <1>5, <1>6 DEF ImportsInv, ImportTypes
<1>8. ASSUME NEW v \in Works
      PROVE  Refused(v)'
 <2>1. CASE v = w BY <1>1, <1>6, <2>1 DEF ImportsInv, WorkInv, Refused
 <2>2. CASE v # w BY <1>1, <1>5, <1>6, <2>2 DEF ImportsInv, WorkInv, Refused
 <2> QED BY <2>1, <2>2
<1>9. \A t \in Passes : lane[t].at # Void => ~lane[t].del BY <1>1 DEF ImportsInv, LaneInv
<1>10. \A v \in Works : bk'[v].pub = bk[v].pub /\ bk'[v].proc = bk[v].proc /\ bk'[v].rev = bk[v].rev BY <1>3, <1>5
<1> QED BY <1>1, <1>7, <1>8, <1>9, <1>10, OutsideStep

LEMMA BackgroundStep ==
    ASSUME ImportsInv, UNCHANGED <<dlv, jr, rec, auth, lane, recon, need>>,
           NEW w \in Works,
           \/ LeaseExpires(w) \/ OwnerLost(w) \/ Dispatch(w) \/ JobEnds(w)
    PROVE  ImportsInv'
<1>1. claim' \in [Works -> [kind : {Void, "wait-owner", "reconcile", "new"}, lease : BOOLEAN]]
      /\ ticket' \in [Works -> Sample]
      /\ \A v \in Works : ticket[v] \in {Void, "interrupted", "dropped"} => ticket'[v] = ticket[v]
 <2>1. claim \in [Works -> [kind : {Void, "wait-owner", "reconcile", "new"}, lease : BOOLEAN]] /\ ticket \in [Works -> Sample]
   BY DEF ImportsInv, ImportTypes
 <2>2. LeaseExpires(w) => claim' = [claim EXCEPT ![w].lease = FALSE] /\ ticket' = ticket BY DEF LeaseExpires
 <2>3. OwnerLost(w) => UNCHANGED <<claim, ticket>> BY DEF OwnerLost
 <2>4. Dispatch(w) => /\ claim' = claim /\ ticket[w] = "queued" /\ ticket' = [ticket EXCEPT ![w] = "running"]
   BY DEF Dispatch
 <2>5. JobEnds(w) => /\ claim' = claim /\ ticket[w] \in {"running", "queued"}
                     /\ \E x \in {"done", "interrupted", "dropped"} : ticket' = [ticket EXCEPT ![w] = x]
   BY DEF JobEnds
 <2>6. claim' = [claim EXCEPT ![w].lease = FALSE] =>
         claim' \in [Works -> [kind : {Void, "wait-owner", "reconcile", "new"}, lease : BOOLEAN]] BY <2>1
 <2>7. ASSUME NEW x \in {"running", "done", "interrupted", "dropped"}, ticket' = [ticket EXCEPT ![w] = x],
              ticket[w] \in {"running", "queued"}
       PROVE  /\ ticket' \in [Works -> Sample]
              /\ \A v \in Works : ticket[v] \in {Void, "interrupted", "dropped"} => ticket'[v] = ticket[v]
   BY <2>1, <2>7 DEF Sample, Void
 <2> QED BY <2>1, <2>2, <2>3, <2>4, <2>5, <2>6, <2>7
<1>2. bk' \in [Works -> Backend] /\ \A v \in Works : /\ bk'[v].pub = bk[v].pub /\ bk'[v].proc = bk[v].proc
                                                     /\ bk'[v].rev = bk[v].rev /\ bk'[v].failed = bk[v].failed
 <2>1. CASE bk' = bk BY <2>1 DEF ImportsInv, ImportTypes
 <2>2. CASE OwnerLost(w)
  <3> DEFINE b == [bk[w] EXCEPT !.mine = FALSE]
  <3>1. bk[w] \in Backend /\ bk' = [bk EXCEPT ![w] = b] BY <2>2 DEF ImportsInv, ImportTypes, OwnerLost
  <3>2. b \in Backend /\ b.pub = bk[w].pub /\ b.proc = bk[w].proc /\ b.rev = bk[w].rev /\ b.failed = bk[w].failed
    BY <3>1 DEF Backend
  <3> HIDE DEF b
  <3> QED BY <3>1, <3>2, BackendIs DEF ImportsInv
 <2> QED BY <2>1, <2>2 DEF LeaseExpires, Dispatch, JobEnds
<1>3. ImportTypes' BY <1>1, <1>2 DEF ImportsInv, ImportTypes
<1>4. \A v \in Works : Refused(v)' BY <1>2 DEF ImportsInv, WorkInv, Refused
<1>5. \A t \in Passes : lane[t].at # Void /\ lane[t].del => dlv'[W(t)] = "pending" BY DEF ImportsInv, LaneInv
<1> QED BY <1>1, <1>2, <1>3, <1>4, <1>5, OutsideStep

\* The reconciliation has the lanes of its records, so what it does with them disturbs no pass.
LEMMA ReconciliationStep ==
    ASSUME ImportsInv, ImportTypes', UNCHANGED <<dlv, jr, lane>>, ReconInv',
           \A v \in Works : WorkInv(v)',
           \A t \in Passes : InLane(t) => rec'[W(t)] = rec[W(t)] /\ W(t) \notin recon.works'
    PROVE  ImportsInv'
<1>1. ASSUME NEW t \in Passes
      PROVE  LaneInv(t)'
 <2>1. LaneInv(t) /\ W(t)' = W(t) /\ (InLane(t)' <=> InLane(t)) /\ lane'[t] = lane[t] BY DEF ImportsInv, InLane, W
 <2>2. CASE InLane(t) BY <2>1, <2>2 DEF LaneInv, InLane, RecordStands
 <2>3. CASE ~InLane(t)
  <3>1. lane[t].at \in {Void, "confirm"} BY <2>3 DEF InLane
  <3> QED BY <2>1, <2>3, <3>1 DEF LaneInv, Early, Void
 <2> QED BY <2>2, <2>3
<1>2. LanesApart' BY DEF ImportsInv, LanesApart, InLane, W
<1> QED BY <1>1, <1>2 DEF ImportsInv

LEMMA ReconcileStep ==
    ASSUME ImportsInv, Reconcile
    PROVE  ImportsInv'
<1>1. /\ UNCHANGED <<dlv, claim, jr, rec, ticket, lane, need, bk>>
      /\ (\A w \in Records : LaneFree(w)) /\ auth' = auth \ Records
      /\ recon' = [at |-> "inspect", works |-> Records, left |-> Records, group |-> {}] BY DEF Reconcile
<1>2. Records \subseteq Works /\ \A w \in Records : rec[w].on BY DEF Records
<1>3. ImportTypes' BY <1>1, <1>2 DEF ImportsInv, ImportTypes
<1>4. \A v \in Works : WorkInv(v)' BY <1>1, SameWork DEF ImportsInv
<1>5. ReconInv' BY <1>1, <1>2 DEF ReconInv, Void
<1>6. ASSUME NEW t \in Passes, InLane(t)
      PROVE  W(t) \notin Records BY <1>1, <1>6 DEF LaneFree, InLane, W
<1> QED BY <1>1, <1>3, <1>4, <1>5, <1>6, ReconciliationStep

LEMMA InspectRecordStep ==
    ASSUME ImportsInv, NEW w \in Works, InspectRecord(w)
    PROVE  ImportsInv'
<1>1. UNCHANGED <<dlv, claim, jr, ticket, auth, lane, need,
                  bk>> /\ recon.at = "inspect" /\ w \in recon.left BY DEF InspectRecord
<1>2. ImportTypes /\ WorkInv(w) /\ ReconInv /\ rec[w] \in Receipt /\ rec[w].on /\ w \in recon.works /\ w \notin auth /\ w \notin recon.group
  BY <1>1 DEF ImportsInv, ImportTypes, ReconInv
<1>3. PICK r \in Receipt :
        /\ PutRecord(w, r)
        /\ \/ /\ r.on = TRUE /\ r.rev = rec[w].rev /\ r.acked = rec[w].acked /\ r.proc = rec[w].proc
              /\ r.pubDone = rec[w].pubDone /\ r.procDone = rec[w].procDone /\ r.hold = rec[w].hold
              /\ r.seen = rec[w].seen /\ r.link = rec[w].link
              /\ recon' = [recon EXCEPT !.left = recon.left \ {w}, !.group = recon.group \cup {w}]
           \/ recon' = [recon EXCEPT !.left = recon.left \ {w}] /\ r.on = FALSE
           \/ /\ r.on = TRUE /\ r.rev = rec[w].rev /\ r.acked = rec[w].acked /\ r.proc = rec[w].proc
              /\ r.pubDone = rec[w].pubDone /\ r.procDone = rec[w].procDone /\ r.hold = rec[w].hold
              /\ r.seen = rec[w].seen /\ r.link = rec[w].link
              /\ recon' = [recon EXCEPT !.left = recon.left \ {w}]
 <2>1. CASE PutRecord(w, [rec[w] EXCEPT !.required = TRUE])
            /\ recon' = [recon EXCEPT !.left = recon.left \ {w}, !.group = recon.group \cup {w}]
  <3> DEFINE r == [rec[w] EXCEPT !.required = TRUE]
  <3>1. /\ r \in Receipt /\ r.on = TRUE /\ r.rev = rec[w].rev /\ r.acked = rec[w].acked /\ r.proc = rec[w].proc
        /\ r.pubDone = rec[w].pubDone /\ r.procDone = rec[w].procDone /\ r.hold = rec[w].hold
        /\ r.seen = rec[w].seen /\ r.link = rec[w].link BY <1>2 DEF Receipt
  <3>2. PutRecord(w, r) BY <2>1
  <3> HIDE DEF r
  <3> QED BY <2>1, <3>1, <3>2
 <2>2. CASE recon' = [recon EXCEPT !.left = recon.left \ {w}] /\ PutRecord(w, [rec[w] EXCEPT !.required = TRUE, !.owner = TRUE])
  <3> DEFINE r == [rec[w] EXCEPT !.required = TRUE, !.owner = TRUE]
  <3>1. /\ r \in Receipt /\ r.on = TRUE /\ r.rev = rec[w].rev /\ r.acked = rec[w].acked /\ r.proc = rec[w].proc
        /\ r.pubDone = rec[w].pubDone /\ r.procDone = rec[w].procDone /\ r.hold = rec[w].hold
        /\ r.seen = rec[w].seen /\ r.link = rec[w].link BY <1>2 DEF Receipt
  <3>2. PutRecord(w, r) BY <2>2
  <3> HIDE DEF r
  <3> QED BY <2>2, <3>1, <3>2
 <2>3. CASE recon' = [recon EXCEPT !.left = recon.left \ {w}] /\ PutRecord(w, NoRecord)
  <3>1. NoRecord \in Receipt /\ NoRecord.on = FALSE BY DEF NoRecord, Receipt, Sample
  <3> QED BY <2>3, <3>1
 <2> QED BY <2>1, <2>2, <2>3 DEF InspectRecord
<1>4. rec' \in [Works -> Receipt] /\ rec'[w] = r /\ \A v \in Works \ {w} : rec'[v] = rec[v] BY <1>2, <1>3, PutRecordIs
<1>5. WorkInv(w)'
 <2>1. CASE r.on = FALSE BY <1>1, <1>2, <1>4, <2>1 DEF WorkInv, Permitted, Recorded, Released, Refused
 <2>2. CASE /\ r.on = TRUE /\ r.rev = rec[w].rev /\ r.acked = rec[w].acked /\ r.proc = rec[w].proc
            /\ r.pubDone = rec[w].pubDone /\ r.procDone = rec[w].procDone /\ r.hold = rec[w].hold
            /\ r.seen = rec[w].seen /\ r.link = rec[w].link
   BY <1>1, <1>2, <1>4, <2>2 DEF WorkInv, Permitted, Recorded, Released, Refused
 <2> QED BY <1>3, <2>1, <2>2
<1>6. \A v \in Works : WorkInv(v)' BY <1>1, <1>4, <1>5, SameWork DEF ImportsInv
<1>7. /\ recon' \in [at : {Void, "inspect", "restore"}, works : SUBSET Works, left : SUBSET Works, group : SUBSET Works]
      /\ recon'.at = "inspect" /\ recon'.works = recon.works /\ recon'.left = recon.left \ {w}
      /\ recon'.group = recon.group \/ (r.on /\ recon'.group = recon.group \cup {w})
 <2>1. recon \in [at : {Void, "inspect", "restore"}, works : SUBSET Works, left : SUBSET Works, group : SUBSET Works]
   BY <1>2 DEF ImportTypes
 <2> DEFINE less == recon.left \ {w}
            more == recon.group \cup {w}
 <2>2. less \in SUBSET Works /\ more \in SUBSET Works BY <2>1
 <2>3. \/ recon' = [recon EXCEPT !.left = less]
       \/ r.on /\ recon' = [recon EXCEPT !.left = less, !.group = more] BY <1>3
 <2> HIDE DEF less, more
 <2>4. CASE recon' = [recon EXCEPT !.left = less]
  <3>1. /\ recon' \in [at : {Void, "inspect", "restore"}, works : SUBSET Works, left : SUBSET Works, group : SUBSET Works]
        /\ recon'.at = recon.at /\ recon'.works = recon.works /\ recon'.left = less /\ recon'.group = recon.group
    BY <2>1, <2>2, <2>4
  <3> QED BY <1>1, <3>1 DEF less
 <2>5. CASE r.on /\ recon' = [recon EXCEPT !.left = less, !.group = more]
  <3>1. /\ recon' \in [at : {Void, "inspect", "restore"}, works : SUBSET Works, left : SUBSET Works, group : SUBSET Works]
        /\ recon'.at = recon.at /\ recon'.works = recon.works /\ recon'.left = less /\ recon'.group = more
    BY <2>1, <2>2, <2>5
  <3> QED BY <1>1, <2>5, <3>1 DEF less, more
 <2> QED BY <2>3, <2>4, <2>5
<1>8. ImportTypes' BY <1>1, <1>2, <1>4, <1>7 DEF ImportTypes
<1>9. \A v \in recon.left \cup recon.group : v \in Works /\ (v # w => rec'[v].on)
  BY <1>2, <1>4 DEF ReconInv, ImportTypes
<1>10. ReconInv' BY <1>1, <1>2, <1>4, <1>7, <1>9 DEF ReconInv, Void
<1>11. ASSUME NEW t \in Passes, InLane(t)
       PROVE  rec'[W(t)] = rec[W(t)] /\ W(t) \notin recon.works' BY <1>2, <1>4, <1>7, <1>11, InLaneIs
<1> QED BY <1>1, <1>6, <1>8, <1>10, <1>11, ReconciliationStep

LEMMA SendBatchStep ==
    ASSUME ImportsInv, SendBatch
    PROVE  ImportsInv'
<1>1. /\ UNCHANGED <<dlv, claim, jr, rec, ticket, auth, lane, need>> /\ ImportTypes /\ ReconInv
      /\ recon.at = "inspect" /\ recon.left = {}
      /\ bk' = [w \in Works |-> IF w \in recon.group /\ bk[w].mine
                                THEN [bk[w] EXCEPT !.rev = rec[w].rev, !.seen = rec[w].seen] ELSE bk[w]]
      /\ recon' = [recon EXCEPT !.at = "restore", !.left = {w \in recon.group : bk[w].mine}]
  BY DEF SendBatch, ImportsInv
<1>2. ASSUME NEW v \in Works
      PROVE  /\ bk'[v] \in Backend /\ bk'[v].pub = bk[v].pub /\ bk'[v].proc = bk[v].proc /\ bk'[v].failed = bk[v].failed
             /\ bk'[v].rev \in {bk[v].rev, rec[v].rev} /\ (v \in recon.group /\ bk[v].mine => bk'[v].rev = rec[v].rev)
 <2>1. bk[v] \in Backend /\ rec[v] \in Receipt BY <1>1 DEF ImportTypes
 <2> DEFINE b == [bk[v] EXCEPT !.rev = rec[v].rev, !.seen = rec[v].seen]
 <2>2. b \in Backend /\ b.pub = bk[v].pub /\ b.proc = bk[v].proc /\ b.failed = bk[v].failed /\ b.rev = rec[v].rev
   BY <2>1 DEF Backend, Receipt
 <2>3. bk'[v] = IF v \in recon.group /\ bk[v].mine THEN b ELSE bk[v] BY <1>1
 <2> HIDE DEF b
 <2> QED BY <2>1, <2>2, <2>3
<1>3. bk' \in [Works -> Backend] BY <1>1, <1>2
<1>4. ASSUME NEW v \in Works
      PROVE  WorkInv(v)'
 <2>1. WorkInv(v) /\ rec'[v] = rec[v] /\ jr'[v] = jr[v] /\ dlv'[v] = dlv[v] /\ (v \in auth' <=> v \in auth)
   BY <1>1 DEF ImportsInv
 <2>2. Permitted(v)' /\ Refused(v)' /\ (v \in auth => RecordStands(v))'
   BY <1>1, <1>2, <2>1 DEF WorkInv, Permitted, Refused, RecordStands
 <2>3. Recorded(v)'
  <3>1. bk'[v].pub = bk[v].pub /\ bk'[v].proc = bk[v].proc /\ bk'[v].rev \in {bk[v].rev, rec[v].rev} BY <1>2
  <3> QED BY <2>1, <3>1 DEF WorkInv, Recorded
 <2>4. Released(v)' BY <1>1, <1>2, <2>1 DEF WorkInv, Released
 <2> QED BY <2>2, <2>3, <2>4 DEF WorkInv
<1>5. /\ recon' \in [at : {Void, "inspect", "restore"}, works : SUBSET Works, left : SUBSET Works, group : SUBSET Works]
      /\ recon'.at = "restore" /\ recon'.works = recon.works /\ recon'.left = {w \in recon.group : bk[w].mine}
      /\ recon'.group = recon.group
 <2>1. recon \in [at : {Void, "inspect", "restore"}, works : SUBSET Works, left : SUBSET Works, group : SUBSET Works]
   BY <1>1 DEF ImportTypes
 <2> QED BY <1>1, <2>1
<1>6. ImportTypes' BY <1>1, <1>3, <1>5 DEF ImportTypes
<1>7. ReconInv'
 <2>1. recon.group \subseteq Works BY <1>1 DEF ImportTypes
 <2>2. \A v \in recon'.left : v \in Works /\ v \in recon.group /\ bk'[v].rev = rec[v].rev BY <1>2, <1>5, <2>1
 <2>3. recon'.left \subseteq recon.group BY <1>5
 <2>4. rec' = rec BY <1>1
 <2> QED
  <3>1. recon'.left \subseteq recon'.works /\ recon'.group \subseteq recon'.works BY <1>1, <1>5 DEF ReconInv
  <3>2. \A v \in recon'.left \cup recon'.group : rec'[v].on BY <1>1, <1>5, <2>3, <2>4 DEF ReconInv
  <3>3. recon'.at = "restore" /\ recon'.left \subseteq recon'.group /\ \A v \in recon'.left : bk'[v].rev = rec'[v].rev
    BY <1>5, <2>2, <2>3, <2>4
  <3> QED BY <3>1, <3>2, <3>3 DEF ReconInv, Void
<1>8. ASSUME NEW t \in Passes, InLane(t)
      PROVE  W(t) \notin recon.works' BY <1>5, <1>8, InLaneIs
<1> QED BY <1>1, <1>4, <1>6, <1>7, <1>8, ReconciliationStep

LEMMA RestoreStep ==
    ASSUME ImportsInv, NEW w \in Works, Restore(w)
    PROVE  ImportsInv'
<1> DEFINE r == [rec[w] EXCEPT !.required = FALSE, !.owner = FALSE, !.acked = rec[w].rev, !.ackSeen = rec[w].seen]
<1>1. /\ UNCHANGED <<dlv, claim, jr, ticket, lane, need,
                     bk>> /\ recon.at = "restore" /\ w \in recon.left
      /\ PutRecord(w, r) /\ recon' = [recon EXCEPT !.left = recon.left \ {w}]
      /\ auth' = IF rec[w].proc = "ticket" THEN auth \cup {w} ELSE auth BY DEF Restore
<1>2. /\ ImportTypes /\ WorkInv(w) /\ ReconInv /\ rec[w] \in Receipt /\ rec[w].on /\ w \in recon.works
      /\ bk[w].rev = rec[w].rev BY <1>1 DEF ImportsInv, ImportTypes, ReconInv
<1>3. /\ r \in Receipt /\ r.on = TRUE /\ r.required = FALSE /\ r.owner = FALSE
      /\ r.rev = rec[w].rev /\ r.acked = rec[w].rev /\ r.proc = rec[w].proc
      /\ r.pubDone = rec[w].pubDone /\ r.procDone = rec[w].procDone /\ r.hold = rec[w].hold
      /\ r.seen = rec[w].seen /\ r.link = rec[w].link BY <1>2 DEF Receipt
<1> HIDE DEF r
<1>4. rec' \in [Works -> Receipt] /\ rec'[w] = r /\ \A v \in Works \ {w} : rec'[v] = rec[v]
  BY <1>1, <1>2, <1>3, PutRecordIs
<1>5. auth' \subseteq Works /\ \A v \in Works \ {w} : v \in auth' => v \in auth BY <1>1, <1>2 DEF ImportTypes
<1>6. WorkInv(w)'
 <2>1. rec[w].rev <= rec[w].rev BY <1>2 DEF Receipt
 <2>2. RecordStands(w)' /\ Permitted(w)' /\ Refused(w)'
   BY <1>1, <1>2, <1>3, <1>4 DEF RecordStands, WorkInv, Permitted, Refused
 <2>3. Recorded(w)' BY <1>1, <1>2, <1>3, <1>4, <2>1 DEF WorkInv, Recorded
 <2>4. Released(w)' BY <1>1, <1>2, <1>3, <1>4 DEF WorkInv, Released
 <2> QED BY <2>2, <2>3, <2>4 DEF WorkInv
<1>7. \A v \in Works : WorkInv(v)' BY <1>1, <1>4, <1>5, <1>6, SameWork DEF ImportsInv
<1>8. /\ recon' \in [at : {Void, "inspect", "restore"}, works : SUBSET Works, left : SUBSET Works, group : SUBSET Works]
      /\ recon'.at = "restore" /\ recon'.works = recon.works /\ recon'.left = recon.left \ {w}
      /\ recon'.group = recon.group
 <2>1. recon \in [at : {Void, "inspect", "restore"}, works : SUBSET Works, left : SUBSET Works, group : SUBSET Works]
   BY <1>2 DEF ImportTypes
 <2> QED BY <1>1, <2>1
<1>9. ImportTypes' BY <1>1, <1>2, <1>4, <1>5, <1>8 DEF ImportTypes
<1>10. \A v \in recon.left \cup recon.group : v \in Works /\ rec'[v].on /\ rec'[v].rev = rec[v].rev
  BY <1>2, <1>3, <1>4 DEF ReconInv, ImportTypes
<1>11. ReconInv' BY <1>1, <1>2, <1>8, <1>10 DEF ReconInv, Void
<1>12. ASSUME NEW t \in Passes, InLane(t)
       PROVE  rec'[W(t)] = rec[W(t)] /\ W(t) \notin recon.works' BY <1>2, <1>4, <1>8, <1>12, InLaneIs
<1> QED BY <1>1, <1>7, <1>9, <1>11, <1>12, ReconciliationStep

LEMMA ReconEndsStep ==
    ASSUME ImportsInv, BatchReconciled \/ ReconcileFails
    PROVE  ImportsInv'
<1>1. UNCHANGED <<dlv, claim, jr, rec, ticket, auth, lane,
                  bk>> /\ recon' = Calm /\ need' \in BOOLEAN
  BY DEF BatchReconciled, ReconcileFails, ImportsInv, ImportTypes
<1>2. ImportTypes' BY <1>1 DEF ImportsInv, ImportTypes, Calm
<1>3. \A v \in Works : WorkInv(v)' BY <1>1, SameWork DEF ImportsInv
<1>4. ReconInv' /\ recon'.works = {} BY <1>1 DEF ReconInv, Calm, Void
<1> QED BY <1>1, <1>2, <1>3, <1>4, ReconciliationStep

\* A restart finds what is stored, and lets go of every lane.
LEMMA ImportRestartStep ==
    ASSUME ImportsInv, ImportRestart
    PROVE  ImportsInv'
<1>1. /\ auth' = {} /\ lane' = [t \in Passes |-> Free] /\ recon' = Calm /\ need' = TRUE /\ UNCHANGED <<
                                                                                                       dlv,
                                                                                                       claim,
                                                                                                       bk>>
      /\ ImportTypes BY DEF ImportRestart, ImportsInv
<1>2. PICK s \in SUBSET {w \in Works : jr[w].st = "indeterminate"} :
         /\ jr' = [w \in Works |-> IF w \in s THEN [jr[w] EXCEPT !.st = "committed"] ELSE jr[w]]
         /\ rec' = [w \in Works |-> IF w \in s THEN FirstRevision(w) ELSE rec[w]]
         /\ ticket' = [w \in Works |-> IF w \in s /\ jr[w].adm = "ticket" THEN "queued" ELSE ticket[w]]
  BY DEF ImportRestart
<1>3. ASSUME NEW w \in Works
      PROVE  WorkInv(w)' /\ jr'[w] \in Journal /\ rec'[w] \in Receipt /\ ticket'[w] \in Sample
 <2>1. jr[w] \in Journal /\ rec[w] \in Receipt /\ ticket[w] \in Sample /\ WorkInv(w) /\ w \notin auth' /\ "queued" \in Sample
   BY <1>1 DEF ImportTypes, ImportsInv, Sample
 <2>2. CASE w \notin s
  <3>1. jr'[w] = jr[w] /\ rec'[w] = rec[w] /\ ticket'[w] = ticket[w] BY <1>2, <2>2
  <3> QED BY <1>1, <2>1, <3>1, SameWork
 <2>3. CASE w \in s
  <3> DEFINE j == [jr[w] EXCEPT !.st = "committed"]
             r == FirstRevision(w)
  <3>1. /\ jr'[w] = j /\ rec'[w] = r /\ ticket'[w] \in Sample /\ jr[w].st = "indeterminate"
        /\ jr[w].adm # "ticket" => ticket'[w] = ticket[w] BY <1>2, <2>1, <2>3
  <3>2. j \in Journal /\ j.st = "committed" /\ j.proc = jr[w].proc /\ j.adm = jr[w].adm /\ j.procAsked = jr[w].procAsked
    BY <2>1 DEF Journal
  <3>3. /\ r \in Receipt /\ r.on = TRUE /\ r.rev = 1 /\ r.acked = 0 /\ r.proc = jr[w].adm
        /\ r.pubDone = FALSE /\ r.procDone = FALSE /\ r.hold = TRUE /\ r.seen = Void
    BY <2>1 DEF FirstRevision, NoRecord, Receipt, Journal, Sample, Void
  <3> HIDE DEF j, r
  <3>4. jr[w].adm # Void /\ dlv[w] \notin {"failure-reporting", "failed"} /\ ~bk[w].failed
    BY <2>1, <3>1 DEF WorkInv, Permitted, Refused, Void
  <3>5. WorkInv(w)' BY <1>1, <2>1, <3>1, <3>2, <3>3, <3>4 DEF WorkInv, Permitted, Recorded, Released, Refused, Void
  <3> QED BY <3>1, <3>2, <3>3, <3>5
 <2> QED BY <2>2, <2>3
<1>4. jr' \in [Works -> Journal] /\ rec' \in [Works -> Receipt] /\ ticket' \in [Works -> Sample] BY <1>2, <1>3
<1>5. ImportTypes' BY <1>1, <1>4 DEF ImportTypes, Free, Calm, Lanes
<1>6. \A t \in Passes : lane'[t].at = Void BY <1>1 DEF Free
<1>7. (\A t \in Passes : LaneInv(t)') /\ LanesApart' BY <1>6, FreeLane DEF LanesApart, InLane
<1>8. ReconInv' BY <1>1 DEF ReconInv, Calm, Void
<1> QED BY <1>3, <1>5, <1>7, <1>8 DEF ImportsInv

LEMMA ImportsBegin == ImportInit => ImportsInv
<1> SUFFICES ASSUME ImportInit
             PROVE  ImportsInv OBVIOUS
<1>1. /\ \A w \in Works : jr[w] = NoJournal /\ rec[w] = NoRecord /\ dlv[w] = Void /\ ticket[w] = Void
      /\ \A w \in Works : bk[w] = [mine |-> TRUE, pub |-> Void, proc |-> Void, rev |-> 0, seen |-> Void, failed |-> FALSE]
      /\ auth = {} /\ (\A t \in Passes : lane[t] = Free) /\ recon = Calm BY DEF ImportInit
<1>2. ImportTypes
 <2>1. NoJournal \in Journal /\ NoRecord \in Receipt
       /\ [mine |-> TRUE, pub |-> Void, proc |-> Void, rev |-> 0, seen |-> Void, failed |-> FALSE] \in Backend
   BY DEF NoJournal, Journal, NoRecord, Receipt, Sample, Backend
 <2> QED BY <2>1 DEF ImportInit, ImportTypes, Free, Calm, Lanes, Sample
<1>3. \A w \in Works : WorkInv(w)
  BY <1>1 DEF WorkInv, Permitted, Recorded, Released, Refused, NoJournal, NoRecord, Void
<1>4. (\A t \in Passes : LaneInv(t)) /\ LanesApart BY <1>1 DEF LaneInv, LanesApart, InLane, Early, Free, Void
<1>5. ReconInv BY <1>1 DEF ReconInv, Calm, Void
<1> QED BY <1>2, <1>3, <1>4, <1>5 DEF ImportsInv

LEMMA ImportsStep == ImportsInv /\ [ImportNext]_impVars => ImportsInv'
<1> SUFFICES ASSUME ImportsInv, [ImportNext]_impVars
             PROVE  ImportsInv' OBVIOUS
<1> USE DEF Passes
<1>1. ASSUME NEW w \in Works,
             \/ ClaimPage(w) \/ LeaseExpires(w) \/ OwnerLost(w) \/ Deliver(w) \/ ReportFailure(w)
             \/ InspectRecord(w) \/ Restore(w) \/ Dispatch(w) \/ JobEnds(w)
             \/ \E t \in Passes : RetryReceipt(t, w)
      PROVE  ImportsInv'
 <2>1. LeaseExpires(w) \/ OwnerLost(w) \/ Dispatch(w) \/ JobEnds(w) => UNCHANGED <<dlv, jr, rec,
                                                                                   auth, lane,
                                                                                   recon, need>>
   BY DEF LeaseExpires, OwnerLost, Dispatch, JobEnds
 <2> QED BY <1>1, <2>1, ClaimPageStep, BackgroundStep, DeliverStep, ReportFailureStep, InspectRecordStep, RestoreStep,
      RetryReceiptStep
<1>2. CASE StageImport \/ HavePublication \/ Publish \/ PublishUnproved \/ DeliveryFails \/ DeliveryWaits
  BY <1>2, StageImportStep, HavePublicationStep, PublishStep, PublishUnprovedStep, DeliveryFailsStep,
     DeliveryWaitsStep
<1>3. CASE Ask("run", "publication") \/ Ask("run", "processing") \/ Admit("run") \/ HaveProcessing("run") \/ AdmitLater("run")
  BY <1>3, AskPublicationStep, AskProcessingStep, AdmitStep, HaveProcessingStep, AdmitLaterStep
<1>4. ASSUME NEW t \in Passes,
             Observe(t) \/ AfterReconcile(t) \/ AckExpired(t) \/ Ack(t) \/ SettlePublication(t) \/ SettleProcessing(t) \/ EndSettle(t)
      PROVE  ImportsInv'
  BY <1>4, SampleStep, AfterReconcileStep, AckExpiredStep, AckStep, SettlePublicationStep, SettleProcessingStep,
     EndSettleStep
<1>5. CASE Reconcile \/ SendBatch \/ BatchReconciled \/ ReconcileFails \/ ImportRestart
  BY <1>5, ReconcileStep, SendBatchStep, ReconEndsStep, ImportRestartStep
<1>6. CASE UNCHANGED impVars
 <2>1. ImportTypes' BY <1>6 DEF ImportsInv, ImportTypes, impVars
 <2>2. \A v \in Works : Refused(v)' BY <1>6 DEF ImportsInv, WorkInv, Refused, impVars
 <2>3. \A t \in Passes : lane[t].at # Void /\ lane[t].del => dlv'[W(t)] = "pending"
   BY <1>6 DEF ImportsInv, LaneInv, impVars
 <2> QED BY <1>6, <2>1, <2>2, <2>3, OutsideStep DEF impVars
<1> QED BY <1>1, <1>2, <1>3, <1>4, <1>5, <1>6 DEF ImportNext

\* A source is held until the backend has both permits settled and the very receipt the
\* record holds, but for the id of a job that was interrupted (releaseSourceIfSettled); a
\* ticket is dispatched only under a record that stands (reconcile and ack revoke it
\* first); and a delivery reported as failed has no change on record and none in doubt
\* (failure), for any works, lost answers, lost owners and restarts.
THEOREM ImportsAreKept == ImportSpec => []ImportPromises
<1>1. ImportsInv => ImportPromises
 <2> SUFFICES ASSUME ImportsInv
              PROVE  ImportPromises OBVIOUS
 <2>1. ASSUME NEW w \in Works, rec[w].on, ~rec[w].hold
       PROVE  /\ bk[w].pub = "completed" /\ (bk[w].proc # Void => bk[w].proc = "settled")
              /\ \/ bk[w].rev = rec[w].rev
                 \/ ticket[w] = "interrupted" /\ rec[w].link /\ bk[w].rev + 1 = rec[w].rev
              /\ rec[w].proc # "awaiting"
  <3>1. Permitted(w) /\ Recorded(w) /\ Released(w) /\ rec[w] \in Receipt BY <2>1 DEF ImportsInv, WorkInv, ImportTypes
  <3>2. rec[w].proc \in {"skipped", "ticket"} /\ rec[w].proc = jr[w].adm BY <2>1, <3>1 DEF Recorded, Released, Receipt
  <3>3. bk[w].proc # Void => jr[w].proc BY <3>1, <3>2 DEF Permitted
  <3> QED BY <2>1, <3>1, <3>3 DEF Recorded, Released
 <2>2. AuthorityStands BY DEF ImportsInv, ImportTypes, WorkInv, AuthorityStands
 <2>3. FailureIsCertain BY DEF ImportsInv, WorkInv, Refused, FailureIsCertain
 <2> QED BY <2>1, <2>2, <2>3 DEF ImportPromises, HeldUntilSettled
<1> QED BY <1>1, ImportsBegin, ImportsStep, PTL DEF ImportSpec

--------------------
\* Voxels: what is reachable can be read, one winner, slots come back

RunSteps == {"none", "accepted", "computed", "reserved", "staged", "uploading", "uploaded", "registered",
             "associating", "ending"}
Phases == {"none", "accepted", "generating", "publishing", "associating", "ready", "failed"}
Outcomes == {"none", "unknown", "committed", "conflict", "failed"}
Registrations == {"none", "staging", "publishing", "ready", "failed", "unresolved"}
Verdicts == {"unchecked", "checking", "verified", "unavailable", "blocked"}
UploadStates == {"none", "publishing", "failed", "committed", "indeterminate"}
ByteStates == {"none", "held", "free", "gone"}
JobStates == {"none", "queued", "active"}
VoxRecord == [task : RunSteps, phase : Phases, linked : BOOLEAN, outcome : Outcomes, base : Nat,
              hold : BOOLEAN, pub : Registrations, ver : Verdicts, link : BOOLEAN,
              recovering : BOOLEAN, deleted : BOOLEAN, cleaned : BOOLEAN, upload : UploadStates,
              file : BOOLEAN, bytes : ByteStates, job : JobStates, reading : BOOLEAN, since : BOOLEAN]

\* The manifest may be in the workspace: its upload has begun and is not known to have failed.
MayStand(v) == v.upload \in {"publishing", "indeterminate", "committed"}

\* How far the manifest's upload is at each step of the run.
UploadInStep(v) ==
    /\ v.phase = "none" => v.task = "none" /\ v.upload = "none"
    /\ v.task \in {"accepted", "computed", "reserved", "staged"} => v.upload = "none"
    /\ v.task = "uploading" => v.upload = "publishing"
    /\ v.task \in {"uploaded", "registered", "associating"} => v.upload = "committed"
    /\ v.file => MayStand(v)

\* The captures are held from the staging on, for as long as the manifest may stand and
\* nobody has deleted the registration.
BytesHeld(v) ==
    /\ v.task = "staged" \/ MayStand(v) => v.deleted \/ v.bytes = "held"
    /\ v.reading => v.bytes \in {"held", "free"}

\* Only what has a committed manifest is ready or recovered; jobs work on nothing else.
ReadyIsCommitted(v) ==
    /\ v.task \in {"registered", "associating"} => v.pub = "ready"
    /\ v.pub = "ready" \/ v.recovering => v.upload = "committed"
    /\ v.recovering => v.task = "none" /\ v.pub = "publishing"
    /\ v.job # "none" /\ ~v.recovering => v.pub = "ready"

\* An association that is committed is the last thing a run does, and stays.
WonIsReady(v) == v.outcome = "committed" => v.task \in {"none", "ending"} /\ v.pub = "ready" /\ v.phase = "ready"

VoxInv(v) == UploadInStep(v) /\ BytesHeld(v) /\ ReadyIsCommitted(v) /\ WonIsReady(v)

\* A save names a revision it saw, and the head moves on when the save wins.
BaseInv(v, rev) == v.base <= rev /\ (v.outcome = "committed" => v.base < rev)

VoxelsInv ==
    /\ vox \in [Saves -> VoxRecord] /\ headRev \in Nat /\ inspecting \in BOOLEAN
    /\ \A s \in Saves : VoxInv(vox[s]) /\ BaseInv(vox[s], headRev)
    /\ headOf # NoSave => headOf \in Saves /\ vox[headOf].outcome = "committed"
    /\ VoxelsSettle

LEMMA VoxValues ==
    /\ "none" \in RunSteps /\ "accepted" \in RunSteps /\ "computed" \in RunSteps /\ "reserved" \in RunSteps
    /\ "staged" \in RunSteps /\ "uploading" \in RunSteps /\ "uploaded" \in RunSteps /\ "registered" \in RunSteps
    /\ "associating" \in RunSteps /\ "ending" \in RunSteps
    /\ "accepted" \in Phases /\ "generating" \in Phases /\ "publishing" \in Phases /\ "associating" \in Phases
    /\ "ready" \in Phases /\ "failed" \in Phases
    /\ "unknown" \in Outcomes /\ "committed" \in Outcomes /\ "conflict" \in Outcomes /\ "failed" \in Outcomes
    /\ "staging" \in Registrations /\ "publishing" \in Registrations /\ "ready" \in Registrations
    /\ "failed" \in Registrations /\ "unresolved" \in Registrations
    /\ "unchecked" \in Verdicts /\ "checking" \in Verdicts /\ "verified" \in Verdicts
    /\ "unavailable" \in Verdicts /\ "blocked" \in Verdicts
    /\ "publishing" \in UploadStates /\ "failed" \in UploadStates /\ "committed" \in UploadStates
    /\ "indeterminate" \in UploadStates
    /\ "held" \in ByteStates /\ "free" \in ByteStates /\ "gone" \in ByteStates
    /\ "none" \in JobStates /\ "queued" \in JobStates /\ "active" \in JobStates
BY DEF RunSteps, Phases, Outcomes, Registrations, Verdicts, UploadStates, ByteStates, JobStates

LEMMA BecomeIs ==
    ASSUME vox \in [Saves -> VoxRecord], NEW s \in Saves, NEW v \in VoxRecord, Become(s, v)
    PROVE  /\ vox' \in [Saves -> VoxRecord] /\ vox'[s] = v
           /\ \A r \in Saves \ {s} : vox'[r] = vox[r] BY DEF Become

\* One member more or less, or none.
LEMMA CountFollows ==
    ASSUME IsFiniteSet(Saves), NEW S \in SUBSET Saves, NEW T \in SUBSET Saves, NEW s \in Saves,
           \A r \in Saves \ {s} : r \in S <=> r \in T
    PROVE  /\ Cardinality(S) \in Nat /\ Cardinality(T) \in Nat
           /\ Cardinality(T) = Cardinality(S) + (IF s \in T THEN 1 ELSE 0) - (IF s \in S THEN 1 ELSE 0)
<1>1. IsFiniteSet(S) /\ IsFiniteSet(T) /\ Cardinality(S) \in Nat /\ Cardinality(T) \in Nat
  BY FS_Subset, FS_CardinalityType
<1>2. CASE s \in S <=> s \in T
 <2>1. S = T BY <1>2
 <2> QED BY <1>1, <1>2, <2>1
<1>3. CASE s \notin S /\ s \in T
 <2>1. T = S \cup {s} BY <1>3
 <2>2. Cardinality(T) = Cardinality(S) + 1 BY <1>1, <1>3, <2>1, FS_AddElement
 <2> QED BY <1>1, <1>3, <2>2
<1>4. CASE s \in S /\ s \notin T
 <2>1. S = T \cup {s} BY <1>4
 <2>2. Cardinality(S) = Cardinality(T) + 1 BY <1>1, <1>4, <2>1, FS_AddElement
 <2> QED BY <1>1, <1>4, <2>2
<1> QED BY <1>2, <1>3, <1>4

\* The slots a save has.
Taken(v) == (IF v.task # "none" THEN 1 ELSE 0) + (IF v.job = "active" THEN 1 ELSE 0)
            + (IF v.reading THEN 1 ELSE 0)

LEMMA SlotsFollow ==
    ASSUME VoxelsInv, NEW s \in Saves, NEW v \in VoxRecord, Become(s, v), UNCHANGED inspecting,
           active' = active + Taken(v) - Taken(vox[s]), active' <= Workers
    PROVE  SlotsReturned'
<1> DEFINE R == {r \in Saves : vox[r].task # "none"}
           J == {r \in Saves : vox[r].job = "active"}
           D == {r \in Saves : vox[r].reading}
           I == IF inspecting THEN 1 ELSE 0
<1>1. SlotsReturned /\ vox \in [Saves -> VoxRecord] /\ IsFiniteSet(Saves) /\ I \in Nat
  BY VoxelsAssumption DEF VoxelsInv, VoxelsSettle
<1>2. vox'[s] = v /\ \A r \in Saves \ {s} : vox'[r] = vox[r] BY <1>1, BecomeIs
<1>3. /\ Cardinality(R) \in Nat /\ Cardinality(R') \in Nat
      /\ Cardinality(R') = Cardinality(R) + (IF s \in R' THEN 1 ELSE 0) - (IF s \in R THEN 1 ELSE 0)
 <2>1. R \in SUBSET Saves /\ R' \in SUBSET Saves /\ \A r \in Saves \ {s} : r \in R <=> r \in R' BY <1>2
 <2> HIDE DEF R
 <2> QED BY <1>1, <2>1, CountFollows
<1>4. /\ Cardinality(J) \in Nat /\ Cardinality(J') \in Nat
      /\ Cardinality(J') = Cardinality(J) + (IF s \in J' THEN 1 ELSE 0) - (IF s \in J THEN 1 ELSE 0)
 <2>1. J \in SUBSET Saves /\ J' \in SUBSET Saves /\ \A r \in Saves \ {s} : r \in J <=> r \in J' BY <1>2
 <2> HIDE DEF J
 <2> QED BY <1>1, <2>1, CountFollows
<1>5. /\ Cardinality(D) \in Nat /\ Cardinality(D') \in Nat
      /\ Cardinality(D') = Cardinality(D) + (IF s \in D' THEN 1 ELSE 0) - (IF s \in D THEN 1 ELSE 0)
 <2>1. D \in SUBSET Saves /\ D' \in SUBSET Saves /\ \A r \in Saves \ {s} : r \in D <=> r \in D' BY <1>2
 <2> HIDE DEF D
 <2> QED BY <1>1, <2>1, CountFollows
<1>6. /\ s \in R <=> vox[s].task # "none"
      /\ s \in R' <=> v.task # "none"
      /\ s \in J <=> vox[s].job = "active"
      /\ s \in J' <=> v.job = "active"
      /\ s \in D <=> vox[s].reading
      /\ s \in D' <=> v.reading BY <1>2
<1>7. Taken(v) = (IF s \in R' THEN 1 ELSE 0) + (IF s \in J' THEN 1 ELSE 0) + (IF s \in D' THEN 1 ELSE 0)
  BY <1>6 DEF Taken
<1>8. Taken(vox[s]) = (IF s \in R THEN 1 ELSE 0) + (IF s \in J THEN 1 ELSE 0) + (IF s \in D THEN 1 ELSE 0)
  BY <1>6 DEF Taken
<1>9. active = Cardinality(R) + Cardinality(J) + Cardinality(D) + I /\ I' = I BY <1>1 DEF SlotsReturned
<1> HIDE DEF R, J, D, I
<1>10. active' = Cardinality(R') + Cardinality(J') + Cardinality(D') + I' BY <1>1, <1>3, <1>4, <1>5, <1>7, <1>8, <1>9
<1> QED BY <1>1, <1>3, <1>4, <1>5, <1>9, <1>10 DEF SlotsReturned, R, J, D, I

\* A step of one save that settles no association.
LEMMA SaveStep ==
    ASSUME VoxelsInv, NEW s \in Saves, NEW v \in VoxRecord, Become(s, v), VoxInv(v),
           v.outcome = "committed" <=> vox[s].outcome = "committed",
           v.base <= headRev, v.outcome = "committed" => v.base = vox[s].base,
           headOf' = headOf, headRev' \in Nat, headRev <= headRev', UNCHANGED inspecting,
           active' = active + Taken(v) - Taken(vox[s]), active' <= Workers
    PROVE  VoxelsInv'
<1>1. /\ vox \in [Saves -> VoxRecord] /\ headRev \in Nat /\ OneWinner
      /\ \A r \in Saves : VoxInv(vox[r]) /\ BaseInv(vox[r], headRev)
      /\ headOf # NoSave => headOf \in Saves /\ vox[headOf].outcome = "committed" BY DEF VoxelsInv, VoxelsSettle
<1>2. /\ vox' \in [Saves -> VoxRecord] /\ vox'[s] = v
      /\ \A r \in Saves \ {s} : vox'[r] = vox[r] BY <1>1, BecomeIs
<1>3. \A r \in Saves : vox[r].base \in Nat BY <1>1 DEF VoxRecord
<1>4. v.base \in Nat BY DEF VoxRecord
<1>5. BaseInv(v, headRev') BY <1>1, <1>3, <1>4 DEF BaseInv
<1>6. \A r \in Saves : VoxInv(vox'[r]) /\ BaseInv(vox'[r], headRev')
 <2> TAKE r \in Saves
 <2>1. CASE r = s BY <1>2, <1>5, <2>1
 <2>2. CASE r # s
  <3>1. vox'[r] = vox[r] /\ VoxInv(vox[r]) BY <1>1, <1>2, <2>2
  <3>2. BaseInv(vox[r], headRev') BY <1>1, <1>3 DEF BaseInv
  <3> QED BY <3>1, <3>2
 <2> QED BY <2>1, <2>2
<1>7. OneWinner'
 <2>1. ASSUME NEW r \in Saves
       PROVE  vox'[r].outcome = "committed" => vox[r].outcome = "committed" /\ vox'[r].base = vox[r].base BY <1>2
 <2> QED BY <1>1, <2>1 DEF OneWinner
<1>8. headOf' # NoSave => headOf' \in Saves /\ vox'[headOf'].outcome = "committed" BY <1>1, <1>2
<1>9. SlotsReturned' /\ inspecting' \in BOOLEAN BY SlotsFollow DEF VoxelsInv
<1> QED BY <1>2, <1>6, <1>7, <1>8, <1>9 DEF VoxelsInv, VoxelsSettle

\* A save that becomes the head: it named the head's revision, and that moves on.
LEMMA HeadStep ==
    ASSUME VoxelsInv, NEW s \in Saves, NEW v \in VoxRecord, Become(s, v), VoxInv(v),
           v.outcome = "committed", v.base = headRev, headOf' = s, headRev' = headRev + 1, UNCHANGED inspecting,
           active' = active + Taken(v) - Taken(vox[s]), active' <= Workers
    PROVE  VoxelsInv'
<1>1. /\ vox \in [Saves -> VoxRecord] /\ headRev \in Nat /\ OneWinner
      /\ \A r \in Saves : VoxInv(vox[r]) /\ BaseInv(vox[r], headRev) BY DEF VoxelsInv, VoxelsSettle
<1>2. /\ vox' \in [Saves -> VoxRecord] /\ vox'[s] = v
      /\ \A r \in Saves \ {s} : vox'[r] = vox[r] BY <1>1, BecomeIs
<1>3. \A r \in Saves : vox[r].base \in Nat BY <1>1 DEF VoxRecord
<1>4. BaseInv(v, headRev') BY <1>1 DEF BaseInv
<1>5. \A r \in Saves \ {s} : /\ vox'[r] = vox[r] /\ VoxInv(vox[r]) /\ BaseInv(vox[r], headRev')
                             /\ vox[r].outcome = "committed" => vox[r].base # headRev BY <1>1, <1>2, <1>3 DEF BaseInv
<1>6. \A r \in Saves : VoxInv(vox'[r]) /\ BaseInv(vox'[r], headRev')
 <2> TAKE r \in Saves
 <2>1. CASE r = s BY <1>2, <1>4, <2>1
 <2>2. CASE r # s BY <1>5, <2>2
 <2> QED BY <2>1, <2>2
<1>7. OneWinner' BY <1>1, <1>2, <1>5 DEF OneWinner
<1>8. headRev' \in Nat /\ headOf' \in Saves /\ vox'[headOf'].outcome = "committed" BY <1>1, <1>2
<1>9. SlotsReturned' /\ inspecting' \in BOOLEAN BY SlotsFollow DEF VoxelsInv
<1> QED BY <1>2, <1>6, <1>7, <1>8, <1>9 DEF VoxelsInv, VoxelsSettle

LEMMA NamedStep ==
    ASSUME VoxelsInv, NEW s \in Saves, NEW v \in VoxRecord, NamedCommit(s, v), VoxInv(v),
           v.task \in {"none", "ending"}, v.pub = "ready",
           v.outcome = "committed" <=> vox[s].outcome = "committed", v.base = vox[s].base, UNCHANGED inspecting,
           active' = active + Taken(v) - Taken(vox[s]), active' <= Workers
    PROVE  VoxelsInv'
<1> DEFINE out == Outcome(v)
           settled == [v EXCEPT !.phase = "ready", !.outcome = out]
<1>1. /\ Become(s, settled)
      /\ IF v.outcome = "unknown" /\ settled.outcome = "committed"
         THEN headOf' = s /\ headRev' = headRev + 1 ELSE UNCHANGED headVars BY DEF NamedCommit
<1>2. out \in Outcomes BY VoxValues DEF Outcome, VoxRecord
<1>3. /\ v.outcome # "unknown" => out = v.outcome
      /\ v.outcome = "unknown" /\ out = "committed" => v.base = headRev BY DEF Outcome, HeadMatches
<1> HIDE DEF out
<1>4. settled \in VoxRecord BY <1>2, VoxValues DEF VoxRecord
<1>5. /\ settled.phase = "ready" /\ settled.outcome = out /\ settled.task = v.task /\ settled.base = v.base
      /\ settled.pub = v.pub /\ settled.recovering = v.recovering /\ settled.deleted = v.deleted
      /\ settled.upload = v.upload /\ settled.file = v.file /\ settled.bytes = v.bytes
      /\ settled.job = v.job /\ settled.reading = v.reading BY <1>2 DEF VoxRecord
<1>6. headRev \in Nat /\ vox[s].base <= headRev BY DEF VoxelsInv, BaseInv
<1> HIDE DEF settled
<1>7. VoxInv(settled) BY <1>5 DEF VoxInv, UploadInStep, MayStand, BytesHeld, ReadyIsCommitted, WonIsReady
<1>8. Taken(settled) = Taken(v) BY <1>5 DEF Taken
<1>9. CASE v.outcome = "unknown" /\ out = "committed" BY <1>1, <1>3, <1>5, <1>7, <1>8, <1>9, <1>4, HeadStep
<1>10. CASE ~(v.outcome = "unknown" /\ out = "committed")
 <2>1. UNCHANGED headVars BY <1>1, <1>5, <1>10
 <2>2. settled.outcome = "committed" <=> vox[s].outcome = "committed" BY <1>3, <1>5, <1>10
 <2>3. settled.base = vox[s].base BY <1>5
 <2> QED BY <1>1, <1>6, <1>7, <1>5, <1>8, <1>4, <2>1, <2>2, <2>3, SaveStep DEF headVars
<1> QED BY <1>9, <1>10

\* What a step of one save starts from.
LEMMA SaveFacts ==
    ASSUME VoxelsInv, NEW s \in Saves
    PROVE  /\ vox[s] \in VoxRecord /\ VoxInv(vox[s]) /\ BaseInv(vox[s], headRev)
           /\ vox[s].base \in Nat /\ headRev \in Nat /\ Taken(vox[s]) \in Nat
           /\ active \in Int /\ active <= Workers
<1>1. /\ vox[s] \in VoxRecord /\ VoxInv(vox[s]) /\ BaseInv(vox[s], headRev) /\ headRev \in Nat
      /\ SlotsReturned BY DEF VoxelsInv, VoxelsSettle
<1>2. vox[s].base \in Nat BY <1>1 DEF VoxRecord
<1>3. Taken(vox[s]) \in Nat BY DEF Taken
<1>4. active \in Int /\ active <= Workers
 <2> DEFINE R == Cardinality({r \in Saves : vox[r].task # "none"})
            J == Cardinality({r \in Saves : vox[r].job = "active"})
            D == Cardinality({r \in Saves : vox[r].reading})
 <2>1. R \in Nat /\ J \in Nat /\ D \in Nat BY VoxelsAssumption, FS_Subset, FS_CardinalityType
 <2>2. active = R + J + D + (IF inspecting THEN 1 ELSE 0) /\ active <= Workers BY <1>1 DEF SlotsReturned
 <2> HIDE DEF R, J, D
 <2> QED BY <2>1, <2>2
<1> QED BY <1>1, <1>2, <1>3, <1>4

\* A step of one save that leaves its slots, its outcome and the head alone.
LEMMA PlainStep ==
    ASSUME VoxelsInv, NEW s \in Saves, NEW v \in VoxRecord, Become(s, v), VoxInv(v),
           v.outcome = vox[s].outcome, v.base = vox[s].base, Taken(v) = Taken(vox[s]),
           UNCHANGED <<headVars, active, inspecting>>
    PROVE  VoxelsInv'
<1>1. active' = active + Taken(v) - Taken(vox[s]) /\ active' <= Workers BY SaveFacts
<1>2. v.base <= headRev /\ headRev' \in Nat /\ headRev <= headRev' /\ headOf' = headOf
  BY SaveFacts DEF BaseInv, headVars
<1> QED BY <1>1, <1>2, SaveStep

--------------------
\* The run

LEMMA ComputeStep ==
    ASSUME VoxelsInv, NEW s \in Saves, Compute(s)
    PROVE  VoxelsInv'
<1> DEFINE v == [vox[s] EXCEPT !.phase = "generating", !.task = "computed"]
<1>1. vox[s] \in VoxRecord /\ VoxInv(vox[s]) /\ vox[s].task = "accepted" BY SaveFacts DEF Compute
<1>2. Become(s, v) /\ UNCHANGED <<headVars, active, inspecting>> BY DEF Compute, Quiet, restVars
<1>3. v \in VoxRecord BY <1>1, VoxValues DEF VoxRecord
<1>4. VoxInv(v) /\ v.outcome = vox[s].outcome /\ v.base = vox[s].base /\ Taken(v) = Taken(vox[s])
  BY <1>1 DEF VoxRecord, Taken, VoxInv, UploadInStep, MayStand, BytesHeld, ReadyIsCommitted, WonIsReady
<1> QED BY <1>2, <1>3, <1>4, PlainStep

LEMMA ReserveArtifactStep ==
    ASSUME VoxelsInv, NEW s \in Saves, ReserveArtifact(s)
    PROVE  VoxelsInv'
<1> DEFINE v == [vox[s] EXCEPT !.phase = "publishing", !.pub = "staging", !.task = "reserved"]
<1>1. vox[s] \in VoxRecord /\ VoxInv(vox[s]) /\ vox[s].task = "computed" BY SaveFacts DEF ReserveArtifact
<1>2. Become(s, v) /\ UNCHANGED <<headVars, active, inspecting>> BY DEF ReserveArtifact, Quiet, restVars
<1>3. v \in VoxRecord BY <1>1, VoxValues DEF VoxRecord
<1>4. VoxInv(v) /\ v.outcome = vox[s].outcome /\ v.base = vox[s].base /\ Taken(v) = Taken(vox[s])
  BY <1>1 DEF VoxRecord, Taken, VoxInv, UploadInStep, MayStand, BytesHeld, ReadyIsCommitted, WonIsReady
<1> QED BY <1>2, <1>3, <1>4, PlainStep

LEMMA StageMembersStep ==
    ASSUME VoxelsInv, NEW s \in Saves, StageMembers(s)
    PROVE  VoxelsInv'
<1> DEFINE v == [vox[s] EXCEPT !.bytes = "held", !.pub = "publishing", !.task = "staged"]
<1>1. vox[s] \in VoxRecord /\ VoxInv(vox[s]) /\ vox[s].task = "reserved" BY SaveFacts DEF StageMembers
<1>2. Become(s, v) /\ UNCHANGED <<headVars, active, inspecting>> BY DEF StageMembers, Quiet, restVars
<1>3. v \in VoxRecord BY <1>1, VoxValues DEF VoxRecord
<1>4. VoxInv(v) /\ v.outcome = vox[s].outcome /\ v.base = vox[s].base /\ Taken(v) = Taken(vox[s])
  BY <1>1 DEF VoxRecord, Taken, VoxInv, UploadInStep, MayStand, BytesHeld, ReadyIsCommitted, WonIsReady
<1> QED BY <1>2, <1>3, <1>4, PlainStep

LEMMA StartUploadStep ==
    ASSUME VoxelsInv, NEW s \in Saves, StartUpload(s)
    PROVE  VoxelsInv'
<1> DEFINE v == [vox[s] EXCEPT !.upload = "publishing", !.task = "uploading"]
<1>1. vox[s] \in VoxRecord /\ VoxInv(vox[s]) /\ vox[s].task = "staged" BY SaveFacts DEF StartUpload
<1>2. Become(s, v) /\ UNCHANGED <<headVars, active, inspecting>> BY DEF StartUpload, Quiet, restVars
<1>3. v \in VoxRecord BY <1>1, VoxValues DEF VoxRecord
<1>4. VoxInv(v) /\ v.outcome = vox[s].outcome /\ v.base = vox[s].base /\ Taken(v) = Taken(vox[s])
  BY <1>1 DEF VoxRecord, Taken, VoxInv, UploadInStep, MayStand, BytesHeld, ReadyIsCommitted, WonIsReady
<1> QED BY <1>2, <1>3, <1>4, PlainStep

LEMMA RegisterStep ==
    ASSUME VoxelsInv, NEW s \in Saves, Register(s)
    PROVE  VoxelsInv'
<1> DEFINE v == [vox[s] EXCEPT !.pub = "ready", !.ver = "verified", !.link = TRUE, !.task = "registered"]
<1>1. vox[s] \in VoxRecord /\ VoxInv(vox[s]) /\ vox[s].task = "uploaded" BY SaveFacts DEF Register
<1>2. Become(s, v) /\ UNCHANGED <<headVars, active, inspecting>> BY DEF Register, Quiet, restVars
<1>3. v \in VoxRecord BY <1>1, VoxValues DEF VoxRecord
<1>4. VoxInv(v) /\ v.outcome = vox[s].outcome /\ v.base = vox[s].base /\ Taken(v) = Taken(vox[s])
  BY <1>1 DEF VoxRecord, Taken, VoxInv, UploadInStep, MayStand, BytesHeld, ReadyIsCommitted, WonIsReady
<1> QED BY <1>2, <1>3, <1>4, PlainStep

LEMMA AssociateStep ==
    ASSUME VoxelsInv, NEW s \in Saves, Associate(s)
    PROVE  VoxelsInv'
<1> DEFINE v == [vox[s] EXCEPT !.linked = TRUE, !.phase = "associating", !.task = "associating"]
<1>1. vox[s] \in VoxRecord /\ VoxInv(vox[s]) /\ vox[s].task = "registered" BY SaveFacts DEF Associate
<1>2. Become(s, v) /\ UNCHANGED <<headVars, active, inspecting>> BY DEF Associate, Quiet, restVars
<1>3. v \in VoxRecord BY <1>1, VoxValues DEF VoxRecord
<1>4. VoxInv(v) /\ v.outcome = vox[s].outcome /\ v.base = vox[s].base /\ Taken(v) = Taken(vox[s])
  BY <1>1 DEF VoxRecord, Taken, VoxInv, UploadInStep, MayStand, BytesHeld, ReadyIsCommitted, WonIsReady
<1> QED BY <1>2, <1>3, <1>4, PlainStep

LEMMA DemandStep ==
    ASSUME VoxelsInv, NEW s \in Saves, Demand(s)
    PROVE  VoxelsInv'
<1> DEFINE v == [vox[s] EXCEPT !.job = "queued", !.ver = "checking"]
<1>1. vox[s] \in VoxRecord /\ VoxInv(vox[s]) /\ vox[s].pub = "ready" /\ vox[s].job = "none" BY SaveFacts DEF Demand
<1>2. Become(s, v) /\ UNCHANGED <<headVars, active, inspecting>> BY DEF Demand, Quiet, restVars
<1>3. v \in VoxRecord BY <1>1, VoxValues DEF VoxRecord
<1>4. VoxInv(v) /\ v.outcome = vox[s].outcome /\ v.base = vox[s].base /\ Taken(v) = Taken(vox[s])
  BY <1>1 DEF VoxRecord, Taken, VoxInv, UploadInStep, MayStand, BytesHeld, ReadyIsCommitted, WonIsReady
<1> QED BY <1>2, <1>3, <1>4, PlainStep

LEMMA ReadBlocksStep ==
    ASSUME VoxelsInv, NEW s \in Saves, ReadBlocks(s)
    PROVE  VoxelsInv'
<1> DEFINE v == [vox[s] EXCEPT !.ver = "blocked"]
<1>1. vox[s] \in VoxRecord /\ VoxInv(vox[s]) /\ vox[s].pub = "ready" BY SaveFacts DEF ReadBlocks
<1>2. Become(s, v) /\ UNCHANGED <<headVars, active, inspecting>> BY DEF ReadBlocks, Quiet, restVars
<1>3. v \in VoxRecord BY <1>1, VoxValues DEF VoxRecord
<1>4. VoxInv(v) /\ v.outcome = vox[s].outcome /\ v.base = vox[s].base /\ Taken(v) = Taken(vox[s])
  BY <1>1 DEF VoxRecord, Taken, VoxInv, UploadInStep, MayStand, BytesHeld, ReadyIsCommitted, WonIsReady
<1> QED BY <1>2, <1>3, <1>4, PlainStep

LEMMA EvictStep ==
    ASSUME VoxelsInv, NEW s \in Saves, Evict(s)
    PROVE  VoxelsInv'
<1> DEFINE v == [vox[s] EXCEPT !.bytes = "gone"]
<1>1. vox[s] \in VoxRecord /\ VoxInv(vox[s]) /\ vox[s].bytes = "free" /\ ~vox[s].reading BY SaveFacts DEF Evict
<1>2. Become(s, v) /\ UNCHANGED <<headVars, active, inspecting>> BY DEF Evict, Quiet, restVars
<1>3. v \in VoxRecord BY <1>1, VoxValues DEF VoxRecord
<1>4. VoxInv(v) /\ v.outcome = vox[s].outcome /\ v.base = vox[s].base /\ Taken(v) = Taken(vox[s])
  BY <1>1 DEF VoxRecord, Taken, VoxInv, UploadInStep, MayStand, BytesHeld, ReadyIsCommitted, WonIsReady
<1> QED BY <1>2, <1>3, <1>4, PlainStep

LEMMA SubmitStep ==
    ASSUME VoxelsInv, NEW s \in Saves, Submit(s)
    PROVE  VoxelsInv'
<1> DEFINE v == [vox[s] EXCEPT !.phase = "accepted", !.task = "accepted", !.base = headRev, !.hold = TRUE,
                               !.outcome = "unknown"]
<1>1. vox[s] \in VoxRecord /\ VoxInv(vox[s]) /\ headRev \in Nat /\ vox[s].phase = "none" /\ active \in Int
  BY SaveFacts DEF Submit
<1>2. Become(s, v) /\ UNCHANGED <<headVars, inspecting>> /\ active < Workers /\ active' = active + 1
  BY DEF Submit, Reserve, restVars
<1>3. v \in VoxRecord BY <1>1, VoxValues DEF VoxRecord
<1>4. /\ VoxInv(v) /\ v.outcome = "unknown" /\ v.base = headRev /\ vox[s].outcome # "committed"
      /\ v.task = "accepted" /\ vox[s].task = "none" /\ v.job = vox[s].job /\ v.reading = vox[s].reading
  BY <1>1 DEF VoxRecord, VoxInv, UploadInStep, MayStand, BytesHeld, ReadyIsCommitted, WonIsReady
<1> HIDE DEF v
<1>5. Taken(v) - Taken(vox[s]) = 1 /\ Taken(vox[s]) \in Nat /\ Taken(v) \in Nat BY <1>4 DEF Taken
<1>6. active' = active + Taken(v) - Taken(vox[s]) /\ active' <= Workers BY <1>1, <1>2, <1>5, VoxelsAssumption
<1> QED BY <1>1, <1>2, <1>3, <1>4, <1>6, SaveStep DEF headVars

LEMMA UploadLandsStep ==
    ASSUME VoxelsInv, NEW s \in Saves, UploadLands(s)
    PROVE  VoxelsInv'
<1>1. vox[s] \in VoxRecord /\ VoxInv(vox[s]) /\ vox[s].task = "uploading" BY SaveFacts DEF UploadLands
<1>2. UNCHANGED <<headVars, active, inspecting>> BY DEF UploadLands, Quiet, restVars
<1>3. CASE Become(s, [vox[s] EXCEPT !.file = TRUE])
 <2> DEFINE v == [vox[s] EXCEPT !.file = TRUE]
 <2>1. v \in VoxRecord BY <1>1, VoxValues DEF VoxRecord
 <2>2. VoxInv(v) /\ v.outcome = vox[s].outcome /\ v.base = vox[s].base /\ Taken(v) = Taken(vox[s])
   BY <1>1 DEF VoxRecord, Taken, VoxInv, UploadInStep, MayStand, BytesHeld, ReadyIsCommitted, WonIsReady
 <2> QED BY <1>2, <1>3, <2>1, <2>2, PlainStep
<1>4. CASE Become(s, [vox[s] EXCEPT !.upload = "committed", !.task = "uploaded"])
 <2> DEFINE v == [vox[s] EXCEPT !.upload = "committed", !.task = "uploaded"]
 <2>1. v \in VoxRecord BY <1>1, VoxValues DEF VoxRecord
 <2>2. VoxInv(v) /\ v.outcome = vox[s].outcome /\ v.base = vox[s].base /\ Taken(v) = Taken(vox[s])
   BY <1>1 DEF VoxRecord, Taken, VoxInv, UploadInStep, MayStand, BytesHeld, ReadyIsCommitted, WonIsReady
 <2> QED BY <1>2, <1>4, <2>1, <2>2, PlainStep
<1> QED BY <1>3, <1>4 DEF UploadLands

LEMMA SettleNamedStep ==
    ASSUME VoxelsInv, NEW s \in Saves, SettleNamed(s)
    PROVE  VoxelsInv'
<1> DEFINE v == [vox[s] EXCEPT !.task = "ending"]
<1>1. vox[s] \in VoxRecord /\ VoxInv(vox[s]) /\ vox[s].task = "associating" /\ active \in Int /\ active <= Workers
  BY SaveFacts DEF SettleNamed
<1>2. NamedCommit(s, v) /\ UNCHANGED <<active, inspecting>> BY DEF SettleNamed, restVars
<1>3. v \in VoxRecord BY <1>1, VoxValues DEF VoxRecord
<1>4. /\ VoxInv(v) /\ v.outcome = vox[s].outcome /\ v.base = vox[s].base /\ Taken(v) = Taken(vox[s])
      /\ v.task = "ending" /\ v.pub = "ready"
  BY <1>1 DEF VoxRecord, Taken, VoxInv, UploadInStep, MayStand, BytesHeld, ReadyIsCommitted, WonIsReady
<1>5. active' = active + Taken(v) - Taken(vox[s]) /\ active' <= Workers BY <1>1, <1>2, <1>4, SaveFacts
<1> QED BY <1>2, <1>3, <1>4, <1>5, NamedStep

LEMMA AskOperationStep ==
    ASSUME VoxelsInv, NEW s \in Saves, AskOperation(s)
    PROVE  VoxelsInv'
<1>1. vox[s] \in VoxRecord /\ VoxInv(vox[s]) /\ active' = active + Taken(vox[s]) - Taken(vox[s]) /\ active' <= Workers
  BY SaveFacts DEF AskOperation
<1>2. NamedCommit(s, vox[s]) /\ UNCHANGED inspecting /\ vox[s].task = "none" /\ vox[s].pub = "ready"
  BY DEF AskOperation, restVars
<1> QED BY <1>1, <1>2, NamedStep

LEMMA EndRunStep ==
    ASSUME VoxelsInv, NEW s \in Saves, EndRun(s)
    PROVE  VoxelsInv'
<1> DEFINE keep == vox[s].hold /\ ~(VoxTerminal(vox[s]) /\ vox[s].pub \in {"none", "ready", "failed"})
           v == [vox[s] EXCEPT !.task = "none", !.hold = keep]
<1>1. vox[s] \in VoxRecord /\ VoxInv(vox[s]) /\ vox[s].task = "ending" /\ active \in Int /\ active <= Workers
  BY SaveFacts DEF EndRun
<1>2. Become(s, v) /\ UNCHANGED <<headVars, inspecting>> /\ active' = active - 1 BY DEF EndRun
<1>3. keep \in BOOLEAN BY <1>1 DEF VoxRecord, VoxTerminal
<1> HIDE DEF keep
<1>4. v \in VoxRecord BY <1>1, <1>3, VoxValues DEF VoxRecord
<1>5. /\ VoxInv(v) /\ v.outcome = vox[s].outcome /\ v.base = vox[s].base
      /\ v.task = "none" /\ v.job = vox[s].job /\ v.reading = vox[s].reading
  BY <1>1 DEF VoxRecord, VoxInv, UploadInStep, MayStand, BytesHeld, ReadyIsCommitted, WonIsReady
<1> HIDE DEF v
<1>6. Taken(v) - Taken(vox[s]) = -1 /\ Taken(vox[s]) \in Nat /\ Taken(v) \in Nat BY <1>1, <1>5 DEF Taken
<1>7. active' = active + Taken(v) - Taken(vox[s]) /\ active' <= Workers BY <1>1, <1>2, <1>6, VoxelsAssumption
<1>8. v.base <= headRev /\ headRev \in Nat BY <1>5, SaveFacts DEF BaseInv
<1> QED BY <1>1, <1>2, <1>4, <1>5, <1>7, <1>8, SaveStep DEF headVars

--------------------
\* What becomes of a record that the code settles

LEMMA HoldsLetGoType ==
    ASSUME NEW v \in VoxRecord
    PROVE  HoldsLetGo(v) \in ByteStates /\ (HoldsLetGo(v) = IF v.bytes = "held" THEN "free" ELSE v.bytes)
BY VoxValues DEF HoldsLetGo, VoxRecord

\* An attempt that is given up keeps its captures while its manifest may stand.
LEMMA IncompleteIs ==
    ASSUME NEW v \in VoxRecord, VoxInv(v), v.task \in {"none", "ending"}, ~v.recovering
    PROVE  /\ Incomplete(v) \in VoxRecord /\ VoxInv(Incomplete(v))
           /\ Incomplete(v).outcome = "committed" <=> v.outcome = "committed"
           /\ Incomplete(v).base = v.base /\ Incomplete(v).task = v.task /\ Incomplete(v).job = v.job
           /\ Incomplete(v).reading = v.reading
<1>1. CASE v.pub \in {"none", "ready"} BY <1>1 DEF Incomplete
<1>2. CASE v.pub \notin {"none", "ready"} /\ (Uncertain(v) \/ Committed(v))
 <2> DEFINE u == [v EXCEPT !.pub = "unresolved"]
 <2>1. Incomplete(v) = u BY <1>2 DEF Incomplete
 <2>2. u \in VoxRecord BY VoxValues DEF VoxRecord
 <2>3. VoxInv(u) /\ u.outcome = v.outcome /\ u.base = v.base /\ u.task = v.task /\ u.job = v.job /\ u.reading = v.reading
   BY <1>2 DEF VoxRecord, VoxInv, UploadInStep, MayStand, BytesHeld, ReadyIsCommitted, WonIsReady
 <2> QED BY <2>1, <2>2, <2>3
<1>3. CASE v.pub \notin {"none", "ready"} /\ ~(Uncertain(v) \/ Committed(v))
 <2> DEFINE phase == IF VoxTerminal(v) THEN v.phase ELSE "failed"
            out == IF VoxTerminal(v) THEN v.outcome ELSE "failed"
            held == HoldsLetGo(v)
            u == [v EXCEPT !.pub = "failed", !.bytes = held, !.phase = phase, !.outcome = out]
 <2>1. Incomplete(v) = u BY <1>3 DEF Incomplete
 <2>2. phase \in Phases /\ out \in Outcomes /\ held \in ByteStates BY VoxValues, HoldsLetGoType DEF VoxRecord
 <2>3. /\ v.reading => held \in {"held", "free"}
       /\ v.phase # "none" => phase # "none"
       /\ out = "committed" => v.outcome = "committed"
       /\ v.outcome # "committed"
       /\ phase = "none" => v.phase = "none" BY <1>3, HoldsLetGoType DEF VoxTerminal, VoxInv, BytesHeld, WonIsReady
 <2> HIDE DEF phase, out, held
 <2>4. u \in VoxRecord BY <2>2, VoxValues DEF VoxRecord
 <2>5. /\ u.task = v.task /\ u.phase = phase /\ u.outcome = out /\ u.base = v.base /\ u.pub = "failed"
       /\ u.recovering = v.recovering /\ u.deleted = v.deleted /\ u.upload = v.upload /\ u.file = v.file
       /\ u.bytes = held /\ u.job = v.job /\ u.reading = v.reading BY DEF VoxRecord
 <2>6. ~MayStand(v) /\ ~v.recovering /\ v.job = "none" /\ ~v.file
   BY <1>3 DEF MayStand, Uncertain, Committed, VoxInv, ReadyIsCommitted, UploadInStep
 <2> HIDE DEF u
 <2>7. UploadInStep(u) /\ BytesHeld(u) BY <2>3, <2>5, <2>6 DEF VoxInv, UploadInStep, MayStand, BytesHeld
 <2>8. ReadyIsCommitted(u) /\ WonIsReady(u) BY <2>3, <2>5, <2>6 DEF VoxInv, ReadyIsCommitted, WonIsReady
 <2> QED BY <2>1, <2>3, <2>4, <2>5, <2>7, <2>8 DEF VoxInv
<1> QED BY <1>1, <1>2, <1>3

LEMMA UploadAfterErrorIs ==
    ASSUME NEW v \in VoxRecord, NEW found \in UploadAfterError(v)
    PROVE  /\ found \in UploadStates
           /\ v.upload # "publishing" => found = v.upload
           /\ v.upload = "publishing" => found \in {"committed", "indeterminate", "failed"} /\ (v.file => found # "failed")
BY VoxValues DEF UploadAfterError, VoxRecord

LEMMA RunFailsStep ==
    ASSUME VoxelsInv, NEW s \in Saves, RunFails(s)
    PROVE  VoxelsInv'
<1> DEFINE u == vox[s]
<1>1. /\ u \in VoxRecord /\ VoxInv(u) /\ u.task \notin {"none", "ending"}
      /\ BaseInv(u, headRev) /\ headRev \in Nat BY SaveFacts DEF RunFails
<1>2. PICK found \in UploadAfterError(u) :
        LET saved == u.linked \/ u.pub = "ready"
            told == [u EXCEPT !.upload = found, !.task = "ending", !.linked = saved,
                              !.phase = IF saved THEN "ready" ELSE "failed",
                              !.outcome = IF saved THEN "unknown" ELSE "failed"]
        IN  Become(s, Incomplete(told)) BY DEF RunFails
<1>3. UNCHANGED <<headVars, active, inspecting>> BY DEF RunFails
<1> DEFINE saved == u.linked \/ u.pub = "ready"
           phase == IF saved THEN "ready" ELSE "failed"
           out == IF saved THEN "unknown" ELSE "failed"
           told == [u EXCEPT !.upload = found, !.task = "ending", !.linked = saved, !.phase = phase, !.outcome = out]
<1>4. Become(s, Incomplete(told)) BY <1>2
<1>5. found \in UploadStates /\ saved \in BOOLEAN /\ phase \in Phases /\ out \in Outcomes
  BY <1>1, UploadAfterErrorIs, VoxValues DEF VoxRecord
<1>6. phase # "none" /\ out # "committed" OBVIOUS
<1>7. /\ u.upload # "publishing" => found = u.upload
      /\ u.upload = "publishing" => found \in {"committed", "indeterminate", "failed"} /\ (u.file => found # "failed")
  BY <1>1, UploadAfterErrorIs
<1> HIDE DEF phase, out, saved
<1>8. told \in VoxRecord BY <1>1, <1>5, VoxValues DEF VoxRecord
<1>9. /\ told.task = "ending" /\ told.phase = phase /\ told.outcome = out /\ told.base = u.base /\ told.pub = u.pub
      /\ told.recovering = u.recovering /\ told.deleted = u.deleted /\ told.upload = found /\ told.file = u.file
      /\ told.bytes = u.bytes /\ told.job = u.job /\ told.reading = u.reading BY <1>1 DEF VoxRecord
<1> HIDE DEF told
<1>10. ~u.recovering /\ u.outcome # "committed" BY <1>1 DEF VoxInv, ReadyIsCommitted, WonIsReady
<1>11. VoxInv(told)
  BY <1>1, <1>6, <1>7, <1>9, <1>10 DEF VoxInv, UploadInStep, MayStand, BytesHeld, ReadyIsCommitted, WonIsReady
<1> DEFINE v == Incomplete(told)
<1>12. /\ v \in VoxRecord /\ VoxInv(v) /\ v.outcome # "committed" /\ v.base = u.base /\ v.task = "ending"
       /\ v.job = u.job /\ v.reading = u.reading BY <1>6, <1>8, <1>9, <1>10, <1>11, IncompleteIs
<1>13. Become(s, v) BY <1>4
<1> HIDE DEF v
<1>14. Taken(v) = Taken(u) BY <1>1, <1>12 DEF Taken
<1>15. v.base <= headRev /\ active' = active + Taken(v) - Taken(u) /\ active' <= Workers
  BY <1>1, <1>3, <1>12, <1>14, SaveFacts DEF BaseInv
<1> QED BY <1>1, <1>3, <1>10, <1>12, <1>13, <1>15, SaveStep DEF headVars

\* Two records of a save that have the same slots.
SameSlots(u, v) == u.task = v.task /\ (u.job = "active" <=> v.job = "active") /\ u.reading = v.reading

\* The receipt of a deletion: nothing that is under way is touched, and the bytes of a
\* reader are let go but stay.
LEMMA CleanupOneIs ==
    ASSUME NEW v \in VoxRecord, VoxInv(v)
    PROVE  /\ CleanupOne(v) \in VoxRecord /\ VoxInv(CleanupOne(v))
           /\ CleanupOne(v).outcome = v.outcome /\ CleanupOne(v).base = v.base
           /\ SameSlots(CleanupOne(v), v)
<1>1. CASE ~v.deleted \/ v.cleaned \/ Busy(v) \/ Uncertain(v) BY <1>1 DEF CleanupOne, SameSlots
<1>2. CASE ~(~v.deleted \/ v.cleaned \/ Busy(v) \/ Uncertain(v))
 <2> DEFINE pub == IF Committed(v) THEN "ready"
                   ELSE IF v.pub \in {"staging", "publishing", "unresolved"} THEN "failed" ELSE v.pub
            link == v.link \/ Committed(v)
            bytes == HoldsLetGo(v)
            hold == v.hold /\ ~VoxTerminal(v)
            freed == [v EXCEPT !.pub = pub, !.link = link, !.bytes = bytes, !.hold = hold]
            gone == IF freed.bytes = "free" THEN "gone" ELSE freed.bytes
            swept == [freed EXCEPT !.cleaned = TRUE, !.bytes = gone]
 <2>1. CleanupOne(v) = IF v.reading THEN freed ELSE swept BY <1>2 DEF CleanupOne
 <2>2. pub \in Registrations /\ link \in BOOLEAN /\ bytes \in ByteStates /\ hold \in BOOLEAN
   BY VoxValues, HoldsLetGoType DEF VoxRecord, Committed, VoxTerminal
 <2>3. /\ v.deleted /\ v.task = "none" /\ v.job # "active" /\ ~v.recovering
       /\ v.pub = "ready" => v.upload = "committed"
       /\ v.upload \notin {"publishing", "indeterminate"}
       /\ v.reading => bytes \in {"held", "free"}
   BY <1>2, HoldsLetGoType DEF Busy, Uncertain, VoxInv, ReadyIsCommitted, BytesHeld
 <2>4. (pub = "ready" <=> v.upload = "committed") BY <2>3 DEF Committed
 <2> HIDE DEF pub, link, bytes, hold
 <2>5. freed \in VoxRecord BY <2>2 DEF VoxRecord
 <2>6. /\ freed.task = v.task /\ freed.phase = v.phase /\ freed.outcome = v.outcome /\ freed.base = v.base /\ freed.pub = pub
       /\ freed.recovering = v.recovering /\ freed.deleted = v.deleted /\ freed.upload = v.upload /\ freed.file = v.file
       /\ freed.bytes = bytes /\ freed.job = v.job /\ freed.reading = v.reading BY DEF VoxRecord
 <2> HIDE DEF freed
 <2>7. gone \in ByteStates BY <2>2, <2>6, VoxValues
 <2> HIDE DEF gone
 <2>8. swept \in VoxRecord BY <2>5, <2>7 DEF VoxRecord
 <2>9. /\ swept.task = v.task /\ swept.phase = v.phase /\ swept.outcome = v.outcome /\ swept.base = v.base /\ swept.pub = pub
       /\ swept.recovering = v.recovering /\ swept.deleted = v.deleted /\ swept.upload = v.upload /\ swept.file = v.file
       /\ swept.bytes = gone /\ swept.job = v.job /\ swept.reading = v.reading BY <2>5, <2>6 DEF VoxRecord
 <2> HIDE DEF swept
 <2>10. VoxInv(freed) BY <2>3, <2>4, <2>6 DEF VoxInv, UploadInStep, MayStand, BytesHeld, ReadyIsCommitted, WonIsReady
 <2>11. ~v.reading => VoxInv(swept)
   BY <2>3, <2>4, <2>9 DEF VoxInv, UploadInStep, MayStand, BytesHeld, ReadyIsCommitted, WonIsReady
 <2>12. SameSlots(freed, v) /\ SameSlots(swept, v) BY <2>6, <2>9 DEF SameSlots
 <2> QED BY <2>1, <2>5, <2>6, <2>8, <2>9, <2>10, <2>11, <2>12
<1> QED BY <1>1, <1>2

LEMMA ReconciledIs ==
    ASSUME NEW v \in VoxRecord, VoxInv(v)
    PROVE  /\ ReconciledVox(v) \in VoxRecord /\ VoxInv(ReconciledVox(v))
           /\ ReconciledVox(v).outcome = "committed" <=> v.outcome = "committed"
           /\ ReconciledVox(v).base = v.base /\ SameSlots(ReconciledVox(v), v)
<1>1. CASE v.pub # "unresolved" \/ v.task # "none" \/ v.recovering \/ Uncertain(v)
  BY <1>1 DEF ReconciledVox, SameSlots
<1>2. CASE ~(v.pub # "unresolved" \/ v.task # "none" \/ v.recovering \/ Uncertain(v)) /\ Committed(v)
 <2> DEFINE u == [v EXCEPT !.pub = "publishing", !.recovering = TRUE, !.link = TRUE, !.linked = TRUE,
                           !.phase = "publishing", !.outcome = "unknown", !.job = "queued"]
 <2>1. ReconciledVox(v) = u BY <1>2 DEF ReconciledVox
 <2>2. u \in VoxRecord BY VoxValues DEF VoxRecord
 <2>3. /\ u.task = v.task /\ u.phase = "publishing" /\ u.outcome = "unknown" /\ u.base = v.base /\ u.pub = "publishing"
       /\ u.recovering = TRUE /\ u.deleted = v.deleted /\ u.upload = v.upload /\ u.file = v.file
       /\ u.bytes = v.bytes /\ u.job = "queued" /\ u.reading = v.reading BY DEF VoxRecord
 <2>4. v.upload = "committed" /\ v.task = "none" /\ v.job = "none" /\ v.outcome # "committed"
   BY <1>2 DEF Committed, VoxInv, ReadyIsCommitted, WonIsReady
 <2> HIDE DEF u
 <2>5. VoxInv(u) BY <2>3, <2>4 DEF VoxInv, UploadInStep, MayStand, BytesHeld, ReadyIsCommitted, WonIsReady
 <2>6. SameSlots(u, v) BY <2>3, <2>4 DEF SameSlots
 <2> QED BY <2>1, <2>2, <2>3, <2>4, <2>5, <2>6
<1>3. CASE ~(v.pub # "unresolved" \/ v.task # "none" \/ v.recovering \/ Uncertain(v)) /\ ~Committed(v)
 <2>1. ReconciledVox(v) = Incomplete(v) BY <1>3 DEF ReconciledVox
 <2> DEFINE u == Incomplete(v)
 <2>2. /\ u \in VoxRecord /\ VoxInv(u) /\ (u.outcome = "committed" <=> v.outcome = "committed") /\ u.base = v.base
       /\ u.task = v.task /\ u.job = v.job /\ u.reading = v.reading BY <1>3, IncompleteIs
 <2> HIDE DEF u
 <2>3. SameSlots(u, v) BY <2>2 DEF SameSlots
 <2> QED BY <2>1, <2>2, <2>3 DEF u
<1> QED BY <1>1, <1>2, <1>3

\* A step that takes no slot and settles no association, of every save at once.
LEMMA CleanupPassStep ==
    ASSUME VoxelsInv, CleanupPass
    PROVE  VoxelsInv'
<1>1. /\ vox \in [Saves -> VoxRecord] /\ headRev \in Nat /\ OneWinner /\ SlotsReturned
      /\ \A r \in Saves : VoxInv(vox[r]) /\ BaseInv(vox[r], headRev)
      /\ headOf # NoSave => headOf \in Saves /\ vox[headOf].outcome = "committed" BY DEF VoxelsInv, VoxelsSettle
<1>2. /\ vox' = [s \in Saves |-> CleanupOne(ReconciledVox(vox[s]))]
      /\ UNCHANGED <<headOf, headRev, active, inspecting>> BY DEF CleanupPass, headVars
<1>3. ASSUME NEW s \in Saves
      PROVE  /\ vox'[s] \in VoxRecord /\ VoxInv(vox'[s])
             /\ vox'[s].outcome = "committed" <=> vox[s].outcome = "committed"
             /\ vox'[s].base = vox[s].base /\ SameSlots(vox'[s], vox[s])
 <2> DEFINE u == ReconciledVox(vox[s])
 <2>1. /\ u \in VoxRecord /\ VoxInv(u)
       /\ u.outcome = "committed" <=> vox[s].outcome = "committed"
       /\ u.base = vox[s].base /\ SameSlots(u, vox[s]) BY <1>1, ReconciledIs
 <2>2. vox'[s] = CleanupOne(u) BY <1>2
 <2> HIDE DEF u
 <2> QED BY <2>1, <2>2, CleanupOneIs DEF SameSlots
<1>4. vox' \in [Saves -> VoxRecord] BY <1>2, <1>3
<1>5. \A s \in Saves : VoxInv(vox'[s]) /\ BaseInv(vox'[s], headRev') BY <1>1, <1>2, <1>3 DEF BaseInv
<1>6. OneWinner' /\ (headOf' # NoSave => headOf' \in Saves /\ vox'[headOf'].outcome = "committed")
  BY <1>1, <1>2, <1>3 DEF OneWinner
<1>7. ASSUME NEW s \in Saves
      PROVE  /\ vox'[s].task # "none" <=> vox[s].task # "none"
             /\ vox'[s].job = "active" <=> vox[s].job = "active"
             /\ vox'[s].reading = vox[s].reading BY <1>3 DEF SameSlots
<1>8. SlotsReturned'
 <2>1. /\ {s \in Saves : vox'[s].task # "none"} = {s \in Saves : vox[s].task # "none"}
       /\ {s \in Saves : vox'[s].job = "active"} = {s \in Saves : vox[s].job = "active"}
       /\ {s \in Saves : vox'[s].reading} = {s \in Saves : vox[s].reading} BY <1>7
 <2> QED BY <1>1, <1>2, <2>1 DEF SlotsReturned
<1> QED BY <1>1, <1>2, <1>4, <1>5, <1>6, <1>8 DEF VoxelsInv, VoxelsSettle

LEMMA DeleteNowStep ==
    ASSUME VoxelsInv, NEW s \in Saves, DeleteNow(s)
    PROVE  VoxelsInv'
<1> DEFINE u == vox[s]
           jobNow == IF u.job = "queued" /\ ~u.recovering THEN "none" ELSE u.job
           v == [u EXCEPT !.deleted = TRUE, !.since = FALSE, !.job = jobNow]
           w == CleanupOne(v)
<1>1. u \in VoxRecord /\ VoxInv(u) /\ BaseInv(u, headRev) /\ headRev \in Nat /\ u.base \in Nat BY SaveFacts
<1>2. Become(s, w) /\ UNCHANGED <<active, inspecting>> BY DEF DeleteNow
<1>3. headOf' = headOf /\ headRev' \in Nat /\ headRev <= headRev' BY <1>1 DEF DeleteNow, headVars
<1>4. jobNow \in JobStates /\ (jobNow = "active" <=> u.job = "active") /\ (jobNow # "none" => u.job # "none")
  BY <1>1, VoxValues DEF VoxRecord
<1> HIDE DEF jobNow
<1>5. v \in VoxRecord BY <1>1, <1>4 DEF VoxRecord
<1>6. /\ v.task = u.task /\ v.phase = u.phase /\ v.outcome = u.outcome /\ v.base = u.base /\ v.pub = u.pub
      /\ v.recovering = u.recovering /\ v.deleted = TRUE /\ v.upload = u.upload /\ v.file = u.file
      /\ v.bytes = u.bytes /\ v.job = jobNow /\ v.reading = u.reading BY <1>1 DEF VoxRecord
<1> HIDE DEF v, u
<1>7. VoxInv(v) BY <1>1, <1>4, <1>6 DEF VoxInv, UploadInStep, MayStand, BytesHeld, ReadyIsCommitted, WonIsReady
<1>8. w \in VoxRecord /\ VoxInv(w) /\ w.outcome = u.outcome /\ w.base = u.base /\ SameSlots(w, v)
  BY <1>5, <1>6, <1>7, CleanupOneIs
<1> HIDE DEF w
<1>9. Taken(w) = Taken(u) BY <1>4, <1>6, <1>8 DEF SameSlots, Taken
<1>10. w.base <= headRev /\ active' = active + Taken(w) - Taken(u) /\ active' <= Workers
  BY <1>1, <1>2, <1>8, <1>9, SaveFacts DEF BaseInv, u
<1> QED BY <1>2, <1>3, <1>8, <1>10, SaveStep DEF u

LEMMA DeleteStep ==
    ASSUME VoxelsInv, NEW s \in Saves, Delete(s) \/ ReleaseUnreferenced(s)
    PROVE  VoxelsInv'
<1>1. CASE DeleteNow(s) BY <1>1, DeleteNowStep
<1>2. CASE ~DeleteNow(s)
 <2> DEFINE since == ~vox[s].file
            v == [vox[s] EXCEPT !.since = since]
 <2>1. Become(s, v) /\ UNCHANGED <<headVars, active, inspecting>>
   BY <1>2 DEF Delete, ReleaseUnreferenced, Quiet, restVars
 <2>2. vox[s] \in VoxRecord /\ VoxInv(vox[s]) /\ since \in BOOLEAN BY SaveFacts
 <2> HIDE DEF since
 <2>3. v \in VoxRecord BY <2>2 DEF VoxRecord
 <2>4. VoxInv(v) /\ v.outcome = vox[s].outcome /\ v.base = vox[s].base /\ Taken(v) = Taken(vox[s])
   BY <2>2 DEF VoxRecord, Taken, VoxInv, UploadInStep, MayStand, BytesHeld, ReadyIsCommitted, WonIsReady
 <2> QED BY <2>1, <2>3, <2>4, PlainStep
<1> QED BY <1>1, <1>2

LEMMA EvidenceSettlesStep ==
    ASSUME VoxelsInv, NEW s \in Saves, EvidenceSettles(s)
    PROVE  VoxelsInv'
<1> DEFINE found == IF vox[s].file THEN "committed" ELSE "failed"
           v == [vox[s] EXCEPT !.upload = found]
<1>1. Become(s, v) /\ UNCHANGED <<headVars, active, inspecting>> BY DEF EvidenceSettles
<1>2. vox[s] \in VoxRecord /\ VoxInv(vox[s]) /\ vox[s].upload = "indeterminate" /\ vox[s].task = "none"
  BY SaveFacts DEF EvidenceSettles
<1>3. found \in UploadStates /\ found \in {"committed", "failed"} /\ (vox[s].file => found = "committed") BY VoxValues
<1> HIDE DEF found
<1>4. v \in VoxRecord BY <1>2, <1>3 DEF VoxRecord
<1>5. VoxInv(v) /\ v.outcome = vox[s].outcome /\ v.base = vox[s].base /\ Taken(v) = Taken(vox[s])
  BY <1>2, <1>3 DEF VoxRecord, Taken, VoxInv, UploadInStep, MayStand, BytesHeld, ReadyIsCommitted, WonIsReady
<1> QED BY <1>1, <1>4, <1>5, PlainStep

LEMMA FileChangesStep ==
    ASSUME VoxelsInv, NEW s \in Saves, FileChanges(s)
    PROVE  VoxelsInv'
<1> DEFINE file == ~vox[s].file
           v == [vox[s] EXCEPT !.file = file]
<1>1. Become(s, v) /\ UNCHANGED <<headVars, active, inspecting>> BY DEF FileChanges
<1>2. vox[s] \in VoxRecord /\ VoxInv(vox[s]) /\ vox[s].upload = "committed" /\ file \in BOOLEAN
  BY SaveFacts DEF FileChanges
<1> HIDE DEF file
<1>3. v \in VoxRecord BY <1>2 DEF VoxRecord
<1>4. VoxInv(v) /\ v.outcome = vox[s].outcome /\ v.base = vox[s].base /\ Taken(v) = Taken(vox[s])
  BY <1>2 DEF VoxRecord, Taken, VoxInv, UploadInStep, MayStand, BytesHeld, ReadyIsCommitted, WonIsReady
<1> QED BY <1>1, <1>3, <1>4, PlainStep

LEMMA ReadStartsStep ==
    ASSUME VoxelsInv, NEW s \in Saves, ReadStarts(s)
    PROVE  VoxelsInv'
<1> DEFINE v == [vox[s] EXCEPT !.reading = TRUE]
<1>1. /\ vox[s] \in VoxRecord /\ VoxInv(vox[s]) /\ vox[s].reading = FALSE /\ vox[s].pub = "ready" /\ ~vox[s].deleted
      /\ active \in Int /\ active <= Workers /\ headRev \in Nat
 <2>1. ~vox[s].reading /\ vox[s].reading \in BOOLEAN /\ vox[s].pub = "ready" /\ ~vox[s].deleted
   BY SaveFacts DEF ReadStarts, VoxRecord
 <2> QED BY <2>1, SaveFacts
<1>2. Become(s, v) /\ UNCHANGED <<headVars, inspecting>> /\ active < Workers /\ active' = active + 1
  BY DEF ReadStarts, Reserve, restVars
<1>3. v \in VoxRecord BY <1>1 DEF VoxRecord
<1>4. /\ VoxInv(v) /\ v.outcome = vox[s].outcome /\ v.base = vox[s].base
      /\ v.task = vox[s].task /\ v.job = vox[s].job /\ v.reading = TRUE
  BY <1>1 DEF VoxRecord, VoxInv, UploadInStep, MayStand, BytesHeld, ReadyIsCommitted, WonIsReady
<1> HIDE DEF v
<1>5. Taken(v) - Taken(vox[s]) = 1 /\ Taken(vox[s]) \in Nat /\ Taken(v) \in Nat BY <1>1, <1>4 DEF Taken
<1>6. active' = active + Taken(v) - Taken(vox[s]) /\ active' <= Workers BY <1>1, <1>2, <1>5, VoxelsAssumption
<1>7. v.base <= headRev BY <1>4, SaveFacts DEF BaseInv
<1> QED BY <1>1, <1>2, <1>3, <1>4, <1>6, <1>7, SaveStep DEF headVars

LEMMA ReadEndsStep ==
    ASSUME VoxelsInv, NEW s \in Saves, ReadEnds(s)
    PROVE  VoxelsInv'
<1> DEFINE v == [vox[s] EXCEPT !.reading = FALSE]
<1>1. /\ vox[s] \in VoxRecord /\ VoxInv(vox[s]) /\ vox[s].reading
      /\ active \in Int /\ active <= Workers /\ headRev \in Nat BY SaveFacts DEF ReadEnds
<1>2. Become(s, v) /\ UNCHANGED <<headVars, inspecting>> /\ active' = active - 1 BY DEF ReadEnds
<1>3. v \in VoxRecord BY <1>1 DEF VoxRecord
<1>4. /\ VoxInv(v) /\ v.outcome = vox[s].outcome /\ v.base = vox[s].base
      /\ v.task = vox[s].task /\ v.job = vox[s].job /\ v.reading = FALSE
  BY <1>1 DEF VoxRecord, VoxInv, UploadInStep, MayStand, BytesHeld, ReadyIsCommitted, WonIsReady
<1> HIDE DEF v
<1>5. Taken(v) - Taken(vox[s]) = -1 /\ Taken(vox[s]) \in Nat /\ Taken(v) \in Nat BY <1>1, <1>4 DEF Taken
<1>6. active' = active + Taken(v) - Taken(vox[s]) /\ active' <= Workers BY <1>1, <1>2, <1>5, VoxelsAssumption
<1>7. v.base <= headRev BY <1>4, SaveFacts DEF BaseInv
<1> QED BY <1>1, <1>2, <1>3, <1>4, <1>6, <1>7, SaveStep DEF headVars

LEMMA PumpStep ==
    ASSUME VoxelsInv, NEW s \in Saves, Pump(s)
    PROVE  VoxelsInv'
<1>1. /\ vox[s] \in VoxRecord /\ VoxInv(vox[s]) /\ vox[s].job = "queued"
      /\ active \in Int /\ active < Workers /\ headRev \in Nat BY SaveFacts DEF Pump
<1>2. UNCHANGED <<headVars, inspecting>> BY DEF Pump, restVars
<1>3. CASE vox[s].deleted /\ ~vox[s].recovering
 <2> DEFINE v == [vox[s] EXCEPT !.job = "none"]
 <2>1. Become(s, v) /\ UNCHANGED active BY <1>3 DEF Pump
 <2>2. v \in VoxRecord BY <1>1, VoxValues DEF VoxRecord
 <2>3. VoxInv(v) /\ v.outcome = vox[s].outcome /\ v.base = vox[s].base /\ Taken(v) = Taken(vox[s])
   BY <1>1 DEF VoxRecord, Taken, VoxInv, UploadInStep, MayStand, BytesHeld, ReadyIsCommitted, WonIsReady
 <2> QED BY <1>2, <2>1, <2>2, <2>3, PlainStep
<1>4. CASE ~(vox[s].deleted /\ ~vox[s].recovering)
 <2> DEFINE v == [vox[s] EXCEPT !.job = "active", !.ver = "checking"]
 <2>1. Become(s, v) /\ active' = active + 1 BY <1>4 DEF Pump
 <2>2. v \in VoxRecord BY <1>1, VoxValues DEF VoxRecord
 <2>3. /\ VoxInv(v) /\ v.outcome = vox[s].outcome /\ v.base = vox[s].base
       /\ v.task = vox[s].task /\ v.job = "active" /\ v.reading = vox[s].reading
   BY <1>1 DEF VoxRecord, VoxInv, UploadInStep, MayStand, BytesHeld, ReadyIsCommitted, WonIsReady
 <2> HIDE DEF v
 <2>4. Taken(v) - Taken(vox[s]) = 1 /\ Taken(vox[s]) \in Nat /\ Taken(v) \in Nat BY <1>1, <2>3 DEF Taken
 <2>5. active' = active + Taken(v) - Taken(vox[s]) /\ active' <= Workers BY <1>1, <2>1, <2>4, VoxelsAssumption
 <2>6. v.base <= headRev BY <2>3, SaveFacts DEF BaseInv
 <2> QED BY <1>1, <1>2, <2>1, <2>2, <2>3, <2>5, <2>6, SaveStep DEF headVars
<1> QED BY <1>3, <1>4

LEMMA JobPassesStep ==
    ASSUME VoxelsInv, NEW s \in Saves, JobPasses(s)
    PROVE  VoxelsInv'
<1> DEFINE u == vox[s]
<1>1. /\ u \in VoxRecord /\ VoxInv(u) /\ BaseInv(u, headRev) /\ u.job = "active" /\ u.bytes # "gone"
      /\ active \in Int /\ active <= Workers /\ headRev \in Nat BY SaveFacts DEF JobPasses
<1>2. active' = active - 1 /\ UNCHANGED inspecting BY DEF JobPasses
<1>3. ASSUME NEW v \in VoxRecord, v.task = u.task, v.job = "none", v.reading = u.reading
      PROVE  active' = active + Taken(v) - Taken(u) /\ active' <= Workers
 <2>1. Taken(v) - Taken(u) = -1 /\ Taken(u) \in Nat /\ Taken(v) \in Nat BY <1>1, <1>3 DEF Taken
 <2> QED BY <1>1, <1>2, <2>1, VoxelsAssumption
<1>4. CASE u.recovering
 <2> DEFINE bytes == IF u.deleted THEN u.bytes ELSE "held"
            out == IF u.outcome \in {"committed", "conflict"} THEN u.outcome ELSE "unknown"
            v == [u EXCEPT !.job = "none", !.ver = "verified", !.pub = "ready", !.recovering = FALSE,
                           !.linked = TRUE, !.link = TRUE, !.hold = FALSE, !.bytes = bytes, !.outcome = out]
 <2>1. NamedCommit(s, v) BY <1>4 DEF JobPasses
 <2>2. bytes \in ByteStates /\ out \in Outcomes BY <1>1, VoxValues DEF VoxRecord
 <2>3. /\ u.upload = "committed" /\ u.task = "none" /\ u.outcome # "committed" /\ u.phase # "none"
       /\ ~u.deleted => bytes = "held"
       /\ u.reading => bytes \in {"held", "free"}
       /\ out # "committed" BY <1>1, <1>4 DEF VoxInv, UploadInStep, BytesHeld, ReadyIsCommitted, WonIsReady
 <2> HIDE DEF bytes, out
 <2>4. v \in VoxRecord BY <1>1, <2>2, VoxValues DEF VoxRecord
 <2>5. /\ v.task = u.task /\ v.phase = u.phase /\ v.outcome = out /\ v.base = u.base /\ v.pub = "ready"
       /\ v.recovering = FALSE /\ v.deleted = u.deleted /\ v.upload = u.upload /\ v.file = u.file
       /\ v.bytes = bytes /\ v.job = "none" /\ v.reading = u.reading BY <1>1 DEF VoxRecord
 <2> HIDE DEF v
 <2>6. VoxInv(v) BY <1>1, <2>3, <2>5 DEF VoxInv, UploadInStep, MayStand, BytesHeld, ReadyIsCommitted, WonIsReady
 <2>7. active' = active + Taken(v) - Taken(u) /\ active' <= Workers BY <1>3, <2>4, <2>5
 <2> QED BY <1>2, <2>1, <2>3, <2>4, <2>5, <2>6, <2>7, NamedStep
<1>5. CASE ~u.recovering
 <2> DEFINE ver == IF u.deleted THEN u.ver ELSE "verified"
            v == [u EXCEPT !.job = "none", !.ver = ver]
 <2>1. Become(s, v) /\ UNCHANGED headVars BY <1>5 DEF JobPasses
 <2>2. ver \in Verdicts BY <1>1, VoxValues DEF VoxRecord
 <2> HIDE DEF ver
 <2>3. v \in VoxRecord BY <1>1, <2>2, VoxValues DEF VoxRecord
 <2>4. /\ VoxInv(v) /\ v.outcome = u.outcome /\ v.base = u.base
       /\ v.task = u.task /\ v.job = "none" /\ v.reading = u.reading
   BY <1>1 DEF VoxRecord, VoxInv, UploadInStep, MayStand, BytesHeld, ReadyIsCommitted, WonIsReady
 <2> HIDE DEF v
 <2>5. active' = active + Taken(v) - Taken(u) /\ active' <= Workers BY <1>3, <2>3, <2>4
 <2>6. v.base <= headRev BY <1>1, <2>4 DEF BaseInv
 <2> QED BY <1>1, <1>2, <2>1, <2>3, <2>4, <2>5, <2>6, SaveStep DEF headVars
<1> QED BY <1>4, <1>5

LEMMA JobFailsStep ==
    ASSUME VoxelsInv, NEW s \in Saves, JobFails(s)
    PROVE  VoxelsInv'
<1> DEFINE u == vox[s]
<1>1. /\ u \in VoxRecord /\ VoxInv(u) /\ BaseInv(u, headRev) /\ u.job = "active"
      /\ active \in Int /\ active <= Workers /\ headRev \in Nat BY SaveFacts DEF JobFails
<1>2. active' = active - 1 /\ UNCHANGED <<headVars, inspecting>> BY DEF JobFails
<1>3. ASSUME NEW v \in VoxRecord, Become(s, v), VoxInv(v), v.base = u.base,
             v.outcome = "committed" <=> u.outcome = "committed",
             v.task = u.task, v.job # "active", v.reading = u.reading
      PROVE  VoxelsInv'
 <2>1. Taken(v) - Taken(u) = -1 /\ Taken(u) \in Nat /\ Taken(v) \in Nat BY <1>1, <1>3 DEF Taken
 <2>2. active' = active + Taken(v) - Taken(u) /\ active' <= Workers BY <1>1, <1>2, <2>1, VoxelsAssumption
 <2>3. v.base <= headRev BY <1>1, <1>3 DEF BaseInv
 <2> QED BY <1>1, <1>2, <1>3, <2>2, <2>3, SaveStep DEF headVars
<1> DEFINE jobNow == IF u.recovering THEN "queued" ELSE "none"
           ver == IF u.deleted /\ ~u.recovering THEN u.ver ELSE "unavailable"
           again == [u EXCEPT !.job = jobNow, !.ver = ver]
           pub == IF u.recovering THEN "failed" ELSE u.pub
           phase == IF u.recovering /\ u.phase # "ready" THEN "failed" ELSE u.phase
           out == IF u.recovering /\ u.phase # "ready" THEN "failed" ELSE u.outcome
           blocked == [u EXCEPT !.job = "none", !.ver = "blocked", !.recovering = FALSE,
                                !.pub = pub, !.phase = phase, !.outcome = out]
<1>4. /\ jobNow \in JobStates /\ jobNow # "active" /\ (u.recovering \/ jobNow = "none")
      /\ ver \in Verdicts /\ pub \in Registrations /\ phase \in Phases /\ out \in Outcomes
  BY <1>1, VoxValues DEF VoxRecord
<1>5. /\ (u.recovering /\ pub = "failed" /\ u.task = "none" /\ u.outcome # "committed" /\ u.phase # "none")
         \/ (~u.recovering /\ pub = u.pub /\ phase = u.phase /\ out = u.outcome)
      /\ out = "committed" <=> u.outcome = "committed"
      /\ phase = "none" <=> u.phase = "none" BY <1>1 DEF VoxInv, UploadInStep, ReadyIsCommitted, WonIsReady
<1>6. Become(s, again) \/ Become(s, blocked) BY DEF JobFails
<1> HIDE DEF jobNow, ver, pub, phase, out
<1>7. CASE Become(s, again)
 <2>1. again \in VoxRecord BY <1>1, <1>4 DEF VoxRecord
 <2>2. /\ again.task = u.task /\ again.phase = u.phase /\ again.outcome = u.outcome /\ again.base = u.base
       /\ again.pub = u.pub /\ again.recovering = u.recovering /\ again.deleted = u.deleted
       /\ again.upload = u.upload /\ again.file = u.file /\ again.bytes = u.bytes /\ again.job = jobNow
       /\ again.reading = u.reading BY <1>1 DEF VoxRecord
 <2> HIDE DEF again
 <2>3. VoxInv(again) BY <1>1, <1>4, <2>2 DEF VoxInv, UploadInStep, MayStand, BytesHeld, ReadyIsCommitted, WonIsReady
 <2> QED BY <1>3, <1>4, <1>7, <2>1, <2>2, <2>3
<1>8. CASE Become(s, blocked)
 <2>1. blocked \in VoxRecord BY <1>1, <1>4, VoxValues DEF VoxRecord
 <2>2. /\ blocked.task = u.task /\ blocked.phase = phase /\ blocked.outcome = out /\ blocked.base = u.base
       /\ blocked.pub = pub /\ blocked.recovering = FALSE /\ blocked.deleted = u.deleted
       /\ blocked.upload = u.upload /\ blocked.file = u.file /\ blocked.bytes = u.bytes /\ blocked.job = "none"
       /\ blocked.reading = u.reading BY <1>1 DEF VoxRecord
 <2> HIDE DEF blocked
 <2>3. VoxInv(blocked) BY <1>1, <1>5, <2>2 DEF VoxInv, UploadInStep, MayStand, BytesHeld, ReadyIsCommitted, WonIsReady
 <2> QED BY <1>3, <1>5, <1>8, <2>1, <2>2, <2>3
<1> QED BY <1>6, <1>7, <1>8

\* What a boot makes of a save, whatever became of its upload: no slot is taken, nothing that may
\* stand loses its captures, and what was won stays.
BootMade(b, u) ==
    /\ b \in VoxRecord /\ VoxInv(b) /\ b.base = u.base
    /\ b.outcome = "committed" <=> u.outcome = "committed"
    /\ b.task = "none" /\ b.job # "active" /\ b.reading = FALSE

LEMMA BootedIs ==
    ASSUME NEW u \in VoxRecord, VoxInv(u), NEW found \in UploadAfterError(u)
    PROVE  BootMade(Booted([u EXCEPT !.upload = found]), u)
<1> DEFINE v == [u EXCEPT !.upload = found]
           ver == IF v.ver = "blocked" THEN v.ver ELSE "unchecked"
           idle == [v EXCEPT !.task = "none", !.job = "none", !.reading = FALSE, !.recovering = FALSE, !.ver = ver]
           settled == v.pub = "ready" /\ v.phase = "ready"
           blocked == v.ver = "blocked" /\ Committed(v)
           again == [idle EXCEPT !.pub = "publishing", !.recovering = TRUE, !.link = TRUE,
                                 !.linked = TRUE, !.phase = "publishing", !.job = "queued"]
           judged == IF v.pub = "none" \/ settled \/ blocked THEN idle
                   ELSE IF Committed(v) THEN again ELSE Incomplete(idle)
           failed == idle.pub = "failed" /\ judged.pub = "failed"
           bytes == IF ~judged.deleted /\ (~failed \/ blocked) /\ judged.bytes = "free"
                    THEN "held" ELSE judged.bytes
           held == [judged EXCEPT !.bytes = bytes]
           ended == IF held.pub = "none" /\ held.phase # "none" /\ ~VoxTerminal(held)
                    THEN [held EXCEPT !.phase = "failed", !.outcome = "failed"] ELSE held
           hold == ended.hold /\ ended.pub \notin {"none", "ready", "failed"}
           b == [ended EXCEPT !.hold = hold]
<1>1. Booted(v) = b BY DEF Booted
<1>2. /\ found \in UploadStates
      /\ u.upload # "publishing" => found = u.upload
      /\ u.upload = "publishing" => found \in {"committed", "indeterminate", "failed"} /\ (u.file => found # "failed")
  BY UploadAfterErrorIs
<1>3. /\ v \in VoxRecord
      /\ v.task = u.task /\ v.phase = u.phase /\ v.outcome = u.outcome /\ v.base = u.base /\ v.pub = u.pub
      /\ v.recovering = u.recovering /\ v.deleted = u.deleted /\ v.upload = found /\ v.file = u.file
      /\ v.bytes = u.bytes /\ v.job = u.job /\ v.reading = u.reading BY <1>2 DEF VoxRecord
<1> HIDE DEF v
<1>4. ver \in Verdicts BY <1>3, VoxValues DEF VoxRecord
<1> HIDE DEF ver
<1>5. idle \in VoxRecord BY <1>3, <1>4, VoxValues DEF VoxRecord
<1>6. /\ idle.task = "none" /\ idle.phase = u.phase /\ idle.outcome = u.outcome /\ idle.base = u.base /\ idle.pub = u.pub
      /\ idle.recovering = FALSE /\ idle.deleted = u.deleted /\ idle.upload = found /\ idle.file = u.file
      /\ idle.bytes = u.bytes /\ idle.job = "none" /\ idle.reading = FALSE BY <1>3 DEF VoxRecord
<1> HIDE DEF idle
<1>7. VoxInv(idle) BY <1>2, <1>6 DEF VoxInv, UploadInStep, MayStand, BytesHeld, ReadyIsCommitted, WonIsReady
<1>8. again \in VoxRecord BY <1>5, VoxValues DEF VoxRecord
<1>9. /\ again.task = "none" /\ again.phase = "publishing" /\ again.outcome = u.outcome /\ again.base = u.base
      /\ again.pub = "publishing" /\ again.recovering = TRUE /\ again.deleted = u.deleted /\ again.upload = found
      /\ again.file = u.file /\ again.bytes = u.bytes /\ again.job = "queued" /\ again.reading = FALSE
  BY <1>5, <1>6 DEF VoxRecord
<1> HIDE DEF again
<1>10. /\ judged \in VoxRecord /\ VoxInv(judged) /\ judged.base = u.base
       /\ judged.outcome = "committed" <=> u.outcome = "committed"
       /\ judged.task = "none" /\ judged.job # "active" /\ judged.reading = FALSE
 <2>1. CASE v.pub = "none" \/ settled \/ blocked BY <1>5, <1>6, <1>7, <2>1
 <2>2. CASE ~(v.pub = "none" \/ settled \/ blocked) /\ Committed(v)
  <3>1. judged = again BY <2>2
  <3>2. found = "committed" /\ u.outcome # "committed" BY <1>3, <2>2 DEF Committed, VoxInv, WonIsReady
  <3>3. VoxInv(again)
    BY <1>2, <1>7, <1>6, <1>9, <3>2 DEF VoxInv, UploadInStep, MayStand, BytesHeld, ReadyIsCommitted, WonIsReady
  <3> QED BY <1>8, <1>9, <3>1, <3>2, <3>3
 <2>3. CASE ~(v.pub = "none" \/ settled \/ blocked) /\ ~Committed(v)
  <3>1. judged = Incomplete(idle) BY <2>3
  <3> QED BY <1>5, <1>6, <1>7, <3>1, IncompleteIs
 <2> QED BY <2>1, <2>2, <2>3
<1> HIDE DEF judged, settled, blocked, failed
<1>11. /\ bytes \in ByteStates /\ (bytes = judged.bytes \/ bytes = "held") BY <1>10, VoxValues DEF VoxRecord
<1> HIDE DEF bytes
<1>12. held \in VoxRecord BY <1>10, <1>11 DEF VoxRecord
<1>13. /\ held.task = "none" /\ held.phase = judged.phase /\ held.outcome = judged.outcome /\ held.base = u.base
       /\ held.pub = judged.pub /\ held.recovering = judged.recovering /\ held.deleted = judged.deleted
       /\ held.upload = judged.upload /\ held.file = judged.file /\ held.bytes = bytes /\ held.job = judged.job
       /\ held.reading = FALSE BY <1>10 DEF VoxRecord
<1> HIDE DEF held
<1>14. VoxInv(held) BY <1>10, <1>11, <1>13 DEF VoxInv, UploadInStep, MayStand, BytesHeld, ReadyIsCommitted, WonIsReady
<1>15. /\ ended \in VoxRecord /\ VoxInv(ended) /\ ended.base = u.base
       /\ ended.outcome = "committed" <=> u.outcome = "committed"
       /\ ended.task = "none" /\ ended.job # "active" /\ ended.reading = FALSE
 <2>1. CASE held.pub = "none" /\ held.phase # "none" /\ ~VoxTerminal(held)
  <3> DEFINE w == [held EXCEPT !.phase = "failed", !.outcome = "failed"]
  <3>1. w \in VoxRecord BY <1>12, VoxValues DEF VoxRecord
  <3>2. /\ w.task = "none" /\ w.phase = "failed" /\ w.outcome = "failed" /\ w.base = u.base
        /\ w.pub = held.pub /\ w.recovering = held.recovering /\ w.deleted = held.deleted
        /\ w.upload = held.upload /\ w.file = held.file /\ w.bytes = held.bytes /\ w.job = held.job
        /\ w.reading = FALSE BY <1>12, <1>13 DEF VoxRecord
  <3>3. ended = w BY <2>1
  <3> HIDE DEF w
  <3>4. VoxInv(w) /\ u.outcome # "committed"
    BY <1>10, <1>13, <1>14, <2>1, <3>2 DEF VoxInv, UploadInStep, MayStand, BytesHeld, ReadyIsCommitted, WonIsReady
  <3> QED BY <1>10, <1>13, <3>1, <3>2, <3>3, <3>4
 <2>2. CASE ~(held.pub = "none" /\ held.phase # "none" /\ ~VoxTerminal(held)) BY <1>10, <1>12, <1>13, <1>14, <2>2
 <2> QED BY <2>1, <2>2
<1> HIDE DEF ended
<1>16. hold \in BOOLEAN BY <1>15 DEF VoxRecord
<1> HIDE DEF hold
<1>17. b \in VoxRecord BY <1>15, <1>16 DEF VoxRecord
<1>18. /\ b.task = "none" /\ b.phase = ended.phase /\ b.outcome = ended.outcome /\ b.base = u.base
       /\ b.pub = ended.pub /\ b.recovering = ended.recovering /\ b.deleted = ended.deleted
       /\ b.upload = ended.upload /\ b.file = ended.file /\ b.bytes = ended.bytes /\ b.job = ended.job
       /\ b.reading = FALSE BY <1>15 DEF VoxRecord
<1> HIDE DEF b
<1>19. VoxInv(b) BY <1>15, <1>18 DEF VoxInv, UploadInStep, MayStand, BytesHeld, ReadyIsCommitted, WonIsReady
<1> QED BY <1>1, <1>15, <1>17, <1>18, <1>19 DEF v, BootMade

\* Of the unknown associations at most one is settled as committed, and it names the head.
LEMMA RestartIs ==
    ASSUME VoxelsInv, VoxelsRestart
    PROVE  \E won \in SUBSET Saves :
             /\ \A s \in Saves :
                  /\ vox'[s] \in VoxRecord /\ VoxInv(vox'[s]) /\ vox'[s].base = vox[s].base
                  /\ vox'[s].task = "none" /\ vox'[s].job # "active" /\ vox'[s].reading = FALSE
                  /\ vox'[s].outcome = "committed" <=> vox[s].outcome = "committed" \/ s \in won
             /\ vox' \in [Saves -> VoxRecord]
             /\ \/ won = {} /\ headOf' = headOf /\ headRev' = headRev
                \/ \E w \in Saves : /\ won = {w} /\ headOf' = w /\ headRev' = headRev + 1
                                    /\ vox[w].base = headRev /\ vox[w].outcome # "committed"
<1>1. PICK found \in [Saves -> {"none", "failed", "committed", "indeterminate"}] :
        /\ \A s \in Saves : found[s] \in UploadAfterError(vox[s])
        /\ LET booted == [s \in Saves |-> Booted([vox[s] EXCEPT !.upload = found[s]])]
               settle == Unsettled(booted)
               match == {s \in settle : HeadMatches(booted[s])}
               End(won) == [s \in Saves |-> IF s \notin settle THEN booted[s]
                              ELSE [booted[s] EXCEPT !.phase = "ready", !.outcome = IF s \in won THEN "committed" ELSE "conflict"]]
           IN  \/ match = {} /\ vox' = End({}) /\ UNCHANGED headVars
               \/ \E w \in match : vox' = End({w}) /\ headOf' = w /\ headRev' = headRev + 1 BY DEF VoxelsRestart
<1> DEFINE booted == [s \in Saves |-> Booted([vox[s] EXCEPT !.upload = found[s]])]
           settle == Unsettled(booted)
           match == {s \in settle : HeadMatches(booted[s])}
           End(won) == [s \in Saves |-> IF s \notin settle THEN booted[s]
                          ELSE [booted[s] EXCEPT !.phase = "ready", !.outcome = IF s \in won THEN "committed" ELSE "conflict"]]
<1>2. ASSUME NEW s \in Saves
      PROVE  /\ booted[s] \in VoxRecord /\ VoxInv(booted[s]) /\ booted[s].base = vox[s].base
             /\ booted[s].outcome = "committed" <=> vox[s].outcome = "committed"
             /\ booted[s].task = "none" /\ booted[s].job # "active" /\ booted[s].reading = FALSE
 <2>1. vox[s] \in VoxRecord /\ VoxInv(vox[s]) BY SaveFacts
 <2>2. found[s] \in UploadAfterError(vox[s]) /\ booted[s] = Booted([vox[s] EXCEPT !.upload = found[s]]) BY <1>1
 <2>3. BootMade(Booted([vox[s] EXCEPT !.upload = found[s]]), vox[s]) BY <2>1, <2>2, BootedIs
 <2> HIDE DEF booted
 <2> QED BY <2>2, <2>3 DEF BootMade
<1>3. PICK won \in SUBSET settle :
        /\ vox' = End(won)
        /\ \/ won = {} /\ headOf' = headOf /\ headRev' = headRev
           \/ \E w \in match : won = {w} /\ headOf' = w /\ headRev' = headRev + 1
 <2>1. CASE match = {} /\ vox' = End({}) /\ UNCHANGED headVars BY <2>1 DEF headVars
 <2>2. ASSUME NEW w \in match, vox' = End({w}), headOf' = w, headRev' = headRev + 1
       PROVE  \E won \in SUBSET settle :
                /\ vox' = End(won)
                /\ \/ won = {} /\ headOf' = headOf /\ headRev' = headRev
                   \/ \E x \in match : won = {x} /\ headOf' = x /\ headRev' = headRev + 1
  <3>1. {w} \in SUBSET settle OBVIOUS
  <3> HIDE DEF End, match, settle
  <3> QED BY <2>2, <3>1
 <2> QED BY <1>1, <2>1, <2>2
<1> HIDE DEF booted
<1>4. \A s \in settle : s \in Saves /\ ~booted[s].deleted /\ booted[s].pub = "ready" /\ booted[s].outcome = "unknown"
  BY DEF Unsettled
<1>5. \A w \in match : w \in settle /\ booted[w].base = headRev BY DEF HeadMatches
<1> HIDE DEF settle, match
<1>6. ASSUME NEW s \in Saves
      PROVE  /\ vox'[s] \in VoxRecord /\ VoxInv(vox'[s]) /\ vox'[s].base = vox[s].base
             /\ vox'[s].task = "none" /\ vox'[s].job # "active" /\ vox'[s].reading = FALSE
             /\ vox'[s].outcome = "committed" <=> vox[s].outcome = "committed" \/ s \in won
 <2>1. CASE s \notin settle
  <3>1. vox'[s] = booted[s] /\ s \notin won BY <1>3, <2>1
  <3> QED BY <1>2, <3>1
 <2>2. CASE s \in settle
  <3> DEFINE out == IF s \in won THEN "committed" ELSE "conflict"
             q == [booted[s] EXCEPT !.phase = "ready", !.outcome = out]
  <3>1. vox'[s] = q BY <1>3, <2>2
  <3>2. out \in Outcomes /\ (out = "committed" <=> s \in won) BY VoxValues
  <3> HIDE DEF out
  <3>3. q \in VoxRecord BY <1>2, <3>2, VoxValues DEF VoxRecord
  <3>4. /\ q.task = "none" /\ q.phase = "ready" /\ q.outcome = out /\ q.base = booted[s].base
        /\ q.pub = booted[s].pub /\ q.recovering = booted[s].recovering /\ q.deleted = booted[s].deleted
        /\ q.upload = booted[s].upload /\ q.file = booted[s].file /\ q.bytes = booted[s].bytes
        /\ q.job = booted[s].job /\ q.reading = booted[s].reading BY <1>2 DEF VoxRecord
  <3> HIDE DEF q
  <3>5. booted[s].pub = "ready" /\ vox[s].outcome # "committed" BY <1>2, <1>4, <2>2
  <3>6. VoxInv(q) BY <1>2, <3>4, <3>5 DEF VoxInv, UploadInStep, MayStand, BytesHeld, ReadyIsCommitted, WonIsReady
  <3> QED BY <1>2, <3>1, <3>2, <3>3, <3>4, <3>5, <3>6
 <2> QED BY <2>1, <2>2
<1>7. vox' \in [Saves -> VoxRecord]
 <2>1. vox' = [s \in Saves |-> vox'[s]] BY <1>3
 <2> QED BY <1>6, <2>1
<1>8. \/ won = {} /\ headOf' = headOf /\ headRev' = headRev
      \/ \E w \in Saves : /\ won = {w} /\ headOf' = w /\ headRev' = headRev + 1
                          /\ vox[w].base = headRev /\ vox[w].outcome # "committed"
 <2>1. ASSUME NEW w \in match
       PROVE  w \in Saves /\ vox[w].base = headRev /\ vox[w].outcome # "committed" BY <1>2, <1>4, <1>5
 <2> HIDE DEF End
 <2> QED BY <1>3, <2>1
<1>9. won \in SUBSET Saves BY <1>3, <1>4
<1> HIDE DEF End
<1> QED BY <1>6, <1>7, <1>8, <1>9

LEMMA VoxelsRestartStep ==
    ASSUME VoxelsInv, VoxelsRestart
    PROVE  VoxelsInv'
<1>1. /\ vox \in [Saves -> VoxRecord] /\ headRev \in Nat /\ OneWinner
      /\ \A s \in Saves : BaseInv(vox[s], headRev) /\ vox[s].base \in Nat
      /\ headOf # NoSave => headOf \in Saves /\ vox[headOf].outcome = "committed"
  BY DEF VoxelsInv, VoxelsSettle, VoxRecord
<1>2. PICK won \in SUBSET Saves :
        /\ \A s \in Saves :
             /\ vox'[s] \in VoxRecord /\ VoxInv(vox'[s]) /\ vox'[s].base = vox[s].base
             /\ vox'[s].task = "none" /\ vox'[s].job # "active" /\ vox'[s].reading = FALSE
             /\ vox'[s].outcome = "committed" <=> vox[s].outcome = "committed" \/ s \in won
        /\ vox' \in [Saves -> VoxRecord]
        /\ \/ won = {} /\ headOf' = headOf /\ headRev' = headRev
           \/ \E w \in Saves : /\ won = {w} /\ headOf' = w /\ headRev' = headRev + 1
                               /\ vox[w].base = headRev /\ vox[w].outcome # "committed" BY RestartIs
<1>3. active' = 0 /\ inspecting' = FALSE BY DEF VoxelsRestart
<1>4. SlotsReturned'
 <2>1. /\ {s \in Saves : vox'[s].task # "none"} = {}
       /\ {s \in Saves : vox'[s].job = "active"} = {}
       /\ {s \in Saves : vox'[s].reading} = {} BY <1>2
 <2>2. Cardinality({}) = 0 BY FS_EmptySet
 <2>3. (IF inspecting' THEN 1 ELSE 0) = 0 BY <1>3
 <2>4. active' = 0 /\ 0 <= Workers /\ 0 = 0 + 0 + 0 + 0 BY <1>3, VoxelsAssumption
 <2> QED BY <2>1, <2>2, <2>3, <2>4 DEF SlotsReturned
<1>5. CASE won = {} /\ headOf' = headOf /\ headRev' = headRev
 <2>1. \A s \in Saves : BaseInv(vox'[s], headRev') BY <1>1, <1>2, <1>5 DEF BaseInv
 <2>2. OneWinner' /\ (headOf' # NoSave => headOf' \in Saves /\ vox'[headOf'].outcome = "committed")
   BY <1>1, <1>2, <1>5 DEF OneWinner
 <2> QED BY <1>1, <1>2, <1>3, <1>4, <1>5, <2>1, <2>2 DEF VoxelsInv, VoxelsSettle
<1>6. ASSUME NEW w \in Saves, won = {w}, headOf' = w, headRev' = headRev + 1,
             vox[w].base = headRev, vox[w].outcome # "committed"
      PROVE  VoxelsInv'
 <2>1. \A s \in Saves : BaseInv(vox'[s], headRev') BY <1>1, <1>2, <1>6 DEF BaseInv
 <2>2. \A s \in Saves : vox[s].outcome = "committed" => vox[s].base # headRev BY <1>1 DEF BaseInv
 <2>3. OneWinner' /\ headOf' \in Saves /\ vox'[headOf'].outcome = "committed" BY <1>1, <1>2, <1>6, <2>2 DEF OneWinner
 <2>4. headRev' \in Nat BY <1>1, <1>6
 <2>5. inspecting' \in BOOLEAN BY <1>3
 <2>6. vox' \in [Saves -> VoxRecord] /\ \A s \in Saves : VoxInv(vox'[s]) BY <1>2
 <2> QED BY <1>4, <2>1, <2>3, <2>4, <2>6, <2>5 DEF VoxelsInv, VoxelsSettle
<1> QED BY <1>2, <1>5, <1>6

--------------------

\* The slot of a description, a validation or a scan.
LEMMA InspectionStep ==
    ASSUME VoxelsInv, InspectVoxel \/ InspectEnds \/ Rename
    PROVE  VoxelsInv'
<1>1. /\ vox' = vox /\ headOf' = headOf /\ headRev \in Nat /\ SlotsReturned
      /\ inspecting \in BOOLEAN
      /\ \A s \in Saves : BaseInv(vox[s], headRev) /\ vox[s].base \in Nat
  BY DEF VoxelsInv, VoxelsSettle, VoxRecord, InspectVoxel, InspectEnds, Rename, headVars
<1>2. headRev' \in Nat /\ headRev <= headRev' BY <1>1 DEF InspectVoxel, InspectEnds, Rename, headVars
<1>3. \A s \in Saves : BaseInv(vox[s], headRev') BY <1>1, <1>2 DEF BaseInv
<1> DEFINE R == Cardinality({s \in Saves : vox[s].task # "none"})
           J == Cardinality({s \in Saves : vox[s].job = "active"})
           D == Cardinality({s \in Saves : vox[s].reading})
<1>4. R \in Nat /\ J \in Nat /\ D \in Nat /\ R' = R /\ J' = J /\ D' = D
  BY <1>1, VoxelsAssumption, FS_Subset, FS_CardinalityType
<1>5. active = R + J + D + (IF inspecting THEN 1 ELSE 0) /\ active <= Workers BY <1>1 DEF SlotsReturned
<1> HIDE DEF R, J, D
<1>6. /\ \/ inspecting = FALSE /\ inspecting' = TRUE /\ active < Workers /\ active' = active + 1
         \/ inspecting = TRUE /\ inspecting' = FALSE /\ active' = active - 1
         \/ inspecting' = inspecting /\ active' = active BY <1>1 DEF InspectVoxel, InspectEnds, Rename, Reserve
<1>7. active' = R' + J' + D' + (IF inspecting' THEN 1 ELSE 0) /\ active' <= Workers /\ inspecting' \in BOOLEAN
 <2> DEFINE I == IF inspecting THEN 1 ELSE 0
 <2>1. /\ inspecting = FALSE => I = 0
       /\ inspecting = TRUE => I = 1
       /\ inspecting' = FALSE => I' = 0
       /\ inspecting' = TRUE => I' = 1
       /\ inspecting' = inspecting => I' = I
       /\ I \in {0, 1} OBVIOUS
 <2>2. active = R + J + D + I BY <1>5
 <2> HIDE DEF I
 <2>3. active' = R' + J' + D' + I' /\ active' <= Workers BY <1>4, <1>5, <1>6, <2>1, <2>2, VoxelsAssumption
 <2>4. inspecting' \in BOOLEAN BY <1>1, <1>6
 <2> QED BY <2>3, <2>4 DEF I
<1>8. SlotsReturned' BY <1>7 DEF SlotsReturned, R, J, D
<1> QED BY <1>1, <1>2, <1>3, <1>7, <1>8 DEF VoxelsInv, VoxelsSettle, OneWinner

LEMMA VoxelsStart == VoxelsInit => VoxelsInv
<1> SUFFICES ASSUME VoxelsInit
             PROVE  VoxelsInv OBVIOUS
<1>1. /\ vox = [s \in Saves |-> NoVox] /\ headOf = NoSave /\ headRev = 0 /\ active = 0 /\ inspecting = FALSE
  BY DEF VoxelsInit
<1>2. NoVox \in VoxRecord
  BY DEF NoVox, VoxRecord, RunSteps, Phases, Outcomes, Registrations, Verdicts, UploadStates, ByteStates, JobStates
<1>3. VoxInv(NoVox) /\ BaseInv(NoVox, 0)
  BY DEF NoVox, VoxInv, UploadInStep, MayStand, BytesHeld, ReadyIsCommitted, WonIsReady, BaseInv
<1>4. NoVox.outcome # "committed" /\ NoVox.task = "none" /\ NoVox.job = "none" /\ NoVox.reading = FALSE BY DEF NoVox
<1>5. SlotsReturned
 <2>1. /\ {s \in Saves : vox[s].task # "none"} = {}
       /\ {s \in Saves : vox[s].job = "active"} = {}
       /\ {s \in Saves : vox[s].reading} = {} BY <1>1, <1>4
 <2>2. Cardinality({}) = 0 BY FS_EmptySet
 <2>3. (IF inspecting THEN 1 ELSE 0) = 0 BY <1>1
 <2>4. active = 0 /\ 0 <= Workers /\ 0 = 0 + 0 + 0 + 0 BY <1>1, VoxelsAssumption
 <2> QED BY <2>1, <2>2, <2>3, <2>4 DEF SlotsReturned
<1> QED BY <1>1, <1>2, <1>3, <1>4, <1>5 DEF VoxelsInv, VoxelsSettle, OneWinner

LEMMA VoxelsStep == VoxelsInv /\ [VoxelsNext]_voxVars => VoxelsInv'
<1> SUFFICES ASSUME VoxelsInv, [VoxelsNext]_voxVars
             PROVE  VoxelsInv' OBVIOUS
<1>1. CASE UNCHANGED voxVars BY <1>1 DEF voxVars, VoxelsInv, VoxelsSettle, OneWinner, SlotsReturned
<1>2. CASE CleanupPass \/ VoxelsRestart \/ Rename \/ InspectVoxel \/ InspectEnds
  BY <1>2, CleanupPassStep, VoxelsRestartStep, InspectionStep
<1>3. ASSUME NEW s \in Saves,
             \/ Submit(s) \/ Compute(s) \/ ReserveArtifact(s) \/ StageMembers(s) \/ StartUpload(s)
             \/ UploadLands(s) \/ Register(s) \/ Associate(s) \/ SettleNamed(s) \/ EndRun(s)
      PROVE  VoxelsInv'
  BY <1>3, SubmitStep, ComputeStep, ReserveArtifactStep, StageMembersStep, StartUploadStep, UploadLandsStep,
     RegisterStep, AssociateStep, SettleNamedStep, EndRunStep
<1>4. ASSUME NEW s \in Saves,
             \/ RunFails(s) \/ AskOperation(s) \/ Demand(s) \/ Pump(s) \/ JobPasses(s) \/ JobFails(s)
             \/ ReadStarts(s) \/ ReadEnds(s) \/ ReadBlocks(s) \/ Delete(s) \/ EvidenceSettles(s) \/ Evict(s)
             \/ FileChanges(s) \/ ReleaseUnreferenced(s)
      PROVE  VoxelsInv'
  BY <1>4, RunFailsStep, AskOperationStep, DemandStep, PumpStep, JobPassesStep, JobFailsStep, ReadStartsStep,
     ReadEndsStep, ReadBlocksStep, DeleteStep, EvidenceSettlesStep, EvictStep, FileChangesStep
<1> QED BY <1>1, <1>2, <1>3, <1>4 DEF VoxelsNext

LEMMA VoxelsInvImplies == VoxelsInv => VoxelPromises
<1> SUFFICES ASSUME VoxelsInv
             PROVE  VoxelPromises OBVIOUS
<1>1. ASSUME NEW s \in Saves
      PROVE  /\ vox[s].file /\ ~vox[s].deleted => vox[s].bytes = "held"
             /\ vox[s].reading => vox[s].bytes \in {"held", "free"}
             /\ vox[s].outcome = "committed" => vox[s].pub = "ready" /\ (vox[s].deleted \/ vox[s].bytes = "held")
  BY DEF VoxelsInv, VoxInv, UploadInStep, MayStand, BytesHeld, ReadyIsCommitted, WonIsReady
<1>2. headOf # NoSave => headOf \in Saves /\ vox[headOf].outcome = "committed" BY DEF VoxelsInv
<1>3. HeadReadable BY <1>1, <1>2 DEF HeadReadable
<1> QED BY <1>3 DEF VoxelsInv, VoxelPromises

\* What the file service promises of voxels (voxels.js, voxel-registry.js, voxel-named.js):
\* the captures of a manifest in the workspace, of the head and of a reader are there, of
\* the saves that revise one head at most one wins, and every slot taken is in use, for any
\* saves, failures, deletions and boots.
THEOREM VoxelsAreKept == VoxelsSpec => []VoxelPromises
<1>1. VoxelsSpec => []VoxelsInv BY VoxelsStart, VoxelsStep, PTL DEF VoxelsSpec
<1> QED BY <1>1, VoxelsInvImplies, PTL
================================================================================
