---------------------------- MODULE BrokerTurns ----------------------------
(***************************************************************************)
(* The turn lifecycle of the gateway's session broker                      *)
(* (runtime/lib/session-broker.js): how prompts of several conversations   *)
(* are admitted, deduplicated by submission id, run on the one shared      *)
(* agent engine, cancelled, force-ended by the cancel watchdog, and ended  *)
(* with a durable turn_end.                                                *)
(*                                                                         *)
(* The broker is single-threaded JavaScript: code between two awaits is    *)
(* one atomic step, and every await is a point where any other step may    *)
(* run.  A prompt's `stage` names the await it is parked at.               *)
(*                                                                         *)
(* The agent engine is external.  Requests reach it over one ordered pipe, *)
(* so it takes a request in the step that sends it; its answers come back  *)
(* at any later time, or never.                                            *)
(***************************************************************************)
EXTENDS Integers, Sequences, FiniteSets

CONSTANTS
    Convs,            \* conversations
    Prompts,          \* session/prompt requests the clients may send
    Subs,             \* submission ids
    NoSub,            \* the request carries no submission id
    None,             \* null
    ConvOf,           \* ConvOf[p]: the conversation prompt p names
    SubOf,            \* SubOf[p]: its submission id, or NoSub
    ReportConvs,      \* conversations of the report-analysis agent mode
    MaxRunning,       \* config.maxRunning
    SubmissionsKept,  \* SUBMISSIONS_KEPT
    MaxCancels,       \* bound on client cancels
    MaxCrashes        \* bound on engine crashes

ASSUME BrokerAssumption ==
    /\ IsFiniteSet(Convs) /\ IsFiniteSet(Prompts)
    /\ NoSub \notin Subs
    /\ None \notin Prompts
    /\ ConvOf \in [Prompts -> Convs]
    /\ SubOf \in [Prompts -> Subs \cup {NoSub}]
    /\ ReportConvs \subseteq Convs
    /\ MaxRunning \in Nat \ {0}
    /\ SubmissionsKept \in Nat \ {0}
    /\ MaxCancels \in Nat
    /\ MaxCrashes \in Nat

VARIABLES
    \* --- per prompt
    stage,            \* the await the prompt is parked at (see Stages)
    admCancelled,     \* its admission record's `cancelled`
    call,             \* its engine call, as the engine holds it
    retried,          \* #enginePrompt's `retried`: the binding was renewed once
    corrected,        \* the citation correction was asked for
    result,           \* why the turn ends
    \* --- per conversation (class Conversation)
    turn,             \* "idle", "running", "ending"
    current,          \* the prompt the turn belongs to (turnStartedAt, submissionId)
    cancelRequested,
    cancelTimer,      \* the turn the watchdog was armed for, or None
    force,            \* forceEndTurn: "none", "live" (raced), "dead" (nobody listens)
    enginePrompt,     \* the prompt whose engine call is still unanswered, or None
    boundGen,         \* engine generation it is bound in (0: none, the code's -1)
    binding,          \* a session/resume is in flight
    archived,
    submissions,      \* log.meta.submissions: <<id, state>>, newest last
    \* --- broker and engine
    closed,           \* shutdown has begun
    shutQueue,        \* conversations shutdown still has to cancel
    engine,           \* "starting", "ready", "stopped"
    gen,              \* engine.generation
    resident,         \* the engine process has the session open (external)
    \* --- bounds and history (read by no guard but the bounds)
    cancels, crashes, \* how many happened
    events,           \* the transcript per conversation: <<kind, prompt>>
    reached,          \* prompts the engine accepted for a model request
    aimedAdmission,   \* prompts a cancel was aimed at while they were admitted
    aimedTurn         \* prompts a cancel was aimed at while their turn ran

promptVars == <<stage, admCancelled, call, retried, corrected, result>>
turnVars == <<turn, current, cancelRequested, cancelTimer, force, enginePrompt>>
bindVars == <<boundGen, binding, archived>>
engineVars == <<engine, gen, resident>>
shutVars == <<closed, shutQueue>>
boundVars == <<cancels, crashes>>
aimVars == <<aimedAdmission, aimedTurn>>
vars == <<promptVars, turnVars, bindVars, submissions, engineVars, shutVars,
          boundVars, events, reached, aimVars>>

Admission == {"lookup", "check", "ready", "bind", "usage"}
Turning == {"echo", "prompt", "engine", "rebind", "finish", "ending"}
Stages == {"unsent", "joined", "refused", "done"} \cup Admission \cup Turning
Calls == {"none", "active", "notfound", "busy"}
Results == {"none", "end_turn", "citation_failed", "cancelled", "forced",
            "restart", "busy", "error"}

PromptTypes ==
    /\ stage \in [Prompts -> Stages]
    /\ admCancelled \in [Prompts -> BOOLEAN]
    /\ call \in [Prompts -> Calls]
    /\ retried \in [Prompts -> BOOLEAN]
    /\ corrected \in [Prompts -> BOOLEAN]
    /\ result \in [Prompts -> Results]

TurnTypes ==
    /\ turn \in [Convs -> {"idle", "running", "ending"}]
    /\ current \in [Convs -> Prompts \cup {None}]
    /\ cancelRequested \in [Convs -> BOOLEAN]
    /\ cancelTimer \in [Convs -> Prompts \cup {None}]
    /\ force \in [Convs -> {"none", "live", "dead"}]
    /\ enginePrompt \in [Convs -> Prompts \cup {None}]

EngineTypes ==
    /\ boundGen \in [Convs -> Nat]
    /\ binding \in [Convs -> BOOLEAN]
    /\ archived \in [Convs -> BOOLEAN]
    /\ closed \in BOOLEAN
    /\ shutQueue \subseteq Convs
    /\ engine \in {"starting", "ready", "stopped"}
    /\ gen \in Nat
    /\ resident \in [Convs -> BOOLEAN]

HistoryTypes ==
    /\ submissions = [c \in Convs |-> submissions[c]]
    /\ cancels \in Nat /\ crashes \in Nat
    /\ events \in [Convs -> Seq({"echo", "turn_end", "unwritten"} \X Prompts)]
    /\ reached \subseteq Prompts
    /\ aimedAdmission \subseteq Prompts
    /\ aimedTurn \subseteq Prompts

TypeOK == PromptTypes /\ TurnTypes /\ EngineTypes /\ HistoryTypes

\* A fresh gateway: no turn, nothing bound, the engine still starting.
Init ==
    /\ stage = [p \in Prompts |-> "unsent"]
    /\ admCancelled = [p \in Prompts |-> FALSE]
    /\ call = [p \in Prompts |-> "none"]
    /\ retried = [p \in Prompts |-> FALSE]
    /\ corrected = [p \in Prompts |-> FALSE]
    /\ result = [p \in Prompts |-> "none"]
    /\ turn = [c \in Convs |-> "idle"]
    /\ current = [c \in Convs |-> None]
    /\ cancelRequested = [c \in Convs |-> FALSE]
    /\ cancelTimer = [c \in Convs |-> None]
    /\ force = [c \in Convs |-> "none"]
    /\ enginePrompt = [c \in Convs |-> None]
    /\ boundGen = [c \in Convs |-> 0]
    /\ binding = [c \in Convs |-> FALSE]
    /\ archived = [c \in Convs |-> FALSE]
    /\ submissions = [c \in Convs |-> <<>>]
    /\ closed = FALSE /\ shutQueue = {}
    /\ engine = "starting" /\ gen = 0
    /\ resident = [c \in Convs |-> FALSE]
    /\ cancels = 0 /\ crashes = 0
    /\ events = [c \in Convs |-> <<>>]
    /\ reached = {} /\ aimedAdmission = {} /\ aimedTurn = {}

-----------------------------------------------------------------------------
\* Admission

\* #running(): both running and ending turns count for capacity.
Running == {c \in Convs : turn[c] # "idle"}

\* Slips of #assertCanRun: no check at all; a turn that is ending taken for
\* idle; no capacity check.
CanRunUnchecked(c) == TRUE
CanRunWhileEnding(c) == turn[c] # "running" /\ Cardinality(Running) <= MaxRunning
CanRunUncapped(c) == turn[c] = "idle"

\* #assertCanRun
CanRun(c) == turn[c] = "idle" /\ Cardinality(Running) < MaxRunning

\* A slip: the in-flight map is never consulted.
InflightUnshared(p) == FALSE

\* conv.inflight: the submission's first request has not settled yet.
Inflight(p) ==
    /\ SubOf[p] # NoSub
    /\ \E q \in Prompts \ {p} :
          /\ ConvOf[q] = ConvOf[p] /\ SubOf[q] = SubOf[p]
          /\ stage[q] \in Admission \cup Turning

\* prompt() and the synchronous head of #promptOnce.
Submit(p) ==
    /\ stage[p] = "unsent"
    /\ stage' = [stage EXCEPT ![p] =
                   IF archived[ConvOf[p]] THEN "refused"
                   ELSE IF Inflight(p) THEN "joined"
                   ELSE IF closed THEN "refused"
                   ELSE IF SubOf[p] = NoSub THEN "check" ELSE "lookup"]
    /\ UNCHANGED <<admCancelled, call, retried, corrected, result, turnVars,
                   bindVars, submissions, engineVars, shutVars, boundVars,
                   events, reached, aimVars>>

Refuse(p) ==
    /\ stage' = [stage EXCEPT ![p] = "refused"]
    /\ UNCHANGED <<admCancelled, call, retried, corrected, result, turnVars,
                   bindVars, submissions, engineVars, shutVars, boundVars,
                   events, reached, aimVars>>

Proceed(p, to) ==
    /\ stage' = [stage EXCEPT ![p] = to]
    /\ UNCHANGED <<admCancelled, call, retried, corrected, result, turnVars,
                   submissions, shutVars, boundVars, events, reached, aimVars>>

\* #findSubmission: done already, so the recorded result is the answer.
SubmissionDone(p) == \E i \in DOMAIN submissions[ConvOf[p]] :
                        submissions[ConvOf[p]][i] = <<SubOf[p], "done">>

Lookup(p) ==
    /\ stage[p] = "lookup"
    /\ Proceed(p, IF SubmissionDone(p) THEN "done" ELSE "check")
    /\ UNCHANGED <<bindVars, engineVars>>

\* #checkPrompt is over (it may reject the blocks), then the first #assertCanRun.
CheckPrompt(p) ==
    /\ stage[p] = "check"
    /\ \/ /\ CanRun(ConvOf[p])
          /\ Proceed(p, "ready")
          /\ UNCHANGED <<bindVars, engineVars>>
       \/ Refuse(p)

\* #bind up to its await: nothing to do, join the resume in flight, or send one.
BindFrom(c) ==
    /\ binding' = [binding EXCEPT ![c] = @ \/ boundGen[c] # gen]
    /\ resident' = [resident EXCEPT ![c] = @ \/ (boundGen[c] # gen /\ ~binding[c])]
    /\ UNCHANGED <<archived, engine, gen>>

\* #checkMemory and whenReady are over: refuse (memory, timeout, stopping), or bind.
EngineIsReady(p) ==
    /\ stage[p] = "ready"
    /\ \/ /\ engine = "ready"
          /\ BindFrom(ConvOf[p])
          /\ UNCHANGED boundGen
          /\ Proceed(p, IF boundGen[ConvOf[p]] = gen THEN "usage" ELSE "bind")
       \/ Refuse(p)

\* The turn starts: the conversation's turn fields are set for p.
StartTurn(p, cancelled) ==
    LET c == ConvOf[p] IN
    /\ stage' = [stage EXCEPT ![p] = "echo"]
    /\ turn' = [turn EXCEPT ![c] = "running"]
    /\ current' = [current EXCEPT ![c] = p]
    /\ cancelRequested' = [cancelRequested EXCEPT ![c] = cancelled]
    /\ UNCHANGED <<admCancelled, call, retried, corrected, result,
                   cancelTimer, force, enginePrompt, bindVars, submissions,
                   engineVars, shutVars, boundVars, events, reached, aimVars>>

\* A slip: the admission record's flag is not taken over.
BeginTurnForgetsCancel(p) ==
    /\ stage[p] = "usage" /\ CanRun(ConvOf[p]) /\ StartTurn(p, FALSE)

\* Usage is refreshed and the model allowed (or not); the second #assertCanRun
\* and the start of the turn are one synchronous block.
BeginTurn(p) ==
    /\ stage[p] = "usage"
    /\ \/ CanRun(ConvOf[p]) /\ StartTurn(p, admCancelled[p])
       \/ Refuse(p)

-----------------------------------------------------------------------------
\* The turn: #runTurn and #enginePrompt

\* The records of the other submissions: there is at most one of each id.
Without(list, id) ==
    LET i == CHOOSE j \in DOMAIN list : list[j][1] = id
    IN IF \A j \in DOMAIN list : list[j][1] # id THEN list
       ELSE [j \in 1..(Len(list) - 1) |-> list[IF j < i THEN j ELSE j + 1]]

\* #rememberSubmission: replace the id's record, keep the newest SubmissionsKept.
Remember(list, id, state) ==
    LET all == Append(Without(list, id), <<id, state>>)
        n == Len(all)
    IN IF n <= SubmissionsKept THEN all
       ELSE SubSeq(all, n - SubmissionsKept + 1, n)

Remembered(p, state) ==
    IF SubOf[p] = NoSub THEN submissions
    ELSE [submissions EXCEPT ![ConvOf[p]] = Remember(@, SubOf[p], state)]

\* The prompt's blocks are echoed into the transcript (one event stands for all
\* of them); a failed write, before or after some block, ends the turn.
Echo(p) ==
    LET c == ConvOf[p]
        echoed == [events EXCEPT ![c] = Append(@, <<"echo", p>>)]
    IN
    /\ stage[p] = "echo"
    /\ \/ /\ events' = echoed
          /\ submissions' = Remembered(p, "running")
          /\ stage' = [stage EXCEPT ![p] = "prompt"]
          /\ UNCHANGED result
       \/ /\ events' \in {events, echoed}
          /\ stage' = [stage EXCEPT ![p] = "finish"]
          /\ result' = [result EXCEPT ![p] = "error"]
          /\ UNCHANGED submissions
    /\ UNCHANGED <<admCancelled, call, retried, corrected, turnVars, bindVars,
                   engineVars, shutVars, boundVars, reached, aimVars>>

\* The turn has its result; what is left is the report or the reap, then #endTurn.
Finish(p, r) ==
    /\ stage' = [stage EXCEPT ![p] = "finish"]
    /\ result' = [result EXCEPT ![p] = r]

\* How the engine takes session/prompt (external): it refuses a session it does
\* not have, and a second prompt while one is active.
EngineVerdict(p) ==
    IF ~resident[ConvOf[p]] THEN "notfound"
    ELSE IF \E q \in Prompts : ConvOf[q] = ConvOf[p] /\ call[q] = "active" THEN "busy"
    ELSE "active"

\* A slip: the outer `finally` clears the resolver its own retry installed.
WithResolverDropped(p) ==
    [force EXCEPT ![ConvOf[p]] = IF retried[p] THEN "none" ELSE "live"]

\* forceEndTurn: the resolver the watchdog ends this prompt's race with.
WithResolver(p) == [force EXCEPT ![ConvOf[p]] = "live"]

\* #enginePrompt after the wait for a previous prompt's answer, which the prompt
\* awaits or outwaits (PREVIOUS_PROMPT_WAIT_MS): a cancelled turn stops here, an
\* engine that is not ready fails the call at once.
SendPrompt(p) ==
    LET c == ConvOf[p] IN
    /\ stage[p] = "prompt"
    /\ \/ /\ cancelRequested[c]
          /\ Finish(p, "cancelled")
          /\ force' = [force EXCEPT ![c] = "none"]
          /\ UNCHANGED <<call, enginePrompt, reached>>
       \/ /\ ~cancelRequested[c] /\ engine # "ready"
          /\ Finish(p, "restart")
          /\ force' = [force EXCEPT ![c] = "none"]
          /\ UNCHANGED <<call, enginePrompt, reached>>
       \/ /\ ~cancelRequested[c] /\ engine = "ready"
          /\ stage' = [stage EXCEPT ![p] = "engine"]
          /\ call' = [call EXCEPT ![p] = EngineVerdict(p)]
          /\ enginePrompt' = [enginePrompt EXCEPT ![c] = p]
          /\ force' = WithResolver(p)
          /\ reached' = reached \cup {q \in {p} : EngineVerdict(q) = "active"}
          /\ UNCHANGED result
    /\ UNCHANGED <<admCancelled, retried, corrected, turn, current,
                   cancelRequested, cancelTimer, bindVars, submissions,
                   engineVars, shutVars, boundVars, events, aimVars>>

\* call settles: whoever waited for it as the previous prompt may go on.
Settle(p) ==
    LET c == ConvOf[p] IN
    /\ call' = [call EXCEPT ![p] = "none"]
    /\ enginePrompt' = [enginePrompt EXCEPT ![c] = IF @ = p THEN None ELSE @]

\* The race in #enginePrompt is over and its `finally` has run.
RaceOver(c) == force' = [force EXCEPT ![c] = "none"]

\* The engine answers a prompt whose turn still waits for it.  For end_turn
\* #citationCheck may ask for one correction, and judges the corrected answer.
Answer(p) ==
    LET c == ConvOf[p] IN
    /\ stage[p] = "engine" /\ call[p] = "active"
    /\ Settle(p) /\ RaceOver(c)
    /\ \/ /\ \/ Finish(p, "error")
             \/ Finish(p, "cancelled")
             \/ /\ ~(corrected[p] /\ cancelRequested[c])
                /\ Finish(p, "end_turn")
             \/ /\ corrected[p] /\ ~cancelRequested[c]
                /\ Finish(p, "citation_failed")
          /\ UNCHANGED <<corrected, retried>>
       \/ /\ c \in ReportConvs /\ ~cancelRequested[c] /\ ~corrected[p]
          /\ corrected' = [corrected EXCEPT ![p] = TRUE]
          /\ retried' = [retried EXCEPT ![p] = FALSE]
          /\ stage' = [stage EXCEPT ![p] = "prompt"]
          /\ UNCHANGED result
    /\ UNCHANGED <<admCancelled, turn, current, cancelRequested, cancelTimer,
                   bindVars, submissions, engineVars, shutVars, boundVars,
                   events, reached, aimVars>>

\* The engine refuses a second active prompt ("broker serialization bug").
AnswerBusy(p) ==
    /\ stage[p] = "engine" /\ call[p] = "busy"
    /\ Settle(p) /\ RaceOver(ConvOf[p])
    /\ Finish(p, "busy")
    /\ UNCHANGED <<admCancelled, corrected, retried, turn, current,
                   cancelRequested, cancelTimer, bindVars, submissions,
                   engineVars, shutVars, boundVars, events, reached, aimVars>>

\* "session not found": the binding is renewed once and the prompt sent again.
\* The old resolver stays installed, but its race is over.
AnswerNotFound(p) ==
    LET c == ConvOf[p] IN
    /\ stage[p] = "engine" /\ call[p] = "notfound"
    /\ Settle(p)
    /\ \/ /\ ~retried[p] /\ ~archived[c]
          /\ stage' = [stage EXCEPT ![p] = "rebind"]
          /\ retried' = [retried EXCEPT ![p] = TRUE]
          /\ force' = [force EXCEPT ![c] = "dead"]
          /\ boundGen' = [boundGen EXCEPT ![c] = 0]
          /\ binding' = [binding EXCEPT ![c] = TRUE]
          /\ resident' = [resident EXCEPT ![c] = ~binding[c] \/ @]
          /\ UNCHANGED result
       \/ /\ retried[p] \/ archived[c]
          /\ Finish(p, "error")
          /\ RaceOver(c)
          /\ UNCHANGED <<retried, boundGen, binding, resident>>
    /\ UNCHANGED <<admCancelled, corrected, turn, current, cancelRequested,
                   cancelTimer, archived, submissions, engine, gen, shutVars,
                   boundVars, events, reached, aimVars>>

\* A force-ended turn's engine call is answered late: nobody waits for it but
\* the conversation's next prompt.
LateAnswer(p) ==
    /\ stage[p] # "engine" /\ call[p] # "none"
    /\ Settle(p)
    /\ UNCHANGED <<stage, admCancelled, retried, corrected, result, turn, current,
                   cancelRequested, cancelTimer, force, bindVars, submissions,
                   engineVars, shutVars, boundVars, events, reached, aimVars>>

\* What the prompts waiting for a conversation's bind do when it fails.
BindFails(C, r) ==
    /\ stage' = [p \in Prompts |->
                   IF ConvOf[p] \in C /\ stage[p] = "bind" THEN "refused"
                   ELSE IF ConvOf[p] \in C /\ stage[p] = "rebind" THEN "finish"
                   ELSE stage[p]]
    /\ result' = [p \in Prompts |->
                   IF ConvOf[p] \in C /\ stage[p] = "rebind" THEN r ELSE result[p]]
    /\ force' = [c \in Convs |->
                   IF c \in C /\ \E p \in Prompts : ConvOf[p] = c /\ stage[p] = "rebind"
                   THEN "none" ELSE force[c]]

\* session/resume is answered; all its waiters go on together.
Bound(c) ==
    /\ binding[c]
    /\ binding' = [binding EXCEPT ![c] = FALSE]
    /\ \/ /\ boundGen' = [boundGen EXCEPT ![c] = gen]
          /\ stage' = [p \in Prompts |->
                         IF ConvOf[p] = c /\ stage[p] = "bind" THEN "usage"
                         ELSE IF ConvOf[p] = c /\ stage[p] = "rebind" THEN "prompt"
                         ELSE stage[p]]
          /\ UNCHANGED <<archived, result, force, resident>>
       \/ /\ archived' = [archived EXCEPT ![c] = TRUE]  \* the engine lost it
          /\ resident' = [resident EXCEPT ![c] = FALSE]
          /\ BindFails({c}, "error")
          /\ UNCHANGED boundGen
       \/ /\ BindFails({c}, "error")                    \* any other failure
          /\ resident' = [resident EXCEPT ![c] = FALSE]
          /\ UNCHANGED <<archived, boundGen>>
    /\ UNCHANGED <<admCancelled, call, retried, corrected, turn, current,
                   cancelRequested, cancelTimer, enginePrompt, submissions,
                   engine, gen, shutVars, boundVars, events, reached, aimVars>>

-----------------------------------------------------------------------------
\* The end of a turn

\* The report is exported or the processes reaped; #endTurn up to its await.
StartEnd(p) ==
    LET c == ConvOf[p] IN
    /\ stage[p] = "finish"
    /\ stage' = [stage EXCEPT ![p] = "ending"]
    /\ turn' = [turn EXCEPT ![c] = "ending"]
    /\ cancelTimer' = [cancelTimer EXCEPT ![c] = None]
    /\ UNCHANGED <<admCancelled, call, retried, corrected, result, current,
                   cancelRequested, force, enginePrompt, bindVars, submissions,
                   engineVars, shutVars, boundVars, events, reached, aimVars>>

\* turn_end is on disk (or its write failed) and fanned out; the conversation
\* becomes admittable in the same synchronous block.
WriteEnd(p) ==
    LET c == ConvOf[p] IN
    /\ stage[p] = "ending"
    /\ \E kind \in {"turn_end", "unwritten"} :
          events' = [events EXCEPT ![c] = Append(@, <<kind, p>>)]
    /\ submissions' = Remembered(p, "done")
    /\ stage' = [stage EXCEPT ![p] = "done"]
    /\ turn' = [turn EXCEPT ![c] = "idle"]
    /\ current' = [current EXCEPT ![c] = None]
    /\ UNCHANGED <<admCancelled, call, retried, corrected, result,
                   cancelRequested, cancelTimer, force, enginePrompt, bindVars,
                   engineVars, shutVars, boundVars, reached, aimVars>>

-----------------------------------------------------------------------------
\* Cancel, the watchdog, shutdown

\* A slip: the submission a cancel names is ignored.
StaleNever(s, sub) == FALSE

\* cancel's `stale`: it names a submission other than the one it would hit.
Stale(s, sub) == s # NoSub /\ sub # NoSub /\ s # sub

\* Whom a cancel is meant for, by what it says (history): the prompt whose
\* submission it names; any, when either side has no submission id.
Aims(s, p) == s \in {NoSub, SubOf[p]} \/ SubOf[p] = NoSub

Admitting(c) == {p \in Prompts : ConvOf[p] = c /\ stage[p] \in Admission}

\* cancel({sessionId: c, submissionId: s}) up to its await of the engine.
CancelEffect(c, s) ==
    LET targets == {p \in Admitting(c) : ~Stale(s, SubOf[p])}
        hits == turn[c] = "running" /\ ~Stale(s, SubOf[current[c]])
    IN
    /\ admCancelled' = [p \in Prompts |->
                          admCancelled[p] \/ (turn[c] = "idle" /\ p \in targets)]
    /\ cancelRequested' = [cancelRequested EXCEPT ![c] = @ \/ hits]
    /\ cancelTimer' = [cancelTimer EXCEPT ![c] =
                         IF hits /\ @ = None THEN current[c] ELSE @]
    /\ aimedAdmission' = aimedAdmission \cup {p \in Admitting(c) : Aims(s, p)}
    /\ aimedTurn' = aimedTurn \cup
                      {p \in Prompts : turn[c] = "running" /\ p = current[c] /\ Aims(s, p)}
    /\ UNCHANGED <<stage, call, retried, corrected, result, turn, current, force,
                   enginePrompt, bindVars, submissions, engineVars, closed,
                   crashes, events, reached>>

Cancel(c, s) ==
    /\ cancels < MaxCancels
    /\ cancels' = cancels + 1
    /\ CancelEffect(c, s)
    /\ UNCHANGED shutQueue

\* #armCancelWatchdog's timer: force-end the turn it was armed for.
Watchdog(c) ==
    LET p == current[c]
        fires == turn[c] = "running" /\ cancelTimer[c] = p /\ force[c] # "none"
    IN
    /\ cancelTimer[c] # None
    /\ cancelTimer' = [cancelTimer EXCEPT ![c] = None]
    /\ IF fires /\ force[c] = "live"
       THEN Finish(p, "forced") /\ force' = [force EXCEPT ![c] = "none"]
       ELSE UNCHANGED <<stage, result, force>>
    /\ boundGen' = [boundGen EXCEPT ![c] = IF fires THEN 0 ELSE @]
    /\ resident' = [resident EXCEPT ![c] = @ /\ ~(fires /\ engine = "ready")]
    /\ UNCHANGED <<admCancelled, call, retried, corrected, turn, current,
                   cancelRequested, enginePrompt, binding, archived, submissions,
                   engine, gen, shutVars, boundVars, events, reached, aimVars>>

\* shutdown(): closed, then cancel every running conversation in turn.
Shutdown ==
    /\ ~closed
    /\ closed' = TRUE
    /\ shutQueue' = Running
    /\ UNCHANGED <<promptVars, turnVars, bindVars, submissions, engineVars,
                   boundVars, events, reached, aimVars>>

ShutdownCancel(c) ==
    /\ c \in shutQueue
    /\ shutQueue' = shutQueue \ {c}
    /\ CancelEffect(c, NoSub)
    /\ UNCHANGED cancels

-----------------------------------------------------------------------------
\* The engine process (AgentSupervisor, as the broker sees it)

\* The process is gone: every unanswered call is rejected in the same event.
EngineGone(next) ==
    /\ engine' = next
    /\ call' = [p \in Prompts |-> "none"]
    /\ enginePrompt' = [c \in Convs |-> None]
    /\ resident' = [c \in Convs |-> FALSE]
    /\ binding' = [c \in Convs |-> FALSE]
    /\ force' = [c \in Convs |->
                   IF \E p \in Prompts : ConvOf[p] = c /\ stage[p] \in {"engine", "rebind"}
                   THEN "none" ELSE force[c]]
    /\ stage' = [p \in Prompts |->
                   IF stage[p] \in {"engine", "rebind"} THEN "finish"
                   ELSE IF stage[p] = "bind" THEN "refused" ELSE stage[p]]
    /\ result' = [p \in Prompts |->
                   IF stage[p] \in {"engine", "rebind"} THEN "restart" ELSE result[p]]
    /\ UNCHANGED <<admCancelled, retried, corrected, turn, current,
                   cancelRequested, cancelTimer, boundGen, archived, submissions,
                   gen, shutVars, cancels, events, reached, aimVars>>

\* A crash, or a restart to reconnect the tools; the supervisor starts it again.
EngineExit ==
    /\ engine = "ready" /\ crashes < MaxCrashes
    /\ crashes' = crashes + 1
    /\ EngineGone("starting")

\* A slip: the generation counts down into the values that mean "not bound".
EngineReadyDownwards ==
    /\ engine = "starting"
    /\ engine' = "ready"
    /\ gen' = gen - 1
    /\ UNCHANGED <<promptVars, turnVars, bindVars, submissions, resident,
                   shutVars, boundVars, events, reached, aimVars>>

\* A new process answered initialize and warmed up.
EngineReady ==
    /\ engine = "starting"
    /\ engine' = "ready"
    /\ gen' = gen + 1
    /\ UNCHANGED <<promptVars, turnVars, bindVars, submissions, resident,
                   shutVars, boundVars, events, reached, aimVars>>

\* A slip: shutdown waits for the turns without a time limit.
ShutdownStopUnlimited ==
    /\ closed /\ shutQueue = {} /\ Running = {} /\ engine # "stopped"
    /\ EngineGone("stopped")
    /\ UNCHANGED crashes

\* The last part of shutdown: the turns ended, or TURN_END_GRACE_MS passed.
ShutdownStop ==
    /\ closed /\ shutQueue = {} /\ engine # "stopped"
    /\ EngineGone("stopped")
    /\ UNCHANGED crashes

-----------------------------------------------------------------------------
Settled == \A p \in Prompts : stage[p] \in {"joined", "refused", "done"}

\* Nothing is left to do once the gateway is shut down and every request settled.
Quiescent == engine = "stopped" /\ Settled /\ UNCHANGED vars

PromptStep(p) ==
    \/ Lookup(p) \/ CheckPrompt(p) \/ EngineIsReady(p) \/ BeginTurn(p)
    \/ Echo(p) \/ SendPrompt(p) \/ StartEnd(p) \/ WriteEnd(p)

EngineAnswers(p) == Answer(p) \/ AnswerBusy(p) \/ AnswerNotFound(p) \/ LateAnswer(p)

Next ==
    \/ \E p \in Prompts : Submit(p) \/ PromptStep(p) \/ EngineAnswers(p)
    \/ \E c \in Convs : Bound(c) \/ Watchdog(c) \/ ShutdownCancel(c)
    \/ \E c \in Convs, s \in Subs \cup {NoSub} : Cancel(c, s)
    \/ Shutdown \/ EngineExit \/ EngineReady \/ ShutdownStop
    \/ Quiescent

Spec == Init /\ [][Next]_vars

\* Fairness.  Event-loop steps and timers of the gateway run; a session/resume
\* is answered or times out; a refused prompt is answered.  Nothing is assumed
\* of how long the model works on an accepted prompt: the engine may never answer.
Fairness ==
    /\ \A p \in Prompts : WF_vars(PromptStep(p))
    /\ \A p \in Prompts : WF_vars(AnswerBusy(p) \/ AnswerNotFound(p))
    /\ \A c \in Convs : WF_vars(Bound(c)) /\ WF_vars(Watchdog(c))
    /\ \A c \in Convs : WF_vars(ShutdownCancel(c))
    /\ WF_vars(ShutdownStop)

FairSpec == Spec /\ Fairness

-----------------------------------------------------------------------------
\* Properties

\* The prompts whose turn has begun.
Begun == {p \in Prompts : stage[p] \in Turning \/ result[p] # "none"}

\* The broker keeps the turn contract: one open turn per conversation, at most
\* MaxRunning in all, a submission's turn begins at most once, and a turn that
\* began ends before the conversation's next one begins.
Contract == INSTANCE TurnContract WITH open <- current, begun <- Begun
RefinesContract == Contract!Spec

\* Every transcript is a sequence of whole turns: a turn's end directly follows
\* its own echo, and nothing but an end separates two echoes, so no prompt echoes
\* into a turn whose turn_end is still being written (#endTurn, review CONC-1).
SerialTranscript ==
    \A c \in Convs : \A i \in 1..(Len(events[c]) - 1) :
        events[c][i][1] = "echo" =>
            /\ events[c][i + 1][1] # "echo"
            /\ events[c][i + 1][2] = events[c][i][2]

\* A turn is cancelled by the gateway only if some cancel was aimed at that very
\* prompt: no request of an earlier turn, no stale cancel and no watchdog armed
\* for another turn stops it.
NoStrayCancel ==
    /\ \A c \in Convs : turn[c] = "running" /\ cancelRequested[c] =>
          current[c] \in aimedAdmission \cup aimedTurn
    /\ \A p \in Prompts : result[p] = "forced" => p \in aimedTurn

\* A prompt flagged by a cancel during its admission never reaches the engine.
FlaggedNeverRuns == \A p \in Prompts : admCancelled[p] => p \notin reached

\* The engine refuses a prompt as a second active one only behind a force-ended
\* turn whose engine call outlived the wait: turns that end by themselves never
\* leave an engine prompt behind (#enginePrompt, "broker serialization bug").
BusyOnlyAfterForcedEnd ==
    \A p \in Prompts : call[p] = "busy" \/ result[p] = "busy" =>
        \E q \in Prompts \ {p} : ConvOf[q] = ConvOf[p] /\ result[q] = "forced"

\* The comment in #promptOnce: "a cancel that arrives during the admission below
\* (the engine, the bind) is remembered for the prompt it names".
CancelRemembered == \A p \in aimedAdmission : p \notin reached

\* A cancelled turn ends whatever the engine does: the watchdog covers the wait
\* for the engine, the cancelRequested check every step before it.
CancelledTurnEnds ==
    \A c \in Convs :
        (turn[c] = "running" /\ cancelRequested[c]) ~> (turn[c] = "idle")

\* Shutdown ends every turn, also one that was still being admitted when it began.
ShutdownEndsTurns == closed ~> (engine = "stopped" /\ Running = {})

-----------------------------------------------------------------------------
\* The inductive invariant behind the safety properties

\* The open turn and the stage of its prompt tell the same story.
TurnOwner ==
    /\ \A c \in Convs :
          /\ turn[c] = "idle" <=> current[c] = None
          /\ current[c] # None => ConvOf[current[c]] = c /\ stage[current[c]] \in Turning
          /\ current[c] # None => (turn[c] = "ending" <=> stage[current[c]] = "ending")
    /\ \A p \in Prompts : stage[p] \in Turning => current[ConvOf[p]] = p

\* Whatever a cancel left behind belongs to a prompt it was aimed at: the
\* admission flags, the running turn's request, and the armed watchdog.
CancelOwner ==
    /\ \A p \in Prompts : admCancelled[p] => p \in aimedAdmission
    /\ \A c \in Convs : cancelTimer[c] # None =>
          /\ turn[c] = "running"
          /\ cancelTimer[c] = current[c]
          /\ current[c] \in aimedTurn
    /\ NoStrayCancel

\* A flagged prompt carries its flag into its turn, and no prompt reaches the
\* engine before its turn.
FlagOwner ==
    /\ \A p \in Prompts : admCancelled[p] /\ stage[p] \in Turning =>
          cancelRequested[ConvOf[p]]
    /\ \A p \in reached : stage[p] \in Turning \cup {"done"}
    /\ FlaggedNeverRuns

\* An echo without its end is the open turn's own.
OpenEcho ==
    \A c \in Convs : LET n == Len(events[c]) IN
        n > 0 /\ events[c][n][1] = "echo" =>
            /\ current[c] # None
            /\ events[c][n][2] = current[c]
            /\ stage[current[c]] # "echo"

IInv == TurnOwner /\ CancelOwner /\ FlagOwner /\ OpenEcho /\ SerialTranscript
=============================================================================
