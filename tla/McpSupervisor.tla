--------------------------- MODULE McpSupervisor ---------------------------
(***************************************************************************)
(* The supervisor of the shared MCP tool server                            *)
(* (runtime/lib/mcp-supervisor.js): start, stop and revive, the start      *)
(* attempt with its awaits (log, port, orphans of an earlier gateway, the  *)
(* /healthz polls), the exit handler, the bounded automatic restarts, and  *)
(* the reaping of the workers a server leaves behind.                      *)
(*                                                                         *)
(* start() and stop() may be called at any time, also while the other is   *)
(* under way; revive() is called on a new prompt when the server was given *)
(* up (the broker's #reviveMcp).                                           *)
(***************************************************************************)
EXTENDS Integers

CONSTANTS
    MaxRestarts, \* maxRestarts inside the window
    MaxStarts,   \* bound on calls of start()
    MaxStops,    \* bound on calls of stop()
    MaxRevives,  \* bound on calls of revive()
    MaxFaults    \* bound on crashes and failed starts

ASSUME McpAssumption ==
    /\ MaxRestarts \in Nat /\ MaxStarts \in Nat /\ MaxStops \in Nat
    /\ MaxRevives \in Nat /\ MaxFaults \in Nat

\* One server for every start and revive, and for every fault that restarts it.
Servers == 1..(MaxStarts + MaxRevives + MaxFaults)

VARIABLES
    state,      \* #state
    stopReq,    \* #stopRequested
    stopping,   \* where the run of stop() is; "none": #stopping is null
    attempt,    \* where #startOnce is; "none": #attempt is null
    timer,      \* #retryTimer is set
    restarts,   \* #restarts.length
    child,      \* #child: a server, or 0
    server,     \* server -> its process record
    workers,    \* the servers whose workers, as the snapshots saw them, may run
    reaping,    \* #reaping: the servers whose leftovers are being reaped
    kill,       \* where the #terminate under way is
    target,     \* the server it terminates
    waiting,    \* a start() awaits the end of the stop
    orphan,     \* an MCP an earlier gateway left running holds the port
    spawned, starts, stops, revives, faults

callVars == <<starts, stops, revives>>
killVars == <<kill, target>>
vars == <<state, stopReq, stopping, attempt, timer, restarts, child, server, workers,
          reaping, killVars, waiting, orphan, spawned, callVars, faults>>

McpServer == [status : {"none", "live", "gone"}, ready : BOOLEAN, expected : BOOLEAN,
           reaped : BOOLEAN, signalled : BOOLEAN]

TypeOK ==
    /\ state \in {"stopped", "starting", "ready", "unavailable"}
    /\ stopReq \in BOOLEAN /\ timer \in BOOLEAN /\ waiting \in BOOLEAN /\ orphan \in BOOLEAN
    /\ stopping \in {"none", "attempt", "drain", "dying", "reap"}
    /\ attempt \in {"none", "log", "port", "orphans", "poll", "dying"}
    /\ restarts \in 0..MaxRestarts
    /\ child \in {0} \cup Servers /\ target \in {0} \cup Servers
    /\ server \in [Servers -> McpServer]
    /\ workers \subseteq Servers /\ reaping \subseteq Servers
    /\ kill \in {"none", "tree", "wait", "exited", "reap", "over"}
    /\ spawned \in {0} \cup Servers
    /\ starts \in 0..MaxStarts /\ stops \in 0..MaxStops
    /\ revives \in 0..MaxRevives /\ faults \in 0..MaxFaults

Init ==
    /\ state = "stopped" /\ stopReq = FALSE /\ stopping = "none" /\ attempt = "none"
    /\ timer = FALSE /\ restarts = 0 /\ child = 0
    /\ server = [n \in Servers |-> [status |-> "none", ready |-> FALSE, expected |-> FALSE,
                                    reaped |-> FALSE, signalled |-> FALSE]]
    /\ workers = {} /\ reaping = {} /\ kill = "none" /\ target = 0
    /\ waiting = FALSE /\ orphan \in BOOLEAN
    /\ spawned = 0 /\ starts = 0 /\ stops = 0 /\ revives = 0 /\ faults = 0

Live(n) == server[n].status = "live"
ServerGone(n) == server[n].status = "gone"
Fault == faults < MaxFaults /\ faults' = faults + 1

-----------------------------------------------------------------------------
\* start, revive, the restart timer

\* #launch
Launch == attempt' = "log" /\ state' = "starting" /\ timer' = FALSE

\* A slip: a start in flight is not joined.
NothingToStartAlone == state = "ready" /\ child # 0

\* start() has nothing to do, or joins the start in flight.
NothingToStart == (state = "ready" /\ child # 0) \/ attempt # "none"

StartOrJoin == IF NothingToStart THEN UNCHANGED <<attempt, state, timer>> ELSE Launch

StartMcp ==
    /\ starts < MaxStarts
    /\ starts' = starts + 1
    /\ IF stopping # "none"
       THEN waiting' = TRUE /\ UNCHANGED <<stopReq, attempt, state, timer>>
       ELSE stopReq' = FALSE /\ StartOrJoin /\ UNCHANGED waiting
    /\ UNCHANGED <<stopping, restarts, child, server, workers, reaping, killVars,
                   orphan, spawned, stops, revives, faults>>

\* #reviveMcp and revive(): nothing after a stop().
Revive ==
    /\ state = "unavailable" /\ revives < MaxRevives
    /\ revives' = revives + 1
    /\ restarts' = 0
    /\ IF stopReq \/ stopping # "none" THEN UNCHANGED <<attempt, state, timer>> ELSE StartOrJoin
    /\ UNCHANGED <<stopReq, stopping, child, server, workers, reaping, killVars,
                   waiting, orphan, spawned, starts, stops, faults>>

MayRestart(kept) == kept < MaxRestarts

\* A slip: the earlier timer is cleared after the new one is set.
ScheduleRestartCleared ==
    IF stopReq THEN UNCHANGED <<restarts, state, timer>>
    ELSE \E kept \in 0..restarts :
            IF MayRestart(kept)
            THEN restarts' = kept + 1 /\ state' = "starting" /\ timer' = FALSE
            ELSE restarts' = kept /\ state' = "unavailable" /\ UNCHANGED timer

\* #scheduleRestart; kept of the earlier restarts are inside the window.
ScheduleRestart ==
    IF stopReq THEN UNCHANGED <<restarts, state, timer>>
    ELSE \E kept \in 0..restarts :
            IF MayRestart(kept)
            THEN restarts' = kept + 1 /\ state' = "starting" /\ timer' = TRUE
            ELSE restarts' = kept /\ state' = "unavailable" /\ UNCHANGED timer

TimerFires ==
    /\ timer
    /\ IF stopReq \/ child # 0 \/ attempt # "none"
       THEN timer' = FALSE /\ UNCHANGED <<attempt, state>>
       ELSE Launch
    /\ UNCHANGED <<stopReq, stopping, restarts, child, server, workers, reaping,
                   killVars, waiting, orphan, spawned, callVars, faults>>

-----------------------------------------------------------------------------
\* #terminate, of a failed attempt or of stop()

\* Up to its first await.
Terminate(n) ==
    /\ target' = n
    /\ kill' = IF ServerGone(n) THEN "exited" ELSE "tree"
    /\ server' = [server EXCEPT ![n].expected = TRUE]

\* A slip: an exit that came during the tree snapshot is waited for.
ExitedMeanwhileNot(n) == FALSE

ExitedMeanwhile(n) == ServerGone(n)

\* The tree is read: SIGTERM, SIGKILL after the grace time, unless it exited.
KillSignal ==
    /\ kill = "tree"
    /\ IF ExitedMeanwhile(target) THEN kill' = "exited" /\ UNCHANGED server
       ELSE kill' = "wait" /\ server' = [server EXCEPT ![target].signalled = TRUE]
    /\ UNCHANGED <<state, stopReq, stopping, attempt, timer, restarts, child, workers,
                   reaping, target, waiting, orphan, spawned, callVars, faults>>

\* Its workers are reaped here, unless the exit handler does it already.
KillExited ==
    /\ kill = "exited"
    /\ kill' = IF server[target].reaped THEN "over" ELSE "reap"
    /\ server' = [server EXCEPT ![target].reaped = TRUE]
    /\ UNCHANGED <<state, stopReq, stopping, attempt, timer, restarts, child, workers,
                   reaping, target, waiting, orphan, spawned, callVars, faults>>

KillReaped ==
    /\ kill = "reap"
    /\ kill' = "over"
    /\ workers' = workers \ {target}
    /\ UNCHANGED <<state, stopReq, stopping, attempt, timer, restarts, child, server,
                   reaping, target, waiting, orphan, spawned, callVars, faults>>

-----------------------------------------------------------------------------
\* #startOnce

\* The attempt fails without a server: #launch's rejection handler.
AttemptFails ==
    /\ attempt' = "none"
    /\ ScheduleRestart
    /\ UNCHANGED <<child, server, workers, spawned>>

LogOpened ==
    /\ attempt = "log"
    /\ IF stopReq THEN AttemptFails
       ELSE attempt' = "port" /\ UNCHANGED <<restarts, state, timer, child, server, workers, spawned>>
    /\ UNCHANGED <<stopReq, stopping, reaping, killVars, waiting, orphan, callVars, faults>>

\* The port is free: #assertNotStopped and the spawn are one step.
SpawnUnlessStopped ==
    IF stopReq THEN AttemptFails
    ELSE /\ attempt' = "poll"
         /\ spawned' = spawned + 1
         /\ child' = spawned + 1
         /\ server' = [server EXCEPT ![spawned + 1].status = "live"]
         /\ workers' = workers \cup {spawned + 1}
         /\ UNCHANGED <<restarts, state, timer>>

PortProbed ==
    /\ attempt = "port"
    /\ IF orphan
       THEN attempt' = "orphans" /\ UNCHANGED <<restarts, state, timer, child, server, workers, spawned>>
       ELSE SpawnUnlessStopped
    /\ UNCHANGED <<stopReq, stopping, reaping, killVars, waiting, orphan, callVars, faults>>

OrphansReaped ==
    /\ attempt = "orphans"
    /\ orphan' = FALSE
    /\ SpawnUnlessStopped
    /\ UNCHANGED <<stopReq, stopping, reaping, killVars, waiting, callVars, faults>>

\* The port is someone else's, the orphan stays, or the spawn fails.
SpawnFails ==
    /\ attempt \in {"port", "orphans"} /\ Fault
    /\ AttemptFails
    /\ UNCHANGED <<stopReq, stopping, reaping, killVars, waiting, orphan, callVars>>

\* /healthz is the shared MCP's and the process still runs.  A stop() that came
\* during the last probe is not looked at: it waits for this attempt.
Ready ==
    /\ attempt = "poll" /\ child # 0 /\ Live(child)
    /\ attempt' = "none"
    /\ state' = "ready"
    /\ server' = [server EXCEPT ![child].ready = TRUE]
    /\ UNCHANGED <<stopReq, stopping, timer, restarts, child, workers, reaping,
                   killVars, waiting, orphan, spawned, callVars, faults>>

\* The server exited, stop() was called, or it is the wrong server or too slow:
\* what this attempt spawned goes with it.
PollFails ==
    /\ attempt = "poll"
    /\ \/ (child = 0 \/ stopReq) /\ UNCHANGED faults
       \/ child # 0 /\ Fault
    /\ attempt' = "dying"
    /\ Terminate(spawned)
    /\ UNCHANGED <<state, stopReq, stopping, timer, restarts, child, workers, reaping,
                   waiting, orphan, spawned, callVars>>

AttemptDead ==
    /\ attempt = "dying" /\ kill = "over"
    /\ kill' = "none"
    /\ AttemptFails
    /\ UNCHANGED <<stopReq, stopping, reaping, target, waiting, orphan, callVars, faults>>

-----------------------------------------------------------------------------
\* The server process

\* A slip: the crash of a ready server is left to its start.
CrashOwesRestartNot(n) == FALSE

\* A crash during a start is handled by the start itself.
CrashOwesRestart(n) == server[n].ready

\* The "exit" handler, and #terminate's wait for the same event.
OnExit(n) ==
    /\ child' = IF child = n THEN 0 ELSE child
    /\ kill' = IF kill = "wait" /\ target = n THEN "exited" ELSE kill
    /\ IF server[n].expected
       THEN /\ server' = [server EXCEPT ![n].status = "gone"]
            /\ UNCHANGED <<reaping, restarts, state, timer>>
       ELSE /\ server' = [server EXCEPT ![n].status = "gone", ![n].reaped = TRUE]
            /\ reaping' = reaping \cup {n}
            /\ IF CrashOwesRestart(n) THEN ScheduleRestart ELSE UNCHANGED <<restarts, state, timer>>
    /\ UNCHANGED <<stopReq, stopping, attempt, workers, target, waiting, orphan, spawned, callVars>>

Exit(n) == Live(n) /\ server[n].signalled /\ OnExit(n) /\ UNCHANGED faults
Crash(n) == Live(n) /\ Fault /\ OnExit(n)

LeftoversReaped(n) ==
    /\ n \in reaping
    /\ reaping' = reaping \ {n}
    /\ workers' = workers \ {n}
    /\ UNCHANGED <<state, stopReq, stopping, attempt, timer, restarts, child, server,
                   killVars, waiting, orphan, spawned, callVars, faults>>

-----------------------------------------------------------------------------
\* stop

\* stop()'s run once no attempt is in flight: drain a ready server first, if
\* asked to, and terminate it.
StopServer(drain) ==
    IF child = 0 THEN stopping' = "reap" /\ UNCHANGED <<killVars, server>>
    ELSE IF drain /\ server[child].ready THEN stopping' = "drain" /\ UNCHANGED <<killVars, server>>
    ELSE stopping' = "dying" /\ Terminate(child)

\* A slip: a start in flight is not waited for.
StartInFlightIgnored == FALSE

StartInFlight == attempt # "none"

StopMcp ==
    /\ stops < MaxStops
    /\ stops' = stops + 1
    /\ stopReq' = TRUE /\ timer' = FALSE
    /\ IF stopping # "none" THEN UNCHANGED <<stopping, killVars, server>>
       ELSE IF StartInFlight THEN stopping' = "attempt" /\ UNCHANGED <<killVars, server>>
       ELSE \E drain \in BOOLEAN : StopServer(drain)
    /\ UNCHANGED <<state, attempt, restarts, child, workers, reaping, waiting, orphan,
                   spawned, starts, revives, faults>>

StopAfterAttempt ==
    /\ stopping = "attempt" /\ attempt = "none"
    /\ \E drain \in BOOLEAN : StopServer(drain)
    /\ UNCHANGED <<state, stopReq, attempt, timer, restarts, child, workers, reaping,
                   waiting, orphan, spawned, callVars, faults>>

\* #drain is over: nothing in flight, no answer, the time is up, or it exited
\* (the run goes on with the server it drained).
StopDrained ==
    /\ stopping = "drain"
    /\ stopping' = "dying"
    /\ Terminate(spawned)
    /\ UNCHANGED <<state, stopReq, attempt, timer, restarts, child, workers, reaping,
                   waiting, orphan, spawned, callVars, faults>>

StopDead ==
    /\ stopping = "dying" /\ kill = "over"
    /\ stopping' = "reap" /\ kill' = "none"
    /\ UNCHANGED <<state, stopReq, attempt, timer, restarts, child, server, workers,
                   reaping, target, waiting, orphan, spawned, callVars, faults>>

\* stop() resolves; a start() that waited for it goes on at once.
StopDone ==
    /\ stopping = "reap" /\ reaping = {}
    /\ stopping' = "none" /\ waiting' = FALSE
    /\ IF waiting THEN stopReq' = FALSE /\ Launch
       ELSE state' = "stopped" /\ UNCHANGED <<stopReq, attempt, timer>>
    /\ UNCHANGED <<restarts, child, server, workers, reaping, killVars, orphan,
                   spawned, callVars, faults>>

-----------------------------------------------------------------------------

AttemptStep == LogOpened \/ PortProbed \/ OrphansReaped \/ SpawnFails \/ Ready \/ PollFails \/ AttemptDead
KillStep == KillSignal \/ KillExited \/ KillReaped
StopStep == StopAfterAttempt \/ StopDrained \/ StopDead \/ StopDone

Next ==
    \/ StartMcp \/ StopMcp \/ Revive \/ TimerFires
    \/ AttemptStep \/ KillStep \/ StopStep
    \/ \E n \in Servers : Exit(n) \/ Crash(n) \/ LeftoversReaped(n)

Spec == Init /\ [][Next]_vars

\* Awaited steps end (a drain and the polls have deadlines), the timer fires,
\* and a server that was sent SIGTERM exits, by SIGKILL at the latest.
Fairness ==
    /\ WF_vars(TimerFires) /\ WF_vars(AttemptStep) /\ WF_vars(KillStep) /\ WF_vars(StopStep)
    /\ \A n \in Servers : WF_vars(Exit(n)) /\ WF_vars(LeftoversReaped(n))

FairSpec == Spec /\ Fairness

-----------------------------------------------------------------------------
\* Properties

\* Never two servers: they would share the port and the workspace.
OneServer == \A m, n \in Servers : Live(m) /\ Live(n) => m = n

\* When stop() has resolved and nobody called start() since, no server and no
\* worker of one runs, and nothing is left that could start one ("a stop that
\* returned while a spawn was pending left the server running").
StopLeavesNothing ==
    stopReq /\ stopping = "none" =>
        /\ \A n \in Servers : ~Live(n)
        /\ workers = {} /\ ~timer /\ attempt = "none"

\* Outside a stop, "ready" means a live server: the broker restarts the engine to
\* connect its tools on the strength of it.
ReadyIsLive == state = "ready" /\ stopping = "none" => child # 0 /\ Live(child)

\* The tools are where the broker believes them to be: at most one server, and a live
\* one when "ready" was told outside a stop.
OneLiveServer == OneServer /\ ReadyIsLive

\* Once started and not stopped, the server ends up ready or given up.
Settles == (state = "starting" /\ ~stopReq) ~> (state \in {"ready", "unavailable"} \/ stopReq)

\* stop() always resolves: it waits for the attempt, the attempt for the server.
StopResolves == stopping # "none" ~> stopping = "none"
=============================================================================
