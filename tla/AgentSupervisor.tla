-------------------------- MODULE AgentSupervisor --------------------------
(***************************************************************************)
(* The supervisor of the engine process (runtime/lib/agent-supervisor.js): *)
(* start, stop, restart, the launch with its awaits, the exit handler, the *)
(* bounded automatic restarts, whenReady and forwarded calls, as the broker *)
(* drives them: one start at boot, restarts to connect the tools, one stop *)
(* at shutdown, requests at any time.                                      *)
(*                                                                         *)
(* Every start and every stop takes the next epoch.  A launch, a stop and  *)
(* an engine process are named by the epoch of the call that made them, so *)
(* launch[e], proc[e] and stopper[e] are indexed by epochs.                *)
(***************************************************************************)
EXTENDS Integers, FiniteSets

CONSTANTS
    Clients,          \* requests that need the engine
    MaxRestarts,      \* MAX_RESTARTS_IN_WINDOW
    MaxToolsRestarts, \* bound on restart() calls
    MaxFaults         \* bound on crashes and failed starts

ASSUME SupervisorAssumption ==
    /\ IsFiniteSet(Clients)
    /\ MaxRestarts \in Nat /\ MaxToolsRestarts \in Nat /\ MaxFaults \in Nat

\* Boot and shutdown, two for each restart(), one for each fault that schedules
\* a restart, one for each request that finds the engine unavailable.
MaxEpoch == 2 + 2 * MaxToolsRestarts + MaxFaults + Cardinality(Clients)
Epochs == 1..MaxEpoch

VARIABLES
    state,       \* this.state
    stopping,    \* this.stopping
    restarting,  \* #restarting
    epoch,       \* #epoch
    generation,  \* this.generation
    restarts,    \* this.restarts.length
    timer,       \* #restartTimer is set
    current,     \* #proc: the epoch of the engine process, 0 when null
    reaping,     \* this.reaping has not settled
    launch,      \* epoch -> the #launch of that start()
    proc,        \* epoch -> the process that launch spawned
    stopper,     \* epoch -> the stop() of that epoch
    client,      \* request -> where it is
    booted, shut,    \* the broker's start and shutdown
    tools,       \* the broker's restart for tools, and the epoch it waits for
    toolsCount, faults

superVars == <<state, stopping, epoch, restarts, timer, current>>
brokerVars == <<restarting, booted, shut, tools, toolsCount>>
vars == <<superVars, generation, reaping, launch, proc, stopper, client, brokerVars, faults>>

LaunchState == [pc : {"none", "wait", "dirs", "init", "dying", "done"}, prev : 0..MaxEpoch]
ProcState == [status : {"none", "live", "gone"}, gen : Nat, ready : BOOLEAN,
              terminating : BOOLEAN, expected : BOOLEAN, signalled : BOOLEAN]
StopState == [pc : {"none", "snap", "kill", "reap", "done"}, target : 0..MaxEpoch]
ClientState == [pc : {"idle", "waiting", "granted", "calling", "answered", "refused"},
                on : 0..MaxEpoch]

TypeOK ==
    /\ state \in {"stopped", "starting", "ready", "restarting", "stopping", "unavailable"}
    /\ stopping \in BOOLEAN /\ restarting \in BOOLEAN /\ timer \in BOOLEAN
    /\ epoch \in 0..MaxEpoch /\ current \in 0..MaxEpoch
    /\ generation \in Nat /\ restarts \in 0..MaxRestarts
    /\ reaping \in BOOLEAN
    /\ launch \in [Epochs -> LaunchState]
    /\ proc \in [Epochs -> ProcState]
    /\ stopper \in [Epochs -> StopState]
    /\ client \in [Clients -> ClientState]
    /\ booted \in BOOLEAN /\ shut \in 0..MaxEpoch
    /\ tools \in [pc : {"idle", "stopping", "starting"}, at : 0..MaxEpoch]
    /\ toolsCount \in 0..MaxToolsRestarts /\ faults \in 0..MaxFaults

Init ==
    /\ state = "stopped" /\ stopping = FALSE /\ restarting = FALSE
    /\ epoch = 0 /\ generation = 0 /\ restarts = 0 /\ timer = FALSE
    /\ current = 0 /\ reaping = FALSE
    /\ launch = [e \in Epochs |-> [pc |-> "none", prev |-> 0]]
    /\ proc = [e \in Epochs |-> [status |-> "none", gen |-> 0, ready |-> FALSE,
                 terminating |-> FALSE, expected |-> FALSE, signalled |-> FALSE]]
    /\ stopper = [e \in Epochs |-> [pc |-> "none", target |-> 0]]
    /\ client = [c \in Clients |-> [pc |-> "idle", on |-> 0]]
    /\ booted = FALSE /\ shut = 0
    /\ tools = [pc |-> "idle", at |-> 0]
    /\ toolsCount = 0 /\ faults = 0

Live(e) == proc[e].status = "live"
Gone(e) == proc[e].status = "gone"
Fault == faults < MaxFaults /\ faults' = faults + 1

\* emit("ready") and emit("unavailable"): what becomes of the waiting requests.
Answered(clients, pc) ==
    [c \in Clients |-> IF clients[c].pc = "waiting"
                       THEN [clients[c] EXCEPT !.pc = pc] ELSE clients[c]]

-----------------------------------------------------------------------------
\* start, stop

AlreadyUp == (state = "ready" /\ current # 0) \/ state = "starting"

\* start(): nothing, or a launch under a new epoch.
Start ==
    IF AlreadyUp THEN UNCHANGED <<stopping, timer, state, epoch, launch>>
    ELSE /\ stopping' = FALSE /\ timer' = FALSE
         /\ state' = "starting"
         /\ epoch' = epoch + 1
         /\ launch' = [launch EXCEPT ![epoch + 1] = [pc |-> "wait", prev |-> current]]

\* stop() up to its first await.
Stop ==
    /\ stopping' = TRUE /\ timer' = FALSE
    /\ epoch' = epoch + 1
    /\ IF current = 0
       THEN /\ state' = "stopped"
            /\ stopper' = [stopper EXCEPT ![epoch + 1].pc = "reap"]
            /\ UNCHANGED proc
       ELSE /\ state' = "stopping"
            /\ stopper' = [stopper EXCEPT ![epoch + 1] = [pc |-> "snap", target |-> current]]
            /\ proc' = [proc EXCEPT ![current].expected = TRUE]

\* The tree is read; SIGTERM (and SIGKILL after the grace time).
StopSignal(e) ==
    /\ stopper[e].pc = "snap"
    /\ stopper' = [stopper EXCEPT ![e].pc = "kill"]
    /\ proc' = [proc EXCEPT ![stopper[e].target].signalled = TRUE]
    /\ UNCHANGED <<superVars, generation, reaping, launch, client, brokerVars, faults>>

StopExited(e) ==
    /\ stopper[e].pc = "kill" /\ Gone(stopper[e].target)
    /\ stopper' = [stopper EXCEPT ![e].pc = "reap"]
    /\ UNCHANGED <<superVars, generation, reaping, launch, proc, client, brokerVars, faults>>

\* The leftovers are reaped: stop() resolves.
StopDone(e) ==
    /\ stopper[e].pc = "reap" /\ ~reaping
    /\ stopper' = [stopper EXCEPT ![e].pc = "done"]
    /\ state' = IF stopper[e].target # 0 /\ epoch = e THEN "stopped" ELSE state
    /\ UNCHANGED <<stopping, epoch, restarts, timer, current, generation, reaping,
                   launch, proc, client, brokerVars, faults>>

ReapDone ==
    /\ reaping
    /\ reaping' = FALSE
    /\ UNCHANGED <<superVars, generation, launch, proc, stopper, client, brokerVars, faults>>

-----------------------------------------------------------------------------
\* Automatic restarts

\* Fewer than the limit inside the window.
MayRestart(kept) == kept < MaxRestarts

\* #scheduleRestart; kept of the earlier restarts are inside the window.
ScheduleRestart(clients) ==
    \E kept \in 0..restarts :
        IF MayRestart(kept)
        THEN /\ restarts' = kept + 1
             /\ state' = "restarting" /\ timer' = TRUE
             /\ client' = clients
        ELSE /\ restarts' = kept
             /\ state' = "unavailable"
             /\ client' = Answered(clients, "refused")
             /\ UNCHANGED timer

TimerFires ==
    /\ timer
    /\ IF stopping \/ state # "restarting"
       THEN timer' = FALSE /\ UNCHANGED <<stopping, state, epoch, launch>>
       ELSE Start
    /\ UNCHANGED <<restarts, current, generation, reaping, proc, stopper, client, brokerVars, faults>>

-----------------------------------------------------------------------------
\* The launch

\* A dying engine is replaced only once it is gone.
PrevGone(e) == launch[e].prev # 0 => Gone(launch[e].prev)

LaunchWaited(e) ==
    /\ launch[e].pc = "wait" /\ PrevGone(e)
    /\ launch' = [launch EXCEPT ![e].pc = "dirs"]
    /\ UNCHANGED <<superVars, generation, reaping, proc, stopper, client, brokerVars, faults>>

\* A slip: nobody looks whether the supervisor was stopped meanwhile.
CancelledNever(e) == FALSE

Cancelled(e) == stopping \/ e # epoch

\* The end of a failed launch.
Conclude(e) ==
    /\ launch' = [launch EXCEPT ![e].pc = "done"]
    /\ IF Cancelled(e) THEN UNCHANGED <<restarts, state, timer, client>> ELSE ScheduleRestart(client)

\* #spawn's generation.
NextGeneration == generation + 1

\* The directories are there; the check and the spawn are one step.
LaunchSpawn(e) ==
    /\ launch[e].pc = "dirs"
    /\ IF Cancelled(e)
       THEN launch' = [launch EXCEPT ![e].pc = "done"] /\ UNCHANGED <<proc, current>>
       ELSE /\ launch' = [launch EXCEPT ![e].pc = "init"]
            /\ proc' = [proc EXCEPT ![e].status = "live", ![e].gen = NextGeneration]
            /\ current' = e
    /\ UNCHANGED <<state, stopping, epoch, restarts, timer, generation, reaping,
                   stopper, client, brokerVars, faults>>

DirsFail(e) ==
    /\ launch[e].pc = "dirs" /\ Fault
    /\ Conclude(e)
    /\ UNCHANGED <<stopping, epoch, current, generation, reaping, proc, stopper, brokerVars>>

\* initialize, the warm-up session and the wait for the tools are over.
LaunchReady(e) ==
    /\ launch[e].pc = "init" /\ Live(e) /\ current = e
    /\ launch' = [launch EXCEPT ![e].pc = "done"]
    /\ proc' = [proc EXCEPT ![e].ready = TRUE]
    /\ generation' = proc[e].gen
    /\ state' = "ready"
    /\ client' = Answered(client, "granted")
    /\ UNCHANGED <<stopping, epoch, restarts, timer, current, reaping, stopper, brokerVars, faults>>

\* #terminate: new calls are refused at once.
Terminate(e) ==
    /\ proc' = [proc EXCEPT ![e].terminating = TRUE, ![e].signalled = TRUE]
    /\ state' = IF proc[e].ready /\ state = "ready" THEN "restarting" ELSE state

\* A step of the start fails or times out: the process is terminated first.
InitFail(e) ==
    /\ launch[e].pc = "init" /\ Live(e) /\ Fault
    /\ launch' = [launch EXCEPT ![e].pc = "dying"]
    /\ IF proc[e].terminating THEN UNCHANGED <<proc, state>> ELSE Terminate(e)
    /\ UNCHANGED <<stopping, epoch, restarts, timer, current, generation, reaping,
                   stopper, client, brokerVars>>

\* The process is gone: the launch fails.
LaunchLost(e) ==
    /\ launch[e].pc \in {"init", "dying"} /\ Gone(e)
    /\ Conclude(e)
    /\ UNCHANGED <<stopping, epoch, current, generation, reaping, proc, stopper, brokerVars, faults>>

-----------------------------------------------------------------------------
\* The process

\* #checkServe or a health probe finds the engine's server dead.
ServerDied(e) ==
    /\ Live(e) /\ ~proc[e].terminating /\ Fault
    /\ Terminate(e)
    /\ UNCHANGED <<stopping, epoch, restarts, timer, current, generation, reaping,
                   launch, stopper, client, brokerVars>>

\* A slip: calls in flight are left to the connection, which never rejects them.
RejectPendingNot(e) == client

\* The calls in flight on a process that exits.
RejectPending(e) ==
    [c \in Clients |-> IF client[c].pc = "calling" /\ client[c].on = e
                       THEN [client[c] EXCEPT !.pc = "refused"] ELSE client[c]]

\* A slip: the exit of a terminated engine is taken for an expected one.
OwesRestartUnlessTold(e) ==
    proc[e].ready /\ ~(stopping \/ proc[e].terminating) /\ state # "starting"

\* A failed start is rescheduled by its launch, an expected exit belongs to
\* stop(), and a start that waits for this exit owns the state.
OwesRestart(e) ==
    proc[e].ready /\ ~(stopping \/ proc[e].expected) /\ state # "starting"

\* #onGone.
OnGone(e) ==
    /\ proc' = [proc EXCEPT ![e].status = "gone"]
    /\ reaping' = TRUE
    /\ current' = IF current = e THEN 0 ELSE current
    /\ IF current = e /\ OwesRestart(e)
       THEN ScheduleRestart(RejectPending(e))
       ELSE client' = RejectPending(e) /\ UNCHANGED <<restarts, state, timer>>
    /\ UNCHANGED <<stopping, epoch, generation, launch, stopper, brokerVars>>

\* It was told to go.
Exit(e) == Live(e) /\ proc[e].signalled /\ OnGone(e) /\ UNCHANGED faults

\* It dies by itself (also: it could not be spawned).
Crash(e) == Live(e) /\ Fault /\ OnGone(e)

-----------------------------------------------------------------------------
\* The broker: boot, restarts for the tools, shutdown

Boot ==
    /\ ~booted /\ shut = 0
    /\ booted' = TRUE
    /\ Start
    /\ UNCHANGED <<restarts, current, generation, reaping, proc, stopper, client,
                   restarting, shut, tools, toolsCount, faults>>

Shutdown ==
    /\ shut = 0
    /\ shut' = epoch + 1
    /\ Stop
    /\ UNCHANGED <<restarts, current, generation, reaping, launch, client,
                   restarting, booted, tools, toolsCount, faults>>

\* restart() up to its await (the broker runs one at a time, and none after its
\* shutdown began).
ToolsRestart ==
    /\ shut = 0 /\ tools.pc = "idle" /\ current # 0
    /\ toolsCount < MaxToolsRestarts
    /\ toolsCount' = toolsCount + 1
    /\ restarting' = TRUE
    /\ tools' = [pc |-> "stopping", at |-> epoch + 1]
    /\ Stop
    /\ UNCHANGED <<restarts, current, generation, reaping, launch, client, booted, shut, faults>>

\* A slip: the restart goes on behind a stop that came meanwhile.
OvertakenNever == FALSE

\* A later stop() took an epoch of its own.
Overtaken == epoch # tools.at

\* restart() after its stop.
ToolsStart ==
    /\ tools.pc = "stopping" /\ stopper[tools.at].pc = "done"
    /\ IF Overtaken
       THEN /\ restarting' = FALSE
            /\ tools' = [pc |-> "idle", at |-> 0]
            /\ UNCHANGED <<stopping, timer, state, epoch, launch>>
       ELSE /\ Start
            /\ tools' = [pc |-> "starting", at |-> epoch']
            /\ UNCHANGED restarting
    /\ UNCHANGED <<restarts, current, generation, reaping, proc, stopper, client,
                   booted, shut, toolsCount, faults>>

ToolsStarted ==
    /\ tools.pc = "starting" /\ launch[tools.at].pc = "done"
    /\ restarting' = FALSE
    /\ tools' = [pc |-> "idle", at |-> 0]
    /\ UNCHANGED <<superVars, generation, reaping, launch, proc, stopper, client,
                   booted, shut, toolsCount, faults>>

-----------------------------------------------------------------------------
\* Requests

To(c, pc) == client' = [client EXCEPT ![c].pc = pc]

Serving == state = "ready" /\ current # 0 /\ proc[current].ready

\* whenReady up to its return; an unavailable engine is started again.
WhenReady(c) ==
    /\ client[c].pc = "idle"
    /\ \/ Serving /\ To(c, "granted")
          /\ UNCHANGED <<stopping, timer, state, epoch, restarts, launch>>
       \/ ~Serving /\ stopping /\ ~restarting /\ To(c, "refused")
          /\ UNCHANGED <<stopping, timer, state, epoch, restarts, launch>>
       \/ ~Serving /\ ~(stopping /\ ~restarting) /\ To(c, "waiting")
          /\ IF state = "unavailable" THEN restarts' = 0 /\ Start
             ELSE UNCHANGED <<stopping, timer, state, epoch, restarts, launch>>
    /\ UNCHANGED <<current, generation, reaping, proc, stopper, brokerVars, faults>>

WaitTimeout(c) ==
    /\ client[c].pc = "waiting" /\ To(c, "refused")
    /\ UNCHANGED <<superVars, generation, reaping, launch, proc, stopper, brokerVars, faults>>

\* #call: forwarded to a ready engine only.
Call(c) ==
    /\ client[c].pc = "granted"
    /\ client' = [client EXCEPT ![c] =
                    IF Serving THEN [pc |-> "calling", on |-> current]
                    ELSE [pc |-> "refused", on |-> 0]]
    /\ UNCHANGED <<superVars, generation, reaping, launch, proc, stopper, brokerVars, faults>>

Answer(c) ==
    /\ client[c].pc = "calling" /\ Live(client[c].on) /\ To(c, "answered")
    /\ UNCHANGED <<superVars, generation, reaping, launch, proc, stopper, brokerVars, faults>>

-----------------------------------------------------------------------------

LaunchStep(e) ==
    LaunchWaited(e) \/ LaunchSpawn(e) \/ DirsFail(e) \/ LaunchReady(e) \/ InitFail(e) \/ LaunchLost(e)
StopStep(e) == StopSignal(e) \/ StopExited(e) \/ StopDone(e)

Next ==
    \/ Boot \/ Shutdown \/ ToolsRestart \/ ToolsStart \/ ToolsStarted
    \/ TimerFires \/ ReapDone
    \/ \E e \in Epochs :
         LaunchStep(e) \/ StopStep(e) \/ ServerDied(e) \/ Exit(e) \/ Crash(e)
    \/ \E c \in Clients : WhenReady(c) \/ WaitTimeout(c) \/ Call(c) \/ Answer(c)

Spec == Init /\ [][Next]_vars

\* Awaited steps end, timers fire, and a process that was sent SIGTERM exits,
\* by the SIGKILL after the grace time at the latest.
Fairness ==
    /\ WF_vars(TimerFires) /\ WF_vars(ReapDone)
    /\ WF_vars(ToolsStart) /\ WF_vars(ToolsStarted)
    /\ \A e \in Epochs : WF_vars(LaunchStep(e)) /\ WF_vars(StopStep(e)) /\ WF_vars(Exit(e))

FairSpec == Spec /\ Fairness

-----------------------------------------------------------------------------
\* Properties

\* Never two engines at once: each owns the session store and the tool
\* processes of its sessions.
OneEngine == \A d, e \in Epochs : Live(d) /\ Live(e) => d = e

\* When the shutdown's stop() has resolved, no engine runs and nothing is left
\* that could start one: no timer, no launch, no restart in progress ("a stop()
\* during the awaits must not leave an engine nobody owns").
NothingLeftBehind ==
    shut # 0 /\ stopper[shut].pc = "done" =>
        /\ \A e \in Epochs : ~Live(e)
        /\ ~timer
        /\ \A e \in Epochs : launch[e].pc = "wait" \/ launch[e].pc = "dirs" => Cancelled(e)

\* While it is wanted, the engine ends up ready or given up on, never in a
\* start or a restart that nobody is working on.
Settles ==
    (booted /\ ~stopping) ~> (state \in {"ready", "unavailable"} \/ stopping)

\* A call on an engine that is going away gets its answer (the SDK never rejects
\* a call when the process dies).
CallsSettle ==
    \A c \in Clients :
        client[c].pc = "calling" /\ proc[client[c].on].signalled ~> client[c].pc # "calling"
=============================================================================
