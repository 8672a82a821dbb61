# GeoCluster Research Harness: TLA+ models of the runtime

This directory holds TLA+ models of the runtime of the GeoCluster Research
Harness (`src/runtime`), the TLC configurations that check them on small
instances, and TLAPS proofs of the properties that matter most. The models are
translated from the JavaScript; every definition that models code is tied to its
source lines under `map` in `PROJECT.json`.

## 1. The system

The runtime is a set of Node.js processes in one container. Browsers talk ACP
(JSON-RPC over WebSocket) to the **gateway**, which runs one shared **agent
engine** (OpenCode, an external program on a stdio pipe) and one shared **MCP**
tool server, both as supervised child processes. A separate **file service**
owns the workspace.

| Component | Source (`src/runtime/lib` unless said) | State | Operations | Talks to |
|---|---|---|---|---|
| Session broker: turns | `session-broker.js` | per conversation: turn, submission, inflight and admitting prompts, cancel request and watchdog, engine prompt, binding | `prompt`, `cancel`, `#runTurn`, `#enginePrompt`, `#endTurn`, `shutdown` | engine, log, sockets |
| Session broker: fan-out | `session-broker.js`, `acp-bridge.js` | open logs, opening/closing maps, attached sockets, replay queues | `attach`, `loadSession`, `resumeSession`, `#record`, `#fanout`, `#replayTo`, `#evictLogs` | log, sockets |
| Session broker: permissions | `session-broker.js`, `prefs.js` | pending requests with timers, remembered rules | `#onEnginePermission`, `answerPermission`, timeouts | engine, sockets |
| Session log | `session-log.js` | seq counters, ring, write queue; `events.ndjson`, `events.1.ndjson`, `meta.json` | `append`, `#rotate`, `open`, `replay` | disk |
| Agent supervisor | `agent-supervisor.js` | state, epoch, generation, process record, restart timer and window | `start`, `stop`, `restart`, `whenReady`, forwarded calls, exit handler | engine process, broker |
| MCP supervisor | `mcp-supervisor.js` | state, attempt, child, restart window, reaps | `start`, `stop`, `revive`, watch | MCP process, broker |
| Conversation store | `session-index.js`, `session-broker.js` | index entries in memory and on disk, logs, run folders, the engine's sessions | `newSession`, first prompt, `load`, `prune` | disk, engine |
| Specialists | `session-broker.js` | calls and children of a turn, their links | `#recordChild`, `#setLink` | engine, sockets |
| Activity | `activity.js`, `root-activity.js` | leases, reports, polls, outages | `setState`, `poll`, `post` | gateway, file service, backend |
| Gate, machine gateway | `../gate.cjs`, `workspace-relay.cjs`, `ws-stream.js` | key, replay map, cookies, relayed connections, workspace epoch | token exchange, `proxyUpgrade`, fence | browsers, gateway, file service |
| Workspace files | `files.js`, `workspace-files.js`, `lifecycle-admission.js` | files, versions, admissions | conditional writes, moves, deletes | disk, captures |
| Captures | `file-captures.js`, `file-workbooks.js`, `file-gis.js` | records, journal, leases, holds, readers | capture, hash, hold, sweep, recover | disk, clients |
| Index and events | `file-index.js`, `file-events.js` | rows, scan session; event ring, subscribers | scan, prune; publish, attach | disk, browsers |
| Persistence, publication, import | `workspace-persistence-port.js`, `remote-publication.js`, `cloud-import-worker.js` | jobs, receipts | upload, retry, import | remote store |
| Document processing | `document-processing.js`, `processing-operations.js`, `native-processing-*.js` | operations, owner, receipts | submit, cancel, recover | worker processes |
| Voxels | `voxels.js`, `voxel-*.js`, `file-state-worker.js` | operations, artifacts, named heads, slots, references | submit, register, delete, reconcile | captures, workspace, agents |
| Owned demo | `owned-demo.js`, `lifecycle-admission.js` | assignment, permits, outbox, fence | seed, map turn, checkpoint, fence | backend, captures |
| Stop of the file service | `files-server.js`, `internal-admission.js`, `voxel-agent-server.js` | admissions, permits, drain | admit, drain, close | agents, voxels |
| Readers, export, plugins, build | `file-gis.js`, `report-export.js`, `opencode/`, scripts | none that lasts | conversions | files |

What is hard: the gateway is one event loop, so code between two awaits is
atomic, but every await is a place where any other handler may run. Prompts wait
for memory, engine, bind and usage before they may start; cancels, timeouts,
duplicate submissions, engine crashes, tool restarts and shutdown arrive at any
of these places. The log must survive crashes between its three files. Replays
and live events reach the same socket. The supervisors own processes that die at
any time while starts, stops and restarts overlap. `PROJECT.json` lists these as
`hazards`, each with its line and the properties aimed at it.

What makes a component correct:
- **turns**: one turn per conversation and at most `maxRunning` in all; a
  submission runs once; transcripts are whole turns; a cancel stops exactly the
  prompt it names; a cancelled turn ends even on a silent engine; shutdown ends all;
- **permissions**: a question of a turn is open only while that turn runs and the
  backend knows of it; nothing is approved that no user allowed;
- **log**: no seq is used twice, acknowledged events are replayed or reported
  as truncated, the ring agrees with the files;
- **fan-out**: every attached socket gets every event once, in seq order; the
  sockets draw each specialist under the call that runs it;
- **supervisors**: never two engines or servers, nothing left running or able to
  start after a stop, a start ends up ready or given up, calls are answered; an
  engine without its tools is restarted as soon as nobody uses it;
- **conversation store**: what was prompted keeps its transcript and is listed;
- **activity**: an idle machine is reported only when it is known to be idle;
- **gate**: a token buys one cookie, nothing outlives its client, nothing checked
  against an old workspace is dispatched in a new one;
- **workspace, captures**: no update between service writers is lost, receipts are
  true after any crash, what is held or leased stays, the ceiling holds;
- **index, events**: a finished scan is exact, a browser is never left stale;
- **cloud**: no change is skipped, nothing is overwritten without a copy, sources
  are held until the backend has settled;
- **processing, voxels, demo**: one job per ticket and none behind an ended one;
  one winner per revision of a voxel; what the backend was told is true.

## 2. The modules

### BrokerTurns (with TurnContract)
One `stage` per prompt names the await it is parked at: `lookup` (findSubmission),
`check` (checkPrompt), `ready` (memory and whenReady), `bind`, `usage` (account
usage), then in the turn `echo`, `prompt` (the wait for a previous engine prompt),
`engine`, `rebind`, `finish` (report or reap) and `ending` (turn_end being written).
An action is the code from one await to the next. Per conversation the variables
are the fields of `class Conversation`; `force` is `forceEndTurn`, with the value
`dead` for a resolver whose race is over. The engine is external: it takes a
prompt in the step that sends it (one ordered pipe), answers at any later time,
never, or with "busy" or "session not found". `aimedAdmission`, `aimedTurn`,
`events` and `reached` are history.

`TurnContract` is the abstract promise: `open[c]` is the prompt whose turn is open,
`begun` the prompts whose turn ever began; a turn may begin only in a conversation
without one, below the limit, and for a submission that never began. `BrokerTurns`
implements it with `open <- current` and `begun <- Begun` (`RefinesContract`).

A turn's result is kept as a word, and its blocks as one echo. `SUBMISSIONS_KEPT`
(64) is a constant: within it, a submission runs once; the instances keep at least
as many records as they have submissions, as the code does in practice.

### SessionLog
The three files, the counters, the ring and the queue of one log. A task of the
queue runs in up to four steps (rotate, its meta.json, the line, the meta.json of
a synced append), between which the process may crash; a write may be cut short by
the crash. `Open` is `open()` with `#recover`. Replays have no state: `Replay` is
what a snapshot taken between two tasks would send. Sizes are counted in lines.
A crash here is the death of the process, not of the machine: data handed to the
kernel survives.

### Fanout
One conversation, its sockets and the broker's map of logs. Promise continuations
run before the next I/O callback; `ready` holds them in order. The log is reduced
to its write queue and its file (the subject of SessionLog). `Evict` stands for
the opening of other conversations' logs. A socket's requests are `Attach` with any
seq its client has, `Load` (attach, then the engine's resume, then a replay of
everything) and `AttachLive` (resume, or its own prompt).

### AgentSupervisor
Every `start()` and `stop()` takes the next epoch; launches, processes and stops
are indexed by it. A launch waits for the dying process, prepares directories,
checks and spawns in one step, initialises (one step stands for initialize, the
warm-up session and the wait for the tools), and is ready or fails. Kept as in
the code: only the last exit's reaping is awaited by `stop()`. A failed spawn is
a process that crashes at once. The window of restarts is a nondeterministic
choice of how many earlier restarts are still inside it. The broker's part is
`Boot`, `ToolsRestart`, `Shutdown`; requests use `whenReady` and then call.

### McpSupervisor
The one attempt, the one stop and the one termination that can be under way are
each a program counter (`attempt`, `stopping`, `kill`); a stop waits for the
attempt, and each of them may be in #terminate. Servers are numbered as they are
spawned; a `server` record holds the fields the code puts on the child process.
A server and its workers are separate: the workers outlive it until they are
reaped (`workers`; the ones no snapshot saw are outside the model). `orphan` is a
server an earlier gateway left on the port. Every failure of a start is one of
`SpawnFails`, `PollFails`; drain and polls are one awaited step each.

### Permissions
The requests of one conversation. A request is opened, then registered after the
await that opens the log, then asked of the sockets after the append; every place
where a turn ends, a socket answers or the engine goes lies between these steps.
`stage` is the conversation's turn ("admitted" before its lease, "ending" while
turn_end is written). No step asks whether a turn runs, as in the code: `asking`
holds the turns whose prompt the engine works on, a turn ended by force among them,
so a request may come from an older prompt (`from`) in another's turn or in none.
`lease` is what the backend is told (`activity.setState`), `ruleFile` is
`prefs.json`, written in place and so torn while a write is under way.

### ToolsRestart
The wish to restart an engine without tools, and everything that keeps it waiting:
`talk` (admissions and turns), `binding`, `users`. `MaybeRestart` is the whole of
`#maybeRestartForTools`; each end of a use calls it as the code does, or does not:
the end of a `session/load` does not, and `slipped` records that.

### ChildLinks
`truth` is what the engine does and the broker cannot see; `call` and `kid` are the
broker's two tables, `card` the call under which the sockets draw a child. The
guess by order or description, the call that names a resumed child, and the
correction at completion are `LinkChild`, `InProgress` and `SetLink`.

### ConversationStore
A conversation's engine session, index entry, log and run folder, each with its
state on disk. `newSession`, the first prompt and a boot are sequences of steps
with a crash between any two; the index file may also be damaged from outside, as a
whole or in one entry, which keeps a usable id or not (`nameless`). A log whose lines
are all in `events.1.ndjson` (a crash inside a rotation) is "rotated", which no test of
session-index.js takes for a log with events.

### RootActivity
The gateway's posts in direct mode, and root's poll (read both sources, decide,
post) in root mode, with unreadable sources, the cap of an outage and lost answers.
`backend` keeps the last report and whether it was true when it was made.

### Gate
Tokens with an expiry and the clock skew, the replay map and its pruning, cookies,
key rotation and logout; a connection is one record whose client end and upstream
end go through their phases apart; the workspace fence is checked at the upgrade
and again for each message, whose check may be answered before another change.

### WorkspaceFiles
`intent` is the durable record of an upload, mkdir, move, delete or restore; `pc`
where its request stands; `lock` the one mutation lock. Other programs write
without it. `did` and `over` are history: the object the rename moved, and what it
replaced. Recovery after a crash proves the outcome from the objects themselves.

### FileCaptures
Captures and derived indexes are sources of one kind with records (`rec`), a
publication journal (`pub`) and bytes (`part`, `blob`). What is under the retention
lock is a sequence of steps of `retention` or `evict`; the ends of readers, leases
and jobs are not under it and may fall anywhere.

### FileIndex
One root with one file, and a folder that may turn into a file. `sess` is
`scanSession`, `dirs` its coverage, `steady` is history: the paths that did not
change since the session began.

### FileEvents
The ring of numbered events, `issuedScopes` (which scope an id was sent to), the record
of overflows, one browser's connection (`sub`, `wire`) and what it `knows`: the scope
it fetched last and that scope's events. The browser reconnects with any scope, also
with an id of an earlier boot; with another scope, what it knows belongs to neither
until it fetches again (`NoScope`).

### AgentDrain and AgentReferences
AgentDrain: the agents' requests (`agentCall`), voxel runs (`run`), the permits with
their line, and the drain, also the one of a daemon that lost its authority. AgentReferences: receipts are taken when a request is
answered and stored later in any order; `refs` is the stored list.

### DocumentProcessing
`job` is the ticket's record, `work` where its local task stands, `up` and `net`
are the external processor and the POSTs nobody waits for any more. A restart keeps
`job`, `claimed`, `inbox` and `holds`, and recovers as `recover` does. The tickets of
imports (`CloudJobs`) need the backend's permit: an answer may be lost (`opst` "asked"),
found later (`PermitFound`), and under a permit that is held the slot is taken whatever
the capacity (`CloudResume`); `over` is history: what went beyond the ceiling that way.

### CloudImport and CloudSync
CloudImport is the life of one import from its delivery to the release of the
source; `bk` is the backend's side, which an answer may fail to bring back. `jr.eff` is
effectApplied, the one thing beside indeterminacy that keeps an error from being final;
a publication that reuses the file it finds and a recovery leave it unset. CloudSync
is one remote log of changes, the files, and both directions of the worker; `raced`
holds versions another program wrote between the last check and the rename, which
no check of the code can see.

### Voxels
One record per submission: its run (`task`), operation, upload, captures and
registration. `headOf`/`headRev` are the named head, compared and swapped in one
transaction of `file-state-worker.js`.

### OwnedDemo
`be` is the backend's record, `rec` the daemon's database, `disk` what is
installed; `live` a request that left and whose answer nobody has. Deletion fences
the owner (`rec.fence`), and a replacement brings the next one.

### How they compose
BrokerTurns sees the supervisor as `engine`/`gen` (`EngineGone`, `EngineReady`),
which AgentSupervisor justifies: each spawn takes the next generation and
`CallsSettle` (every call is rejected when its process goes). Fanout takes from
SessionLog that the seqs of a reopened log continue those on disk (`SeqsHold`) and
that a replay sends the file's events (`ReplaysHold`). BrokerTurns takes the order
of its `events` from the one write queue per log. Permissions, ToolsRestart and
ChildLinks take turns from BrokerTurns: a turn begins and ends, and never two at
once. CloudImport takes the outcome of a publication from CloudSync and the ticket
from DocumentProcessing; CloudSync takes local commits from WorkspaceFiles. Voxels
takes holds from FileCaptures and uploads from WorkspaceFiles; DocumentProcessing
its captures; AgentDrain the end of a run from Voxels.

These are assume-guarantee arguments by name. The state spaces of two such
components do not fit one TLC run, so MCWorkspace, MCJobs and MCGateway are no
parallel compositions (MCGateway and MCJobs EXTEND their components, MCWorkspace those it proves about, whose initial
states, next-state relations and specifications carry their name for that: `LogInit`,
`GateNext`, `VoxelsSpec`): `component` picks one of their components at the start of
a behaviour, and that component runs alone, from all of its initial states, while
the variables of the others keep their first value. A property of such a run
quantifies over the behaviours of its own component. The instances share the
models, the bounds below and one TLC run; SYMMETRY is over ids, paths and versions
that only occur as values.

## 3. Runs

| Run | Bounds | Shows |
|---|---|---|
| `turns` | one report-analysis conversation, a submission sent twice and another one, one client cancel, a shutdown at any time | serial transcripts, no stray cancel, flagged prompts never run, a busy engine only behind a forced end, refinement of TurnContract |
| `turns_live` | two conversations, one slot, one engine crash, fairness | the contract across conversations; cancelled turns end; shutdown ends all turns |
| `cancel_of_waiting_prompt` | one conversation, two submissions, one cancel | violation, finding 1 |
| `session_log_partial_write` | one write that fails half-way | violation, finding 2 |
| `fanout` | one socket, four events, two overlapping requests, three openings of the log | unique seqs; once, in order; caught up |
| `fanout_load` | the same with one request | violation, finding 3 |
| `agent_supervisor` | one request, one tools restart, two faults, a limit of one automatic restart, fairness | one engine, nothing left behind, settles, calls settle |
| `mcp_supervisor` | two starts, two stops, one revive, three faults, a limit of one automatic restart, fairness | one live server, a stop that resolves and leaves nothing, settles |
| `workspace` | FileCaptures: two captures, one index, one fault and one crash; WorkspaceFiles: two new operations on two paths, an earlier deletion, two disturbances (error, crash, other program); FileIndex: two changes; AgentReferences: two saves, two references, two receipts | `CapturePromises` (retained stays, bytes accounted, true receipts), `FilePromises` (true receipts, no lost update, evidence kept), `PassIsExact`, `ReferencesHold` |
| `jobs` | DocumentProcessing: a file ticket, an import and a plain upload under a ceiling of one, one fault, one crash; CloudImport: one work, three revisions, three disturbances; Voxels: two saves, one slot, three events | `TicketPromises` (ceiling but for permits granted before, no orphan work, source kept), `ImportPromises` (held until settled, authority stands, a failure is certain), `VoxelPromises` (head readable, one winner, slots returned) |
| `gateway` | SessionLog: six appends, files of two lines, ring of three, two crashes, one failed write or rename; CloudSync: three changes, three disturbances on two paths; Permissions: two requests (symmetric), one tool, one socket, two turns, or one and a restart; RootActivity: four changes; ConversationStore: an engine conversation, an archived one, four events; ToolsRestart: four events; ChildLinks: two calls, two children; Gate: two tokens, one connection, two messages; FileEvents: ring of two, a subscriber of two frames, three events, two boots; OwnedDemo: two members, two owners, five events; AgentDrain: three requests, three runs, two permits | `SeqsHold`, `ReplaysHold`, `SyncPromises` (displaced kept, no change skipped), `PermissionPromises` (a turn's input needed is shown, policy needs consent), `IdleIsKnown`, `PromptedIsKept`, `NoLostWakeup`, `LinksAgree`, `GatePromises` (one cookie, nothing left open, nothing overtaken), `NoMissedChange`, `DemoTruthful`, `FenceHolds`, `DrainPromises` (permits flow, the admitted finish) |
| `index_settled` | FileIndex alone, two changes | violation, finding 4 |

Why the bounds are enough: each admits the smallest history that contains the
hazard. Two prompts of one conversation and a third are needed for a duplicate, a
stale cancel and a successor of a force-ended turn; two conversations for capacity.
Five appends make two rotations, a sixth writes behind them. Other sockets share
only the log with the modelled one. Two faults and a restart give a stop during
each await of a launch. Two captures are the least at which a sweep has a choice
and an index has inputs; two operations and one other program the least at which an
update can be lost; two saves of one head the least at which one must lose; two
permits and three runs leave one in line; two frames and three events overflow both
the ring and the subscriber; an import and a file ticket under a ceiling of one are
the least that a permit granted before can take past it. Six bounds cut the products
of the larger instances: `FewFaults` (MCWorkspace, MCJobs) allows a fault and a crash in
one behaviour only while one capture or ticket is in use, and in MCJobs a second ticket
after a fault or crash only while neither is with the processor; `OneUpload` (MCJobs)
keeps the plain upload apart from the import, and from the file ticket once something
failed; `FewErrors` allows two disturbances of the file operations. In MCGateway,
`FullCloud` allows one event fewer once the cloud has all its changes or a third one is
being applied, `FewTurns` a restart only in behaviours of one turn, and `BrowserStays` no
file event after the browser's last connection and one fewer after a restart.

Several properties are conjunctions of named parts, one for each promise of a
component, so that a violated run names the component and TLC's trace the part.
The modules define, next to the code they vary, slips that break the other parts
than the recorded mutant does (`RingCoversAny`, `CheckOnce`, `MayDialAlways`,
`MayReportFailureAlways`, ...).

Deadlock is checked in the runs of BrokerTurns, SessionLog and Fanout; the other
systems rest once they have stopped, or once a bound is reached.

**Fairness.** Awaited file operations end, timers fire, and the event loop runs
its continuations: weak fairness of the gateway's own steps. A process that was
sent SIGTERM exits, by SIGKILL at the latest (`Exit`). Nothing is assumed of the
model's work on a prompt (`Answer` and `LateAnswer` have no fairness): what ends a
cancelled turn is the watchdog. `session/resume` is taken to be answered; an engine
that does not answer it is what the health probe is for. The three combined runs
check safety only; `NoLostWakeup`, `PermitsFlow` and `NoMissedChange` are the safety
cores of what must eventually happen there: somebody is left who will do it.

### Findings
1. A cancel naming a prompt that is still being admitted is dropped while another
   turn of the conversation runs or ends, against the comment in `#promptOnce`.
2. A write that fails after part of its line leaves a torn line; the next
   acknowledged event becomes unreadable behind it.
3. `session/load` attaches the socket before it waits for the engine's resume, so a
   live event may precede the transcript; `_gc/attach` has no such window
   (`AttachedInOrder`).
4. A change reported between two passes of a scan session only joins the session,
   which does not read a finished folder again: the index then claims to be settled
   without a reported file, until the slow reconcile timer.

### Observations
Behaviours the models contain, against which no line of the repository speaks, and
which the properties therefore leave room for:
- a permission request that is registered between turns (its turn has just ended, or
  its prompt outlived a forced end) stays open until
  it is answered, times out or the next turn ends, and the lease does not tell; one that an older
  prompt asks before the running turn has its lease is not told either, until the turn
  ends and answers it; one answered while its event is appended is asked of the sockets
  all the same, and the lease says "permission_pending" again (`LateAsk`);
- the end of a `session/load` does not retry a restart for the tools (`slipped`);
- a conversation whose title could not be saved is taken for one never prompted
  when the gateway crashes, and its transcript is removed (`untold`); so is one whose
  log a crash caught between a rotation and the next line while `index.json`, or its
  entry, is lost, although session-index.js:432 says that a transcript is never deleted
  on the index's word alone: only `events.ndjson` is looked at;
- an import whose permit was granted before, when the answer was lost or the daemon
  crashed, takes its slot without asking for room (document-processing.js:405), so the
  "active runtime ticket and reservation ceiling" (ENVIRONMENT_VARIABLES.md:194) may be
  exceeded by such imports (`over`), and by nothing else;
- an import that is committed with no effect on record (it reused the file there was, or
  recovery proved what a crash had kept from the journal) is reported failed for good
  when the backend answers its progress or receipt with a permanent error
  (cloud-import-worker.js:132 does not ask whether it is committed), while its file stays;
- a second stop of the MCP server while a start waits for the first stop is overridden
  by that start, which begins after both;
- a failed append of turn_end leaves the submission's record in memory until the next
  save of the log's meta.json; if the log is evicted before, a resubmission runs again
  (BrokerTurns keeps the record);
- an idle report whose answer was lost is not sent again by root, nor is the last
  one of the direct mode;
- two uploads of one path before the first push give the second a stale base, and
  its push conflicts with the worker's own first one; a remote move whose local
  source is gone stays indeterminate;
- a voxel operation reported "failed" while its upload is in doubt returns to
  publishing or ready once the evidence settles;
- a demo checkpoint whose acknowledgement was lost, followed by a retry before the
  next poll, makes the daemon think that it is fenced;
- the reset frame of an overflow carries an id that is not recorded as issued, so when
  another subscriber was sent that id in its own scope, a browser that changes to that
  scope with it resumes there instead of fetching: `NoMissedChange` speaks of browsers
  that keep their scope;
- a drain that ran into its deadline stays failed, and with it the one of the
  following shutdown.

## 4. Proofs

Eight modules hold proofs; each EXTENDS the components it is about. All theorems but
two are of the form `Spec => []P`, for every value of the constants (no bound of
section 3 is used), and follow one argument: an inductive invariant that holds
initially, is preserved by `[Next]_vars` with one step per action, and implies the
property; PTL closes the induction. `FenceHolds` is an action property, and
`RefinesContract` a refinement: both follow from such an invariant step by step.

| Theorem | States | The invariant adds |
|---|---|---|
| `Broker_proofs`: `TypeCorrect`, `TranscriptsAreSerial`, `CancelsHitTheirTarget`, `FlaggedPromptsNeverRun` (BrokerTurns) | `TypeOK`, `SerialTranscript`, `NoStrayCancel`, `FlaggedNeverRuns` | `TurnOwner`, `CancelOwner`, `FlagOwner`, `OpenEcho` |
| `Broker_proofs`: `BusyIsForced` (BrokerTurns) | `BusyOnlyAfterForcedEnd` | `CallOwner` |
| `Broker_proofs`: `BrokerKeepsTheContract` (BrokerTurns) | `RefinesContract`: BrokerTurns implements TurnContract | `ResultsInv`, `InFlightOnce`, `ListInv`, `EndedIsRecorded`, `NotTwice` |
| `Broker_proofs`: `SeqsNeverReused` (Fanout) | `SeqsUnique` | `DiskCounts`, `OneWriter`, `Listed`, `Snapping` |
| `Broker_proofs`: `AttachIsExact` (Fanout) | `AttachedOnceInOrder` | per socket `Holding`, `HeldCounts`, `InReach`, `Ordered`, `Increasing` |
| `Broker_proofs`: `NoEventIsMissed` (Fanout) | `CaughtUp` | per socket `OnTheWay` |
| `Conversation_proofs`: `SeqsNeverReused` | `SeqsHold` | `QueueNext`, `Clean`, `Increasing`, `Behind`, `Recoverable` |
| `Conversation_proofs`: `ReplaysAreComplete` | `ReplaysHold` | the above, and `Named`, `WrittenUpTo`, `RingWritten`, `Kept`, `Mirrored` |
| `AgentSupervisor_proofs`: `NeverTwoEngines` | `OneEngine` | `OneOwner`, `LaunchesFollow` |
| `AgentSupervisor_proofs`: `ShutdownLeavesNothing` | `NothingLeftBehind` | `EpochsInv`, `BrokerHolds`, `ShutLast` |
| `AgentSupervisor_proofs`: `RestartsArePaidFor` | `epoch <= MaxEpoch`: the bound of the runs cuts nothing off | `Budget` |
| `Machine_proofs`: `NeverTwoServers`, `StopIsFinal` (McpSupervisor) | `OneLiveServer`, `StopLeavesNothing` | `OnlyChild`, `Stages`, `Kills`, `Stops`, `Reaped`, `Timed`, `ReadyTold` |
| `Machine_proofs`: `SpawnsArePaidFor` (McpSupervisor) | no more servers are spawned than starts, revivals and faults | `Budget` |
| `Conversation_proofs`: `QuestionsAreAnswered` (Permissions) | `PermissionPromises` | `Belongs`, `RulesConsented` |
| `Conversation_proofs`: `WishesWait` (ToolsRestart) | `NoLostWakeup` | the types of the uses |
| `Conversation_proofs`: `ChildrenFindTheirCalls` (ChildLinks) | `LinksAgree` | `Alone` |
| `Conversation_proofs`: `TranscriptsAreKept` (ConversationStore) | `PromptedIsKept` | `TitleKept` (`Missed`), `AsideGone`, `TitlesAgree`, `UntoldUnsaved`, `Forgotten`, `StandsRight`, `IndexFile` |
| `Machine_proofs`: `GateKeepsItsPromises` (Gate) | `GatePromises` | `SpentIsRefused`, `HeldInOrder`, `Closed` |
| `Machine_proofs`: `FencedForGood` (OwnedDemo) | `FenceHolds` | `Fences`, `FencedIsIdle` |
| `Machine_proofs`: `ReportsAreTruthful` (OwnedDemo) | `DemoTruthful` | `Installed`, `Saved`, `OneAttempt`, `OverWhenFailed` |
| `Machine_proofs`: `IdleIsNeverGuessed` (RootActivity) | `IdleIsKnown` | `OutagesRecorded`, `ReportsTrue` |
| `Machine_proofs`: `DrainsKeepTheirPromises` (AgentDrain) | `DrainPromises` | `InLine`, `StopStages` |
| `Machine_proofs`: `NoChangeIsMissed` (FileEvents) | `NoMissedChange` | `Streams`, `CursorKnown`, `SubShape` |
| `Jobs_proofs`: `TicketsAreKept` (DocumentProcessing) | `TicketPromises` | `Unbegun`, `Traced`, `Reported`, `Unorphaned`, `Stored`, `Admitting`, the count of `Counted` |
| `Jobs_proofs`: `ImportsAreKept` (CloudImport) | `ImportPromises` | `Permitted`, `Recorded`, `Released`, `Refused`, `LaneInv`, `LanesApart`, `ReconInv` |
| `Jobs_proofs`: `VoxelsAreKept` (Voxels) | `VoxelPromises` | per save `UploadInStep`, `BytesHeld`, `ReadyIsCommitted`, `WonIsReady`, `BaseInv` |
| `Workspace_proofs`: `FilesAreKept` (WorkspaceFiles) | `FilePromises` | `Modes`, `OnePlace`, per operation `WellFormed`, `InStep`, `Untouched`, `NotYetThere`, `Evidence`, `InDoubt`, `Seen`, `Recoverable` |
| `Workspace_proofs`: `PassesAreExact` (FileIndex) | `PassIsExact` | `FilesInFolders`, `Phases`, in a session `SeenIsListed`, `FolderIsKnown`, `NothingOverlooked`, `AllVisited`, `Swept` |
| `Cloud_proofs`: `ChangesAreNotSkipped` (CloudSync) | `NoChangeSkipped`, the second half of `SyncPromises` | `Covered`, `SnapCovered`, with `Late`: nothing older is still to come; `Ids`, `Stages`, `Walks`, `Pushes` |
| `Cloud_proofs`: `DisplacedIsCopied` (CloudSync) | `DisplacedKept`, the first half of `SyncPromises` | `CopiesHold`, `GensUsed`, `BaselinesShow`, `Order`, `Away`; per application `FinalAt`, `PublishingAt` |
| `Cloud_proofs`: `CloudIsFollowed` (CloudSync) | `SyncPromises` | both of the above |
| `Workspace_proofs`: `ReferencesStayRight` (AgentReferences) | `ReferencesHold`, an action property | `HeadLast` (`HeadIsLast`), `OneEach`, `Truthful` |
| `Workspace_proofs`: `CapturesAreKept` (FileCaptures) | `CapturePromises` | per source `Sound`; `Locked`, `Booting`, `LeasedStays`, `Line`, `KeptIsLive`, `ReadIsLive`, `SweptIsFree`, the ceiling on `Usage` |

`Sublists_proofs` has no theorem of its own to report, only lemmas: how long
`Sublist(s, I)` is, what it holds, and that it keeps the order; and that a set of
numbers has a smallest one. Fanout, SessionLog and AgentDrain filter their lists with it instead
of SelectSeq, whose library definition is recursive and of which the provers can show
nothing.

The combined runs `gateway`, `jobs` and `workspace` EXTEND the same modules, so the formula the
theorem states and the one TLC checks are one definition, there for the behaviours in
which `component` is the one it is about.

Why each strengthening is needed:
- **Turns.** `TurnOwner` ties a conversation's open turn to the stage of exactly one
  prompt, so that only the owner echoes and ends. `CancelOwner` says that the armed
  watchdog, the admission flags and the turn's cancel request belong to a prompt some
  cancel was aimed at; a watchdog left from an earlier turn would break it, and
  `#endTurn` clears it. `FlagOwner` carries an admission flag into the turn's request,
  `OpenEcho` says that a transcript ending in an echo belongs to the open turn.
  `CallOwner`: an engine call that outlives its turn belongs to a prompt whose result
  is the forced end, and such a result stays. Assumes `BrokerAssumption`.
- **Contract.** That a submission runs at most once needs all three places the code
  looks in: the in-flight map (`InFlightOnce`), the recorded submissions
  (`EndedIsRecorded`: a turn that ended left its record) and the check after the last
  await of the admission (`NotTwice`). `Remember` replaces or appends a record and
  drops the oldest, so `EndedIsRecorded` is only true while nothing is dropped. The
  theorem therefore assumes `KeptLongEnough`: no conversation sees more submissions than
  `SUBMISSIONS_KEPT`. That is no weakness of the proof: beyond it the code does run a
  submission again, when its client sends it after 64 others.
- **Fan-out.** The log comes first: `OneWriter` says that only the instance in the map
  has writes queued and that it alone knows the end of the disk, although closed
  instances keep serving replays; `Numbered` that its queued writes are the next seqs.
  Each socket is then described by the end of the disk when its replay began (`Start`):
  what is held back is exactly what was written since (`HeldCounts`), because one replay
  at a time holds the events back (`Holding`). `InReach` says that whatever is sent next
  is at most one ahead of what the client has, at every stage of a request, and gives
  the order; `OnTheWay` names, for each event the client lacks, the request that will
  send it, and at rest there is none. The bound on requests is any number; with several
  of them a socket may get an event twice, so "once" is stated of sockets that attached
  once (`Single`), as the property says.
- **Log.** A reopened log takes its next seq from `meta.json` and the last lines of
  two files. `Behind` and `Recoverable` say that whatever was acknowledged is found
  there at every point of the write queue, `QueueNext` that queued seqs are the next
  ones, `Clean` that only a crash leaves a torn line, at the end. The theorem assumes
  `Whole`: no failed write leaves part of its line. Without it a line written behind
  the torn one is lost, which the run `session_log_partial_write` shows (finding 2).
- **Replays.** The ring forgets from its old end (`#remember`) and in its middle
  (`#forget`), the files lose whole files at once (`#rotate`), and a crash empties the
  ring alone. `Kept` says that what was acknowledged, or is in the ring and written, is
  on file unless `firstSeq` has passed it; `Mirrored` the reverse, that a line is in the
  ring unless it is older than all of it. `WrittenUpTo` and `RingWritten` say that
  the seqs between `writtenSeq` and the head of the queue are those of failed appends
  and that none of them is in the ring, so the next write may carry `writtenSeq` over
  them, and `Named` makes `#forget` by id take just
  the event of the failed task. Two lists ordered by seq with the same events are one
  list (`SameOrderedList`), which gives the equality of the two replays. Assumes `Whole`.
- **Engines.** `OneOwner`: what lives is what `current` names. `LaunchesFollow`: the
  launch of the last epoch goes on only when the engine it replaces is gone, and an
  older launch never gets past its check. For the shutdown, `EpochsInv` says what each
  launch and each stop may still do by its epoch (an engine that is starting and that no
  stop has claimed is the last epoch's; while `stopping`, no timer and no launch of the
  last epoch), and `ShutLast` that nobody takes an epoch after the last stop.
  `Budget` pays for every epoch: with a boot, a shutdown, two for each restart for the
  tools, a fault, or a request. Since `MaxEpoch` is that sum, every start and
  stop finds its record in `Epochs`, and the runs' tables are large enough. Assumes `SupervisorAssumption`.
- **Servers.** `Stages` says where the one attempt and the one stop can be together,
  `Kills` that a termination is always that of the last server and follows its progress
  (a server told to go and alive is being killed), `Stops` that a stop under way keeps
  the timer and new attempts off, `Reaped` that the workers of a dead server have
  somebody who will reap them. `Budget` is as above. Assumes `McpAssumption`.
- **Tools.** `WishOfMaybeRestart` is the lemma: whatever `#maybeRestartForTools` leaves
  wanted waits for one of the uses it was called with. Every end of a use calls it,
  except the end of a load, which `slipped` records.
- **Links.** A child is linked by a guess, the oldest call that lacks a child, until its call
  names it. `Alone` says that no two live calls hold the same child, which is what the
  other parts need when `#setLink` moves a child from one call to another: the call it
  leaves gives it up. Assumes `LinksAssumption` (the markers for "no call" and "no child"
  are none).
- **Store.** A title whose save succeeded is in the file, unless its entry was made
  malformed, and then its log is kept or set aside (`Missed`, `AsideGone`), or the file was
  damaged as a whole, and then the log, which only a title that was told precedes, makes the
  boot rebuild the entry as titled (`TitleKept`), or else the title counts as not found. That the pruning
  of what was never prompted takes no such conversation needs memory and file to agree on
  the titles but for those whose save failed (`TitlesAgree`, `UntoldUnsaved`), and that what
  lost its log can never be titled again (`Forgotten`).
- **Permissions.** `Belongs` says that a request registered in a turn is pending while
  that turn runs and no longer, so that the lease a turn's end takes away is not one its
  question still needs; and that a prompt can only ask once its turn has had its lease
  (`Prompted`), so that the lease is there to say "permission_pending". `RulesConsented` follows the rules through memory, the
  writes under way, the file and a request that is being answered by policy.
- **Activity.** A poll decides on answers read earlier. `OutagesRecorded` says that a
  source it could not read has its outage on record, which keeps the machine working
  until the cap and keeps the poll from reporting afterwards; `ReportsTrue` covers the
  reports on their way.
- **Demo.** A fenced owner gets no permit, so the only steps it can be in are those
  that publish nothing (`FencedIsIdle`); a restart opens the admission again but
  reads the fence first. For the reports: what is outstanding belongs to the attempt
  under way or to one whose failure waits for it (`OneAttempt`), so while a checkpoint
  is pending nothing is outstanding and its outcome stays true until the backend has it;
  an attempt reported failed is over (`OverWhenFailed`), and the next has a number of
  its own.
- **Drain.** `InLine` says that a run stands in line once and only while it has no permit,
  so that a grant takes a permit for exactly the prefix `#pump` takes (`GrantedIs`: that prefix
  exists and is the longest) and the count stays that of the holders. `StopStages` ties
  the stop to the work: the workspace drains under an admitted request only for a
  deletion, and nothing is in line once the permits are shut. Assumes `DrainAssumption`
  (requests and runs are different things).
- **Events.** What a browser knows must be followed through the frames it has not received
  yet. `Follow` says of every one of them, wherever it is (`Out`: on the wire, then in the
  queue), that no event of the scope up to its id is unknown when it arrives, or that a
  frame before it makes the browser fetch (`Covers`); so a connection may break after any
  frame and the id is still one to resume from (`CursorKnown`). `attach` establishes it
  for a replay because the ring holds all events after the id (`Gap`) and none of them is a
  reset (`ReplayFollows`). What the service remembers of ids and overflows is not needed:
  that only keeps a browser from resuming in another scope. Assumes `EventsAssumption`
  (a subscriber's budget takes one frame; the marker for "no scope" is no folder).
- **Gate.** A spent token is in the replay map until its expiry alone refuses it; what
  is pruned is what is expired with the skew (`SpentIsRefused`). A held message
  arrived at the epoch of the fence or later, and a check that said "ok" was made at
  the fence, so its message arrived at exactly the fence although the epoch may have
  moved before it is dispatched (`HeldInOrder`). The theorem assumes `Skew \in Nat`.
- **Tickets.** Nothing about the processor's job can be read off its record alone while a
  POST may still be under way. `Traced` says that whatever reached the processor, or is
  about to, left its intent before, and that whoever sends again knows of the POST that
  may be under way; `Unorphaned` that a ticket ended without a known job can have none.
  `Stored` follows the bytes from capture to inbox to processor. The ceiling counts on
  disk and in memory, so it is a bound on the set `Counted` of tickets that are open,
  claimed, reserved or staged, but for those in `over`: a submit that fails between two of
  these stages leaves it, and one that goes on stays; `Admitting` says that what is in
  `over` was granted. Assumes `TicketsAssumption`.
- **Imports.** A record is worked on by passes that each hold the lane of one operation
  across the answers they wait for (`LaneInv`, `LanesApart`), or by one reconciliation that
  has taken all the records it inspects from every lane (`ReconInv`): so what a pass read before an
  answer is still so after it. `Recorded` and `Released` say that whatever a record says
  is done is so at the backend, in its revision too, and that the hold goes only after
  the job's end was sent. `Refused`: from the report of a failure on, the journal shows no
  effect, whatever is published or recovered afterwards. A job that was interrupted may be
  settled before its id is known, so one revision may follow its release (`Released`).
- **Voxels.** `MayStand` is what decides: while the manifest's upload is under way, in
  doubt or committed, nothing but a deletion lets the captures go (`BytesHeld`), and only
  an upload that is known to have failed ends an attempt without that. A head stays one:
  what was won is ready, committed and past every step that could take it back
  (`WonIsReady`), through failures, cleanup and boots; and it named a revision below the
  head's (`BaseInv`), which moves on with each winner, so no two winners named the same.
  Slots are counted as three sets of saves and the inspection. Assumes `VoxelsAssumption`.
- **Files.** One object of the service is in one place (`OnePlace`): a path, the trash,
  its stage, or not made yet (`NotYetThere`); so a rename that finds its candidate moves
  that very object, and recovery, which looks where the object is now, can tell whether
  the rename of a dead process took effect (`Evidence`, `InDoubt`). `Untouched` says that
  nothing moved before the record said "publishing". `Modes`: while recovery reads the
  records no request runs, so what it finds of one record stays found. `Seen` is the lost
  update: what is at the destination when the rename comes is what the precondition
  compared, unless another program put it there, because the lock covers all between the
  two (`InStep`). `Recoverable` ties what a recovery record offers to a deletion that took
  effect. The proof failed first on a move whose object other programs had brought: with
  more of their steps than the runs allow they can put it at the destination themselves
  while the move is in doubt, and recovery then commits it. That receipt is right about
  the files and wrong about who moved it; `ReceiptsTruthful` says so now. Assumes
  `FilesAssumption` (names of paths, operations and objects are different things).
- **Scans.** Everything is said of the paths that have not changed since the session began
  (`steady`). What was seen is listed as it is (`SeenIsListed`), a folder that was listed to
  its end has shown all it held (`NothingOverlooked`), and each folder the walk knows of
  was listed, failed or is still to come (`AllVisited`), so pruning, which begins when
  nothing is, removes the row of no file that is there and keeps none it did not see
  (`Swept`). A folder that turns into a file takes its files out of `steady`
  (`FilesInFolders`), which is why the row it leaves behind is no counterexample.
- **Changes.** A head moves only to the change of an application, of a run or of a push
  that is not over (`Sourced`), and never back, so a path that was reached up to the
  checkpoint, or up to where the walk is, stays so (`Covered`). A purged tombstone is
  the exception: its path was not reached, and it is enough that nothing unfinished there
  is of an older change (`Late`), which is what `Unsettled` asks before the cloud purges
  one; the end of the snapshot turns that into an unknown head. The walk takes the next
  change and no other (`Walks`), so its frontier moves by one change whose paths are known
  or just committed; a failure, an expired cursor or a crash only takes it back. The
  worker and the client may apply the same change at the same time: their operation ids
  differ (`Ids`), and the managed lock keeps a second one from passing `Stages`. Assumes
  `SyncAssumption` (the marker for "no path" is no path and no operation).
- **Copies.** What an application replaces is what it finds at the path at its last check,
  which is its base, and its base is in a copy, is what it writes, or is the file of the
  baseline it takes over (`CopiesHold`, `FinalAt`); from there to the rename only another
  program can write (`PublishingAt`). That is true because a base that is behind stays
  behind: each generation of a path commits once (`GensUsed`), and a baseline shows what its
  change wrote (`BaselinesShow`). A move is the hard case. Its copy is not taken again
  when it is tried a second time, so a file that was put back at its destination in
  between would be lost uncopied. Only a change can be tried again, and none after a later
  one was passed (`Order`); and whatever put that file there is still undecided and so
  blocks the path, or has committed and moved its generation on (`Away`). The recovery
  commits only an effect it can prove and of which no later change is known
  (`EffectProved`), which keeps this true over a restart.

- **References.** An old receipt can do no harm because it is not false: the revision it
  names is the one its commit got, and who knows a commit knows the artifact (`Truthful`),
  so what is merged keeps both sides' knowledge (`MergedFacts`). An operation is listed
  once (`OneEach`); the list after a store is the rest of it in its order with the merged
  reference at one place (`PutAt`), the end unless it is another's than the head's, so
  nothing named comes behind the head (`HeadLast`). A commit makes a head nobody has listed
  yet: every listed revision is below its own. `ReferencesHold` speaks of steps, so the
  theorem is about `[][...]_refVars`, from the same invariant before and after the step.
  Assumes `ReferencesAssumption` (the marker for "no head" is no operation).
- **Captures.** Up to its journal entry a source is nowhere but in its staging file
  (`Fresh`); from there on its file, its record, its publication and its receipt move
  together (`Sound`), which is what lets a receipt be believed after a crash between any
  two of them. The retention lock separates publication, sweep and recovery (`Locked`,
  `Booting`). A sweep chooses sources nobody keeps (`SweptIsFree`), and they stay so until
  the last of them is gone: whoever would lease or read one waits for the lock or had its
  lease before (`LeasedStays`). So what is kept is live and has its bytes (`KeptIsLive`),
  and so are an index that is read and the captures it was derived from (`ReadIsLive`).
  Every file counts against the ceiling by its record, its publication or its reservation;
  only the journal entry of a capture and the reservation of an index make one more, and
  both look at the ceiling first. Assumes `CapturesAssumption` (finitely many sources; ids
  are of one kind and none of the markers). That a lease outlasts the admission that made
  it is part of the model, not proved.

Only model-checked:
- liveness (`CancelledTurnEnds`, `ShutdownEndsTurns`, `Settles`, `CallsSettle`,
  `StopResolves`): TLAPS has neither ENABLED nor liveness under fairness here;
- `LoadedInOrder`, `CancelRemembered`, `SettledIsComplete` and `NothingLostSilently` are
  false (section 3, findings);
- the type invariants of Fanout, SessionLog and the supervisors are proved in the parts
  the invariants name (`Types`), not as a whole.
- What a recursive definition computes for every input is out of the prover's reach
  (induction over data needs a predicate as a parameter); no module here declares a
  RECURSIVE operator, and sums and searches are folds over small sets or sequences.

## 5. Not modelled

- Formats and wording: messages, titles, error lines, file formats, signatures and
  claims of tokens other than the expiry, SHA-256 (an object's bytes are a version).
- **Turns**: configuration options and modes, usage and report notices, the take-over
  of a frame that precedes its request, the turn tracker and the citation guard's
  matching (BrokerTurns has its verdict as a choice), how a restarted gateway answers
  for the prompts of its predecessor.
- **Report export**, the **readers and viewers** (`file-gis.js` and `file-workbooks.js`
  beyond the life cycle of their preparations), the search and the list cursors: pure
  functions or I/O of one request, without state that outlives it.
- **Process trees** (`proc-tree.js`, `oom.js`, `memory.js`): reads of `/proc`;
  AgentSupervisor and McpSupervisor have one reaping step for them.
- **Activity**: `root-lifecycle.js`, a supervisor of processes of its own.
- **Gate**: `machine-gateway.js` and machine credentials, static files, the gate's own
  drain.
- **File service**: the HTTP layer of `files.js` (routes, preconditions, ranges), which
  maps requests to the operations that are modelled.
- **Document processing**: the native processor behind the client
  (`processing-operations.js`, `native-processing-*.js`); DocumentProcessing sees its
  answers.
- **Cloud**: folders, and local operations that stay indeterminate.
- **Voxels**: the geometry, numeric code outside TLC's reach, and renaming several
  voxels at once.
- **Demo**: `local-workspace.js`, which only computes paths.
- **Engine configuration and plugins**, **configuration and build**: prompts, an
  external program, environment parsing and scripts, without protocol state.
- A power failure that loses unsynced writes. A crash here is the end of a process:
  what was written stays.

## 6. Plan

What is left, in the order of its worth:
1. The native processor (`native-processing-*.js`): a second journal and its own
   recovery behind DocumentProcessing, to be composed with it over the receipts.
2. Root's lifecycle and the machine gateway, with the gate's drain, composed with
   AgentDrain: one shutdown of the whole machine.
3. The turn tracker and the early frames of BrokerTurns; a restart of the gateway
   with prompts under way.
4. An abstract versioned store that WorkspaceFiles and CloudSync implement.
5. Pure algorithms against references: fuzzy path match, list cursors, citations.
