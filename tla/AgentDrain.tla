-------------------------------- MODULE AgentDrain --------------------------------
(***************************************************************************)
(* How the file service stops (files-server.js): the agents' socket        *)
(* (voxel-agent-server.js) takes no new request but lets the admitted ones *)
(* finish, then the workspace drains its accepted work, then it closes.    *)
(* Both share the write permits of internal-admission.js: a request tries  *)
(* once, accepted voxel work waits in line, with a deadline.               *)
(***************************************************************************)
EXTENDS Naturals, Sequences, FiniteSets, Sublists

CONSTANTS AgentCalls,    \* requests of agents
          Runs,     \* voxel runs
          Slots     \* write permits

ASSUME DrainAssumption == Slots \in Nat /\ AgentCalls \cap Runs = {}

VARIABLES agentCall,     \* idle, reading, read, active, writing, done, refused, cut
          run,      \* off, computing, waiting, ready, granted, writing
          permitLine,    \* runs in line
          used,     \* permits given
          admitting, draining, shut,  \* the agents' socket; the workspace; its permits closed
          drain,    \* none, agents, work, done, failed
          deleting  \* the project is deleted, or the daemon has lost its authority
drainVars == <<agentCall, run, permitLine, used, admitting, draining, shut, drain, deleting>>

DrainInit == /\ agentCall = [c \in AgentCalls |-> "idle"]
             /\ run = [r \in Runs |-> "off"] /\ permitLine = <<>> /\ used = 0
             /\ admitting = TRUE /\ draining = FALSE /\ shut = FALSE /\ drain = "none" /\ deleting = FALSE

Server == <<admitting, draining, shut, drain, deleting>>

-------------------------------------------------------------------------------
\* Permits
Granted(q, st, n) ==   \* #pump: from the head of the line, while permits are left and the entry has been told it waits
    CHOOSE k \in 0 .. Len(q) :
        /\ n + k <= Slots /\ \A i \in 1 .. k : st[q[i]] = "ready"
        /\ k = Len(q) \/ n + k = Slots \/ st[q[k + 1]] # "ready"

Pump(q, st, n) ==
    LET k == IF shut THEN 0 ELSE Granted(q, st, n) IN
    /\ permitLine' = SubSeq(q, k + 1, Len(q)) /\ used' = n + k
    /\ run' = [r \in Runs |-> IF \E i \in 1 .. k : q[i] = r THEN "granted" ELSE st[r]]

\* A slip: a permit comes back, but nobody who waits is started.
ReleaseQuiet == used' = used - 1 /\ UNCHANGED <<permitLine, run>>

Release == Pump(permitLine, run, used - 1)

Asks(r) ==   \* acquire: only accepted work may stand in line
    /\ run[r] = "computing" /\ UNCHANGED <<agentCall, Server>>
    /\ IF shut THEN run' = [run EXCEPT ![r] = "off"] /\ UNCHANGED <<permitLine, used>>
       ELSE IF permitLine = <<>> /\ used < Slots THEN run' = [run EXCEPT ![r] = "writing"] /\ used' = used + 1 /\ UNCHANGED permitLine
       ELSE run' = [run EXCEPT ![r] = "waiting"] /\ permitLine' = Append(permitLine, r) /\ UNCHANGED used

Told(r) == run[r] = "waiting" /\ Pump(permitLine, [run EXCEPT ![r] = "ready"], used) /\ UNCHANGED <<agentCall, Server>>

Remove(r) ==   \* #remove: its deadline has passed, or telling it failed
    /\ run[r] \in {"waiting", "ready"} /\ UNCHANGED <<agentCall, Server>>
    /\ Pump(Sublist(permitLine, {i \in DOMAIN permitLine : permitLine[i] # r}), [run EXCEPT ![r] = "off"], used)

GrantTold(r) ==
    /\ run[r] = "granted" /\ UNCHANGED <<agentCall, Server>>
    /\ \/ run' = [run EXCEPT ![r] = "writing"] /\ UNCHANGED <<permitLine, used>>
       \/ Pump(permitLine, [run EXCEPT ![r] = "off"], used - 1)

RunEnds(r) ==
    /\ UNCHANGED <<agentCall, Server>>
    /\ \/ run[r] = "writing" /\ Pump(permitLine, [run EXCEPT ![r] = "off"], used - 1)
       \/ run[r] = "computing" /\ run' = [run EXCEPT ![r] = "off"] /\ UNCHANGED <<permitLine, used>>

-------------------------------------------------------------------------------
\* Requests on the agents' socket
Call(c, from, to) == agentCall[c] = from /\ agentCall' = [agentCall EXCEPT ![c] = to]

Arrive(c) == Call(c, "idle", IF admitting THEN "reading" ELSE "refused") /\ UNCHANGED <<run, permitLine, used, Server>>
BodyRead(c) == Call(c, "reading", "read") /\ UNCHANGED <<run, permitLine, used, Server>>

\* A slip: a request is admitted behind the drain.
AdmitUnchecked(c) == Call(c, "read", "active") /\ UNCHANGED <<run, permitLine, used, Server>>

AdmitCall(c) == Call(c, "read", IF admitting THEN "active" ELSE "refused") /\ UNCHANGED <<run, permitLine, used, Server>>

WriteCall(c) ==   \* upload, capture: accepted while the workspace is not draining and a permit is free
    /\ UNCHANGED <<run, permitLine, Server>>
    /\ IF draining \/ shut THEN Call(c, "active", "cut") /\ UNCHANGED used
       ELSE IF permitLine # <<>> \/ used = Slots THEN Call(c, "active", "done") /\ UNCHANGED used     \* 429
       ELSE Call(c, "active", "writing") /\ used' = used + 1

WriteEnds(c) == Call(c, "writing", "done") /\ Release /\ UNCHANGED Server

Submit(c) == /\ IF draining THEN Call(c, "active", "cut") /\ UNCHANGED run
                ELSE /\ Call(c, "active", "done")
                     /\ \E r \in Runs : run[r] = "off" /\ run' = [run EXCEPT ![r] = "computing"]
             /\ UNCHANGED <<permitLine, used, Server>>

Read(c) == Call(c, "active", "done") /\ UNCHANGED <<run, permitLine, used, Server>>

-------------------------------------------------------------------------------
\* Stopping
StopAdmission ==   \* bodies still being read are given up at once
    /\ admitting' = FALSE /\ agentCall' = [c \in AgentCalls |-> IF agentCall[c] = "reading" THEN "refused" ELSE agentCall[c]]

BeginDrain(deletion) ==   \* closeAdmission: an ordinary one lets the admitted requests use the workspace
    /\ drain = "none" /\ drain' = "agents" /\ StopAdmission
    /\ deleting' = (deleting \/ deletion) /\ draining' = (draining \/ deletion)
    /\ UNCHANGED <<run, permitLine, used, shut>>

AuthorityLost ==   \* loseAuthority: the workspace drains at once, the agents' socket does not
    /\ ~draining /\ draining' = TRUE /\ deleting' = TRUE
    /\ UNCHANGED <<agentCall, run, permitLine, used, admitting, shut, drain>>

ActiveCalls == {c \in AgentCalls : agentCall[c] \in {"active", "writing"}}

\* A slip: the drain does not wait for the agents.
AgentsDrainedAtOnce == /\ drain = "agents" /\ drain' = "work" /\ draining' = TRUE
                       /\ UNCHANGED <<agentCall, run, permitLine, used, admitting, shut, deleting>>

AgentsDrained == /\ drain = "agents" /\ ActiveCalls = {} /\ drain' = "work" /\ draining' = TRUE
                 /\ UNCHANGED <<agentCall, run, permitLine, used, admitting, shut, deleting>>

WorkDrained == /\ drain = "work" /\ (\A r \in Runs : run[r] = "off") /\ drain' = "done"
               /\ UNCHANGED <<agentCall, run, permitLine, used, admitting, draining, shut, deleting>>

DrainDeadline == /\ drain \in {"agents", "work"} /\ drain' = "failed"
                 /\ UNCHANGED <<agentCall, run, permitLine, used, admitting, draining, shut, deleting>>

Close ==   \* shutdown, after its drain; everyone in line is turned away
    /\ drain = "done" /\ ~shut /\ shut' = TRUE /\ permitLine' = <<>>
    /\ run' = [r \in Runs |-> IF run[r] \in {"waiting", "ready"} THEN "off" ELSE run[r]]
    /\ UNCHANGED <<agentCall, used, admitting, draining, drain, deleting>>

DrainNext ==
    \/ \E r \in Runs : Asks(r) \/ Told(r) \/ Remove(r) \/ GrantTold(r) \/ RunEnds(r)
    \/ \E c \in AgentCalls : Arrive(c) \/ BodyRead(c) \/ AdmitCall(c) \/ WriteCall(c) \/ WriteEnds(c) \/ Submit(c) \/ Read(c)
    \/ \E d \in BOOLEAN : BeginDrain(d)
    \/ AuthorityLost \/ AgentsDrained \/ WorkDrained \/ DrainDeadline \/ Close

DrainSpec == DrainInit /\ [][DrainNext]_drainVars

-------------------------------------------------------------------------------
\* Permits are neither lost nor left idle: those given are those held, and
\* no run that may go on stands in line while one is free.
PermitsFlow ==
    /\ used = Cardinality({r \in Runs : run[r] \in {"granted", "writing"}} \cup {c \in AgentCalls : agentCall[c] = "writing"})
    /\ used <= Slots
    /\ permitLine # <<>> /\ used < Slots => run[Head(permitLine)] # "ready"

\* An ordinary stop lets every admitted request finish: none fails because
\* the workspace began to drain under it; and a drain that has answered
\* leaves no request and no run that could still act.
AdmittedFinish ==
    /\ \A c \in AgentCalls : agentCall[c] = "cut" => deleting
    /\ drain = "done" /\ ~deleting => ActiveCalls = {} /\ \A r \in Runs : run[r] = "off"

\* What the gateway promises of the workspace's agents: permits are
\* neither lost nor left idle, and an ordinary stop finishes what it let in.
DrainPromises == PermitsFlow /\ AdmittedFinish
================================================================================
