----------------------------- MODULE RootActivity -----------------------------
(***************************************************************************)
(* What the backend learns of a machine's work.  Alone, the gateway posts  *)
(* every change itself, one post at a time (activity.js).  Under the root  *)
(* supervisor it is polled together with the file service, and root posts  *)
(* the aggregate (root-activity.js): a source that cannot be read counts   *)
(* as working, until its outage is older than the interest cap; then the   *)
(* machine may no longer be kept alive for it, but is not called idle.     *)
(***************************************************************************)
EXTENDS Naturals, Sequences

CONSTANTS MaxChanges,    \* bound: changes of the sources, outages, cap expiries
          MaxReports     \* bound: direct reports waiting to be posted

VARIABLES mode,          \* "direct": the gateway posts; "root": root polls and posts
          gateway,       \* activity.turns: what the gateway's conversations do, and
          finished,      \*   how many turns it has completed (turnCompletedAt)
          filesWork,     \* the file service's work: "idle", "working", "capped"
          readable,      \* which of the two sources answer
          reports,       \* direct reports queued behind the post in flight
          poll,          \* the poll in flight: its step, what it read, what it posts
          unknownFor,    \* source -> "no", "since", "capped": how long it is unreadable
          agent,         \* the agent state root last read of the gateway
          lastState, lastAgent,   \* the last report the backend answered 2xx
          watched,       \* the gateway snapshot acknowledged to watchAgent
          storageDue,    \* a disk report was asked for
          backend,       \* the backend's view: the last report that reached it
          changes
rootVars == <<mode, gateway, finished, filesWork, readable, reports, poll, unknownFor, agent,
              lastState, lastAgent, watched, storageDue, backend, changes>>

Sources == {"gateway", "files"}
Nothing == [state |-> "nothing", agent |-> 0, known |-> TRUE, truth |-> TRUE]
NoPoll == [st |-> "none", gw |-> Nothing, fs |-> "none", out |-> Nothing]

\* ActivityReporter.state and agent: working conversations, waiting ones
Snapshot == [state |-> gateway, agent |-> finished, known |-> TRUE, truth |-> TRUE]

ActivityInit ==
    /\ mode \in {"direct", "root"}
    /\ gateway = "idle" /\ finished = 0 /\ filesWork = "idle" /\ readable = Sources
    /\ reports = <<>> /\ poll = NoPoll
    /\ unknownFor = [s \in Sources |-> "no"]
    /\ agent = Snapshot /\ lastState = "none" /\ lastAgent = Nothing /\ watched = Nothing
    /\ storageDue = FALSE /\ backend = Nothing /\ changes = 0

Count == changes < MaxChanges /\ changes' = changes + 1

-------------------------------------------------------------------------------
\* The gateway's own transitions: start, setState and stop each post the
\* state they leave, captured when it is sent.
Send(state, done) ==
    reports' = IF mode = "root" THEN reports
               ELSE Append(reports, [Snapshot EXCEPT !.state = state, !.agent = done])

GatewayChanges ==
    /\ Count /\ Len(reports) < MaxReports
    /\ \E state \in {"idle", "prompt_running", "permission_pending"} \ {gateway} :
       \E completed \in IF state = "idle" THEN {0, 1} ELSE {0} :
          /\ gateway' = state /\ finished' = finished + completed
          /\ Send(state, finished + completed)
    /\ UNCHANGED <<mode, agent, filesWork, readable, poll, unknownFor, lastState, lastAgent, watched,
                   storageDue, backend>>

KeepAlive ==   \* the keepalive, and the disk report of a quiet machine
    /\ mode = "direct" /\ Count /\ Len(reports) < MaxReports
    /\ Send(gateway, finished)
    /\ UNCHANGED <<mode, agent, gateway, finished, filesWork, readable, poll, unknownFor, lastState,
                   lastAgent, watched, storageDue, backend>>

Post ==   \* one at a time; one that fails is dropped
    /\ reports # <<>> /\ reports' = Tail(reports)
    /\ backend' \in {Head(reports), backend}
    /\ UNCHANGED <<mode, agent, gateway, finished, filesWork, readable, poll, unknownFor, lastState,
                   lastAgent, watched, storageDue, changes>>

-------------------------------------------------------------------------------
\* The other source, outages and the passing of the interest cap.
FilesChange ==
    /\ mode = "root" /\ Count
    /\ \E work \in {"idle", "working", "capped"} \ {filesWork} : filesWork' = work
    /\ UNCHANGED <<mode, gateway, finished, readable, reports, agent, poll, unknownFor, lastState,
                   lastAgent, watched, storageDue, backend>>

SourceChanges ==
    /\ mode = "root" /\ Count
    /\ \E s \in Sources : readable' = IF s \in readable THEN readable \ {s} ELSE readable \union {s}
    /\ UNCHANGED <<mode, gateway, finished, filesWork, reports, agent, poll, unknownFor, lastState,
                   lastAgent, watched, storageDue, backend>>

OutageCapped(s) ==
    /\ Count /\ unknownFor[s] = "since"
    /\ unknownFor' = [unknownFor EXCEPT ![s] = "capped"]
    /\ UNCHANGED <<mode, gateway, finished, filesWork, readable, reports, agent, poll, lastState,
                   lastAgent, watched, storageDue, backend>>

-------------------------------------------------------------------------------
\* RootActivityReporter: one poll at a time (inflight), started by the
\* interval, by a disk report or by watchAgent, which polls when the
\* gateway's state is not the acknowledged one.
AskStorage ==
    /\ mode = "root" /\ ~storageDue /\ Count
    /\ storageDue' = TRUE
    /\ UNCHANGED <<mode, gateway, finished, filesWork, readable, reports, agent, poll, unknownFor,
                   lastState, lastAgent, watched, backend>>

StartPoll ==
    /\ mode = "root" /\ poll.st = "none"
    /\ poll' = [NoPoll EXCEPT !.st = "gateway"]
    /\ UNCHANGED <<mode, gateway, finished, filesWork, readable, reports, agent, unknownFor, lastState,
                   lastAgent, watched, storageDue, backend, changes>>

\* The sources are read one by one, in either order of their answers; an
\* unreadable one starts, or continues, its outage.
Outage(s) ==
    IF s \in readable THEN "no" ELSE IF unknownFor[s] = "no" THEN "since" ELSE unknownFor[s]

ReadGateway ==
    /\ poll.st = "gateway"
    /\ unknownFor' = [unknownFor EXCEPT !["gateway"] = Outage("gateway")]
    /\ poll' = [poll EXCEPT !.st = "files",
                            !.gw = IF "gateway" \in readable THEN Snapshot
                                   ELSE [Nothing EXCEPT !.known = FALSE]]
    /\ UNCHANGED <<mode, gateway, finished, filesWork, readable, reports, agent, lastState, lastAgent,
                   watched, storageDue, backend, changes>>

ReadFiles ==
    /\ poll.st = "files"
    /\ unknownFor' = [unknownFor EXCEPT !["files"] = Outage("files")]
    /\ poll' = [poll EXCEPT !.st = "decide", !.fs = IF "files" \in readable THEN filesWork ELSE "unknown"]
    /\ UNCHANGED <<mode, gateway, finished, filesWork, readable, reports, agent, lastState, lastAgent,
                   watched, storageDue, backend, changes>>

\* aggregateActivity: live work of the gateway is never capped, the file
\* service's interests and the synthetic interest of an outage are.
Working ==
    \/ poll.gw.known /\ poll.gw.state # "idle"
    \/ poll.fs = "working"
    \/ \E s \in Sources : unknownFor[s] = "since"

Aggregate ==
    IF poll.gw.known /\ poll.gw.state = "permission_pending" THEN "permission_pending"
    ELSE IF Working THEN "prompt_running" ELSE "idle"

AgentOf == IF poll.gw.known THEN poll.gw ELSE agent

\* A slip: an outage past its cap is taken for an answer.
ExpiredNever == FALSE

ExpiredUnknown == \E s \in Sources : unknownFor[s] = "capped"

\* The three quiet ends of a poll: an outage past its cap certifies
\* nothing; an idle that was already reported; otherwise it is posted.
Decide ==
    /\ poll.st = "decide"
    /\ LET idle == Aggregate = "idle"
           truth == poll.gw.known /\ poll.fs # "unknown"
           quiet == idle /\ lastState = "idle" /\ AgentOf = lastAgent /\ ~storageDue
       IN  /\ agent' = AgentOf
           /\ IF ExpiredUnknown /\ idle
              THEN poll' = NoPoll /\ UNCHANGED <<watched, storageDue>>
              ELSE IF quiet
              THEN /\ poll' = NoPoll /\ storageDue' = FALSE
                   /\ watched' = IF poll.gw.known THEN poll.gw ELSE watched
              ELSE /\ poll' = [poll EXCEPT !.st = "post",
                         !.out = [state |-> Aggregate, agent |-> AgentOf.agent, known |-> TRUE, truth |-> truth]]
                   /\ storageDue' = FALSE /\ UNCHANGED watched
    /\ UNCHANGED <<mode, gateway, finished, filesWork, readable, reports, unknownFor, lastState,
                   lastAgent, backend, changes>>

PostAggregate ==
    /\ poll.st = "post" /\ poll' = NoPoll
    /\ \/ /\ backend' = poll.out /\ lastState' = poll.out.state /\ lastAgent' = agent
          /\ watched' = IF poll.gw.known THEN poll.gw ELSE watched
       \/ \* rejected, unreachable, or its answer lost after the backend took it
          /\ backend' \in {backend, poll.out} /\ UNCHANGED <<lastState, lastAgent, watched>>
    /\ UNCHANGED <<mode, gateway, finished, filesWork, readable, reports, agent, unknownFor, storageDue,
                   changes>>

ActivityNext ==
    \/ GatewayChanges \/ KeepAlive \/ Post \/ FilesChange \/ SourceChanges
    \/ \E s \in Sources : OutageCapped(s)
    \/ AskStorage \/ StartPoll \/ ReadGateway \/ ReadFiles \/ Decide \/ PostAggregate

ActivitySpec == ActivityInit /\ [][ActivityNext]_rootVars

-------------------------------------------------------------------------------
\* The machine is called idle only on the word of both sources: an outage
\* of either, however long, is never reported as an idle machine.
IdleIsKnown == backend.state = "idle" => backend.truth
================================================================================
