------------------------------- MODULE MCGateway -------------------------------
(***************************************************************************)
(* Instances of the session log and of the gateway's smaller components,   *)
(* and of the cloud's synchronisation and the store of conversations. Each *)
(* runs alone, from its own initial states; the variables of the others    *)
(* keep their first value.                                                 *)
(***************************************************************************)
EXTENDS SessionLog, CloudSync, Permissions, RootActivity, ConversationStore, ToolsRestart, ChildLinks,
        Gate, FileEvents, OwnedDemo, AgentDrain, TLC

CONSTANTS p1, p2, v1, v2   \* interchangeable: the paths, and the requests or the versions

VARIABLES component    \* the one this behaviour is about

\* A bound: one event fewer once the cloud has all its changes, or a third one is being applied.
FullCloud ==
    Len(cloud') = MaxSeq \/ Cardinality(DOMAIN app') > 2 => syncEvents' < MaxSyncEvents

\* A bound: the gateway restarts only in behaviours of one turn.
FewTurns == permCrashes' = 0 \/ turnNo' < MaxTurns

\* A bound: no more file events once the browser's last connection is over, and one fewer
\* after a restart.
BrowserStays ==
    /\ sub.state # "off" \/ connections < MaxConnections
    /\ boot' = 1 \/ Len(journal') < MaxJournal

MCInit ==
    /\ component \in {"log", "sync", "permissions", "activity", "store", "restarts", "links", "gate",
                      "events", "demo", "agents"}
    /\ LogInit /\ SyncInit /\ PermissionsInit /\ ActivityInit /\ StoreInit /\ ToolsInit /\ LinksInit /\
       GateInit /\ EventsInit /\ DemoInit /\ DrainInit
    /\ component = "activity" \/ mode = "root"
    /\ component = "restarts" \/ mcpReady
    /\ component = "links" \/ (described = Calls /\ told = Calls /\ truth = [c \in Calls |-> CHOOSE k \in Kids : TRUE])
    /\ component = "gate" \/ (~authDisabled /\ keyFile /\ tokenExp = [t \in Tokens |-> 1])

Alone(x) == component = x /\ UNCHANGED component

MCNext ==
    \/ Alone("log") /\ LogNext
       /\ UNCHANGED <<syncVars, permVars, rootVars, storeVars, toolVars, linkVars, gateVars, eventVars,
                      demoVars, drainVars>>
    \/ Alone("sync") /\ SyncNext /\ FullCloud
       /\ UNCHANGED <<logVars, permVars, rootVars, storeVars, toolVars, linkVars, gateVars, eventVars,
                      demoVars, drainVars>>
    \/ Alone("permissions") /\ PermissionsNext /\ FewTurns
       /\ UNCHANGED <<logVars, syncVars, rootVars, storeVars, toolVars, linkVars, gateVars, eventVars,
                      demoVars, drainVars>>
    \/ Alone("activity") /\ ActivityNext
       /\ UNCHANGED <<logVars, syncVars, permVars, storeVars, toolVars, linkVars, gateVars, eventVars,
                      demoVars, drainVars>>
    \/ Alone("store") /\ StoreNext
       /\ UNCHANGED <<logVars, syncVars, permVars, rootVars, toolVars, linkVars, gateVars, eventVars,
                      demoVars, drainVars>>
    \/ Alone("restarts") /\ ToolsNext
       /\ UNCHANGED <<logVars, syncVars, permVars, rootVars, storeVars, linkVars, gateVars, eventVars,
                      demoVars, drainVars>>
    \/ Alone("links") /\ LinksNext
       /\ UNCHANGED <<logVars, syncVars, permVars, rootVars, storeVars, toolVars, gateVars, eventVars,
                      demoVars, drainVars>>
    \/ Alone("gate") /\ GateNext
       /\ UNCHANGED <<logVars, syncVars, permVars, rootVars, storeVars, toolVars, linkVars, eventVars,
                      demoVars, drainVars>>
    \/ Alone("events") /\ EventsNext /\ BrowserStays
       /\ UNCHANGED <<logVars, syncVars, permVars, rootVars, storeVars, toolVars, linkVars, gateVars,
                      demoVars, drainVars>>
    \/ Alone("demo") /\ DemoNext
       /\ UNCHANGED <<logVars, syncVars, permVars, rootVars, storeVars, toolVars, linkVars, gateVars,
                      eventVars, drainVars>>
    \/ Alone("agents") /\ DrainNext
       /\ UNCHANGED <<logVars, syncVars, permVars, rootVars, storeVars, toolVars, linkVars, gateVars,
                      eventVars, demoVars>>

MCSpec == MCInit /\ [][MCNext]_<<component, logVars, syncVars, permVars, rootVars, storeVars, toolVars,
                                 linkVars, gateVars, eventVars, demoVars, drainVars>>

Symmetric == Permutations({p1, p2}) \cup Permutations({v1, v2})
==================================
