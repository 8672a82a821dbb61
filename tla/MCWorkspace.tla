------------------------------ MODULE MCWorkspace ------------------------------
(***************************************************************************)
(* Instances of the components that keep the user's files: file            *)
(* operations, the catalogue, captures and the agents' references. Each    *)
(* runs alone, from its own initial states; the variables of the others    *)
(* keep their first value.                                                 *)
(***************************************************************************)
EXTENDS WorkspaceFiles, FileIndex, FileCaptures, AgentReferences, TLC

CONSTANTS i1, i2, p1, p2   \* ids and paths, interchangeable

VARIABLES component    \* the one this behaviour is about

\* A bound: two disturbances of the file operations.
FewErrors == opErrors' + opCrashes' + foreign' <= 2

\* A bound: a fault and a crash in one behaviour only while one capture is in use.
FewFaults == capFaults' + capCrashes' < 2 \/ \E c \in Captures : origin'[c] = Null

MCInit ==
    /\ component \in {"files", "index", "captures", "references"}
    /\ FilesInit /\ IndexInit /\ CapturesInit /\ ReferencesInit
    /\ component = "index" \/ (onDisk = rows /\ rows = [p \in Tree |-> 0])

Alone(x) == component = x /\ UNCHANGED component

MCNext ==
    \/ Alone("files") /\ FilesNext /\ FewErrors
       /\ UNCHANGED <<indexVars, capVars, refVars>>
    \/ Alone("index") /\ IndexNext
       /\ UNCHANGED <<filesVars, capVars, refVars>>
    \/ Alone("captures") /\ CapturesNext /\ FewFaults
       /\ UNCHANGED <<filesVars, indexVars, refVars>>
    \/ Alone("references") /\ ReferencesNext
       /\ UNCHANGED <<filesVars, indexVars, capVars>>

MCSpec == MCInit /\ [][MCNext]_<<component, filesVars, indexVars, capVars, refVars>>

Symmetric == Permutations({i1, i2}) \cup Permutations(Paths)
==================================
