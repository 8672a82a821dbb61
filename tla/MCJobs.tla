--------------------------------- MODULE MCJobs ---------------------------------
(***************************************************************************)
(* Instances of the components that work for the user in the background:   *)
(* processing tickets, cloud imports and voxels. Each runs alone, from its *)
(* own initial states; the variables of the others keep their first value. *)
(***************************************************************************)
EXTENDS DocumentProcessing, CloudImport, Voxels, TLC

VARIABLES component    \* the one this behaviour is about

\* A bound: a fault and a crash in one behaviour only while one ticket is in use, and after
\* either of them two tickets only while neither is with the processor.
FewFaults ==
    LET inUse == {j \in Jobs : job'[j].stage # None}
        trouble == procFaults' + procCrashes' IN
    \/ trouble = 0 \/ Cardinality(inUse) <= 1
    \/ trouble = 1 /\ \A j \in inUse : job'[j].stage = "terminal" \/ ~job'[j].intent

NoUpload(j) == opst'[j] = None /\ j \notin reservations'
PlainUploads == UploadJobs \ CloudJobs

\* A bound: a plain upload never beside an import, and beside a file ticket only while nothing fails.
OneUpload ==
    \/ \A j \in PlainUploads : NoUpload(j)
    \/ /\ \A j \in CloudJobs : NoUpload(j)
       /\ procFaults' + procCrashes' = 0 \/ \A j \in FileJobs : job'[j].stage = None

MCInit ==
    /\ component \in {"processing", "imports", "voxels"}
    /\ TicketsInit /\ ImportInit /\ VoxelsInit

Alone(x) == component = x /\ UNCHANGED component

MCNext ==
    \/ Alone("processing") /\ TicketsNext /\ FewFaults /\ OneUpload
       /\ UNCHANGED <<impVars, voxVars>>
    \/ Alone("imports") /\ ImportNext
       /\ UNCHANGED <<procVars, voxVars>>
    \/ Alone("voxels") /\ VoxelsNext
       /\ UNCHANGED <<procVars, impVars>>

MCSpec == MCInit /\ [][MCNext]_<<component, procVars, impVars, voxVars>>

==================================
