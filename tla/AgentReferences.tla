------------------------------ MODULE AgentReferences ------------------------------
(***************************************************************************)
(* The voxels a conversation may refer to (voxel-agent-references.js): a   *)
(* short list of results, the newest last, filled by the receipts of the   *)
(* voxel service (voxel-agent.js).  A receipt is taken when a request is   *)
(* answered and stored later, behind the stores of other requests, so it   *)
(* may be older than what is listed.  One named voxel and one conversation *)
(* are modelled; an operation's artifact is named by the operation.        *)
(***************************************************************************)
EXTENDS Naturals, Sequences, Sublists

CONSTANTS Saves,           \* operations that save the named voxel
          MaxReferences,   \* MAX_REFERENCES
          MaxReceipts      \* receipts on their way at once

ASSUME ReferencesAssumption == MaxReferences \in Nat /\ "none" \notin Saves

VARIABLES state,    \* the operation: off, accepted, ready, committed, conflict, failed
          revision, \* headRevision its commit got, 0 before
          headSave, \* the operation whose artifact is the voxel's head
          receipts, \* taken and not stored yet
          refs      \* the stored references
refVars == <<state, revision, headSave, receipts, refs>>

NoHead == "none"
headRevision == IF headSave = NoHead THEN 0 ELSE revision[headSave]
IsCommitted(ref) == ref.outcome = "committed"

ReferencesInit == /\ state = [s \in Saves |-> "off"] /\ revision = [s \in Saves |-> 0] /\ headSave = NoHead /\ receipts = {} /\ refs = <<>>

\* The voxel service: an operation computes, and its save takes the head or conflicts.
Advance(s) ==
    /\ \/ state[s] = "off" /\ state' = [state EXCEPT ![s] = "accepted"] /\ UNCHANGED <<revision, headSave>>
       \/ \E to \in {"ready", "failed"} : state[s] = "accepted" /\ state' = [state EXCEPT ![s] = to] /\ UNCHANGED <<revision, headSave>>
       \/ state[s] = "ready" /\ state' = [state EXCEPT ![s] = "conflict"] /\ UNCHANGED <<revision, headSave>>
       \/ state[s] = "ready" /\ state' = [state EXCEPT ![s] = "committed"] /\ headSave' = s
          /\ revision' = [revision EXCEPT ![s] = headRevision + 1]
    /\ UNCHANGED <<receipts, refs>>

Taken(ref) == ref \notin receipts /\ receipts' = receipts \cup {ref}
              /\ UNCHANGED <<state, revision, headSave, refs>>
Room == Cardinality(receipts) < MaxReceipts

\* receipt: what the operation's record says now
TakeReceipt(s) ==
    /\ state[s] # "off" /\ Room
    /\ Taken([op |-> s, artifact |-> state[s] \in {"ready", "committed", "conflict"}, named |-> TRUE, revision |-> revision[s],
              outcome |-> IF state[s] = "ready" THEN "unknown" ELSE state[s]])

\* artifactReference: the head resolved by name, or an artifact inspected,
\* whose name is the one stored with it, if any.
Resolve == headSave # NoHead /\ Room
           /\ Taken([op |-> headSave, artifact |-> TRUE, named |-> TRUE, revision |-> revision[headSave], outcome |-> "saved"])

Inspect(s) ==
    /\ state[s] \in {"ready", "committed", "conflict"} /\ Room
    /\ LET known == {i \in DOMAIN refs : refs[i].op = s /\ refs[i].artifact /\ refs[i].named}
       IN  \/ known = {} /\ Taken([op |-> s, artifact |-> TRUE, named |-> FALSE, revision |-> 0, outcome |-> "saved"])
           \/ \E i \in known : Taken([op |-> s, artifact |-> TRUE, named |-> TRUE, revision |-> refs[i].revision, outcome |-> "saved"])

-------------------------------------------------------------------------------
\* remember
IsHead(ref) == headSave # NoHead /\ ref.named /\ ref.artifact /\ ref.op = headSave /\ ref.revision = headRevision

\* A slip: the newest receipt replaces what was known.
MergedNewest(prior, ref) == ref

\* A late receipt cannot erase a result, its name or its commit.
Merged(prior, ref) ==
    LET m == IF (prior.artifact /\ ~ref.artifact) \/ (prior.outcome # "accepted" /\ ref.outcome = "accepted") THEN prior
             ELSE IF prior.artifact # ref.artifact THEN ref
             ELSE LET kept == ~ref.named \/ (prior.named /\ prior.revision # 0 /\ ref.revision = 0)
                  IN  [ref EXCEPT !.named = prior.named \/ @, !.revision = IF kept THEN prior.revision ELSE @,
                                  !.outcome = IF IsCommitted(prior) /\ ~IsCommitted(ref) THEN prior.outcome ELSE @]
    IN  IF IsHead(prior) /\ ~IsHead(m) THEN prior ELSE m

Placed(list, ref) ==   \* before the head, when it is another one's
    IF ref.named /\ ~IsHead(ref) /\ \E i \in DOMAIN list : IsHead(list[i])
    THEN LET i == CHOOSE i \in DOMAIN list : IsHead(list[i]) IN SubSeq(list, 1, i - 1) \o <<ref>> \o SubSeq(list, i, Len(list))
    ELSE Append(list, ref)

Last(list) == IF Len(list) > MaxReferences THEN SubSeq(list, Len(list) - MaxReferences + 1, Len(list)) ELSE list

First(op) == {i \in DOMAIN refs : refs[i].op = op /\ \A j \in 1 .. i - 1 : refs[j].op # op}

Remember(ref) ==
    LET at == First(ref.op)
        rest == Sublist(refs, DOMAIN refs \ at)
    IN  /\ receipts' = receipts \ {ref} /\ UNCHANGED <<state, revision, headSave>>
        /\ refs' = Last(Placed(rest, IF at = {} THEN ref ELSE Merged(refs[CHOOSE i \in at : TRUE], ref)))

ReferencesNext ==
    \/ \E s \in Saves : Advance(s) \/ TakeReceipt(s) \/ Inspect(s)
    \/ Resolve
    \/ \E ref \in receipts : Remember(ref)

ReferencesSpec == ReferencesInit /\ [][ReferencesNext]_refVars

-------------------------------------------------------------------------------
\* "The current voxel" of a conversation is right whatever order receipts
\* are stored in: no reference to another version stands after the head's,
\* and what is listed of a result is never less than what was listed.
HeadIsLast == \A i, j \in DOMAIN refs : i < j /\ IsHead(refs[i]) => ~refs[j].named

NothingUnlearned ==
    \A i \in DOMAIN refs, j \in DOMAIN refs' : refs[i].op = refs'[j].op =>
       /\ refs[i].artifact => refs'[j].artifact
       /\ IsCommitted(refs[i]) => IsCommitted(refs'[j])
       /\ refs[i].revision # 0 => refs'[j].revision = refs[i].revision

ReferencesHold == [][HeadIsLast' /\ NothingUnlearned]_refVars
================================================================================
