---------------------------- MODULE Workspace_proofs ----------------------------
(***************************************************************************)
(* Proofs about the files of a workspace: what the file service promises   *)
(* of its receipts, of other programs' files and of its evidence           *)
(* (WorkspaceFiles), for any paths, operations and outside changes; what a *)
(* scan of the catalogue promises (FileIndex), for any files; that an      *)
(* agent's list of references unlearns nothing (AgentReferences), in any   *)
(* order of receipts; and that what a capture promises to keep is kept     *)
(* (FileCaptures), for any sources, faults and restarts.                   *)
(***************************************************************************)
EXTENDS WorkspaceFiles, FileIndex, AgentReferences, FileCaptures, Sublists_proofs, FiniteSetTheorems, TLAPS

--------------------
\* WorkspaceFiles: the inductive invariant

Own == Ops \cup {OldFile}
Objects == Own \cup Foreign
Things == Objects \cup {None}
Observations == Things \X BOOLEAN
Kinds == {"create", "replace", "force-replace", "mkdir", "move", "delete", "restore"}
Creates == Uploads \cup {"mkdir"}
Places == {None, "stream", "stage", "begin", "rename", "prove", "commit"}
States == {None, "accepted", "streaming", "staged", "publishing", "indeterminate", "committed", "failed", "aborted"}
Early == {"accepted", "streaming", "staged"}
Intended == [kind : Kinds \cup {None}, from : Paths \cup {None}, to : Paths \cup {None}, of : Ops \cup {None},
             replace : BOOLEAN, base : Observations, dest : Observations]

FileTypes ==
    /\ ns \in [Paths -> Things] /\ trash \in [Ops -> Things]
    /\ cand \in [Ops -> Things] /\ did \in [Ops -> Things] /\ over \in [Ops -> Things]
    /\ recov \in [Ops -> {None, "available", "restored", "expired"}]
    /\ intent \in [Ops -> Intended] /\ st \in [Ops -> States]
    /\ stg \in [Ops -> {None, "ws", "trash"}] /\ pc \in [Ops -> Places]
    /\ lock \in Ops \cup {None} /\ mode \in {"ready", "down", "recovering"} /\ todo \in SUBSET Ops

\* What an operation asks for is well formed, and no restore is of an entry that
\* was never deleted.
WellFormed(o) ==
    LET i == intent[o] IN
    /\ i.kind = None <=> st[o] = None
    /\ i.kind # "restore" => i.of = None
    /\ i.kind \in Creates \cup {"restore"} => i.to \in Paths /\ i.from = None
    /\ i.kind = "move" => i.from \in Paths /\ i.to \in Paths /\ i.from # i.to /\ i.base[1] # None
    /\ i.kind = "delete" => i.to = None /\ i.base[1] # None /\ (i.from \in Paths \/ o \in Earlier)
    /\ i.kind = "restore" => i.of \in Ops /\ i.of # o /\ recov[i.of] # None
    /\ o \in Earlier => st[o] = "committed"

\* Where a request is says what its record says; only a publication holds the lock.
InStep(o) ==
    /\ pc[o] = "stream" => IsUpload(o) /\ st[o] = "accepted"
    /\ pc[o] = "stage" => IsUpload(o) /\ st[o] = "streaming"
    /\ pc[o] = "begin" => st[o] = (IF IsUpload(o) THEN "staged" ELSE "accepted")
    /\ pc[o] \in {"rename", "prove", "commit"} => st[o] = "publishing"
    /\ pc[o] \in {"rename", "prove"} => lock = o
    /\ pc[o] = "commit" => lock = o \/ IsUpload(o)
    /\ lock = o => pc[o] \in {"rename", "prove", "commit"}
    /\ st[o] = "staged" => IsUpload(o)

\* Nothing runs until every unfinished record has been looked at.
Modes ==
    /\ mode # "ready" => lock = None /\ \A o \in Ops : pc[o] = None
    /\ \A o \in Ops : st[o] \in Early \cup {"publishing"} =>
          (mode = "ready" => pc[o] # None) /\ (mode = "recovering" => o \in todo)
    /\ \A o \in todo : mode = "recovering" /\ st[o] \notin Settled \cup {None}

\* Nothing has been renamed before the record says "publishing".
Untouched(o) ==
    /\ st[o] \in Early \cup {None, "failed", "aborted"} \/ pc[o] = "rename" => did[o] = None
    /\ did[o] = None => over[o] = None
    /\ trash[o] \in {None, did[o]}
    /\ pc[o] \in {"prove", "commit"} => did[o] # None \/ intent[o].kind = "mkdir"

\* An object of the service is in one place, and nowhere before its rename.
OnePlace ==
    /\ \A p, q \in Paths : ns[p] = ns[q] /\ ns[p] \in Own => p = q
    /\ \A p \in Paths, x \in Ops : ns[p] = trash[x] => ns[p] \notin Own
    /\ \A x, y \in Ops : trash[x] = trash[y] /\ trash[x] \in Own => x = y
NotYetThere(o) == did[o] # o => (\A p \in Paths : ns[p] # o) /\ \A x \in Ops : trash[x] # o

\* The evidence: an upload is about its own object and keeps its candidate, a deletion
\* in its last step has its entry in the trash.
Evidence(o) ==
    /\ IsUpload(o) => did[o] \in {None, o}
    /\ IsUpload(o) /\ st[o] \in {"staged", "publishing", "indeterminate"} =>
          cand[o] = o /\ (did[o] = None => stg[o] = "ws")
    /\ intent[o].kind = "delete" /\ st[o] = "publishing" => cand[o] # None
    /\ intent[o].kind = "delete" /\ pc[o] = "commit" => trash[o] = cand[o]
    /\ pc[o] = "commit" => did[o] = cand[o] \/ intent[o].kind = "mkdir" \/ (intent[o].kind = "move" /\ cand[o] \in Foreign)

\* A move in doubt has its object at the destination only if it put it there; a
\* restore in doubt has left the trash as it was, or emptied it.
InDoubt(o) ==
    /\ st[o] = "publishing" /\ intent[o].kind = "move" /\ cand[o] \in Own /\ ns[intent[o].to] = cand[o] =>
          did[o] = cand[o]
    /\ st[o] = "publishing" /\ intent[o].kind = "move" => cand[o] # None
    /\ st[o] = "publishing" /\ intent[o].kind = "restore" =>
          /\ cand[o] = cand[intent[o].of]
          /\ IF did[o] = None THEN trash[intent[o].of] = cand[o]
             ELSE did[o] = cand[o] /\ trash[intent[o].of] = None

\* What is at the destination when the rename comes is what the client has seen.
Seen(o) ==
    pc[o] = "rename" /\ intent[o].to # None /\ ns[intent[o].to] \in Own =>
        \/ intent[o].kind = "force-replace" \/ NoReplace(o)
        \/ ns[intent[o].to] \in {intent[o].base[1], intent[o].dest[1]}

\* A recovery is of a deletion that took effect.
Recoverable(o) ==
    /\ recov[o] # None =>
         /\ intent[o].kind = "delete" /\ st[o] \in {"committed", "indeterminate"}
         /\ did[o] = cand[o] /\ cand[o] # None

FilesInv ==
    /\ FileTypes /\ Modes /\ OnePlace
    /\ \A o \in Ops : WellFormed(o) /\ InStep(o)
    /\ \A o \in Ops : Untouched(o) /\ NotYetThere(o)
    /\ \A o \in Ops : Evidence(o) /\ InDoubt(o)
    /\ \A o \in Ops : Seen(o) /\ Recoverable(o)
    /\ ReceiptsTruthful /\ NoLostUpdate /\ EvidenceKept

\* committed: what the receipt changes of the recovery records.
LEMMA ReceiptFacts ==
  ASSUME FileTypes, NEW o \in Ops, Receipt(o)
  PROVE  /\ recov' \in [Ops -> {None, "available", "restored", "expired"}]
         /\ \A x \in Ops : recov[x] # None => recov'[x] # None
         /\ \A x \in Ops : recov'[x] # recov[x] =>
              (x = o /\ intent[o].kind = "delete") \/ (x = intent[o].of /\ recov'[x] = "restored")
  BY DEF FileTypes, Receipt, None

\* Rename and RenameFails, by outcome: the rename takes effect, and the request goes on
\* or ends in doubt; it is refused; the folder is there already; an error says nothing.
RenameDone(o) ==
    /\ At(o, "rename") /\ Source(o) # None /\ ~(Occupied(o) /\ NoReplace(o))
    /\ Effect(o) /\ Step(o, "prove")
    /\ UNCHANGED <<touched, recov, late, intent, cand, st, pend, lock, todo, mode, budget>>
RenameInDoubt(o) ==
    /\ At(o, "rename") /\ Source(o) # None /\ ~(Occupied(o) /\ NoReplace(o))
    /\ Effect(o) /\ Save(o, "indeterminate") /\ Step(o, None) /\ lock' = None
    /\ UNCHANGED <<touched, recov, late, intent, cand, pend, todo, mode>>
RenameRefused(o) ==
    /\ At(o, "rename") /\ Fail(o, FALSE)
    /\ UNCHANGED <<ns, trash, cand, did, over, touched, recov, late, intent, pend, todo, mode, budget>>
FolderThere(o) ==
    /\ At(o, "rename") /\ Occupied(o) /\ intent[o].kind = "mkdir"
    /\ cand' = [cand EXCEPT ![o] = ns[intent[o].to]] /\ Step(o, "prove")
    /\ UNCHANGED <<ns, trash, did, over, st, stg, lock, touched, recov, late, intent, pend, todo, mode, budget>>
RenameUnknown(o) ==
    /\ pc[o] \in {"rename", "prove"} /\ Up /\ Fail(o, TRUE)
    /\ UNCHANGED <<ns, trash, did, over, touched, recov, late, intent, cand, pend, todo, mode>>

\* What a rename does, by what was asked for.
CreateMoves(o) ==
    /\ intent[o].kind \in Creates /\ Source(o) = o /\ intent[o].to \in Paths
    /\ (\A x \in Ops : trash'[x] = trash[x])
    /\ (\A p \in Paths : ns'[p] = IF p = intent[o].to THEN o ELSE ns[p])
MoveMoves(o) ==
    /\ intent[o].kind = "move" /\ Source(o) = ns[intent[o].from]
    /\ intent[o].to \in Paths /\ intent[o].from \in Paths /\ intent[o].to # intent[o].from
    /\ (\A x \in Ops : trash'[x] = trash[x])
    /\ (\A p \in Paths : ns'[p] = IF p = intent[o].to THEN Source(o)
                                  ELSE IF p = intent[o].from THEN None ELSE ns[p])
DeleteMoves(o) ==
    /\ intent[o].kind = "delete" /\ Source(o) = ns[intent[o].from] /\ intent[o].to = None
    /\ intent[o].from \in Paths
    /\ (\A x \in Ops : trash'[x] = IF x = o THEN Source(o) ELSE trash[x])
    /\ (\A p \in Paths : ns'[p] = IF p = intent[o].from THEN None ELSE ns[p])
RestoreMoves(o) ==
    /\ intent[o].kind = "restore" /\ Source(o) = trash[intent[o].of] /\ Source(o) = cand[o]
    /\ intent[o].to \in Paths /\ intent[o].of \in Ops /\ intent[o].of # o
    /\ (\A x \in Ops : trash'[x] = IF x = intent[o].of THEN None ELSE trash[x])
    /\ (\A p \in Paths : ns'[p] = IF p = intent[o].to THEN Source(o) ELSE ns[p])

Renames(o) ==
    /\ At(o, "rename") /\ Source(o) # None /\ ~(Occupied(o) /\ NoReplace(o)) /\ Effect(o)

LEMMA AtRename ==
  ASSUME FilesInv, NEW o \in Ops, At(o, "rename")
  PROVE  /\ FileTypes /\ WellFormed(o) /\ Untouched(o) /\ InDoubt(o)
         /\ st[o] = "publishing" /\ lock = o /\ mode = "ready" /\ did[o] = None /\ o \notin Earlier
         /\ trash[o] = None
         /\ intent[o].kind \in Kinds /\ intent[o] \in Intended
         /\ \A x \in Ops : x # o => pc[x] \notin {"rename", "prove"} /\ (st[x] = "publishing" => IsUpload(x))
<1> USE FilesAssumption DEF None
<1>1. /\ FileTypes /\ WellFormed(o) /\ Untouched(o) /\ InDoubt(o) /\ Modes
      /\ \A x \in Ops : InStep(x) BY DEF FilesInv
<1>2. st[o] = "publishing" /\ lock = o /\ mode = "ready" /\ did[o] = None BY <1>1 DEF At, Up, InStep, Untouched
<1>3. intent[o] \in Intended /\ intent[o].kind \in Kinds BY <1>1, <1>2 DEF FileTypes, WellFormed, Intended
<1>4. ASSUME NEW x \in Ops, x # o
      PROVE  pc[x] \notin {"rename", "prove"} /\ (st[x] = "publishing" => IsUpload(x))
  BY <1>1, <1>2, <1>4 DEF Modes, InStep, FileTypes, Places
<1> QED BY <1>1, <1>2, <1>3, <1>4 DEF WellFormed, Untouched

LEMMA RenameMoves ==
  ASSUME FilesInv, NEW o \in Ops, Renames(o)
  PROVE  CreateMoves(o) \/ MoveMoves(o) \/ DeleteMoves(o) \/ RestoreMoves(o)
<1> USE FilesAssumption DEF None
<1>0. At(o, "rename") /\ Effect(o) BY DEF Renames
<1>1. /\ FileTypes /\ WellFormed(o) /\ Untouched(o) /\ InDoubt(o)
      /\ st[o] = "publishing" /\ did[o] = None /\ o \notin Earlier
      /\ intent[o].kind \in Kinds /\ intent[o] \in Intended BY <1>0, AtRename
<1>2. ns' = [p \in Paths |-> IF p = intent[o].to THEN Source(o)
                             ELSE IF p = intent[o].from THEN None ELSE ns[p]] BY <1>0 DEF Effect
<1>3. trash' = [x \in Ops |-> IF x = o /\ intent[o].kind = "delete" THEN Source(o)
                              ELSE IF x = intent[o].of THEN None ELSE trash[x]] BY <1>0 DEF Effect
<1>4. CASE intent[o].kind \in Creates
 <2>1. intent[o].to \in Paths /\ intent[o].from = None /\ intent[o].of = None /\ Source(o) = o
   BY <1>1, <1>4 DEF WellFormed, Creates, Uploads, Source
 <2>2. /\ (\A x \in Ops : trash'[x] = trash[x])
       /\ (\A p \in Paths : ns'[p] = IF p = intent[o].to THEN o ELSE ns[p])
   BY <1>1, <1>2, <1>3, <1>4, <2>1 DEF FileTypes, Creates, Uploads
 <2> QED BY <1>4, <2>1, <2>2 DEF CreateMoves
<1>5. CASE intent[o].kind = "move"
 <2>1. /\ intent[o].to \in Paths /\ intent[o].from \in Paths /\ intent[o].to # intent[o].from
       /\ intent[o].of = None /\ Source(o) = ns[intent[o].from] BY <1>1, <1>5 DEF WellFormed, Source
 <2>2. /\ (\A x \in Ops : trash'[x] = trash[x])
       /\ (\A p \in Paths : ns'[p] = IF p = intent[o].to THEN Source(o)
                                     ELSE IF p = intent[o].from THEN None ELSE ns[p])
   BY <1>1, <1>2, <1>3, <1>5, <2>1 DEF FileTypes
 <2> QED BY <1>5, <2>1, <2>2 DEF MoveMoves
<1>6. CASE intent[o].kind = "delete"
 <2>1. /\ intent[o].from \in Paths /\ intent[o].to = None /\ intent[o].of = None
       /\ Source(o) = ns[intent[o].from] BY <1>1, <1>6 DEF WellFormed, Source
 <2>2. /\ (\A x \in Ops : trash'[x] = IF x = o THEN Source(o) ELSE trash[x])
       /\ (\A p \in Paths : ns'[p] = IF p = intent[o].from THEN None ELSE ns[p])
   BY <1>1, <1>2, <1>3, <1>6, <2>1 DEF FileTypes
 <2> QED BY <1>6, <2>1, <2>2 DEF DeleteMoves
<1>7. CASE intent[o].kind = "restore"
 <2>1. /\ intent[o].to \in Paths /\ intent[o].from = None /\ intent[o].of \in Ops /\ intent[o].of # o
       /\ Source(o) = trash[intent[o].of] /\ Source(o) = cand[o]
   BY <1>1, <1>7 DEF WellFormed, Source, InDoubt, Creates
 <2>2. /\ (\A x \in Ops : trash'[x] = IF x = intent[o].of THEN None ELSE trash[x])
       /\ (\A p \in Paths : ns'[p] = IF p = intent[o].to THEN Source(o) ELSE ns[p])
   BY <1>1, <1>2, <1>3, <1>7, <2>1 DEF FileTypes
 <2> QED BY <1>7, <2>1, <2>2 DEF RestoreMoves
<1> QED BY <1>1, <1>4, <1>5, <1>6, <1>7 DEF Kinds, Creates, Uploads

LEMMA RenameTypes ==
  ASSUME FilesInv, NEW o \in Ops, Renames(o)
  PROVE  /\ Source(o) \in Objects
         /\ ns' \in [Paths -> Things] /\ trash' \in [Ops -> Things]
         /\ did' = [did EXCEPT ![o] = Source(o)] /\ did' \in [Ops -> Things]
         /\ over' = [over EXCEPT ![o] = IF Occupied(o) THEN ns[intent[o].to] ELSE None]
         /\ over' \in [Ops -> Things]
         /\ stg' = [stg EXCEPT ![o] = None] /\ stg' \in [Ops -> {None, "ws", "trash"}]
<1> USE FilesAssumption DEF None
<1>1. At(o, "rename") /\ Effect(o) /\ Source(o) # None BY DEF Renames
<1>2. FileTypes /\ intent[o] \in Intended BY <1>1, AtRename
<1>3. CreateMoves(o) \/ MoveMoves(o) \/ DeleteMoves(o) \/ RestoreMoves(o) BY RenameMoves
<1>4. Source(o) \in Objects
  BY <1>1, <1>2, <1>3 DEF CreateMoves, MoveMoves, DeleteMoves, RestoreMoves, FileTypes, Things, Objects, Own
<1>5. Occupied(o) => ns[intent[o].to] \in Things BY <1>2 DEF Occupied, FileTypes, Intended
<1> QED BY <1>1, <1>2, <1>4, <1>5 DEF Effect, FileTypes, Things

\* The object the rename moves was at one place, or nowhere yet; so it is after.
LEMMA RenameKeepsPlaces ==
  ASSUME FilesInv, NEW o \in Ops, Renames(o)
  PROVE  OnePlace' /\ \A x \in Ops : NotYetThere(x)'
<1> USE FilesAssumption DEF None
<1>1. /\ OnePlace /\ FileTypes /\ did[o] = None /\ trash[o] = None
      /\ \A x \in Ops : NotYetThere(x) BY AtRename DEF FilesInv, Renames
<1>2. Source(o) # None /\ did' = [did EXCEPT ![o] = Source(o)] BY RenameTypes DEF Renames
<1>3. CASE CreateMoves(o)
 <2>1. (\A p \in Paths : ns[p] # o) /\ \A x \in Ops : trash[x] # o BY <1>1 DEF NotYetThere
 <2>2. OnePlace' BY <1>1, <1>3, <2>1 DEF OnePlace, CreateMoves
 <2>3. ASSUME NEW x \in Ops PROVE NotYetThere(x)' BY <1>1, <1>2, <1>3 DEF NotYetThere, CreateMoves, FileTypes
 <2> QED BY <2>2, <2>3
<1>4. CASE MoveMoves(o)
 <2>2. OnePlace' BY <1>1, <1>4 DEF OnePlace, MoveMoves, Own
 <2>3. ASSUME NEW x \in Ops PROVE NotYetThere(x)' BY <1>1, <1>2, <1>4 DEF NotYetThere, MoveMoves, FileTypes
 <2> QED BY <2>2, <2>3
<1>5. CASE DeleteMoves(o)
 <2>2. OnePlace' BY <1>1, <1>5 DEF OnePlace, DeleteMoves, Own
 <2>3. ASSUME NEW x \in Ops PROVE NotYetThere(x)' BY <1>1, <1>2, <1>5 DEF NotYetThere, DeleteMoves, FileTypes
 <2> QED BY <2>2, <2>3
<1>6. CASE RestoreMoves(o)
 <2> DEFINE t == intent[o].to
            f == intent[o].of
 <2>1. /\ t \in Paths /\ f \in Ops /\ Source(o) = trash[f]
       /\ \A x \in Ops : trash'[x] = IF x = f THEN None ELSE trash[x]
       /\ \A p \in Paths : ns'[p] = IF p = t THEN Source(o) ELSE ns[p] BY <1>6 DEF RestoreMoves
 <2> HIDE DEF t, f
 <2>2. /\ \A p, q \in Paths : ns'[p] = ns'[q] /\ ns'[p] \in Own => p = q
       /\ \A x, y \in Ops : trash'[x] = trash'[y] /\ trash'[x] \in Own => x = y BY <1>1, <2>1 DEF OnePlace, Own
 <2>3. ASSUME NEW p \in Paths, NEW x \in Ops, ns'[p] = trash'[x], ns'[p] \in Own PROVE FALSE
  <3>1. x # f BY <1>2, <2>1, <2>3 DEF Own
  <3>2. ns'[p] = trash[x] BY <2>1, <2>3, <3>1
  <3>3. p # t BY <1>1, <2>1, <2>3, <3>1, <3>2 DEF OnePlace
  <3> QED BY <1>1, <2>1, <2>3, <3>2, <3>3 DEF OnePlace
 <2>4. ASSUME NEW x \in Ops PROVE NotYetThere(x)'
  <3>1. did'[x] # x => did[x] # x BY <1>1, <1>2 DEF FileTypes
  <3>2. did[x] # x => (\A p \in Paths : ns'[p] # x) /\ \A y \in Ops : trash'[y] # x BY <1>1, <2>1 DEF NotYetThere
  <3> QED BY <3>1, <3>2 DEF NotYetThere
 <2> QED BY <2>2, <2>3, <2>4 DEF OnePlace
<1> QED BY <1>3, <1>4, <1>5, <1>6, RenameMoves

LEMMA StreamKeeps == \A o \in Ops : FilesInv /\ Stream(o) => FilesInv'
<1> SUFFICES ASSUME NEW o \in Ops, FilesInv, Stream(o) PROVE FilesInv' OBVIOUS
<1> USE FilesAssumption DEF None, Uploads, FilesInv
<1>1. FileTypes' BY DEF FileTypes, States, Places, Stream, Up, Save, Step, disk, budget
<1>2. Modes' BY DEF Modes, Settled, Stream, At, Up, Save, Step
<1>3. OnePlace' BY DEF OnePlace, Stream, disk, budget
<1>4. \A x \in Ops : WellFormed(x)' BY DEF WellFormed, InStep, Stream, At, Up, Save, disk, budget
<1>5. \A x \in Ops : InStep(x)' BY DEF InStep, IsUpload, FileTypes, Stream, At, Up, Save, Step
<1>6. \A x \in Ops : Untouched(x)' BY DEF Untouched, Early, InStep, Stream, At, Up, Save, Step, disk, budget
<1>7. \A x \in Ops : NotYetThere(x)' BY DEF NotYetThere, Stream, disk, budget
<1>8. \A x \in Ops : Evidence(x)' BY DEF Evidence, IsUpload, InStep, Stream, Up, Save, Step, disk, budget
<1>9. \A x \in Ops : InDoubt(x)' BY DEF InDoubt, Stream, Up, Save, disk, budget
<1>10. \A x \in Ops : Seen(x)' BY DEF Seen, NoReplace, Stream, Up, Step, disk, budget
<1>11. \A x \in Ops : Recoverable(x)' BY DEF Recoverable, InStep, Stream, At, Up, Save, disk, budget
<1>12. ReceiptsTruthful' BY DEF ReceiptsTruthful, Stream, Up, Save
<1>13. NoLostUpdate' BY DEF NoLostUpdate, Stream
<1>14. EvidenceKept' BY DEF EvidenceKept, IsUpload, InStep, Stream, Up, Save, disk, budget
<1> QED BY <1>1, <1>2, <1>3, <1>4, <1>5, <1>6, <1>7, <1>8, <1>9, <1>10, <1>11, <1>12, <1>13, <1>14

LEMMA RestartKeeps == FilesInv /\ Restart => FilesInv'
<1> SUFFICES ASSUME FilesInv, Restart PROVE FilesInv' OBVIOUS
<1> USE FilesAssumption DEF None, Uploads, FilesInv
<1>1. FileTypes' BY DEF FileTypes, Restart, disk, record, request, budget
<1>2. Modes' BY DEF Modes, Early, Settled, Restart, record, request, budget
<1>3. OnePlace' BY DEF OnePlace, Restart, disk, budget
<1>4. \A x \in Ops : WellFormed(x)' BY DEF WellFormed, Restart, disk, record, budget
<1>5. \A x \in Ops : InStep(x)' BY DEF InStep, IsUpload, Restart, record, request, budget
<1>6. \A x \in Ops : Untouched(x)' BY DEF Untouched, Restart, disk, record, request, budget
<1>7. \A x \in Ops : NotYetThere(x)' BY DEF NotYetThere, Restart, disk, request, budget
<1>8. \A x \in Ops : Evidence(x)' BY DEF Evidence, IsUpload, Restart, disk, record, request, budget
<1>9. \A x \in Ops : InDoubt(x)' BY DEF InDoubt, Restart, disk, record, request, budget
<1>10. \A x \in Ops : Seen(x)' BY DEF Seen, NoReplace, Restart, disk, record, request, budget
<1>11. \A x \in Ops : Recoverable(x)' BY DEF Recoverable, Restart, disk, record, request, budget
<1>12. ReceiptsTruthful' BY DEF ReceiptsTruthful, Restart, record, request, budget
<1>13. NoLostUpdate' BY DEF NoLostUpdate, Restart, record, request, budget
<1>14. EvidenceKept' BY DEF EvidenceKept, IsUpload, Restart, disk, record, request, budget
<1> QED BY <1>1, <1>2, <1>3, <1>4, <1>5, <1>6, <1>7, <1>8, <1>9, <1>10, <1>11, <1>12, <1>13, <1>14

LEMMA RecoveredKeeps == FilesInv /\ Recovered => FilesInv'
<1> SUFFICES ASSUME FilesInv, Recovered PROVE FilesInv' OBVIOUS
<1> USE FilesAssumption DEF None, Uploads, FilesInv
<1>1. FileTypes' BY DEF FileTypes, Recovered, disk, record, request, budget
<1>2. Modes' BY DEF Modes, Settled, Recovered, record, budget
<1>3. OnePlace' BY DEF OnePlace, Recovered, disk, budget
<1>4. \A x \in Ops : WellFormed(x)' BY DEF WellFormed, Recovered, disk, record, budget
<1>5. \A x \in Ops : InStep(x)' BY DEF InStep, IsUpload, Recovered, record, request, budget
<1>6. \A x \in Ops : Untouched(x)' BY DEF Untouched, Recovered, disk, record, request, budget
<1>7. \A x \in Ops : NotYetThere(x)' BY DEF NotYetThere, Recovered, disk, request, budget
<1>8. \A x \in Ops : Evidence(x)' BY DEF Evidence, IsUpload, Recovered, disk, record, request, budget
<1>9. \A x \in Ops : InDoubt(x)' BY DEF InDoubt, Recovered, disk, record, request, budget
<1>10. \A x \in Ops : Seen(x)' BY DEF Seen, NoReplace, Recovered, disk, record, request, budget
<1>11. \A x \in Ops : Recoverable(x)' BY DEF Recoverable, Recovered, disk, record, request, budget
<1>12. ReceiptsTruthful' BY DEF ReceiptsTruthful, Recovered, record, request, budget
<1>13. NoLostUpdate' BY DEF NoLostUpdate, Recovered, record, request, budget
<1>14. EvidenceKept' BY DEF EvidenceKept, IsUpload, Recovered, disk, record, request, budget
<1> QED BY <1>1, <1>2, <1>3, <1>4, <1>5, <1>6, <1>7, <1>8, <1>9, <1>10, <1>11, <1>12, <1>13, <1>14

LEMMA CrashKeeps == FilesInv /\ Crash => FilesInv'
<1> SUFFICES ASSUME FilesInv, Crash PROVE FilesInv' OBVIOUS
<1> USE FilesAssumption DEF None, Uploads, FilesInv
<1>1. FileTypes' BY DEF FileTypes, Places, Crash, disk, record, budget
<1>2. Modes' BY DEF Modes, Settled, Crash
<1>3. OnePlace' BY DEF OnePlace, Crash, disk, budget
<1>4. \A x \in Ops : WellFormed(x)' BY DEF WellFormed, Crash, disk, record, budget
<1>5. \A x \in Ops : InStep(x)' BY DEF InStep, IsUpload, Crash, record, budget
<1>6. \A x \in Ops : Untouched(x)' BY DEF Untouched, Crash, disk, record, budget
<1>7. \A x \in Ops : NotYetThere(x)' BY DEF NotYetThere, Crash, disk, budget
<1>8. \A x \in Ops : Evidence(x)' BY DEF Evidence, IsUpload, InStep, Crash, record, budget
<1>9. \A x \in Ops : InDoubt(x)' BY DEF InDoubt, Crash, disk, record, budget
<1>10. \A x \in Ops : Seen(x)' BY DEF Seen, Crash
<1>11. \A x \in Ops : Recoverable(x)' BY DEF Recoverable, Crash, disk, record, budget
<1>12. ReceiptsTruthful' BY DEF ReceiptsTruthful, Crash, record, budget
<1>13. NoLostUpdate' BY DEF NoLostUpdate, Crash, record, budget
<1>14. EvidenceKept' BY DEF EvidenceKept, IsUpload, Crash, disk, record, budget
<1> QED BY <1>1, <1>2, <1>3, <1>4, <1>5, <1>6, <1>7, <1>8, <1>9, <1>10, <1>11, <1>12, <1>13, <1>14

LEMMA RecoveryExpiresKeeps == \A o \in Ops : FilesInv /\ RecoveryExpires(o) => FilesInv'
<1> SUFFICES ASSUME NEW o \in Ops, FilesInv, RecoveryExpires(o) PROVE FilesInv' OBVIOUS
<1> USE FilesAssumption DEF None, Uploads, FilesInv
<1>1. FileTypes' BY DEF FileTypes, RecoveryExpires, record, request, budget
<1>2. Modes' BY DEF Modes, Settled, RecoveryExpires, record, request, budget
<1>3. OnePlace' BY DEF OnePlace, RecoveryExpires
<1>4. \A x \in Ops : WellFormed(x)' BY DEF WellFormed, RecoveryExpires, record, budget
<1>5. \A x \in Ops : InStep(x)' BY DEF InStep, IsUpload, RecoveryExpires, record, request, budget
<1>6. \A x \in Ops : Untouched(x)' BY DEF Untouched, RecoveryExpires, record, request, budget
<1>7. \A x \in Ops : NotYetThere(x)' BY DEF NotYetThere, RecoveryExpires, request, budget
<1>8. \A x \in Ops : Evidence(x)' BY DEF Evidence, IsUpload, RecoveryExpires, record, request, budget
<1>9. \A x \in Ops : InDoubt(x)' BY DEF InDoubt, RecoveryExpires, record, request, budget
<1>10. \A x \in Ops : Seen(x)' BY DEF Seen, NoReplace, RecoveryExpires, record, request, budget
<1>11. \A x \in Ops : Recoverable(x)' BY DEF Recoverable, RecoveryExpires, record, request, budget
<1>12. ReceiptsTruthful' BY DEF ReceiptsTruthful, RecoveryExpires, record, request, budget
<1>13. NoLostUpdate' BY DEF NoLostUpdate, RecoveryExpires, record, request, budget
<1>14. EvidenceKept' BY DEF EvidenceKept, IsUpload, InStep, RecoveryExpires, record, request, budget
<1> QED BY <1>1, <1>2, <1>3, <1>4, <1>5, <1>6, <1>7, <1>8, <1>9, <1>10, <1>11, <1>12, <1>13, <1>14

LEMMA CleanStagingKeeps == \A o \in Ops : FilesInv /\ CleanStaging(o) => FilesInv'
<1> SUFFICES ASSUME NEW o \in Ops, FilesInv, CleanStaging(o) PROVE FilesInv' OBVIOUS
<1> USE FilesAssumption DEF None, Uploads, FilesInv
<1>1. FileTypes' BY DEF FileTypes, CleanStaging, disk, request, budget
<1>2. Modes' BY DEF Modes, Settled, CleanStaging, request, budget
<1>3. OnePlace' BY DEF OnePlace, CleanStaging, disk, budget
<1>4. \A x \in Ops : WellFormed(x)' BY DEF WellFormed, CleanStaging, disk, budget
<1>5. \A x \in Ops : InStep(x)' BY DEF InStep, IsUpload, CleanStaging, request, budget
<1>6. \A x \in Ops : Untouched(x)' BY DEF Untouched, CleanStaging, disk, request, budget
<1>7. \A x \in Ops : NotYetThere(x)' BY DEF NotYetThere, CleanStaging, disk, request, budget
<1>8. \A x \in Ops : Evidence(x)' BY DEF Evidence, IsUpload, FileTypes, InStep, CleanStaging, request, budget
<1>9. \A x \in Ops : InDoubt(x)' BY DEF InDoubt, CleanStaging, disk, request, budget
<1>10. \A x \in Ops : Seen(x)' BY DEF Seen, NoReplace, CleanStaging, disk, request, budget
<1>11. \A x \in Ops : Recoverable(x)' BY DEF Recoverable, CleanStaging, disk, request, budget
<1>12. ReceiptsTruthful' BY DEF ReceiptsTruthful, CleanStaging, request, budget
<1>13. NoLostUpdate' BY DEF NoLostUpdate, CleanStaging, request, budget
<1>14. EvidenceKept' BY DEF EvidenceKept, IsUpload, FileTypes, InStep, CleanStaging, disk, request, budget
<1> QED BY <1>1, <1>2, <1>3, <1>4, <1>5, <1>6, <1>7, <1>8, <1>9, <1>10, <1>11, <1>12, <1>13, <1>14

LEMMA OtherProgramKeeps == FilesInv /\ OtherProgram => FilesInv'
<1> SUFFICES ASSUME FilesInv, OtherProgram PROVE FilesInv' OBVIOUS
<1> USE FilesAssumption DEF None, Uploads, FilesInv
<1>1. FileTypes' BY DEF FileTypes, Things, Objects, Own, OtherProgram, record, request, budget
<1>2. Modes' BY DEF Modes, Settled, OtherProgram, record, request, budget
<1>3. OnePlace' BY DEF OnePlace, FileTypes, Things, Objects, Own, OtherProgram
<1>4. \A x \in Ops : WellFormed(x)' BY DEF WellFormed, OtherProgram, record, budget
<1>5. \A x \in Ops : InStep(x)' BY DEF InStep, IsUpload, OtherProgram, record, request, budget
<1>6. \A x \in Ops : Untouched(x)' BY DEF Untouched, OtherProgram, record, request, budget
<1>7. \A x \in Ops : NotYetThere(x)' BY DEF NotYetThere, FileTypes, OtherProgram, request, budget
<1>8. \A x \in Ops : Evidence(x)' BY DEF Evidence, IsUpload, OtherProgram, record, request, budget
<1>9. \A x \in Ops : InDoubt(x)'
  BY DEF InDoubt, FileTypes, Things, Objects, Own, WellFormed, OtherProgram, record, request, budget
<1>10. \A x \in Ops : Seen(x)'
  BY DEF Seen, NoReplace, FileTypes, Things, Objects, Own, Intended, OtherProgram, record, request, budget
<1>11. \A x \in Ops : Recoverable(x)' BY DEF Recoverable, OtherProgram, record, request, budget
<1>12. ReceiptsTruthful' BY DEF ReceiptsTruthful, OtherProgram, record, request, budget
<1>13. NoLostUpdate' BY DEF NoLostUpdate, OtherProgram, record, request, budget
<1>14. EvidenceKept' BY DEF EvidenceKept, IsUpload, OtherProgram, record, request, budget
<1> QED BY <1>1, <1>2, <1>3, <1>4, <1>5, <1>6, <1>7, <1>8, <1>9, <1>10, <1>11, <1>12, <1>13, <1>14

LEMMA StageKeeps == \A o \in Ops : FilesInv /\ Stage(o) => FilesInv'
<1> SUFFICES ASSUME NEW o \in Ops, FilesInv, Stage(o) PROVE FilesInv' OBVIOUS
<1> USE FilesAssumption DEF None, Uploads, FilesInv
<1>1. FileTypes'
  BY DEF FileTypes, Things, Objects, Own, States, Places, Stage, Up, Save, Step, Fail, FailedAs, Unstage, disk, budget
<1>2. Modes' BY DEF Modes, Early, Settled, FileTypes, Stage, At, Up, Save, Step, Fail, FailedAs, Unstage
<1>3. OnePlace' BY DEF OnePlace, Stage, disk, budget
<1>4. \A x \in Ops : WellFormed(x)'
  BY DEF WellFormed, FileTypes, InStep, Stage, At, Up, Save, Fail, FailedAs, Unstage, disk, budget
<1>5. \A x \in Ops : InStep(x)' BY DEF InStep, IsUpload, FileTypes, Stage, At, Up, Save, Step, Fail, FailedAs, Unstage
<1>6. \A x \in Ops : Untouched(x)'
  BY DEF Untouched, Early, FileTypes, InStep, Stage, At, Up, Save, Step, Fail, FailedAs, Unstage, disk, budget
<1>7. \A x \in Ops : NotYetThere(x)' BY DEF NotYetThere, Stage, disk, budget
<1>8. \A x \in Ops : Evidence(x)'
  BY DEF Evidence, IsUpload, FileTypes, InStep, Untouched, Early, Stage, At, Up, Save, Step, Fail, FailedAs, Unstage
<1>9. \A x \in Ops : InDoubt(x)'
 <2> SUFFICES ASSUME NEW x \in Ops PROVE InDoubt(x)' OBVIOUS
 <2>1. st[o] = "streaming" BY DEF Stage, At, InStep
 <2>2. intent[x].kind = "restore" => cand'[intent[x].of] = cand[intent[x].of]
  <3>1. \A y \in Ops : recov[y] # None => y # o BY <2>1 DEF Recoverable
  <3>2. \A y \in Ops : y # o => cand'[y] = cand[y] BY DEF Stage, FileTypes
  <3> QED BY <3>1, <3>2 DEF WellFormed
 <2>3. st'[x] = "publishing" => x # o /\ st[x] = "publishing" /\ cand'[x] = cand[x]
   BY <2>1 DEF Stage, Save, Fail, FailedAs, FileTypes
 <2> QED BY <2>2, <2>3 DEF InDoubt, Stage, disk
<1>10. \A x \in Ops : Seen(x)'
  BY DEF Seen, FileTypes, InStep, IsUpload, Stage, Up, Save, Step, Fail, FailedAs, Unstage
<1>11. \A x \in Ops : Recoverable(x)'
  BY DEF Recoverable, FileTypes, InStep, Stage, At, Up, Save, Fail, FailedAs, Unstage, disk, budget
<1>12. ReceiptsTruthful' BY DEF ReceiptsTruthful, FileTypes, Stage, Up, Save, Fail, FailedAs, Unstage
<1>13. NoLostUpdate' BY DEF NoLostUpdate, Stage
<1>14. EvidenceKept'
  BY DEF EvidenceKept, IsUpload, FileTypes, InStep, Recoverable, Stage, At, Up, Save, Fail, FailedAs, Unstage, disk,
     budget
<1> QED BY <1>1, <1>2, <1>3, <1>4, <1>5, <1>6, <1>7, <1>8, <1>9, <1>10, <1>11, <1>12, <1>13, <1>14

LEMMA BeginPublishKeeps == \A o \in Ops : FilesInv /\ BeginPublish(o) => FilesInv'
<1> SUFFICES ASSUME NEW o \in Ops, FilesInv, BeginPublish(o) PROVE FilesInv' OBVIOUS
<1> USE FilesAssumption DEF None, Uploads, FilesInv
<1>1. FileTypes'
 <2>1. Recheck(o) => Candidate(o) \in Things
   BY DEF Candidate, FileTypes, WellFormed, Intended, Kinds, Creates, Things, Objects, Own, InStep, At, BeginPublish
 <2> QED BY <2>1 DEF BeginPublish, FileTypes, States, Places, Up, Save, Step, Fail, FailedAs, Unstage, disk
<1>2. Modes' BY DEF Modes, Early, Settled, FileTypes, BeginPublish, At, Up, Save, Step, Fail, FailedAs, Unstage
<1>3. OnePlace' BY DEF OnePlace, BeginPublish, disk, budget
<1>4. \A x \in Ops : WellFormed(x)'
  BY DEF WellFormed, FileTypes, Things, Objects, Own, States, Places, InStep, IsUpload, BeginPublish, At, Up, Save,
     Step, Fail, FailedAs, Unstage, disk, record, request, budget
<1>5. \A x \in Ops : InStep(x)'
  BY DEF InStep, IsUpload, FileTypes, BeginPublish, Up, Save, Step, Fail, FailedAs, Unstage
<1>6. \A x \in Ops : Untouched(x)'
  BY DEF Untouched, Early, FileTypes, InStep, BeginPublish, At, Up, Save, Step, Fail, FailedAs, Unstage, disk, budget
<1>7. \A x \in Ops : NotYetThere(x)' BY DEF NotYetThere, BeginPublish, disk, budget
<1>8. \A x \in Ops : Evidence(x)'
  BY DEF Evidence, IsUpload, FileTypes, InStep, Recheck, MayPublish, UploadMay, MkdirMay, MoveMay, DeleteMay,
     RestoreMay, Observation, Candidate, WellFormed, BeginPublish, At, Up, Save, Step, Fail, FailedAs, Unstage
<1>9. \A x \in Ops : InDoubt(x)'
  BY DEF InDoubt, FileTypes, InStep, Untouched, Early, Recoverable, OnePlace, Recheck, MayPublish, UploadMay,
     MkdirMay, MoveMay, DeleteMay, RestoreMay, Observation, Candidate, WellFormed, BeginPublish, At, Up, Save, Fail,
     FailedAs, Unstage, disk, budget
<1>10. \A x \in Ops : Seen(x)'
  BY DEF Seen, NoReplace, FileTypes, Intended, Recheck, MayPublish, UploadMay, MkdirMay, MoveMay, DeleteMay,
     RestoreMay, Observation, Candidate, WellFormed, BeginPublish, Up, Step, Fail, FailedAs, Unstage, disk, budget
<1>11. \A x \in Ops : Recoverable(x)'
  BY DEF Recoverable, FileTypes, InStep, BeginPublish, At, Up, Save, Fail, FailedAs, Unstage, disk, budget
<1>12. ReceiptsTruthful' BY DEF ReceiptsTruthful, FileTypes, BeginPublish, Up, Save, Fail, FailedAs, Unstage
<1>13. NoLostUpdate' BY DEF NoLostUpdate, BeginPublish
<1>14. EvidenceKept'
  BY DEF EvidenceKept, IsUpload, FileTypes, InStep, Evidence, Recoverable, Candidate, BeginPublish, At, Up, Save,
     Fail, FailedAs, Unstage, disk, budget
<1> QED BY <1>1, <1>2, <1>3, <1>4, <1>5, <1>6, <1>7, <1>8, <1>9, <1>10, <1>11, <1>12, <1>13, <1>14

LEMMA ProveKeeps == \A o \in Ops : FilesInv /\ Prove(o) => FilesInv'
<1> SUFFICES ASSUME NEW o \in Ops, FilesInv, Prove(o) PROVE FilesInv' OBVIOUS
<1> USE FilesAssumption DEF None, Uploads, FilesInv
<1>1. FileTypes' BY DEF FileTypes, States, Places, Prove, Up, Save, Step, Fail, FailedAs, Unstage, disk, budget
<1>2. Modes' BY DEF Modes, Early, Settled, FileTypes, Prove, At, Up, Save, Step, Fail, FailedAs, Unstage
<1>3. OnePlace' BY DEF OnePlace, Prove, disk, budget
<1>4. \A x \in Ops : WellFormed(x)'
  BY DEF WellFormed, FileTypes, InStep, Prove, At, Up, Save, Fail, FailedAs, Unstage, disk, budget
<1>5. \A x \in Ops : InStep(x)' BY DEF InStep, IsUpload, FileTypes, Prove, At, Up, Save, Step, Fail, FailedAs, Unstage
<1>6. \A x \in Ops : Untouched(x)'
  BY DEF Untouched, Early, FileTypes, Prove, At, Up, Save, Step, Fail, FailedAs, Unstage, disk, budget
<1>7. \A x \in Ops : NotYetThere(x)' BY DEF NotYetThere, Prove, disk, budget
<1>8. \A x \in Ops : Evidence(x)'
 <2> SUFFICES ASSUME NEW x \in Ops PROVE Evidence(x)' OBVIOUS
 <2>1. CASE x # o
   BY <2>1 DEF Evidence, IsUpload, FileTypes, InStep, Proved, InDoubt, Intended, Kinds, Creates, Prove, At, Up, Save,
      Step, Fail, FailedAs, Unstage
 <2>2. CASE x = o /\ Proved(o)
   BY <2>2 DEF Evidence, IsUpload, FileTypes, Things, Objects, Own, InStep, Untouched, Proved, InDoubt, WellFormed,
      Intended, Kinds, Creates, Prove, At, Up, Fail, FailedAs, Unstage, disk, budget
 <2>3. CASE x = o /\ ~Proved(o)
   BY <2>3 DEF Evidence, IsUpload, FileTypes, InStep, Proved, InDoubt, Intended, Kinds, Creates, Prove, At, Up, Step,
      Fail, FailedAs, Unstage
 <2> QED BY <2>1, <2>2, <2>3
<1>9. \A x \in Ops : InDoubt(x)' BY DEF InDoubt, FileTypes, Prove, Up, Save, Fail, FailedAs, Unstage, disk, budget
<1>10. \A x \in Ops : Seen(x)' BY DEF Seen, FileTypes, InStep, Prove, At, Up, Step, Fail, FailedAs, Unstage
<1>11. \A x \in Ops : Recoverable(x)'
  BY DEF Recoverable, FileTypes, Prove, Up, Save, Fail, FailedAs, Unstage, disk, budget
<1>12. ReceiptsTruthful' BY DEF ReceiptsTruthful, FileTypes, Prove, Up, Save, Fail, FailedAs, Unstage
<1>13. NoLostUpdate' BY DEF NoLostUpdate, Prove
<1>14. EvidenceKept'
  BY DEF EvidenceKept, IsUpload, FileTypes, InStep, Prove, Up, Save, Fail, FailedAs, Unstage, disk, budget
<1> QED BY <1>1, <1>2, <1>3, <1>4, <1>5, <1>6, <1>7, <1>8, <1>9, <1>10, <1>11, <1>12, <1>13, <1>14

LEMMA CommitKeeps == \A o \in Ops : FilesInv /\ Commit(o) => FilesInv'
<1> SUFFICES ASSUME NEW o \in Ops, FilesInv, Commit(o) PROVE FilesInv' OBVIOUS
<1> USE FilesAssumption DEF None, Uploads, FilesInv
<1>1. FileTypes' BY DEF FileTypes, States, Places, Commit, Up, Save, Step, Receipt, Unstage
<1>2. Modes' BY DEF Modes, Early, Settled, FileTypes, Commit, At, Up, Save, Step, Receipt, Unstage
<1>3. OnePlace' BY DEF OnePlace, Commit
<1>4. \A x \in Ops : WellFormed(x)' BY DEF WellFormed, InStep, Commit, At, Up, Save, Receipt, Unstage
<1>5. \A x \in Ops : InStep(x)' BY DEF InStep, IsUpload, FileTypes, Commit, Up, Save, Step, Receipt, Unstage
<1>6. \A x \in Ops : Untouched(x)' BY DEF Untouched, Early, Commit, Up, Save, Step, Receipt, Unstage
<1>7. \A x \in Ops : NotYetThere(x)' BY DEF NotYetThere, Commit
<1>8. \A x \in Ops : Evidence(x)'
  BY DEF Evidence, IsUpload, FileTypes, InStep, Commit, Up, Save, Step, Receipt, Unstage
<1>9. \A x \in Ops : InDoubt(x)' BY DEF InDoubt, Commit, Up, Save, Receipt, Unstage
<1>10. \A x \in Ops : Seen(x)' BY DEF Seen, NoReplace, Commit, Up, Step, Receipt, Unstage
<1>11. \A x \in Ops : Recoverable(x)'
  BY DEF Recoverable, FileTypes, Evidence, Untouched, WellFormed, Commit, At, Up, Save, Receipt, Unstage
<1>12. ReceiptsTruthful' BY DEF ReceiptsTruthful, Evidence, Commit, At, Up, Save, Receipt, Unstage
<1>13. NoLostUpdate' BY DEF NoLostUpdate, Commit
<1>14. EvidenceKept'
  BY DEF EvidenceKept, IsUpload, FileTypes, InStep, Evidence, Commit, At, Up, Save, Receipt, Unstage
<1> QED BY <1>1, <1>2, <1>3, <1>4, <1>5, <1>6, <1>7, <1>8, <1>9, <1>10, <1>11, <1>12, <1>13, <1>14

LEMMA CommitFailsKeeps == \A o \in Ops : FilesInv /\ CommitFails(o) => FilesInv'
<1> SUFFICES ASSUME NEW o \in Ops, FilesInv, CommitFails(o) PROVE FilesInv' OBVIOUS
<1> USE FilesAssumption DEF None, Uploads, FilesInv
<1>r. \A x \in Ops : recov[x] # None => recov'[x] # None BY ReceiptFacts DEF CommitFails
<1>n. \A x \in Ops : st'[x] = None <=> st[x] = None BY DEF CommitFails, At, Save, Fail, FailedAs, InStep, FileTypes
<1>1. FileTypes'
  BY DEF FileTypes, States, Places, CommitFails, Up, Error, Save, Step, Receipt, Fail, FailedAs, Unstage
<1>2. Modes'
  BY DEF Modes, Early, Settled, FileTypes, CommitFails, At, Up, Error, Save, Step, Receipt, Fail, FailedAs, Unstage
<1>3. OnePlace' BY DEF OnePlace, CommitFails
<1>4. \A x \in Ops : WellFormed(x)'
 <2> SUFFICES ASSUME NEW x \in Ops PROVE WellFormed(x)' OBVIOUS
 <2>0. st[x] = "committed" => x # o BY DEF InStep, CommitFails, At
 <2>1. x \in Earlier => st'[x] = "committed"
  <3>1. x # o => st'[x] = st[x] BY DEF CommitFails, Save, Fail, FileTypes
  <3>2. x \in Earlier => st[x] = "committed" BY DEF WellFormed
  <3> QED BY <2>0, <3>1, <3>2
 <2>2. intent' = intent BY DEF CommitFails
 <2> QED BY <1>r, <1>n, <2>1, <2>2 DEF WellFormed
<1>5. \A x \in Ops : InStep(x)'
  BY DEF InStep, IsUpload, FileTypes, CommitFails, Up, Error, Save, Step, Receipt, Fail, FailedAs, Unstage
<1>6. \A x \in Ops : Untouched(x)'
  BY DEF Untouched, Early, FileTypes, CommitFails, Up, Error, Save, Step, Receipt, Fail, FailedAs, Unstage
<1>7. \A x \in Ops : NotYetThere(x)' BY DEF NotYetThere, CommitFails
<1>8. \A x \in Ops : Evidence(x)'
  BY DEF Evidence, IsUpload, FileTypes, InStep, CommitFails, At, Up, Error, Save, Step, Receipt, Fail, FailedAs,
     Unstage
<1>9. \A x \in Ops : InDoubt(x)'
  BY DEF InDoubt, FileTypes, CommitFails, Up, Error, Save, Receipt, Fail, FailedAs, Unstage
<1>10. \A x \in Ops : Seen(x)'
  BY DEF Seen, NoReplace, FileTypes, CommitFails, Up, Error, Save, Step, Receipt, Fail, FailedAs, Unstage
<1>11. \A x \in Ops : Recoverable(x)'
  BY DEF Recoverable, FileTypes, States, Evidence, Untouched, WellFormed, CommitFails, At, Up, Error, Save, Receipt,
     Fail, FailedAs, Unstage
<1>12. ReceiptsTruthful'
  BY DEF ReceiptsTruthful, FileTypes, Evidence, CommitFails, At, Up, Error, Save, Receipt, Fail, FailedAs, Unstage
<1>13. NoLostUpdate' BY DEF NoLostUpdate, CommitFails
<1>14. EvidenceKept'
  BY DEF EvidenceKept, IsUpload, FileTypes, InStep, Evidence, CommitFails, At, Up, Error, Save, Receipt, Fail,
     FailedAs, Unstage
<1> QED BY <1>1, <1>2, <1>3, <1>4, <1>5, <1>6, <1>7, <1>8, <1>9, <1>10, <1>11, <1>12, <1>13, <1>14

LEMMA SweepTrashKeeps == \A o \in Ops : FilesInv /\ SweepTrash(o) => FilesInv'
<1> SUFFICES ASSUME NEW o \in Ops, FilesInv, SweepTrash(o) PROVE FilesInv' OBVIOUS
<1> USE FilesAssumption DEF None, Uploads, FilesInv
<1>r. \A x \in Ops : recov[x] # None => recov'[x] # None BY DEF SweepTrash, FileTypes
<1>1. FileTypes' BY DEF FileTypes, Things, Objects, Own, SweepTrash, record, request, budget
<1>2. Modes' BY DEF Modes, Settled, SweepTrash, record, request, budget
<1>3. OnePlace' BY DEF OnePlace, FileTypes, Things, Objects, Own, SweepTrash
<1>4. \A x \in Ops : WellFormed(x)' BY <1>r DEF WellFormed, SweepTrash, record, budget
<1>5. \A x \in Ops : InStep(x)' BY DEF InStep, IsUpload, SweepTrash, record, request, budget
<1>6. \A x \in Ops : Untouched(x)' BY DEF Untouched, SweepTrash, record, request, budget
<1>7. \A x \in Ops : NotYetThere(x)' BY DEF NotYetThere, SweepTrash, request, budget
<1>8. \A x \in Ops : Evidence(x)' BY DEF Evidence, IsUpload, InStep, SweepTrash, record, request, budget
<1>9. \A x \in Ops : InDoubt(x)'
  BY DEF InDoubt, FileTypes, Places, InStep, IsUpload, Modes, Settled, SweepTrash, record, budget
<1>10. \A x \in Ops : Seen(x)' BY DEF Seen, NoReplace, SweepTrash, record, request, budget
<1>11. \A x \in Ops : Recoverable(x)' BY DEF Recoverable, FileTypes, SweepTrash, record, request, budget
<1>12. ReceiptsTruthful' BY DEF ReceiptsTruthful, SweepTrash, record, request, budget
<1>13. NoLostUpdate' BY DEF NoLostUpdate, SweepTrash, record, request, budget
<1>14. EvidenceKept' BY DEF EvidenceKept, IsUpload, FileTypes, InStep, SweepTrash, record, request, budget
<1> QED BY <1>1, <1>2, <1>3, <1>4, <1>5, <1>6, <1>7, <1>8, <1>9, <1>10, <1>11, <1>12, <1>13, <1>14

LEMMA RecoverOpKeeps == \A o \in Ops : FilesInv /\ RecoverOp(o) => FilesInv'
<1> SUFFICES ASSUME NEW o \in Ops, FilesInv, RecoverOp(o) PROVE FilesInv' OBVIOUS
<1> USE FilesAssumption DEF None, Uploads, FilesInv
<1>s. PICK s \in States :
      /\ st' = [st EXCEPT ![o] = s] /\ s \notin {None, "publishing"} \cup Early
      /\ recov' = recov \/ (s = "committed" /\ Receipt(o))
      /\ mode = "recovering" /\ o \in todo /\ todo' = todo \ {o}
      /\ UNCHANGED <<ns, trash, late, intent, cand, stg, pc, lock, did, over, mode>>
  BY DEF RecoverOp, Save, States, Early, FileTypes, request
<1>e. /\ s \in {"failed", "aborted"} => did[o] = None
      /\ s = "committed" => did[o] = cand[o] \/ intent[o].kind = "mkdir" \/ (intent[o].kind = "move" /\ cand[o] \in Foreign)
      /\ s = "committed" /\ intent[o].kind = "delete" => trash[o] = cand[o] /\ cand[o] # None
      /\ IsUpload(o) => s \in {"committed", "indeterminate", "aborted"}
      /\ s = "indeterminate" => st[o] \in {"publishing", "indeterminate"}
      /\ st[o] = "indeterminate" /\ ~IsUpload(o) => s = "indeterminate"
  BY <1>s DEF RecoverOp, Save, Intended, Kinds, Creates, Proved, ProvedAfterwards, ExcludedAfterwards, IsUpload,
     FileTypes, Things, Objects, Own, States, WellFormed, Untouched, NotYetThere, Evidence, InDoubt, Modes, Settled,
     Early
<1>r. /\ recov' \in [Ops -> {None, "available", "restored", "expired"}]
      /\ \A x \in Ops : recov[x] # None => recov'[x] # None
      /\ \A x \in Ops : recov'[x] # recov[x] => s = "committed" /\
           ((x = o /\ intent[o].kind = "delete") \/ (x = intent[o].of /\ recov'[x] = "restored"))
  BY <1>s, ReceiptFacts DEF FileTypes
<1>1. FileTypes' BY <1>s, <1>e, <1>r DEF FileTypes
<1>2. Modes' BY <1>s, <1>e, <1>r DEF Modes, Settled, FileTypes
<1>3. OnePlace' BY <1>s, <1>e, <1>r DEF OnePlace
<1>4. \A x \in Ops : WellFormed(x)' BY <1>s, <1>e, <1>r DEF WellFormed, Modes, Settled, Intended, Kinds, Creates
<1>5. \A x \in Ops : InStep(x)' BY <1>s, <1>e, <1>r DEF InStep, IsUpload, Modes, Early, Settled
<1>6. \A x \in Ops : Untouched(x)' BY <1>s, <1>e, <1>r DEF Untouched
<1>7. \A x \in Ops : NotYetThere(x)' BY <1>s, <1>e, <1>r DEF NotYetThere
<1>8. \A x \in Ops : Evidence(x)' BY <1>s, <1>e, <1>r DEF Evidence, IsUpload
<1>9. \A x \in Ops : InDoubt(x)' BY <1>s, <1>e, <1>r DEF InDoubt
<1>10. \A x \in Ops : Seen(x)' BY <1>s, <1>e, <1>r DEF Seen, NoReplace
<1>11. \A x \in Ops : Recoverable(x)'
  BY <1>s, <1>e, <1>r DEF Recoverable, FileTypes, States, Untouched, Early, WellFormed
<1>12. ReceiptsTruthful' BY <1>s, <1>e, <1>r DEF ReceiptsTruthful
<1>13. NoLostUpdate' BY <1>s, <1>e, <1>r DEF NoLostUpdate
<1>14. EvidenceKept' BY <1>s, <1>e, <1>r DEF EvidenceKept, IsUpload, Recoverable
<1> QED BY <1>1, <1>2, <1>3, <1>4, <1>5, <1>6, <1>7, <1>8, <1>9, <1>10, <1>11, <1>12, <1>13, <1>14

LEMMA RenameDoneKeeps == \A o \in Ops : FilesInv /\ RenameDone(o) => FilesInv'
<1> SUFFICES ASSUME NEW o \in Ops, FilesInv, RenameDone(o) PROVE FilesInv' OBVIOUS
<1> USE FilesAssumption DEF None, Uploads, FilesInv
<1>m. Renames(o) BY DEF RenameDone, Renames
<1>s. /\ st[o] = "publishing" /\ lock = o /\ mode = "ready" /\ did[o] = None /\ o \notin Earlier
      /\ trash[o] = None /\ pc[o] = "rename" /\ intent[o].kind \in Kinds
      /\ \A x \in Ops : x # o => pc[x] \notin {"rename", "prove"} /\ (st[x] = "publishing" => IsUpload(x))
  BY <1>m, AtRename DEF Renames, At
<1>t. /\ Source(o) \in Objects /\ did' = [did EXCEPT ![o] = Source(o)]
      /\ ns' \in [Paths -> Things] /\ trash' \in [Ops -> Things] /\ did' \in [Ops -> Things]
      /\ over' = [over EXCEPT ![o] = IF Occupied(o) THEN ns[intent[o].to] ELSE None] /\ over' \in [Ops -> Things]
      /\ stg' = [stg EXCEPT ![o] = None] /\ stg' \in [Ops -> {None, "ws", "trash"}] BY <1>m, RenameTypes
<1>u. /\ UNCHANGED <<intent, cand, recov, late, mode, todo>>
      /\ pc' = [pc EXCEPT ![o] = "prove"] /\ UNCHANGED <<st, lock>> BY DEF RenameDone, Step
<1>p. CreateMoves(o) \/ MoveMoves(o) \/ DeleteMoves(o) \/ RestoreMoves(o) BY <1>m, RenameMoves
<1>1. FileTypes' BY <1>m, <1>s, <1>t, <1>u, <1>p DEF FileTypes, Places
<1>2. Modes' BY <1>m, <1>s, <1>t, <1>u, <1>p DEF Modes, Settled
<1>3. OnePlace' BY <1>m, RenameKeepsPlaces
<1>4. \A x \in Ops : WellFormed(x)' BY <1>m, <1>s, <1>t, <1>u, <1>p DEF WellFormed
<1>5. \A x \in Ops : InStep(x)' BY <1>m, <1>s, <1>t, <1>u, <1>p DEF InStep, IsUpload
<1>6. \A x \in Ops : Untouched(x)'
 <2> SUFFICES ASSUME NEW x \in Ops PROVE Untouched(x)' OBVIOUS
 <2>1. trash'[x] \in {None, did'[x]}
   BY <1>s, <1>t, <1>p DEF Untouched, CreateMoves, MoveMoves, DeleteMoves, RestoreMoves
 <2>2. did'[o] # None /\ \A y \in Ops : y # o => did'[y] = did[y] /\ over'[y] = over[y] BY <1>m, <1>t DEF Renames
 <2> QED BY <1>s, <1>u, <2>1, <2>2 DEF Untouched, Early, FileTypes
<1>7. \A x \in Ops : NotYetThere(x)' BY <1>m, RenameKeepsPlaces
<1>8. \A x \in Ops : Evidence(x)'
 <2> SUFFICES ASSUME NEW x \in Ops PROVE Evidence(x)' OBVIOUS
 <2>1. did'[o] # None /\ (IsUpload(o) => did'[o] = o)
   BY <1>m, <1>t, <1>p DEF Renames, CreateMoves, MoveMoves, DeleteMoves, RestoreMoves, IsUpload
 <2>2. CASE x = o BY <1>s, <1>u, <2>1, <2>2 DEF Evidence, IsUpload
 <2>3. CASE x # o
  <3>1. st'[x] = st[x] /\ pc'[x] = pc[x] /\ did'[x] = did[x] /\ stg'[x] = stg[x] BY <1>t, <1>u, <2>3
  <3>2. pc[x] = "commit" => IsUpload(x) BY <1>s, <2>3 DEF InStep
  <3> QED BY <1>u, <3>1, <3>2 DEF Evidence, IsUpload
 <2> QED BY <2>2, <2>3
<1>9. \A x \in Ops : InDoubt(x)'
 <2> SUFFICES ASSUME NEW x \in Ops PROVE InDoubt(x)' OBVIOUS
 <2>1. CASE x # o BY <1>s, <1>u, <2>1 DEF InDoubt, IsUpload
 <2>2. CASE x = o
  <3>1. did'[o] = Source(o) /\ Source(o) # None BY <1>m, <1>t DEF Renames
  <3>2. CASE MoveMoves(o)
   <4>1. ns'[intent[o].to] = Source(o) BY <3>2 DEF MoveMoves
   <4> QED BY <1>s, <1>u, <2>2, <3>1, <3>2, <4>1 DEF InDoubt, MoveMoves
  <3>3. CASE RestoreMoves(o) BY <1>s, <1>u, <2>2, <3>1, <3>3 DEF InDoubt, RestoreMoves
  <3>4. CASE CreateMoves(o) \/ DeleteMoves(o) BY <1>u, <2>2, <3>4 DEF InDoubt, CreateMoves, DeleteMoves, Creates
  <3> QED BY <1>p, <3>2, <3>3, <3>4
 <2> QED BY <2>1, <2>2
<1>10. \A x \in Ops : Seen(x)' BY <1>m, <1>s, <1>t, <1>u, <1>p DEF Seen, FileTypes
<1>11. \A x \in Ops : Recoverable(x)' BY <1>m, <1>s, <1>t, <1>u, <1>p DEF Recoverable
<1>12. ReceiptsTruthful' BY <1>m, <1>s, <1>t, <1>u, <1>p DEF ReceiptsTruthful
<1>13. NoLostUpdate' BY <1>m, <1>s, <1>t, <1>u DEF NoLostUpdate, Renames, Occupied, Seen, FileTypes, Own
<1>14. EvidenceKept'
 <2>1. ASSUME NEW x \in Ops, IsUpload(x)', st'[x] \in {"publishing", "indeterminate"}, did'[x] = None
       PROVE  stg'[x] = "ws"
  <3>1. x # o BY <1>m, <1>t, <2>1 DEF Renames
  <3> QED BY <1>t, <1>u, <2>1, <3>1 DEF EvidenceKept, IsUpload
 <2>2. ASSUME NEW x \in Ops, recov[x] = "available", x \notin late
       PROVE  trash'[x] = cand[x] \/ \E r \in Ops : intent[r].of = x /\ did'[r] = cand[x]
  <3>1. x # o /\ cand[x] # None BY <1>s, <2>2 DEF Recoverable
  <3>2. CASE trash[x] # cand[x]
   <4>1. PICK r \in Ops : intent[r].of = x /\ did[r] = cand[x] BY <2>2, <3>2 DEF EvidenceKept
   <4> QED BY <1>s, <1>t, <3>1, <4>1
  <3>3. CASE trash[x] = cand[x]
   <4>1. trash'[x] = trash[x] \/ (RestoreMoves(o) /\ x = intent[o].of)
     BY <1>p, <3>1 DEF CreateMoves, MoveMoves, DeleteMoves, RestoreMoves
   <4>2. RestoreMoves(o) /\ x = intent[o].of => did'[o] = cand[x] BY <1>t, <3>3 DEF RestoreMoves
   <4> QED BY <3>3, <4>1, <4>2
  <3> QED BY <3>2, <3>3
 <2> QED BY <1>u, <2>1, <2>2 DEF EvidenceKept
<1> QED BY <1>1, <1>2, <1>3, <1>4, <1>5, <1>6, <1>7, <1>8, <1>9, <1>10, <1>11, <1>12, <1>13, <1>14

LEMMA RenameInDoubtKeeps == \A o \in Ops : FilesInv /\ RenameInDoubt(o) => FilesInv'
<1> SUFFICES ASSUME NEW o \in Ops, FilesInv, RenameInDoubt(o) PROVE FilesInv' OBVIOUS
<1> USE FilesAssumption DEF None, Uploads, FilesInv
<1>m. Renames(o) BY DEF RenameInDoubt, Renames
<1>s. /\ st[o] = "publishing" /\ lock = o /\ mode = "ready" /\ did[o] = None /\ o \notin Earlier
      /\ trash[o] = None /\ pc[o] = "rename" /\ intent[o].kind \in Kinds
      /\ \A x \in Ops : x # o => pc[x] \notin {"rename", "prove"} /\ (st[x] = "publishing" => IsUpload(x))
  BY <1>m, AtRename DEF Renames, At
<1>t. /\ Source(o) \in Objects /\ did' = [did EXCEPT ![o] = Source(o)]
      /\ ns' \in [Paths -> Things] /\ trash' \in [Ops -> Things] /\ did' \in [Ops -> Things]
      /\ over' = [over EXCEPT ![o] = IF Occupied(o) THEN ns[intent[o].to] ELSE None] /\ over' \in [Ops -> Things]
      /\ stg' = [stg EXCEPT ![o] = None] /\ stg' \in [Ops -> {None, "ws", "trash"}] BY <1>m, RenameTypes
<1>u. /\ UNCHANGED <<intent, cand, recov, late, mode, todo>>
      /\ pc' = [pc EXCEPT ![o] = None] /\ st' = [st EXCEPT ![o] = "indeterminate"] /\ lock' = None
  BY DEF RenameInDoubt, Step, Save
<1>p. CreateMoves(o) \/ MoveMoves(o) \/ DeleteMoves(o) \/ RestoreMoves(o) BY <1>m, RenameMoves
<1>1. FileTypes' BY <1>m, <1>s, <1>t, <1>u, <1>p DEF FileTypes, States, Places
<1>2. Modes' BY <1>m, <1>s, <1>t, <1>u, <1>p DEF Modes, Early, Settled, FileTypes
<1>3. OnePlace' BY <1>m, RenameKeepsPlaces
<1>4. \A x \in Ops : WellFormed(x)' BY <1>m, <1>s, <1>t, <1>u, <1>p DEF WellFormed
<1>5. \A x \in Ops : InStep(x)' BY <1>m, <1>s, <1>t, <1>u, <1>p DEF InStep, IsUpload, FileTypes
<1>6. \A x \in Ops : Untouched(x)'
 <2> SUFFICES ASSUME NEW x \in Ops PROVE Untouched(x)' OBVIOUS
 <2>1. trash'[x] \in {None, did'[x]}
   BY <1>s, <1>t, <1>p DEF Untouched, CreateMoves, MoveMoves, DeleteMoves, RestoreMoves
 <2>2. did'[o] # None /\ \A y \in Ops : y # o => did'[y] = did[y] /\ over'[y] = over[y] BY <1>m, <1>t DEF Renames
 <2> QED BY <1>s, <1>u, <2>1, <2>2 DEF Untouched, Early, FileTypes
<1>7. \A x \in Ops : NotYetThere(x)' BY <1>m, RenameKeepsPlaces
<1>8. \A x \in Ops : Evidence(x)'
 <2> SUFFICES ASSUME NEW x \in Ops PROVE Evidence(x)' OBVIOUS
 <2>1. did'[o] # None /\ (IsUpload(o) => did'[o] = o)
   BY <1>m, <1>t, <1>p DEF Renames, CreateMoves, MoveMoves, DeleteMoves, RestoreMoves, IsUpload
 <2>2. CASE x = o BY <1>s, <1>u, <2>1, <2>2 DEF Evidence, IsUpload
 <2>3. CASE x # o
  <3>1. st'[x] = st[x] /\ pc'[x] = pc[x] /\ did'[x] = did[x] /\ stg'[x] = stg[x] BY <1>t, <1>u, <2>3
  <3>2. pc[x] = "commit" => IsUpload(x) BY <1>s, <2>3 DEF InStep
  <3> QED BY <1>u, <3>1, <3>2 DEF Evidence, IsUpload
 <2> QED BY <2>2, <2>3
<1>9. \A x \in Ops : InDoubt(x)' BY <1>m, <1>s, <1>t, <1>u, <1>p DEF InDoubt, FileTypes, InStep, IsUpload
<1>10. \A x \in Ops : Seen(x)' BY <1>m, <1>s, <1>t, <1>u, <1>p DEF Seen, FileTypes
<1>11. \A x \in Ops : Recoverable(x)' BY <1>m, <1>s, <1>t, <1>u, <1>p DEF Recoverable
<1>12. ReceiptsTruthful' BY <1>m, <1>s, <1>t, <1>u, <1>p DEF ReceiptsTruthful
<1>13. NoLostUpdate' BY <1>m, <1>s, <1>t, <1>u DEF NoLostUpdate, Renames, Occupied, Seen, FileTypes, Own
<1>14. EvidenceKept'
 <2>1. ASSUME NEW x \in Ops, IsUpload(x)', st'[x] \in {"publishing", "indeterminate"}, did'[x] = None
       PROVE  stg'[x] = "ws"
  <3>1. x # o BY <1>m, <1>t, <2>1 DEF Renames
  <3> QED BY <1>t, <1>u, <2>1, <3>1 DEF EvidenceKept, IsUpload
 <2>2. ASSUME NEW x \in Ops, recov[x] = "available", x \notin late
       PROVE  trash'[x] = cand[x] \/ \E r \in Ops : intent[r].of = x /\ did'[r] = cand[x]
  <3>1. x # o /\ cand[x] # None BY <1>s, <2>2 DEF Recoverable
  <3>2. CASE trash[x] # cand[x]
   <4>1. PICK r \in Ops : intent[r].of = x /\ did[r] = cand[x] BY <2>2, <3>2 DEF EvidenceKept
   <4> QED BY <1>s, <1>t, <3>1, <4>1
  <3>3. CASE trash[x] = cand[x]
   <4>1. trash'[x] = trash[x] \/ (RestoreMoves(o) /\ x = intent[o].of)
     BY <1>p, <3>1 DEF CreateMoves, MoveMoves, DeleteMoves, RestoreMoves
   <4>2. RestoreMoves(o) /\ x = intent[o].of => did'[o] = cand[x] BY <1>t, <3>3 DEF RestoreMoves
   <4> QED BY <3>3, <4>1, <4>2
  <3> QED BY <3>2, <3>3
 <2> QED BY <1>u, <2>1, <2>2 DEF EvidenceKept
<1> QED BY <1>1, <1>2, <1>3, <1>4, <1>5, <1>6, <1>7, <1>8, <1>9, <1>10, <1>11, <1>12, <1>13, <1>14

LEMMA FolderThereKeeps == \A o \in Ops : FilesInv /\ FolderThere(o) => FilesInv'
<1> SUFFICES ASSUME NEW o \in Ops, FilesInv, FolderThere(o) PROVE FilesInv' OBVIOUS
<1> USE FilesAssumption DEF None, Uploads, FilesInv
<1>1. FileTypes' BY DEF FileTypes, Places, Intended, FolderThere, Up, Step, Occupied
<1>2. Modes' BY DEF Modes, Settled, FolderThere, At, Up, Step, Occupied
<1>3. OnePlace' BY DEF OnePlace, FolderThere
<1>4. \A x \in Ops : WellFormed(x)' BY DEF WellFormed, FolderThere
<1>5. \A x \in Ops : InStep(x)' BY DEF InStep, IsUpload, FolderThere, At, Up, Step, Occupied
<1>6. \A x \in Ops : Untouched(x)' BY DEF Untouched, FolderThere, Up, Step, Occupied
<1>7. \A x \in Ops : NotYetThere(x)' BY DEF NotYetThere, FolderThere
<1>8. \A x \in Ops : Evidence(x)' BY DEF Evidence, IsUpload, InStep, FolderThere, Up, Step, Occupied
<1>9. \A x \in Ops : InDoubt(x)'
 <2> SUFFICES ASSUME NEW x \in Ops PROVE InDoubt(x)' OBVIOUS
 <2>1. st[o] = "publishing" /\ intent[o].kind = "mkdir" BY DEF FolderThere, At, InStep
 <2>2. intent[x].kind = "restore" => cand'[intent[x].of] = cand[intent[x].of]
  <3>1. \A y \in Ops : recov[y] # None => y # o BY <2>1 DEF Recoverable
  <3>2. \A y \in Ops : y # o => cand'[y] = cand[y] BY DEF FolderThere
  <3> QED BY <3>1, <3>2 DEF WellFormed
 <2>3. x # o => cand'[x] = cand[x] BY DEF FolderThere
 <2> QED BY <2>1, <2>2, <2>3 DEF InDoubt, FolderThere
<1>10. \A x \in Ops : Seen(x)' BY DEF Seen, NoReplace, FolderThere, Up, Step, Occupied
<1>11. \A x \in Ops : Recoverable(x)' BY DEF Recoverable, FolderThere, Occupied
<1>12. ReceiptsTruthful' BY DEF ReceiptsTruthful, FolderThere, Occupied
<1>13. NoLostUpdate' BY DEF NoLostUpdate, FolderThere
<1>14. EvidenceKept' BY DEF EvidenceKept, IsUpload, InStep, Recoverable, FolderThere, Occupied
<1> QED BY <1>1, <1>2, <1>3, <1>4, <1>5, <1>6, <1>7, <1>8, <1>9, <1>10, <1>11, <1>12, <1>13, <1>14

LEMMA RenameRefusedKeeps == \A o \in Ops : FilesInv /\ RenameRefused(o) => FilesInv'
<1> SUFFICES ASSUME NEW o \in Ops, FilesInv, RenameRefused(o) PROVE FilesInv' OBVIOUS
<1> USE FilesAssumption DEF None, Uploads, FilesInv
<1>1. FileTypes' BY DEF FileTypes, States, Places, RenameRefused, Up, Save, Step, Fail, FailedAs, Unstage
<1>2. Modes' BY DEF Modes, Early, Settled, FileTypes, RenameRefused, At, Up, Save, Step, Fail, FailedAs, Unstage
<1>3. OnePlace' BY DEF OnePlace, RenameRefused
<1>4. \A x \in Ops : WellFormed(x)' BY DEF WellFormed, InStep, RenameRefused, At, Up, Save, Fail, FailedAs, Unstage
<1>5. \A x \in Ops : InStep(x)'
  BY DEF InStep, IsUpload, FileTypes, RenameRefused, Up, Save, Step, Fail, FailedAs, Unstage
<1>6. \A x \in Ops : Untouched(x)' BY DEF Untouched, RenameRefused, At, Up, Save, Step, Fail, FailedAs, Unstage
<1>7. \A x \in Ops : NotYetThere(x)' BY DEF NotYetThere, RenameRefused
<1>8. \A x \in Ops : Evidence(x)'
  BY DEF Evidence, IsUpload, FileTypes, InStep, RenameRefused, At, Up, Save, Step, Fail, FailedAs, Unstage
<1>9. \A x \in Ops : InDoubt(x)' BY DEF InDoubt, RenameRefused, Up, Save, Fail, FailedAs, Unstage
<1>10. \A x \in Ops : Seen(x)' BY DEF Seen, NoReplace, RenameRefused, Up, Step, Fail, FailedAs, Unstage
<1>11. \A x \in Ops : Recoverable(x)' BY DEF Recoverable, RenameRefused, Up, Save, Fail, FailedAs, Unstage
<1>12. ReceiptsTruthful' BY DEF ReceiptsTruthful, RenameRefused, Up, Save, Fail, FailedAs, Unstage
<1>13. NoLostUpdate' BY DEF NoLostUpdate, RenameRefused
<1>14. EvidenceKept'
  BY DEF EvidenceKept, IsUpload, FileTypes, InStep, RenameRefused, Up, Save, Fail, FailedAs, Unstage
<1> QED BY <1>1, <1>2, <1>3, <1>4, <1>5, <1>6, <1>7, <1>8, <1>9, <1>10, <1>11, <1>12, <1>13, <1>14

LEMMA RenameUnknownKeeps == \A o \in Ops : FilesInv /\ RenameUnknown(o) => FilesInv'
<1> SUFFICES ASSUME NEW o \in Ops, FilesInv, RenameUnknown(o) PROVE FilesInv' OBVIOUS
<1> USE FilesAssumption DEF None, Uploads, FilesInv
<1>1. FileTypes' BY DEF FileTypes, States, Places, RenameUnknown, Up, Save, Step, Fail, FailedAs, Unstage
<1>2. Modes' BY DEF Modes, Early, Settled, FileTypes, RenameUnknown, Up, Save, Step, Fail, FailedAs, Unstage
<1>3. OnePlace' BY DEF OnePlace, RenameUnknown
<1>4. \A x \in Ops : WellFormed(x)' BY DEF WellFormed, InStep, RenameUnknown, Up, Save, Fail, FailedAs, Unstage
<1>5. \A x \in Ops : InStep(x)'
  BY DEF InStep, IsUpload, FileTypes, RenameUnknown, Up, Save, Step, Fail, FailedAs, Unstage
<1>6. \A x \in Ops : Untouched(x)' BY DEF Untouched, Early, RenameUnknown, Up, Save, Step, Fail, FailedAs, Unstage
<1>7. \A x \in Ops : NotYetThere(x)' BY DEF NotYetThere, RenameUnknown
<1>8. \A x \in Ops : Evidence(x)'
  BY DEF Evidence, IsUpload, InStep, RenameUnknown, Up, Save, Step, Fail, FailedAs, Unstage
<1>9. \A x \in Ops : InDoubt(x)' BY DEF InDoubt, RenameUnknown, Up, Save, Fail, FailedAs, Unstage
<1>10. \A x \in Ops : Seen(x)' BY DEF Seen, NoReplace, RenameUnknown, Up, Step, Fail, FailedAs, Unstage
<1>11. \A x \in Ops : Recoverable(x)' BY DEF Recoverable, RenameUnknown, Up, Save, Fail, FailedAs, Unstage
<1>12. ReceiptsTruthful' BY DEF ReceiptsTruthful, RenameUnknown, Up, Save, Fail, FailedAs, Unstage
<1>13. NoLostUpdate' BY DEF NoLostUpdate, RenameUnknown
<1>14. EvidenceKept' BY DEF EvidenceKept, IsUpload, InStep, RenameUnknown, Up, Save, Fail, FailedAs, Unstage
<1> QED BY <1>1, <1>2, <1>3, <1>4, <1>5, <1>6, <1>7, <1>8, <1>9, <1>10, <1>11, <1>12, <1>13, <1>14

LEMMA AcceptKeeps == \A o \in Ops : FilesInv /\ Accept(o) => FilesInv'
<1> SUFFICES ASSUME NEW o \in Ops, FilesInv, Accept(o) PROVE FilesInv' OBVIOUS
<1> USE FilesAssumption DEF None, Uploads, FilesInv
<1>s. /\ mode = "ready" /\ lock = None /\ st[o] = None /\ st' = [st EXCEPT ![o] = "accepted"]
      /\ UNCHANGED <<ns, trash, recov, late, cand, stg, lock, did, over, mode, todo>> BY DEF Accept, Save, disk
<1>v. PICK v \in Intended :
      /\ intent' = [intent EXCEPT ![o] = v]
      /\ pc' = [pc EXCEPT ![o] = IF v.kind \in Uploads THEN "stream" ELSE "begin"]
      /\ v.kind \in Kinds /\ (v.kind # "restore" => v.of = None)
      /\ v.kind \in Creates \cup {"restore"} => v.to \in Paths /\ v.from = None
      /\ v.kind = "move" => v.from \in Paths /\ v.to \in Paths /\ v.from # v.to /\ v.base[1] # None
      /\ v.kind = "delete" => v.to = None /\ v.base[1] # None /\ v.from \in Paths
      /\ v.kind = "restore" => v.of \in Ops /\ v.of # o /\ recov[v.of] # None
 <2>1. PICK i \in Intents :
          /\ i.kind = "restore" => i.of # o /\ recov[i.of] # None
          /\ i.kind \in {"move", "delete"} => ns[i.from] # None
          /\ intent' = [intent EXCEPT ![o] =
               [kind |-> i.kind, from |-> i.from, to |-> i.to, of |-> i.of, replace |-> i.replace,
                base |-> IF i.kind \in {"move", "delete"} THEN Observation(i.from)
                         ELSE IF i.kind = "replace" THEN Observation(i.to) ELSE <<None, FALSE>>,
                dest |-> IF i.replace THEN Observation(i.to) ELSE <<None, FALSE>>]]
          /\ pc' = [pc EXCEPT ![o] = IF i.kind \in Uploads THEN "stream" ELSE "begin"] BY DEF Accept, Step
 <2> DEFINE b == IF i.kind \in {"move", "delete"} THEN Observation(i.from)
                 ELSE IF i.kind = "replace" THEN Observation(i.to) ELSE <<None, FALSE>>
            d == IF i.replace THEN Observation(i.to) ELSE <<None, FALSE>>
            v == [kind |-> i.kind, from |-> i.from, to |-> i.to, of |-> i.of, replace |-> i.replace,
                  base |-> b, dest |-> d]
 <2>2. /\ i.kind \in Kinds /\ i.from \in Paths \cup {None} /\ i.to \in Paths \cup {None}
       /\ i.of \in Ops \cup {None} /\ i.replace \in BOOLEAN
       /\ (i.kind # "restore" => i.of = None) /\ (i.kind = "restore" => i.of \in Ops)
       /\ i.kind \in Creates \cup {"restore"} => i.to \in Paths /\ i.from = None
       /\ i.kind = "move" => i.from \in Paths /\ i.to \in Paths /\ i.from # i.to
       /\ i.kind = "delete" => i.to = None /\ i.from \in Paths
       /\ i.replace => i.to \in Paths
       /\ i.kind \in {"move", "delete"} => i.from \in Paths BY DEF Intents, Kinds, Creates
 <2>3. \A p \in Paths : Observation(p) \in Observations /\ Observation(p)[1] = ns[p]
  <3> SUFFICES ASSUME NEW p \in Paths PROVE Observation(p) \in Observations /\ Observation(p)[1] = ns[p] OBVIOUS
  <3>1. ns[p] \in Things /\ (ns[p] \in touched) \in BOOLEAN BY DEF FileTypes
  <3> QED BY <3>1 DEF Observation, Observations
 <2>4. <<None, FALSE>> \in Observations BY DEF Observations, Things
 <2>5. b \in Observations /\ d \in Observations BY <2>2, <2>3, <2>4 DEF Creates
 <2>6. i.kind \in {"move", "delete"} => b[1] # None BY <2>1, <2>2, <2>3
 <2> HIDE DEF b, d
 <2>7. v \in Intended BY <2>2, <2>5 DEF Intended
 <2> QED BY <2>1, <2>2, <2>6, <2>7 DEF b, d
<1>o. /\ did[o] = None /\ recov[o] = None /\ pc[o] = None /\ o \notin Earlier /\ intent[o].kind = None
 <2>1. did[o] = None BY <1>s DEF Untouched
 <2>2. recov[o] = None BY <1>s DEF Recoverable
 <2>3. o \notin Earlier /\ intent[o].kind = None BY <1>s DEF WellFormed
 <2>4. pc[o] \in Places BY DEF FileTypes
 <2>5. pc[o] \notin {"stream", "stage", "begin"} /\ pc[o] \notin {"rename", "prove", "commit"} BY <1>s DEF InStep
 <2> QED BY <2>1, <2>2, <2>3, <2>4, <2>5 DEF Places
<1>1. FileTypes' BY <1>s, <1>v, <1>o DEF FileTypes, States, Places
<1>2. Modes' BY <1>s, <1>v, <1>o DEF Modes, Settled, FileTypes
<1>3. OnePlace' BY <1>s, <1>v, <1>o DEF OnePlace
<1>4. \A x \in Ops : WellFormed(x)' BY <1>s, <1>v, <1>o DEF WellFormed, FileTypes, Kinds
<1>5. \A x \in Ops : InStep(x)' BY <1>s, <1>v, <1>o DEF InStep, IsUpload, FileTypes, Things, Objects, Own
<1>6. \A x \in Ops : Untouched(x)'
 <2> SUFFICES ASSUME NEW x \in Ops PROVE Untouched(x)' OBVIOUS
 <2>1. CASE x = o BY <1>s, <1>v, <1>o, <2>1 DEF Untouched
 <2>2. CASE x # o BY <1>s, <1>v, <2>2 DEF Untouched
 <2> QED BY <2>1, <2>2
<1>7. \A x \in Ops : NotYetThere(x)' BY <1>s, <1>v, <1>o DEF NotYetThere
<1>8. \A x \in Ops : Evidence(x)' BY <1>s, <1>v, <1>o DEF Evidence, IsUpload, InStep
<1>9. \A x \in Ops : InDoubt(x)' BY <1>s, <1>v, <1>o DEF InDoubt
<1>10. \A x \in Ops : Seen(x)' BY <1>s, <1>v, <1>o DEF Seen, NoReplace, Kinds
<1>11. \A x \in Ops : Recoverable(x)' BY <1>s, <1>v, <1>o DEF Recoverable
<1>12. ReceiptsTruthful' BY <1>s, <1>v, <1>o DEF ReceiptsTruthful
<1>13. NoLostUpdate'
 <2>1. over[o] = None BY <1>o DEF Untouched
 <2> QED BY <1>s, <1>v, <2>1 DEF NoLostUpdate
<1>14. EvidenceKept'
 <2>1. ASSUME NEW x \in Ops, IsUpload(x)', st'[x] \in {"publishing", "indeterminate"}, did'[x] = None
       PROVE  stg'[x] = "ws" BY <1>s, <1>v, <2>1 DEF EvidenceKept, IsUpload
 <2>2. ASSUME NEW x \in Ops, recov[x] = "available", x \notin late, trash[x] # cand[x]
       PROVE  \E r \in Ops : intent'[r].of = x /\ did[r] = cand[x]
  <3>1. PICK r \in Ops : intent[r].of = x /\ did[r] = cand[x] BY <2>2 DEF EvidenceKept
  <3>2. r # o BY <1>o, <2>2, <3>1 DEF Recoverable
  <3> QED BY <1>v, <3>1, <3>2
 <2> QED BY <1>s, <2>1, <2>2 DEF EvidenceKept
<1> QED BY <1>1, <1>2, <1>3, <1>4, <1>5, <1>6, <1>7, <1>8, <1>9, <1>10, <1>11, <1>12, <1>13, <1>14


LEMMA RenameKeeps == \A o \in Ops : FilesInv /\ Rename(o) => FilesInv'
<1> SUFFICES ASSUME NEW o \in Ops, FilesInv, Rename(o) PROVE FilesInv' OBVIOUS
<1>1. RenameDone(o) \/ RenameRefused(o) \/ FolderThere(o)
  BY DEF Rename, RenameDone, RenameRefused, FolderThere, Effect
<1> QED BY <1>1, RenameDoneKeeps, RenameRefusedKeeps, FolderThereKeeps

LEMMA RenameFailsKeeps == \A o \in Ops : FilesInv /\ RenameFails(o) => FilesInv'
<1> SUFFICES ASSUME NEW o \in Ops, FilesInv, RenameFails(o) PROVE FilesInv' OBVIOUS
<1>1. CASE RenameUnknown(o) BY <1>1, RenameUnknownKeeps
<1>2. CASE ~RenameUnknown(o)
 <2>1. At(o, "rename") /\ Source(o) # None /\ ~(Occupied(o) /\ NoReplace(o)) /\ Effect(o)
   BY <1>2 DEF RenameFails, RenameUnknown, At
 <2>2. st[o] = "publishing" BY <2>1, AtRename
 <2>3. RenameInDoubt(o) BY <1>2, <2>1, <2>2 DEF RenameFails, RenameUnknown, RenameInDoubt, FailedAs
 <2> QED BY <2>3, RenameInDoubtKeeps
<1> QED BY <1>1, <1>2

LEMMA FilesInitInv == FilesInit => FilesInv
<1> SUFFICES ASSUME FilesInit PROVE FilesInv OBVIOUS
<1> USE FilesAssumption DEF FilesInit, None, Uploads
<1>1. FileTypes
 <2>1. NoIntent \in Intended BY DEF NoIntent, Intended, Observations, Things
 <2>2. \A o \in Ops : [NoIntent EXCEPT !.kind = "delete", !.base = <<o, FALSE>>] \in Intended
   BY DEF NoIntent, Intended, Observations, Things, Objects, Own, Kinds
 <2> QED BY <2>1, <2>2 DEF FileTypes, Things, Objects, Own, States, Places
<1>2. Modes BY DEF Modes, Early, Settled
<1>3. \A p, q \in Paths : ns[p] = OldFile /\ ns[q] = OldFile => p = q
 <2> DEFINE S == {p \in Paths : ns[p] = OldFile}
 <2>1. Cardinality(S) = 1 /\ IsFiniteSet(S) BY FS_Subset
 <2>2. PICK x : S = {x} BY <2>1, FS_Singleton
 <2>3. \A p \in Paths : ns[p] = OldFile => p = x BY <2>2
 <2> QED BY <2>3
<1>4. OnePlace BY <1>3 DEF OnePlace, Own
<1>5. \A o \in Ops : WellFormed(o) BY DEF WellFormed, NoIntent, Creates
<1>6. \A o \in Ops : InStep(o) /\ Untouched(o) /\ NotYetThere(o) BY DEF InStep, Untouched, NotYetThere, Early
<1>7. \A o \in Ops : Evidence(o) /\ InDoubt(o) /\ Seen(o) /\ Recoverable(o)
  BY DEF Evidence, InDoubt, Seen, Recoverable, NoIntent
<1>8. ReceiptsTruthful /\ NoLostUpdate /\ EvidenceKept BY DEF ReceiptsTruthful, NoLostUpdate, EvidenceKept, NoIntent
<1> QED BY <1>1, <1>2, <1>4, <1>5, <1>6, <1>7, <1>8 DEF FilesInv

\* A receipt tells the truth, no write of a client is lost and what a recovery offers is
\* kept, for any paths, operations, errors, crashes and writes of other programs.
THEOREM FilesAreKept == FilesSpec => []FilePromises
<1>1. FilesInv /\ [FilesNext]_filesVars => FilesInv'
 <2>1. FilesInv /\ UNCHANGED filesVars => FilesInv'
   BY DEF FilesInv, FileTypes, Modes, OnePlace, WellFormed, InStep, IsUpload, Untouched, NotYetThere, Evidence,
      InDoubt, Seen, NoReplace, Recoverable, ReceiptsTruthful, NoLostUpdate, EvidenceKept, filesVars, disk, record,
      request, budget
 <2> QED BY <2>1, CrashKeeps, RestartKeeps, RecoveredKeeps, OtherProgramKeeps, AcceptKeeps, StreamKeeps, StageKeeps,
      BeginPublishKeeps, RenameKeeps, RenameFailsKeeps, ProveKeeps, CommitKeeps, CommitFailsKeeps, CleanStagingKeeps,
      RecoveryExpiresKeeps, SweepTrashKeeps, RecoverOpKeeps DEF FilesNext
<1>2. FilesInv => FilePromises BY DEF FilesInv, FilePromises
<1> QED BY FilesInitInv, <1>1, <1>2, PTL DEF FilesSpec

--------------------
\* FileIndex: a session that ends without errors is exact about what did
\* not change under it, for any files of the root, in however many passes
\* it was walked and however often the workspace changed.

Session == [on : BOOLEAN, queue : Seq(Folders), current : Folders \cup {"none"}, before : Nat,
            left : SUBSET Tree, yielded : SUBSET Tree, seen : SUBSET Tree, nonDirectories : SUBSET Tree,
            pruning : BOOLEAN, rest : SUBSET Tree]

IndexTypes ==
    /\ onDisk \in [Tree -> 0 .. 2] /\ rows \in [Tree -> 0 .. 2] /\ obj \in Nat
    /\ dirs \in [Folders -> {"no", "open", "done", "error"}] /\ sess \in Session /\ steady \subseteq Tree

\* A file is in a folder; a file whose folder was touched was touched.
FilesInFolders == (onDisk["g"] # 0 => onDisk["d"] = 1) /\ ("g" \in steady => "d" \in steady)

\* A pass runs inside a session, and prunes only when the walk is over.
Phases ==
    /\ pass # "none" => sess.on
    /\ pass = "prune" => sess.pruning
    /\ sess.pruning => sess.queue = <<>> /\ sess.current = "none"

\* What was seen and did not change since is listed as it is.
SeenIsListed == \A p \in sess.seen \cap steady : rows[p] = onDisk[p] /\ onDisk[p] # 0

FolderIsKnown ==
    "d" \in steady => /\ "d" \in sess.nonDirectories => onDisk["d"] # 1
                      /\ "d" \in sess.seen \ sess.nonDirectories => onDisk["d"] = 1

\* A folder listed to its end has shown all it held; the one being listed will.
NothingOverlooked ==
    \A p \in steady : onDisk[p] # 0 =>
        /\ dirs[ParentOf(p)] = "done" => p \in sess.seen
        /\ sess.current = ParentOf(p) => p \in sess.left \cup sess.seen

\* A folder the walk knows of was listed, failed, or is still to come.
Queued(f) == \E i \in 1 .. Len(sess.queue) : sess.queue[i] = f
Visited(f) == Queued(f) \/ sess.current = f \/ dirs[f] \in {"done", "error"}
AllVisited == Visited(Root) /\ ("d" \in sess.seen \ sess.nonDirectories => Visited("d"))

NoErrorYet == \A f \in Folders : dirs[f] # "error"

\* The rows that pruning has passed are of files that are there.
Swept == sess.pruning /\ NoErrorYet => \A p \in steady \ sess.rest : rows[p] \in {0, onDisk[p]}

Walk == SeenIsListed /\ FolderIsKnown /\ NothingOverlooked /\ AllVisited /\ Swept

IndexInv == IndexTypes /\ FilesInFolders /\ Phases /\ (sess.on => Walk) /\ PassIsExact

\* A session that starts has everything before it.
LEMMA NewSession ==
  ASSUME IndexTypes, FilesInFolders,
         sess' = [NoSession EXCEPT !.on = TRUE, !.queue = <<Root>>], dirs' = Unscanned, steady' = Tree,
         UNCHANGED <<onDisk, obj, rows>>, pass' = "scan"
  PROVE  IndexInv'
<1>0. /\ sess'.on /\ sess'.queue = <<Root>> /\ sess'.current = "none" /\ sess'.left = {} /\ sess'.seen = {}
      /\ sess'.nonDirectories = {} /\ ~sess'.pruning /\ sess'.rest = {} /\ sess' \in Session
 <2> DEFINE q == <<Root>>
 <2>1. q \in Seq(Folders) /\ sess' = [NoSession EXCEPT !.on = TRUE, !.queue = q] BY DEF Folders
 <2> HIDE DEF q
 <2>2. NoSession \in Session BY DEF NoSession, Session, Folders
 <2>3. sess' \in Session /\ sess'.on /\ sess'.queue = q BY <2>1, <2>2 DEF Session
 <2>4. /\ sess'.current = "none" /\ sess'.left = {} /\ sess'.seen = {} /\ sess'.nonDirectories = {}
       /\ ~sess'.pruning /\ sess'.rest = {} BY <2>1 DEF NoSession
 <2> QED BY <2>3, <2>4 DEF q
<1>1. \A f \in Folders : dirs'[f] = "no" BY DEF Unscanned
<1>2. IndexTypes' BY <1>0 DEF IndexTypes, Unscanned, Tree, Folders
<1>3. FilesInFolders' BY DEF FilesInFolders, Tree
<1>4. Phases' BY <1>0 DEF Phases
<1>5. SeenIsListed' /\ FolderIsKnown' /\ Swept' BY <1>0 DEF SeenIsListed, FolderIsKnown, Swept
<1>6. NothingOverlooked' BY <1>0, <1>1 DEF NothingOverlooked, ParentOf, Folders, Root
<1>7. AllVisited'
 <2>1. sess'.queue[1] = Root /\ Len(sess'.queue) = 1 BY <1>0
 <2> QED BY <2>1, <1>0 DEF AllVisited, Visited, Queued
<1>8. PassIsExact' BY <1>0 DEF PassIsExact
<1> QED BY <1>0, <1>2, <1>3, <1>4, <1>5, <1>6, <1>7, <1>8 DEF IndexInv, Walk

LEMMA IndexInitInv == IndexInit => IndexInv
<1> SUFFICES ASSUME IndexInit PROVE IndexInv OBVIOUS
<1>1. ~sess.on /\ ~sess.pruning /\ sess.queue = <<>> /\ sess.current = "none" /\ sess \in Session
  BY DEF IndexInit, NoSession, Session, Folders
<1>2. IndexTypes BY <1>1 DEF IndexTypes, IndexInit, Unscanned, Tree
<1>3. FilesInFolders
 <2>1. onDisk["g"] # 0 => onDisk["d"] = 1 BY DEF IndexInit, Tree
 <2> QED BY <2>1 DEF FilesInFolders, IndexInit, Tree
<1>4. Phases /\ PassIsExact BY <1>1 DEF Phases, PassIsExact, IndexInit
<1> QED BY <1>1, <1>2, <1>3, <1>4 DEF IndexInv

\* Nothing of the walk changes, and no pass begins.
LEMMA ScanUntouched ==
  ASSUME IndexInv, UNCHANGED <<onDisk, obj, rows, dirs, sess, steady, listed>>,
         scanError' \/ UNCHANGED scanError, pass' \in {pass, "none"}
  PROVE  IndexInv'
<1>1. IndexTypes' /\ FilesInFolders' /\ Phases' BY DEF IndexInv, IndexTypes, FilesInFolders, Phases
<1>2. sess'.on => Walk'
  BY DEF IndexInv, Walk, SeenIsListed, FolderIsKnown, NothingOverlooked, AllVisited, Visited, Queued, Swept,
     NoErrorYet
<1>3. PassIsExact' BY DEF IndexInv, PassIsExact, NoErrors
<1> QED BY <1>1, <1>2, <1>3 DEF IndexInv

LEMMA TimerKeeps == IndexInv /\ TimerFires => IndexInv'
<1> SUFFICES ASSUME IndexInv, TimerFires PROVE IndexInv' OBVIOUS
<1>1. CASE pass = "none" /\ ~sess.on BY <1>1, NewSession DEF TimerFires, StartPass, IndexInv
<1>2. CASE pass = "none" /\ sess.on
 <2>1. UNCHANGED <<onDisk, obj, rows, dirs, sess, steady, listed>> /\ pass' = "scan" BY <1>2 DEF TimerFires, StartPass
 <2>2. IndexTypes' /\ FilesInFolders' /\ Phases' /\ PassIsExact'
   BY <1>2, <2>1 DEF IndexInv, IndexTypes, FilesInFolders, Phases, PassIsExact
 <2>3. Walk'
   BY <1>2, <2>1 DEF IndexInv, Walk, SeenIsListed, FolderIsKnown, NothingOverlooked, AllVisited, Visited, Queued,
      Swept, NoErrorYet
 <2> QED BY <2>2, <2>3 DEF IndexInv
<1>3. CASE pass # "none" BY <1>3, ScanUntouched DEF TimerFires
<1> QED BY <1>1, <1>2, <1>3

LEMMA SchedulingKeeps == IndexInv /\ (Reconcile \/ WatcherReports \/ WatcherFails) => IndexInv'
BY ScanUntouched DEF Reconcile, WatcherReports, WatcherFails, Schedule

\* A queued refresh goes on with the session it finds.
LEMMA PauseKeeps == IndexInv /\ Pause => IndexInv'
<1> SUFFICES ASSUME IndexInv, Pause PROVE IndexInv' OBVIOUS
<1>0. UNCHANGED <<onDisk, obj, rows, dirs, sess, steady, listed, scanError>> /\ sess.on /\ pass' \in {"scan", "none"}
  BY DEF Pause, EndPass, IndexInv, Phases
<1>1. IndexTypes' /\ FilesInFolders' /\ Phases' /\ PassIsExact'
  BY <1>0 DEF IndexInv, IndexTypes, FilesInFolders, Phases, PassIsExact
<1>2. Walk'
  BY <1>0 DEF IndexInv, Walk, SeenIsListed, FolderIsKnown, NothingOverlooked, AllVisited, Visited, Queued, Swept,
     NoErrorYet
<1> QED BY <1>1, <1>2 DEF IndexInv

LEMMA FailKeeps == IndexInv /\ ScanFails => IndexInv'
<1> SUFFICES ASSUME IndexInv, ScanFails PROVE IndexInv' OBVIOUS
<1>1. ~sess'.on /\ ~sess'.pruning /\ sess' \in Session BY DEF ScanFails, NoSession, Session, Folders
<1>2. IndexTypes' /\ FilesInFolders' /\ Phases' /\ PassIsExact'
  BY <1>1 DEF ScanFails, IndexInv, IndexTypes, FilesInFolders, Phases, PassIsExact, NoErrors
<1> QED BY <1>1, <1>2 DEF IndexInv

\* What a queue holds after its first folder is taken, and after one is added.
LEMMA QueueTail ==
  ASSUME NEW q \in Seq(Folders), q # <<>>, NEW i \in 1 .. Len(q), q[i] # Head(q)
  PROVE  \E j \in 1 .. Len(Tail(q)) : Tail(q)[j] = q[i]
<1>1. i # 1 /\ i - 1 \in 1 .. Len(Tail(q)) OBVIOUS
<1>2. Tail(q)[i - 1] = q[i] BY <1>1
<1> QED BY <1>1, <1>2

LEMMA QueueAppend ==
  ASSUME NEW q \in Seq(Folders), NEW f \in Folders
  PROVE  /\ Append(q, f) \in Seq(Folders) /\ \E j \in 1 .. Len(Append(q, f)) : Append(q, f)[j] = f
         /\ \A i \in 1 .. Len(q) : \E j \in 1 .. Len(Append(q, f)) : Append(q, f)[j] = q[i]
<1>1. Append(q, f) \in Seq(Folders) /\ Len(Append(q, f)) = Len(q) + 1 /\ Append(q, f)[Len(q) + 1] = f OBVIOUS
<1>2. \A i \in 1 .. Len(q) : Append(q, f)[i] = q[i] /\ i \in 1 .. Len(q) + 1 OBVIOUS
<1>3. Len(q) + 1 \in 1 .. Len(q) + 1 OBVIOUS
<1> QED BY <1>1, <1>2, <1>3

LEMMA OpenKeeps == IndexInv /\ OpenFolder => IndexInv'
<1> SUFFICES ASSUME IndexInv, OpenFolder PROVE IndexInv' OBVIOUS
<1> DEFINE f == Head(sess.queue)
<1>0. /\ IndexTypes /\ FilesInFolders /\ sess.on /\ Walk /\ pass = "scan"
      /\ sess.queue # <<>> /\ sess.current = "none" /\ ~sess.pruning BY DEF IndexInv, Phases, OpenFolder
<1>1. /\ UNCHANGED <<onDisk, obj, rows, steady, pass, listed, scanError>>
      /\ sess'.on /\ sess'.queue = Tail(sess.queue) /\ sess'.seen = sess.seen /\ ~sess'.pruning
      /\ sess'.nonDirectories = sess.nonDirectories /\ sess' \in Session
      /\ f \in Folders /\ dirs' \in [Folders -> {"no", "open", "done", "error"}]
      /\ \A g \in Folders : g # f => dirs'[g] = dirs[g]
      /\ \/ /\ sess'.current = f /\ sess'.left = Entries(f) /\ dirs'[f] = "open"
         \/ /\ sess'.current = "none" /\ dirs'[f] = "error"
 <2>1. f \in Folders /\ Tail(sess.queue) \in Seq(Folders) BY <1>0 DEF IndexTypes, Session
 <2>2. Entries(f) \subseteq Tree BY DEF Entries
 <2>3. CASE Readable(f)
  <3>1. /\ sess' = [sess EXCEPT !.queue = Tail(@), !.current = f, !.before = obj, !.left = Entries(f), !.yielded = {}]
        /\ dirs' = [dirs EXCEPT ![f] = "open"] /\ UNCHANGED <<onDisk, obj, rows, steady, pass, listed, scanError>>
    BY <2>3 DEF OpenFolder, ScanStep
  <3>2. sess \in Session /\ obj \in Nat /\ dirs \in [Folders -> {"no", "open", "done", "error"}]
    BY <1>0 DEF IndexTypes
  <3>3. sess' \in Session BY <2>1, <2>2, <3>1, <3>2 DEF Session
  <3> QED BY <1>0, <2>1, <3>1, <3>2, <3>3 DEF Session
 <2>4. CASE ~Readable(f) BY <1>0, <2>1, <2>4 DEF OpenFolder, ScanStep, IndexTypes, Session
 <2> QED BY <2>3, <2>4
<1> HIDE DEF f
<1>2. IndexTypes' /\ FilesInFolders' /\ Phases' /\ PassIsExact'
  BY <1>0, <1>1 DEF IndexTypes, FilesInFolders, Phases, PassIsExact
<1>3. SeenIsListed' /\ FolderIsKnown' /\ Swept' BY <1>0, <1>1 DEF Walk, SeenIsListed, FolderIsKnown, Swept
<1>4. NothingOverlooked'
 <2> SUFFICES ASSUME NEW p \in steady, onDisk[p] # 0
              PROVE  /\ dirs'[ParentOf(p)] = "done" => p \in sess.seen
                     /\ sess'.current = ParentOf(p) => p \in sess'.left \cup sess.seen BY <1>1 DEF NothingOverlooked
 <2>1. ParentOf(p) \in Folders /\ ParentOf(p) # "none" /\ p \in Tree BY <1>0 DEF ParentOf, Folders, Root, IndexTypes
 <2>2. dirs'[ParentOf(p)] = "done" => p \in sess.seen BY <1>0, <1>1, <2>1 DEF Walk, NothingOverlooked
 <2>3. sess'.current = ParentOf(p) => p \in sess'.left BY <1>1, <2>1 DEF Entries
 <2> QED BY <2>2, <2>3
<1>5. AllVisited'
 <2>1. ASSUME NEW g \in Folders, Visited(g) PROVE Visited(g)'
  <3>1. CASE g = f BY <1>1, <3>1 DEF Visited
  <3>2. CASE g # f
   <4>1. sess.current # g BY <1>0 DEF Folders, Root
   <4>2. CASE dirs[g] \in {"done", "error"} BY <1>1, <3>2, <4>2 DEF Visited
   <4>3. CASE Queued(g)
    <5>1. PICK i \in 1 .. Len(sess.queue) : sess.queue[i] = g BY <4>3 DEF Queued
    <5>2. sess.queue \in Seq(Folders) /\ sess.queue[i] # Head(sess.queue)
      BY <1>0, <3>2, <5>1 DEF IndexTypes, Session, f
    <5>3. \E j \in 1 .. Len(Tail(sess.queue)) : Tail(sess.queue)[j] = sess.queue[i] BY <1>0, <5>2, QueueTail
    <5> QED BY <1>1, <5>1, <5>3 DEF Visited, Queued
   <4> QED BY <2>1, <4>1, <4>2, <4>3 DEF Visited
  <3> QED BY <3>1, <3>2
 <2>2. Root \in Folders /\ "d" \in Folders BY DEF Folders
 <2> QED BY <1>0, <1>1, <2>1, <2>2 DEF Walk, AllVisited
<1> QED BY <1>2, <1>3, <1>4, <1>5 DEF IndexInv, Walk

\* An entry that is gone, or one that is listed in the version it has now.
LEMMA EntryKeeps == IndexInv /\ ProcessEntry => IndexInv'
<1> SUFFICES ASSUME IndexInv, ProcessEntry PROVE IndexInv' OBVIOUS
<1>0. /\ IndexTypes /\ FilesInFolders /\ sess.on /\ Walk /\ sess.current # "none" /\ ~sess.pruning /\ pass = "scan"
      /\ sess.queue \in Seq(Folders) BY DEF IndexInv, Phases, ProcessEntry, IndexTypes, Session
<1>1. PICK p \in (sess.left \cup Entries(sess.current)) \ sess.yielded :
         LET s == [sess EXCEPT !.yielded = @ \cup {p}, !.left = @ \ {p}] IN
         IF onDisk[p] = 0 THEN sess' = s /\ UNCHANGED <<rows, dirs>>
         ELSE /\ rows' = [rows EXCEPT ![p] = onDisk[p]]
              /\ IF IsFolder(p, onDisk[p])
                 THEN sess' = [s EXCEPT !.seen = @ \cup {p}, !.nonDirectories = @ \ {p}, !.queue = Append(@, p)] /\ UNCHANGED dirs
                 ELSE /\ sess' = [s EXCEPT !.seen = @ \cup {p}, !.nonDirectories = @ \cup {p}]
                      /\ dirs' = IF IsFolder(p, rows[p]) THEN [dirs EXCEPT ![p] = "no"] ELSE dirs BY DEF ProcessEntry
<1>2. p \in Tree BY <1>0 DEF IndexTypes, Session, Entries
<1>3. UNCHANGED <<onDisk, obj, steady, pass, listed, scanError>> BY DEF ProcessEntry, ScanStep
<1>4. /\ sess'.on /\ sess'.current = sess.current /\ sess'.left = sess.left \ {p} /\ ~sess'.pruning /\ sess' \in Session
      /\ onDisk[p] = 0 => UNCHANGED <<rows, dirs>> /\ sess'.seen = sess.seen /\ sess'.queue = sess.queue
                          /\ sess'.nonDirectories = sess.nonDirectories
      /\ onDisk[p] # 0 => rows' = [rows EXCEPT ![p] = onDisk[p]] /\ sess'.seen = sess.seen \cup {p}
      /\ onDisk[p] # 0 /\ IsFolder(p, onDisk[p]) =>
            /\ sess'.nonDirectories = sess.nonDirectories \ {p} /\ sess'.queue = Append(sess.queue, p) /\ UNCHANGED dirs
      /\ onDisk[p] # 0 /\ ~IsFolder(p, onDisk[p]) =>
            /\ sess'.nonDirectories = sess.nonDirectories \cup {p} /\ sess'.queue = sess.queue
            /\ dirs' = IF IsFolder(p, rows[p]) THEN [dirs EXCEPT ![p] = "no"] ELSE dirs
 <2>1. sess \in Session BY <1>0 DEF IndexTypes
 <2>2. IsFolder(p, onDisk[p]) => p \in Folders /\ Append(sess.queue, p) \in Seq(Folders) BY <1>0 DEF IsFolder, Folders
 <2>3. CASE onDisk[p] = 0
  <3>1. sess' = [sess EXCEPT !.yielded = @ \cup {p}, !.left = @ \ {p}] /\ UNCHANGED <<rows, dirs>> BY <1>1, <2>3
  <3> QED BY <1>0, <1>2, <2>1, <2>3, <3>1 DEF Session
 <2>4. CASE onDisk[p] # 0 /\ IsFolder(p, onDisk[p])
  <3>1. /\ sess' = [sess EXCEPT !.yielded = @ \cup {p}, !.left = @ \ {p}, !.seen = @ \cup {p},
                              !.nonDirectories = @ \ {p}, !.queue = Append(@, p)]
        /\ rows' = [rows EXCEPT ![p] = onDisk[p]] /\ UNCHANGED dirs BY <1>1, <2>1, <2>4 DEF Session
  <3> QED BY <1>0, <1>2, <2>1, <2>2, <2>4, <3>1 DEF Session
 <2>5. CASE onDisk[p] # 0 /\ ~IsFolder(p, onDisk[p])
  <3>1. /\ sess' = [sess EXCEPT !.yielded = @ \cup {p}, !.left = @ \ {p}, !.seen = @ \cup {p},
                              !.nonDirectories = @ \cup {p}]
        /\ rows' = [rows EXCEPT ![p] = onDisk[p]]
        /\ dirs' = IF IsFolder(p, rows[p]) THEN [dirs EXCEPT ![p] = "no"] ELSE dirs BY <1>1, <2>1, <2>5 DEF Session
  <3> QED BY <1>0, <1>2, <2>1, <2>5, <3>1 DEF Session
 <2> QED BY <2>3, <2>4, <2>5
<1>5. dirs' \in [Folders -> {"no", "open", "done", "error"}]
      /\ \A f \in Folders : dirs'[f] = dirs[f] \/ (dirs'[f] = "no" /\ f = p /\ p = "d" /\ ~IsFolder(p, onDisk[p]) /\ onDisk[p] # 0)
  BY <1>0, <1>4 DEF IndexTypes, IsFolder
<1>6. rows' \in [Tree -> 0 .. 2] /\ \A q \in Tree : rows'[q] = IF q = p /\ onDisk[p] # 0 THEN onDisk[p] ELSE rows[q]
  BY <1>0, <1>2, <1>4 DEF IndexTypes
<1>7. IndexTypes' /\ FilesInFolders' /\ Phases' /\ PassIsExact' /\ Swept'
  BY <1>0, <1>3, <1>4, <1>5, <1>6 DEF IndexTypes, FilesInFolders, Phases, PassIsExact, Swept
<1>8. SeenIsListed' BY <1>0, <1>2, <1>3, <1>4, <1>6 DEF Walk, SeenIsListed, IndexTypes
<1>9. FolderIsKnown' BY <1>0, <1>3, <1>4 DEF Walk, FolderIsKnown, IsFolder
<1>10. NothingOverlooked'
 <2>1. ASSUME NEW q \in steady PROVE ParentOf(q) \in Folders BY DEF ParentOf, Folders
 <2> QED BY <1>0, <1>3, <1>4, <1>5, <2>1 DEF Walk, NothingOverlooked
<1>11. AllVisited'
 <2>1. ASSUME NEW f \in Folders, Queued(f) PROVE Queued(f)'
  <3>1. CASE onDisk[p] # 0 /\ IsFolder(p, onDisk[p])
   <4>1. p \in Folders /\ sess'.queue = Append(sess.queue, p) BY <1>4, <3>1 DEF IsFolder, Folders
   <4>2. PICK i \in 1 .. Len(sess.queue) : sess.queue[i] = f BY <2>1 DEF Queued
   <4>3. \E j \in 1 .. Len(Append(sess.queue, p)) : Append(sess.queue, p)[j] = sess.queue[i]
     BY <1>0, <4>1, QueueAppend
   <4> QED BY <4>1, <4>2, <4>3 DEF Queued
  <3>2. CASE ~(onDisk[p] # 0 /\ IsFolder(p, onDisk[p])) BY <1>4, <2>1, <3>2 DEF Queued
  <3> QED BY <3>1, <3>2
 <2>2. Visited(Root)'
  <3>1. dirs'[Root] = dirs[Root] BY <1>5 DEF Root, Folders
  <3>2. Visited(Root) /\ Root \in Folders BY <1>0 DEF Walk, AllVisited, Folders
  <3> QED BY <1>4, <2>1, <3>1, <3>2 DEF Visited
 <2>3. ASSUME "d" \in sess'.seen \ sess'.nonDirectories PROVE Visited("d")'
  <3>1. CASE p = "d" /\ onDisk[p] # 0
   <4>1. IsFolder(p, onDisk[p]) /\ p \in Folders /\ sess'.queue = Append(sess.queue, p)
     BY <1>4, <2>3, <3>1 DEF Folders
   <4>2. \E j \in 1 .. Len(Append(sess.queue, p)) : Append(sess.queue, p)[j] = p BY <1>0, <4>1, QueueAppend
   <4> QED BY <3>1, <4>1, <4>2 DEF Visited, Queued
  <3>2. CASE ~(p = "d" /\ onDisk[p] # 0)
   <4>1. "d" \in sess.seen \ sess.nonDirectories BY <1>4, <2>3, <3>2
   <4>2. Visited("d") /\ "d" \in Folders /\ dirs'["d"] = dirs["d"]
     BY <1>0, <1>5, <3>2, <4>1 DEF Walk, AllVisited, Folders
   <4> QED BY <1>4, <2>1, <4>2 DEF Visited
  <3> QED BY <3>1, <3>2
 <2> QED BY <2>2, <2>3 DEF AllVisited
<1> QED BY <1>7, <1>8, <1>9, <1>10, <1>11 DEF IndexInv, Walk

\* The folder being listed ends, in its whole or with an error.
LEMMA FolderEnds ==
  ASSUME IndexInv, sess.on, sess.current \in Folders, NEW r \in {"done", "error"},
         dirs' = [dirs EXCEPT ![sess.current] = r], sess' = [sess EXCEPT !.current = "none"],
         UNCHANGED <<onDisk, obj, rows, steady, pass>>,
         r = "done" => {p \in sess.left : onDisk[p] # 0} = {}
  PROVE  IndexInv'
<1>0. IndexTypes /\ FilesInFolders /\ Walk /\ Phases BY DEF IndexInv
<1>1. /\ sess' \in Session /\ sess'.on /\ sess'.current = "none" /\ sess'.queue = sess.queue /\ sess'.left = sess.left
      /\ sess'.seen = sess.seen /\ sess'.nonDirectories = sess.nonDirectories /\ sess'.pruning = sess.pruning
      /\ sess'.rest = sess.rest BY <1>0 DEF IndexTypes, Session
<1>2. /\ dirs' \in [Folders -> {"no", "open", "done", "error"}]
      /\ \A f \in Folders : dirs'[f] = IF f = sess.current THEN r ELSE dirs[f] BY <1>0 DEF IndexTypes
<1>3. ~sess.pruning BY <1>0 DEF Phases, Folders, Root
<1>4. IndexTypes' /\ FilesInFolders' /\ Phases' /\ PassIsExact'
  BY <1>0, <1>1, <1>2 DEF IndexTypes, FilesInFolders, Phases, PassIsExact
<1>5. SeenIsListed' /\ FolderIsKnown' /\ Swept' BY <1>0, <1>1, <1>3 DEF Walk, SeenIsListed, FolderIsKnown, Swept
<1>6. NothingOverlooked'
 <2> SUFFICES ASSUME NEW p \in steady, onDisk[p] # 0
              PROVE  /\ dirs'[ParentOf(p)] = "done" => p \in sess.seen
                     /\ sess'.current # ParentOf(p) BY <1>1 DEF NothingOverlooked
 <2>1. ParentOf(p) \in Folders /\ ParentOf(p) # "none" BY DEF ParentOf, Folders, Root
 <2> QED BY <1>0, <1>1, <1>2, <2>1 DEF Walk, NothingOverlooked
<1>7. AllVisited'
 <2>1. ASSUME NEW f \in Folders, Visited(f) PROVE Visited(f)' BY <1>1, <1>2, <2>1 DEF Visited, Queued
 <2> QED BY <1>0, <1>1, <2>1 DEF Walk, AllVisited, Folders
<1> QED BY <1>1, <1>4, <1>5, <1>6, <1>7 DEF IndexInv, Walk

LEMMA EndKeeps == IndexInv /\ (EndFolder \/ FolderFails) => IndexInv'
<1> SUFFICES ASSUME IndexInv, EndFolder \/ FolderFails PROVE IndexInv' OBVIOUS
<1>1. sess.on /\ sess.current \in Folders /\ UNCHANGED <<onDisk, obj, rows, steady, pass>>
  BY DEF EndFolder, FolderFails, ScanStep, AbandonFolder, IndexInv, Phases, IndexTypes, Session
<1>2. CASE AbandonFolder BY <1>1, <1>2, FolderEnds DEF AbandonFolder
<1>3. CASE ~AbandonFolder BY <1>1, <1>3, FolderEnds DEF EndFolder, FolderFails
<1> QED BY <1>2, <1>3

\* Pruning removes no row of a file that is there, and keeps none that it did not see.
LEMMA MissingIsAbsent ==
  ASSUME FilesInFolders, Walk, NEW p \in steady, Missing(p)
  PROVE  onDisk[p] = 0
<1> SUFFICES ASSUME onDisk[p] # 0 PROVE FALSE OBVIOUS
<1>1. ~(p \notin sess.seen /\ dirs[ParentOf(p)] = "done") BY DEF Walk, NothingOverlooked
<1>2. p = "g" /\ ("d" \in sess.nonDirectories \/ ("d" \notin sess.seen /\ dirs[Root] = "done")) BY <1>1 DEF Missing
<1>3. "d" \in steady /\ onDisk["d"] = 1 /\ ParentOf("d") = Root BY <1>2 DEF FilesInFolders, ParentOf
<1> QED BY <1>2, <1>3 DEF Walk, NothingOverlooked, FolderIsKnown

LEMMA UnseenIsMissing ==
  ASSUME IndexTypes, Phases, Walk, sess.pruning, NoErrorYet, NEW p \in Tree, p \notin sess.seen
  PROVE  Missing(p)
<1>1. \A f \in Folders : Visited(f) => dirs[f] = "done" BY DEF Phases, Visited, Queued, NoErrorYet, Folders, Root
<1>2. dirs[Root] = "done" BY <1>1 DEF Walk, AllVisited, Folders
<1>3. "d" \in sess.seen \ sess.nonDirectories => dirs["d"] = "done" BY <1>1 DEF Walk, AllVisited, Folders
<1> QED BY <1>2, <1>3 DEF Missing, ParentOf

LEMMA PruneKeeps == IndexInv /\ (StartPrune \/ Prune) => IndexInv'
<1> SUFFICES ASSUME IndexInv, StartPrune \/ Prune PROVE IndexInv' OBVIOUS
<1>0. IndexTypes /\ FilesInFolders /\ Walk /\ Phases /\ sess.on /\ sess \in Session
  BY DEF IndexInv, StartPrune, Prune, Phases, IndexTypes
<1>1. /\ UNCHANGED <<onDisk, obj, dirs, steady, listed, scanError>>
      /\ sess' \in Session /\ sess'.on /\ sess'.current = "none" /\ sess'.queue = <<>> /\ sess'.left = sess.left
      /\ sess'.seen = sess.seen /\ sess'.nonDirectories = sess.nonDirectories /\ sess'.pruning
      /\ pass' = "prune" /\ rows' \in [Tree -> 0 .. 2]
      /\ sess.current = "none" /\ sess.queue = <<>>
      /\ \A p \in Tree : \/ rows'[p] = rows[p] /\ (sess.pruning => (p \in sess'.rest <=> p \in sess.rest))
                         \/ rows'[p] = rows[p] /\ ~Missing(p)
                         \/ rows'[p] = 0 /\ Missing(p)
      /\ \/ sess.pruning
         \/ (\A p \in Tree : p \in sess'.rest <=> rows[p] # 0) /\ rows' = rows
 <2>1. CASE StartPrune BY <1>0, <2>1 DEF StartPrune, IndexTypes, Session
 <2>2. CASE Prune
  <3>1. PICK p \in sess.rest : /\ sess' = [sess EXCEPT !.rest = @ \ {p}]
                               /\ rows' = IF Missing(p) THEN [rows EXCEPT ![p] = 0] ELSE rows BY <2>2 DEF Prune
  <3>2. /\ UNCHANGED <<onDisk, obj, dirs, steady, listed, scanError>> /\ pass = "prune" /\ pass' = "prune"
        /\ sess.pruning /\ sess.queue = <<>> /\ sess.current = "none" BY <2>2, <1>0 DEF Prune, ScanStep, Phases
  <3>3. p \in Tree BY <1>0, <3>1 DEF Session
  <3>4. /\ sess' \in Session /\ sess'.on /\ sess'.current = "none" /\ sess'.queue = <<>> /\ sess'.left = sess.left
        /\ sess'.seen = sess.seen /\ sess'.nonDirectories = sess.nonDirectories /\ sess'.pruning
        /\ sess'.rest = sess.rest \ {p} BY <1>0, <3>1, <3>2 DEF Session
  <3>5. CASE Missing(p) BY <1>0, <3>1, <3>2, <3>3, <3>4, <3>5 DEF IndexTypes
  <3>6. CASE ~Missing(p) BY <1>0, <3>1, <3>2, <3>3, <3>4, <3>6 DEF IndexTypes
  <3> QED BY <3>5, <3>6
 <2> QED BY <2>1, <2>2
<1>2. IndexTypes' /\ FilesInFolders' /\ Phases' /\ PassIsExact'
  BY <1>0, <1>1 DEF IndexTypes, FilesInFolders, Phases, PassIsExact
<1>3. SeenIsListed'
 <2>1. ASSUME NEW p \in sess.seen \cap steady PROVE rows'[p] = onDisk[p] /\ onDisk[p] # 0
  <3>1. p \in Tree /\ rows[p] = onDisk[p] /\ onDisk[p] # 0 BY <1>0 DEF Walk, SeenIsListed, IndexTypes
  <3>2. ~Missing(p) BY <1>0, <3>1, MissingIsAbsent
  <3> QED BY <1>1, <3>1, <3>2
 <2> QED BY <1>1, <2>1 DEF SeenIsListed
<1>4. FolderIsKnown' /\ NothingOverlooked' /\ AllVisited'
  BY <1>0, <1>1 DEF Walk, FolderIsKnown, NothingOverlooked, AllVisited, Visited, Queued
<1>5. Swept'
 <2> SUFFICES ASSUME NoErrorYet, NEW p \in steady, p \notin sess'.rest PROVE rows'[p] \in {0, onDisk[p]}
   BY <1>1 DEF Swept, NoErrorYet
 <2>1. p \in Tree BY <1>0 DEF IndexTypes
 <2>2. CASE ~sess.pruning BY <1>1, <2>1, <2>2
 <2>3. CASE sess.pruning /\ Missing(p) BY <1>0, <1>1, <2>1, <2>3 DEF Walk, Swept
 <2>4. CASE sess.pruning /\ ~Missing(p)
  <3>1. p \in sess.seen BY <1>0, <2>1, <2>4, UnseenIsMissing
  <3>2. rows[p] = onDisk[p] BY <1>0, <3>1 DEF Walk, SeenIsListed
  <3> QED BY <1>1, <2>1, <2>4, <3>2
 <2> QED BY <2>2, <2>3, <2>4
<1> QED BY <1>1, <1>2, <1>3, <1>4, <1>5 DEF IndexInv, Walk

\* The session ends: what it saw is listed, what it did not see is not there.
LEMMA CompleteKeeps == IndexInv /\ Complete => IndexInv'
<1> SUFFICES ASSUME IndexInv, Complete PROVE IndexInv' OBVIOUS
<1>0. IndexTypes /\ FilesInFolders /\ Walk /\ Phases /\ sess.on /\ sess.pruning /\ sess.rest = {}
  BY DEF IndexInv, Complete, Phases
<1>1. UNCHANGED <<onDisk, obj, rows, scanError>> BY DEF Complete, EndPass
<1>2. CASE queuedRefresh BY <1>0, <1>1, <1>2, NewSession DEF Complete, EndPass, NoSession
<1>3. CASE ~queuedRefresh
 <2>1. UNCHANGED <<dirs, steady>> /\ sess' = NoSession /\ pass' = "none" BY <1>3 DEF Complete, EndPass
 <2>2. ~sess'.on /\ ~sess'.pruning /\ sess' \in Session BY <2>1 DEF NoSession, Session, Folders
 <2>3. IndexTypes' /\ FilesInFolders' /\ Phases' BY <1>0, <1>1, <2>1, <2>2 DEF IndexTypes, FilesInFolders, Phases
 <2>4. ASSUME NoErrorYet, NEW p \in steady PROVE rows[p] = onDisk[p]
  <3>1. p \in Tree /\ rows[p] \in {0, onDisk[p]} BY <1>0, <2>4 DEF Walk, Swept, IndexTypes
  <3>2. CASE onDisk[p] # 0
   <4>1. ~Missing(p) BY <1>0, <3>2, MissingIsAbsent
   <4>2. p \in sess.seen BY <1>0, <2>4, <3>1, <4>1, UnseenIsMissing
   <4> QED BY <1>0, <4>2 DEF Walk, SeenIsListed
  <3> QED BY <3>1, <3>2
 <2>5. PassIsExact' BY <1>1, <2>1, <2>4 DEF PassIsExact, NoErrors, NoErrorYet
 <2> QED BY <2>2, <2>3, <2>5 DEF IndexInv
<1> QED BY <1>2, <1>3

LEMMA ChangeKeeps == IndexInv /\ DiskChanges => IndexInv'
<1> SUFFICES ASSUME IndexInv, DiskChanges PROVE IndexInv' OBVIOUS
<1>0. IndexTypes /\ FilesInFolders /\ Phases /\ PassIsExact /\ (sess.on => Walk) BY DEF IndexInv
<1>1. UNCHANGED <<rows, dirs, sess, pass, listed, scanError>> BY DEF DiskChanges
<1>2. PICK p \in Tree, v \in 0 .. 2 :
        /\ p = "g" => Readable("d")
        /\ onDisk' = [q \in Tree |-> IF q = p THEN v ELSE IF q = "g" /\ p = "d" THEN 0 ELSE onDisk[q]]
        /\ obj' = IF p = "d" /\ v = 1 THEN obj + 1 ELSE obj
        /\ steady' = steady \ (IF p = "d" THEN {"d", "g"} ELSE {p}) BY DEF DiskChanges
<1>3. /\ \A q \in Tree : onDisk'[q] = IF q = p THEN v ELSE IF q = "g" /\ p = "d" THEN 0 ELSE onDisk[q]
      /\ onDisk' \in [Tree -> 0 .. 2] /\ obj' \in Nat BY <1>0, <1>2 DEF IndexTypes
<1>4. steady' \subseteq steady /\ \A q \in steady' : onDisk'[q] = onDisk[q] BY <1>0, <1>2, <1>3 DEF IndexTypes
<1>5. IndexTypes' /\ Phases' BY <1>0, <1>1, <1>3, <1>4 DEF IndexTypes, Phases
<1>6. FilesInFolders'
 <2>1. "g" \in Tree /\ "d" \in Tree /\ "d" # Root BY DEF Tree, Root
 <2>2. Readable("d") => onDisk["d"] = 1 BY <2>1 DEF Readable, IsFolder
 <2>3. onDisk'["g"] # 0 => onDisk'["d"] = 1 BY <1>0, <1>2, <1>3, <2>1, <2>2 DEF FilesInFolders
 <2>4. "g" \in steady' => "d" \in steady' BY <1>0, <1>2 DEF FilesInFolders
 <2> QED BY <2>3, <2>4 DEF FilesInFolders
<1>7. PassIsExact' BY <1>0, <1>1, <1>4 DEF PassIsExact, NoErrors
<1>8. ASSUME Walk PROVE Walk'
  BY <1>1, <1>4, <1>8 DEF Walk, SeenIsListed, FolderIsKnown, NothingOverlooked, AllVisited, Visited, Queued, Swept,
     NoErrorYet
<1> QED BY <1>0, <1>1, <1>5, <1>6, <1>7, <1>8 DEF IndexInv

\* A scan session that ends without errors has listed exactly what did not change
\* under it, in however many passes, and with whatever changed meanwhile (PassIsExact).
THEOREM PassesAreExact == IndexSpec => []PassIsExact
<1>1. IndexInv /\ [IndexNext]_indexVars => IndexInv'
 <2> SUFFICES ASSUME IndexInv, [IndexNext]_indexVars PROVE IndexInv' OBVIOUS
 <2>1. CASE TimerFires BY <2>1, TimerKeeps
 <2>2. CASE Reconcile \/ WatcherReports \/ WatcherFails BY <2>2, SchedulingKeeps
 <2>3. CASE Pause BY <2>3, PauseKeeps
 <2>4. CASE ScanFails BY <2>4, FailKeeps
 <2>5. CASE OpenFolder BY <2>5, OpenKeeps
 <2>6. CASE ProcessEntry BY <2>6, EntryKeeps
 <2>7. CASE EndFolder \/ FolderFails BY <2>7, EndKeeps
 <2>8. CASE StartPrune \/ Prune BY <2>8, PruneKeeps
 <2>9. CASE Complete BY <2>9, CompleteKeeps
 <2>10. CASE DiskChanges BY <2>10, ChangeKeeps
 <2>11. CASE UNCHANGED indexVars BY <2>11, ScanUntouched DEF indexVars
 <2> QED BY <2>1, <2>2, <2>3, <2>4, <2>5, <2>6, <2>7, <2>8, <2>9, <2>10, <2>11 DEF IndexNext
<1>2. IndexInv => PassIsExact BY DEF IndexInv
<1> QED BY <1>1, <1>2, IndexInitInv, PTL DEF IndexSpec

--------------------
\* AgentReferences: the list of a conversation, whatever order its
\* receipts are stored in.

Outcomes == {"unknown", "accepted", "committed", "conflict", "failed", "saved"}
Ref == [op : Saves, artifact : BOOLEAN, named : BOOLEAN, revision : Nat, outcome : Outcomes]

RefTypes ==
    /\ state \in [Saves -> {"off", "accepted", "ready", "committed", "conflict", "failed"}]
    /\ revision \in [Saves -> Nat] /\ headSave \in Saves \cup {NoHead}
    /\ receipts \in SUBSET Ref /\ refs \in Seq(Ref)

\* What a reference says of a commit is what the commit was, however old it is.
Truthful(ref) ==
    /\ ref.revision \in {0, revision[ref.op]}
    /\ ref.revision # 0 => ref.named /\ ref.artifact
    /\ IsCommitted(ref) => ref.artifact

\* One reference to an operation.
OneEach(list) == \A i, j \in DOMAIN list : list[i].op = list[j].op => i = j

HeadLast(list) == \A i, j \in DOMAIN list : i < j /\ IsHead(list[i]) => ~list[j].named

RefInv ==
    /\ RefTypes
    /\ \A s \in Saves : revision[s] # 0 => state[s] = "committed"
    /\ \A r \in receipts : Truthful(r)
    /\ \A i \in DOMAIN refs : Truthful(refs[i])
    /\ OneEach(refs) /\ HeadLast(refs)

LEMMA ReferencesInitially == ReferencesInit => RefInv
<1> SUFFICES ASSUME ReferencesInit PROVE RefInv OBVIOUS
<1>1. refs \in Seq(Ref) /\ DOMAIN refs = {} BY EmptySeq DEF ReferencesInit
<1>2. RefTypes BY <1>1 DEF ReferencesInit, RefTypes
<1> QED BY <1>1, <1>2 DEF ReferencesInit, RefInv, OneEach, HeadLast

\* Element facts of the stored list.
LEMMA ListFacts ==
  ASSUME NEW list \in Seq(Ref)
  PROVE  Len(list) \in Nat /\ DOMAIN list = 1..Len(list) /\ \A i \in 1..Len(list) : list[i] \in Ref
<1>1. ASSUME NEW i \in 1..Len(list) PROVE list[i] \in Ref BY ElementOfSeq
<1> QED BY <1>1, LenProperties

\* Merging keeps what was known of a result, and only that of its commit which is so.
LEMMA MergedFacts ==
  ASSUME RefTypes, NEW p \in Ref, NEW r \in Ref, p.op = r.op, Truthful(p), Truthful(r)
  PROVE  /\ Merged(p, r) \in Ref /\ Merged(p, r).op = r.op /\ Truthful(Merged(p, r))
         /\ p.artifact => Merged(p, r).artifact
         /\ IsCommitted(p) => IsCommitted(Merged(p, r))
         /\ p.revision # 0 => Merged(p, r).revision = p.revision
<1> DEFINE Good(m) == /\ m \in Ref /\ m.op = r.op /\ Truthful(m)
                      /\ p.artifact => m.artifact
                      /\ IsCommitted(p) => IsCommitted(m)
                      /\ p.revision # 0 => m.revision = p.revision
           older == (p.artifact /\ ~r.artifact) \/ (p.outcome # "accepted" /\ r.outcome = "accepted")
           kept == ~r.named \/ (p.named /\ p.revision # 0 /\ r.revision = 0)
           joined == [r EXCEPT !.named = p.named \/ r.named, !.revision = IF kept THEN p.revision ELSE r.revision,
                               !.outcome = IF IsCommitted(p) /\ ~IsCommitted(r) THEN p.outcome ELSE r.outcome]
           m == IF older THEN p ELSE IF p.artifact # r.artifact THEN r ELSE joined
<1>1. Good(p) OBVIOUS
<1>2. ASSUME ~older, p.artifact # r.artifact PROVE Good(r)
 <2>1. ~p.artifact /\ r.artifact BY <1>2 DEF Ref
 <2> QED BY <2>1 DEF Truthful
<1>3. ASSUME ~older, p.artifact = r.artifact PROVE Good(joined)
 <2> DEFINE n == p.named \/ r.named
            v == IF kept THEN p.revision ELSE r.revision
            o == IF IsCommitted(p) /\ ~IsCommitted(r) THEN p.outcome ELSE r.outcome
 <2>1. n \in BOOLEAN /\ v \in Nat /\ o \in Outcomes BY DEF Ref
 <2>2. /\ joined \in Ref /\ joined.op = r.op /\ joined.artifact = r.artifact /\ joined.named = n
       /\ joined.revision = v /\ joined.outcome = o
  <3> HIDE DEF n, v, o
  <3>1. joined = [r EXCEPT !.named = n, !.revision = v, !.outcome = o] BY DEF n, v, o
  <3> HIDE DEF joined
  <3> QED BY <2>1, <3>1 DEF Ref
 <2> HIDE DEF joined
 <2>3. v \in {0, revision[r.op]} /\ (v # 0 => n /\ r.artifact) BY <1>3 DEF Truthful
 <2>4. (o = "committed" => r.artifact) /\ (IsCommitted(p) => o = "committed") BY <1>3 DEF Truthful, IsCommitted
 <2>5. p.revision # 0 => v = p.revision BY DEF Truthful
 <2>6. Truthful(joined)
  <3> HIDE DEF v, o, n
  <3> QED BY <2>2, <2>3, <2>4 DEF Truthful, IsCommitted
 <2>7. (p.artifact => joined.artifact) /\ (IsCommitted(p) => IsCommitted(joined))
  <3> HIDE DEF v, o, n
  <3> QED BY <1>3, <2>2, <2>4 DEF IsCommitted
 <2>8. p.revision # 0 => joined.revision = p.revision BY <2>2, <2>5
 <2> QED BY <2>2, <2>6, <2>7, <2>8
<1> HIDE DEF Good, joined, older
<1>4. Good(m) BY <1>1, <1>2, <1>3
<1>5. Merged(p, r) = p \/ Merged(p, r) = m BY DEF Merged, joined, older
<1>6. Good(Merged(p, r))
 <2> HIDE DEF m
 <2> QED BY <1>1, <1>4, <1>5
<1> QED BY <1>6 DEF Good

\* Where a reference is put: at the end, or before the head's when that is another one.
PutAt(L, list, m, k) ==
    /\ L[k] = m /\ \A i \in 1..Len(list) : L[IF i < k THEN i ELSE i + 1] = list[i]
    /\ \/ k = Len(list) + 1 /\ (m.named /\ ~IsHead(m) => \A i \in DOMAIN list : ~IsHead(list[i]))
       \/ k \in 1..Len(list) /\ m.named /\ ~IsHead(m) /\ IsHead(list[k])

LEMMA PlacedFacts ==
  ASSUME NEW list \in Seq(Ref), NEW m \in Ref
  PROVE  /\ Placed(list, m) \in Seq(Ref) /\ Len(Placed(list, m)) = Len(list) + 1
         /\ \E k \in 1..Len(list) + 1 : PutAt(Placed(list, m), list, m, k)
<1> DEFINE n == Len(list)
<1>1. n \in Nat /\ DOMAIN list = 1..n /\ \A i \in 1..n : list[i] \in Ref BY ListFacts
<1>2. CASE m.named /\ ~IsHead(m) /\ \E i \in DOMAIN list : IsHead(list[i])
 <2> DEFINE k == CHOOSE i \in DOMAIN list : IsHead(list[i])
            a == SubSeq(list, 1, k - 1)
            b == SubSeq(list, k, n)
            L == a \o <<m>> \o b
 <2>1. k \in 1..n /\ IsHead(list[k]) BY <1>1, <1>2
 <2>2. Placed(list, m) = L BY <1>2 DEF Placed
 <2> HIDE DEF k
 <2>3. a \in Seq(Ref) /\ Len(a) = k - 1 /\ \A i \in 1..k - 1 : a[i] = list[i]
  <3>1. \A i \in 1..k - 1 : list[i] \in Ref BY <1>1, <2>1
  <3>2. /\ a \in Seq(Ref) /\ Len(a) = IF 1 <= k - 1 THEN (k - 1) - 1 + 1 ELSE 0
        /\ \A i \in 1..(k - 1) - 1 + 1 : a[i] = list[1 + i - 1] BY <2>1, <3>1, SubSeqProperties
  <3> HIDE DEF a
  <3> QED BY <2>1, <3>2
 <2>4. b \in Seq(Ref) /\ Len(b) = n - k + 1 /\ \A i \in 1..n - k + 1 : b[i] = list[k + i - 1]
  <3>1. \A i \in k..n : list[i] \in Ref BY <1>1, <2>1
  <3>2. /\ b \in Seq(Ref) /\ Len(b) = IF k <= n THEN n - k + 1 ELSE 0
        /\ \A i \in 1..n - k + 1 : b[i] = list[k + i - 1] BY <1>1, <2>1, <3>1, SubSeqProperties
  <3> HIDE DEF b
  <3> QED BY <1>1, <2>1, <3>2
 <2> HIDE DEF a, b
 <2>5. /\ L \in Seq(Ref) /\ Len(L) = n + 1 /\ L[k] = m
       /\ \A i \in 1..n : L[IF i < k THEN i ELSE i + 1] = list[i]
  <3> DEFINE c == a \o <<m>>
  <3>1. <<m>> \in Seq(Ref) /\ Len(<<m>>) = 1 /\ <<m>>[1] = m OBVIOUS
  <3>2. /\ c \in Seq(Ref) /\ Len(c) = Len(a) + 1
        /\ \A i \in 1..Len(a) + 1 : c[i] = IF i <= Len(a) THEN a[i] ELSE <<m>>[i - Len(a)]
    BY <2>3, <3>1, ConcatProperties
  <3> HIDE DEF c
  <3>3. /\ c \o b \in Seq(Ref) /\ Len(c \o b) = Len(c) + Len(b)
        /\ \A i \in 1..Len(c) + Len(b) : (c \o b)[i] = IF i <= Len(c) THEN c[i] ELSE b[i - Len(c)]
    BY <2>4, <3>2, ConcatProperties
  <3>4. L = c \o b BY DEF c
  <3> HIDE DEF L
  <3>5. Len(c) = k /\ L \in Seq(Ref) /\ Len(L) = n + 1 BY <1>1, <2>1, <2>3, <2>4, <3>2, <3>3, <3>4
  <3>6. L[k] = m BY <1>1, <2>1, <2>3, <2>4, <3>1, <3>2, <3>3, <3>4, <3>5
  <3>7. ASSUME NEW i \in 1..n PROVE L[IF i < k THEN i ELSE i + 1] = list[i]
   <4>1. CASE i < k BY <1>1, <2>1, <2>3, <2>4, <3>2, <3>3, <3>4, <3>5, <4>1
   <4>2. CASE i >= k
    <5>1. i + 1 \in 1..Len(c) + Len(b) /\ ~(i + 1 <= Len(c)) /\ (i + 1) - Len(c) \in 1..n - k + 1
      BY <1>1, <2>1, <2>4, <3>5, <4>2
    <5>2. L[i + 1] = list[k + ((i + 1) - Len(c)) - 1] BY <2>4, <3>3, <3>4, <5>1
    <5>3. k + ((i + 1) - Len(c)) - 1 = i BY <2>1, <3>5
    <5> QED BY <2>1, <4>2, <5>2, <5>3
   <4> QED BY <2>1, <4>1, <4>2
  <3> QED BY <3>5, <3>6, <3>7
 <2> HIDE DEF L
 <2>6. k \in 1..n + 1 /\ k \in 1..Len(list) /\ m.named /\ ~IsHead(m) /\ IsHead(list[k]) BY <1>1, <1>2, <2>1
 <2>7. PutAt(L, list, m, k) BY <2>5, <2>6 DEF PutAt
 <2> QED BY <2>2, <2>5, <2>6, <2>7
<1>3. CASE ~(m.named /\ ~IsHead(m) /\ \E i \in DOMAIN list : IsHead(list[i]))
 <2>1. Placed(list, m) = Append(list, m) BY <1>3 DEF Placed
 <2>2. /\ Append(list, m) \in Seq(Ref) /\ Len(Append(list, m)) = n + 1 /\ Append(list, m)[n + 1] = m
       /\ \A i \in 1..n : Append(list, m)[i] = list[i] BY AppendProperties
 <2>3. \A i \in 1..n : i < n + 1 BY <1>1
 <2>4. n + 1 \in 1..n + 1 BY <1>1
 <2>5. PutAt(Append(list, m), list, m, n + 1) BY <1>3, <2>2, <2>3 DEF PutAt
 <2> QED BY <2>1, <2>2, <2>4, <2>5
<1> QED BY <1>2, <1>3

\* The newest of a list are a tail of it.
LEMMA LastFacts ==
  ASSUME NEW list \in Seq(Ref)
  PROVE  /\ Last(list) \in Seq(Ref)
         /\ \E d \in Nat : \A i \in 1..Len(Last(list)) : i + d \in 1..Len(list) /\ Last(list)[i] = list[i + d]
<1> DEFINE n == Len(list)
           d == n - MaxReferences
<1>1. n \in Nat /\ MaxReferences \in Nat /\ \A i \in 1..n : list[i] \in Ref BY ListFacts, ReferencesAssumption
<1>2. CASE n > MaxReferences
 <2> DEFINE L == SubSeq(list, n - MaxReferences + 1, n)
 <2>1. Last(list) = L BY <1>2 DEF Last
 <2>2. d \in Nat /\ \A i \in d + 1..n : list[i] \in Ref BY <1>1, <1>2
 <2>3. /\ L \in Seq(Ref) /\ Len(L) = IF d + 1 <= n THEN n - (d + 1) + 1 ELSE 0
       /\ \A i \in 1..n - (d + 1) + 1 : L[i] = list[(d + 1) + i - 1] BY <1>1, <2>2, SubSeqProperties
 <2> HIDE DEF L
 <2>4. ASSUME NEW i \in 1..Len(L) PROVE i + d \in 1..n /\ L[i] = list[i + d]
  <3>1. Len(L) = n - d /\ n - (d + 1) + 1 = n - d BY <1>1, <1>2, <2>2, <2>3
  <3>2. i \in 1..n - (d + 1) + 1 /\ i \in Nat BY <2>4, <3>1, <1>1
  <3>3. L[i] = list[(d + 1) + i - 1] BY <2>3, <3>2
  <3>4. (d + 1) + i - 1 = i + d BY <1>1, <2>2, <3>2
  <3>5. i + d \in 1..n BY <1>1, <2>2, <3>2
  <3> QED BY <3>3, <3>4, <3>5
 <2> QED BY <2>1, <2>2, <2>3, <2>4
<1>3. CASE ~(n > MaxReferences)
 <2>1. Last(list) = list BY <1>3 DEF Last
 <2>2. \A i \in 1..n : i + 0 \in 1..n /\ list[i] = list[i + 0] BY <1>1
 <2> QED BY <2>1, <2>2
<1> QED BY <1>2, <1>3

\* A reference that is merged and put in its place keeps the list in order.
LEMMA PlacedKeeps ==
  ASSUME RefTypes, NEW list \in Seq(Ref), OneEach(list), HeadLast(list), NEW m \in Ref,
         \A i \in DOMAIN list : list[i].op # m.op
  PROVE  OneEach(Placed(list, m)) /\ HeadLast(Placed(list, m))
<1> DEFINE n == Len(list)
           L == Placed(list, m)
<1>1. n \in Nat /\ DOMAIN list = 1..n BY ListFacts
<1>2. L \in Seq(Ref) /\ Len(L) = n + 1 /\ DOMAIN L = 1..n + 1 BY PlacedFacts, ListFacts
<1>8a. PICK k \in 1..n + 1 : PutAt(L, list, m, k) BY PlacedFacts
<1> HIDE DEF L
<1>3. /\ L[k] = m /\ \A i \in 1..n : L[IF i < k THEN i ELSE i + 1] = list[i]
      /\ \/ k = n + 1 /\ (m.named /\ ~IsHead(m) => \A i \in DOMAIN list : ~IsHead(list[i]))
         \/ k \in 1..n /\ m.named /\ ~IsHead(m) /\ IsHead(list[k]) BY <1>8a DEF PutAt
<1>4. ASSUME NEW i \in 1..n + 1, i # k
      PROVE  LET o == IF i < k THEN i ELSE i - 1 IN o \in 1..n /\ L[i] = list[o]
 <2>1. CASE i < k BY <1>1, <1>3, <1>4, <2>1
 <2>2. CASE i > k
  <3>1. i - 1 \in 1..n /\ ~(i - 1 < k) /\ (i - 1) + 1 = i BY <1>1, <1>3, <1>4, <2>2
  <3> QED BY <1>3, <2>2, <3>1
 <2> QED BY <1>1, <1>3, <1>4, <2>1, <2>2
<1>5. OneEach(L)
 <2>1. ASSUME NEW i \in 1..n + 1, NEW j \in 1..n + 1, L[i].op = L[j].op, i # k, j # k PROVE i = j
  <3> DEFINE oi == IF i < k THEN i ELSE i - 1
             oj == IF j < k THEN j ELSE j - 1
  <3>1. oi \in 1..n /\ L[i] = list[oi] /\ oj \in 1..n /\ L[j] = list[oj] BY <1>4, <2>1
  <3>2. oi = oj BY <1>1, <2>1, <3>1 DEF OneEach
  <3> QED BY <1>1, <1>3, <2>1, <3>2
 <2>2. ASSUME NEW i \in 1..n + 1, i # k PROVE L[i].op # L[k].op BY <1>1, <1>3, <1>4, <2>2
 <2> QED BY <1>2, <2>1, <2>2 DEF OneEach
<1>6. HeadLast(L)
 <2>1. SUFFICES ASSUME NEW i \in 1..n + 1, NEW j \in 1..n + 1, i < j, IsHead(L[i]) PROVE ~L[j].named
   BY <1>2 DEF HeadLast
 <2>2. CASE i # k /\ j # k
  <3> DEFINE oi == IF i < k THEN i ELSE i - 1
             oj == IF j < k THEN j ELSE j - 1
  <3>1. oi \in 1..n /\ L[i] = list[oi] /\ oj \in 1..n /\ L[j] = list[oj] BY <1>4, <2>2
  <3>2. oi < oj BY <1>1, <1>3, <2>1, <2>2
  <3> QED BY <1>1, <2>1, <3>1, <3>2 DEF HeadLast
 <2>3. CASE i = k BY <1>1, <1>3, <2>1, <2>3
 <2>4. CASE i # k /\ j = k
  <3>1. i \in 1..n /\ L[i] = list[i] BY <1>4, <2>1, <2>4
  <3>2. CASE k = n + 1 /\ (m.named /\ ~IsHead(m) => \A o \in DOMAIN list : ~IsHead(list[o]))
   <4>1. m.named => IsHead(m) BY <1>1, <2>1, <3>1, <3>2
   <4>2. IsHead(m) => m.op = list[i].op BY <2>1, <3>1 DEF IsHead
   <4> QED BY <1>1, <1>3, <2>4, <3>1, <4>1, <4>2
  <3>3. CASE k \in 1..n /\ IsHead(list[k])
   <4>1. list[i].op = list[k].op BY <2>1, <3>1, <3>3 DEF IsHead
   <4> QED BY <1>1, <2>4, <3>1, <3>3, <4>1 DEF OneEach
  <3> QED BY <1>3, <3>2, <3>3
 <2> QED BY <2>2, <2>3, <2>4
<1> QED BY <1>5, <1>6 DEF L

\* A receipt is stored: merged with what was listed of its operation.
LEMMA RememberKeeps == ASSUME RefInv, NEW ref \in receipts, Remember(ref) PROVE RefInv' /\ NothingUnlearned
<1> DEFINE n == Len(refs)
           places == First(ref.op)
           I == DOMAIN refs \ places
           rest == Sublist(refs, I)
           m == IF places = {} THEN ref ELSE Merged(refs[CHOOSE i \in places : TRUE], ref)
           L == Placed(rest, m)
<1>1. /\ RefTypes /\ ref \in Ref /\ Truthful(ref) /\ refs \in Seq(Ref) /\ n \in Nat /\ DOMAIN refs = 1..n
      /\ (\A i \in 1..n : refs[i] \in Ref /\ Truthful(refs[i])) /\ OneEach(refs) /\ HeadLast(refs)
 <2>1. refs \in Seq(Ref) /\ ref \in Ref BY DEF RefInv, RefTypes
 <2> QED BY <2>1, ListFacts DEF RefInv
<1>2. UNCHANGED <<state, revision, headSave>> /\ receipts' \subseteq receipts /\ refs' = Last(L) BY DEF Remember
<1>3. /\ I \in SUBSET (1..n) /\ places \subseteq 1..n
      /\ \A i \in 1..n : i \in places <=> refs[i].op = ref.op
 <2>1. ASSUME NEW i \in 1..n, refs[i].op = ref.op PROVE i \in places
  <3>1. ASSUME NEW j \in 1..i - 1 PROVE refs[j].op # ref.op
   <4>1. j \in 1..n /\ j # i BY <1>1
   <4> QED BY <1>1, <2>1, <4>1 DEF OneEach
  <3> QED BY <1>1, <2>1, <3>1 DEF First
 <2> QED BY <1>1, <2>1 DEF First
<1> HIDE DEF places
<1>4. /\ m \in Ref /\ m.op = ref.op /\ Truthful(m)
      /\ \A i \in 1..n : refs[i].op = ref.op =>
           /\ refs[i].artifact => m.artifact
           /\ IsCommitted(refs[i]) => IsCommitted(m)
           /\ refs[i].revision # 0 => m.revision = refs[i].revision
 <2>1. CASE places = {} BY <1>1, <1>3, <2>1
 <2>2. CASE places # {}
  <3> DEFINE c == CHOOSE i \in places : TRUE
  <3>1. c \in 1..n /\ refs[c].op = ref.op /\ m = Merged(refs[c], ref) BY <1>3, <2>2
  <3> HIDE DEF c, m
  <3>2. /\ m \in Ref /\ m.op = ref.op /\ Truthful(m)
        /\ refs[c].artifact => m.artifact
        /\ IsCommitted(refs[c]) => IsCommitted(m)
        /\ refs[c].revision # 0 => m.revision = refs[c].revision BY <1>1, <3>1, MergedFacts
  <3>3. \A i \in 1..n : refs[i].op = ref.op => i = c BY <1>1, <3>1 DEF OneEach
  <3> QED BY <3>2, <3>3
 <2> QED BY <2>1, <2>2
<1> HIDE DEF m
<1>5. /\ rest \in Seq(Ref) /\ Len(rest) \in Nat /\ DOMAIN rest = 1..Len(rest)
      /\ \A k \in 1..Len(rest) : \E i \in I : Rank(I, i) = k /\ rest[k] = refs[i]
      /\ \A i, j \in I : i < j => Rank(I, i) < Rank(I, j)
 <2>1. I \in SUBSET (1..Len(refs)) /\ refs \in Seq(Ref) BY <1>1, <1>3
 <2> HIDE DEF I
 <2>2. /\ rest \in Seq(Ref) /\ Len(rest) = Cardinality(I)
       /\ \A k \in 1..Cardinality(I) : \E i \in I : Rank(I, i) = k /\ rest[k] = refs[i]
       /\ \A i, j \in I : i < j => Rank(I, i) < Rank(I, j) BY <2>1, SublistProperties
 <2> HIDE DEF rest
 <2> QED BY <2>2, ListFacts
<1> HIDE DEF rest
<1>6. \A i \in I : i \in 1..n /\ refs[i].op # ref.op BY <1>1, <1>3
<1> HIDE DEF I
<1>7. ASSUME NEW k \in 1..Len(rest), NEW l \in 1..Len(rest), k < l
      PROVE  \E i, j \in I : i < j /\ rest[k] = refs[i] /\ rest[l] = refs[j]
 <2>1. PICK i \in I : Rank(I, i) = k /\ rest[k] = refs[i] BY <1>5
 <2>2. PICK j \in I : Rank(I, j) = l /\ rest[l] = refs[j] BY <1>5
 <2>3. i \in Nat /\ j \in Nat /\ k \in Nat /\ l \in Nat BY <1>1, <1>5, <1>6
 <2>4. ~(j < i) /\ i # j BY <1>5, <1>7, <2>1, <2>2, <2>3
 <2>5. i < j BY <2>3, <2>4
 <2> QED BY <2>1, <2>2, <2>5
<1>8. /\ OneEach(rest) /\ HeadLast(rest)
      /\ \A k \in 1..Len(rest) : Truthful(rest[k]) /\ rest[k].op # m.op /\ \E i \in 1..n : rest[k] = refs[i]
 <2>1. \A k \in 1..Len(rest) : Truthful(rest[k]) /\ rest[k].op # m.op /\ \E i \in 1..n : rest[k] = refs[i]
   BY <1>1, <1>4, <1>5, <1>6
 <2>2. ASSUME NEW k \in 1..Len(rest), NEW l \in 1..Len(rest), k < l
       PROVE  rest[k].op # rest[l].op /\ (IsHead(rest[k]) => ~rest[l].named)
  <3>1. PICK i, j \in I : i < j /\ rest[k] = refs[i] /\ rest[l] = refs[j] BY <1>7, <2>2
  <3>2. i \in 1..n /\ j \in 1..n /\ i # j BY <1>1, <1>6, <3>1
  <3> QED BY <1>1, <3>1, <3>2 DEF OneEach, HeadLast
 <2>3. OneEach(rest)
  <3>1. ASSUME NEW k \in 1..Len(rest), NEW l \in 1..Len(rest), rest[k].op = rest[l].op PROVE k = l
   <4>1. ~(k < l) /\ ~(l < k) BY <2>2, <3>1
   <4> QED BY <1>5, <4>1
  <3> QED BY <1>5, <3>1 DEF OneEach
 <2>4. HeadLast(rest) BY <1>5, <2>2 DEF HeadLast
 <2> QED BY <2>1, <2>3, <2>4
<1>9. OneEach(L) /\ HeadLast(L) /\ L \in Seq(Ref) /\ DOMAIN L = 1..Len(L) /\ Len(L) \in Nat
 <2>1. OneEach(L) /\ HeadLast(L) BY <1>1, <1>4, <1>5, <1>8, PlacedKeeps
 <2>2. L \in Seq(Ref) BY <1>4, <1>5, PlacedFacts
 <2> QED BY <2>1, <2>2, ListFacts
<1>10. \A i \in 1..Len(L) : Truthful(L[i]) /\ (L[i] = m \/ \E k \in 1..Len(rest) : L[i] = rest[k])
 <2>1. Len(L) = Len(rest) + 1 BY <1>4, <1>5, PlacedFacts
 <2>2a. PICK k \in 1..Len(rest) + 1 : PutAt(L, rest, m, k) BY <1>4, <1>5, PlacedFacts
 <2> HIDE DEF L
 <2>2. L[k] = m /\ \A i \in 1..Len(rest) : L[IF i < k THEN i ELSE i + 1] = rest[i] BY <2>2a DEF PutAt
 <2>3. ASSUME NEW i \in 1..Len(L) PROVE L[i] = m \/ \E q \in 1..Len(rest) : L[i] = rest[q]
  <3>1. CASE i = k BY <2>2, <3>1
  <3>2. CASE i < k
   <4>1. i \in 1..Len(rest) BY <1>5, <2>1, <2>2, <3>2
   <4> QED BY <2>2, <3>2, <4>1
  <3>3. CASE i > k
   <4>1. i - 1 \in 1..Len(rest) /\ ~(i - 1 < k) /\ (i - 1) + 1 = i BY <1>5, <2>1, <2>2, <3>3
   <4> QED BY <2>2, <4>1
  <3> QED BY <1>5, <2>1, <2>2, <3>1, <3>2, <3>3
 <2> QED BY <1>4, <1>8, <2>3
<1> HIDE DEF L
<1>11. PICK d \in Nat : \A i \in 1..Len(refs') : i + d \in 1..Len(L) /\ refs'[i] = L[i + d] BY <1>2, <1>9, LastFacts
<1>12. refs' \in Seq(Ref) /\ DOMAIN refs' = 1..Len(refs') /\ Len(refs') \in Nat BY <1>2, <1>9, LastFacts, ListFacts
<1>13. \A r : (IsHead(r)' <=> IsHead(r)) /\ (Truthful(r)' <=> Truthful(r)) BY <1>2 DEF IsHead, headRevision, Truthful
<1>14. RefInv'
 <2>1. RefTypes' /\ \A s \in Saves : revision'[s] # 0 => state'[s] = "committed"
   BY <1>1, <1>2, <1>12 DEF RefInv, RefTypes
 <2>2. \A r \in receipts' : Truthful(r)' BY <1>2, <1>13 DEF RefInv
 <2>3. (\A i \in DOMAIN refs : Truthful(refs[i]))' BY <1>2, <1>10, <1>11, <1>12 DEF Truthful
 <2>4. OneEach(refs)'
  <3>1. ASSUME NEW i \in 1..Len(refs'), NEW j \in 1..Len(refs'), refs'[i].op = refs'[j].op PROVE i = j
   <4>1. /\ i + d \in DOMAIN L /\ j + d \in DOMAIN L
         /\ L[i + d].op = L[j + d].op BY <1>9, <1>11, <3>1
   <4>3. i + d = j + d BY <1>9, <4>1 DEF OneEach
   <4> QED BY <1>12, <4>3
  <3> QED BY <1>12, <3>1 DEF OneEach
 <2>5. HeadLast(refs)'
  <3>1. ASSUME NEW i \in 1..Len(refs'), NEW j \in 1..Len(refs'), i < j, IsHead(refs'[i]) PROVE ~refs'[j].named
   <4>1. i + d < j + d BY <1>12, <3>1
   <4> QED BY <1>9, <1>11, <3>1, <4>1 DEF HeadLast
  <3> QED BY <1>12, <1>13, <3>1 DEF HeadLast
 <2> QED BY <1>12, <2>1, <2>2, <2>3, <2>4, <2>5 DEF RefInv
<1>15. NothingUnlearned
 <2>1. SUFFICES ASSUME NEW i \in 1..n, NEW j \in 1..Len(refs'), refs[i].op = refs'[j].op
                PROVE  /\ refs[i].artifact => refs'[j].artifact
                       /\ IsCommitted(refs[i]) => IsCommitted(refs'[j])
                       /\ refs[i].revision # 0 => refs'[j].revision = refs[i].revision
   BY <1>1, <1>12 DEF NothingUnlearned
 <2>2. CASE refs'[j] = m BY <1>4, <2>1, <2>2
 <2>3. CASE \E k \in 1..Len(rest) : refs'[j] = rest[k]
  <3>1. PICK q \in 1..n : refs'[j] = refs[q] BY <1>8, <2>3
  <3>2. q = i BY <1>1, <2>1, <3>1 DEF OneEach
  <3> QED BY <3>1, <3>2
 <2> QED BY <1>10, <1>11, <2>2, <2>3
<1> QED BY <1>14, <1>15

\* A commit gives the head to a save of which nothing listed knows the revision yet.
LEMMA OperationAdvances == ASSUME RefInv, NEW s \in Saves, Advance(s) PROVE RefInv' /\ NothingUnlearned
<1>1. /\ UNCHANGED <<receipts, refs>> /\ RefTypes /\ refs \in Seq(Ref) /\ DOMAIN refs = 1..Len(refs)
      /\ \A i \in DOMAIN refs : refs[i] \in Ref /\ Truthful(refs[i])
 <2>1. refs \in Seq(Ref) BY DEF RefInv, RefTypes
 <2> QED BY <2>1, ListFacts DEF RefInv, Advance
<1>2. NothingUnlearned BY <1>1 DEF NothingUnlearned, RefInv, OneEach
<1>3. CASE UNCHANGED <<revision, headSave>>
 <2>1. \A r : (IsHead(r)' <=> IsHead(r)) /\ (Truthful(r)' <=> Truthful(r)) BY <1>3 DEF IsHead, headRevision, Truthful
 <2>2. RefTypes' /\ \A x \in Saves : revision'[x] # 0 => state'[x] = "committed"
   BY <1>1, <1>3 DEF Advance, RefInv, RefTypes
 <2> QED BY <1>1, <1>2, <2>1, <2>2 DEF RefInv, OneEach, HeadLast
<1>4. CASE state[s] = "ready" /\ state' = [state EXCEPT ![s] = "committed"] /\ headSave' = s
           /\ revision' = [revision EXCEPT ![s] = headRevision + 1]
 <2>1. headRevision \in Nat /\ revision[s] = 0 BY <1>1, <1>4 DEF RefInv, RefTypes, headRevision
 <2>2. /\ RefTypes' /\ revision'[s] = headRevision + 1
       /\ \A x \in Saves : x # s => revision'[x] = revision[x] /\ state'[x] = state[x]
       /\ state'[s] = "committed" BY <1>1, <1>4, <2>1 DEF RefTypes
 <2>3. \A r \in Ref : Truthful(r) => Truthful(r)' BY <2>1, <2>2 DEF Truthful, Ref
 <2>4. s # NoHead BY ReferencesAssumption DEF NoHead
 <2>5. \A r \in Ref : Truthful(r) => ~IsHead(r)' BY <1>4, <2>1, <2>2, <2>4 DEF IsHead, Truthful, headRevision, Ref
 <2>6. HeadLast(refs)' BY <1>1, <2>5 DEF HeadLast
 <2>7. /\ \A r \in receipts : Truthful(r)'
       /\ \A i \in DOMAIN refs : Truthful(refs[i])' BY <1>1, <2>3 DEF RefInv, RefTypes
 <2>8. \A x \in Saves : revision'[x] # 0 => state'[x] = "committed" BY <2>2 DEF RefInv
 <2> QED BY <1>1, <1>2, <2>2, <2>6, <2>7, <2>8 DEF RefInv, OneEach
<1> QED BY <1>3, <1>4 DEF Advance

\* A receipt is taken; it is as true as the record it is taken of.
LEMMA TakenKeeps ==
  ASSUME RefInv, NEW ref \in Ref, Truthful(ref), Taken(ref)
  PROVE  RefInv' /\ NothingUnlearned
<1>1. UNCHANGED <<state, revision, headSave, refs>> /\ receipts' = receipts \cup {ref} BY DEF Taken
<1>2. \A r : (IsHead(r)' <=> IsHead(r)) /\ (Truthful(r)' <=> Truthful(r)) BY <1>1 DEF IsHead, headRevision, Truthful
<1>3. RefTypes' BY <1>1 DEF RefInv, RefTypes
<1> QED BY <1>1, <1>2, <1>3 DEF RefInv, NothingUnlearned, OneEach, HeadLast

LEMMA ReceiptKeeps == ASSUME RefInv, NEW s \in Saves, TakeReceipt(s) PROVE RefInv' /\ NothingUnlearned
<1> DEFINE a == state[s] \in {"ready", "committed", "conflict"}
           o == IF state[s] = "ready" THEN "unknown" ELSE state[s]
           ref == [op |-> s, artifact |-> a, named |-> TRUE, revision |-> revision[s], outcome |-> o]
<1>1. /\ o \in Outcomes /\ revision[s] \in Nat /\ a \in BOOLEAN /\ (revision[s] # 0 => a) /\ (o = "committed" => a)
      /\ Taken(ref) BY DEF TakeReceipt, RefInv, RefTypes, Outcomes
<1> HIDE DEF a, o
<1>2. ref \in Ref /\ Truthful(ref) BY <1>1 DEF Ref, Truthful, IsCommitted
<1> QED BY <1>1, <1>2, TakenKeeps

LEMMA ResolveKeeps == ASSUME RefInv, Resolve PROVE RefInv' /\ NothingUnlearned
<1> DEFINE ref == [op |-> headSave, artifact |-> TRUE, named |-> TRUE, revision |-> revision[headSave], outcome |-> "saved"]
<1>1. headSave \in Saves /\ revision[headSave] \in Nat /\ Taken(ref) BY DEF Resolve, RefInv, RefTypes
<1>2. ref \in Ref /\ Truthful(ref) BY <1>1 DEF Ref, Truthful, IsCommitted, Outcomes
<1> QED BY <1>1, <1>2, TakenKeeps

LEMMA InspectKeeps == ASSUME RefInv, NEW s \in Saves, Inspect(s) PROVE RefInv' /\ NothingUnlearned
<1>1. CASE Taken([op |-> s, artifact |-> TRUE, named |-> FALSE, revision |-> 0, outcome |-> "saved"])
 <2> DEFINE ref == [op |-> s, artifact |-> TRUE, named |-> FALSE, revision |-> 0, outcome |-> "saved"]
 <2>1. ref \in Ref /\ Truthful(ref) BY DEF Ref, Truthful, IsCommitted, Outcomes
 <2> QED BY <1>1, <2>1, TakenKeeps
<1>2. ASSUME NEW i \in DOMAIN refs, refs[i].op = s,
             Taken([op |-> s, artifact |-> TRUE, named |-> TRUE, revision |-> refs[i].revision, outcome |-> "saved"])
      PROVE  RefInv' /\ NothingUnlearned
 <2> DEFINE ref == [op |-> s, artifact |-> TRUE, named |-> TRUE, revision |-> refs[i].revision, outcome |-> "saved"]
 <2>1. refs[i] \in Ref /\ Truthful(refs[i])
  <3>1. refs \in Seq(Ref) /\ \A k \in DOMAIN refs : Truthful(refs[k]) BY DEF RefInv, RefTypes
  <3> QED BY <3>1, ListFacts
 <2>2. ref \in Ref /\ Truthful(ref) BY <1>2, <2>1 DEF Ref, Truthful, IsCommitted, Outcomes
 <2> QED BY <1>2, <2>2, TakenKeeps
<1> QED BY <1>1, <1>2 DEF Inspect

LEMMA ReferencesStep == RefInv /\ [ReferencesNext]_refVars => RefInv' /\ NothingUnlearned
<1> SUFFICES ASSUME RefInv, [ReferencesNext]_refVars PROVE RefInv' /\ NothingUnlearned OBVIOUS
<1>1. CASE \E s \in Saves : Advance(s) BY <1>1, OperationAdvances
<1>2. CASE \E s \in Saves : TakeReceipt(s) BY <1>2, ReceiptKeeps
<1>3. CASE \E s \in Saves : Inspect(s) BY <1>3, InspectKeeps
<1>4. CASE Resolve BY <1>4, ResolveKeeps
<1>5. CASE \E ref \in receipts : Remember(ref) BY <1>5, RememberKeeps
<1>6. CASE UNCHANGED refVars
 <2>1. UNCHANGED <<state, revision, headSave, receipts, refs>> BY <1>6 DEF refVars
 <2>2. \A r : (IsHead(r)' <=> IsHead(r)) /\ (Truthful(r)' <=> Truthful(r)) BY <2>1 DEF IsHead, headRevision, Truthful
 <2> QED BY <2>1, <2>2 DEF RefInv, RefTypes, NothingUnlearned, OneEach, HeadLast
<1> QED BY <1>1, <1>2, <1>3, <1>4, <1>5, <1>6 DEF ReferencesNext

\* Whatever order receipts are stored in, the head's reference stays the last one with a
\* name, and what is listed of a result is never less than what was (remember's merge).
THEOREM ReferencesStayRight == ReferencesSpec => ReferencesHold
<1>1. ReferencesInit => RefInv BY ReferencesInitially
<1>2. RefInv /\ [ReferencesNext]_refVars => RefInv' BY ReferencesStep
<1>3. RefInv /\ RefInv' /\ [ReferencesNext]_refVars => [HeadIsLast' /\ NothingUnlearned]_refVars
  BY ReferencesStep DEF RefInv, HeadLast, HeadIsLast
<1> QED BY <1>1, <1>2, <1>3, PTL DEF ReferencesSpec, ReferencesHold

--------------------
\* FileCaptures: sources, what keeps them, and what their receipts say

Fresh(s) == s \notin blob /\ rec[s] = Null /\ pub[s] = Null
Unpublished == {"claimed", "leased", "queued", "copying", "hashing", "reading", "staged"}
InPublication == {"journalled", "renamed"}
OpenJobs == {"accepted", "queued", "running"}

CapTypes ==
    /\ rec \in [Sources -> {Null, "live", "evicting", "evicted"}]
    /\ pub \in [Sources -> {Null, "publishing", "indeterminate", "committed", "aborting", "aborted"}]
    /\ job \in [Sources -> {Null} \cup OpenJobs \cup Terminal]
    /\ at \in [Sources -> Unpublished \cup InPublication \cup {Null, "published", "failing", "late", "settled", "kept"}]
    /\ holds \in [Sources -> SUBSET (Sources \cup {"initial", "client"})]
    /\ inputs \in [Indexes -> SUBSET Captures] /\ target \in [Sources -> Captures \cup {Null}]
    /\ blob \subseteq Sources /\ evict \subseteq Captures /\ lease \subseteq Captures /\ queue \in Seq(Captures)
    /\ phase \in {"up", "booting"}

\* A source's file, its record, its publication, its job and its receipt agree.
Sound(s) ==
    /\ rec[s] # Null => pub[s] = "committed"
    /\ rec[s] = "live" => s \in blob
    /\ s \in blob => rec[s] \in {"live", "evicting"} \/ pub[s] \in Unresolved
    /\ job[s] = Null => Fresh(s) /\ at[s] = Null
    /\ at[s] \in Unpublished => Fresh(s)
    /\ at[s] \in Unpublished \cup InPublication => job[s] \in OpenJobs
    /\ at[s] \in InPublication => pub[s] = "publishing" /\ rec[s] = Null
    /\ at[s] = "renamed" => s \in blob
    /\ at[s] = "published" => pub[s] \in {Null, "committed"}
    /\ at[s] = "failing" /\ s \notin doubt => Fresh(s)
    /\ at[s] = "late" => s \in doubt
    /\ job[s] = "succeeded" => pub[s] \in {Null, "committed"}
    /\ job[s] \in {"failed", "cancelled"} /\ s \notin doubt => Fresh(s)
    /\ s \in unres => pub[s] \in Unresolved \cup {"aborting"}

\* A publication under way has the retention lock; recovery has it alone.
Locked == \A s \in Sources : at[s] \in InPublication => retention = s
Booting == (unres # {} => phase = "booting") /\ (phase = "booting" => \A s \in Sources : at[s] = Null)

\* The lease an admission took lasts until its hash is queued.
LeasedStays == \A c \in Captures : at[c] = "leased" => target[c] \in lease

Line == /\ \A i \in 1..Len(queue) : at[queue[i]] = "queued"
        /\ \A i, j \in 1..Len(queue) : queue[i] = queue[j] => i = j

Named(s) == \E r \in reading : r[2] = s
Kept(c) == c \in lease \/ holds[c] # {} \/ Named(c)

\* What a sweep has still to evict nobody keeps: who would, waits for the sweep.
SweptIsFree ==
    /\ evict # {} => retention = "sweep"
    /\ \A c \in evict :
         /\ rec[c] \in {"live", "evicting"}
         /\ rec[c] = "live" => ~Kept(c) /\ \A x \in Indexes : c \in inputs[x] => <<"client", x>> \notin reading

\* RetainedStays, in these words.
KeptIsLive == \A c \in Captures : Kept(c) => rec[c] = "live" /\ c \in blob
ReadIsLive == \A x \in Indexes : <<"client", x>> \in reading => \A s \in {x} \cup inputs[x] : rec[s] = "live" /\ s \in blob

Counted(s) == rec[s] \in {"live", "evicting"} \/ pub[s] \in Unresolved \/ s \in reserved

CapInv == /\ CapTypes /\ (\A s \in Sources : Sound(s)) /\ Locked /\ Booting /\ LeasedStays /\ Line
          /\ KeptIsLive /\ ReadIsLive /\ SweptIsFree /\ Usage <= RetainedMax

\* How many count, however that is said.
LEMMA UsageCounts ==
  /\ Usage = Cardinality({s \in Sources : Counted(s)}) /\ IsFiniteSet({s \in Sources : Counted(s)})
  /\ Usage \in Nat
<1>1. Usage = Cardinality({s \in Sources : Counted(s)}) BY DEF Usage, Counted
<1>2. IsFiniteSet(Sources) BY CapturesAssumption, FS_Union DEF Sources
<1>3. IsFiniteSet({s \in Sources : Counted(s)}) BY <1>2, FS_Subset
<1> QED BY <1>1, <1>3, FS_CardinalityType

LEMMA UsageKeeps ==
  ASSUME Usage <= RetainedMax, \A s \in Sources : Counted(s)' => Counted(s)
  PROVE  Usage' <= RetainedMax
<1> DEFINE A == {s \in Sources : Counted(s)}
           B == {s \in Sources : Counted(s)'}
<1>1. Usage = Cardinality(A) /\ IsFiniteSet(A) /\ Usage \in Nat BY UsageCounts
<1>2. Usage' = Cardinality(B) BY DEF Usage, Counted
<1>3. B \subseteq A OBVIOUS
<1> HIDE DEF A, B
<1>4. Cardinality(B) <= Cardinality(A) /\ Cardinality(B) \in Nat BY <1>1, <1>3, FS_Subset, FS_CardinalityType
<1> QED BY <1>1, <1>2, <1>4, CapturesAssumption

\* One more counts: there was room for it.
LEMMA UsageAdds ==
  ASSUME Usage <= RetainedMax, NEW s \in Sources, Counted(s) \/ Usage < RetainedMax,
         \A t \in Sources : Counted(t)' => Counted(t) \/ t = s
  PROVE  Usage' <= RetainedMax
<1> DEFINE A == {t \in Sources : Counted(t)}
           B == {t \in Sources : Counted(t)'}
<1>1. CASE Counted(s) BY <1>1, UsageKeeps
<1>2. CASE ~Counted(s)
 <2>1. Usage = Cardinality(A) /\ IsFiniteSet(A) /\ Usage \in Nat BY UsageCounts
 <2>2. Usage' = Cardinality(B) BY DEF Usage, Counted
 <2>3. B \subseteq A \cup {s} OBVIOUS
 <2> HIDE DEF A, B
 <2>4. IsFiniteSet(A \cup {s}) /\ Cardinality(A \cup {s}) <= Cardinality(A) + 1
  <3>1. /\ IsFiniteSet(A \cup {s}) /\ Cardinality(A) \in Nat
        /\ Cardinality(A \cup {s}) = IF s \in A THEN Cardinality(A) ELSE Cardinality(A) + 1
    BY <2>1, FS_AddElement, FS_CardinalityType
  <3> QED BY <3>1
 <2>5. /\ Cardinality(B) <= Cardinality(A \cup {s}) /\ Cardinality(B) \in Nat
       /\ Cardinality(A \cup {s}) \in Nat BY <2>3, <2>4, FS_Subset, FS_CardinalityType
 <2> QED BY <1>2, <2>1, <2>2, <2>4, <2>5, CapturesAssumption
<1> QED BY <1>1, <1>2

LEMMA CapturesInitially == CapturesInit => CapInv
<1> SUFFICES ASSUME CapturesInit PROVE CapInv OBVIOUS
<1>1. queue \in Seq(Captures) /\ Len(queue) = 0 BY EmptySeq DEF CapturesInit
<1>2. CapTypes /\ \A s \in Sources : Sound(s)
  BY <1>1 DEF CapturesInit, CapTypes, Sound, Fresh, Unpublished, InPublication, OpenJobs, Terminal, Unresolved, Null
<1>3. Locked /\ Booting /\ LeasedStays /\ KeptIsLive /\ ReadIsLive /\ SweptIsFree
  BY DEF CapturesInit, Locked, Booting, LeasedStays, KeptIsLive, ReadIsLive, SweptIsFree, Kept, Named, InPublication, Null, Sources
<1>4. Line BY <1>1 DEF Line
<1>5. Usage <= RetainedMax
 <2>1. {s \in Sources : Counted(s)} = {} BY DEF CapturesInit, Counted, Unresolved, Null
 <2>2. Usage = 0 BY <2>1, UsageCounts, FS_EmptySet
 <2> QED BY <2>2, CapturesAssumption
<1> QED BY <1>2, <1>3, <1>4, <1>5 DEF CapInv

\* The queue: unchanged, and what stands in it still queued.
LEMMA LineStands ==
  ASSUME CapInv, queue' = queue, \A s \in Sources : at[s] = "queued" => at'[s] = "queued"
  PROVE  Line'
<1>1. \A i \in 1..Len(queue) : queue[i] \in Sources
 <2>1. ASSUME NEW i \in 1..Len(queue) PROVE queue[i] \in Sources BY ElementOfSeq DEF CapInv, CapTypes, Sources
 <2> QED BY <2>1
<1> QED BY <1>1 DEF CapInv, Line

\* What is kept less than before, of what is as it was.
LEMMA KeptLess ==
  ASSUME CapInv, UNCHANGED <<blob, rec, inputs, evict, retention>>, lease' \subseteq lease, reading' \subseteq reading,
         \A s \in Sources : holds'[s] \subseteq holds[s]
  PROVE  KeptIsLive' /\ ReadIsLive' /\ SweptIsFree'
<1>1. \A s \in Sources : Kept(s)' => Kept(s) BY DEF Kept, Named
<1>2. Captures \subseteq Sources /\ evict \subseteq Sources BY DEF CapInv, CapTypes, Sources
<1>3. KeptIsLive' BY <1>1, <1>2 DEF CapInv, KeptIsLive
<1>4. ReadIsLive' BY DEF CapInv, ReadIsLive
<1>5. SweptIsFree' BY <1>1, <1>2 DEF CapInv, SweptIsFree
<1> QED BY <1>3, <1>4, <1>5

\* A step of one source's task, which no publication is under way of after it.
LEMMA TaskStep ==
  ASSUME CapInv, NEW s \in Sources, phase = "up",
         UNCHANGED <<blob, rec, pub, lease, holds, inputs, reading, retention, evict, phase, unres>>,
         reserved' \subseteq reserved, CapTypes',
         \A t \in Sources \ {s} : at'[t] = at[t] /\ job'[t] = job[t] /\ (t \in doubt' <=> t \in doubt) /\ target'[t] = target[t],
         Sound(s)', at'[s] \notin InPublication \cup {"leased"}, Line'
  PROVE  CapInv'
<1>1. \A t \in Sources : Sound(t)'
 <2>1. ASSUME NEW t \in Sources, t # s PROVE Sound(t)' BY <2>1 DEF CapInv, Sound, Fresh
 <2> QED BY <2>1
<1>2. Locked' /\ Booting' /\ LeasedStays' BY DEF CapInv, Locked, Booting, LeasedStays, Sources
<1>3. KeptIsLive' /\ ReadIsLive' /\ SweptIsFree' BY KeptLess
<1>4. Usage' <= RetainedMax BY UsageKeeps DEF CapInv, Counted
<1> QED BY <1>1, <1>2, <1>3, <1>4 DEF CapInv

\* A step that only changes what is kept.
LEMMA KeepStep ==
  ASSUME CapInv, UNCHANGED <<blob, rec, pub, inputs, reserved, job, doubt, at, target, queue, retention, evict, phase, unres>>,
         holds' \in [Sources -> SUBSET (Sources \cup {"initial", "client"})], lease' \subseteq Captures,
         KeptIsLive', ReadIsLive', SweptIsFree', LeasedStays'
  PROVE  CapInv'
<1>1. CapTypes' /\ \A t \in Sources : Sound(t)' BY DEF CapInv, CapTypes, Sound, Fresh
<1>2. Locked' /\ Booting' /\ Line' BY LineStands DEF CapInv, Locked, Booting
<1>3. Usage' <= RetainedMax BY UsageKeeps DEF CapInv, Counted
<1> QED BY <1>1, <1>2, <1>3 DEF CapInv

--------------------
\* What stands of a source, and what the constants keep apart.
LEMMA SourceFacts ==
  ASSUME CapInv, NEW s \in Sources
  PROVE  /\ Sound(s) /\ (at[s] # Null => phase = "up" /\ unres = {}) /\ DOMAIN at = Sources /\ DOMAIN job = Sources
         /\ DOMAIN rec = Sources /\ DOMAIN pub = Sources /\ DOMAIN target = Sources /\ DOMAIN holds = Sources
         /\ s \notin {Null, "sweep", "client", "initial"}
<1>1. s \notin {Null, "sweep", "client", "initial"} BY CapturesAssumption DEF Sources, Null
<1> QED BY <1>1 DEF CapInv, CapTypes, Booting

\* A capture joins the end of the queue.
LEMMA EnqueueLine ==
  ASSUME CapInv, NEW c \in Captures, Enqueue(c), at[c] # "queued"
  PROVE  /\ Line' /\ queue' \in Seq(Captures) /\ at' = [at EXCEPT ![c] = "queued"] /\ job' = [job EXCEPT ![c] = "queued"]
         /\ at'[c] = "queued" /\ job'[c] = "queued" /\ \A t \in Sources \ {c} : at'[t] = at[t] /\ job'[t] = job[t]
<1>1. c \in Sources /\ DOMAIN at = Sources /\ DOMAIN job = Sources /\ Sources = Captures \cup Indexes
  BY DEF CapInv, CapTypes, Sources
<1>2. at' = [at EXCEPT ![c] = "queued"] /\ job' = [job EXCEPT ![c] = "queued"] BY DEF Enqueue, Go, Set
<1>3. at'[c] = "queued" /\ job'[c] = "queued" /\ \A t \in Sources \ {c} : at'[t] = at[t] /\ job'[t] = job[t]
  BY <1>1, <1>2
<1>4. /\ queue' \in Seq(Captures) /\ Len(queue') = Len(queue) + 1 /\ Len(queue) \in Nat /\ queue'[Len(queue) + 1] = c
      /\ \A i \in 1..Len(queue) : queue'[i] = queue[i] /\ queue[i] \in Captures
 <2>1. queue \in Seq(Captures) /\ queue' = Append(queue, c) BY DEF Enqueue, CapInv, CapTypes
 <2>2. \A i \in 1..Len(queue) : queue[i] \in Captures
  <3>1. ASSUME NEW i \in 1..Len(queue) PROVE queue[i] \in Captures BY <2>1, ElementOfSeq
  <3> QED BY <3>1
 <2> QED BY <2>1, <2>2, AppendProperties, LenProperties
<1>5. \A i \in 1..Len(queue) : queue[i] # c /\ queue[i] \in Sources BY <1>1, <1>4 DEF CapInv, Line
<1>6. \A i \in 1..Len(queue') : at'[queue'[i]] = "queued" BY <1>3, <1>4, <1>5 DEF CapInv, Line
<1>7. \A i, j \in 1..Len(queue') : queue'[i] = queue'[j] => i = j BY <1>4, <1>5 DEF CapInv, Line
<1> QED BY <1>2, <1>3, <1>4, <1>6, <1>7 DEF Line

\* An admission that queues its capture.
LEMMA EnqueueKeeps ==
  ASSUME CapInv, NEW c \in Captures, phase = "up", Enqueue(c), at[c] \in {"claimed", Null}, Fresh(c), c \notin unres,
         UNCHANGED <<bytes, meta, store, target, doubt>>
  PROVE  CapInv'
<1>1. c \in Sources /\ at[c] # "queued" BY DEF Sources, Null
<1>2. UNCHANGED <<blob, rec, pub, lease, holds, inputs, reserved, reading, retention, evict, phase, unres, target, doubt>>
  BY DEF bytes, meta, store
<1>3. /\ Line' /\ queue' \in Seq(Captures) /\ at' = [at EXCEPT ![c] = "queued"] /\ job' = [job EXCEPT ![c] = "queued"]
      /\ at'[c] = "queued" /\ job'[c] = "queued" /\ \A t \in Sources \ {c} : at'[t] = at[t] /\ job'[t] = job[t]
  BY <1>1, EnqueueLine
<1>4. CapTypes' BY <1>1, <1>2, <1>3 DEF CapInv, CapTypes, OpenJobs, Unpublished
<1>5. Sound(c)' BY <1>2, <1>3 DEF Sound, Fresh, Unpublished, InPublication, OpenJobs, Null
<1>6. at'[c] \notin InPublication \cup {"leased"} BY <1>3 DEF InPublication
<1> QED BY <1>1, <1>2, <1>3, <1>4, <1>5, <1>6, TaskStep

LEMMA QueueCaptureKeeps == ASSUME CapInv, NEW c \in Captures, QueueCapture(c) PROVE CapInv'
<1>1. at[c] = "claimed" /\ Enqueue(c) /\ UNCHANGED <<bytes, meta, store, target, doubt>> /\ c \in Sources
  BY DEF QueueCapture, Sources
<1>2. phase = "up" /\ Fresh(c) /\ c \notin unres BY <1>1, SourceFacts DEF Sound, Unpublished, Null
<1> QED BY <1>1, <1>2, EnqueueKeeps

LEMMA RetainStagedKeeps == ASSUME CapInv, NEW c \in Captures, RetainStaged(c) PROVE CapInv'
<1>1. phase = "up" /\ job[c] = Null /\ Enqueue(c) /\ UNCHANGED <<bytes, meta, store, target, doubt>> /\ c \in Sources
  BY DEF RetainStaged, Sources
<1>2. Fresh(c) /\ c \notin unres /\ at[c] = Null BY <1>1, SourceFacts DEF Sound, Fresh, Unresolved, Null
<1> QED BY <1>1, <1>2, EnqueueKeeps

\* A new admission: claimed, or staged at once.
LEMMA Admitted ==
  ASSUME CapInv, NEW c \in Captures, phase = "up", job[c] = Null, NEW j \in OpenJobs, NEW w \in {"claimed", "copying"},
         job' = [job EXCEPT ![c] = j], at' = [at EXCEPT ![c] = w], UNCHANGED <<bytes, meta, store, target, doubt, queue>>
  PROVE  CapInv'
<1>1. c \in Sources /\ Fresh(c) /\ at[c] = Null /\ c \notin unres /\ DOMAIN at = Sources /\ DOMAIN job = Sources
 <2>1. c \in Sources BY DEF Sources
 <2> QED BY <2>1, SourceFacts DEF Sound, Fresh, Unresolved, Null
<1>2. UNCHANGED <<blob, rec, pub, lease, holds, inputs, reserved, reading, retention, evict, phase, unres, target, doubt, queue>>
  BY DEF bytes, meta, store
<1>3. at'[c] = w /\ job'[c] = j /\ \A t \in Sources \ {c} : at'[t] = at[t] /\ job'[t] = job[t] BY <1>1
<1>4. CapTypes' BY <1>2 DEF CapInv, CapTypes, OpenJobs, Unpublished
<1>5. Sound(c)' BY <1>1, <1>2, <1>3 DEF Sound, Fresh, Unpublished, InPublication, OpenJobs, Null
<1>6. Line' BY <1>1, <1>2, <1>3, LineStands DEF Null
<1>7. at'[c] \notin InPublication \cup {"leased"} BY <1>3 DEF InPublication
<1> QED BY <1>1, <1>2, <1>3, <1>4, <1>5, <1>6, <1>7, TaskStep

LEMMA ClaimKeeps == ASSUME CapInv, NEW c \in Captures, Claim(c) PROVE CapInv'
<1>1. /\ phase = "up" /\ job[c] = Null /\ job' = [job EXCEPT ![c] = "accepted"] /\ at' = [at EXCEPT ![c] = "claimed"]
      /\ UNCHANGED <<bytes, meta, store, target, doubt, queue>> BY DEF Claim, Go, Set
<1> QED BY <1>1, Admitted DEF OpenJobs

LEMMA PreviewKeeps == ASSUME CapInv, NEW c \in Captures, Preview(c) PROVE CapInv'
<1>1. /\ phase = "up" /\ job[c] = Null /\ job' = [job EXCEPT ![c] = "running"] /\ at' = [at EXCEPT ![c] = "copying"]
      /\ UNCHANGED <<bytes, meta, store, target, doubt, queue>> BY DEF Preview, Go, Set
<1> QED BY <1>1, Admitted DEF OpenJobs

\* A task's source moves on; what is protected, and who keeps it, is as it was.
LEMMA Moved ==
  ASSUME CapInv, NEW s \in Sources, at[s] \notin {Null, "queued"}, NEW w, NEW j, NEW g,
         at' = [at EXCEPT ![s] = w], job' = [job EXCEPT ![s] = j], target' = [target EXCEPT ![s] = g],
         w \in Unpublished \cup {Null, "published", "failing", "late", "settled", "kept"}, w # "leased",
         j \in {Null} \cup OpenJobs \cup Terminal, g \in Captures \cup {Null}, doubt' \in {doubt, doubt \cup {s}},
         UNCHANGED <<blob, rec, pub, lease, holds, inputs, reserved, reading, retention, evict, phase, unres, queue>>,
         Sound(s)'
  PROVE  CapInv'
<1>1. /\ phase = "up" /\ at'[s] = w /\ job'[s] = j
      /\ \A t \in Sources \ {s} : at'[t] = at[t] /\ job'[t] = job[t] /\ (t \in doubt' <=> t \in doubt) /\ target'[t] = target[t]
  BY SourceFacts
<1>2. CapTypes' BY DEF CapInv, CapTypes
<1>3. Line' BY <1>1, LineStands
<1>4. at'[s] \notin InPublication \cup {"leased"} BY <1>1 DEF InPublication, Unpublished, Null
<1> QED BY <1>1, <1>2, <1>3, <1>4, TaskStep

LEMMA Same == ASSUME CapInv, NEW s \in Sources PROVE job = [job EXCEPT ![s] = job[s]] /\ target = [target EXCEPT ![s] = target[s]]
                     /\ job[s] \in {Null} \cup OpenJobs \cup Terminal /\ target[s] \in Captures \cup {Null}
BY DEF CapInv, CapTypes

LEMMA RefuseKeeps == ASSUME CapInv, NEW c \in Captures, RefuseCapture(c) PROVE CapInv'
<1>1. /\ at[c] = "claimed" /\ job' = [job EXCEPT ![c] = "failed"] /\ at' = [at EXCEPT ![c] = Null] /\ doubt' = doubt
      /\ target' = target
      /\ UNCHANGED <<blob, rec, pub, lease, holds, inputs, reserved, reading, retention, evict, phase, unres, queue>>
  BY DEF RefuseCapture, Go, Set, bytes, meta, store
<1>2. c \in Sources /\ Sound(c) /\ DOMAIN at = Sources /\ DOMAIN job = Sources
 <2>1. c \in Sources BY DEF Sources
 <2> QED BY <2>1, SourceFacts
<1>3. Sound(c)' BY <1>1, <1>2 DEF Sound, Fresh, Unpublished, InPublication, OpenJobs, Null
<1> QED BY <1>1, <1>2, <1>3, Same, Moved DEF Terminal, Null

\* A task's bytes are staged, or it fails before they can be seen.
LEMMA BytesStagedKeeps ==
  ASSUME CapInv, NEW s \in Sources, at[s] = "copying", StageBytes(s),
         UNCHANGED <<blob, meta, jobs, queue, reading, retention, evict, phase, unres>>
  PROVE  CapInv'
<1>1. PICK w \in {"staged", "failing"} : at' = [at EXCEPT ![s] = w] BY DEF StageBytes, Go, Set
<1>2. UNCHANGED <<blob, rec, pub, lease, holds, inputs, reserved, reading, retention, evict, phase, unres, queue, job, target, doubt>>
  BY DEF meta, jobs
<1>3. Sound(s)' BY <1>1, <1>2, SourceFacts DEF Sound, Fresh, Unpublished, InPublication, OpenJobs, Null
<1> QED BY <1>1, <1>2, <1>3, Same, Moved DEF Unpublished, Null

LEMMA CopyKeeps ==
  ASSUME CapInv, NEW c \in Captures, CaptureTask(c) \/ Retain(c) \/ PreviewRequest(c)
  PROVE  CapInv'
<1>1. /\ at[c] = "copying" /\ StageBytes(c) /\ c \in Sources
      /\ UNCHANGED <<blob, meta, jobs, queue, reading, retention, evict, phase, unres>>
  BY DEF CaptureTask, Retain, PreviewRequest, CopyOf, Sources
<1> QED BY <1>1, BytesStagedKeeps

LEMMA SucceedKeeps == ASSUME CapInv, NEW s \in Sources, Succeed(s) PROVE CapInv'
<1>1. /\ at[s] = "published" /\ target' = target
      /\ UNCHANGED <<blob, rec, pub, lease, holds, inputs, reserved, reading, retention, evict, phase, unres, queue>>
  BY DEF Succeed, bytes, meta, store
<1>2. PICK j \in {"succeeded", job[s]}, w \in {"settled", "late"} :
        /\ job' = [job EXCEPT ![s] = j] /\ at' = [at EXCEPT ![s] = w] /\ doubt' \in {doubt, doubt \cup {s}}
        /\ w = "settled" => j = "succeeded" /\ doubt' = doubt
        /\ w = "late" => j = job[s] /\ doubt' = doubt \cup {s}
 <2>1. CASE job' = [job EXCEPT ![s] = "succeeded"] /\ at' = [at EXCEPT ![s] = "settled"] /\ doubt' = doubt BY <2>1
 <2>2. CASE job' = job /\ at' = [at EXCEPT ![s] = "late"] /\ doubt' = doubt \cup {s} BY <2>2, Same
 <2> QED BY <2>1, <2>2 DEF Succeed, Go, Set
<1>3. Sound(s)' BY <1>1, <1>2, SourceFacts DEF Sound, Fresh, Unpublished, InPublication, OpenJobs, Null
<1>4. j \in {Null} \cup OpenJobs \cup Terminal /\ w \in {"settled", "late"} /\ target' = [target EXCEPT ![s] = target[s]]
      /\ target[s] \in Captures \cup {Null} BY <1>1, Same DEF Terminal
<1>5. at[s] \notin {Null, "queued"} /\ w # "leased" BY <1>1, <1>4 DEF Null
<1> QED BY <1>1, <1>2, <1>3, <1>4, <1>5, Moved

LEMMA TaskFailKeeps == ASSUME CapInv, NEW s \in Sources, FailTask(s) PROVE CapInv'
<1>1. /\ at[s] \in {"failing", "late"} /\ target' = target /\ doubt' = doubt
      /\ UNCHANGED <<blob, rec, pub, lease, holds, inputs, reserved, reading, retention, evict, phase, unres, queue>>
  BY DEF FailTask, bytes, meta, store
<1>2. PICK j \in {"cancelled", "failed", job[s]}, w \in {"kept", "settled", Null} :
        job' = [job EXCEPT ![s] = j] /\ at' = [at EXCEPT ![s] = w] BY Same DEF FailTask, Go, Set
<1>3. Sound(s)' BY <1>1, <1>2, SourceFacts DEF Sound, Fresh, Unpublished, InPublication, OpenJobs, Null
<1>4. j \in {Null} \cup OpenJobs \cup Terminal /\ w \in {"kept", "settled", Null} /\ target' = [target EXCEPT ![s] = target[s]]
      /\ target[s] \in Captures \cup {Null} BY <1>1, Same DEF Terminal
<1>5. at[s] \notin {Null, "queued"} /\ w # "leased" /\ doubt' \in {doubt, doubt \cup {s}} BY <1>1, <1>4 DEF Null
<1> QED BY <1>1, <1>2, <1>3, <1>4, <1>5, Moved

\* A step of one source, whatever it changes of it.
LEMMA SourceStep ==
  ASSUME CapInv, NEW s \in Sources, phase = "up", phase' = phase, unres' = unres, CapTypes',
         \A t \in Sources \ {s} : /\ at'[t] = at[t] /\ job'[t] = job[t] /\ rec'[t] = rec[t] /\ pub'[t] = pub[t]
                                  /\ (t \in doubt' <=> t \in doubt) /\ (t \in blob' <=> t \in blob),
         Sound(s)', Locked', LeasedStays', Line', KeptIsLive', ReadIsLive', SweptIsFree', Usage' <= RetainedMax
  PROVE  CapInv'
<1>1. ASSUME NEW t \in Sources, t # s PROVE Sound(t)' BY <1>1 DEF CapInv, Sound, Fresh
<1>2. Booting' BY DEF CapInv, Booting
<1> QED BY <1>1, <1>2 DEF CapInv

\* While the retention lock is free nothing is published and nothing evicted.
LEMMA FreeFacts == ASSUME CapInv, Free PROVE phase = "up" /\ retention = Null /\ evict = {} /\ \A t \in Sources : at[t] \notin InPublication
<1>1. \A t \in Sources : t # Null BY SourceFacts
<1> QED BY <1>1 DEF Free, CapInv, SweptIsFree, Locked, Null

\* What is kept more than before, while nothing is evicted.
LEMMA KeptMore ==
  ASSUME CapInv, evict' = {}, blob \subseteq blob', \A t \in Sources : rec[t] = "live" => rec'[t] = "live",
         \A c \in Captures : Kept(c)' => Kept(c) \/ (rec'[c] = "live" /\ c \in blob'),
         \A x \in Indexes : <<"client", x>> \in reading' =>
            /\ inputs'[x] = inputs[x]
            /\ <<"client", x>> \in reading \/ \A s \in {x} \cup inputs[x] : rec'[s] = "live" /\ s \in blob'
  PROVE  KeptIsLive' /\ ReadIsLive' /\ SweptIsFree'
<1>1. Captures \subseteq Sources /\ \A x \in Indexes : {x} \cup inputs[x] \subseteq Sources
  BY DEF CapInv, CapTypes, Sources
<1>2. KeptIsLive' BY <1>1 DEF CapInv, KeptIsLive
<1>3. ReadIsLive' BY <1>1 DEF CapInv, ReadIsLive
<1>4. SweptIsFree' BY DEF SweptIsFree
<1> QED BY <1>2, <1>3, <1>4

LEMMA TaskStartKeeps == ASSUME CapInv, NEW c \in Captures, StartTask(c) PROVE CapInv'
<1>1. /\ phase = "up" /\ queue # <<>> /\ c = Head(queue) /\ queue' = Tail(queue) /\ target' = target /\ doubt' = doubt
      /\ UNCHANGED <<blob, rec, pub, lease, holds, inputs, reserved, reading, retention, evict, phase, unres>>
  BY DEF StartTask, bytes, meta, store
<1>2. /\ queue \in Seq(Captures) /\ Len(queue) \in Nat \ {0} /\ queue' \in Seq(Captures) /\ Len(queue') = Len(queue) - 1
      /\ queue[1] = c /\ \A i \in 1..Len(queue') : queue'[i] = queue[i + 1]
 <2>1. queue \in Seq(Captures) BY DEF CapInv, CapTypes
 <2> QED BY <1>1, <2>1, HeadTailProperties, LenProperties, EmptySeq
<1>3. c \in Sources /\ Sources = Captures \cup Indexes /\ at[c] = "queued" BY <1>2 DEF CapInv, Line, Sources
<1>4. PICK w \in {"failing", "copying", "hashing"}, j \in {"running", job[c]} :
        at' = [at EXCEPT ![c] = w] /\ job' = [job EXCEPT ![c] = j]
 <2>1. job = [job EXCEPT ![c] = job[c]] BY <1>3, Same
 <2> QED BY <2>1 DEF StartTask, Go, Set
<1>5. at'[c] = w /\ job'[c] = j /\ \A t \in Sources \ {c} : at'[t] = at[t] /\ job'[t] = job[t]
  BY <1>3, <1>4, SourceFacts
<1>6. CapTypes' BY <1>1, <1>2, <1>3, <1>4, Same DEF CapInv, CapTypes, OpenJobs, Unpublished
<1>7. Sound(c)' BY <1>1, <1>3, <1>5, SourceFacts DEF Sound, Fresh, Unpublished, InPublication, OpenJobs, Null
<1>8. Line'
 <2>1. ASSUME NEW i \in 1..Len(queue')
       PROVE  i + 1 \in 1..Len(queue) /\ queue'[i] = queue[i + 1] /\ queue[i + 1] # c /\ queue[i + 1] \in Sources
  <3>1. i + 1 \in 1..Len(queue) /\ i + 1 # 1 /\ 1 \in 1..Len(queue) BY <1>2
  <3>2. queue[i + 1] # c BY <1>2, <3>1 DEF CapInv, Line
  <3>3. queue[i + 1] \in Captures BY <1>2, <3>1, ElementOfSeq
  <3> QED BY <1>2, <1>3, <3>1, <3>2, <3>3
 <2>2. \A i \in 1..Len(queue') : at'[queue'[i]] = "queued" BY <1>5, <2>1 DEF CapInv, Line
 <2>3. ASSUME NEW i \in 1..Len(queue'), NEW k \in 1..Len(queue'), queue'[i] = queue'[k] PROVE i = k
  <3>1. i + 1 = k + 1 BY <2>1, <2>3 DEF CapInv, Line
  <3> QED BY <1>2, <3>1
 <2> QED BY <2>2, <2>3 DEF Line
<1>9. c \in Sources /\ at'[c] \notin InPublication \cup {"leased"} /\ reserved' \subseteq reserved
  BY <1>1, <1>3, <1>5 DEF InPublication
<1> QED BY <1>1, <1>5, <1>6, <1>7, <1>8, <1>9, TaskStep

LEMMA ReleaseKeeps == ASSUME CapInv, NEW s \in Sources, Release(s) PROVE CapInv'
<1>1. /\ at[s] \in {"settled", "kept"} /\ at' = [at EXCEPT ![s] = Null] /\ target' = [target EXCEPT ![s] = Null]
      /\ reading' \subseteq reading /\ reserved' \subseteq reserved
      /\ UNCHANGED <<blob, rec, pub, lease, inputs, retention, evict, phase, unres, queue, job, doubt>>
  BY DEF Release, Go, Set, bytes, meta, store, jobs
<1>2. /\ holds' \in [Sources -> SUBSET (Sources \cup {"initial", "client"})]
      /\ \A t \in Sources : holds'[t] \subseteq holds[t] BY DEF Release, CapInv, CapTypes
<1>3. at[s] # Null /\ phase = "up" /\ DOMAIN at = Sources /\ DOMAIN target = Sources BY <1>1, SourceFacts DEF Null
<1>4. at'[s] = Null /\ \A t \in Sources \ {s} : at'[t] = at[t] /\ target'[t] = target[t] BY <1>1, <1>3
<1>5. CapTypes' BY <1>1, <1>2 DEF CapInv, CapTypes
<1>6. Sound(s)' BY <1>1, <1>4, SourceFacts DEF Sound, Fresh, Unpublished, InPublication, OpenJobs, Null
<1>7. Line' BY <1>1, <1>4, LineStands
<1>8. KeptIsLive' /\ ReadIsLive' /\ SweptIsFree' BY <1>1, <1>2, KeptLess
<1>9. Usage' <= RetainedMax BY <1>1, UsageKeeps DEF CapInv, Counted
<1>10. Locked' /\ LeasedStays' BY <1>1, <1>4 DEF CapInv, Locked, LeasedStays, InPublication, Null, Sources
<1> QED BY <1>1, <1>3, <1>4, <1>5, <1>6, <1>7, <1>8, <1>9, <1>10, SourceStep

LEMMA CancelKeeps == ASSUME CapInv, NEW s \in Sources, Cancel(s) PROVE CapInv'
<1>1. UNCHANGED <<blob, rec, pub, inputs, reserved, job, doubt, at, target, queue, retention, evict, phase, unres, lease, holds, reading>>
  BY DEF Cancel, bytes, meta, jobs, store
<1>2. KeptIsLive' /\ ReadIsLive' /\ SweptIsFree' BY <1>1, KeptLess
<1>3. holds' \in [Sources -> SUBSET (Sources \cup {"initial", "client"})] /\ lease' \subseteq Captures /\ LeasedStays'
  BY <1>1 DEF CapInv, CapTypes, LeasedStays
<1> QED BY <1>1, <1>2, <1>3, KeepStep

\* A published source is leased to one more admission.
LEMMA ReuseKeeps == ASSUME CapInv, NEW c \in Captures, NEW d \in Captures, ReuseSource(c, d) PROVE CapInv'
<1>1. /\ at[c] = "claimed" /\ Free /\ rec[d] = "live" /\ d \in blob /\ lease' = lease \cup {d} /\ c \in Sources
      /\ UNCHANGED <<blob, rec, pub, holds, inputs, reserved, reading, retention, evict, phase, unres, queue, doubt>>
  BY DEF ReuseSource, Usable, bytes, store, Sources
<1>2. /\ phase = "up" /\ evict = {} /\ DOMAIN at = Sources /\ DOMAIN job = Sources /\ DOMAIN target = Sources /\ Sound(c)
  BY <1>1, FreeFacts, SourceFacts
<1>3. PICK w \in {Null, "leased"}, j \in {"succeeded", job[c]}, g \in {d, target[c]} :
        /\ at' = [at EXCEPT ![c] = w] /\ job' = [job EXCEPT ![c] = j] /\ target' = [target EXCEPT ![c] = g]
        /\ (w = "leased" => g = d /\ j = job[c])
 <2>1. job = [job EXCEPT ![c] = job[c]] /\ target = [target EXCEPT ![c] = target[c]] BY <1>1, Same
 <2> QED BY <2>1 DEF ReuseSource, Go, Set, Null
<1>4. /\ at'[c] = w /\ job'[c] = j /\ target'[c] = g
      /\ \A t \in Sources \ {c} : at'[t] = at[t] /\ job'[t] = job[t] /\ target'[t] = target[t] BY <1>1, <1>2, <1>3
<1>5. CapTypes'
 <2>1. j \in {Null} \cup OpenJobs \cup Terminal /\ g \in Captures \cup {Null} BY <1>1, Same DEF Terminal
 <2> QED BY <1>1, <1>3, <2>1 DEF CapInv, CapTypes, Unpublished
<1>6. Sound(c)' BY <1>1, <1>2, <1>3, <1>4 DEF Sound, Fresh, Unpublished, InPublication, OpenJobs, Null
<1>7. Locked' /\ LeasedStays' /\ Line'
 <2>1. Line' BY <1>1, <1>4, LineStands
 <2>2. Locked' BY <1>1, <1>4 DEF CapInv, Locked, InPublication, Null
 <2>3. LeasedStays' BY <1>1, <1>3, <1>4 DEF CapInv, LeasedStays, Sources
 <2> QED BY <2>1, <2>2, <2>3
<1>8. KeptIsLive' /\ ReadIsLive' /\ SweptIsFree'
 <2>1. \A t \in Captures : Kept(t)' => Kept(t) \/ (rec'[t] = "live" /\ t \in blob') BY <1>1 DEF Kept, Named
 <2> QED BY <1>1, <1>2, <2>1, KeptMore
<1>9. Usage' <= RetainedMax BY <1>1, UsageKeeps DEF CapInv, Counted
<1> QED BY <1>1, <1>2, <1>4, <1>5, <1>6, <1>7, <1>8, <1>9, SourceStep

\* Its hash is queued; the record it is of was live, by the lease.
LEMMA QueueHashKeeps == ASSUME CapInv, NEW c \in Captures, QueueHash(c) PROVE CapInv'
<1> DEFINE d == target[c]
<1>1. /\ at[c] = "leased" /\ Enqueue(c) /\ c \in Sources /\ rec' = [rec EXCEPT ![d] = "live"] /\ holds' = [holds EXCEPT ![d] = @ \cup {c}]
      /\ UNCHANGED <<blob, pub, lease, inputs, reserved, reading, retention, evict, phase, unres, target, doubt>>
  BY DEF QueueHash, Set, bytes, store, Sources
<1>2. /\ phase = "up" /\ DOMAIN rec = Sources /\ DOMAIN holds = Sources /\ Sound(c) BY <1>1, SourceFacts DEF Null
<1>3. d \in Captures /\ d \in Sources /\ d \in lease /\ rec[d] = "live" /\ d \in blob
 <2>1. d \in lease BY <1>1 DEF CapInv, LeasedStays
 <2>2. d \in Captures BY <2>1 DEF CapInv, CapTypes
 <2>3. Kept(d) BY <2>1 DEF Kept
 <2> QED BY <2>1, <2>2, <2>3 DEF CapInv, KeptIsLive, Sources
<1>4. /\ Line' /\ queue' \in Seq(Captures) /\ at' = [at EXCEPT ![c] = "queued"] /\ job' = [job EXCEPT ![c] = "queued"]
      /\ at'[c] = "queued" /\ job'[c] = "queued" /\ \A t \in Sources \ {c} : at'[t] = at[t] /\ job'[t] = job[t]
  BY <1>1, EnqueueLine
<1> HIDE DEF d
<1>5. rec' = rec BY <1>1, <1>3 DEF CapInv, CapTypes
<1>6. CapTypes' BY <1>1, <1>3, <1>4, <1>5 DEF CapInv, CapTypes, OpenJobs, Unpublished
<1>7. Sound(c)' BY <1>1, <1>2, <1>4, <1>5 DEF Sound, Fresh, Unpublished, InPublication, OpenJobs, Null
<1>8. Locked' /\ LeasedStays' BY <1>1, <1>4 DEF CapInv, Locked, LeasedStays, InPublication, Sources
<1>9. KeptIsLive' /\ ReadIsLive' /\ SweptIsFree'
 <2>1. \A t \in Sources : Kept(t)' => Kept(t)
  <3>1. \A t \in Sources : t # d => holds'[t] = holds[t] BY <1>1, <1>2
  <3> QED BY <1>1, <1>3, <3>1 DEF Kept, Named
 <2>2. KeptIsLive' /\ ReadIsLive' BY <1>1, <1>5, <2>1 DEF CapInv, KeptIsLive, ReadIsLive, Sources
 <2>3. SweptIsFree'
  <3>1. evict \subseteq Sources BY DEF CapInv, CapTypes, Sources
  <3> QED BY <1>1, <1>5, <2>1, <3>1 DEF CapInv, SweptIsFree
 <2> QED BY <2>2, <2>3
<1>10. Usage' <= RetainedMax BY <1>1, <1>5, UsageKeeps DEF CapInv, Counted
<1> QED BY <1>1, <1>2, <1>4, <1>5, <1>6, <1>7, <1>8, <1>9, <1>10, SourceStep

\* An index is reserved, and its inputs held.
LEMMA ReserveKeeps == ASSUME CapInv, NEW x \in Indexes, NEW D \in SUBSET Captures, ReserveIndex(x, D) PROVE CapInv'
<1>1. /\ Free /\ job[x] = Null /\ (\A c \in D : rec[c] = "live" /\ c \in blob) /\ Usage < RetainedMax
      /\ inputs' = [inputs EXCEPT ![x] = D] /\ reserved' = reserved \cup {x}
      /\ holds' = [s \in Sources |-> IF s \in D THEN holds[s] \cup {x} ELSE holds[s]]
      /\ job' = [job EXCEPT ![x] = "queued"] /\ at' = [at EXCEPT ![x] = "copying"]
      /\ UNCHANGED <<blob, rec, pub, lease, reading, retention, evict, phase, unres, queue, doubt, target>>
  BY DEF ReserveIndex, Usable, Set, Go, bytes, store
<1>2. x \in Sources /\ Sources = Captures \cup Indexes /\ x \notin Captures BY CapturesAssumption DEF Sources
<1>3. /\ phase = "up" /\ evict = {} /\ DOMAIN at = Sources /\ DOMAIN job = Sources /\ Sound(x) /\ unres = {}
      /\ at[x] = Null /\ Fresh(x) /\ \A t \in Sources : at[t] \notin InPublication
 <2>1. phase = "up" /\ evict = {} /\ DOMAIN at = Sources /\ DOMAIN job = Sources /\ Sound(x)
       /\ \A t \in Sources : at[t] \notin InPublication BY <1>1, <1>2, FreeFacts, SourceFacts
 <2>2. unres = {} BY <2>1 DEF CapInv, Booting
 <2> QED BY <1>1, <2>1, <2>2 DEF Sound
<1>4. at'[x] = "copying" /\ job'[x] = "queued" /\ \A t \in Sources \ {x} : at'[t] = at[t] /\ job'[t] = job[t]
  BY <1>1, <1>2, <1>3
<1>5. CapTypes' BY <1>1, <1>2 DEF CapInv, CapTypes, OpenJobs, Unpublished
<1>6. Sound(x)' BY <1>1, <1>3, <1>4 DEF Sound, Fresh, Unpublished, InPublication, OpenJobs, Null
<1>7. Locked' /\ LeasedStays' /\ Line'
 <2>1. Line' BY <1>1, <1>3, <1>4, LineStands DEF Null
 <2> QED BY <1>1, <1>2, <1>3, <1>4, <2>1 DEF CapInv, Locked, LeasedStays, InPublication
<1>8. KeptIsLive' /\ ReadIsLive' /\ SweptIsFree'
 <2>1. \A c \in Captures : Kept(c)' => Kept(c) \/ (rec'[c] = "live" /\ c \in blob') BY <1>1, <1>2 DEF Kept, Named
 <2>2. \A y \in Indexes : <<"client", y>> \in reading' => inputs'[y] = inputs[y] /\ <<"client", y>> \in reading
  <3>1. <<"client", x>> \notin reading BY <1>3 DEF CapInv, ReadIsLive, Fresh
  <3> QED BY <1>1, <3>1 DEF CapInv, CapTypes
 <2> QED BY <1>1, <1>3, <2>1, <2>2, KeptMore
<1>9. Usage' <= RetainedMax
 <2>1. \A t \in Sources : Counted(t)' => Counted(t) \/ t = x BY <1>1 DEF Counted
 <2> QED BY <1>1, <1>2, <2>1, UsageAdds DEF CapInv
<1> QED BY <1>1, <1>2, <1>3, <1>4, <1>5, <1>6, <1>7, <1>8, <1>9, SourceStep

\* A preparation reads its inputs and writes its file, or fails.
LEMMA PreparationKeeps ==
  ASSUME CapInv, NEW x \in Indexes, RunWorkbook(x) \/ RunMap(x)
  PROVE  CapInv'
<1>1. /\ at[x] = "copying" /\ Free /\ (\A c \in inputs[x] : rec[c] = "live" /\ c \in blob)
      /\ reading' = reading \cup {<<x, c>> : c \in inputs[x]} /\ StageBytes(x) /\ x \in Sources
      /\ UNCHANGED <<blob, meta, jobs, queue, retention, evict, phase, unres>>
  BY DEF RunWorkbook, RunMap, CopyOf, OpenInputs, Usable, Sources
<1>2. PICK w \in {"staged", "failing"} : at' = [at EXCEPT ![x] = w] BY <1>1 DEF StageBytes, Go, Set
<1>3. UNCHANGED <<blob, rec, pub, lease, holds, inputs, reserved, retention, evict, phase, unres, queue, job, target, doubt>>
  BY <1>1 DEF meta, jobs
<1>4. phase = "up" /\ evict = {} /\ Sound(x) /\ x # "client" /\ DOMAIN at = Sources BY <1>1, FreeFacts, SourceFacts
<1>5. at'[x] = w /\ \A t \in Sources \ {x} : at'[t] = at[t] BY <1>1, <1>2, <1>4
<1>6. CapTypes' BY <1>1, <1>2, <1>3 DEF CapInv, CapTypes, Unpublished
<1>7. Sound(x)' BY <1>1, <1>3, <1>4, <1>5 DEF Sound, Fresh, Unpublished, InPublication, OpenJobs, Null
<1>8. Locked' /\ LeasedStays' /\ Line'
 <2>1. Line' BY <1>1, <1>3, <1>5, LineStands
 <2> QED BY <1>3, <1>5, <2>1 DEF CapInv, Locked, LeasedStays, InPublication, Sources
<1>9. KeptIsLive' /\ ReadIsLive' /\ SweptIsFree'
 <2>1. \A c \in Captures : Kept(c)' => Kept(c) \/ (rec'[c] = "live" /\ c \in blob') BY <1>1, <1>3 DEF Kept, Named
 <2>2. \A y \in Indexes : <<"client", y>> \in reading' => inputs'[y] = inputs[y] /\ <<"client", y>> \in reading
   BY <1>1, <1>3, <1>4
 <2> QED BY <1>3, <1>4, <2>1, <2>2, KeptMore
<1>10. Usage' <= RetainedMax BY <1>3, UsageKeeps DEF CapInv, Counted
<1> QED BY <1>1, <1>3, <1>4, <1>5, <1>6, <1>7, <1>8, <1>9, <1>10, SourceStep

LEMMA HashKeeps == ASSUME CapInv, NEW c \in Captures, Hash(c) PROVE CapInv'
<1>1. /\ at[c] = "hashing" /\ Free /\ c \in Sources
      /\ UNCHANGED <<blob, rec, pub, lease, holds, inputs, reserved, retention, evict, phase, unres, queue, job, target, doubt>>
  BY DEF Hash, bytes, meta, jobs, Sources
<1>2. PICK w \in {"reading", "failing"} : at' = [at EXCEPT ![c] = w] BY DEF Hash, Go, Set
<1>3. reading' = reading \/ (Usable(target[c]) /\ reading' = reading \cup {<<c, target[c]>>}) BY DEF Hash
<1>4. phase = "up" /\ evict = {} /\ Sound(c) /\ c # "client" /\ DOMAIN at = Sources BY <1>1, FreeFacts, SourceFacts
<1>5. at'[c] = w /\ \A t \in Sources \ {c} : at'[t] = at[t] BY <1>1, <1>2, <1>4
<1>6. CapTypes' BY <1>1, <1>2 DEF CapInv, CapTypes, Unpublished
<1>7. Sound(c)' BY <1>1, <1>4, <1>5 DEF Sound, Fresh, Unpublished, InPublication, OpenJobs, Null
<1>8. Locked' /\ LeasedStays' /\ Line'
 <2>1. Line' BY <1>1, <1>5, LineStands
 <2> QED BY <1>1, <1>5, <2>1 DEF CapInv, Locked, LeasedStays, InPublication, Sources
<1>9. KeptIsLive' /\ ReadIsLive' /\ SweptIsFree'
 <2>1. \A t \in Captures : Kept(t)' => Kept(t) \/ (rec'[t] = "live" /\ t \in blob')
   BY <1>1, <1>3 DEF Kept, Named, Usable
 <2>2. \A y \in Indexes : <<"client", y>> \in reading' => inputs'[y] = inputs[y] /\ <<"client", y>> \in reading
   BY <1>1, <1>3, <1>4
 <2> QED BY <1>1, <1>4, <2>1, <2>2, KeptMore
<1>10. Usage' <= RetainedMax BY <1>1, UsageKeeps DEF CapInv, Counted
<1> QED BY <1>1, <1>4, <1>5, <1>6, <1>7, <1>8, <1>9, <1>10, SourceStep

LEMMA HashEndsKeeps == ASSUME CapInv, NEW c \in Captures, HashEnds(c) PROVE CapInv'
<1>1. /\ at[c] = "reading" /\ reading' \subseteq reading /\ c \in Sources
      /\ UNCHANGED <<blob, rec, pub, lease, holds, inputs, reserved, retention, evict, phase, unres, queue, job, target, doubt>>
  BY DEF HashEnds, bytes, jobs, Sources
<1>2. PICK w \in {"published", "failing"} : at' = [at EXCEPT ![c] = w] BY DEF HashEnds, Go, Set
<1>3. phase = "up" /\ Sound(c) /\ DOMAIN at = Sources BY <1>1, SourceFacts DEF Null
<1>4. at'[c] = w /\ \A t \in Sources \ {c} : at'[t] = at[t] BY <1>1, <1>2, <1>3
<1>5. CapTypes' BY <1>1, <1>2 DEF CapInv, CapTypes
<1>6. Sound(c)' BY <1>1, <1>3, <1>4 DEF Sound, Fresh, Unpublished, InPublication, OpenJobs, Null
<1>7. Locked' /\ LeasedStays' /\ Line'
 <2>1. Line' BY <1>1, <1>4, LineStands
 <2> QED BY <1>1, <1>4, <2>1 DEF CapInv, Locked, LeasedStays, InPublication, Sources
<1>8. KeptIsLive' /\ ReadIsLive' /\ SweptIsFree' BY <1>1, KeptLess
<1>9. Usage' <= RetainedMax BY <1>1, UsageKeeps DEF CapInv, Counted
<1> QED BY <1>1, <1>3, <1>4, <1>5, <1>6, <1>7, <1>8, <1>9, SourceStep

\* What stays kept while nothing is evicted and nobody keeps more.
LEMMA KeptSame ==
  ASSUME CapInv, UNCHANGED <<lease, holds, reading, inputs, rec>>, blob \subseteq blob', evict' = {}
  PROVE  KeptIsLive' /\ ReadIsLive' /\ SweptIsFree'
<1>1. \A c \in Captures : Kept(c)' => Kept(c) BY DEF Kept, Named
<1> QED BY <1>1, KeptMore

\* The bytes go with the stage, or the journal is begun: with certainty, or not.
LEMMA JournalKeeps == ASSUME CapInv, NEW s \in Sources, Journal(s) PROVE CapInv'
<1>1. /\ at[s] = "staged" /\ Free
      /\ UNCHANGED <<blob, rec, lease, holds, inputs, reserved, reading, evict, phase, unres, queue, job, target>>
  BY DEF Journal
<1>2. /\ phase = "up" /\ retention = Null /\ evict = {} /\ (\A t \in Sources : at[t] \notin InPublication) /\ Sound(s)
      /\ DOMAIN at = Sources /\ DOMAIN pub = Sources /\ unres = {}
 <2>1. /\ phase = "up" /\ retention = Null /\ evict = {} /\ (\A t \in Sources : at[t] \notin InPublication) /\ Sound(s)
       /\ DOMAIN at = Sources /\ DOMAIN pub = Sources BY <1>1, FreeFacts, SourceFacts
 <2> QED BY <2>1 DEF CapInv, Booting
<1>3. PICK w \in {"journalled", "failing"}, p \in {"publishing", pub[s]} :
        /\ at' = [at EXCEPT ![s] = w] /\ pub' = [pub EXCEPT ![s] = p] /\ doubt' \in {doubt, doubt \cup {s}}
        /\ w = "journalled" => p = "publishing" /\ retention' = s /\ doubt' = doubt
        /\ w = "failing" => retention' = Null /\ (p = pub[s] \/ doubt' = doubt \cup {s})
        /\ p = "publishing" => s \in reserved \/ Usage < RetainedMax
 <2>1. pub = [pub EXCEPT ![s] = pub[s]] BY DEF CapInv, CapTypes
 <2>2. Usage \in Nat /\ RetainedMax \in Nat /\ pub[s] = Null
   BY <1>1, <1>2, UsageCounts, CapturesAssumption DEF Sound, Fresh, Unpublished
 <2>3. CASE /\ Usage - (IF s \in reserved THEN 1 ELSE 0) < RetainedMax
            /\ pub' = [pub EXCEPT ![s] = "publishing"] /\ at' = [at EXCEPT ![s] = "journalled"] /\ retention' = s /\ doubt' = doubt
   BY <2>2, <2>3
 <2>4. CASE /\ Usage - (IF s \in reserved THEN 1 ELSE 0) < RetainedMax
            /\ pub' \in {pub, [pub EXCEPT ![s] = "publishing"]} /\ at' = [at EXCEPT ![s] = "failing"] /\ retention' = Null
            /\ doubt' = doubt \cup {s}
  <3>1. CASE pub' = pub BY <2>1, <2>2, <2>4, <3>1 DEF Null
  <3>2. CASE pub' = [pub EXCEPT ![s] = "publishing"] BY <2>2, <2>4, <3>2
  <3> QED BY <2>4, <3>1, <3>2
 <2>5. CASE UNCHANGED <<pub, doubt, retention>> /\ at' = [at EXCEPT ![s] = "failing"]
   BY <1>2, <2>1, <2>2, <2>5 DEF Null
 <2> QED BY <2>3, <2>4, <2>5 DEF Journal, Doubt, Discard, Go, Set
<1>4. /\ at'[s] = w /\ pub'[s] = p
      /\ \A t \in Sources \ {s} : at'[t] = at[t] /\ pub'[t] = pub[t] /\ (t \in doubt' <=> t \in doubt) BY <1>2, <1>3
<1>5. CapTypes' BY <1>1, <1>3 DEF CapInv, CapTypes, InPublication
<1>6. Sound(s)' BY <1>1, <1>2, <1>3, <1>4 DEF Sound, Fresh, Unpublished, InPublication, OpenJobs, Unresolved, Null
<1>7. Locked' /\ LeasedStays' /\ Line'
 <2>1. Line' BY <1>1, <1>4, LineStands
 <2>2. Locked' BY <1>2, <1>3, <1>4 DEF Locked, InPublication
 <2>3. LeasedStays' BY <1>1, <1>3, <1>4 DEF CapInv, LeasedStays, Sources
 <2> QED BY <2>1, <2>2, <2>3
<1>8. KeptIsLive' /\ ReadIsLive' /\ SweptIsFree' BY <1>1, <1>2, KeptSame
<1>9. Usage' <= RetainedMax
 <2>1. CASE p = "publishing"
  <3>1. Counted(s) \/ Usage < RetainedMax BY <1>3, <2>1 DEF Counted
  <3>2. \A t \in Sources : Counted(t)' => Counted(t) \/ t = s BY <1>1, <1>4 DEF Counted
  <3> QED BY <3>1, <3>2, UsageAdds DEF CapInv
 <2>2. CASE p = pub[s] BY <1>1, <1>4, <2>2, UsageKeeps DEF CapInv, Counted
 <2> QED BY <1>3, <2>1, <2>2
<1> QED BY <1>1, <1>2, <1>4, <1>5, <1>6, <1>7, <1>8, <1>9, SourceStep

\* Who publishes has the lock: no sweep, no other publication, no recovery.
LEMMA PublishingFacts ==
  ASSUME CapInv, NEW s \in Sources, at[s] \in InPublication
  PROVE  /\ phase = "up" /\ unres = {} /\ retention = s /\ evict = {} /\ (\A t \in Sources \ {s} : at[t] \notin InPublication)
         /\ Sound(s) /\ pub[s] = "publishing" /\ rec[s] = Null /\ job[s] \in OpenJobs
<1>1. retention = s /\ s # "sweep" BY SourceFacts DEF CapInv, Locked
<1>2. at[s] # Null /\ phase = "up" /\ unres = {} /\ Sound(s) BY SourceFacts DEF InPublication, Null
<1> QED BY <1>1, <1>2 DEF CapInv, Locked, SweptIsFree, Sound

LEMMA SourceRenamedKeeps == ASSUME CapInv, NEW s \in Sources, RenameSource(s) PROVE CapInv'
<1>1. /\ at[s] = "journalled"
      /\ UNCHANGED <<rec, pub, lease, holds, inputs, reserved, reading, evict, phase, unres, queue, job, target>>
  BY DEF RenameSource, meta
<1>2. /\ phase = "up" /\ unres = {} /\ retention = s /\ evict = {} /\ (\A t \in Sources \ {s} : at[t] \notin InPublication)
      /\ Sound(s) /\ pub[s] = "publishing" /\ rec[s] = Null /\ job[s] \in OpenJobs /\ DOMAIN at = Sources
  BY <1>1, PublishingFacts, SourceFacts DEF InPublication
<1>3. PICK w \in {"renamed", "failing"} :
        /\ at' = [at EXCEPT ![s] = w] /\ blob' \in {blob, blob \cup {s}}
        /\ w = "renamed" => blob' = blob \cup {s} /\ retention' = retention /\ doubt' = doubt
        /\ w = "failing" => retention' = Null /\ doubt' = doubt \cup {s} BY DEF RenameSource, Doubt, Go, Set, bytes
<1>4. /\ at'[s] = w /\ blob \subseteq blob'
      /\ \A t \in Sources \ {s} : at'[t] = at[t] /\ (t \in doubt' <=> t \in doubt) /\ (t \in blob' <=> t \in blob)
  BY <1>2, <1>3
<1>5. CapTypes' BY <1>1, <1>3 DEF CapInv, CapTypes, InPublication
<1>6. Sound(s)' BY <1>1, <1>2, <1>3, <1>4 DEF Sound, Fresh, Unpublished, InPublication, OpenJobs, Unresolved, Null
<1>7. Locked' /\ LeasedStays' /\ Line'
 <2>1. Line' BY <1>1, <1>4, LineStands
 <2>2. Locked' BY <1>2, <1>3, <1>4 DEF Locked, InPublication
 <2>3. LeasedStays' BY <1>1, <1>3, <1>4 DEF CapInv, LeasedStays, Sources
 <2> QED BY <2>1, <2>2, <2>3
<1>8. KeptIsLive' /\ ReadIsLive' /\ SweptIsFree' BY <1>1, <1>2, <1>4, KeptSame
<1>9. Usage' <= RetainedMax BY <1>1, UsageKeeps DEF CapInv, Counted
<1> QED BY <1>1, <1>2, <1>4, <1>5, <1>6, <1>7, <1>8, <1>9, SourceStep

\* What the transaction of a publication changes.
LEMMA MetadataFacts ==
  ASSUME CapInv, NEW s \in Sources, CommitMetadata(s)
  PROVE  /\ rec' = [rec EXCEPT ![s] = "live"] /\ pub' = [pub EXCEPT ![s] = "committed"]
         /\ rec'[s] = "live" /\ pub'[s] = "committed" /\ \A t \in Sources \ {s} : rec'[t] = rec[t] /\ pub'[t] = pub[t]
         /\ lease \subseteq lease' /\ lease' \subseteq lease \cup {s} /\ lease' \subseteq Captures /\ reserved' \subseteq reserved
         /\ holds' \in [Sources -> SUBSET (Sources \cup {"initial", "client"})]
         /\ \A t \in Sources \ {s} : holds'[t] = holds[t]
<1>1. rec' = [rec EXCEPT ![s] = "live"] /\ pub' = [pub EXCEPT ![s] = "committed"] BY DEF CommitMetadata, Set
<1>2. rec'[s] = "live" /\ pub'[s] = "committed" /\ \A t \in Sources \ {s} : rec'[t] = rec[t] /\ pub'[t] = pub[t]
  BY <1>1, SourceFacts
<1>3. /\ lease \subseteq lease' /\ lease' \subseteq lease \cup {s} /\ lease' \subseteq Captures /\ reserved' \subseteq reserved
  BY DEF CommitMetadata, CapInv, CapTypes
<1>4. /\ holds' \in [Sources -> SUBSET (Sources \cup {"initial", "client"})]
      /\ \A t \in Sources \ {s} : holds'[t] = holds[t] BY DEF CommitMetadata, CapInv, CapTypes
<1> QED BY <1>1, <1>2, <1>3, <1>4

LEMMA SourceCommittedKeeps == ASSUME CapInv, NEW s \in Sources, CommitSource(s) PROVE CapInv'
<1>1. /\ at[s] = "renamed" /\ UNCHANGED <<blob, inputs, reading, evict, phase, unres, queue, job, target>>
  BY DEF CommitSource, bytes
<1>2. /\ phase = "up" /\ unres = {} /\ retention = s /\ evict = {} /\ (\A t \in Sources \ {s} : at[t] \notin InPublication)
      /\ Sound(s) /\ pub[s] = "publishing" /\ rec[s] = Null /\ job[s] \in OpenJobs /\ DOMAIN at = Sources /\ s \in blob
  BY <1>1, PublishingFacts, SourceFacts DEF InPublication, Sound
<1>3. PICK w \in {"published", "failing"} :
        /\ at' = [at EXCEPT ![s] = w] /\ doubt' \in {doubt, doubt \cup {s}} /\ retention' = Null
        /\ CommitMetadata(s) \/ UNCHANGED <<rec, pub, lease, holds, reserved>>
        /\ w = "published" => CommitMetadata(s)
        /\ w = "failing" => doubt' = doubt \cup {s} BY DEF CommitSource, Doubt, Go, Set
<1>4. at'[s] = w /\ \A t \in Sources \ {s} : at'[t] = at[t] /\ (t \in doubt' <=> t \in doubt) BY <1>2, <1>3
<1>5. Locked' /\ Line'
 <2>1. Line' BY <1>1, <1>4, LineStands
 <2>2. Locked' BY <1>2, <1>3, <1>4 DEF Locked, InPublication
 <2> QED BY <2>1, <2>2
<1>6. CASE CommitMetadata(s)
 <2>1. /\ rec' = [rec EXCEPT ![s] = "live"] /\ pub' = [pub EXCEPT ![s] = "committed"]
       /\ rec'[s] = "live" /\ pub'[s] = "committed" /\ \A t \in Sources \ {s} : rec'[t] = rec[t] /\ pub'[t] = pub[t]
       /\ lease \subseteq lease' /\ lease' \subseteq lease \cup {s} /\ lease' \subseteq Captures /\ reserved' \subseteq reserved
       /\ holds' \in [Sources -> SUBSET (Sources \cup {"initial", "client"})]
       /\ \A t \in Sources \ {s} : holds'[t] = holds[t] BY <1>6, MetadataFacts
 <2>2. CapTypes' BY <1>1, <1>3, <2>1 DEF CapInv, CapTypes
 <2>3. Sound(s)'
   BY <1>1, <1>2, <1>3, <1>4, <2>1 DEF Sound, Fresh, Unpublished, InPublication, OpenJobs, Unresolved, Null
 <2>4. LeasedStays' BY <1>1, <1>3, <1>4, <2>1 DEF CapInv, LeasedStays, Sources
 <2>5. KeptIsLive' /\ ReadIsLive' /\ SweptIsFree'
  <3>1. \A c \in Captures : Kept(c)' => Kept(c) \/ (rec'[c] = "live" /\ c \in blob')
    BY <1>1, <1>2, <2>1 DEF Kept, Named, Sources
  <3>2. \A t \in Sources : rec[t] = "live" => rec'[t] = "live" BY <2>1
  <3> QED BY <1>1, <1>2, <3>1, <3>2, KeptMore
 <2>6. Usage' <= RetainedMax
  <3>1. \A t \in Sources : Counted(t)' => Counted(t) BY <1>2, <2>1 DEF Counted, Unresolved
  <3> QED BY <3>1, UsageKeeps DEF CapInv
 <2> QED BY <1>1, <1>2, <1>4, <1>5, <2>1, <2>2, <2>3, <2>4, <2>5, <2>6, SourceStep
<1>7. CASE UNCHANGED <<rec, pub, lease, holds, reserved>> /\ w = "failing"
 <2>1. CapTypes' BY <1>1, <1>3, <1>7 DEF CapInv, CapTypes
 <2>2. Sound(s)'
   BY <1>1, <1>2, <1>3, <1>4, <1>7 DEF Sound, Fresh, Unpublished, InPublication, OpenJobs, Unresolved, Null
 <2>3. LeasedStays' BY <1>1, <1>3, <1>4, <1>7 DEF CapInv, LeasedStays, Sources
 <2>4. KeptIsLive' /\ ReadIsLive' /\ SweptIsFree' BY <1>1, <1>2, <1>7, KeptSame
 <2>5. Usage' <= RetainedMax BY <1>7, UsageKeeps DEF CapInv, Counted
 <2> QED BY <1>1, <1>2, <1>4, <1>5, <1>7, <2>1, <2>2, <2>3, <2>4, <2>5, SourceStep
<1> QED BY <1>3, <1>6, <1>7

--------------------
\* Leases, holds and readers.
LEMMA TakeLeaseKeeps == ASSUME CapInv, NEW c \in Captures, TakeLease(c) PROVE CapInv'
<1>1. /\ Free /\ rec[c] = "live" /\ c \in blob /\ lease' = lease \cup {c} /\ holds' = holds
      /\ UNCHANGED <<blob, rec, pub, inputs, reserved, reading, job, doubt, at, target, queue, retention, evict, phase, unres>>
  BY DEF TakeLease, Usable, bytes, jobs, tasks, store
<1>2. KeptIsLive' /\ ReadIsLive' /\ SweptIsFree'
 <2>1. \A t \in Captures : Kept(t)' => Kept(t) \/ (rec'[t] = "live" /\ t \in blob') BY <1>1 DEF Kept, Named
 <2> QED BY <1>1, <2>1, FreeFacts, KeptMore
<1>3. LeasedStays' /\ lease' \subseteq Captures /\ holds' \in [Sources -> SUBSET (Sources \cup {"initial", "client"})]
  BY <1>1 DEF CapInv, CapTypes, LeasedStays
<1> QED BY <1>1, <1>2, <1>3, KeepStep

LEMMA LeaseEndsKeeps == ASSUME CapInv, NEW c \in Captures, LeaseEnds(c) PROVE CapInv'
<1>1. /\ lease' = lease \ {c} /\ holds' = holds /\ ~\E d \in Captures : at[d] = "leased" /\ target[d] = c
      /\ UNCHANGED <<blob, rec, pub, inputs, reserved, reading, job, doubt, at, target, queue, retention, evict, phase, unres>>
  BY DEF LeaseEnds, bytes, jobs, tasks, store
<1>2. KeptIsLive' /\ ReadIsLive' /\ SweptIsFree' BY <1>1, KeptLess
<1>3. LeasedStays' /\ lease' \subseteq Captures /\ holds' \in [Sources -> SUBSET (Sources \cup {"initial", "client"})]
  BY <1>1 DEF CapInv, CapTypes, LeasedStays
<1> QED BY <1>1, <1>2, <1>3, KeepStep

LEMMA HoldKeeps == ASSUME CapInv, NEW c \in Captures, Hold(c) PROVE CapInv'
<1>1. /\ Free /\ rec[c] = "live" /\ c \in blob /\ lease' = lease /\ holds' = [holds EXCEPT ![c] = {"client"}]
      /\ UNCHANGED <<blob, rec, pub, inputs, reserved, reading, job, doubt, at, target, queue, retention, evict, phase, unres>>
  BY DEF Hold, Usable, Set, bytes, jobs, tasks, store
<1>2. KeptIsLive' /\ ReadIsLive' /\ SweptIsFree'
 <2>1. \A t \in Captures : Kept(t)' => Kept(t) \/ (rec'[t] = "live" /\ t \in blob')
   BY <1>1 DEF Kept, Named, CapInv, CapTypes, Sources
 <2> QED BY <1>1, <2>1, FreeFacts, KeptMore
<1>3. LeasedStays' /\ lease' \subseteq Captures /\ holds' \in [Sources -> SUBSET (Sources \cup {"initial", "client"})]
  BY <1>1 DEF CapInv, CapTypes, LeasedStays
<1> QED BY <1>1, <1>2, <1>3, KeepStep

LEMMA ReleaseHoldKeeps == ASSUME CapInv, NEW c \in Captures, ReleaseHold(c) PROVE CapInv'
<1>1. /\ lease' = lease
      /\ UNCHANGED <<blob, rec, pub, inputs, reserved, reading, job, doubt, at, target, queue, retention, evict, phase, unres>>
  BY DEF ReleaseHold, bytes, jobs, tasks, store
<1>2. PICK h \in {"initial", "client"} : holds' = [holds EXCEPT ![c] = holds[c] \ {h}] BY DEF ReleaseHold, Set
<1>3. /\ holds' \in [Sources -> SUBSET (Sources \cup {"initial", "client"})]
      /\ \A t \in Sources : holds'[t] \subseteq holds[t] BY <1>2 DEF CapInv, CapTypes
<1>4. KeptIsLive' /\ ReadIsLive' /\ SweptIsFree' BY <1>1, <1>3, KeptLess
<1>5. LeasedStays' /\ lease' \subseteq Captures BY <1>1 DEF CapInv, CapTypes, LeasedStays
<1> QED BY <1>1, <1>3, <1>4, <1>5, KeepStep

LEMMA ReadKeeps ==
  ASSUME CapInv, NEW s \in Sources, Read(s), s \in Indexes => \A c \in inputs[s] : Usable(c)
  PROVE  CapInv'
<1>1. /\ Free /\ rec[s] = "live" /\ s \in blob /\ reading' = reading \cup {<<"client", s>>} /\ lease' = lease /\ holds' = holds
      /\ UNCHANGED <<blob, rec, pub, inputs, reserved, job, doubt, at, target, queue, retention, evict, phase, unres>>
  BY DEF Read, Usable, bytes, meta, jobs, tasks
<1>2. KeptIsLive' /\ ReadIsLive' /\ SweptIsFree'
 <2>1. \A t \in Captures : Kept(t)' => Kept(t) \/ (rec'[t] = "live" /\ t \in blob') BY <1>1 DEF Kept, Named
 <2>2. \A x \in Indexes : <<"client", x>> \in reading' =>
           /\ inputs'[x] = inputs[x]
           /\ <<"client", x>> \in reading \/ \A t \in {x} \cup inputs[x] : rec'[t] = "live" /\ t \in blob'
   BY <1>1 DEF Usable
 <2> QED BY <1>1, <2>1, <2>2, FreeFacts, KeptMore
<1>3. LeasedStays' /\ lease' \subseteq Captures /\ holds' \in [Sources -> SUBSET (Sources \cup {"initial", "client"})]
  BY <1>1 DEF CapInv, CapTypes, LeasedStays
<1> QED BY <1>1, <1>2, <1>3, KeepStep

LEMMA OpenCaptureKeeps == ASSUME CapInv, NEW c \in Captures, OpenCapture(c) PROVE CapInv'
<1>1. c \in Sources /\ c \notin Indexes /\ Read(c) BY CapturesAssumption DEF OpenCapture, Sources
<1> QED BY <1>1, ReadKeeps

LEMMA OpenIndexKeeps == ASSUME CapInv, NEW x \in Indexes, OpenWorkbook(x) \/ OpenMap(x) PROVE CapInv'
<1>1. x \in Sources /\ Read(x) /\ \A c \in inputs[x] : Usable(c) BY DEF OpenWorkbook, OpenMap, Sources
<1> QED BY <1>1, ReadKeeps

LEMMA ReaderEndsKeeps == ASSUME CapInv, NEW s \in Sources, ReaderEnds(s) PROVE CapInv'
<1>1. /\ reading' \subseteq reading
      /\ UNCHANGED <<blob, rec, pub, inputs, reserved, job, doubt, at, target, queue, retention, evict, phase, unres, lease, holds>>
  BY DEF ReaderEnds, bytes, meta, jobs, tasks
<1>2. KeptIsLive' /\ ReadIsLive' /\ SweptIsFree' BY <1>1, KeptLess
<1>3. LeasedStays' /\ lease' \subseteq Captures /\ holds' \in [Sources -> SUBSET (Sources \cup {"initial", "client"})]
  BY <1>1 DEF CapInv, CapTypes, LeasedStays
<1> QED BY <1>1, <1>2, <1>3, KeepStep

--------------------
\* A step of the store: the tasks stand where they stood.
LEMMA StoreStep ==
  ASSUME CapInv, UNCHANGED <<at, target, queue, job, doubt>>, CapTypes', \A t \in Sources : Sound(t)', Locked', Booting',
         lease \subseteq lease', KeptIsLive', ReadIsLive', SweptIsFree', Usage' <= RetainedMax
  PROVE  CapInv'
<1>1. Line' BY LineStands
<1>2. LeasedStays' BY DEF CapInv, LeasedStays
<1> QED BY <1>1, <1>2 DEF CapInv

LEMMA SweepKeeps == ASSUME CapInv, Sweep PROVE CapInv'
<1>1. /\ Free /\ retention' = "sweep"
      /\ UNCHANGED <<blob, rec, pub, inputs, reserved, reading, job, doubt, at, target, queue, phase, unres, lease, holds>>
  BY DEF Sweep, bytes, meta, jobs, tasks
<1>2. evict' \subseteq {c \in Captures : (rec[c] = "live" /\ ~Protected(c)) \/ rec[c] = "evicting"} BY DEF Sweep
<1>3. CapTypes' /\ \A t \in Sources : Sound(t)' BY <1>1, <1>2 DEF CapInv, CapTypes, Sound, Fresh
<1>4. Locked' /\ Booting' BY <1>1, FreeFacts DEF CapInv, Locked, Booting
<1>5. KeptIsLive' /\ ReadIsLive' BY <1>1 DEF CapInv, KeptIsLive, ReadIsLive, Kept, Named
<1>6. SweptIsFree'
 <2>1. ASSUME NEW c \in evict', rec[c] = "live"
       PROVE  ~Kept(c) /\ \A x \in Indexes : c \in inputs[x] => <<"client", x>> \notin reading
  <3>1. ~Protected(c) BY <1>2, <2>1
  <3> QED BY <3>1 DEF Protected, Kept, Named
 <2> QED BY <1>1, <1>2, <2>1 DEF SweptIsFree, Kept, Named
<1>7. Usage' <= RetainedMax BY <1>1, UsageKeeps DEF CapInv, Counted
<1> QED BY <1>1, <1>3, <1>4, <1>5, <1>6, <1>7, StoreStep

LEMMA TombstoneKeeps == ASSUME CapInv, NEW s \in Sources, Tombstone(s) PROVE CapInv'
<1>1. /\ retention = "sweep" /\ Doomed(s) /\ rec[s] = "live" /\ rec' = [rec EXCEPT ![s] = "evicting"]
      /\ UNCHANGED <<blob, pub, inputs, reserved, reading, job, doubt, at, target, queue, phase, unres, lease, holds, retention, evict>>
  BY DEF Tombstone, Sweeping, Set, bytes, jobs, tasks, store
<1>2. rec'[s] = "evicting" /\ (\A t \in Sources \ {s} : rec'[t] = rec[t]) /\ Sound(s) BY <1>1, SourceFacts
<1>3. CapTypes' BY <1>1 DEF CapInv, CapTypes
<1>4. \A t \in Sources : Sound(t)' BY <1>1, <1>2 DEF CapInv, Sound, Fresh, Null
<1>5. Locked' /\ Booting' BY <1>1 DEF CapInv, Locked, Booting
<1>6. Captures \subseteq Sources /\ evict \subseteq Captures /\ (\A x \in Indexes : inputs[x] \subseteq Captures) /\ \A x \in Indexes : x \in Sources /\ x \notin Captures
  BY CapturesAssumption DEF CapInv, CapTypes, Sources
<1>7. KeptIsLive'
 <2>1. s \in Captures => ~Kept(s) BY <1>1, <1>6 DEF Doomed, CapInv, SweptIsFree
 <2> QED BY <1>1, <1>2, <1>6, <2>1 DEF CapInv, KeptIsLive, Kept, Named
<1>8. ReadIsLive'
 <2>1. ASSUME NEW x \in Indexes, <<"client", x>> \in reading PROVE s # x /\ s \notin inputs[x]
  <3>1. \A t \in {x} \cup inputs[x] : rec[t] = "live" BY <2>1 DEF CapInv, ReadIsLive
  <3>2. s # x BY <1>1, <1>6, <3>1 DEF Doomed
  <3>3. s \notin inputs[x] BY <1>1, <1>6, <2>1 DEF Doomed, CapInv, SweptIsFree
  <3> QED BY <3>2, <3>3
 <2> QED BY <1>1, <1>2, <1>6, <2>1 DEF CapInv, ReadIsLive
<1>9. SweptIsFree' BY <1>1, <1>2, <1>6 DEF CapInv, SweptIsFree, Kept, Named
<1>10. Usage' <= RetainedMax
 <2>1. \A t \in Sources : Counted(t)' => Counted(t) BY <1>1, <1>2 DEF Counted
 <2> QED BY <2>1, UsageKeeps DEF CapInv
<1> QED BY <1>1, <1>3, <1>4, <1>5, <1>7, <1>8, <1>9, <1>10, StoreStep

LEMMA UnlinkKeeps == ASSUME CapInv, NEW s \in Sources, Unlink(s) PROVE CapInv'
<1>1. /\ rec[s] = "evicting" /\ blob' = blob \ {s}
      /\ UNCHANGED <<rec, pub, inputs, reserved, reading, job, doubt, at, target, queue, phase, unres, lease, holds, retention, evict>>
  BY DEF Unlink, meta, jobs, tasks, store
<1>2. CapTypes' BY <1>1 DEF CapInv, CapTypes
<1>3. \A t \in Sources : Sound(t)' BY <1>1 DEF CapInv, Sound, Fresh, Null, InPublication
<1>4. Locked' /\ Booting' BY <1>1 DEF CapInv, Locked, Booting
<1>5. KeptIsLive' /\ ReadIsLive' /\ SweptIsFree' BY <1>1 DEF CapInv, KeptIsLive, ReadIsLive, SweptIsFree, Kept, Named
<1>6. Usage' <= RetainedMax BY <1>1, UsageKeeps DEF CapInv, Counted
<1> QED BY <1>1, <1>2, <1>3, <1>4, <1>5, <1>6, StoreStep

LEMMA EvictedKeeps == ASSUME CapInv, NEW s \in Sources, Evicted(s) PROVE CapInv'
<1>1. /\ rec[s] = "evicting" /\ s \notin blob /\ rec' = [rec EXCEPT ![s] = "evicted"] /\ evict' = evict \ {s}
      /\ UNCHANGED <<blob, pub, inputs, reserved, reading, job, doubt, at, target, queue, phase, unres, lease, holds, retention>>
  BY DEF Evicted, Set, bytes, jobs, tasks
<1>2. rec'[s] = "evicted" /\ (\A t \in Sources \ {s} : rec'[t] = rec[t]) /\ Sound(s) BY <1>1, SourceFacts
<1>3. CapTypes' BY <1>1 DEF CapInv, CapTypes
<1>4. \A t \in Sources : Sound(t)' BY <1>1, <1>2 DEF CapInv, Sound, Fresh, Null
<1>5. Locked' /\ Booting' BY <1>1 DEF CapInv, Locked, Booting
<1>6. Captures \subseteq Sources /\ evict \subseteq Sources /\ \A x \in Indexes : {x} \cup inputs[x] \subseteq Sources
  BY DEF CapInv, CapTypes, Sources
<1>7. KeptIsLive' /\ ReadIsLive' /\ SweptIsFree'
  BY <1>1, <1>2, <1>6 DEF CapInv, KeptIsLive, ReadIsLive, SweptIsFree, Kept, Named
<1>8. Usage' <= RetainedMax
 <2>1. \A t \in Sources : Counted(t)' => Counted(t) BY <1>1, <1>2 DEF Counted
 <2> QED BY <2>1, UsageKeeps DEF CapInv
<1> QED BY <1>1, <1>3, <1>4, <1>5, <1>7, <1>8, StoreStep

LEMMA SweepEndsKeeps == ASSUME CapInv, SweepEnds PROVE CapInv'
<1>1. /\ retention = "sweep" /\ phase = "up" /\ retention' = Null /\ evict' = {}
      /\ UNCHANGED <<blob, rec, pub, inputs, reserved, reading, job, doubt, at, target, queue, phase, unres, lease, holds>>
  BY DEF SweepEnds, bytes, meta, jobs, tasks
<1>2. CapTypes' /\ \A t \in Sources : Sound(t)' BY <1>1 DEF CapInv, CapTypes, Sound, Fresh
<1>3. Locked' /\ Booting'
 <2>1. \A t \in Sources : at[t] \notin InPublication BY <1>1, SourceFacts DEF CapInv, Locked
 <2> QED BY <1>1, <2>1 DEF CapInv, Locked, Booting
<1>4. KeptIsLive' /\ ReadIsLive' /\ SweptIsFree' BY <1>1, KeptSame
<1>5. Usage' <= RetainedMax BY <1>1, UsageKeeps DEF CapInv, Counted
<1> QED BY <1>1, <1>2, <1>3, <1>4, <1>5, StoreStep

LEMMA CollectKeeps == ASSUME CapInv, NEW s \in Sources, CollectPartial(s) PROVE CapInv'
<1>1. UNCHANGED <<blob, rec, pub, inputs, reserved, job, doubt, at, target, queue, retention, evict, phase, unres, lease, holds, reading>>
  BY DEF CollectPartial, meta, jobs, tasks, store
<1>2. KeptIsLive' /\ ReadIsLive' /\ SweptIsFree' BY <1>1, KeptLess
<1>3. LeasedStays' /\ lease' \subseteq Captures /\ holds' \in [Sources -> SUBSET (Sources \cup {"initial", "client"})]
  BY <1>1 DEF CapInv, CapTypes, LeasedStays
<1> QED BY <1>1, <1>2, <1>3, KeepStep

--------------------
\* A restart: the tasks are gone, the store is read again under the lock.
LEMMA CapturesCrashKeeps == ASSUME CapInv, CapturesCrash PROVE CapInv'
<1>1. /\ at' = [s \in Sources |-> Null] /\ queue' = <<>> /\ reading' = {} /\ phase' = "booting" /\ retention' = "sweep"
      /\ unres' = {s \in Sources : pub[s] \in Unresolved \cup {"aborting"}} /\ evict' = {c \in Captures : rec[c] = "evicting"}
      /\ UNCHANGED <<blob, rec, pub, inputs, reserved, job, doubt, target, lease, holds>>
  BY DEF CapturesCrash, bytes, meta, jobs
<1>2. queue' \in Seq(Captures) /\ Len(queue') = 0 /\ \A s \in Sources : at'[s] = Null BY <1>1, EmptySeq
<1>3. CapTypes' BY <1>1, <1>2 DEF CapInv, CapTypes
<1>4. \A t \in Sources : Sound(t)' BY <1>1, <1>2 DEF CapInv, Sound, Fresh, Unpublished, InPublication, Null
<1>5. Locked' /\ Booting' /\ LeasedStays' /\ Line'
  BY <1>1, <1>2 DEF Locked, Booting, LeasedStays, Line, InPublication, Null, Sources
<1>6. KeptIsLive' /\ ReadIsLive' /\ SweptIsFree' BY <1>1 DEF CapInv, KeptIsLive, ReadIsLive, SweptIsFree, Kept, Named
<1>7. Usage' <= RetainedMax BY <1>1, UsageKeeps DEF CapInv, Counted
<1> QED BY <1>3, <1>4, <1>5, <1>6, <1>7 DEF CapInv

LEMMA InterruptKeeps == ASSUME CapInv, NEW s \in Sources, Interrupt(s) PROVE CapInv'
<1>1. /\ phase = "booting" /\ holds' = [d \in Sources |-> holds[d] \ {s}] /\ reading' = reading /\ lease' = lease
      /\ UNCHANGED <<blob, rec, pub, inputs, reserved, doubt, at, target, queue, phase, unres, lease, retention, evict>>
  BY DEF Interrupt, bytes, tasks, store
<1>2. job' = job \/ (job[s] \notin Terminal /\ job' = [job EXCEPT ![s] = "interrupted"]) BY DEF Interrupt, Set
<1>3. /\ \A t \in Sources : at[t] = Null
      /\ \A t \in Sources : job'[t] = job[t] \/ job'[t] = "interrupted" BY <1>1, <1>2, SourceFacts DEF CapInv, Booting
<1>4. CapTypes' BY <1>1, <1>2 DEF CapInv, CapTypes, Terminal
<1>5. \A t \in Sources : Sound(t)' BY <1>1, <1>3 DEF CapInv, Sound, Fresh, Unpublished, InPublication, Null
<1>6. Locked' /\ Booting' /\ LeasedStays' /\ Line' BY <1>1, LineStands DEF CapInv, Locked, Booting, LeasedStays
<1>7. KeptIsLive' /\ ReadIsLive' /\ SweptIsFree'
 <2>1. \A t \in Sources : holds'[t] \subseteq holds[t] BY <1>1
 <2> QED BY <1>1, <2>1, KeptLess
<1>8. Usage' <= RetainedMax BY <1>1, UsageKeeps DEF CapInv, Counted
<1> QED BY <1>4, <1>5, <1>6, <1>7, <1>8 DEF CapInv

\* A publication that is to be resolved: nothing is recorded of its source.
LEMMA UnresolvedFacts ==
  ASSUME CapInv, NEW s \in Sources, s \in unres
  PROVE  /\ phase = "booting" /\ (\A t \in Sources : at[t] = Null) /\ Sound(s) /\ pub[s] \in Unresolved \cup {"aborting"}
         /\ rec[s] = Null /\ job[s] \notin {Null, "succeeded"} /\ (job[s] \in {"failed", "cancelled"} => s \in doubt)
         /\ s \notin evict
<1>1. phase = "booting" /\ (\A t \in Sources : at[t] = Null) /\ Sound(s) /\ pub[s] \in Unresolved \cup {"aborting"}
  BY DEF CapInv, Booting, Sound
<1>2. rec[s] = Null /\ job[s] \notin {Null, "succeeded"} /\ (job[s] \in {"failed", "cancelled"} => s \in doubt)
  BY <1>1 DEF Sound, Fresh, Unresolved, Null
<1>3. s \notin evict BY <1>2 DEF CapInv, SweptIsFree, Null
<1> QED BY <1>1, <1>2, <1>3

LEMMA RecoverPublishedKeeps == ASSUME CapInv, NEW s \in Sources, RecoverPublished(s) PROVE CapInv'
<1>1. /\ s \in unres /\ s \in blob /\ pub[s] # "aborting" /\ unres' = unres \ {s}
      /\ UNCHANGED <<blob, inputs, reading, at, target, queue, job, doubt, phase, retention, evict>>
  BY DEF RecoverPublished, Recovering, bytes, jobs, tasks
<1>2. /\ phase = "booting" /\ (\A t \in Sources : at[t] = Null) /\ Sound(s) /\ pub[s] \in Unresolved \cup {"aborting"}
      /\ rec[s] = Null /\ job[s] \notin {Null, "succeeded"} /\ (job[s] \in {"failed", "cancelled"} => s \in doubt)
      /\ s \notin evict BY <1>1, UnresolvedFacts
<1>3. Locked' /\ Booting' BY <1>1 DEF CapInv, Locked, Booting
<1>4. CASE CommitMetadata(s)
 <2>1. /\ rec' = [rec EXCEPT ![s] = "live"] /\ pub' = [pub EXCEPT ![s] = "committed"]
       /\ rec'[s] = "live" /\ pub'[s] = "committed" /\ \A t \in Sources \ {s} : rec'[t] = rec[t] /\ pub'[t] = pub[t]
       /\ lease \subseteq lease' /\ lease' \subseteq lease \cup {s} /\ lease' \subseteq Captures /\ reserved' \subseteq reserved
       /\ holds' \in [Sources -> SUBSET (Sources \cup {"initial", "client"})]
       /\ \A t \in Sources \ {s} : holds'[t] = holds[t] BY <1>4, MetadataFacts
 <2>2. CapTypes' BY <1>1, <2>1 DEF CapInv, CapTypes
 <2>3. \A t \in Sources : Sound(t)'
  <3>1. Sound(s)' BY <1>1, <1>2, <2>1 DEF Sound, Fresh, Unpublished, InPublication, Unresolved, Null
  <3>2. ASSUME NEW t \in Sources, t # s PROVE Sound(t)' BY <1>1, <2>1, <3>2 DEF CapInv, Sound, Fresh
  <3> QED BY <3>1, <3>2
 <2>4. \A t \in Sources : t # s => (Kept(t)' => Kept(t)) BY <1>1, <2>1 DEF Kept, Named
 <2>5. Captures \subseteq Sources /\ evict \subseteq Sources /\ \A x \in Indexes : {x} \cup inputs[x] \subseteq Sources
   BY DEF CapInv, CapTypes, Sources
 <2>6. KeptIsLive' /\ ReadIsLive' BY <1>1, <2>1, <2>4, <2>5 DEF CapInv, KeptIsLive, ReadIsLive
 <2>7. SweptIsFree' BY <1>1, <1>2, <2>1, <2>4, <2>5 DEF CapInv, SweptIsFree
 <2>8. Usage' <= RetainedMax
  <3>1. \A t \in Sources : Counted(t)' => Counted(t) BY <1>1, <1>2, <2>1 DEF Counted
  <3> QED BY <3>1, UsageKeeps DEF CapInv
 <2> QED BY <1>1, <1>3, <2>1, <2>2, <2>3, <2>6, <2>7, <2>8, StoreStep
<1>5. CASE pub' = [pub EXCEPT ![s] = "indeterminate"] /\ UNCHANGED <<rec, lease, holds, reserved>>
 <2>1. pub'[s] = "indeterminate" /\ \A t \in Sources \ {s} : pub'[t] = pub[t] BY <1>5, SourceFacts
 <2>2. CapTypes' BY <1>1, <1>5 DEF CapInv, CapTypes
 <2>3. \A t \in Sources : Sound(t)'
  <3>1. Sound(s)' BY <1>1, <1>2, <1>5, <2>1 DEF Sound, Fresh, Unpublished, InPublication, Unresolved, Null
  <3>2. ASSUME NEW t \in Sources, t # s PROVE Sound(t)' BY <1>1, <1>5, <2>1, <3>2 DEF CapInv, Sound, Fresh
  <3> QED BY <3>1, <3>2
 <2>4. KeptIsLive' /\ ReadIsLive' /\ SweptIsFree' BY <1>1, <1>5, KeptLess
 <2>5. Usage' <= RetainedMax
  <3>1. \A t \in Sources : Counted(t)' => Counted(t) BY <1>1, <1>2, <1>5, <2>1 DEF Counted
  <3> QED BY <3>1, UsageKeeps DEF CapInv
 <2> QED BY <1>1, <1>3, <1>5, <2>2, <2>3, <2>4, <2>5, StoreStep
<1> QED BY <1>4, <1>5 DEF RecoverPublished, Set

LEMMA RecoverStagedKeeps == ASSUME CapInv, NEW s \in Sources, RecoverStaged(s) PROVE CapInv'
<1>1. /\ s \in unres /\ s \notin blob
      /\ UNCHANGED <<blob, rec, lease, holds, inputs, reserved, reading, at, target, queue, job, doubt, phase, retention, evict>>
  BY DEF RecoverStaged, Recovering, jobs, tasks
<1>2. PICK p \in {"aborting", "aborted", pub[s]} :
        /\ pub' = [pub EXCEPT ![s] = p] /\ unres' \in {unres, unres \ {s}} /\ (s \in unres' => p \in {pub[s], "aborting"})
 <2>1. pub = [pub EXCEPT ![s] = pub[s]] BY DEF CapInv, CapTypes
 <2> QED BY <2>1 DEF RecoverStaged, Set
<1>3. /\ phase = "booting" /\ (\A t \in Sources : at[t] = Null) /\ Sound(s) /\ pub[s] \in Unresolved \cup {"aborting"}
      /\ rec[s] = Null /\ job[s] \notin {Null, "succeeded"} /\ (job[s] \in {"failed", "cancelled"} => s \in doubt)
      /\ s \notin evict BY <1>1, UnresolvedFacts
<1>4. pub'[s] = p /\ \A t \in Sources \ {s} : pub'[t] = pub[t] /\ (t \in unres' <=> t \in unres) BY <1>2, SourceFacts
<1>5. CapTypes' BY <1>1, <1>2 DEF CapInv, CapTypes
<1>6. \A t \in Sources : Sound(t)'
 <2>1. Sound(s)' BY <1>1, <1>2, <1>3, <1>4 DEF Sound, Fresh, Unpublished, InPublication, Unresolved, Null
 <2>2. ASSUME NEW t \in Sources, t # s PROVE Sound(t)' BY <1>1, <1>4, <2>2 DEF CapInv, Sound, Fresh
 <2> QED BY <2>1, <2>2
<1>7. Locked' /\ Booting' BY <1>1, <1>3 DEF CapInv, Locked, Booting
<1>8. KeptIsLive' /\ ReadIsLive' /\ SweptIsFree' BY <1>1, KeptLess
<1>9. Usage' <= RetainedMax
 <2>1. \A t \in Sources : Counted(t)' => Counted(t) BY <1>1, <1>2, <1>4 DEF Counted, Unresolved
 <2> QED BY <2>1, UsageKeeps DEF CapInv
<1> QED BY <1>1, <1>5, <1>6, <1>7, <1>8, <1>9, StoreStep

LEMMA BootedKeeps == ASSUME CapInv, Booted PROVE CapInv'
<1>1. /\ unres = {} /\ evict = {} /\ phase' = "up" /\ retention' = Null /\ reserved' \subseteq reserved /\ phase = "booting"
      /\ UNCHANGED <<blob, rec, pub, lease, holds, inputs, reading, at, target, queue, job, doubt, unres, evict>>
  BY DEF Booted, jobs, tasks
<1>2. CapTypes' /\ \A t \in Sources : Sound(t)' BY <1>1 DEF CapInv, CapTypes, Sound, Fresh
<1>3. Locked' /\ Booting' BY <1>1 DEF CapInv, Locked, Booting, InPublication, Null
<1>4. KeptIsLive' /\ ReadIsLive' /\ SweptIsFree' BY <1>1, KeptSame
<1>5. Usage' <= RetainedMax BY <1>1, UsageKeeps DEF CapInv, Counted
<1> QED BY <1>1, <1>2, <1>3, <1>4, <1>5, StoreStep

--------------------
LEMMA SourceSteps == ASSUME CapInv, NEW s \in Sources, OfSource(s) PROVE CapInv'
<1>1. CASE Journal(s) BY <1>1, JournalKeeps
<1>2. CASE RenameSource(s) BY <1>2, SourceRenamedKeeps
<1>3. CASE CommitSource(s) BY <1>3, SourceCommittedKeeps
<1>4. CASE Succeed(s) BY <1>4, SucceedKeeps
<1>5. CASE FailTask(s) BY <1>5, TaskFailKeeps
<1>6. CASE Release(s) BY <1>6, ReleaseKeeps
<1>7. CASE Cancel(s) BY <1>7, CancelKeeps
<1>8. CASE ReaderEnds(s) BY <1>8, ReaderEndsKeeps
<1>9. CASE Tombstone(s) BY <1>9, TombstoneKeeps
<1>10. CASE Unlink(s) BY <1>10, UnlinkKeeps
<1>11. CASE Evicted(s) BY <1>11, EvictedKeeps
<1>12. CASE CollectPartial(s) BY <1>12, CollectKeeps
<1>13. CASE Interrupt(s) BY <1>13, InterruptKeeps
<1>14. CASE RecoverPublished(s) BY <1>14, RecoverPublishedKeeps
<1>15. CASE RecoverStaged(s) BY <1>15, RecoverStagedKeeps
<1> QED BY <1>1, <1>2, <1>3, <1>4, <1>5, <1>6, <1>7, <1>8, <1>9, <1>10, <1>11, <1>12, <1>13, <1>14, <1>15 DEF OfSource

LEMMA CaptureSteps == ASSUME CapInv, NEW c \in Captures, OfCapture(c) PROVE CapInv'
<1>1. CASE Claim(c) BY <1>1, ClaimKeeps
<1>2. CASE RefuseCapture(c) BY <1>2, RefuseKeeps
<1>3. CASE QueueHash(c) BY <1>3, QueueHashKeeps
<1>4. CASE QueueCapture(c) BY <1>4, QueueCaptureKeeps
<1>5. CASE RetainStaged(c) BY <1>5, RetainStagedKeeps
<1>6. CASE Preview(c) BY <1>6, PreviewKeeps
<1>7. CASE StartTask(c) BY <1>7, TaskStartKeeps
<1>8. CASE Hash(c) BY <1>8, HashKeeps
<1>9. CASE HashEnds(c) BY <1>9, HashEndsKeeps
<1>10. CASE CaptureTask(c) \/ Retain(c) \/ PreviewRequest(c) BY <1>10, CopyKeeps
<1>11. CASE OpenCapture(c) BY <1>11, OpenCaptureKeeps
<1>12. CASE TakeLease(c) BY <1>12, TakeLeaseKeeps
<1>13. CASE LeaseEnds(c) BY <1>13, LeaseEndsKeeps
<1>14. CASE Hold(c) BY <1>14, HoldKeeps
<1>15. CASE ReleaseHold(c) BY <1>15, ReleaseHoldKeeps
<1>16. CASE \E d \in Captures : ReuseSource(c, d) BY <1>16, ReuseKeeps
<1> QED
  BY <1>1, <1>2, <1>3, <1>4, <1>5, <1>6, <1>7, <1>8, <1>9, <1>10, <1>11, <1>12, <1>13, <1>14, <1>15, <1>16 DEF OfCapture

LEMMA IndexSteps == ASSUME CapInv, NEW x \in Indexes, OfIndex(x) PROVE CapInv'
<1>1. CASE PrepareWorkbook(x)
 <2>1. PICK c \in Captures : ReserveIndex(x, {c}) BY <1>1 DEF PrepareWorkbook
 <2> QED BY <2>1, ReserveKeeps
<1>2. CASE PrepareMap(x) BY <1>2, ReserveKeeps DEF PrepareMap
<1>3. CASE RunWorkbook(x) \/ RunMap(x) BY <1>3, PreparationKeeps
<1>4. CASE OpenWorkbook(x) \/ OpenMap(x) BY <1>4, OpenIndexKeeps
<1> QED BY <1>1, <1>2, <1>3, <1>4 DEF OfIndex

LEMMA CapturesStep == CapInv /\ [CapturesNext]_capVars => CapInv'
<1> SUFFICES ASSUME CapInv, [CapturesNext]_capVars PROVE CapInv' OBVIOUS
<1>1. CASE \E s \in Sources : OfSource(s) BY <1>1, SourceSteps
<1>2. CASE \E c \in Captures : OfCapture(c) BY <1>2, CaptureSteps
<1>3. CASE \E x \in Indexes : OfIndex(x) BY <1>3, IndexSteps
<1>4. CASE Sweep BY <1>4, SweepKeeps
<1>5. CASE SweepEnds BY <1>5, SweepEndsKeeps
<1>6. CASE CapturesCrash BY <1>6, CapturesCrashKeeps
<1>7. CASE Booted BY <1>7, BootedKeeps
<1>8. CASE UNCHANGED capVars
 <2>1. UNCHANGED <<blob, rec, pub, inputs, reserved, job, doubt, at, target, queue, retention, evict, phase, unres, lease, holds, reading>>
   BY <1>8 DEF capVars, bytes, meta, jobs, tasks, store
 <2>2. KeptIsLive' /\ ReadIsLive' /\ SweptIsFree' BY <2>1, KeptLess
 <2>3. LeasedStays' /\ lease' \subseteq Captures /\ holds' \in [Sources -> SUBSET (Sources \cup {"initial", "client"})]
   BY <2>1 DEF CapInv, CapTypes, LeasedStays
 <2> QED BY <2>1, <2>2, <2>3, KeepStep
<1> QED BY <1>1, <1>2, <1>3, <1>4, <1>5, <1>6, <1>7, <1>8 DEF CapturesNext

\* What the invariant promises of the files on disk.
LEMMA FilesCounted == CapInv => Cardinality(blob) <= RetainedMax
<1> SUFFICES ASSUME CapInv PROVE Cardinality(blob) <= RetainedMax OBVIOUS
<1> DEFINE A == {s \in Sources : Counted(s)}
<1>1. Usage = Cardinality(A) /\ IsFiniteSet(A) /\ Usage \in Nat BY UsageCounts
<1>2. blob \subseteq A BY DEF CapInv, CapTypes, Sound, Counted
<1> HIDE DEF A
<1>3. Cardinality(blob) <= Cardinality(A) /\ Cardinality(blob) \in Nat BY <1>1, <1>2, FS_Subset, FS_CardinalityType
<1> QED BY <1>1, <1>3, CapturesAssumption DEF CapInv

\* What somebody keeps stays, every protected file is accounted for under the ceiling,
\* and receipts tell the truth, through sweeps, faults and restarts (file-captures.js).
THEOREM CapturesAreKept == CapturesSpec => []CapturePromises
<1>1. CapturesInit => CapInv BY CapturesInitially
<1>2. CapInv /\ [CapturesNext]_capVars => CapInv' BY CapturesStep
<1>3. CapInv => CapturePromises
 <2> SUFFICES ASSUME CapInv PROVE CapturePromises OBVIOUS
 <2>1. RetainedStays BY DEF CapInv, KeptIsLive, ReadIsLive, Kept, Named, RetainedStays
 <2>2. BytesAccounted BY FilesCounted DEF CapInv, CapTypes, Sound, BytesAccounted
 <2>3. CaptureReceipts BY DEF CapInv, Sound, Fresh, Unresolved, Null, CaptureReceipts
 <2> QED BY <2>1, <2>2, <2>3 DEF CapturePromises
<1> QED BY <1>1, <1>2, <1>3, PTL DEF CapturesSpec
================================================================================
