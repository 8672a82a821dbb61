--------------------------- MODULE ConversationStore ---------------------------
(***************************************************************************)
(* A conversation's four records and what a crash leaves of them: its      *)
(* session in the engine, its entry of the index (session-index.js), its   *)
(* log and its run folder.  session/new makes them one after another       *)
(* (session-broker.js), the first prompt titles the entry, and a boot      *)
(* loads, repairs and migrates the index and prunes what was never         *)
(* prompted or what the index does not know (server.js).                   *)
(*                                                                         *)
(* The index file is replaced whole by a save that takes the entries of    *)
(* its own moment, so the entries are one state in memory and one on disk. *)
(* Damage from outside may hit the file while the gateway is down.         *)
(***************************************************************************)
EXTENDS Naturals, FiniteSets

CONSTANTS Chats,          \* engine conversations (ids ses_...)
          Cline,          \* archived ids of the previous engine, in a v2 index
          MaxStoreEvents  \* bound: crashes, damage, failures, losses

Ids == Chats \union Cline

VARIABLES idx,            \* SessionIndex.entries
          quar,           \* ids of SessionIndex.quarantine
          idxFile,        \* index.json: its kind, its entries, the malformed ones
          backup,         \* index.v2.json exists
          convLog,        \* sessions/<id>: "none", "empty", "events", "prompted", "rotated"
          aside,          \* logs moved to sessions/.orphaned
          runDir,         \* runs/<id>: "none", "empty", "files"
          eng,            \* ids the engine knows
          deletes,        \* SessionBroker.engineDeletes
          storeStep,      \* id -> where session/new or its prompt stands
          storeBoot,      \* "down", the steps of createServer, "up"
          damaged,        \* SessionIndex.damaged
          pruned,         \* engine ids this boot removed
          had, untold,    \* conversations prompted; those whose title was not saved, or not found
          nameless,       \* those whose entry of the file lost its usable id
          storeEvents
storeVars == <<idx, quar, idxFile, backup, convLog, aside, runDir, eng, deletes, storeStep, storeBoot,
               damaged, pruned, had, untold, nameless, storeEvents>>

NoEntry == [there |-> FALSE, title |-> FALSE, archived |-> FALSE]
EmptyIndex == [c \in Ids |-> NoEntry]
Entry(title, archived) == [there |-> TRUE, title |-> title, archived |-> archived]
StoreEvent == storeEvents < MaxStoreEvents /\ storeEvents' = storeEvents + 1
Quiet == UNCHANGED storeEvents

StoreInit ==
    /\ idx = EmptyIndex /\ quar = {}
    /\ idxFile = IF Cline = {} THEN [kind |-> "none", ent |-> EmptyIndex, bad |-> {}]
                 ELSE [kind |-> "v2", bad |-> {},
                       ent |-> [c \in Ids |-> IF c \in Cline THEN Entry(TRUE, FALSE) ELSE NoEntry]]
    /\ backup = FALSE
    /\ convLog = [c \in Ids |-> IF c \in Cline THEN "prompted" ELSE "none"]
    /\ aside = {} /\ runDir = [c \in Ids |-> "none"] /\ eng = {} /\ deletes = {}
    /\ storeStep = [c \in Ids |-> "none"] /\ storeBoot = "down" /\ damaged = FALSE /\ pruned = {}
    /\ had = Cline /\ untold = {} /\ nameless = {} /\ storeEvents = 0

\* save(): tmp and rename, one writer; it fails whole
SaveOk(entries) ==
    /\ idxFile' = [kind |-> "v3", ent |-> [c \in Ids |-> IF c \in quar THEN idxFile.ent[c] ELSE entries[c]],
                   bad |-> quar]
    /\ untold' = {c \in untold : ~entries[c].title}
SaveFails == UNCHANGED <<idxFile, untold>>

-------------------------------------------------------------------------------
\* session/new: engine.newSession, then setMode, index.add, mkdir and the
\* log; a failure of any of them undoes what the catch undoes.
EngineCreates(c) ==
    /\ storeBoot = "up" /\ c \in Chats /\ storeStep[c] = "none" /\ ~idx[c].there /\ convLog[c] = "none"
    /\ c \notin eng \union had \union aside   \* the engine gives an id once
    /\ eng' = eng \union {c} /\ storeStep' = [storeStep EXCEPT ![c] = "mode"] /\ Quiet
    /\ UNCHANGED <<idx, quar, idxFile, backup, convLog, aside, runDir, deletes, storeBoot, damaged, pruned,
                   had, nameless, untold>>

Add(c) ==   \* setMode answered, index.add: the entry, then its save
    /\ storeStep[c] = "mode"
    /\ idx' = [idx EXCEPT ![c] = Entry(FALSE, FALSE)]
    /\ \/ SaveOk(idx') /\ storeStep' = [storeStep EXCEPT ![c] = "dirs"] /\ Quiet
       \/ SaveFails /\ storeStep' = [storeStep EXCEPT ![c] = "undo"] /\ StoreEvent
    /\ UNCHANGED <<quar, backup, convLog, aside, runDir, eng, deletes, storeBoot, damaged, pruned, had,
                   nameless>>

OpenDirs(c) ==   \* mkdir and the log
    /\ storeStep[c] = "dirs"
    /\ runDir' = [runDir EXCEPT ![c] = "empty"]
    /\ convLog' = [convLog EXCEPT ![c] = IF @ = "none" THEN "empty" ELSE @]
    /\ storeStep' = [storeStep EXCEPT ![c] = "ready"] /\ Quiet
    /\ UNCHANGED <<idx, quar, idxFile, backup, aside, eng, deletes, storeBoot, damaged, pruned, had, nameless,
                   untold>>

NewFails(c) ==
    /\ storeStep[c] \in {"mode", "dirs"} /\ StoreEvent
    /\ storeStep' = [storeStep EXCEPT ![c] = "undo"]
    /\ UNCHANGED <<idx, quar, idxFile, backup, convLog, aside, runDir, eng, deletes, storeBoot, damaged,
                   pruned, had, nameless, untold>>

FrameLogged(c) ==   \* the conversation is registered: its frames open its log
    /\ storeStep[c] \in {"mode", "dirs", "undo"} /\ convLog[c] = "none" /\ Quiet
    /\ convLog' = [convLog EXCEPT ![c] = "events"]
    /\ UNCHANGED <<idx, quar, idxFile, backup, aside, runDir, eng, deletes, storeStep, storeBoot, damaged,
                   pruned, had, nameless, untold>>

Undo(c) ==   \* index.remove and engine.deleteSession, both allowed to fail
    /\ storeStep[c] = "undo" /\ storeStep' = [storeStep EXCEPT ![c] = "none"]
    /\ idx' = [idx EXCEPT ![c] = NoEntry]
    /\ (idx[c].there /\ SaveOk(idx')) \/ SaveFails
    /\ eng' \in {eng, eng \ {c}} /\ Quiet
    /\ UNCHANGED <<quar, backup, convLog, aside, runDir, deletes, storeBoot, damaged, pruned, had, nameless>>

-------------------------------------------------------------------------------
\* The first prompt titles the entry and waits for its save before any of
\* it is recorded; a failed save ends the turn, and only turn_end is
\* logged.  The end of a turn touches the entry again.
Transcript(c) == convLog[c] \in {"prompted", "rotated"}

PromptEchoFirst(c) ==
    /\ storeStep[c] = "ready" /\ ~idx[c].archived
    /\ storeStep' = [storeStep EXCEPT ![c] = IF idx[c].title THEN "echo" ELSE "title"] /\ Quiet
    /\ convLog' = [convLog EXCEPT ![c] = "prompted"] /\ had' = had \union {c}
    /\ UNCHANGED <<idx, quar, idxFile, backup, aside, runDir, eng, deletes, storeBoot, damaged, pruned,
                   nameless, untold>>

Prompt(c) ==
    /\ storeStep[c] = "ready" /\ ~idx[c].archived
    /\ storeStep' = [storeStep EXCEPT ![c] = IF idx[c].title THEN "echo" ELSE "title"] /\ Quiet
    /\ UNCHANGED <<idx, quar, idxFile, backup, convLog, aside, runDir, eng, deletes, storeBoot, damaged,
                   pruned, had, nameless, untold>>

Title(c) ==
    /\ storeStep[c] = "title"
    /\ idx' = [idx EXCEPT ![c].title = TRUE]
    /\ \/ SaveOk(idx') /\ storeStep' = [storeStep EXCEPT ![c] = "echo"] /\ Quiet /\ UNCHANGED convLog
       \/ /\ StoreEvent /\ storeStep' = [storeStep EXCEPT ![c] = "ready"]
          /\ convLog' = [convLog EXCEPT ![c] = IF Transcript(c) THEN "prompted" ELSE "events"]
          /\ untold' = untold \union {c} /\ UNCHANGED idxFile
    /\ UNCHANGED <<quar, backup, aside, runDir, eng, deletes, storeBoot, damaged, pruned, had, nameless>>

Echo(c) ==
    /\ storeStep[c] = "echo" /\ storeStep' = [storeStep EXCEPT ![c] = "turn"] /\ Quiet
    /\ convLog' = [convLog EXCEPT ![c] = "prompted"] /\ had' = had \union {c}
    /\ UNCHANGED <<idx, quar, idxFile, backup, aside, runDir, eng, deletes, storeBoot, damaged, pruned,
                   nameless, untold>>

LogRotates(c) ==   \* rename to events.1.ndjson: until the next line there is no events.ndjson
    /\ storeStep[c] \in {"echo", "turn"} /\ convLog[c] = "prompted" /\ Quiet
    /\ convLog' = [convLog EXCEPT ![c] = "rotated"]
    /\ UNCHANGED <<idx, quar, idxFile, backup, aside, runDir, eng, deletes, storeStep, storeBoot, damaged,
                   pruned, had, nameless, untold>>

TurnEnds(c) ==   \* a turn_end that is not written leaves a rotated log as it is
    /\ storeStep[c] = "turn" /\ storeStep' = [storeStep EXCEPT ![c] = "ready"]
    /\ runDir' \in {runDir, [runDir EXCEPT ![c] = "files"]}
    /\ convLog' \in {convLog, [convLog EXCEPT ![c] = IF @ = "rotated" THEN "prompted" ELSE @]}
    /\ (SaveOk(idx) /\ Quiet) \/ (SaveFails /\ StoreEvent)
    /\ UNCHANGED <<idx, quar, backup, aside, eng, deletes, storeBoot, damaged, pruned, had, nameless>>

EngineResets ==   \* its database is lost
    /\ StoreEvent /\ eng # {} /\ eng' = {}
    /\ UNCHANGED <<idx, quar, idxFile, backup, convLog, aside, runDir, deletes, storeStep, storeBoot, damaged,
                   pruned, had, nameless, untold>>

BindFindsNothing(c) ==   \* archive(lost)
    /\ storeStep[c] = "ready" /\ ~idx[c].archived /\ c \notin eng
    /\ idx' = [idx EXCEPT ![c].archived = TRUE]
    /\ SaveOk(idx') \/ SaveFails
    /\ Quiet
    /\ UNCHANGED <<quar, backup, convLog, aside, runDir, eng, deletes, storeStep, storeBoot, damaged, pruned,
                   had, nameless>>

-------------------------------------------------------------------------------
StoreCrash ==
    /\ storeBoot # "down" /\ StoreEvent
    /\ storeBoot' = "down" /\ idx' = EmptyIndex /\ quar' = {} /\ damaged' = FALSE /\ pruned' = {} /\ deletes' = {}
    /\ storeStep' = [c \in Ids |-> "none"]
    /\ UNCHANGED <<idxFile, backup, convLog, aside, runDir, eng, had, nameless, untold>>

DamageIndex ==   \* of the file, or of one entry, which keeps a usable id or not
    /\ storeBoot = "down" /\ StoreEvent /\ idxFile.kind # "none"
    /\ \/ /\ \E kind \in {"none", "bad"} : idxFile' = [kind |-> kind, ent |-> EmptyIndex, bad |-> {}]
          /\ UNCHANGED nameless
       \/ \E c \in Ids :
             /\ idxFile.ent[c].there
             /\ \/ idxFile' = [idxFile EXCEPT !.bad = @ \union {c}] /\ UNCHANGED nameless
                \/ /\ idxFile' = [idxFile EXCEPT !.ent[c] = NoEntry, !.bad = @ \ {c}]
                   /\ nameless' = nameless \union {c}
    /\ UNCHANGED <<idx, quar, backup, convLog, aside, runDir, eng, deletes, storeStep, storeBoot, damaged,
                   pruned, had, untold>>

-------------------------------------------------------------------------------
\* SessionIndex.load: what the file has, or what the logs say of a file
\* that is unreadable, or gone while there are logs.  Only events.ndjson
\* tells a log with events: one that is all in events.1.ndjson is taken
\* for an empty one, titled only if its meta.json is.
HasEvents(c) == convLog[c] \in {"events", "prompted"}   \* events.ndjson is not empty

HasLogs == \E c \in Ids : HasEvents(c)

IsDamaged == idxFile.kind = "bad" \/ (idxFile.kind = "none" /\ HasLogs)

Ingest(c) == IF c \in idxFile.bad THEN NoEntry ELSE idxFile.ent[c]

Rebuilt(c, inMeta) ==
    IF Ingest(c).there \/ convLog[c] = "none" THEN Ingest(c)
    ELSE Entry(HasEvents(c) \/ c \in inMeta, FALSE)

Archived(e, c) == IF e.there /\ c \in Cline THEN [e EXCEPT !.archived = TRUE] ELSE e

OnlyRotated == {c \in Ids : convLog[c] = "rotated"}

Load ==   \* inMeta: the rotated logs whose title was in meta.json before the crash
    /\ storeBoot = "down"
    /\ damaged' = IsDamaged /\ quar' = idxFile.bad
    /\ \E inMeta \in SUBSET OnlyRotated :
          idx' = [c \in Ids |-> Archived(IF IsDamaged THEN Rebuilt(c, inMeta) ELSE Ingest(c), c)]
    /\ storeBoot' = IF idxFile.kind = "v3" THEN "prune" ELSE IF idxFile.kind = "v2" THEN "backup" ELSE "save"
    /\ untold' = untold \union {c \in OnlyRotated : ~idx'[c].title /\ c \notin quar'} /\ Quiet
    /\ UNCHANGED <<idxFile, backup, convLog, aside, runDir, eng, deletes, storeStep, pruned, had, nameless>>

BackupV2 ==   \* copied once; a copy that fails does not stop the migration
    /\ storeBoot = "backup" /\ storeBoot' = "save"
    /\ backup' \in {TRUE, backup} /\ Quiet
    /\ UNCHANGED <<idx, quar, idxFile, convLog, aside, runDir, eng, deletes, storeStep, damaged, pruned, had,
                   nameless, untold>>

SaveLoaded ==   \* a save that fails here fails the boot
    /\ storeBoot = "save"
    /\ \/ SaveOk(idx) /\ storeBoot' = (IF damaged THEN "serve" ELSE "prune") /\ Quiet /\ UNCHANGED idx
       \/ SaveFails /\ storeBoot' = "down" /\ StoreEvent /\ idx' = EmptyIndex
    /\ UNCHANGED <<quar, backup, convLog, aside, runDir, eng, deletes, storeStep, damaged, pruned, had,
                   nameless>>

Listed(c) == idx[c].there /\ idx[c].title

Untitled == {c \in Ids : idx[c].there /\ ~idx[c].title}

PruneUnprompted(c) ==   \* its log, its run folder if nothing is in it
    /\ storeBoot = "prune" /\ c \in Untitled
    /\ idx' = [idx EXCEPT ![c] = NoEntry]
    /\ convLog' = [convLog EXCEPT ![c] = "none"]
    /\ runDir' = [runDir EXCEPT ![c] = IF @ = "empty" THEN "none" ELSE @]
    /\ pruned' = IF c \in Chats /\ ~idx[c].archived THEN pruned \union {c} ELSE pruned
    /\ Quiet
    /\ UNCHANGED <<quar, idxFile, backup, aside, eng, deletes, storeStep, storeBoot, damaged, had, nameless,
                   untold>>

SomePruned == \E c \in Ids \ quar : idxFile.ent[c].there /\ ~idx[c].there

SavePruned ==
    /\ storeBoot = "prune" /\ Untitled = {}
    /\ \/ SomePruned /\ SaveOk(idx) /\ storeBoot' = "orphans" /\ Quiet /\ UNCHANGED idx
       \/ SomePruned /\ SaveFails /\ storeBoot' = "down" /\ StoreEvent /\ idx' = EmptyIndex
       \/ ~SomePruned /\ storeBoot' = "orphans" /\ Quiet /\ UNCHANGED <<idx, idxFile, untold>>
    /\ UNCHANGED <<quar, backup, convLog, aside, runDir, eng, deletes, storeStep, damaged, pruned, had,
                   nameless>>

Known == quar \union {c \in Ids : idx[c].there}
Orphans == {c \in Ids \ Known : convLog[c] # "none" \/ runDir[c] = "empty"}

PruneOrphan(c) ==   \* a log with events is set aside, any other deleted
    /\ storeBoot = "orphans" /\ c \in Orphans
    /\ aside' = IF HasEvents(c) THEN aside \union {c} ELSE aside
    /\ convLog' = [convLog EXCEPT ![c] = "none"]
    /\ runDir' = [runDir EXCEPT ![c] = IF @ = "empty" THEN "none" ELSE @]
    /\ Quiet
    /\ UNCHANGED <<idx, quar, idxFile, backup, eng, deletes, storeStep, storeBoot, damaged, pruned, had,
                   nameless, untold>>

Serve ==   \* forgetEngineSessions, then every entry answers #known
    /\ storeBoot = "serve" \/ (storeBoot = "orphans" /\ Orphans = {})
    /\ storeBoot' = "up" /\ deletes' = pruned /\ pruned' = {}
    /\ storeStep' = [c \in Ids |-> IF idx[c].there THEN "ready" ELSE "none"] /\ Quiet
    /\ UNCHANGED <<idx, quar, idxFile, backup, convLog, aside, runDir, eng, damaged, had, nameless, untold>>

FlushDelete(c) ==
    /\ storeBoot = "up" /\ c \in deletes
    /\ deletes' = deletes \ {c} /\ eng' \in {eng, eng \ {c}} /\ Quiet
    /\ UNCHANGED <<idx, quar, idxFile, backup, convLog, aside, runDir, storeStep, storeBoot, damaged, pruned,
                   had, nameless, untold>>

StoreNext ==
    \/ EngineResets \/ StoreCrash \/ DamageIndex \/ Load \/ BackupV2 \/ SaveLoaded \/ SavePruned \/ Serve
    \/ \E c \in Ids : EngineCreates(c) \/ Add(c) \/ OpenDirs(c) \/ NewFails(c) \/ FrameLogged(c)
          \/ Undo(c)
          \/ Prompt(c) \/ Title(c) \/ Echo(c) \/ LogRotates(c) \/ TurnEnds(c) \/ BindFindsNothing(c)
          \/ PruneUnprompted(c) \/ PruneOrphan(c) \/ FlushDelete(c)

StoreSpec == StoreInit /\ [][StoreNext]_storeVars

-------------------------------------------------------------------------------
\* A conversation that was prompted keeps its transcript and is listed by
\* every gateway that serves, whatever crashed between its records and
\* whatever became of the index file.  Only an entry made malformed is not
\* listed, its transcript set aside if no id could be read from it; and
\* only a title that was not saved, or that a boot could not find because
\* the index had lost it while the log was between a rotation and its next
\* line, lets a boot take the conversation for one never prompted.
PromptedIsKept ==
    \A c \in had \ untold :
        \/ c \in aside \intersect nameless
        \/ Transcript(c) /\ (storeBoot = "up" => Listed(c) \/ c \in quar)
================================================================================
