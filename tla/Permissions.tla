------------------------------ MODULE Permissions ------------------------------
(***************************************************************************)
(* Permission requests of one conversation: the engine asks, the broker    *)
(* answers from the saved "always allow" rules (prefs.js) or holds the     *)
(* request until a socket, a cancel, the end of the turn, the engine's own *)
(* withdrawal, its exit or a timeout answers it (session-broker.js).  What *)
(* the backend learns of it is the conversation's activity lease           *)
(* (activity.js).                                                          *)
(*                                                                         *)
(* A request is opened before one await (the log), registered after it and *)
(* asked of the sockets after a second await (the append): turns end and   *)
(* start, sockets attach and answer in between.  And it need not be the    *)
(* running turn's: nothing is checked, and the engine may work on a prompt *)
(* whose turn was ended by force.                                          *)
(***************************************************************************)
EXTENDS Naturals

CONSTANTS Requests,      \* permission requests of the engine
          Tools, NoTool, \* what permissionIdentifier makes of a tool call
          Tabs,          \* browser sockets attached to the conversation
          MaxTurns,      \* bound: turns of the conversation
          MaxPermCrashes \* bound: restarts of the gateway

VARIABLES req,           \* request -> where it stands, what it asks for, by whom it was answered
          stage,         \* conv.turn; "admitted" is its "running" before the lease
          turnNo,        \* the number of the turn
          asking,        \* turns whose prompt the engine works on
          shown,         \* socket -> open questions on it
          rules,         \* prefs.rules in memory
          ruleFile,      \* prefs.json: a set of rules, or torn
          ruleWrites,    \* prefs' writeFile calls in flight: the rules they write
          lease,         \* activity.turns' entry of the conversation
          consented,     \* tools a user chose "always allow" for
          permCrashes
permVars == <<req, stage, turnNo, asking, shown, rules, ruleFile, ruleWrites, lease, consented,
              permCrashes>>

Torn == {"torn"}
\* from: whose prompt asks (0: none); turn: the one that ran when it was registered (0: none)
NoRequest == [st |-> "none", tool |-> NoTool, from |-> 0, turn |-> 0, by |-> "nobody"]
\* Out of conv.pending; its handler may still be waiting for the log.
Answered(q, by) == [NoRequest EXCEPT !.st = IF q.st = "registering" THEN "overtaken" ELSE "answered",
                                     !.tool = q.tool, !.by = by]
PendingOf(q) == {r \in Requests : q[r].st \in {"registering", "asked"}}
OpenRequests == PendingOf(req)
Running == stage \in {"admitted", "running"}

\* activity.js: without an entry, setState does nothing
SetState(present, state) == IF present = "none" THEN "none" ELSE state

\* prefs.js
IsAllowed(tool) == tool # NoTool /\ tool \in rules

\* answerPermission of the requests in rs, one after another: each is out
\* of pending at once, and the last one of a running turn puts the lease
\* back.
LeaseAfterAny(q) ==
    IF Running THEN SetState(lease, "prompt_running") ELSE lease

LeaseAfter(q) ==
    IF Running /\ PendingOf(q) = {} THEN SetState(lease, "prompt_running") ELSE lease

Answer(rs, by) ==
    LET q == [r \in Requests |-> IF r \in rs THEN Answered(req[r], by) ELSE req[r]]
    IN  /\ req' = q
        /\ lease' = IF rs = {} THEN lease ELSE LeaseAfter(q)

PermissionsInit ==
    /\ req = [r \in Requests |-> NoRequest]
    /\ stage = "idle" /\ turnNo = 0 /\ asking = {}
    /\ shown = [t \in Tabs |-> {}]
    /\ rules = {} /\ ruleFile = {} /\ ruleWrites = {}
    /\ lease = "none" /\ consented = {} /\ permCrashes = 0

-------------------------------------------------------------------------------
\* Turns, as far as permissions see them: activity.start follows the echo
\* of the prompt; the end of a turn answers what is pending, and
\* activity.stop drops the lease once turn_end is written.
StartTurn ==
    /\ stage = "idle" /\ turnNo < MaxTurns
    /\ stage' = "admitted" /\ turnNo' = turnNo + 1
    /\ UNCHANGED <<req, asking, shown, rules, ruleFile, ruleWrites, lease, consented, permCrashes>>

EchoDone ==
    /\ stage = "admitted"
    /\ stage' = "running" /\ lease' = "prompt_running"
    /\ UNCHANGED <<req, turnNo, asking, shown, rules, ruleFile, ruleWrites, consented, permCrashes>>

\* The turn's prompt, again for a correction or after a new bind; a turn
\* that is ended by force leaves it with the engine.
PromptSent ==
    /\ stage = "running" /\ turnNo \notin asking
    /\ asking' = asking \union {turnNo}
    /\ UNCHANGED <<req, stage, turnNo, shown, rules, ruleFile, ruleWrites, lease, consented, permCrashes>>

PromptEnds(n) ==
    /\ asking' = asking \ {n}
    /\ UNCHANGED <<req, stage, turnNo, shown, rules, ruleFile, ruleWrites, lease, consented, permCrashes>>

EndTurn ==
    /\ Running
    /\ stage' = "ending"
    /\ req' = [r \in Requests |-> IF r \in OpenRequests THEN Answered(req[r], "turn_end") ELSE req[r]]
    /\ UNCHANGED <<turnNo, asking, shown, rules, ruleFile, ruleWrites, lease, consented, permCrashes>>

TurnSettled ==
    /\ stage = "ending"
    /\ stage' = "idle" /\ lease' = "none"
    /\ UNCHANGED <<req, turnNo, asking, shown, rules, ruleFile, ruleWrites, consented, permCrashes>>

\* session/cancel answers every pending request before the engine is told
CancelTurn ==
    /\ Running /\ OpenRequests # {}
    /\ Answer(OpenRequests, "cancel")
    /\ UNCHANGED <<stage, turnNo, asking, shown, rules, ruleFile, ruleWrites, consented, permCrashes>>

EngineExits ==
    /\ OpenRequests # {} \/ asking # {}
    /\ Answer(OpenRequests, "engine_exit") /\ asking' = {}
    /\ UNCHANGED <<stage, turnNo, shown, rules, ruleFile, ruleWrites, consented, permCrashes>>

\* An expected exit (a restart between turns) answers nothing.
EngineRestarts ==
    /\ stage = "idle" /\ asking # {}
    /\ asking' = {}
    /\ UNCHANGED <<req, stage, turnNo, shown, rules, ruleFile, ruleWrites, lease, consented, permCrashes>>

-------------------------------------------------------------------------------
\* #onEnginePermission
AskUnknown(r) ==   \* no conversation of that id, or no options
    /\ req[r].st = "none"
    /\ req' = [req EXCEPT ![r] = [@ EXCEPT !.st = "answered"]]
    /\ UNCHANGED <<stage, turnNo, asking, shown, rules, ruleFile, ruleWrites, lease, consented, permCrashes>>

EngineAsks(r) ==
    /\ req[r].st = "none"
    /\ \E tool \in Tools \union {NoTool}, n \in asking \union {0} :
          req' = [req EXCEPT ![r] = [NoRequest EXCEPT !.st = "opening", !.tool = tool, !.from = n]]
    /\ UNCHANGED <<stage, turnNo, asking, shown, rules, ruleFile, ruleWrites, lease, consented, permCrashes>>

ByPolicy(r) ==
    /\ req[r].st = "opening" /\ IsAllowed(req[r].tool)
    /\ req' = [req EXCEPT ![r] = [@ EXCEPT !.st = "logging"]]
    /\ UNCHANGED <<stage, turnNo, asking, shown, rules, ruleFile, ruleWrites, lease, consented, permCrashes>>

PolicyAnswers(r) ==   \* after both appends
    /\ req[r].st = "logging"
    /\ req' = [req EXCEPT ![r] = Answered(@, "policy")]
    /\ UNCHANGED <<stage, turnNo, asking, shown, rules, ruleFile, ruleWrites, lease, consented, permCrashes>>

Register(r) ==
    /\ req[r].st = "opening" /\ ~IsAllowed(req[r].tool)
    /\ req' = [req EXCEPT ![r] = [@ EXCEPT !.st = "registering", !.turn = IF Running THEN turnNo ELSE 0]]
    /\ UNCHANGED <<stage, turnNo, asking, shown, rules, ruleFile, ruleWrites, lease, consented, permCrashes>>

\* After the append: the lease asks for the user and every attached socket
\* is asked, though the request may have been answered meanwhile.
AskPorts(r) ==
    /\ req[r].st = "registering"
    /\ req' = [req EXCEPT ![r].st = "asked"]
    /\ lease' = IF Running THEN SetState(lease, "permission_pending") ELSE lease
    /\ shown' = [t \in Tabs |-> shown[t] \union {r}]
    /\ UNCHANGED <<stage, turnNo, asking, rules, ruleFile, ruleWrites, consented, permCrashes>>

LateAsk(r) ==
    /\ req[r].st = "overtaken"
    /\ req' = [req EXCEPT ![r].st = "answered"]
    /\ lease' = IF Running THEN SetState(lease, "permission_pending") ELSE lease
    /\ shown' = [t \in Tabs |-> shown[t] \union {r}]
    /\ UNCHANGED <<stage, turnNo, asking, rules, ruleFile, ruleWrites, consented, permCrashes>>

Reissue(t) ==   \* a socket that attaches is asked what is pending
    /\ ~(OpenRequests \subseteq shown[t])
    /\ shown' = [shown EXCEPT ![t] = @ \union OpenRequests]
    /\ UNCHANGED <<req, stage, turnNo, asking, rules, ruleFile, ruleWrites, lease, consented, permCrashes>>

-------------------------------------------------------------------------------
\* Answers of a socket: the first one counts, a later one finds nothing.
\* "Always" is remembered here; the engine gets a one-off yes.
RememberRule(tool) ==
    IF tool = NoTool \/ tool \in rules
    THEN UNCHANGED <<rules, ruleWrites>>
    ELSE /\ rules' = rules \union {tool}
         /\ ruleWrites' = ruleWrites \union {rules \union {tool}}

UserAnswers(t, r) ==
    /\ r \in shown[t] /\ shown' = [shown EXCEPT ![t] = @ \ {r}]
    /\ \/ /\ r \in OpenRequests /\ Answer({r}, "user")
          /\ \/ UNCHANGED <<rules, ruleWrites, consented>>          \* once, or no
             \/ RememberRule(req[r].tool) /\ consented' = consented \union {req[r].tool}
       \/ r \notin OpenRequests /\ UNCHANGED <<req, lease, rules, ruleWrites, consented>>
    /\ UNCHANGED <<stage, turnNo, asking, ruleFile, permCrashes>>

EngineWithdraws(r) ==
    /\ r \in OpenRequests
    /\ Answer({r}, "engine")
    /\ UNCHANGED <<stage, turnNo, asking, shown, rules, ruleFile, ruleWrites, consented, permCrashes>>

TimesOut(r) ==
    /\ r \in OpenRequests
    /\ Answer({r}, "timeout")
    /\ UNCHANGED <<stage, turnNo, asking, shown, rules, ruleFile, ruleWrites, consented, permCrashes>>

\* Prefs.allowAlways writes the file in place: begun writes leave it torn
\* until one ends, and two at once may leave it torn.
WriteRules(w) ==
    /\ w \in ruleWrites
    /\ ruleWrites' = ruleWrites \ {w}
    /\ ruleFile' \in {w} \union (IF ruleWrites = {w} THEN {} ELSE {Torn})
    /\ UNCHANGED <<req, stage, turnNo, asking, shown, rules, lease, consented, permCrashes>>

LoadRules(f) == IF f = Torn THEN {} ELSE f

GatewayRestarts ==
    /\ permCrashes < MaxPermCrashes /\ permCrashes' = permCrashes + 1
    /\ \E f \in {ruleFile} \union (IF ruleWrites = {} THEN {} ELSE {Torn}) :
          ruleFile' = f /\ rules' = LoadRules(f)
    /\ ruleWrites' = {}
    /\ req' = [r \in Requests |-> IF req[r].st \in {"answered", "overtaken"} THEN req[r] ELSE NoRequest]
    /\ stage' = "idle" /\ asking' = {} /\ lease' = "none" /\ shown' = [t \in Tabs |-> {}]
    /\ UNCHANGED <<turnNo, consented>>

PermissionsNext ==
    \/ StartTurn \/ EchoDone \/ PromptSent \/ EndTurn \/ TurnSettled \/ CancelTurn
    \/ EngineExits \/ EngineRestarts \/ GatewayRestarts \/ \E n \in asking : PromptEnds(n)
    \/ \E r \in Requests : AskUnknown(r) \/ EngineAsks(r) \/ ByPolicy(r) \/ PolicyAnswers(r)
          \/ Register(r) \/ AskPorts(r) \/ LateAsk(r) \/ EngineWithdraws(r) \/ TimesOut(r)
    \/ \E t \in Tabs : Reissue(t) \/ \E r \in Requests : UserAnswers(t, r)
    \/ \E w \in ruleWrites : WriteRules(w)

PermissionsSpec == PermissionsInit /\ [][PermissionsNext]_permVars

-------------------------------------------------------------------------------
\* A request that was registered while a turn ran is pending only while
\* that turn runs; and if it is the turn's own, the backend is told, once
\* the sockets were asked, that the agent needs input, for as long as it
\* is open.  What was registered between turns stays open until somebody
\* answers or its timeout, and what an older prompt asks before the lease
\* is not told.
NeedsInputShown ==
    \A r \in OpenRequests : req[r].turn # 0 =>
        /\ Running /\ req[r].turn = turnNo
        /\ req[r].st = "asked" /\ req[r].from = turnNo => lease = "permission_pending"

\* What is approved without asking was allowed for good by a user before,
\* whatever restarts and torn rule files lay in between.
PolicyNeedsConsent ==
    \A r \in Requests : req[r].by = "policy" => req[r].tool \in consented

\* Both together: no question of a turn stays hidden, none is answered by
\* a rule nobody made.
PermissionPromises == NeedsInputShown /\ PolicyNeedsConsent
================================================================================
