----------------------------- MODULE ToolsRestart -----------------------------
(***************************************************************************)
(* An engine that started while the MCP server was down never gets its     *)
(* tools: once the MCP is up the broker restarts the engine, but never     *)
(* under a turn, an admission, a bind, a session/new or a configuration    *)
(* call, and at most MaxRestarts times in a window (session-broker.js).    *)
(* The wish is remembered in toolsRestart.wanted and tried again by what   *)
(* ends the use that was in its way.                                       *)
(***************************************************************************)
EXTENDS Naturals, FiniteSets

CONSTANTS Talks,          \* conversations
          MaxRestarts,    \* TOOLS_RESTART_MAX
          MaxUsers,       \* bound: session/new and configuration calls at once
          MaxToolEvents   \* bound: MCP and engine events

VARIABLES engine,         \* "down", "starting", "ready"
          tools,          \* engine.tools: "unknown", "connected", "missing"
          mcpReady,
          wanted, restarting, recent,   \* toolsRestart.wanted, running, at
          talk,           \* conversation -> "idle", "admitting", "running"
          binding,        \* conversations a load or resume is binding
          users,          \* engineUsers
          closing,        \* SessionBroker.closed
          slipped,        \* a bind ended with the wish left waiting
          toolEvents
toolVars == <<engine, tools, mcpReady, wanted, restarting, recent, talk, binding, users, closing,
              slipped, toolEvents>>

ToolsInit ==
    /\ engine = "starting" /\ tools = "unknown" /\ mcpReady \in BOOLEAN
    /\ wanted = FALSE /\ restarting = FALSE /\ recent = 0
    /\ talk = [c \in Talks |-> "idle"] /\ binding = {} /\ users = 0
    /\ closing = FALSE /\ slipped = FALSE /\ toolEvents = 0

ToolEvent == toolEvents < MaxToolEvents /\ toolEvents' = toolEvents + 1

InUse(tk, bn, us) == us > 0 \/ bn # {} \/ \E c \in Talks : tk[c] # "idle"

\* #maybeRestartForTools with the wish w, called in a state where tl are
\* the engine's tools, r says whether a restart runs and tk, bn, us are
\* the uses.  engine.restart leaves "ready" at once.
MaybeRestart(w, tl, r, tk, bn, us, e) ==
    /\ slipped' = FALSE
    /\ IF ~w \/ r \/ closing \/ InUse(tk, bn, us)
       THEN wanted' = w /\ restarting' = r /\ engine' = e /\ UNCHANGED recent
       ELSE IF tl # "missing" \/ recent >= MaxRestarts
       THEN wanted' = FALSE /\ restarting' = r /\ engine' = e /\ UNCHANGED recent
       ELSE wanted' = FALSE /\ restarting' = TRUE /\ recent' = recent + 1 /\ engine' = "starting"

Leave == UNCHANGED <<wanted, restarting, recent, engine, slipped>>

-------------------------------------------------------------------------------
\* Engine and MCP events
EngineReady ==   \* start or restart: "ready" fires inside the restart that caused it
    /\ engine = "starting"
    /\ \E tl \in {"connected", "missing", "unknown"} :
          /\ tools' = tl
          /\ IF tl = "missing" /\ mcpReady
             THEN MaybeRestart(TRUE, tl, restarting, talk, binding, users, "ready")
             ELSE engine' = "ready" /\ UNCHANGED <<wanted, restarting, recent, slipped>>
    /\ UNCHANGED <<mcpReady, talk, binding, users, closing, toolEvents>>

RestartEnds ==   \* finally, then once more while it is wanted
    /\ restarting /\ engine # "starting"
    /\ MaybeRestart(wanted, tools, FALSE, talk, binding, users, engine)
    /\ UNCHANGED <<tools, mcpReady, talk, binding, users, closing, toolEvents>>

EngineGone ==
    /\ ToolEvent /\ engine # "down" /\ engine' = "down" /\ tools' = "unknown"
    /\ UNCHANGED <<mcpReady, wanted, restarting, recent, talk, binding, users, closing, slipped>>

EngineStarts ==
    /\ engine = "down" /\ engine' = "starting"
    /\ UNCHANGED <<tools, mcpReady, wanted, restarting, recent, talk, binding, users, closing, slipped, toolEvents>>

ToolsChange ==   \* #onEngineTools
    /\ ToolEvent /\ engine = "ready"
    /\ \E tl \in {"connected", "missing"} \ {tools} :
          /\ tools' = tl
          /\ IF tl = "connected"
             THEN wanted' = FALSE /\ UNCHANGED <<restarting, recent, engine, slipped>>
             ELSE MaybeRestart(wanted \/ mcpReady, tl, restarting, talk, binding, users, engine)
    /\ UNCHANGED <<mcpReady, talk, binding, users, closing>>

McpReady ==
    /\ ToolEvent /\ ~mcpReady /\ mcpReady' = TRUE
    /\ IF engine = "ready" /\ tools = "missing"
       THEN MaybeRestart(TRUE, tools, restarting, talk, binding, users, engine) ELSE Leave
    /\ UNCHANGED <<tools, talk, binding, users, closing>>

McpExits ==
    /\ ToolEvent /\ mcpReady /\ mcpReady' = FALSE
    /\ UNCHANGED <<engine, tools, wanted, restarting, recent, talk, binding, users, closing, slipped>>

WindowPasses ==
    /\ recent > 0 /\ ToolEvent /\ recent' = 0
    /\ UNCHANGED <<engine, tools, mcpReady, wanted, restarting, talk, binding, users, closing, slipped>>

-------------------------------------------------------------------------------
\* Uses of the engine
AdmitPrompt(c) ==
    /\ talk[c] = "idle" /\ ~closing /\ talk' = [talk EXCEPT ![c] = "admitting"]
    /\ UNCHANGED <<engine, tools, mcpReady, wanted, restarting, recent, binding, users, closing, slipped, toolEvents>>

RunPrompt(c) ==
    /\ talk[c] = "admitting" /\ engine = "ready" /\ talk' = [talk EXCEPT ![c] = "running"]
    /\ UNCHANGED <<engine, tools, mcpReady, wanted, restarting, recent, binding, users, closing, slipped, toolEvents>>

\* A slip: the end of a prompt does not look at the restart again.
LeaveSilently(c) ==
    /\ talk[c] # "idle" /\ talk' = [talk EXCEPT ![c] = "idle"] /\ Leave
    /\ UNCHANGED <<tools, mcpReady, binding, users, closing, toolEvents>>

PromptLeaves(c) ==   \* the end of a turn, or the finally of a refused prompt
    /\ talk[c] # "idle" /\ talk' = [talk EXCEPT ![c] = "idle"]
    /\ MaybeRestart(wanted, tools, restarting, talk', binding, users, engine)
    /\ UNCHANGED <<tools, mcpReady, binding, users, closing, toolEvents>>

UserEnters ==   \* session/new, set_config_option
    /\ users < MaxUsers /\ ~closing /\ users' = users + 1
    /\ UNCHANGED <<engine, tools, mcpReady, wanted, restarting, recent, talk, binding, closing, slipped, toolEvents>>

UserLeaves ==
    /\ users > 0 /\ users' = users - 1
    /\ MaybeRestart(wanted, tools, restarting, talk, binding, users', engine)
    /\ UNCHANGED <<tools, mcpReady, talk, binding, closing, toolEvents>>

Bind(c) ==   \* session/load and resume: #bindIfReady
    /\ c \notin binding /\ engine = "ready" /\ binding' = binding \union {c}
    /\ UNCHANGED <<engine, tools, mcpReady, wanted, restarting, recent, talk, users, closing, slipped, toolEvents>>

Bound(c) ==   \* its end tries nothing
    /\ c \in binding /\ binding' = binding \ {c}
    /\ slipped' = (slipped \/ (wanted /\ ~InUse(talk, binding', users)))
    /\ UNCHANGED <<engine, tools, mcpReady, wanted, restarting, recent, talk, users, closing, toolEvents>>

Shutdown ==
    /\ ~closing /\ closing' = TRUE
    /\ UNCHANGED <<engine, tools, mcpReady, wanted, restarting, recent, talk, binding, users, slipped, toolEvents>>

ToolsNext ==
    \/ EngineReady \/ RestartEnds \/ EngineGone \/ EngineStarts \/ ToolsChange \/ McpReady
    \/ McpExits \/ WindowPasses \/ UserEnters \/ UserLeaves \/ Shutdown
    \/ \E c \in Talks : AdmitPrompt(c) \/ RunPrompt(c) \/ PromptLeaves(c) \/ Bind(c) \/ Bound(c)

ToolsSpec == ToolsInit /\ [][ToolsNext]_toolVars

-------------------------------------------------------------------------------
\* No lost wake-up: a restart that is wanted waits for something that will
\* try it again when it ends (a use of the engine, a restart under way),
\* unless the broker shuts down.  A load or resume is the exception: what
\* it delayed waits for the next event.
NoLostWakeup == wanted => restarting \/ closing \/ slipped \/ InUse(talk, binding, users)
================================================================================
