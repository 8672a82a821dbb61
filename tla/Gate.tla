---------------------------------- MODULE Gate ----------------------------------
(***************************************************************************)
(* The access gate (gate.cjs) in front of the gateway and the file         *)
(* service, the workspace fence it shares with the gateway                 *)
(* (workspace-relay.cjs), and the gateway's end of a WebSocket (server.js, *)
(* ws-stream.js).  A one-time token buys a session cookie, a cookie admits *)
(* requests and upgrades, an admitted one is relayed to a private upstream *)
(* until either side goes.  Signatures, claims other than the expiry, and  *)
(* headers are abstracted: a token here is one that verifies.              *)
(***************************************************************************)
EXTENDS Naturals, Sequences

CONSTANTS Tokens,             \* the jti of every token the backend signs
          Relays,             \* client connections
          Skew, CookieAge,    \* CLOCK_SKEW_S, COOKIE_MAX_AGE_S
          MaxTime, MaxEpoch, MaxQueue

VARIABLES now, authDisabled,
          keyFile, gateKey,   \* the key file is written; the loader has it
          tokenExp,           \* token -> its exp claim
          usedJtis,           \* the tokens in the replay map
          grants,             \* token -> cookies it bought since the gate started
          cookie,             \* exp of the browser's cookie, 0 without one
          epoch, filesUp,     \* the file service: its workspace epoch, whether it answers
          relay, dispatched   \* connection -> its two ends; the broker got an overtaken message
gateVars == <<now, authDisabled, keyFile, gateKey, tokenExp, usedJtis, grants, cookie, epoch,
              filesUp, relay, dispatched>>
sessionVars == <<now, authDisabled, keyFile, tokenExp, usedJtis, grants, cookie>>
placeVars == <<epoch, filesUp>>

\* client: open, left (closed, its handlers still to run), over.
\* up: none, check (fence asked), pass, dial, open, gone, over.
\* queue: the epoch at which each message held for its check arrived.
NoRelay == [kind |-> "none", client |-> "open", up |-> "none", sent |-> FALSE, fence |-> 0,
            queue |-> <<>>, check |-> "none", alive |-> TRUE]

GateInit ==
    /\ now = 1 /\ authDisabled \in BOOLEAN /\ keyFile \in BOOLEAN /\ gateKey = FALSE
    /\ tokenExp \in [Tokens -> 1..2] /\ usedJtis = {} /\ grants = [t \in Tokens |-> 0]
    /\ cookie = 0 /\ epoch = 1 /\ filesUp = TRUE
    /\ relay = [c \in Relays |-> NoRelay] /\ dispatched = FALSE

-------------------------------------------------------------------------------
\* Sessions
LoadKey == gateKey' = (gateKey \/ (~authDisabled /\ keyFile))   \* cached once it is there

TokenExpired(t) == tokenExp[t] + Skew <= now

VerifyToken(t) == gateKey' /\ ~TokenExpired(t) /\ t \notin usedJtis

\* A slip: a used token is forgotten when it expires, without the skew.
PrunedAtExpiry(t) == {u \in usedJtis : tokenExp[u] > now} \cup {t}

Pruned(t) == {u \in usedJtis : ~TokenExpired(u)} \cup {t}   \* markJtiUsed

IssueCookie == cookie' = now + CookieAge

ExchangeToken(t) ==
    /\ VerifyToken(t) /\ usedJtis' = Pruned(t) /\ IssueCookie
    /\ grants' = [grants EXCEPT ![t] = @ + 1]

Exchange(t) ==   \* handleExchange: the verdict and the mark are one step, after the body was read
    /\ ~authDisabled /\ LoadKey /\ ExchangeToken(t)
    /\ UNCHANGED <<now, authDisabled, keyFile, tokenExp, relay, dispatched, placeVars>>

Logout == cookie' = 0 /\ UNCHANGED <<now, authDisabled, keyFile, gateKey, tokenExp, usedJtis, grants,
                                     relay, dispatched, placeVars>>

KeyWritten == ~keyFile /\ keyFile' = TRUE
              /\ UNCHANGED <<now, authDisabled, gateKey, tokenExp, usedJtis, grants, cookie, relay,
                             dispatched, placeVars>>

ClockTick == now < MaxTime /\ now' = now + 1
        /\ UNCHANGED <<authDisabled, keyFile, gateKey, tokenExp, usedJtis, grants, cookie, relay,
                       dispatched, placeVars>>

VerifyCookie == cookie > now

Authorize == authDisabled \/ (gateKey' /\ VerifyCookie)

AuthorizeUpgrade == authDisabled \/ (gateKey' /\ VerifyCookie)

-------------------------------------------------------------------------------
\* Relays
Become(c, r) == relay' = [relay EXCEPT ![c] = r] /\ UNCHANGED <<sessionVars, gateKey, dispatched, placeVars>>

AdmitRelay(c, r) ==
    /\ relay[c].kind = "none" /\ LoadKey /\ relay' = [relay EXCEPT ![c] = r]
    /\ UNCHANGED <<sessionVars, dispatched, placeVars>>

ProxyRequest(c) == AdmitRelay(c, [NoRelay EXCEPT !.kind = "http", !.up = "dial"]) /\ Authorize

HealthProbe(c) == /\ relay[c].kind = "none"   \* public: no cookie
                  /\ Become(c, [NoRelay EXCEPT !.kind = "health", !.up = "dial"])

\* The fence a client sends is the epoch it last saw; with none the check
\* is skipped.
ProxyUpgrade(c) ==
    \E fence \in 0..epoch :
       AdmitRelay(c, [NoRelay EXCEPT !.kind = "ws", !.fence = fence, !.up = IF fence = 0 THEN "pass" ELSE "check"])
          /\ AuthorizeUpgrade

Matches(fence) == fence = 0 \/ (filesUp /\ epoch = fence)   \* checkWorkspaceFence

FenceChecked(c) ==
    LET r == relay[c] IN
    /\ r.up = "check"
    /\ Become(c, IF Matches(r.fence) /\ r.client = "open" THEN [r EXCEPT !.up = "pass"]
                 ELSE [r EXCEPT !.up = "over", !.client = "over"])

\* A slip: a client that left meanwhile is dialled all the same.
MayDialAlways(r) == TRUE

MayDial(r) == r.client = "open"   \* if (!socket.destroyed)

FencePassed(c) ==   \* after the await: the client may have left during it
    /\ relay[c].up = "pass"
    /\ Become(c, [relay[c] EXCEPT !.up = IF MayDial(relay[c]) THEN "dial" ELSE "over"])

\* The gateway checks the fence of an upgrade again; a refusal comes back
\* as a response, which ends the socket.
UpstreamAnswers(c) ==
    LET r == relay[c] IN
    /\ r.up = "dial"
    /\ \/ r.kind = "http" /\ Become(c, [r EXCEPT !.up = "open", !.sent = TRUE])
       \/ r.kind = "ws" /\ Become(c, IF Matches(r.fence) THEN [r EXCEPT !.up = "open", !.sent = TRUE]
                                     ELSE [r EXCEPT !.up = "over", !.client = "over"])
       \/ r.kind = "health" /\ Become(c, [r EXCEPT !.up = "over", !.client = "over"])

UpstreamEnds(c) == /\ relay[c].kind = "http" /\ relay[c].up = "open"   \* the response is complete
                   /\ Become(c, [relay[c] EXCEPT !.up = "over", !.client = "over"])

UpstreamGone(c) == relay[c].up \in {"dial", "open"} /\ Become(c, [relay[c] EXCEPT !.up = "gone"])

\* The error handlers: 502, or 503 for a probe, before the headers; after
\* them the client is cut.  A socket is cut either way.
UpstreamHandlers(c) ==
    /\ relay[c].up = "gone"
    /\ Become(c, [relay[c] EXCEPT !.up = "over", !.client = "over", !.queue = <<>>])

ClientLeaves(c) == /\ relay[c].kind # "none" /\ relay[c].client = "open"
                   /\ Become(c, [relay[c] EXCEPT !.client = "left"])

\* The close handlers of the client's side: an upstream that was dialed is
\* destroyed, a check under way is aborted, a probe is left to its timeout.
ClientHandlers(c) ==
    LET r == relay[c] IN
    /\ r.client = "left"
    /\ Become(c, [r EXCEPT !.client = "over", !.queue = <<>>,
                           !.up = IF r.kind # "health" /\ r.up # "pass" THEN "over" ELSE r.up])

-------------------------------------------------------------------------------
\* The gateway's end of an open WebSocket
SocketLive(c) == relay[c].kind = "ws" /\ relay[c].up = "open"

EpochTick(c) ==   \* the gate's timer, for a fenced socket
    /\ SocketLive(c) /\ ~Matches(relay[c].fence)
    /\ Become(c, [relay[c] EXCEPT !.client = "over", !.up = "over", !.queue = <<>>])

Denied(r) == [r EXCEPT !.up = "gone", !.queue = <<>>, !.check = "none"]

MessageArrives(c) ==   \* read on a fenced socket: queued, its check pending
    /\ SocketLive(c) /\ relay[c].fence > 0
    /\ Become(c, IF Len(relay[c].queue) < MaxQueue THEN [relay[c] EXCEPT !.queue = Append(@, epoch)]
                 ELSE Denied(relay[c]))

\* A slip: the fence is checked when the connection opens, not per message.
AnswerOnce(r) == "ok"

AnswerMessage(r) == IF Matches(r.fence) THEN "ok" ELSE "bad"   \* beforeMessage: never cached

MessageChecked(c) ==   \* one check at a time, oldest message first
    /\ SocketLive(c) /\ relay[c].queue # <<>> /\ relay[c].check = "none"
    /\ Become(c, [relay[c] EXCEPT !.check = AnswerMessage(relay[c])])

MessageSettles(c) ==   \* the file service's answer arrives
    LET r == relay[c] IN
    /\ r.check # "none" /\ SocketLive(c)
    /\ relay' = [relay EXCEPT ![c] = IF r.check = "bad" THEN Denied(r)
                                     ELSE [r EXCEPT !.queue = Tail(@), !.check = "none"]]
    /\ dispatched' = (dispatched \/ (r.check = "ok" /\ Head(r.queue) # r.fence))
    /\ UNCHANGED <<sessionVars, gateKey, placeVars>>

PingTick(c) == /\ SocketLive(c)   \* terminated when the last ping had no pong
               /\ Become(c, IF relay[c].alive THEN [relay[c] EXCEPT !.alive = FALSE] ELSE Denied(relay[c]))

Pong(c) == /\ SocketLive(c) /\ ~relay[c].alive /\ relay[c].client = "open"
           /\ Become(c, [relay[c] EXCEPT !.alive = TRUE])

FilesRestart ==   \* the file service stops answering, or comes back with another workspace
    /\ \/ filesUp /\ filesUp' = FALSE /\ UNCHANGED epoch
       \/ ~filesUp /\ filesUp' = TRUE /\ epoch' \in {epoch, epoch + 1} /\ epoch' <= MaxEpoch
    /\ UNCHANGED <<sessionVars, gateKey, relay, dispatched>>

GateNext ==
    \/ Logout \/ KeyWritten \/ ClockTick \/ FilesRestart
    \/ \E t \in Tokens : Exchange(t)
    \/ \E c \in Relays :
          \/ ProxyRequest(c) \/ HealthProbe(c) \/ ProxyUpgrade(c) \/ FenceChecked(c) \/ FencePassed(c)
          \/ UpstreamAnswers(c) \/ UpstreamEnds(c) \/ UpstreamGone(c) \/ UpstreamHandlers(c)
          \/ ClientLeaves(c) \/ ClientHandlers(c) \/ EpochTick(c) \/ MessageArrives(c)
          \/ MessageChecked(c) \/ MessageSettles(c) \/ PingTick(c) \/ Pong(c)

GateSpec == GateInit /\ [][GateNext]_gateVars

-------------------------------------------------------------------------------
\* Three things the gate promises.  A token buys one cookie: it leaves the
\* replay map only when its expiry alone refuses it, to the same second.
\* Once a client's close handlers have run, nothing of its request or
\* socket is left open upstream, in whatever phase it left.
\* And a message that reached the gateway after the workspace changed is
\* never handed to the broker, although its check is answered before it is
\* dispatched and the epoch may move in between.
TokenBuysOnce == \A t \in Tokens : grants[t] <= 1
NothingLeftOpen == \A c \in Relays : relay[c].client = "over" /\ relay[c].kind # "health"
                      => relay[c].up \in {"over", "pass"}
NothingOvertaken == ~dispatched
GatePromises == TokenBuysOnce /\ NothingLeftOpen /\ NothingOvertaken
================================================================================
